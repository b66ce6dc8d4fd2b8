--------------------------- MODULE SpoolQueueProofs ---------------------------
(***************************************************************************)
(* Proofs about SpoolQueue, for every record set, batch limit, compaction  *)
(* threshold and bound:                                                    *)
(*   TypeCorrect      the state is well typed, whatever windows are open   *)
(*   QueueInvariant   QueueInv is inductive when the windows are safe      *)
(*   NothingLost      hence NoLoss                                         *)
(*   NeverSteppedOver hence BehindCursor                                   *)
(*   TornInvariant    TornInv is inductive when lines may be torn and no   *)
(*                    other window is open                                 *)
(*   CorruptLinesHold, CountsExactly, GivesBackItsFile,                    *)
(*   NothingGarbledBehind                                                  *)
(*                    hence CorruptLineHolds, PendingExact,                *)
(*                    ReclaimedWhenEmpty and BehindCursor                  *)
(***************************************************************************)
EXTENDS SpoolQueue, SequenceTheorems, TLAPS

LEMMA FileLenNat ==
  ASSUME lines \in Seq(Line), tail \in Ending
  PROVE  /\ Content \in Seq(Line \cup Ending)
         /\ FileLen \in Nat
BY DEF Content, FileLen, Line

LEMMA ScanTailType ==
  ASSUME TypeOK, NEW c \in Cursor
  PROVE  ScanTail(c) \in Cursor
<1>1. FileLen \in Nat /\ Len(lines) \in Nat
  BY FileLenNat DEF TypeOK
<1>2. Start \in Cursor
  BY DEF Start, Cursor
<1>3. ASSUME NEW base \in Cursor
      PROVE  [offset  |-> base.offset,
              pending |-> base.pending + Minus(Len(lines), base.scanned),
              scanned |-> base.scanned + Minus(Len(lines), base.scanned)] \in Cursor
  BY <1>1 DEF Cursor, Minus
<1>. QED
  BY <1>1, <1>2, <1>3 DEF ScanTail

LEMMA DropTypes ==
  ASSUME TypeOK, NEW n \in Nat
  PROVE  DropOffset(n) \in Nat /\ DropPending(n) \in Nat
<1>1. FileLen \in Nat
  BY FileLenNat DEF TypeOK
<1>2. cursor.offset \in Nat /\ cursor.pending \in Nat
  BY DEF TypeOK, Cursor
<1>3. DropOffset(n) \in Nat
  BY <1>1, <1>2 DEF DropOffset, Least
<1>4. DropPending(n) \in Nat
  BY <1>2, <1>3 DEF DropPending, Minus
<1>. QED
  BY <1>3, <1>4

LEMMA SubSeqAt ==
  ASSUME NEW S, NEW s \in Seq(S), NEW k \in Nat, NEW m \in Nat, m <= Len(s),
         SubSeq(s, k + 1, m) # <<>>
  PROVE  /\ k + Len(SubSeq(s, k + 1, m)) <= Len(s)
         /\ \A i \in 1..Len(SubSeq(s, k + 1, m)) : SubSeq(s, k + 1, m)[i] = s[k + i]
<1>1. k + 1 <= m
  BY SubSeqEmpty
<1>2. \A i \in (k + 1)..m : s[i] \in S
  OBVIOUS
<1>3. /\ Len(SubSeq(s, k + 1, m)) = m - (k + 1) + 1
      /\ \A i \in 1..(m - (k + 1) + 1) : SubSeq(s, k + 1, m)[i] = s[(k + 1) + i - 1]
  BY <1>1, <1>2, SubSeqProperties
<1>4. /\ m - (k + 1) + 1 = m - k /\ k + (m - k) = m
      /\ \A i \in Int : (k + 1) + i - 1 = k + i
  OBVIOUS
<1>. DEFINE part == SubSeq(s, k + 1, m)
<1>5. Len(part) = m - k /\ \A i \in 1..(m - k) : part[i] = s[(k + 1) + i - 1]
  BY <1>3, <1>4
<1>. HIDE DEF part
<1>6. k + Len(part) <= Len(s)
  BY <1>4, <1>5
<1>7. ASSUME NEW i \in 1..Len(part) PROVE part[i] = s[k + i]
  <2>1. i \in 1..(m - k) /\ (k + 1) + i - 1 = k + i
    BY <1>5, <1>7
  <2>2. part[i] = s[(k + 1) + i - 1]
    BY <1>5, <2>1
  <2>. QED
    BY <2>1, <2>2
<1>. QED
  BY <1>6, <1>7 DEF part

LEMMA RangeSubseteqSeq ==
  ASSUME NEW S, NEW T, NEW s \in Seq(S), Range(s) \subseteq T
  PROVE  s \in Seq(T)
<1>1. s \in [1..Len(s) -> T] /\ Len(s) \in Nat
  BY LenProperties DEF Range
<1>. QED
  BY <1>1, SeqDef

(***************************************************************************)
(* Type correctness.                                                       *)
(***************************************************************************)
LEMMA AppendBatchesType ==
  ASSUME NEW b \in AppendBatches
  PROVE  b \in Seq(Record)
BY ConstantsOK DEF AppendBatches

LEMMA RangeInRecord ==
  ASSUME NEW s \in Seq(Record)
  PROVE  Range(s) \subseteq Record
BY DEF Range

LEMMA TypeStep ==
  ASSUME TypeOK, [Next]_vars
  PROVE  TypeOK'
<1>. USE ConstantsOK
<1>e. <<>> \in Seq(Line) /\ <<>> \in Seq(Record)
  BY EmptySeq
<1>0. Start \in Cursor /\ ScanTail(cursor) \in Cursor
  BY ScanTailType DEF TypeOK, Start, Cursor
<1>1. ASSUME NEW b \in AppendBatches, BeginAppend(b)
      PROVE  TypeOK'
  <2>1. b \in Seq(Record)
    BY AppendBatchesType
  <2>. QED
    BY <2>1, <1>1 DEF BeginAppend, TypeOK, PC, history
<1>2. CASE WriteRecord
  <2>1. Head(todo) \in Record /\ Tail(todo) \in Seq(Record)
    BY <1>2 DEF WriteRecord, TypeOK
  <2>2. lines' \in Seq(Line)
    BY <2>1, <1>2 DEF WriteRecord, TypeOK, Line
  <2>. QED
    BY <2>1, <2>2, <1>2 DEF WriteRecord, TypeOK, PC, Ending, history, bounds
<1>3. CASE TornWrite
  <2>1. Head(todo) \in Record
    BY <1>3 DEF TornWrite, TypeOK
  <2>2. tail' \in Ending
    BY <2>1, <1>3 DEF TornWrite, Ending
  <2>. QED
    BY <2>2, <1>3 DEF TornWrite, TypeOK, PC, history
<1>4. CASE AppendDone
  BY <1>4, <1>0, RangeInRecord DEF AppendDone, TypeOK, PC, file, bounds
<1>5. CASE Routes
  BY <1>5, <1>0 DEF Routes, TypeOK, PC, file, memory, history
<1>6. ASSUME NEW n \in 1..BatchLimit, PeekBatch(n)
      PROVE  TypeOK'
  <2>1. FileLen \in Nat /\ Content \in Seq(Line \cup Ending)
    BY FileLenNat DEF TypeOK
  <2>. DEFINE front == IF exists THEN SubSeq(Content, cursor.offset + 1,
                                      Least(cursor.offset + n, FileLen))
                          ELSE <<>>
  <2>2. front \in Seq(Line \cup Ending)
    BY <2>1 DEF TypeOK, Cursor, Least, FileLen
  <2>3. Readable(front) => front \in Seq(Record)
    BY <2>2, RangeSubseteqSeq DEF Readable
  <2>4. batch' \in Seq(Record)
    BY <2>3, <1>6 DEF PeekBatch, TypeOK
  <2>. QED
    BY <2>4, <1>6 DEF PeekBatch, TypeOK, PC, file, history, bounds
<1>7. CASE Deadline
  BY <1>7 DEF Deadline, TypeOK, PC, file, memory, history, bounds
<1>8. CASE PostAccepted
  BY <1>8, RangeInRecord DEF PostAccepted, TypeOK, PC, file, memory, bounds
<1>9. CASE PostUnheard
  BY <1>9, RangeInRecord DEF PostUnheard, TypeOK, PC, file, bounds
<1>10. CASE PostRefused
  BY <1>10 DEF PostRefused, TypeOK, PC, file, history, bounds
<1>11. CASE PostTooLarge
  BY <1>11 DEF PostTooLarge, TypeOK, PC, file, memory, history, bounds
<1>12. CASE ParkFront
  BY <1>12 DEF ParkFront, TypeOK, PC, file, memory, bounds
<1>13. CASE DropFront
  <2>1. Len(batch) \in Nat /\ Len(lines) \in Nat
    BY DEF TypeOK
  <2>2. DropOffset(Len(batch)) \in Nat /\ DropPending(Len(batch)) \in Nat
    BY <2>1, DropTypes
  <2>3. /\ todo' = todo /\ snap' = snap /\ durable' = durable /\ sent' = sent
        /\ parked' = parked /\ cleared' = cleared /\ appends' = appends
        /\ batch' = <<>>
    BY <1>13 DEF DropFront, history
  <2>4. CASE DropReclaim(Len(batch))
    <3>1. fresh' \in Cursor /\ cursor' \in Cursor /\ pc' \in PC
      BY <1>0, <2>4 DEF DropReclaim, TypeOK, PC
    <3>2. exists' \in BOOLEAN /\ lines' \in Seq(Line) /\ tail' \in Ending
      BY <1>e, <2>4 DEF DropReclaim, TypeOK, Ending, file
    <3>3. faults' \in 0..MaxFaults
      BY <2>4 DEF DropReclaim, TypeOK
    <3>. QED
      BY <2>3, <3>1, <3>2, <3>3, <1>e DEF TypeOK
  <2>5. CASE DropCompact(Len(batch))
    <3>1. lines' \in Seq(Line) /\ tail' \in Ending
      BY <2>1, <2>2, <2>5 DEF DropCompact, TypeOK, Ending
    <3>2. fresh' \in Cursor
      BY <2>2, <2>5 DEF DropCompact, TypeOK, Cursor, Minus
    <3>. QED
      BY <2>3, <2>5, <3>1, <3>2 DEF DropCompact, TypeOK, PC
  <2>6. CASE DropAdvance(Len(batch))
    <3>1. cursor' \in Cursor
      BY <2>2, <2>6 DEF DropAdvance, TypeOK, Cursor
    <3>. QED
      BY <2>3, <2>6, <3>1 DEF DropAdvance, TypeOK, PC, file
  <2>7. CASE ~exists /\ pc' = "lane" /\ UNCHANGED <<file, cursor, fresh, faults>>
    BY <2>3, <2>7 DEF TypeOK, PC, file
  <2>. QED
    BY <1>13, <2>4, <2>5, <2>6, <2>7 DEF DropFront
<1>14. CASE WriteCursor
  BY <1>14 DEF WriteCursor, TypeOK, PC, file, memory, history, bounds
<1>15. CASE Interrupt
  BY <1>15, <1>0 DEF Interrupt, TypeOK, PC, file, history
<1>16. CASE Clear
  BY <1>16, <1>0, <1>e DEF Clear, TypeOK, PC, Ending, memory, bounds
<1>17. CASE StatusScan
  BY <1>17, <1>0 DEF StatusScan, TypeOK, file, memory, history, bounds
<1>18. CASE StatusWrite
  BY <1>18 DEF StatusWrite, TypeOK, file, memory, history, bounds
<1>19. CASE UNCHANGED vars
  BY <1>19 DEF vars, TypeOK
<1>. QED
  BY <1>1, <1>2, <1>3, <1>4, <1>5, <1>6, <1>7, <1>8, <1>9, <1>10, <1>11, <1>12,
     <1>13, <1>14, <1>15, <1>16, <1>17, <1>18, <1>19 DEF Next, LockHolder, Drain

LEMMA InitTypeOK == Init => TypeOK
<1>0. <<>> \in Seq(Line) /\ <<>> \in Seq(Record)
  BY EmptySeq
<1>1. Start \in Cursor
  BY DEF Start, Cursor
<1>2. Init => /\ exists \in BOOLEAN
              /\ lines \in Seq(Line) /\ todo \in Seq(Record) /\ batch \in Seq(Record)
  BY <1>0 DEF Init
<1>3. Init => /\ appends \in 0..MaxAppends /\ faults \in 0..MaxFaults
  BY ConstantsOK DEF Init
<1>4. Init => /\ tail \in Ending /\ pc \in PC /\ cursor \in Cursor /\ fresh \in Cursor
              /\ snap \in Cursor \cup {NoSnap}
              /\ durable \subseteq Record /\ sent \subseteq Record
              /\ parked \subseteq Record /\ cleared \subseteq Record
  BY <1>1 DEF Init, PC, Ending
<1>. QED
  BY <1>2, <1>3, <1>4 DEF TypeOK

\* The state stays well typed whatever the environment does: every window may be
\* open, so this covers the crashes and races that NoLoss excludes.
THEOREM TypeCorrect == Spec => []TypeOK
<1>1. Init => TypeOK
  BY InitTypeOK
<1>2. TypeOK /\ [Next]_vars => TypeOK'
  BY TypeStep
<1>. QED
  BY <1>1, <1>2, PTL DEF Spec

(***************************************************************************)
(* The inductive invariant.                                                *)
(***************************************************************************)
LEMMA RangeAppend ==
  ASSUME NEW S, NEW s \in Seq(S), NEW e \in S
  PROVE  Range(Append(s, e)) = Range(s) \cup {e}
<1>1. /\ Len(s) \in Nat
      /\ DOMAIN s = 1..Len(s)
      /\ DOMAIN Append(s, e) = 1..(Len(s) + 1)
      /\ \A i \in 1..Len(s) : Append(s, e)[i] = s[i]
      /\ Append(s, e)[Len(s) + 1] = e
  OBVIOUS
<1>2. \A i \in 1..(Len(s) + 1) : Append(s, e)[i] \in Range(s) \cup {e}
  BY <1>1 DEF Range
<1>3. \A i \in 1..Len(s) : s[i] \in Range(Append(s, e))
  BY <1>1 DEF Range
<1>4. e \in Range(Append(s, e))
  BY <1>1 DEF Range
<1>. QED
  BY <1>1, <1>2, <1>3, <1>4 DEF Range

LEMMA RangeHeadTail ==
  ASSUME NEW S, NEW s \in Seq(S), s # <<>>
  PROVE  Range(s) = {Head(s)} \cup Range(Tail(s))
<1>1. /\ Len(s) \in Nat \ {0}
      /\ DOMAIN s = 1..Len(s)
      /\ DOMAIN Tail(s) = 1..(Len(s) - 1)
      /\ \A i \in 1..(Len(s) - 1) : Tail(s)[i] = s[i + 1]
      /\ Head(s) = s[1]
  BY EmptySeq
<1>2. ASSUME NEW i \in 1..Len(s)
      PROVE  s[i] \in {Head(s)} \cup Range(Tail(s))
  <2>1. CASE i = 1
    BY <1>1, <2>1
  <2>2. CASE i # 1
    <3>1. i - 1 \in 1..(Len(s) - 1) /\ Tail(s)[i - 1] = s[i]
      BY <1>1, <2>2
    <3>. QED
      BY <1>1, <3>1 DEF Range
  <2>. QED
    BY <2>1, <2>2
<1>3. ASSUME NEW i \in 1..(Len(s) - 1)
      PROVE  Tail(s)[i] \in Range(s)
  BY <1>1 DEF Range
<1>4. Head(s) \in Range(s)
  BY <1>1 DEF Range
<1>. QED
  BY <1>1, <1>2, <1>3, <1>4 DEF Range

LEMMA RangeOfLines ==
  ASSUME NEW S, NEW s \in Seq(S)
  PROVE  /\ Len(s) \in Nat
         /\ Range(s) = {s[i] : i \in 1..Len(s)}
BY DEF Range

\* What lies past position p is what the sequence holds from there on.
LEMMA RangeSuffix ==
  ASSUME NEW S, NEW s \in Seq(S), NEW p \in Nat, p <= Len(s)
  PROVE  \A i \in 1..Len(s) : i > p => s[i] \in Range(SubSeq(s, p + 1, Len(s)))
<1>. DEFINE rest == SubSeq(s, p + 1, Len(s))
<1>1. /\ Len(s) \in Nat
      /\ rest \in Seq(S)
      /\ Len(rest) = Len(s) - p
      /\ \A i \in 1..(Len(s) - p) : rest[i] = s[p + i]
  OBVIOUS
<1>. HIDE DEF rest
<1>2. ASSUME NEW i \in 1..Len(s), i > p
      PROVE  s[i] \in Range(rest)
  <2>1. i - p \in 1..(Len(s) - p) /\ p + (i - p) = i
    BY <1>1, <1>2
  <2>2. i - p \in 1..Len(rest) /\ rest[i - p] = s[i]
    BY <1>1, <2>1
  <2>. QED
    BY <1>1, <2>2, RangeOfLines
<1>. QED
  BY <1>2 DEF rest

\* With whole lines, a reader meets exactly the complete lines.
LEMMA ContentWhole ==
  ASSUME TypeOK, WholeLines
  PROVE  Content = lines /\ FileLen = Len(lines) /\ Len(lines) \in Nat
BY DEF TypeOK, WholeLines, Content, FileLen

\* A cursor inside the file survives the scan: the offset stays.
LEMMA ScanInFile ==
  ASSUME TypeOK, WholeLines,
         NEW c \in Cursor, c.offset <= Len(lines), c.scanned <= Len(lines)
  PROVE  /\ ScanTail(c).offset = c.offset
         /\ ScanTail(c).scanned <= Len(lines)
<1>1. FileLen = Len(lines) /\ Len(lines) \in Nat
  BY ContentWhole
<1>2. CASE exists
  BY <1>1, <1>2 DEF ScanTail, Cursor, Minus
<1>3. CASE ~exists
  <2>1. Len(lines) = 0
    BY <1>3, EmptySeq DEF WholeLines
  <2>. QED
    BY <1>3, <2>1 DEF ScanTail, Start, Cursor
<1>. QED
  BY <1>2, <1>3

LEMMA InvInit == Init => QueueInv
<1>. SUFFICES ASSUME Init PROVE QueueInv
  OBVIOUS
<1>1. TypeOK
  BY InitTypeOK
<1>2. Len(lines) = 0 /\ lines \in Seq(Record)
  BY EmptySeq DEF Init
<1>3. WholeLines /\ CursorInFile /\ SnapIsScan
  BY <1>2 DEF Init, WholeLines, CursorInFile, SnapIsScan, Rewriting, Start
<1>4. SettledBehind /\ BatchAtFront /\ WrittenOrToDo /\ Kept
  BY DEF Init, SettledBehind, BatchAtFront, WrittenOrToDo, Kept, Start
<1>. QED
  BY <1>1, <1>3, <1>4 DEF QueueInv

LEMMA CountersNat ==
  ASSUME TypeOK
  PROVE  /\ cursor.offset \in Nat /\ cursor.scanned \in Nat
         /\ Len(batch) \in Nat /\ Len(todo) \in Nat
<1>1. cursor \in Cursor /\ batch \in Seq(Record) /\ todo \in Seq(Record)
  BY DEF TypeOK
<1>2. cursor.offset \in Nat /\ cursor.scanned \in Nat
  BY <1>1 DEF Cursor
<1>. QED
  BY <1>1, <1>2

LEMMA LongerOrOne ==
  ASSUME NEW n \in Nat, n # 0
  PROVE  n > 1 \/ n = 1
OBVIOUS

LEMMA InvStep ==
  ASSUME SafeWindows, QueueInv, [Next]_vars
  PROVE  QueueInv'
<1>t. TypeOK /\ TypeOK'
  BY TypeStep DEF QueueInv
<1>w. WholeLines /\ CursorInFile /\ SnapIsScan /\ SettledBehind /\ BatchAtFront
      /\ WrittenOrToDo /\ Kept
  BY DEF QueueInv
<1>c. Content = lines /\ FileLen = Len(lines) /\ Len(lines) \in Nat
  BY <1>t, <1>w, ContentWhole
<1>n. /\ cursor.offset \in Nat /\ cursor.scanned \in Nat
      /\ Len(batch) \in Nat /\ Len(todo) \in Nat
  BY <1>t, CountersNat
<1>. DEFINE Parts == /\ WholeLines' /\ CursorInFile' /\ SettledBehind'
                     /\ BatchAtFront' /\ WrittenOrToDo' /\ Kept'
<1>1. ASSUME NEW b \in AppendBatches, BeginAppend(b)
      PROVE  Parts
  <2>1. ~Rewriting /\ ~Rewriting'
    BY <1>1 DEF BeginAppend, Rewriting
  <2>2. WholeLines' /\ CursorInFile' /\ SettledBehind'
    BY <1>1, <1>w, <2>1
       DEF BeginAppend, WholeLines, CursorInFile, SettledBehind, history
  <2>3. BatchAtFront' /\ WrittenOrToDo' /\ Kept'
    BY <1>1, <1>w DEF BeginAppend, BatchAtFront, WrittenOrToDo, Kept, history
  <2>. QED
    BY <2>2, <2>3
<1>2. ASSUME WriteRecord
      PROVE  Parts
  <2>1. ~Rewriting /\ ~Rewriting' /\ UNCHANGED <<cursor, sent, parked, durable, cleared, batch>>
    BY <1>2 DEF WriteRecord, Rewriting, history
  <2>2. lines' = Append(lines, Head(todo)) /\ tail' = NoTail /\ Head(todo) \in Record
    BY <1>2, <1>t, <1>w DEF WriteRecord, WholeLines, TypeOK
  <2>3. /\ lines' \in Seq(Record)
        /\ Len(lines') = Len(lines) + 1
        /\ \A i \in 1..Len(lines) : lines'[i] = lines[i]
    BY <2>2, <1>w DEF WholeLines
  <2>4. Range(lines') = Range(lines) \cup {Head(todo)}
    BY <2>2, <1>w, RangeAppend DEF WholeLines
  <2>5. Range(todo) = {Head(todo)} \cup Range(todo')
    BY <1>2, <1>t, RangeHeadTail DEF WriteRecord, TypeOK
  <2>6. WholeLines'
    BY <1>2, <1>w, <2>2, <2>3 DEF WholeLines, WriteRecord, WrittenOrToDo
  <2>7. CursorInFile' /\ SettledBehind'
    <3>1. cursor.offset <= Len(lines) /\ cursor.scanned <= Len(lines)
      BY <1>w, <2>1 DEF CursorInFile
    <3>2. CursorInFile'
      BY <1>c, <1>n, <2>1, <2>3, <3>1 DEF CursorInFile
    <3>3. \A i \in 1..cursor.offset : lines'[i] = lines[i]
      BY <1>c, <1>n, <2>3, <3>1
    <3>. QED
      BY <1>w, <2>1, <3>2, <3>3 DEF SettledBehind
  <2>8. BatchAtFront' /\ WrittenOrToDo'
    BY <1>2, <1>w, <2>1, <2>4, <2>5 DEF BatchAtFront, WrittenOrToDo, WriteRecord
  <2>9. Kept'
    BY <1>w, <2>1, <2>4 DEF Kept
  <2>. QED
    BY <2>6, <2>7, <2>8, <2>9
<1>3. ASSUME TornWrite
      PROVE  Parts
  BY <1>3 DEF TornWrite, SafeWindows
<1>4. ASSUME AppendDone
      PROVE  Parts
  <2>1. ~Rewriting /\ ~Rewriting' /\ UNCHANGED <<exists, lines, tail, sent, parked, cleared>>
    BY <1>4 DEF AppendDone, Rewriting, file
  <2>2. ScanTail(cursor).offset = cursor.offset /\ ScanTail(cursor).scanned <= Len(lines)
    BY <1>t, <1>w, <2>1, ScanInFile DEF CursorInFile, TypeOK
  <2>3. Range(todo) = {}
    BY <1>4 DEF AppendDone, Range
  <2>4. Range(batch) \subseteq Range(lines)
    BY <1>4, <1>w, <2>3 DEF WrittenOrToDo, AppendDone
  <2>5. WholeLines' /\ BatchAtFront' /\ WrittenOrToDo'
    BY <1>4, <1>w, <2>1 DEF WholeLines, BatchAtFront, WrittenOrToDo, AppendDone
  <2>6. CursorInFile' /\ SettledBehind'
    BY <1>4, <1>w, <2>1, <2>2 DEF CursorInFile, SettledBehind, AppendDone
  <2>7. Kept'
    BY <1>4, <1>w, <2>1, <2>4 DEF Kept, AppendDone
  <2>. QED
    BY <2>5, <2>6, <2>7
<1>5. ASSUME Routes
      PROVE  Parts
  <2>1. ~Rewriting /\ ~Rewriting' /\ UNCHANGED <<exists, lines, tail, sent, parked, cleared, durable>>
    BY <1>5 DEF Routes, Rewriting, file, history
  <2>2. ScanTail(cursor).offset = cursor.offset /\ ScanTail(cursor).scanned <= Len(lines)
    BY <1>t, <1>w, <2>1, ScanInFile DEF CursorInFile, TypeOK
  <2>3. cursor' = cursor \/ cursor' = ScanTail(cursor)
    BY <1>5 DEF Routes
  <2>4. pc' \in {"lane", "idle"}
    BY <1>5 DEF Routes
  <2>5. CursorInFile' /\ SettledBehind'
    BY <1>w, <2>1, <2>2, <2>3 DEF CursorInFile, SettledBehind
  <2>6. WholeLines' /\ BatchAtFront' /\ WrittenOrToDo' /\ Kept'
    BY <1>w, <2>1, <2>4 DEF WholeLines, BatchAtFront, WrittenOrToDo, Kept
  <2>. QED
    BY <2>5, <2>6
<1>6. ASSUME NEW n \in 1..BatchLimit, PeekBatch(n)
      PROVE  Parts
  <2>1. ~Rewriting /\ ~Rewriting'
        /\ UNCHANGED <<exists, lines, tail, cursor, sent, parked, cleared, durable>>
    BY <1>6 DEF PeekBatch, Rewriting, file, history
  <2>. DEFINE last == Least(cursor.offset + n, Len(lines))
  <2>2. pc' = "idle" \/ (pc' = "posting" /\ exists /\ batch' # <<>>
                         /\ batch' = SubSeq(lines, cursor.offset + 1, last))
    BY <1>6, <1>c DEF PeekBatch
  <2>3. last \in Nat /\ last <= Len(lines) /\ cursor.offset \in Nat
    BY <1>c, <1>n DEF Least
  <2>4. pc' = "posting" => /\ cursor.offset + Len(batch') <= Len(lines)
                          /\ \A i \in 1..Len(batch') : batch'[i] = lines[cursor.offset + i]
    <3>. SUFFICES ASSUME pc' = "posting"
                  PROVE  /\ cursor.offset + Len(batch') <= Len(lines)
                         /\ \A i \in 1..Len(batch') : batch'[i] = lines[cursor.offset + i]
      OBVIOUS
    <3>1. batch' = SubSeq(lines, cursor.offset + 1, last) /\ batch' # <<>>
      BY <2>2
    <3>2. lines \in Seq(Record)
      BY <1>w DEF WholeLines
    <3>. HIDE DEF last
    <3>. QED
      BY <3>1, <3>2, <2>3, SubSeqAt
  <2>5. BatchAtFront' /\ WrittenOrToDo'
    BY <2>1, <2>2, <2>4 DEF BatchAtFront, WrittenOrToDo
  <2>6. WholeLines' /\ CursorInFile' /\ SettledBehind' /\ Kept'
    BY <1>w, <2>1 DEF WholeLines, CursorInFile, SettledBehind, Kept
  <2>. QED
    BY <2>5, <2>6
<1>7. ASSUME Deadline \/ PostRefused
      PROVE  Parts
  <2>1. /\ ~Rewriting /\ ~Rewriting' /\ pc' = "idle"
        /\ UNCHANGED <<exists, lines, tail, cursor, sent, parked, cleared, durable>>
    BY <1>7 DEF Deadline, PostRefused, Rewriting, file, history
  <2>. QED
    BY <1>w, <2>1 DEF WholeLines, CursorInFile, SettledBehind, BatchAtFront, WrittenOrToDo, Kept
<1>8. ASSUME PostAccepted \/ PostUnheard
      PROVE  Parts
  <2>1. /\ ~Rewriting /\ ~Rewriting' /\ pc = "posting" /\ pc' \in {"posted", "idle"}
        /\ UNCHANGED <<exists, lines, tail, cursor, parked, cleared, durable>>
        /\ sent' = sent \cup Range(batch)
        /\ pc' = "posted" => batch' = batch
    BY <1>8 DEF PostAccepted, PostUnheard, Rewriting, file, memory
  <2>2. \A i \in 1..Len(batch) : batch[i] \in Range(batch)
    BY <1>t DEF TypeOK, Range
  <2>3. WholeLines' /\ CursorInFile' /\ SettledBehind' /\ WrittenOrToDo' /\ Kept'
    BY <1>w, <2>1 DEF WholeLines, CursorInFile, SettledBehind, WrittenOrToDo, Kept
  <2>4. BatchAtFront'
    BY <1>w, <2>1, <2>2 DEF BatchAtFront
  <2>. QED
    BY <2>3, <2>4
<1>9. ASSUME PostTooLarge
      PROVE  Parts
  <2>1. /\ ~Rewriting /\ ~Rewriting' /\ pc = "posting"
        /\ pc' = IF Len(batch) > 1 THEN "lane" ELSE "parking"
        /\ UNCHANGED <<exists, lines, tail, cursor, batch, sent, parked, cleared, durable>>
    BY <1>9 DEF PostTooLarge, Rewriting, file, memory, history
  <2>2. Len(batch) > 1 \/ Len(batch) = 1
    <3>1. batch # <<>> /\ batch \in Seq(Record)
      BY <1>w, <1>t, <2>1 DEF BatchAtFront, TypeOK
    <3>2. Len(batch) # 0
      BY <3>1, EmptySeq
    <3>. QED
      BY <1>n, <3>2, LongerOrOne
  <2>3. WholeLines' /\ CursorInFile' /\ SettledBehind' /\ WrittenOrToDo' /\ Kept'
    BY <1>w, <2>1 DEF WholeLines, CursorInFile, SettledBehind, WrittenOrToDo, Kept
  <2>4. BatchAtFront'
    BY <1>w, <2>1, <2>2 DEF BatchAtFront
  <2>. QED
    BY <2>3, <2>4
<1>10. ASSUME ParkFront
      PROVE  Parts
  <2>1. /\ ~Rewriting /\ ~Rewriting' /\ pc = "parking"
        /\ UNCHANGED <<exists, lines, tail, cursor, batch, sent, cleared, durable>>
    BY <1>10 DEF ParkFront, Rewriting, file, memory
  <2>2. /\ exists /\ Len(batch) = 1 /\ cursor.offset + 1 <= Len(lines)
        /\ batch[1] = lines[cursor.offset + 1] /\ batch # <<>>
    <3>1. /\ exists /\ batch # <<>> /\ Len(batch) = 1
          /\ cursor.offset + Len(batch) <= Len(lines)
          /\ \A i \in 1..Len(batch) : batch[i] = lines[cursor.offset + i]
      BY <1>w, <2>1 DEF BatchAtFront
    <3>2. 1 \in 1..Len(batch)
      BY <3>1
    <3>. QED
      BY <3>1, <3>2
  <2>3. batch[1] \in Record
    <3>1. batch \in Seq(Record) /\ 1 \in 1..Len(batch)
      BY <1>t, <2>2 DEF TypeOK
    <3>. QED
      BY <3>1
  <2>4. pc' = "posted" /\ parked' = parked \cup {batch[1]}
    BY <1>10, <1>c, <1>n, <2>2, <2>3 DEF ParkFront
  <2>5. WholeLines' /\ CursorInFile' /\ SettledBehind' /\ WrittenOrToDo' /\ Kept'
    BY <1>w, <2>1, <2>4 DEF WholeLines, CursorInFile, SettledBehind, WrittenOrToDo, Kept
  <2>6. BatchAtFront'
    BY <1>w, <2>1, <2>2, <2>4 DEF BatchAtFront
  <2>. QED
    BY <2>5, <2>6
<1>11. ASSUME DropFront
      PROVE  Parts
  <2>. DEFINE n == Len(batch)
              d == cursor.offset + n
  <2>1. /\ pc = "posted" /\ ~Rewriting /\ exists
        /\ UNCHANGED <<todo, snap, durable, sent, parked, cleared>>
    BY <1>11, <1>w DEF DropFront, Rewriting, BatchAtFront, history
  <2>2. /\ n \in Nat /\ cursor.offset \in Nat /\ cursor.scanned \in Nat
        /\ d \in Nat /\ d <= Len(lines)
    <3>1. cursor.offset + Len(batch) <= Len(lines)
      BY <1>w, <2>1 DEF BatchAtFront
    <3>. QED
      BY <1>n, <3>1
  <2>3. DropOffset(n) = d
    BY <1>c, <2>2 DEF DropOffset, Least
  <2>4. \A i \in 1..d : lines[i] \in sent \cup parked
    <3>. SUFFICES ASSUME NEW i \in 1..d
                  PROVE  lines[i] \in sent \cup parked
      OBVIOUS
    <3>1. CASE i <= cursor.offset
      BY <1>w, <2>1, <2>2, <3>1 DEF SettledBehind
    <3>2. CASE i > cursor.offset
      <4>1. i - cursor.offset \in 1..Len(batch) /\ cursor.offset + (i - cursor.offset) = i
        BY <2>2, <3>2
      <4>2. batch[i - cursor.offset] = lines[i] /\ batch[i - cursor.offset] \in sent \cup parked
        BY <1>w, <2>1, <4>1 DEF BatchAtFront
      <4>. QED
        BY <4>2
    <3>. QED
      BY <2>2, <3>1, <3>2
  <2>5. Range(lines) = {lines[i] : i \in 1..Len(lines)}
    BY <1>w, RangeOfLines DEF WholeLines
  <2>. HIDE DEF d, n
  <2>6. CASE DropReclaim(n)
    <3>1. pc' = "unlinked" /\ fresh' = Start
      BY <2>6 DEF DropReclaim
    <3>2. d = Len(lines)
      BY <1>c, <2>2, <2>3, <2>6 DEF DropReclaim, Drained
    <3>3. Range(lines) \subseteq sent \cup parked
      BY <2>4, <2>5, <3>2
    <3>4. \/ lines' = <<>> /\ tail' = NoTail /\ ~exists'
          \/ UNCHANGED <<exists, lines, tail>>
      BY <2>6 DEF DropReclaim, file
    <3>5. <<>> \in Seq(Record) /\ Len(<<>>) = 0
      BY EmptySeq
    <3>6. WholeLines'
      BY <1>w, <3>4, <3>5 DEF WholeLines
    <3>7. CursorInFile' /\ SettledBehind'
      BY <1>c, <3>1, <3>4, <3>5 DEF CursorInFile, SettledBehind, Rewriting, Start
    <3>8. BatchAtFront' /\ WrittenOrToDo'
      BY <3>1 DEF BatchAtFront, WrittenOrToDo
    <3>9. Kept'
      BY <1>w, <2>1, <3>3 DEF Kept
    <3>. QED
      BY <3>6, <3>7, <3>8, <3>9
  <2>7. CASE DropCompact(n)
    <3>1. /\ pc' = "compacted" /\ fresh'.offset = 0
          /\ fresh'.scanned = Minus(cursor.scanned, d)
          /\ exists' = exists
      BY <2>3, <2>7 DEF DropCompact
    <3>2. lines' = SubSeq(lines, d + 1, Len(lines)) /\ tail' = NoTail
      BY <1>w, <2>3, <2>7 DEF DropCompact, WholeLines
    <3>3. /\ lines' \in Seq(Record)
          /\ Len(lines') = Len(lines) - d
          /\ \A i \in 1..(Len(lines) - d) : lines'[i] = lines[d + i]
      BY <1>c, <1>w, <2>2, <3>2 DEF WholeLines
    <3>4. Range(lines) \subseteq Range(lines') \cup sent \cup parked
      <4>1. \A i \in 1..Len(lines) : i > d => lines[i] \in Range(lines')
        BY <1>w, <2>2, <3>2, RangeSuffix DEF WholeLines
      <4>. QED
        BY <1>c, <2>2, <2>4, <2>5, <4>1
    <3>5. WholeLines'
      BY <2>1, <3>1, <3>2, <3>3 DEF WholeLines
    <3>6. CursorInFile' /\ SettledBehind'
      BY <1>c, <1>w, <2>1, <2>2, <3>1, <3>3 DEF CursorInFile, SettledBehind, Rewriting, Minus
    <3>7. BatchAtFront' /\ WrittenOrToDo'
      BY <3>1 DEF BatchAtFront, WrittenOrToDo
    <3>8. Kept'
      BY <1>w, <2>1, <3>4 DEF Kept
    <3>. QED
      BY <3>5, <3>6, <3>7, <3>8
  <2>8. CASE DropAdvance(n)
    <3>1. /\ pc' = "lane" /\ UNCHANGED <<exists, lines, tail>>
          /\ cursor'.offset = d /\ cursor'.scanned = cursor.scanned
      BY <1>t, <2>3, <2>8 DEF DropAdvance, file, TypeOK, Cursor
    <3>2. CursorInFile' /\ SettledBehind'
      BY <1>w, <2>1, <2>2, <2>4, <3>1 DEF CursorInFile, SettledBehind, Rewriting
    <3>3. WholeLines' /\ BatchAtFront' /\ WrittenOrToDo' /\ Kept'
      BY <1>w, <2>1, <3>1 DEF WholeLines, BatchAtFront, WrittenOrToDo, Kept
    <3>. QED
      BY <3>2, <3>3
  <2>. QED
    BY <1>11, <2>1, <2>6, <2>7, <2>8 DEF DropFront, n
<1>12. ASSUME WriteCursor
      PROVE  Parts
  <2>1. /\ Rewriting /\ pc' = "lane" /\ cursor' = fresh
        /\ UNCHANGED <<exists, lines, tail, sent, parked, cleared, durable>>
    BY <1>12 DEF WriteCursor, Rewriting, file, history
  <2>2. fresh.offset = 0 /\ fresh.scanned <= Len(lines)
    BY <1>w, <2>1 DEF CursorInFile
  <2>. QED
    BY <1>c, <1>w, <2>1, <2>2
       DEF WholeLines, CursorInFile, SettledBehind, BatchAtFront, WrittenOrToDo, Kept, Rewriting
<1>13. ASSUME Interrupt
      PROVE  Parts
  <2>1. /\ ~Rewriting /\ pc' = "idle" /\ cursor' \in {cursor, Start}
        /\ UNCHANGED <<exists, lines, tail, sent, parked, cleared, durable>>
    BY <1>13 DEF Interrupt, Rewriting, SafeWindows, file, history
  <2>. QED
    BY <1>c, <1>w, <2>1
       DEF WholeLines, CursorInFile, SettledBehind, BatchAtFront, WrittenOrToDo, Kept,
           Rewriting, Start
<1>14. ASSUME Clear
      PROVE  Parts
  <2>1. /\ ~Rewriting /\ ~Rewriting' /\ pc' = "idle" /\ cursor' = Start
        /\ lines' = <<>> /\ tail' = NoTail
        /\ UNCHANGED <<sent, parked, durable>>
        /\ cleared' = cleared \cup (Waiting \cap Record)
    BY <1>14 DEF Clear, Rewriting
  <2>2. ScanTail(cursor).offset = cursor.offset /\ cursor.offset \in Nat
    BY <1>t, <1>w, <2>1, ScanInFile DEF CursorInFile, TypeOK, Cursor
  <2>3. Waiting = Range(SubSeq(lines, cursor.offset + 1, Len(lines)))
    BY <1>c, <2>1, <2>2 DEF Waiting, Queue, Position, From, Rewriting
  <2>4. Range(lines) \subseteq Waiting \cup sent \cup parked
    <3>1. Range(lines) = {lines[i] : i \in 1..Len(lines)}
      BY <1>w, RangeOfLines DEF WholeLines
    <3>. DEFINE rest == SubSeq(lines, cursor.offset + 1, Len(lines))
    <3>2. cursor.offset <= Len(lines)
      BY <1>w, <2>1 DEF CursorInFile
    <3>3. \A i \in 1..Len(lines) : i > cursor.offset => lines[i] \in Range(rest)
      BY <1>n, <1>w, <3>2, RangeSuffix DEF WholeLines
    <3>. HIDE DEF rest
    <3>4. Waiting = Range(rest)
      BY <2>3 DEF rest
    <3>5. \A i \in 1..Len(lines) : i <= cursor.offset => lines[i] \in sent \cup parked
      BY <1>c, <1>n, <1>w, <2>1 DEF SettledBehind
    <3>. QED
      BY <1>c, <1>n, <3>1, <3>3, <3>4, <3>5
  <2>5. Range(lines) \subseteq Record
    BY <1>w, RangeInRecord DEF WholeLines
  <2>6. Kept'
    BY <1>w, <2>1, <2>4, <2>5 DEF Kept
  <2>7. WholeLines' /\ CursorInFile' /\ SettledBehind'
    BY <2>1, EmptySeq DEF WholeLines, CursorInFile, SettledBehind, Start
  <2>8. BatchAtFront' /\ WrittenOrToDo'
    BY <2>1 DEF BatchAtFront, WrittenOrToDo
  <2>. QED
    BY <2>6, <2>7, <2>8
<1>15. ASSUME StatusScan
      PROVE  Parts
  <2>1. UNCHANGED <<exists, lines, tail, cursor, pc, fresh, batch, todo,
                    sent, parked, cleared, durable>>
    BY <1>15 DEF StatusScan, file, memory, history
  <2>. QED
    BY <1>w, <2>1
       DEF WholeLines, CursorInFile, SettledBehind, BatchAtFront, WrittenOrToDo, Kept, Rewriting
<1>16. ASSUME StatusWrite
      PROVE  Parts
  <2>1. /\ UNCHANGED <<exists, lines, tail, pc, fresh, batch, todo,
                       sent, parked, cleared, durable>>
        /\ cursor' = ScanTail(cursor)
    BY <1>16, <1>w DEF StatusWrite, SnapIsScan, file, memory, history
  <2>2. ~Rewriting => /\ ScanTail(cursor).offset = cursor.offset
                     /\ ScanTail(cursor).scanned <= Len(lines)
    BY <1>t, <1>w, ScanInFile DEF CursorInFile, TypeOK
  <2>. QED
    BY <1>w, <2>1, <2>2
       DEF WholeLines, CursorInFile, SettledBehind, BatchAtFront, WrittenOrToDo, Kept, Rewriting
<1>17. ASSUME UNCHANGED vars
      PROVE  Parts
  BY <1>17, <1>w
     DEF vars, WholeLines, CursorInFile, SettledBehind, BatchAtFront, WrittenOrToDo, Kept, Rewriting
<1>18. Parts
  BY <1>1, <1>2, <1>3, <1>4, <1>5, <1>6, <1>7, <1>8, <1>9, <1>10, <1>11, <1>12, <1>13,
     <1>14, <1>15, <1>16, <1>17 DEF Next, LockHolder, Drain
\* Without the status window the lock holder moves only when no scan is pending.
<1>19. SnapIsScan'
  <2>1. CASE LockHolder /\ (snap = NoSnap \/ "status" \in Windows)
    <3>1. snap = NoSnap
      BY <2>1 DEF SafeWindows
    <3>2. snap' = snap
      BY <2>1 DEF LockHolder, Drain, BeginAppend, WriteRecord, TornWrite, AppendDone, Routes,
         PeekBatch, Deadline, PostAccepted, PostUnheard, PostRefused, PostTooLarge, ParkFront,
         DropFront, WriteCursor, Interrupt, Clear
    <3>. QED
      BY <3>1, <3>2 DEF SnapIsScan
  <2>2. CASE StatusScan
    BY <2>2 DEF StatusScan, SnapIsScan, ScanTail, Content, FileLen, file
  <2>3. CASE StatusWrite
    BY <2>3 DEF StatusWrite, SnapIsScan
  <2>4. CASE UNCHANGED vars
    BY <1>w, <2>4 DEF vars, SnapIsScan, ScanTail, Content, FileLen
  <2>. QED
    BY <2>1, <2>2, <2>3, <2>4 DEF Next
<1>. QED
  BY <1>t, <1>18, <1>19 DEF QueueInv

\* What QueueInv gives of the cursor and of what waits, rewriting or not.
LEMMA PositionInFile ==
  ASSUME QueueInv
  PROVE  /\ Position \in Cursor
         /\ ScanTail(Position).offset = Position.offset
         /\ Position.offset \in Nat /\ Position.offset <= Len(lines)
         /\ \A i \in 1..Position.offset : lines[i] \in sent \cup parked
<1>1. TypeOK /\ WholeLines /\ CursorInFile /\ SettledBehind
  BY DEF QueueInv
<1>2. Len(lines) \in Nat
  BY <1>1, ContentWhole
<1>3. Position \in Cursor
  BY <1>1 DEF Position, TypeOK
<1>4. Position.offset <= Len(lines) /\ Position.scanned <= Len(lines)
  BY <1>1, <1>2 DEF Position, CursorInFile, Rewriting
<1>5. ScanTail(Position).offset = Position.offset
  BY <1>1, <1>3, <1>4, ScanInFile
<1>6. \A i \in 1..Position.offset : lines[i] \in sent \cup parked
  <2>1. CASE Rewriting
    BY <1>1, <2>1 DEF Position, CursorInFile, Rewriting
  <2>2. CASE ~Rewriting
    BY <1>1, <2>2 DEF Position, SettledBehind, Rewriting
  <2>. QED
    BY <2>1, <2>2
<1>. QED
  BY <1>3, <1>4, <1>5, <1>6 DEF Cursor

LEMMA InvNoLoss == QueueInv => NoLoss
<1>. SUFFICES ASSUME QueueInv PROVE NoLoss
  OBVIOUS
<1>1. TypeOK /\ WholeLines /\ Kept
  BY DEF QueueInv
<1>2. Content = lines /\ FileLen = Len(lines) /\ Len(lines) \in Nat
  BY <1>1, ContentWhole
<1>. DEFINE p == Position.offset
            rest == SubSeq(lines, p + 1, Len(lines))
<1>3. p \in Nat /\ p <= Len(lines) /\ \A i \in 1..p : lines[i] \in sent \cup parked
  BY PositionInFile
<1>4. Waiting = Range(rest)
  BY <1>2, PositionInFile DEF Waiting, Queue, From
<1>. HIDE DEF p
<1>6. \A i \in 1..Len(lines) : i > p => lines[i] \in Range(rest)
  BY <1>1, <1>3, RangeSuffix DEF WholeLines
<1>. HIDE DEF rest
<1>7. Range(lines) = {lines[i] : i \in 1..Len(lines)}
  BY <1>1, RangeOfLines DEF WholeLines
<1>8. Range(lines) \subseteq Range(rest) \cup sent \cup parked
  BY <1>2, <1>3, <1>6, <1>7
<1>. QED
  BY <1>1, <1>4, <1>8 DEF NoLoss, Kept

LEMMA InvBehindCursor == QueueInv => BehindCursor
<1>. SUFFICES ASSUME QueueInv PROVE BehindCursor
  OBVIOUS
<1>1. Len(lines) \in Nat
  BY ContentWhole DEF QueueInv
<1>2. Least(ScanTail(Position).offset, Len(lines)) = Position.offset
  BY <1>1, PositionInFile DEF Least
<1>. QED
  BY <1>2, PositionInFile DEF BehindCursor

\* QueueInv is inductive: between every two disk writes of append, drain,
\* drop_front and quarantine_front, and after any interruption in a safe window,
\* the file, the cursor and the batch in memory agree.
THEOREM QueueInvariant ==
  ASSUME SafeWindows
  PROVE  Spec => []QueueInv
<1>1. Init => QueueInv
  BY InvInit
<1>2. QueueInv /\ [Next]_vars => QueueInv'
  BY SafeWindows, InvStep
<1>. QED
  BY <1>1, <1>2, PTL DEF Spec

\* No record whose append returned Ok is ever lost: crashes, ignored write errors,
\* unheard answers, refusals and compactions included, in the safe windows.
THEOREM NothingLost ==
  ASSUME SafeWindows
  PROVE  Spec => []NoLoss
BY SafeWindows, QueueInvariant, InvNoLoss, PTL

\* Delivery never steps over a record: what is in front of the offset was accepted
\* or parked, in the safe windows.
THEOREM NeverSteppedOver ==
  ASSUME SafeWindows
  PROVE  Spec => []BehindCursor
BY SafeWindows, QueueInvariant, InvBehindCursor, PTL

-----------------------------------------------------------------------------
(* Torn lines: the count of what waits, the room a drained queue gives back, *)
(* and the line that stops its route                                         *)

\* What a reader meets: the complete lines, then the one without its newline.
LEMMA Meets ==
  ASSUME TypeOK
  PROVE  /\ Len(lines) \in Nat /\ FileLen \in Nat /\ Content \in Seq(Line \cup Ending)
         /\ FileLen = IF tail = NoTail THEN Len(lines) ELSE Len(lines) + 1
         /\ Len(lines) <= FileLen
         /\ \A i \in 1..Len(lines) : Content[i] = lines[i]
         /\ tail # NoTail => Content[FileLen] = tail
<1>1. lines \in Seq(Line) /\ tail \in Ending
  BY DEF TypeOK
<1>2. FileLen \in Nat /\ Content \in Seq(Line \cup Ending) /\ Len(lines) \in Nat
  BY <1>1, FileLenNat
<1>3. CASE tail = NoTail
  BY <1>2, <1>3 DEF Content, FileLen
<1>4. CASE tail # NoTail
  <2>1. Content = Append(lines, tail) /\ lines \in Seq(Line \cup Ending) /\ tail \in Line \cup Ending
    BY <1>1, <1>4 DEF Content
  <2>2. /\ Len(Append(lines, tail)) = Len(lines) + 1
        /\ \A i \in 1..Len(lines) : Append(lines, tail)[i] = lines[i]
        /\ Append(lines, tail)[Len(lines) + 1] = tail
    BY <2>1, AppendProperties
  <2>3. FileLen = Len(lines) + 1
    BY <2>1, <2>2 DEF FileLen
  <2>. QED
    BY <1>2, <1>4, <2>1, <2>2, <2>3
<1>. QED
  BY <1>2, <1>3, <1>4

\* A scan counts what was added, once, and leaves the offset where it is.
LEMMA Scanned ==
  ASSUME TypeOK, FileOrNothing, NEW c \in Cursor, Counted(c), c.scanned <= Len(lines)
  PROVE  /\ exists => ScanTail(c) = [offset |-> c.offset, pending |-> Len(lines) - c.offset,
                                     scanned |-> Len(lines)]
         /\ ~exists => ScanTail(c) = Start /\ Len(lines) = 0
         /\ ScanTail(c).offset = c.offset /\ Counted(ScanTail(c))
         /\ ScanTail(c).scanned <= Len(lines)
<1>1. Len(lines) \in Nat /\ FileLen \in Nat /\ Len(lines) <= FileLen
  BY Meets
<1>2. c.offset \in Nat /\ c.scanned \in Nat /\ c.pending \in Nat
  BY DEF Cursor
<1>3. CASE exists
  <2>1. ~(FileLen < c.scanned \/ FileLen < c.offset)
    BY <1>1, <1>2 DEF Counted
  <2>2. ScanTail(c) = [offset  |-> c.offset,
                       pending |-> c.pending + Minus(Len(lines), c.scanned),
                       scanned |-> c.scanned + Minus(Len(lines), c.scanned)]
    BY <1>3, <2>1 DEF ScanTail
  <2>3. Minus(Len(lines), c.scanned) = Len(lines) - c.scanned
    BY <1>1, <1>2 DEF Minus
  <2>4. /\ c.pending + Minus(Len(lines), c.scanned) = Len(lines) - c.offset
        /\ c.scanned + Minus(Len(lines), c.scanned) = Len(lines)
    BY <1>1, <1>2, <2>3 DEF Counted
  <2>5. ScanTail(c) = [offset |-> c.offset, pending |-> Len(lines) - c.offset,
                       scanned |-> Len(lines)]
    BY <2>2, <2>4
  <2>6. c.offset <= Len(lines)
    BY <1>1, <1>2 DEF Counted
  <2>. QED
    BY <1>1, <1>3, <2>5, <2>6 DEF Counted
<1>4. CASE ~exists
  <2>1. Len(lines) = 0
    BY <1>4, EmptySeq DEF FileOrNothing
  <2>2. c.offset = 0
    BY <1>2, <2>1 DEF Counted
  <2>3. ScanTail(c) = Start
    BY <1>4 DEF ScanTail
  <2>. QED
    BY <1>4, <2>1, <2>2, <2>3 DEF Start, Counted
<1>. QED
  BY <1>3, <1>4

LEMMA TornInit == Init => TornInv
<1>. SUFFICES ASSUME Init PROVE TornInv
  OBVIOUS
<1>1. TypeOK /\ Len(lines) = 0
  BY InitTypeOK, EmptySeq DEF Init
<1>2. FileOrNothing /\ SnapIsScan /\ BatchIsFront /\ LaneCounted
  BY DEF Init, FileOrNothing, SnapIsScan, BatchIsFront, LaneCounted
<1>3. Position = Start /\ ~Rewriting
  BY DEF Init, Position, Rewriting
<1>4. CursorCounts
  BY <1>1, <1>3 DEF CursorCounts, Counted, Start
<1>. QED
  BY <1>1, <1>2, <1>4 DEF TornInv

\* A step between two looks at the disk: the file stays, the cursor counts.
LEMMA FileStays ==
  ASSUME TornInv, UNCHANGED <<exists, lines, tail>>, ~Rewriting',
         pc' = "writing" => exists,
         Counted(cursor'), cursor'.scanned <= Len(lines),
         \A i \in 1..cursor'.offset : lines[i] \in sent' \cup parked'
  PROVE  FileOrNothing' /\ CursorCounts' /\ Content' = Content /\ FileLen' = FileLen
<1>1. FileOrNothing' /\ Content' = Content /\ FileLen' = FileLen
  BY DEF TornInv, FileOrNothing, Content, FileLen
<1>2. Position' = cursor'
  BY DEF Position, Rewriting
<1>. QED
  BY <1>1, <1>2 DEF CursorCounts, Counted

\* Outside a rewrite the cursor on disk is where delivery stands.
LEMMA CursorNow ==
  ASSUME TornInv, ~Rewriting
  PROVE  /\ Position = cursor /\ Counted(cursor) /\ cursor.scanned <= Len(lines)
         /\ \A i \in 1..cursor.offset : lines[i] \in sent \cup parked
         /\ cursor \in Cursor /\ cursor.offset \in Nat /\ cursor.scanned \in Nat
         /\ cursor.pending \in Nat /\ cursor.offset <= Len(lines)
<1>1. Position = cursor
  BY DEF Position, Rewriting
<1>2. cursor \in Cursor /\ Len(lines) \in Nat
  BY Meets DEF TornInv, TypeOK
<1>3. cursor.offset \in Nat /\ cursor.scanned \in Nat /\ cursor.pending \in Nat
  BY <1>2 DEF Cursor
<1>4. /\ Counted(cursor) /\ cursor.scanned <= Len(lines)
      /\ \A i \in 1..cursor.offset : lines[i] \in sent \cup parked
  BY <1>1 DEF TornInv, CursorCounts
<1>5. cursor.offset <= Len(lines)
  BY <1>2, <1>3, <1>4 DEF Counted
<1>. QED
  BY <1>1, <1>2, <1>3, <1>4, <1>5

\* The next record or a garbled line ends up behind the lines there are.
LEMMA TornWrites ==
  ASSUME TornInv, TypeOK', WriteRecord
  PROVE  /\ FileOrNothing' /\ CursorCounts' /\ BatchIsFront' /\ LaneCounted'
         /\ Len(lines') = Len(lines) + 1 /\ \A i \in 1..Len(lines) : lines'[i] = lines[i]
<1>1. /\ pc = "writing" /\ pc' = "writing" /\ ~Rewriting /\ ~Rewriting' /\ exists' = exists
      /\ cursor' = cursor /\ sent' = sent /\ parked' = parked
  BY DEF WriteRecord, Rewriting, history
<1>2. PICK e : lines' = Append(lines, e) /\ e \in Line
  <2>1. Head(todo) \in Record
    BY DEF WriteRecord, TornInv, TypeOK
  <2>. QED
    BY <2>1 DEF WriteRecord, Line
<1>3. /\ Len(lines) \in Nat /\ Len(lines') = Len(lines) + 1
      /\ \A i \in 1..Len(lines) : lines'[i] = lines[i]
  BY <1>2, Meets, AppendProperties DEF TornInv, TypeOK
<1>4. FileOrNothing'
  BY <1>1 DEF TornInv, FileOrNothing
<1>5. /\ Counted(cursor) /\ cursor.scanned <= Len(lines) /\ cursor.scanned \in Nat
      /\ cursor.offset \in Nat /\ cursor.offset <= Len(lines)
      /\ \A i \in 1..cursor.offset : lines[i] \in sent \cup parked
  BY <1>1, CursorNow
<1>6. \A i \in 1..cursor.offset : lines'[i] \in sent' \cup parked'
  BY <1>1, <1>3, <1>5
<1>7. Position' = cursor
  BY <1>1 DEF Position, Rewriting
<1>8. CursorCounts'
  <2>1. cursor.scanned <= Len(lines')
    BY <1>3, <1>5
  <2>. QED
    BY <1>1, <1>5, <1>6, <1>7, <2>1 DEF CursorCounts, Counted
<1>9. BatchIsFront' /\ LaneCounted'
  BY <1>1 DEF BatchIsFront, LaneCounted
<1>. QED
  BY <1>3, <1>4, <1>8, <1>9

\* drop_front: the batch is what the reader meets at the offset, so nothing is
\* dropped that was not settled.
LEMMA TornDrops ==
  ASSUME TornOnly, TornInv, TypeOK', DropFront
  PROVE  /\ FileOrNothing' /\ CursorCounts' /\ BatchIsFront' /\ LaneCounted'
         /\ exists' => \E d \in Nat :
              /\ cursor.offset <= d /\ d <= Len(lines)
              /\ \A i \in 1..d : lines[i] \in sent \cup parked
              /\ \/ lines' = SubSeq(lines, d + 1, Len(lines)) /\ Position'.offset = 0
                 \/ lines' = lines /\ Position'.offset = d
         /\ ~exists' => \A i \in 1..Len(lines) : lines[i] \in sent \cup parked
<1>. DEFINE n == Len(batch)
            d == cursor.offset + n
<1>1. /\ pc = "posted" /\ ~Rewriting /\ exists
      /\ sent' = sent /\ parked' = parked
  BY DEF DropFront, Rewriting, TornInv, BatchIsFront, history
<1>2. /\ Len(lines) \in Nat /\ FileLen \in Nat /\ Len(lines) <= FileLen
      /\ FileLen = IF tail = NoTail THEN Len(lines) ELSE Len(lines) + 1
      /\ \A i \in 1..Len(lines) : Content[i] = lines[i]
      /\ lines \in Seq(Line)
  BY Meets DEF TornInv, TypeOK
<1>3. /\ Counted(cursor) /\ cursor.scanned = Len(lines) /\ cursor \in Cursor
      /\ cursor.offset \in Nat /\ cursor.scanned \in Nat /\ cursor.pending \in Nat
      /\ cursor.offset <= Len(lines)
      /\ \A i \in 1..cursor.offset : lines[i] \in sent \cup parked
  BY <1>1, CursorNow DEF TornInv, LaneCounted
<1>4. /\ n \in Nat /\ batch \in Seq(Record) /\ cursor.offset + n <= FileLen
      /\ \A i \in 1..n : batch[i] = Content[cursor.offset + i] /\ batch[i] \in sent \cup parked
      /\ n # 0
  <2>1. batch \in Seq(Record) /\ batch # <<>>
    BY <1>1 DEF TornInv, TypeOK, BatchIsFront
  <2>2. n \in Nat /\ n # 0
    BY <2>1, EmptySeq
  <2>. QED
    BY <1>1, <2>1, <2>2 DEF TornInv, BatchIsFront
<1>5. d \in Nat /\ d <= FileLen /\ cursor.offset <= d /\ d > 0
  BY <1>3, <1>4
<1>6. \A i \in 1..d : i <= Len(lines) => lines[i] \in sent \cup parked
  <2>. SUFFICES ASSUME NEW i \in 1..d, i <= Len(lines) PROVE lines[i] \in sent \cup parked
    OBVIOUS
  <2>1. CASE i <= cursor.offset
    BY <1>3, <2>1
  <2>2. CASE i > cursor.offset
    <3>1. i - cursor.offset \in 1..n /\ cursor.offset + (i - cursor.offset) = i
      BY <1>3, <1>4, <2>2
    <3>2. Content[i] \in sent \cup parked
      BY <1>4, <3>1
    <3>. QED
      BY <1>2, <3>2
  <2>. QED
    BY <1>3, <2>1, <2>2
<1>7. DropOffset(n) = d
  BY <1>2, <1>3, <1>5 DEF DropOffset, Least
<1>8. DropPending(n) = IF d <= Len(lines) THEN Len(lines) - d ELSE 0
  <2>1. cursor.pending = Len(lines) - cursor.offset
    BY <1>3 DEF Counted
  <2>2. DropOffset(n) - cursor.offset = n
    BY <1>3, <1>4, <1>7
  <2>. HIDE DEF n
  <2>3. DropPending(n) = Minus(cursor.pending, n)
    BY <2>2 DEF DropPending
  <2>. QED
    BY <1>2, <1>3, <1>4, <2>1, <2>3 DEF Minus
<1>. HIDE DEF d, n
<1>9. ~Drained(n) => d <= Len(lines) /\ d < FileLen
  BY <1>2, <1>5, <1>7, <1>8 DEF Drained
<1>10. CASE DropReclaim(n)
  <2>1. ~exists' /\ lines' = <<>> /\ tail' = NoTail /\ pc' = "unlinked" /\ fresh' = Start
    BY <1>10 DEF DropReclaim, TornOnly
  <2>2. Position' = Start /\ Len(lines') = 0
    BY <2>1, EmptySeq DEF Position
  <2>3. CursorCounts'
    BY <2>2 DEF CursorCounts, Counted, Start
  <2>4. d >= Len(lines)
    BY <1>2, <1>5, <1>7, <1>8, <1>10 DEF DropReclaim, Drained
  <2>5. \A i \in 1..Len(lines) : lines[i] \in sent \cup parked
    BY <1>2, <1>5, <1>6, <2>4
  <2>. QED
    BY <2>1, <2>3, <2>5 DEF FileOrNothing, BatchIsFront, LaneCounted
<1>11. CASE DropCompact(n)
  <2>1. /\ pc' = "compacted" /\ exists' = exists /\ d <= Len(lines) /\ d < FileLen
        /\ lines' = SubSeq(lines, d + 1, Len(lines)) /\ tail' = tail
        /\ fresh' = [offset  |-> 0, pending |-> DropPending(n), scanned |-> Minus(cursor.scanned, d)]
    <3>1. ~Drained(n)
      BY <1>11 DEF DropCompact
    <3>2. ~(DropOffset(n) > Len(lines))
      BY <1>2, <1>5, <1>7, <1>9, <3>1
    <3>. QED
      BY <1>7, <1>9, <1>11, <3>1, <3>2 DEF DropCompact
  <2>2. /\ fresh'.offset = 0 /\ fresh'.pending = Len(lines) - d
        /\ fresh'.scanned = Len(lines) - d
    <3>1. Minus(cursor.scanned, d) = Len(lines) - d
      BY <1>2, <1>3, <1>5, <2>1 DEF Minus
    <3>. QED
      BY <1>8, <2>1, <3>1
  <2>3. Len(lines') = Len(lines) - d
    BY <1>2, <1>5, <2>1
  <2>4. Position' = fresh'
    BY <2>1 DEF Position
  <2>5. CursorCounts'
    <3>1. Counted(fresh') /\ fresh'.scanned <= Len(lines')
      BY <1>2, <1>5, <2>1, <2>2, <2>3 DEF Counted
    <3>2. \A i \in 1..fresh'.offset : lines'[i] \in sent' \cup parked'
      BY <2>2
    <3>. QED
      BY <2>2, <2>4, <3>1, <3>2 DEF CursorCounts, Counted
  <2>6. FileLen' > 0
    <3>1. FileLen' = IF tail = NoTail THEN Len(lines') ELSE Len(lines') + 1
      <4>1. lines' \in Seq(Line \cup Ending) /\ tail' \in Line \cup Ending
        BY DEF TypeOK
      <4>2. Len(Append(lines', tail')) = Len(lines') + 1
        BY <4>1, AppendProperties
      <4>. QED
        BY <2>1, <4>2 DEF FileLen, Content
    <3>. QED
      BY <1>2, <1>5, <2>1, <2>3, <3>1
  <2>7. FileOrNothing' /\ BatchIsFront' /\ LaneCounted'
    BY <1>1, <2>1, <2>2, <2>3, <2>6 DEF FileOrNothing, BatchIsFront, LaneCounted
  <2>. QED
    BY <1>1, <1>5, <1>6, <2>1, <2>2, <2>4, <2>5, <2>7
<1>12. CASE DropAdvance(n)
  <2>1. d <= Len(lines) /\ d < FileLen
    BY <1>9, <1>12 DEF DropAdvance
  <2>2. /\ pc' = "lane" /\ UNCHANGED <<exists, lines, tail>>
        /\ cursor' = [cursor EXCEPT !.offset = d, !.pending = Len(lines) - d]
    BY <1>7, <1>8, <1>12, <2>1 DEF DropAdvance, file
  <2>3. cursor'.offset = d /\ cursor'.pending = Len(lines) - d /\ cursor'.scanned = Len(lines)
    BY <1>3, <2>2 DEF Cursor
  <2>. DEFINE now == cursor'
  <2>4. ~Rewriting' /\ Position' = now
    BY <2>2 DEF Rewriting, Position
  <2>5. Counted(now) /\ now.scanned <= Len(lines)
    BY <1>2, <1>5, <2>1, <2>3 DEF Counted
  <2>6. FileOrNothing' /\ CursorCounts' /\ FileLen' = FileLen
    <3>1. \A i \in 1..now.offset : lines[i] \in sent' \cup parked'
      BY <1>1, <1>2, <1>5, <1>6, <2>1, <2>3
    <3>2. pc' = "writing" => exists
      BY <2>2
    <3>. QED
      BY <2>2, <2>4, <2>5, <3>1, <3>2, FileStays
  <2>7. BatchIsFront' /\ LaneCounted'
    BY <1>1, <2>1, <2>2, <2>3, <2>6 DEF BatchIsFront, LaneCounted
  <2>. QED
    BY <1>1, <1>2, <1>5, <1>6, <2>1, <2>2, <2>3, <2>4, <2>6, <2>7
<1>. QED
  BY <1>1, <1>10, <1>11, <1>12 DEF DropFront, n

LEMMA TornParts ==
  ASSUME TornOnly, TornInv, TypeOK', [Next]_vars
  PROVE  FileOrNothing' /\ CursorCounts' /\ BatchIsFront' /\ LaneCounted'
<1>. DEFINE Parts == FileOrNothing' /\ CursorCounts' /\ BatchIsFront' /\ LaneCounted'
<1>t. /\ TypeOK /\ FileOrNothing /\ CursorCounts /\ SnapIsScan /\ BatchIsFront /\ LaneCounted
  BY DEF TornInv
<1>m. /\ Len(lines) \in Nat /\ FileLen \in Nat /\ Len(lines) <= FileLen
  BY <1>t, Meets
<1>s. ~Rewriting =>
        /\ exists => ScanTail(cursor) = [offset |-> cursor.offset, pending |-> Len(lines) - cursor.offset,
                                         scanned |-> Len(lines)]
        /\ ~exists => ScanTail(cursor) = Start
        /\ ScanTail(cursor).offset = cursor.offset /\ Counted(ScanTail(cursor))
        /\ ScanTail(cursor).scanned <= Len(lines)
  BY <1>t, CursorNow, Scanned
<1>b. Counted(Start) /\ Start.offset = 0 /\ Start.scanned <= Len(lines)
  BY <1>m DEF Start, Counted
\* Steps that change neither the file nor the cursor, and ask nothing new of a batch.
<1>1. ASSUME UNCHANGED <<exists, lines, tail, cursor>>, ~Rewriting, ~Rewriting',
             pc' \in {"idle", "lane", "posting", "parking", "posted"},
             pc' # "idle" => pc \in {"lane", "posting", "parking", "posted"},
             sent \subseteq sent', parked \subseteq parked', BatchIsFront'
      PROVE  Parts
  <2>1. /\ Counted(cursor) /\ cursor.scanned <= Len(lines)
        /\ \A i \in 1..cursor.offset : lines[i] \in sent \cup parked
    BY <1>1, CursorNow
  <2>2. /\ Counted(cursor') /\ cursor'.scanned <= Len(lines)
        /\ \A i \in 1..cursor'.offset : lines[i] \in sent' \cup parked'
        /\ pc' = "writing" => exists
    BY <1>1, <2>1 DEF Counted
  <2>3. FileOrNothing' /\ CursorCounts' /\ FileLen' = FileLen
    BY <1>1, <2>2, FileStays
  <2>4. LaneCounted'
    BY <1>1, <1>t, <2>3 DEF LaneCounted
  <2>. QED
    BY <1>1, <2>3, <2>4
\* Steps after which nobody has a batch or a lane.
<1>2. ASSUME UNCHANGED <<exists, lines, tail, sent, parked>>, ~Rewriting, pc' \in {"idle", "writing"},
             pc' = "writing" => exists,
             cursor' \in {cursor, ScanTail(cursor), Start}
      PROVE  Parts
  <2>1. ~Rewriting' /\ BatchIsFront' /\ LaneCounted'
    BY <1>2 DEF Rewriting, BatchIsFront, LaneCounted
  <2>2. /\ Counted(cursor) /\ cursor.scanned <= Len(lines)
        /\ \A i \in 1..cursor.offset : lines[i] \in sent \cup parked
    BY <1>2, CursorNow
  <2>3. /\ Counted(cursor') /\ cursor'.scanned <= Len(lines)
        /\ \A i \in 1..cursor'.offset : lines[i] \in sent' \cup parked'
    BY <1>2, <1>s, <1>b, <2>2
  <2>4. FileOrNothing' /\ CursorCounts'
    BY <1>2, <2>1, <2>3, FileStays
  <2>. QED
    BY <2>1, <2>4
<1>3. ASSUME NEW b \in AppendBatches, BeginAppend(b)
      PROVE  Parts
  <2>1. /\ pc' = "writing" /\ exists' /\ UNCHANGED <<lines, tail, cursor, sent, parked>>
        /\ ~Rewriting /\ ~Rewriting'
    BY <1>3 DEF BeginAppend, Rewriting, history
  <2>2. Position = cursor /\ Position' = cursor
    BY <2>1 DEF Position, Rewriting
  <2>3. CursorCounts'
    BY <1>t, <2>1, <2>2 DEF CursorCounts, Counted
  <2>. QED
    BY <2>1, <2>3 DEF FileOrNothing, BatchIsFront, LaneCounted
<1>4. CASE WriteRecord
  BY <1>4, TornWrites
<1>5. CASE TornWrite
  <2>1. /\ pc = "writing" /\ pc' = "idle" /\ exists /\ UNCHANGED <<exists, lines, cursor, sent, parked>>
        /\ ~Rewriting /\ ~Rewriting'
    BY <1>5, <1>t DEF TornWrite, Rewriting, history, FileOrNothing
  <2>2. Position = cursor /\ Position' = cursor
    BY <2>1 DEF Position, Rewriting
  <2>3. CursorCounts'
    BY <1>t, <2>1, <2>2 DEF CursorCounts, Counted
  <2>. QED
    BY <2>1, <2>3 DEF FileOrNothing, BatchIsFront, LaneCounted
<1>6. CASE AppendDone
  <2>1. /\ pc' = "idle" /\ ~Rewriting /\ cursor' = ScanTail(cursor)
        /\ UNCHANGED <<exists, lines, tail, sent, parked>>
    BY <1>6 DEF AppendDone, Rewriting, file
  <2>. QED
    BY <1>2, <2>1
<1>7. CASE Routes
  <2>1. /\ ~Rewriting /\ cursor' = ScanTail(cursor) /\ UNCHANGED <<exists, lines, tail, sent, parked>>
        /\ pc' = IF ScanTail(cursor).pending > 0 THEN "lane" ELSE "idle"
    BY <1>7 DEF Routes, Rewriting, file, history, TornOnly
  <2>2. CASE pc' = "idle"
    BY <1>2, <2>1, <2>2
  <2>3. CASE pc' = "lane"
    <3>1. ScanTail(cursor).pending > 0 /\ cursor.offset \in Nat
      BY <2>1, <2>3, CursorNow
    <3>2. exists /\ ScanTail(cursor) = [offset |-> cursor.offset, pending |-> Len(lines) - cursor.offset,
                                        scanned |-> Len(lines)]
      <4>1. Start.pending = 0
        BY DEF Start
      <4>. QED
        BY <1>s, <2>1, <3>1, <4>1
    <3>. DEFINE now == cursor'
    <3>3. /\ now.offset = cursor.offset /\ now.scanned = Len(lines)
          /\ cursor.offset < Len(lines)
      BY <1>m, <2>1, <3>1, <3>2
    <3>4. /\ Counted(now) /\ now.scanned <= Len(lines)
          /\ \A i \in 1..now.offset : lines[i] \in sent' \cup parked'
      BY <1>s, <2>1, <3>3, CursorNow
    <3>5. FileOrNothing' /\ CursorCounts' /\ FileLen' = FileLen
      <4>1. ~Rewriting' /\ (pc' = "writing" => exists)
        BY <2>3 DEF Rewriting
      <4>. QED
        BY <2>1, <3>4, <4>1, FileStays
    <3>6. cursor'.scanned = Len(lines') /\ cursor'.offset < FileLen'
      <4>1. cursor.offset < FileLen
        BY <1>m, <3>1, <3>3
      <4>2. cursor'.scanned = Len(lines) /\ cursor'.offset = cursor.offset
        BY <3>3
      <4>. HIDE DEF now
      <4>. QED
        BY <2>1, <3>5, <4>1, <4>2
    <3>7. LaneCounted'
      BY <2>1, <2>3, <3>2, <3>6 DEF LaneCounted
    <3>. QED
      BY <2>3, <3>5, <3>7 DEF BatchIsFront
  <2>. QED
    BY <2>1, <2>2, <2>3
<1>8. ASSUME NEW k \in 1..BatchLimit, PeekBatch(k)
      PROVE  Parts
  <2>1. /\ pc = "lane" /\ ~Rewriting /\ UNCHANGED <<exists, lines, tail, cursor, sent, parked>>
    BY <1>8 DEF PeekBatch, Rewriting, file, history
  <2>2. Content' = Content /\ FileLen' = FileLen
    BY <2>1 DEF Content, FileLen
  <2>3. Content \in Seq(Line \cup Ending) /\ Len(Content) = FileLen /\ cursor.offset \in Nat
    BY <1>t, <2>1, Meets, CursorNow DEF FileLen
  <2>. DEFINE last == Least(cursor.offset + k, FileLen)
  <2>4. last \in Nat /\ last <= FileLen
    BY <1>m, <2>3 DEF Least
  <2>5. pc' = "idle" \/ (pc' = "posting" /\ exists /\ batch' # <<>>
                         /\ batch' = SubSeq(Content, cursor.offset + 1, last))
    BY <1>8 DEF PeekBatch
  <2>6. BatchIsFront'
    <3>1. CASE pc' = "idle"
      BY <3>1 DEF BatchIsFront
    <3>2. CASE pc' = "posting"
      <4>1. exists /\ batch' # <<>> /\ batch' = SubSeq(Content, cursor.offset + 1, last)
        BY <2>5, <3>2
      <4>. HIDE DEF last
      <4>2. /\ cursor.offset + Len(batch') <= FileLen
            /\ \A i \in 1..Len(batch') : batch'[i] = Content[cursor.offset + i]
        BY <2>3, <2>4, <4>1, SubSeqAt
      <4>. QED
        BY <2>1, <2>2, <3>2, <4>1, <4>2 DEF BatchIsFront
    <3>. QED
      BY <2>5, <3>1, <3>2
  <2>. QED
    BY <1>1, <2>1, <2>5, <2>6 DEF Rewriting
<1>9. CASE Deadline \/ PostRefused
  BY <1>2, <1>9 DEF Deadline, PostRefused, Rewriting, file, history
<1>10. CASE PostAccepted \/ PostUnheard
  <2>1. /\ ~Rewriting /\ ~Rewriting' /\ pc = "posting" /\ pc' \in {"posted", "idle"}
        /\ UNCHANGED <<exists, lines, tail, cursor, parked>>
        /\ sent' = sent \cup Range(batch)
        /\ pc' = "posted" => batch' = batch
    BY <1>10 DEF PostAccepted, PostUnheard, Rewriting, file, memory
  <2>2. \A i \in 1..Len(batch) : batch[i] \in Range(batch)
    BY <1>t DEF TypeOK, Range
  <2>3. Content' = Content /\ FileLen' = FileLen
    BY <2>1 DEF Content, FileLen
  <2>4. BatchIsFront'
    BY <1>t, <2>1, <2>2, <2>3 DEF BatchIsFront
  <2>. QED
    BY <1>1, <2>1, <2>4
<1>11. CASE PostTooLarge
  <2>1. /\ ~Rewriting /\ ~Rewriting' /\ pc = "posting"
        /\ pc' = IF Len(batch) > 1 THEN "lane" ELSE "parking"
        /\ UNCHANGED <<exists, lines, tail, cursor, batch, sent, parked>>
    BY <1>11 DEF PostTooLarge, Rewriting, file, memory, history
  <2>2. Len(batch) > 1 \/ Len(batch) = 1
    <3>1. batch # <<>> /\ batch \in Seq(Record)
      BY <1>t, <2>1 DEF BatchIsFront, TypeOK
    <3>2. Len(batch) \in Nat /\ Len(batch) # 0
      BY <3>1, EmptySeq
    <3>. QED
      BY <3>2, LongerOrOne
  <2>3. Content' = Content /\ FileLen' = FileLen
    BY <2>1 DEF Content, FileLen
  <2>4. BatchIsFront'
    BY <1>t, <2>1, <2>2, <2>3 DEF BatchIsFront
  <2>. QED
    BY <1>1, <2>1, <2>4
<1>12. CASE ParkFront
  <2>1. /\ ~Rewriting /\ ~Rewriting' /\ pc = "parking"
        /\ UNCHANGED <<exists, lines, tail, cursor, batch, sent>>
    BY <1>12 DEF ParkFront, Rewriting, file, memory
  <2>2. /\ exists /\ Len(batch) = 1 /\ cursor.offset < FileLen
        /\ batch[1] = Content[cursor.offset + 1] /\ batch # <<>> /\ cursor.offset \in Nat
    <3>1. /\ exists /\ batch # <<>> /\ Len(batch) = 1
          /\ \A i \in 1..Len(batch) : batch[i] = Content[cursor.offset + i]
      BY <1>t, <2>1 DEF BatchIsFront
    <3>2. 1 \in 1..Len(batch)
      BY <3>1
    <3>3. cursor.offset < FileLen
      BY <1>t, <2>1, <3>1 DEF LaneCounted
    <3>. QED
      BY <2>1, <3>1, <3>2, <3>3, CursorNow
  <2>3. batch[1] \in Record
    <3>1. batch \in Seq(Record) /\ 1 \in 1..Len(batch)
      BY <1>t, <2>2 DEF TypeOK
    <3>. QED
      BY <3>1
  <2>4. pc' = "posted" /\ parked' = parked \cup {batch[1]}
    BY <1>12, <1>m, <2>2, <2>3 DEF ParkFront
  <2>5. Content' = Content /\ FileLen' = FileLen
    BY <2>1 DEF Content, FileLen
  <2>6. BatchIsFront'
    BY <1>t, <2>1, <2>2, <2>4, <2>5 DEF BatchIsFront
  <2>. QED
    BY <1>1, <2>1, <2>4, <2>6
<1>13. CASE DropFront
  BY <1>13, TornDrops
<1>14. CASE WriteCursor
  <2>1. /\ Rewriting /\ ~Rewriting' /\ pc' = "lane" /\ cursor' = fresh
        /\ UNCHANGED <<exists, lines, tail, sent, parked>> /\ Position = fresh
    BY <1>14 DEF WriteCursor, Rewriting, file, history, Position
  <2>. DEFINE now == cursor'
  <2>2. /\ Counted(now) /\ now.scanned <= Len(lines) /\ now.offset = 0
        /\ \A i \in 1..now.offset : lines[i] \in sent' \cup parked'
    BY <1>t, <2>1 DEF CursorCounts
  <2>3. FileOrNothing' /\ CursorCounts' /\ FileLen' = FileLen
    <3>1. pc' = "writing" => exists
      BY <2>1
    <3>. QED
      BY <2>1, <2>2, <3>1, FileStays
  <2>4. ~exists => fresh = Start
    <3>1. ~exists => Len(lines) = 0
      BY <1>t, EmptySeq DEF FileOrNothing
    <3>2. fresh \in Cursor
      BY <1>t DEF TypeOK
    <3>3. ~exists => fresh.offset = 0 /\ fresh.scanned = 0 /\ fresh.pending = 0
      BY <2>1, <2>2, <3>1, <3>2 DEF Cursor, Counted
    <3>. QED
      BY <3>2, <3>3 DEF Cursor, Start
  <2>5. exists => pc = "compacted"
    BY <1>t, <2>1 DEF LaneCounted, Rewriting
  <2>6. LaneCounted'
    BY <1>t, <2>1, <2>2, <2>3, <2>4, <2>5 DEF LaneCounted
  <2>. QED
    BY <2>1, <2>3, <2>6 DEF BatchIsFront
<1>15. CASE Interrupt
  <2>1. /\ ~Rewriting /\ pc' = "idle" /\ cursor' \in {cursor, Start}
        /\ UNCHANGED <<exists, lines, tail, sent, parked>>
    BY <1>15 DEF Interrupt, Rewriting, TornOnly, file, history
  <2>. QED
    BY <1>2, <2>1
<1>16. CASE Clear
  <2>1. /\ pc' = "idle" /\ cursor' = Start /\ lines' = <<>> /\ tail' = NoTail /\ ~exists'
    BY <1>16 DEF Clear
  <2>2. Position' = Start /\ Len(lines') = 0 /\ ~Rewriting'
    BY <2>1, EmptySeq DEF Position, Rewriting
  <2>3. CursorCounts'
    BY <2>2 DEF CursorCounts, Counted, Start
  <2>. QED
    BY <2>1, <2>3 DEF FileOrNothing, BatchIsFront, LaneCounted
<1>17. CASE StatusScan
  BY <1>17, <1>t DEF StatusScan, file, memory, history, FileOrNothing, CursorCounts, Counted,
     BatchIsFront, LaneCounted, Position, Rewriting, Content, FileLen
<1>18. CASE StatusWrite
  <2>1. /\ cursor' = ScanTail(cursor) /\ UNCHANGED <<exists, lines, tail, fresh, pc, batch, sent, parked>>
    BY <1>18, <1>t DEF StatusWrite, SnapIsScan, file, memory, history
  <2>2. Content' = Content /\ FileLen' = FileLen
    BY <2>1 DEF Content, FileLen
  <2>3. CASE Rewriting
    BY <1>t, <2>1, <2>2, <2>3 DEF FileOrNothing, CursorCounts, Counted, BatchIsFront, LaneCounted,
       Position, Rewriting
  <2>4. CASE ~Rewriting
    <3>. DEFINE now == cursor'
    <3>1. /\ Counted(now) /\ now.scanned <= Len(lines) /\ now.offset = cursor.offset
          /\ \A i \in 1..now.offset : lines[i] \in sent' \cup parked'
      BY <1>s, <2>1, <2>4, CursorNow
    <3>2. ~Rewriting' /\ (pc' = "writing" => exists)
      BY <1>t, <2>1, <2>4 DEF Rewriting, FileOrNothing
    <3>3. FileOrNothing' /\ CursorCounts'
      BY <2>1, <3>1, <3>2, FileStays
    <3>4. BatchIsFront'
      BY <1>t, <2>1, <2>2, <3>1 DEF BatchIsFront
    <3>5. /\ exists => now.scanned = Len(lines)
          /\ ~exists => now = Start
      BY <1>s, <2>1, <2>4
    <3>6. LaneCounted'
      BY <1>t, <2>1, <2>2, <3>1, <3>5 DEF LaneCounted
    <3>. QED
      BY <3>3, <3>4, <3>6
  <2>. QED
    BY <2>3, <2>4
<1>19. CASE UNCHANGED vars
  BY <1>19, <1>t DEF vars, FileOrNothing, CursorCounts, Counted, BatchIsFront, LaneCounted,
     Position, Rewriting, Content, FileLen
<1>. QED
  BY <1>3, <1>4, <1>5, <1>6, <1>7, <1>8, <1>9, <1>10, <1>11, <1>12, <1>13, <1>14,
     <1>15, <1>16, <1>17, <1>18, <1>19 DEF Next, LockHolder, Drain

\* Without the status window the lock holder moves only when no scan is pending.
LEMMA SnapStep ==
  ASSUME "status" \notin Windows, SnapIsScan, [Next]_vars
  PROVE  SnapIsScan'
<1>1. CASE LockHolder /\ (snap = NoSnap \/ "status" \in Windows)
  <2>1. snap = NoSnap
    BY <1>1
  <2>2. snap' = snap
    BY <1>1 DEF LockHolder, Drain, BeginAppend, WriteRecord, TornWrite, AppendDone, Routes,
       PeekBatch, Deadline, PostAccepted, PostUnheard, PostRefused, PostTooLarge, ParkFront,
       DropFront, WriteCursor, Interrupt, Clear
  <2>. QED
    BY <2>1, <2>2 DEF SnapIsScan
<1>2. CASE StatusScan
  BY <1>2 DEF StatusScan, SnapIsScan, ScanTail, Content, FileLen, file
<1>3. CASE StatusWrite
  BY <1>3 DEF StatusWrite, SnapIsScan
<1>4. CASE UNCHANGED vars
  BY <1>4 DEF vars, SnapIsScan, ScanTail, Content, FileLen
<1>. QED
  BY <1>1, <1>2, <1>3, <1>4 DEF Next

LEMMA TornStep ==
  ASSUME TornOnly, TornInv, [Next]_vars
  PROVE  TornInv'
<1>1. TypeOK'
  BY TypeStep DEF TornInv
<1>2. SnapIsScan'
  BY SnapStep DEF TornInv, TornOnly
<1>. QED
  BY <1>1, <1>2, TornParts DEF TornInv

\* The file, the cursor and the batch in memory agree between every two disk writes,
\* unfinished and garbled lines included.
THEOREM TornInvariant ==
  ASSUME TornOnly
  PROVE  Spec => []TornInv
<1>1. TornInv /\ [Next]_vars => TornInv'
  BY TornOnly, TornStep
<1>. QED
  BY <1>1, TornInit, PTL DEF Spec

LEMMA WhereItStands ==
  ASSUME TornInv
  PROVE  /\ ScanTail(Position).offset = Position.offset
         /\ Position.offset \in Nat /\ Position.offset <= Len(lines)
         /\ exists => ScanTail(Position).pending = Len(lines) - Position.offset
         /\ ~exists => ScanTail(Position) = Start /\ Len(lines) = 0
<1>1. Position \in Cursor /\ Counted(Position) /\ Position.scanned <= Len(lines)
  BY DEF TornInv, TypeOK, Position, CursorCounts
<1>2. TypeOK /\ FileOrNothing /\ Len(lines) \in Nat
  BY Meets DEF TornInv
<1>. DEFINE p == Position
<1>3. /\ ScanTail(p).offset = p.offset
      /\ exists => ScanTail(p).pending = Len(lines) - p.offset
      /\ ~exists => ScanTail(p) = Start /\ Len(lines) = 0
  <2>. HIDE DEF p
  <2>1. p \in Cursor /\ Counted(p) /\ p.scanned <= Len(lines)
    BY <1>1 DEF p
  <2>. QED
    BY <1>2, <2>1, Scanned
<1>4. p.offset \in Nat /\ p.offset <= Len(lines)
  <2>. HIDE DEF p
  <2>1. p \in Cursor /\ Counted(p) /\ p.scanned <= Len(lines)
    BY <1>1 DEF p
  <2>. QED
    BY <1>2, <2>1 DEF Cursor, Counted
<1>. QED
  BY <1>3, <1>4

LEMMA SuffixAt ==
  ASSUME NEW S, NEW c \in Seq(S), NEW p \in Nat, p <= Len(c)
  PROVE  /\ SubSeq(c, p + 1, Len(c)) \in Seq(S)
         /\ Len(SubSeq(c, p + 1, Len(c))) = Len(c) - p
         /\ \A i \in 1..Len(c) - p : SubSeq(c, p + 1, Len(c))[i] = c[p + i]
OBVIOUS

Stuck == \E i \in 1..Len(lines) : i > Position.offset /\ lines[i] = Garbled

\* A garbled line that waits is one of the complete lines behind the offset.
LEMMA GarbledWaits ==
  ASSUME TornInv
  PROVE  Garbled \in Waiting <=> Stuck
<1>. DEFINE p == Position.offset
            rest == SubSeq(Content, p + 1, FileLen)
<1>1. p \in Nat /\ p <= Len(lines) /\ Waiting = Range(rest)
  BY WhereItStands DEF Waiting, Queue, From
<1>2. /\ Len(lines) \in Nat /\ FileLen \in Nat /\ Content \in Seq(Line \cup Ending)
      /\ Len(lines) <= FileLen /\ FileLen = Len(Content)
      /\ FileLen = IF tail = NoTail THEN Len(lines) ELSE Len(lines) + 1
      /\ \A i \in 1..Len(lines) : Content[i] = lines[i]
      /\ tail # NoTail => Content[FileLen] = tail
  BY Meets DEF TornInv, FileLen
<1>3. tail # Garbled
  BY ConstantsOK DEF TornInv, TypeOK, Ending
<1>. HIDE DEF p
<1>4. /\ rest \in Seq(Line \cup Ending) /\ Len(rest) = FileLen - p
      /\ \A i \in 1..FileLen - p : rest[i] = Content[p + i]
  <2>. DEFINE c == Content
  <2>1. p <= Len(c)
    BY <1>1, <1>2
  <2>2. c \in Seq(Line \cup Ending) /\ Len(c) = FileLen
    BY <1>2
  <2>3. rest = SubSeq(c, p + 1, Len(c))
    BY <2>2
  <2>. HIDE DEF rest, c
  <2>4. /\ rest \in Seq(Line \cup Ending) /\ Len(rest) = Len(c) - p
        /\ \A i \in 1..Len(c) - p : rest[i] = c[p + i]
    BY <1>1, <2>1, <2>2, <2>3, SuffixAt
  <2>. QED
    BY <2>2, <2>4 DEF c
<1>. HIDE DEF rest
<1>5. Range(rest) = {rest[i] : i \in 1..Len(rest)}
  BY <1>4, RangeOfLines
<1>6. ASSUME NEW i \in 1..Len(rest), rest[i] = Garbled
      PROVE  \E j \in 1..Len(lines) : j > p /\ lines[j] = Garbled
  <2>1. Content[p + i] = Garbled
    BY <1>4, <1>6
  <2>2. p + i \in 1..FileLen /\ p + i > p
    BY <1>1, <1>2, <1>4
  <2>3. p + i \in 1..Len(lines)
    BY <1>2, <1>3, <2>1, <2>2
  <2>. QED
    BY <1>2, <2>1, <2>2, <2>3
<1>7. ASSUME NEW j \in 1..Len(lines), j > p, lines[j] = Garbled
      PROVE  Garbled \in Range(rest)
  <2>1. j - p \in 1..Len(rest) /\ p + (j - p) = j
    BY <1>1, <1>2, <1>4, <1>7
  <2>2. rest[j - p] = Garbled
    BY <1>2, <1>4, <1>7, <2>1
  <2>. QED
    BY <1>5, <2>1, <2>2
<1>. QED
  BY <1>1, <1>5, <1>6, <1>7 DEF p, Stuck

\* What a step does to the lines behind the offset: it adds some, or takes settled
\* ones from their front, all of them if it removes a drained file.
LEMMA LinesBehind ==
  ASSUME TornOnly, TornInv, TornInv', [Next]_vars, pc # "idle" \/ exists',
         NEW i \in 1..Len(lines), i > Position.offset, lines[i] \notin sent \cup parked
  PROVE  \E j \in 1..Len(lines') : j > Position'.offset /\ lines'[j] = lines[i]
<1>t. TypeOK /\ TypeOK' /\ Len(lines) \in Nat
  BY Meets DEF TornInv
<1>p. Position.offset \in Nat
  BY WhereItStands
<1>1. ASSUME lines' = lines, Position'.offset = Position.offset \/ Position'.offset = 0
      PROVE  \E j \in 1..Len(lines') : j > Position'.offset /\ lines'[j] = lines[i]
  BY <1>1, <1>t
<1>2. CASE WriteRecord
  <2>1. /\ Len(lines') = Len(lines) + 1 /\ \A k \in 1..Len(lines) : lines'[k] = lines[k]
        /\ Position' = Position
    BY <1>2, <1>t, TornWrites DEF WriteRecord, Position
  <2>2. i \in 1..Len(lines') /\ lines'[i] = lines[i]
    BY <1>t, <2>1
  <2>. QED
    BY <2>1, <2>2
<1>3. CASE DropFront
  <2>0. exists'
    BY <1>3, <1>t, TornDrops
  <2>1. PICK d \in Nat :
          /\ d <= Len(lines) /\ \A k \in 1..d : lines[k] \in sent \cup parked
          /\ \/ lines' = SubSeq(lines, d + 1, Len(lines)) /\ Position'.offset = 0
             \/ lines' = lines /\ Position'.offset = d
    BY <1>3, <1>t, <2>0, TornDrops
  <2>2. i > d
    BY <1>t, <2>1
  <2>3. CASE lines' = lines /\ Position'.offset = d
    BY <2>2, <2>3
  <2>4. CASE lines' = SubSeq(lines, d + 1, Len(lines)) /\ Position'.offset = 0
    <3>1. lines \in Seq(Line)
      BY <1>t DEF TypeOK
    <3>2. /\ Len(lines') = Len(lines) - d
          /\ \A k \in 1..Len(lines) - d : lines'[k] = lines[d + k]
      BY <1>t, <2>1, <2>4, <3>1
    <3>3. i - d \in 1..Len(lines) - d /\ d + (i - d) = i
      BY <1>t, <2>1, <2>2
    <3>4. lines'[i - d] = lines[i] /\ i - d \in 1..Len(lines')
      BY <3>2, <3>3
    <3>5. i - d > Position'.offset
      BY <2>4, <3>3
    <3>. QED
      BY <3>4, <3>5
  <2>. QED
    BY <2>1, <2>3, <2>4
<1>4. CASE AppendDone
  <2>1. lines' = lines /\ cursor' = ScanTail(cursor) /\ Position = cursor /\ Position' = cursor'
    BY <1>4 DEF AppendDone, Position, file
  <2>2. Position'.offset = Position.offset
    BY <2>1, WhereItStands
  <2>. QED
    BY <1>1, <2>1, <2>2
<1>5. CASE Routes
  <2>1. lines' = lines /\ cursor' = ScanTail(cursor) /\ Position = cursor /\ Position' = cursor'
    BY <1>5 DEF Routes, Position, file, TornOnly
  <2>2. Position'.offset = Position.offset
    BY <2>1, WhereItStands
  <2>. QED
    BY <1>1, <2>1, <2>2
<1>6. CASE StatusWrite
  <2>1. lines' = lines /\ cursor' = ScanTail(cursor) /\ pc' = pc /\ fresh' = fresh
    BY <1>6 DEF StatusWrite, file, memory, TornInv, SnapIsScan
  <2>2. Position'.offset = Position.offset
    <3>1. CASE pc \in {"unlinked", "compacted"}
      BY <2>1, <3>1 DEF Position
    <3>2. CASE pc \notin {"unlinked", "compacted"}
      <4>1. Position = cursor /\ Position' = ScanTail(cursor)
        BY <2>1, <3>2 DEF Position
      <4>. QED
        BY <4>1, WhereItStands
    <3>. QED
      BY <3>1, <3>2
  <2>. QED
    BY <1>1, <2>1, <2>2
<1>7. CASE Interrupt
  <2>1. lines' = lines /\ Position = cursor /\ Position' \in {cursor, Start}
    BY <1>7 DEF Interrupt, Position, file, TornOnly
  <2>2. Start.offset = 0
    BY DEF Start
  <2>. QED
    BY <1>1, <2>1, <2>2
<1>8. CASE WriteCursor
  <2>1. lines' = lines /\ Position' = Position
    BY <1>8 DEF WriteCursor, Position, file
  <2>. QED
    BY <1>1, <2>1
<1>9. CASE Clear
  BY <1>9 DEF Clear
<1>10. ASSUME NEW b \in AppendBatches, BeginAppend(b)
       PROVE  lines' = lines /\ Position' = Position
  BY <1>10 DEF BeginAppend, Position
<1>11. ASSUME NEW n \in 1..BatchLimit, PeekBatch(n)
       PROVE  lines' = lines /\ Position' = Position
  BY <1>11 DEF PeekBatch, Position, file
<1>12. CASE TornWrite \/ Deadline \/ PostAccepted \/ PostUnheard \/ PostRefused \/ PostTooLarge
            \/ ParkFront \/ StatusScan \/ UNCHANGED vars
  <2>1. lines' = lines /\ Position' = Position
    BY <1>12 DEF TornWrite, Deadline, PostAccepted, PostUnheard, PostRefused, PostTooLarge,
       ParkFront, StatusScan, vars, Position, file, memory
  <2>. QED
    BY <1>1, <2>1
<1>. QED
  BY <1>1, <1>2, <1>3, <1>4, <1>5, <1>6, <1>7, <1>8, <1>9, <1>10, <1>11, <1>12
     DEF Next, LockHolder, Drain

\* A garbled line stops its route instead of being stepped over: no drain, removal of a
\* drained file, compaction, lost cursor or later append takes it out of what waits,
\* only clear-queue does.
THEOREM CorruptLinesHold ==
  ASSUME TornOnly
  PROVE  Spec => CorruptLineHolds
<1>1. TornInv /\ TornInv' /\ [Next]_vars /\ (pc # "idle" \/ exists') /\ Stuck => Stuck'
  <2>. SUFFICES ASSUME TornInv, TornInv', [Next]_vars, pc # "idle" \/ exists', Stuck PROVE Stuck'
    OBVIOUS
  <2>1. PICK i \in 1..Len(lines) : i > Position.offset /\ lines[i] = Garbled
    BY DEF Stuck
  <2>2. Garbled \notin sent \cup parked
    BY ConstantsOK DEF TornInv, TypeOK
  <2>3. \E j \in 1..Len(lines') : j > Position'.offset /\ lines'[j] = Garbled
    BY <2>1, <2>2, TornOnly, LinesBehind
  <2>. QED
    BY <2>3 DEF Stuck
<1>2. TornInv => (Garbled \in Waiting <=> Stuck)
  BY GarbledWaits
<1>3. Spec => []TornInv
  BY TornOnly, TornInvariant
<1>. DEFINE Waits == Garbled \in Waiting
            Exists == exists
            Busy == pc # "idle"
<1>4. TornInv /\ TornInv' /\ [Next]_vars /\ (Busy \/ Exists') /\ Waits => Waits'
  <2>1. (Exists' <=> exists') /\ (Busy <=> pc # "idle")
    BY DEF Exists, Busy
  <2>2. TornInv => (Waits <=> Stuck)
    BY <1>2 DEF Waits
  <2>. HIDE DEF Waits, Exists, Busy
  <2>. QED
    BY <1>1, <2>1, <2>2, PTL
<1>5. [(Busy \/ Exists') /\ Waits => Waits']_vars
        <=> [(pc # "idle" \/ exists') /\ Garbled \in Waiting => Garbled \in Waiting']_vars
  BY DEF Waits, Exists, Busy
<1>. HIDE DEF Waits, Exists, Busy
<1>. QED
  BY <1>3, <1>4, <1>5, PTL DEF Spec, CorruptLineHolds

\* The pending count a route reports, kept incrementally through appends, torn lines,
\* deliveries, compactions and lost cursors, is what a recount of the file would give.
THEOREM CountsExactly ==
  ASSUME TornOnly
  PROVE  Spec => []PendingExact
<1>1. TornInv => PendingExact
  BY WhereItStands DEF PendingExact, Start
<1>. QED
  BY <1>1, TornOnly, TornInvariant, PTL

\* A lane that takes another turn has something to send: a queue with nothing left has
\* given its file back.
THEOREM GivesBackItsFile ==
  ASSUME TornOnly
  PROVE  Spec => []ReclaimedWhenEmpty
<1>1. TornInv => ReclaimedWhenEmpty
  BY DEF TornInv, LaneCounted, ReclaimedWhenEmpty
<1>. QED
  BY <1>1, TornOnly, TornInvariant, PTL

\* What is in front of the offset was accepted or parked, also where lines were torn:
\* a garbled line never is.
THEOREM NothingGarbledBehind ==
  ASSUME TornOnly
  PROVE  Spec => []BehindCursor
<1>1. ASSUME TornInv
      PROVE  BehindCursor
  <2>1. /\ ScanTail(Position).offset = Position.offset
        /\ Position.offset \in Nat /\ Position.offset <= Len(lines) /\ Len(lines) \in Nat
    BY <1>1, WhereItStands, Meets DEF TornInv
  <2>2. Least(ScanTail(Position).offset, Len(lines)) = Position.offset
    BY <2>1 DEF Least
  <2>. QED
    BY <1>1, <2>2 DEF BehindCursor, TornInv, CursorCounts
<1>. QED
  BY <1>1, TornOnly, TornInvariant, PTL
=============================================================================
