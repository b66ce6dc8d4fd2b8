------------------------- MODULE QueueRefinementProofs -------------------------
(***************************************************************************)
(* SpoolQueue implements DurableQueue, for every record set, batch limit,  *)
(* compaction threshold and bound.  What waits is what the file holds past *)
(* the position of delivery; each step of the code appends to that, drops  *)
(* a settled prefix, puts a settled prefix back, or leaves it alone.       *)
(***************************************************************************)
EXTENDS SpoolQueueProofs

\* What a sequence holds past position p.
After(s, p) == SubSeq(s, p + 1, Len(s))

LEMMA AfterAt ==
  ASSUME NEW S, NEW s \in Seq(S), NEW p \in Nat, p <= Len(s)
  PROVE  /\ After(s, p) \in Seq(S)
         /\ Len(s) \in Nat
         /\ Len(After(s, p)) = Len(s) - p
         /\ \A i \in 1..(Len(s) - p) : After(s, p)[i] = s[p + i]
BY DEF After

\* A prefix that is dropped leaves what lies further on.
LEMMA AfterAfter ==
  ASSUME NEW S, NEW s \in Seq(S), NEW p \in Nat, NEW n \in Nat, p + n <= Len(s)
  PROVE  After(After(s, p), n) = After(s, p + n)
<1>1. p <= Len(s) /\ p + n \in Nat /\ n <= Len(s) - p
  OBVIOUS
<1>2. /\ After(s, p) \in Seq(S) /\ Len(s) \in Nat /\ Len(After(s, p)) = Len(s) - p
      /\ \A i \in 1..(Len(s) - p) : After(s, p)[i] = s[p + i]
  BY <1>1, AfterAt
<1>3. /\ After(s, p + n) \in Seq(S) /\ Len(After(s, p + n)) = Len(s) - (p + n)
      /\ \A i \in 1..(Len(s) - (p + n)) : After(s, p + n)[i] = s[(p + n) + i]
  BY <1>1, AfterAt
<1>. DEFINE t == After(s, p)
<1>4. t \in Seq(S) /\ n <= Len(t)
  BY <1>1, <1>2
<1>. HIDE DEF t
<1>5. /\ After(t, n) \in Seq(S) /\ Len(After(t, n)) = Len(t) - n
      /\ \A i \in 1..(Len(t) - n) : After(t, n)[i] = t[n + i]
  BY <1>4, AfterAt
<1>6. Len(After(t, n)) = Len(After(s, p + n))
  <2>1. Len(t) = Len(s) - p /\ Len(s) \in Nat
    BY <1>2 DEF t
  <2>2. Len(After(t, n)) = Len(t) - n /\ Len(After(s, p + n)) = Len(s) - (p + n)
    BY <1>3, <1>5
  <2>. QED
    BY <2>1, <2>2
<1>7. ASSUME NEW i \in 1..Len(After(t, n))
      PROVE  After(t, n)[i] = After(s, p + n)[i]
  <2>1. i \in 1..(Len(t) - n) /\ Len(t) = Len(s) - p
    BY <1>2, <1>5, <1>7 DEF t
  <2>2. n + i \in 1..(Len(s) - p) /\ i \in 1..(Len(s) - (p + n))
    BY <1>1, <1>2, <2>1
  <2>3. After(t, n)[i] = s[p + (n + i)] /\ After(s, p + n)[i] = s[(p + n) + i]
    BY <1>2, <1>3, <1>5, <2>1, <2>2 DEF t
  <2>4. p + (n + i) = (p + n) + i
    BY <2>1, <1>2
  <2>. QED
    BY <2>3, <2>4
<1>8. After(t, n) = After(s, p + n)
  BY <1>3, <1>5, <1>6, <1>7, SeqEqual
<1>. QED
  BY <1>8 DEF t

LEMMA AfterAppend ==
  ASSUME NEW S, NEW s \in Seq(S), NEW p \in Nat, p <= Len(s), NEW r \in S
  PROVE  After(Append(s, r), p) = Append(After(s, p), r)
<1>1. /\ After(s, p) \in Seq(S) /\ Len(s) \in Nat /\ Len(After(s, p)) = Len(s) - p
      /\ \A i \in 1..(Len(s) - p) : After(s, p)[i] = s[p + i]
  BY AfterAt
<1>. DEFINE t == After(s, p)
            u == Append(s, r)
<1>2. /\ u \in Seq(S) /\ Len(u) = Len(s) + 1 /\ p <= Len(u)
      /\ \A i \in 1..Len(s) : u[i] = s[i]
      /\ u[Len(s) + 1] = r
  BY <1>1
<1>3. /\ Append(t, r) \in Seq(S) /\ Len(Append(t, r)) = Len(t) + 1
      /\ \A i \in 1..Len(t) : Append(t, r)[i] = t[i]
      /\ Append(t, r)[Len(t) + 1] = r
  BY <1>1
<1>. HIDE DEF t, u
<1>4. /\ After(u, p) \in Seq(S) /\ Len(After(u, p)) = Len(u) - p
      /\ \A i \in 1..(Len(u) - p) : After(u, p)[i] = u[p + i]
  <2>1. u \in Seq(S) /\ p <= Len(u)
    BY <1>2
  <2>. QED
    BY <2>1, AfterAt
<1>5. Len(After(u, p)) = Len(Append(t, r)) /\ Len(t) = Len(s) - p
  BY <1>1, <1>2, <1>3, <1>4 DEF t
<1>6. ASSUME NEW i \in 1..Len(After(u, p))
      PROVE  After(u, p)[i] = Append(t, r)[i]
  <2>1. CASE i = Len(t) + 1
    <3>1. p + i = Len(s) + 1
      BY <1>1, <1>5, <2>1
    <3>. QED
      BY <1>2, <1>3, <1>4, <2>1, <3>1
  <2>2. CASE i # Len(t) + 1
    <3>1. i \in 1..Len(t) /\ i \in 1..(Len(s) - p) /\ p + i \in 1..Len(s)
      <4>1. i \in 1..(Len(t) + 1) /\ Len(t) = Len(s) - p /\ Len(s) \in Nat
        BY <1>1, <1>3, <1>5, <1>6
      <4>. QED
        BY <2>2, <4>1
    <3>2. t[i] = s[p + i]
      BY <1>1, <3>1 DEF t
    <3>. QED
      BY <1>2, <1>3, <1>4, <3>1, <3>2
  <2>. QED
    BY <2>1, <2>2
<1>7. After(u, p) = Append(t, r)
  BY <1>3, <1>4, <1>5, <1>6, SeqEqual
<1>. QED
  BY <1>7 DEF t, u

\* What waits, as long as the invariant holds.
QueueShape ==
  /\ Queue = After(lines, Position.offset)
  /\ lines \in Seq(Record)
  /\ Position.offset \in Nat
  /\ Position.offset <= Len(lines)

LEMMA InvShape == QueueInv => QueueShape
<1>. SUFFICES ASSUME QueueInv PROVE QueueShape
  OBVIOUS
<1>1. Content = lines /\ FileLen = Len(lines) /\ lines \in Seq(Record)
  BY ContentWhole DEF QueueInv, WholeLines
<1>. QED
  BY <1>1, PositionInFile DEF QueueShape, Queue, From, After

LEMMA QueueIs ==
  ASSUME QueueInv
  PROVE  /\ Queue = After(lines, Position.offset)
         /\ lines \in Seq(Record)
         /\ Position.offset \in Nat /\ Position.offset <= Len(lines)
BY InvShape DEF QueueShape

LEMMA QueueIsNext ==
  ASSUME QueueInv'
  PROVE  /\ Queue' = After(lines', Position'.offset)
         /\ lines' \in Seq(Record)
         /\ Position'.offset \in Nat /\ Position'.offset <= Len(lines')
<1>1. QueueShape'
  BY InvShape, PTL
<1>. QED
  BY <1>1 DEF QueueShape, After

LEMMA SameRange == \A s : DQ!Range(s) = Range(s)
BY DEF DQ!Range, Range

\* Between two writes of drop_front what waits is counted from its new cursor.
LEMMA PositionIs ==
  /\ ~Rewriting => Position = cursor
  /\ Rewriting => Position = fresh
  /\ ~Rewriting' => Position' = cursor'
  /\ Rewriting' => Position' = fresh'
BY DEF Position, Rewriting

LEMMA RefinesInit == Init => DQ!Init
<1>. SUFFICES ASSUME Init PROVE DQ!Init
  OBVIOUS
<1>1. QueueInv
  BY InvInit
<1>2. Queue = After(<<>>, 0)
  BY <1>1, QueueIs DEF Init, Position, Start
<1>3. After(<<>>, 0) = <<>>
  BY EmptySeq, SubSeqEmpty DEF After
<1>. QED
  BY <1>2, <1>3 DEF Init, DQ!Init

\* The file and the position stand: so does what waits.
LEMMA SameQueue ==
  ASSUME QueueInv, QueueInv', lines' = lines, Position'.offset = Position.offset
  PROVE  Queue' = Queue
BY QueueIs, QueueIsNext

\* A batch in memory is a prefix of what waits.
LEMMA BatchIsPrefix ==
  ASSUME QueueInv, pc \in {"posting", "parking", "posted"}
  PROVE  /\ Len(batch) \in 1..Len(Queue)
         /\ Len(Queue) = Len(lines) - cursor.offset
         /\ SubSeq(Queue, 1, Len(batch)) = batch
         /\ Queue = After(lines, cursor.offset)
<1>1. /\ Position = cursor /\ Queue = After(lines, cursor.offset) /\ lines \in Seq(Record)
      /\ cursor.offset \in Nat /\ cursor.offset <= Len(lines) /\ Len(lines) \in Nat
  BY QueueIs DEF Position
<1>2. /\ batch \in Seq(Record) /\ batch # <<>>
      /\ cursor.offset + Len(batch) <= Len(lines)
      /\ \A i \in 1..Len(batch) : batch[i] = lines[cursor.offset + i]
  BY DEF QueueInv, TypeOK, BatchAtFront
<1>3. /\ Queue \in Seq(Record) /\ Len(Queue) = Len(lines) - cursor.offset
      /\ \A i \in 1..(Len(lines) - cursor.offset) : Queue[i] = lines[cursor.offset + i]
  BY <1>1, AfterAt
<1>4. Len(batch) \in Nat \ {0}
  BY <1>2, EmptySeq
<1>5. Len(batch) \in 1..Len(Queue)
  BY <1>1, <1>2, <1>3, <1>4
<1>. DEFINE front == SubSeq(Queue, 1, Len(batch))
<1>6. /\ front \in Seq(Record) /\ Len(front) = Len(batch)
      /\ \A i \in 1..Len(batch) : front[i] = Queue[i]
  BY <1>3, <1>4, <1>5
<1>. HIDE DEF front
<1>7. \A i \in 1..Len(batch) : front[i] = batch[i]
  BY <1>1, <1>2, <1>3, <1>4, <1>5, <1>6
<1>8. front = batch
  BY <1>2, <1>6, <1>7, SeqEqual
<1>. QED
  BY <1>1, <1>3, <1>5, <1>8 DEF front

\* A position that goes back to the start of the file brings settled records back.
LEMMA BackToStart ==
  ASSUME QueueInv, QueueInv', lines' = lines, Position'.offset = 0,
         UNCHANGED <<durable, sent, parked, cleared>>
  PROVE  [DQ!Next]_(DQ!vars)
<1>. DEFINE p == Position.offset
<1>1. /\ Queue = After(lines, p) /\ Queue' = After(lines, 0) /\ lines \in Seq(Record)
      /\ p \in Nat /\ p <= Len(lines)
      /\ \A i \in 1..p : lines[i] \in sent \cup parked
  BY QueueIs, QueueIsNext, PositionInFile
<1>. HIDE DEF p
<1>2. After(lines, 0) = lines
  BY <1>1, SubSeqFull DEF After
<1>3. CASE p = 0
  BY <1>1, <1>3 DEF DQ!vars
<1>4. CASE p # 0
  <2>1. p \in 1..Len(Queue') /\ Queue' \in Seq(Record)
    BY <1>1, <1>2, <1>4
  <2>2. SubSeq(Queue', p + 1, Len(Queue')) = Queue
    BY <1>1, <1>2 DEF After
  <2>3. Range(SubSeq(Queue', 1, p)) \subseteq sent \cup parked
    <3>. DEFINE front == SubSeq(lines, 1, p)
    <3>1. /\ front \in Seq(Record) /\ Len(front) = p
          /\ \A i \in 1..p : front[i] = lines[i]
      BY <1>1
    <3>. HIDE DEF front
    <3>2. Range(front) = {front[i] : i \in 1..p}
      BY <3>1, RangeOfLines
    <3>. QED
      BY <1>1, <1>2, <3>1, <3>2 DEF front
  <2>4. DQ!Rewind(p)
    BY <2>2, <2>3, SameRange DEF DQ!Rewind
  <2>. QED
    BY <2>1, <2>4 DEF DQ!Next
<1>. QED
  BY <1>3, <1>4

\* drop_front forgets the batch, and nothing but the batch; when the drained file
\* cannot be removed it brings the delivered records back instead.
LEMMA RefinesDrop ==
  ASSUME QueueInv, QueueInv', DropFront
  PROVE  [DQ!Next]_(DQ!vars)
<1>. DEFINE n == Len(batch)
            d == cursor.offset + n
<1>1. /\ pc = "posted" /\ ~Rewriting /\ exists
      /\ UNCHANGED <<durable, sent, parked, cleared>>
  BY DEF DropFront, Rewriting, QueueInv, BatchAtFront, history
<1>2. /\ n \in 1..Len(Queue) /\ SubSeq(Queue, 1, n) = batch
      /\ Len(Queue) = Len(lines) - cursor.offset
      /\ Queue = After(lines, cursor.offset)
  BY <1>1, BatchIsPrefix
<1>3. /\ lines \in Seq(Record) /\ Len(lines) \in Nat
      /\ cursor.offset \in Nat /\ cursor.offset <= Len(lines)
  BY <1>1, QueueIs, PositionIs
<1>4. Range(batch) \subseteq sent \cup parked
  <2>1. batch \in Seq(Record) /\ \A i \in 1..Len(batch) : batch[i] \in sent \cup parked
    BY <1>1 DEF QueueInv, TypeOK, BatchAtFront
  <2>. QED
    BY <2>1, RangeOfLines
<1>. HIDE DEF n, d
<1>5. n \in Nat /\ d \in Nat /\ d = cursor.offset + n /\ d <= Len(lines)
  BY <1>2, <1>3 DEF d
<1>6. FileLen = Len(lines)
  BY ContentWhole DEF QueueInv
<1>7. DropOffset(n) = d
  BY <1>3, <1>5, <1>6 DEF DropOffset, Least
<1>8. After(Queue, n) = After(lines, d)
  BY <1>2, <1>3, <1>5, AfterAfter
<1>9. ASSUME Queue' = After(lines, d)
      PROVE  [DQ!Next]_(DQ!vars)
  <2>1. DQ!Forget(n)
    BY <1>1, <1>2, <1>4, <1>8, <1>9, SameRange DEF DQ!Forget, DQ!Prefix, DQ!Suffix, After
  <2>. QED
    BY <1>2, <2>1 DEF DQ!Next
<1>10. CASE DropReclaim(n)
  <2>1. d = Len(lines) /\ Position'.offset = 0
    <3>1. pc' = "unlinked" /\ fresh' = Start /\ Drained(n)
      BY <1>10 DEF DropReclaim
    <3>. QED
      BY <1>3, <1>5, <1>6, <1>7, <3>1, PositionIs DEF Drained, Rewriting, Start
  <2>2. CASE lines' = <<>>
    <3>1. Queue' = <<>>
      BY <2>1, <2>2, QueueIsNext, EmptySeq, SubSeqEmpty DEF After
    <3>2. After(lines, d) = <<>>
      BY <1>3, <2>1, SubSeqEmpty DEF After
    <3>. QED
      BY <1>9, <3>1, <3>2
  <2>3. CASE lines' = lines
    BY <1>1, <2>1, <2>3, BackToStart
  <2>. QED
    BY <1>10, <2>2, <2>3 DEF DropReclaim, file
<1>11. CASE DropCompact(n)
  <2>1. lines' = After(lines, d) /\ Position'.offset = 0
    <3>1. pc' = "compacted" /\ fresh'.offset = 0 /\ lines' = SubSeq(lines, d + 1, Len(lines))
      BY <1>7, <1>11 DEF DropCompact
    <3>. QED
      BY <3>1, PositionIs DEF Rewriting, After
  <2>2. Queue' = lines'
    BY <2>1, QueueIsNext, SubSeqFull DEF After
  <2>. QED
    BY <1>9, <2>1, <2>2
<1>12. CASE DropAdvance(n)
  <2>1. /\ pc' = "lane" /\ lines' = lines
        /\ cursor'.offset = d
    BY <1>7, <1>12 DEF DropAdvance, file, QueueInv, TypeOK, Cursor
  <2>2. Position'.offset = d
    BY <2>1, PositionIs DEF Rewriting
  <2>. QED
    BY <1>9, <2>1, <2>2, QueueIsNext
<1>. QED
  BY <1>1, <1>10, <1>11, <1>12 DEF DropFront, n

LEMMA RefinesNext ==
  ASSUME SafeWindows, QueueInv, [Next]_vars
  PROVE  [DQ!Next]_(DQ!vars)
<1>v. QueueInv'
  BY InvStep
<1>q. /\ Queue = After(lines, Position.offset) /\ lines \in Seq(Record)
      /\ Position.offset \in Nat /\ Position.offset <= Len(lines)
  BY QueueIs
<1>s. ~Rewriting => ScanTail(cursor).offset = cursor.offset
  BY ScanInFile DEF QueueInv, CursorInFile, TypeOK
<1>a. Queue \in Seq(Record) /\ Len(Queue) = Len(lines) - Position.offset
  BY <1>q, AfterAt
\* Most steps leave what waits alone.
<1>1. ASSUME lines' = lines, Position'.offset = Position.offset,
             UNCHANGED <<durable, sent, parked, cleared>>
      PROVE  [DQ!Next]_(DQ!vars)
  BY <1>1, <1>v, SameQueue DEF DQ!vars
<1>2. ASSUME NEW b \in AppendBatches, BeginAppend(b)
      PROVE  [DQ!Next]_(DQ!vars)
  BY <1>1, <1>2 DEF BeginAppend, Position, history
<1>3. CASE WriteRecord
  <2>1. /\ todo # <<>> /\ todo \in Seq(Record)
        /\ lines' = Append(lines, Head(todo))
        /\ Position' = Position
        /\ UNCHANGED <<durable, sent, parked, cleared>>
    BY <1>3 DEF WriteRecord, QueueInv, TypeOK, WholeLines, Position, history
  <2>2. Head(todo) \in Record
    BY <2>1
  <2>3. Queue' = Append(Queue, Head(todo))
    BY <1>q, <1>v, <2>1, <2>2, QueueIsNext, AfterAppend
  <2>. QED
    BY <2>1, <2>2, <2>3 DEF DQ!Next, DQ!Put
<1>4. CASE AppendDone
  <2>1. /\ ~Rewriting /\ ~Rewriting' /\ lines' = lines /\ cursor' = ScanTail(cursor)
        /\ durable' = durable \cup Range(batch)
        /\ UNCHANGED <<sent, parked, cleared>>
    BY <1>4 DEF AppendDone, Rewriting, file
  <2>2. Queue' = Queue
    BY <1>s, <1>v, <2>1, PositionIs, SameQueue
  <2>3. Range(batch) \subseteq Range(lines)
    <3>1. todo = <<>> /\ Range(batch) \subseteq Range(lines) \cup Range(todo)
      BY <1>4 DEF AppendDone, QueueInv, WrittenOrToDo
    <3>. QED
      BY <3>1 DEF Range
  <2>4. Range(lines) \subseteq sent \cup parked \cup Range(Queue)
    <3>1. Range(lines) = {lines[i] : i \in 1..Len(lines)} /\ Len(lines) \in Nat
      BY <1>q, RangeOfLines
    <3>2. \A i \in 1..Len(lines) : i > Position.offset => lines[i] \in Range(Queue)
      BY <1>q, RangeSuffix DEF After
    <3>3. \A i \in 1..Position.offset : lines[i] \in sent \cup parked
      BY PositionInFile
    <3>. QED
      BY <1>q, <3>1, <3>2, <3>3
  <2>5. Range(batch) \in SUBSET Record
    BY RangeInRecord DEF QueueInv, TypeOK
  <2>6. DQ!Promise(Range(batch))
    BY <2>1, <2>2, <2>3, <2>4, SameRange DEF DQ!Promise, DQ!Settled
  <2>. QED
    BY <2>5, <2>6 DEF DQ!Next
<1>5. CASE Routes
  <2>1. /\ ~Rewriting /\ ~Rewriting' /\ lines' = lines /\ cursor' \in {cursor, ScanTail(cursor)}
        /\ UNCHANGED <<durable, sent, parked, cleared>>
    BY <1>5 DEF Routes, Rewriting, file, history
  <2>. QED
    BY <1>1, <1>s, <2>1, PositionIs
<1>6. ASSUME NEW n \in 1..BatchLimit, PeekBatch(n)
      PROVE  [DQ!Next]_(DQ!vars)
  BY <1>1, <1>6 DEF PeekBatch, Position, file, history
<1>7. CASE Deadline \/ PostRefused \/ PostTooLarge
  BY <1>1, <1>7 DEF Deadline, PostRefused, PostTooLarge, Position, file, history
<1>8. CASE PostAccepted \/ PostUnheard
  <2>1. /\ pc = "posting" /\ lines' = lines /\ Position' = Position
        /\ sent' = sent \cup Range(batch)
        /\ UNCHANGED <<durable, parked, cleared>>
    BY <1>8 DEF PostAccepted, PostUnheard, Position, file
  <2>2. Queue' = Queue
    BY <1>v, <2>1, SameQueue
  <2>3. Len(batch) \in 1..Len(Queue) /\ SubSeq(Queue, 1, Len(batch)) = batch
    BY <2>1, BatchIsPrefix
  <2>4. DQ!Accept(Len(batch))
    BY <2>1, <2>2, <2>3, SameRange DEF DQ!Accept, DQ!Prefix
  <2>. QED
    BY <2>3, <2>4 DEF DQ!Next
<1>9. CASE ParkFront
  <2>1. /\ pc = "parking" /\ exists /\ ~Rewriting /\ lines' = lines
        /\ Position' = cursor' /\ cursor' = cursor /\ Position = cursor
        /\ UNCHANGED <<durable, sent, cleared>>
    BY <1>9 DEF ParkFront, QueueInv, BatchAtFront, Rewriting, Position, file
  <2>2. Queue' = Queue
    BY <1>v, <2>1, SameQueue
  <2>3. Len(batch) \in 1..Len(Queue)
    BY <2>1, BatchIsPrefix
  <2>4. Content = lines /\ FileLen = Len(lines) /\ Len(lines) \in Nat
    BY ContentWhole DEF QueueInv
  <2>5. cursor.offset < Len(lines)
    BY <1>a, <1>q, <2>1, <2>3, <2>4
  <2>6. /\ cursor.offset + 1 \in 1..Len(lines) /\ lines[cursor.offset + 1] \in Record
        /\ ~(cursor.offset >= Len(lines))
    BY <1>q, <2>1, <2>4, <2>5
  <2>7. parked' = parked \cup {lines[cursor.offset + 1]}
    BY <1>9, <2>1, <2>4, <2>6 DEF ParkFront
  <2>8. Queue # <<>> /\ Head(Queue) = lines[cursor.offset + 1]
    <3>1. 1 \in 1..(Len(lines) - cursor.offset)
      BY <1>a, <2>1, <2>3, <1>q, <2>4
    <3>2. Queue[1] = lines[cursor.offset + 1]
      BY <1>q, <2>1, <3>1, AfterAt
    <3>3. Queue # <<>>
      BY <1>a, <2>3, EmptySeq
    <3>. QED
      BY <1>a, <3>2, <3>3
  <2>. QED
    BY <2>1, <2>2, <2>7, <2>8 DEF DQ!Next, DQ!Park
<1>10. CASE WriteCursor
  BY <1>1, <1>10 DEF WriteCursor, Position, file, history
<1>11. CASE Interrupt
  <2>1. /\ ~Rewriting /\ ~Rewriting' /\ lines' = lines /\ cursor' \in {cursor, Start}
        /\ UNCHANGED <<durable, sent, parked, cleared>>
    BY <1>11 DEF Interrupt, Rewriting, SafeWindows, file, history
  <2>2. CASE cursor' = cursor
    BY <1>1, <2>1, <2>2, PositionIs
  <2>3. CASE cursor' = Start
    BY <1>v, <2>1, <2>3, PositionIs, BackToStart DEF Start
  <2>. QED
    BY <2>1, <2>2, <2>3
<1>12. CASE Clear
  <2>1. /\ pc' = "idle" /\ lines' = <<>> /\ cursor' = Start
        /\ cleared' = cleared \cup (Range(Queue) \cap Record)
        /\ UNCHANGED <<durable, sent, parked>>
    BY <1>12 DEF Clear, Waiting
  <2>2. Position'.offset = 0
    BY <2>1, PositionIs DEF Rewriting, Start
  <2>3. Queue' = <<>>
    BY <1>v, <2>1, <2>2, QueueIsNext, EmptySeq, SubSeqEmpty DEF After
  <2>4. Range(Queue) \subseteq Record
    BY <1>a, RangeInRecord
  <2>. QED
    BY <2>1, <2>3, <2>4, SameRange DEF DQ!Next, DQ!Clear
<1>13. CASE StatusScan
  BY <1>1, <1>13 DEF StatusScan, Position, file, memory, history
<1>14. CASE StatusWrite
  <2>1. /\ lines' = lines /\ fresh' = fresh /\ pc' = pc /\ cursor' = ScanTail(cursor)
        /\ UNCHANGED <<durable, sent, parked, cleared>>
    BY <1>14 DEF StatusWrite, QueueInv, SnapIsScan, file, memory, history
  <2>. QED
    BY <1>1, <1>s, <2>1 DEF Position, Rewriting
<1>15. CASE UNCHANGED vars
  BY <1>1, <1>15 DEF vars, Position
<1>16. ~TornWrite
  BY DEF TornWrite, SafeWindows
<1>. QED
  BY <1>v, <1>2, <1>3, <1>4, <1>5, <1>6, <1>7, <1>8, <1>9, <1>10, <1>11, <1>12, <1>13,
     <1>14, <1>15, <1>16, RefinesDrop DEF Next, LockHolder, Drain

\* File, cursor and recovery together are a first-in first-out queue that delivers at
\* least once and drops nothing: each step of append, drain, drop_front,
\* quarantine_front and clear-queue, each crash and each ignored I/O error is a step of
\* DurableQueue or none.
THEOREM QueueImplements ==
  ASSUME SafeWindows
  PROVE  Spec => ImplementsDurableQueue
<1>1. Init => DQ!Init
  BY RefinesInit
<1>2. QueueInv /\ [Next]_vars => [DQ!Next]_(DQ!vars)
  BY SafeWindows, RefinesNext
<1>3. Spec => []QueueInv
  BY SafeWindows, QueueInvariant
<1>. QED
  BY <1>1, <1>2, <1>3, PTL DEF Spec, ImplementsDurableQueue, DQ!Spec
=============================================================================
