---------------------------- MODULE CaptureProofs -----------------------------
(***************************************************************************)
(* Proofs about Capture, for every set of transcripts, window and bound:   *)
(*   CaptureInvariant  with no regrown transcript, every offset is a line  *)
(*                     end and everything in front of it was decided on    *)
(*   CoveredOffsets    hence OffsetsCovered, offsets.json lost or not      *)
(*   QueuesWholeLines, QueuesInOrder                                       *)
(*                     hence what reaches the queue are whole lines, in    *)
(*                     the order of their transcript                       *)
(*   NeverUploadsDeclined                                                  *)
(*                     and no line whose offset was saved as passed over   *)
(***************************************************************************)
EXTENDS Capture, SequenceTheorems, TLAPS

\* No transcript outgrows an old offset before it is read.
SafeHazards == "regrown" \notin Hazards

\* Lines in front of b are in front of a or were read from a on, when a line ends at
\* a: read_file may start again where it stopped.
LEMMA LinesSplit ==
  ASSUME NEW f \in File, NEW a \in Nat, NEW b \in Nat, a <= b,
         a = 0 \/ EndsAt(f, a)
  PROVE  LinesFrom(f, 0, b) \subseteq LinesFrom(f, 0, a) \cup LinesFrom(f, a, b)
<1>. SUFFICES ASSUME NEW r \in LinesFrom(f, 0, b)
              PROVE  r \in LinesFrom(f, 0, a) \cup LinesFrom(f, a, b)
  OBVIOUS
<1>1. /\ r \in [file : {f}, gen : {gen[f]}, from : 1..b, to : 1..b]
      /\ r.from < r.to
      /\ EndsAt(f, r.to)
      /\ r.from = 1 \/ EndsAt(f, r.from - 1)
      /\ \A q \in r.from..(r.to - 1) : ~EndsAt(f, q)
  BY DEF LinesFrom
<1>2. r.from \in 1..b /\ r.to \in 1..b /\ r.file = f /\ r.gen = gen[f]
  BY <1>1
<1>3. CASE r.to <= a
  <2>1. r \in [file : {f}, gen : {gen[f]}, from : 1..a, to : 1..a]
    BY <1>1, <1>2, <1>3
  <2>. QED
    BY <1>1, <2>1 DEF LinesFrom
<1>4. CASE r.to > a
  <2>1. r.from > a
    <3>1. CASE a = 0
      BY <1>2, <3>1
    <3>2. CASE a # 0
      <4>1. a \in r.from..(r.to - 1) => ~EndsAt(f, a)
        BY <1>1
      <4>2. a \notin r.from..(r.to - 1)
        BY <4>1, <3>2
      <4>. QED
        BY <4>2, <1>2, <1>4
    <3>. QED
      BY <3>1, <3>2
  <2>2. r \in [file : {f}, gen : {gen[f]}, from : (a + 1)..b, to : (a + 1)..b]
    BY <1>1, <1>2, <1>4, <2>1
  <2>3. r.from = a + 1 \/ EndsAt(f, r.from - 1)
    <3>1. CASE r.from = 1
      BY <1>2, <2>1, <3>1
    <3>. QED
      BY <1>1, <3>1
  <2>. QED
    BY <1>1, <2>2, <2>3 DEF LinesFrom
<1>. QED
  BY <1>2, <1>3, <1>4

\* Appending a cell changes no line that already ended.
LEMMA AppendKeepsLines ==
  ASSUME NEW f \in File, NEW cell \in {EOL, Char}, TypeOK,
         text' = [text EXCEPT ![f] = Append(@, cell)], gen' = gen
  PROVE  \A g \in File : /\ \A p \in 0..Len(text[g]) : EndsAt(g, p)' <=> EndsAt(g, p)
                         /\ Len(text[g]) <= Len(text'[g])
                         /\ Len(text'[g]) <= Len(text[g]) + 1
<1>. TAKE g \in File
<1>1. text[g] \in Seq({EOL, Char}) /\ text \in [File -> Seq({EOL, Char})]
  BY DEF TypeOK
<1>2. CASE g = f
  <2>1. text'[g] = Append(text[g], cell)
    BY <1>1, <1>2
  <2>2. /\ Len(text[g]) \in Nat
        /\ Len(text'[g]) = Len(text[g]) + 1
        /\ \A p \in 1..Len(text[g]) : text'[g][p] = text[g][p]
    BY <1>1, <2>1
  <2>. QED
    BY <2>2 DEF EndsAt
<1>3. CASE g # f
  <2>1. text'[g] = text[g] /\ Len(text[g]) \in Nat
    BY <1>1, <1>3
  <2>. QED
    BY <2>1 DEF EndsAt
<1>. QED
  BY <1>2, <1>3

\* A sound offset stays sound when more lines are settled.
LEMMA SoundMonotone ==
  ASSUME NEW f \in File, NEW at, NEW of, NEW S, NEW T, S \subseteq T, Sound(f, at, of, S)
  PROVE  Sound(f, at, of, T)
BY DEF Sound

LEMMA LinesType ==
  ASSUME TypeOK, NEW f \in File, NEW a \in Nat, NEW b \in Nat, b <= MaxLen
  PROVE  LinesFrom(f, a, b) \subseteq LineRef
<1>1. gen[f] \in 0..MaxRewrites
  BY DEF TypeOK
<1>2. (a + 1)..b \subseteq 1..MaxLen
  BY CaptureAssumption
<1>. QED
  BY <1>1, <1>2 DEF LinesFrom, LineRef

LEMMA BlankType ==
  ASSUME TypeOK
  PROVE  Blank \in [File -> Offset]
BY CaptureAssumption DEF TypeOK, Blank, Offset

LEMMA ReadFromNat ==
  ASSUME TypeOK, NEW f \in File
  PROVE  ReadFrom(f) \in 0..MaxLen /\ Len(text[f]) \in 0..MaxLen
<1>1. mem[f].at \in 0..MaxLen
  BY DEF TypeOK, Offset
<1>2. Len(text[f]) \in Nat /\ Len(text[f]) <= MaxLen
  BY DEF TypeOK
<1>. QED
  BY <1>1, <1>2, CaptureAssumption DEF ReadFrom

\* The steps that leave the transcripts alone keep them well typed.
LEMMA TypeStep ==
  ASSUME TypeOK, [Next]_vars
  PROVE  TypeOK'
<1>. USE CaptureAssumption
<1>b. Blank \in [File -> Offset]
  BY BlankType
<1>1. ASSUME NEW f \in File, NEW cell \in {EOL, Char}, Write(f, cell)
      PROVE  TypeOK'
  <2>1. text[f] \in Seq({EOL, Char}) /\ text \in [File -> Seq({EOL, Char})]
    BY DEF TypeOK
  <2>2. /\ Append(text[f], cell) \in Seq({EOL, Char})
        /\ Len(Append(text[f], cell)) = Len(text[f]) + 1
        /\ Len(text[f]) \in Nat
    BY <2>1
  <2>3. text' \in [File -> Seq({EOL, Char})]
    BY <1>1, <2>1, <2>2 DEF Write
  <2>4. \A g \in File : Len(text'[g]) <= MaxLen
    <3>1. Len(text'[f]) <= MaxLen
      BY <1>1, <2>1, <2>2 DEF Write
    <3>2. \A g \in File : g # f => text'[g] = text[g]
      BY <1>1, <2>1 DEF Write
    <3>. QED
      BY <3>1, <3>2 DEF TypeOK
  <2>. QED
    BY <1>1, <2>3, <2>4 DEF Write, TypeOK, pass, outcome
<1>2. ASSUME NEW f \in File, Recreate(f)
      PROVE  TypeOK'
  <2>1. <<>> \in Seq({EOL, Char}) /\ Len(<<>>) = 0
    BY EmptySeq
  <2>2. /\ text' \in [File -> Seq({EOL, Char})]
        /\ \A g \in File : Len(text'[g]) <= MaxLen
    BY <1>2, <2>1 DEF Recreate, TypeOK
  <2>3. gen' \in [File -> 0..MaxRewrites]
    BY <1>2 DEF Recreate, TypeOK
  <2>. QED
    BY <1>2, <2>2, <2>3 DEF Recreate, TypeOK, pass, outcome
<1>3. CASE StartPass
  BY <1>3 DEF StartPass, TypeOK, transcripts, outcome
<1>4. ASSUME NEW f \in File, ReadNothing(f)
      PROVE  TypeOK'
  BY <1>4 DEF ReadNothing, TypeOK, transcripts, outcome
<1>5. ASSUME NEW f \in File, NEW fate \in Fate, ReadFile(f, fate)
      PROVE  TypeOK'
  <2>1. PICK last \in Complete(f) :
          found' = [found EXCEPT ![f] =
            [records |-> LinesFrom(f, ReadFrom(f), last), next |-> last,
             of |-> gen[f], fate |-> fate]]
    BY <1>5 DEF ReadFile
  <2>2. last \in 1..MaxLen
    BY ReadFromNat DEF Complete, EndsAt
  <2>3. LinesFrom(f, ReadFrom(f), last) \subseteq LineRef
    BY <2>2, ReadFromNat, LinesType
  <2>4. gen[f] \in 0..MaxRewrites
    BY DEF TypeOK
  <2>5. found' \in [File -> Captured \cup {NotRead}]
    BY <2>1, <2>2, <2>3, <2>4 DEF TypeOK, Captured
  <2>. QED
    BY <1>5, <2>5 DEF ReadFile, TypeOK, transcripts, outcome
<1>6. CASE EndScan
  BY <1>6 DEF EndScan, TypeOK, transcripts, outcome
<1>7. ASSUME NEW f \in File, Commit(f)
      PROVE  TypeOK'
  <2>1. /\ found[f] \in Captured
        /\ found' = [found EXCEPT ![f] = NotRead]
        /\ UNCHANGED <<text, gen, disk, pc, left>>
    BY <1>7 DEF Commit, Queue, QueueFails, Skip, Hold, Committing, transcripts, TypeOK
  <2>2. /\ found[f].next \in 0..MaxLen
        /\ found[f].of \in 0..MaxRewrites
        /\ found[f].records \subseteq LineRef
    BY <2>1 DEF Captured
  <2>3. found' \in [File -> Captured \cup {NotRead}]
    BY <2>1 DEF TypeOK
  <2>4. mem' \in [File -> Offset] /\ dirty' \in BOOLEAN
    <3>1. CASE Queue(f)
      BY <2>2, <3>1 DEF Queue, Advance, TypeOK, Offset
    <3>2. CASE Skip(f)
      BY <2>2, <3>2 DEF Skip, Advance, TypeOK, Offset
    <3>. QED
      BY <1>7, <3>1, <3>2 DEF Commit, QueueFails, Hold, TypeOK
  <2>5. /\ written' \subseteq LineRef /\ promised' \subseteq LineRef
        /\ skipped' \subseteq LineRef /\ faults' \in 0..MaxFaults
    BY <1>7, <2>2 DEF Commit, Queue, QueueFails, Skip, Hold, TypeOK
  <2>. QED
    BY <2>1, <2>3, <2>4, <2>5 DEF TypeOK
<1>8. CASE NothingToSave
  BY <1>8 DEF NothingToSave, TypeOK, transcripts, outcome
<1>9. CASE BeginSave
  BY <1>9, <1>b DEF BeginSave, TypeOK, transcripts, outcome
<1>10. CASE EndSave
  BY <1>10 DEF EndSave, TypeOK, transcripts, outcome
<1>11. CASE SaveFails
  <2>1. faults' \in 0..MaxFaults
    BY <1>11 DEF SaveFails, TypeOK
  <2>2. /\ dirty' = FALSE /\ pc' = "idle"
        /\ UNCHANGED <<text, gen, mem, disk, left, found, written, promised, skipped>>
    BY <1>11 DEF SaveFails, transcripts, outcome
  <2>. QED
    BY <2>1, <2>2 DEF TypeOK
<1>12. CASE Crash
  <2>1. /\ disk' \in [File -> Offset] /\ mem' \in [File -> Offset]
        /\ found' \in [File -> Captured \cup {NotRead}]
    BY <1>12, <1>b DEF Crash, TypeOK
  <2>2. faults' \in 0..MaxFaults
    BY <1>12 DEF Crash, TypeOK
  <2>3. /\ dirty' = FALSE /\ pc' = "down" /\ left' = {}
        /\ UNCHANGED <<text, gen, written, promised, skipped>>
    BY <1>12 DEF Crash, transcripts, outcome
  <2>. QED
    BY <2>1, <2>2, <2>3 DEF TypeOK
<1>13. CASE Restart
  BY <1>13 DEF Restart, TypeOK, transcripts, outcome
<1>14. CASE UNCHANGED vars
  BY <1>14 DEF vars, TypeOK
<1>. QED
  BY <1>1, <1>2, <1>3, <1>4, <1>5, <1>6, <1>7, <1>8, <1>9, <1>10, <1>11, <1>12,
     <1>13, <1>14 DEF Next, Pass

LEMMA InitType == Init => TypeOK
<1>. SUFFICES ASSUME Init PROVE TypeOK
  OBVIOUS
<1>. USE CaptureAssumption
<1>1. <<>> \in Seq({EOL, Char}) /\ Len(<<>>) = 0
  BY EmptySeq
<1>2. /\ text \in [File -> Seq({EOL, Char})]
      /\ \A f \in File : Len(text[f]) <= MaxLen
  BY <1>1 DEF Init
<1>3. gen \in [File -> 0..MaxRewrites]
  BY DEF Init
<1>4. Blank \in [File -> Offset]
  BY <1>3 DEF Blank, Offset
<1>5. /\ mem \in [File -> Offset] /\ disk \in [File -> Offset]
      /\ found \in [File -> Captured \cup {NotRead}]
  BY <1>4 DEF Init
<1>6. /\ pc \in {"down", "idle", "scan", "commit", "saving"} /\ left \subseteq File
      /\ dirty \in BOOLEAN
  BY DEF Init
<1>8. faults \in 0..MaxFaults
  BY DEF Init
<1>7. /\ written \subseteq LineRef /\ promised \subseteq LineRef
      /\ skipped \subseteq LineRef
  BY DEF Init
<1>. QED
  BY <1>2, <1>3, <1>5, <1>6, <1>7, <1>8 DEF TypeOK

(***************************************************************************)
(* The inductive invariant.                                                *)
(***************************************************************************)

\* An offset of the present generation stays sound when its transcript grows, and an
\* older one while the transcript does not reach it.
LEMMA SoundWhenWritten ==
  ASSUME TypeOK, NEW f \in File, NEW cell \in {EOL, Char}, Write(f, cell), SafeHazards,
         NEW g \in File, NEW at \in 0..MaxLen, NEW of, NEW S, Sound(g, at, of, S),
         g = f /\ of # gen[f] /\ at # 0 => at \in OldPositions(f)
  PROVE  Sound(g, at, of, S)'
<1>1. /\ text' = [text EXCEPT ![f] = Append(@, cell)] /\ gen' = gen
      /\ \A p \in OldPositions(f) : Len(text[f]) + 1 < p
  BY DEF Write, SafeHazards
<1>2. /\ \A p \in 0..Len(text[g]) : EndsAt(g, p)' <=> EndsAt(g, p)
      /\ Len(text[g]) <= Len(text'[g]) /\ Len(text'[g]) <= Len(text[g]) + 1
      /\ Len(text[g]) \in Nat
  <2>1. Len(text[g]) \in Nat
    BY ReadFromNat, CaptureAssumption
  <2>. QED
    BY <1>1, <2>1, AppendKeepsLines
<1>3. CASE of = gen[g] /\ at # 0
  <2>1. EndsAt(g, at) /\ LinesFrom(g, 0, at) \subseteq S
    BY <1>3 DEF Sound
  <2>2. at \in 1..Len(text[g])
    BY <2>1 DEF EndsAt
  <2>3. \A p \in 0..at : EndsAt(g, p)' <=> EndsAt(g, p)
    BY <1>2, <2>2
  <2>4. ASSUME NEW r \in LinesFrom(g, 0, at)'
        PROVE  r \in LinesFrom(g, 0, at)
    <3>1. /\ r \in [file : {g}, gen : {gen[g]}, from : 1..at, to : 1..at]
          /\ r.from < r.to
          /\ EndsAt(g, r.to)'
          /\ r.from = 1 \/ EndsAt(g, r.from - 1)'
          /\ \A q \in r.from..(r.to - 1) : ~EndsAt(g, q)'
      BY <1>1, <2>4 DEF LinesFrom
    <3>2. r.from \in 1..at /\ r.to \in 1..at
      BY <3>1
    <3>3. r.to \in 0..at /\ r.from - 1 \in 0..at /\ r.from..(r.to - 1) \subseteq 0..at
      BY <3>2, <2>2
    <3>. QED
      BY <2>3, <3>1, <3>3 DEF LinesFrom
  <2>. QED
    BY <1>1, <1>3, <2>1, <2>2, <2>3, <2>4 DEF Sound
<1>4. CASE of # gen[g] /\ at # 0
  <2>1. at > Len(text[g])
    BY <1>4 DEF Sound
  <2>2. at > Len(text'[g])
    <3>1. CASE g = f
      BY <1>1, <1>2, <1>4, <3>1
    <3>2. CASE g # f
      BY <1>1, <2>1, <3>2 DEF TypeOK
    <3>. QED
      BY <3>1, <3>2
  <2>. QED
    BY <1>1, <1>4, <2>2 DEF Sound
<1>5. CASE at = 0
  BY <1>1, <1>5 DEF Sound
<1>. QED
  BY <1>3, <1>4, <1>5

\* Every offset of a transcript that was recreated is an old one.
LEMMA SoundWhenRecreated ==
  ASSUME TypeOK, NEW f \in File, Recreate(f),
         NEW g \in File, NEW at \in 0..MaxLen, NEW of \in 0..MaxRewrites, NEW S,
         Sound(g, at, of, S)
  PROVE  Sound(g, at, of, S)'
<1>1. gen \in [File -> 0..MaxRewrites] /\ text \in [File -> Seq({EOL, Char})]
  BY DEF TypeOK
<1>2. CASE g = f
  <2>1. text'[g] = <<>> /\ gen'[g] = gen[g] + 1 /\ gen[g] \in Nat
    BY <1>1, <1>2, CaptureAssumption DEF Recreate
  <2>2. of # gen'[g]
    BY <1>2, <2>1, CaptureAssumption DEF Sound
  <2>3. at # 0 => at > Len(text'[g])
    BY <2>1, EmptySeq
  <2>. QED
    BY <1>2, <2>1, <2>2, <2>3, CaptureAssumption DEF Sound
<1>3. CASE g # f
  <2>1. text'[g] = text[g] /\ gen'[g] = gen[g]
    BY <1>1, <1>3 DEF Recreate
  <2>2. LinesFrom(g, 0, at)' = LinesFrom(g, 0, at) /\ (EndsAt(g, at)' <=> EndsAt(g, at))
    BY <2>1 DEF LinesFrom, EndsAt
  <2>. QED
    BY <2>1, <2>2 DEF Sound
<1>. QED
  BY <1>2, <1>3

LEMMA InvStep ==
  ASSUME SafeHazards, CaptureInv, [Next]_vars
  PROVE  CaptureInv'
<1>. USE CaptureAssumption
<1>t. TypeOK /\ TypeOK'
  BY TypeStep DEF CaptureInv
<1>s. MemSound /\ DiskSound /\ FoundSound
  BY DEF CaptureInv
<1>o. \A f \in File : /\ mem[f].at \in 0..MaxLen /\ mem[f].of \in 0..MaxRewrites
                      /\ disk[f].at \in 0..MaxLen /\ disk[f].of \in 0..MaxRewrites
                      /\ gen[f] \in 0..MaxRewrites
  BY <1>t DEF TypeOK, Offset
<1>f. \A f \in File : found[f] # NotRead => /\ found[f].next \in 0..MaxLen
                                            /\ found[f].of \in 0..MaxRewrites
  BY <1>t DEF TypeOK, Captured
<1>. DEFINE Parts == MemSound' /\ DiskSound' /\ FoundSound'
<1>1. ASSUME NEW f \in File, NEW cell \in {EOL, Char}, Write(f, cell)
      PROVE  Parts
  <2>1. UNCHANGED <<mem, disk, found, promised, skipped>> /\ Settled' = Settled
    BY <1>1 DEF Write, pass, outcome, Settled
  <2>2. ASSUME NEW g \in File PROVE Sound(g, mem[g].at, mem[g].of, Settled)'
    <3>1. g = f /\ mem[g].of # gen[f] /\ mem[g].at # 0 => mem[g].at \in OldPositions(f)
      BY <1>o DEF OldPositions
    <3>. QED
      BY <1>1, <1>o, <1>s, <1>t, <2>1, <3>1, SoundWhenWritten DEF MemSound
  <2>3. ASSUME NEW g \in File PROVE Sound(g, disk[g].at, disk[g].of, Settled)'
    <3>1. g = f /\ disk[g].of # gen[f] /\ disk[g].at # 0 => disk[g].at \in OldPositions(f)
      BY <1>o DEF OldPositions
    <3>. QED
      BY <1>1, <1>o, <1>s, <1>t, <2>1, <3>1, SoundWhenWritten DEF DiskSound
  <2>4. ASSUME NEW g \in File, found[g] # NotRead
        PROVE  Sound(g, found[g].next, found[g].of, found[g].records \cup Settled)'
    <3>1. g = f /\ found[g].of # gen[f] => found[g].next \in OldPositions(f)
      BY <2>4 DEF OldPositions
    <3>. QED
      BY <1>1, <1>f, <1>s, <1>t, <2>1, <2>4, <3>1, SoundWhenWritten DEF FoundSound
  <2>. QED
    BY <2>1, <2>2, <2>3, <2>4 DEF MemSound, DiskSound, FoundSound
<1>2. ASSUME NEW f \in File, Recreate(f)
      PROVE  Parts
  <2>1. UNCHANGED <<mem, disk, found, promised, skipped>> /\ Settled' = Settled
    BY <1>2 DEF Recreate, pass, outcome, Settled
  <2>2. ASSUME NEW g \in File PROVE Sound(g, mem[g].at, mem[g].of, Settled)'
    BY <1>2, <1>o, <1>s, <1>t, <2>1, SoundWhenRecreated DEF MemSound
  <2>3. ASSUME NEW g \in File PROVE Sound(g, disk[g].at, disk[g].of, Settled)'
    BY <1>2, <1>o, <1>s, <1>t, <2>1, SoundWhenRecreated DEF DiskSound
  <2>4. ASSUME NEW g \in File, found[g] # NotRead
        PROVE  Sound(g, found[g].next, found[g].of, found[g].records \cup Settled)'
    BY <1>2, <1>f, <1>s, <1>t, <2>1, <2>4, SoundWhenRecreated DEF FoundSound
  <2>. QED
    BY <2>1, <2>2, <2>3, <2>4 DEF MemSound, DiskSound, FoundSound
\* The other steps leave the transcripts alone: soundness is about the same cells.
<1>g. ASSUME UNCHANGED transcripts
      PROVE  \A f \in File : \A at, of, S : Sound(f, at, of, S) => Sound(f, at, of, S)'
  BY <1>g DEF transcripts, Sound, LinesFrom, EndsAt
<1>b. ASSUME UNCHANGED transcripts
      PROVE  \A f \in File : Sound(f, Blank[f].at, Blank[f].of, Settled)'
  BY <1>g, <1>b, <1>o DEF Blank, Sound, transcripts
<1>3. ASSUME StartPass \/ EndScan \/ NothingToSave \/ SaveFails
      PROVE  Parts
  <2>1. UNCHANGED transcripts /\ UNCHANGED <<mem, disk, found, promised, skipped>>
    BY <1>3 DEF StartPass, EndScan, NothingToSave, SaveFails, outcome
  <2>. QED
    BY <1>g, <1>s, <2>1 DEF MemSound, DiskSound, FoundSound, Settled
<1>4. ASSUME NEW f \in File, ReadNothing(f)
      PROVE  Parts
  <2>1. UNCHANGED transcripts /\ UNCHANGED <<mem, disk, found, promised, skipped>>
    BY <1>4 DEF ReadNothing, outcome
  <2>. QED
    BY <1>g, <1>s, <2>1 DEF MemSound, DiskSound, FoundSound, Settled
<1>5. ASSUME NEW f \in File, NEW fate \in Fate, ReadFile(f, fate)
      PROVE  Parts
  <2>1. UNCHANGED transcripts /\ UNCHANGED <<mem, disk, promised, skipped>>
    BY <1>5 DEF ReadFile, outcome
  <2>2. PICK last \in Complete(f) :
          found' = [found EXCEPT ![f] =
            [records |-> LinesFrom(f, ReadFrom(f), last), next |-> last,
             of |-> gen[f], fate |-> fate]]
    BY <1>5 DEF ReadFile
  <2>3. last \in Nat /\ ReadFrom(f) \in Nat /\ ReadFrom(f) < last /\ EndsAt(f, last)
    BY <1>t, ReadFromNat DEF Complete, EndsAt
  <2>4. \/ ReadFrom(f) = 0
        \/ EndsAt(f, ReadFrom(f)) /\ LinesFrom(f, 0, ReadFrom(f)) \subseteq Settled
    BY <1>o, <1>s DEF MemSound, Sound, ReadFrom
  <2>5. LinesFrom(f, 0, last) \subseteq LinesFrom(f, ReadFrom(f), last) \cup Settled
    <3>1. LinesFrom(f, 0, last)
            \subseteq LinesFrom(f, 0, ReadFrom(f)) \cup LinesFrom(f, ReadFrom(f), last)
      BY <2>3, <2>4, LinesSplit
    <3>2. ReadFrom(f) = 0 => LinesFrom(f, 0, ReadFrom(f)) = {}
      BY DEF LinesFrom
    <3>. QED
      BY <2>4, <3>1, <3>2
  <2>6. Sound(f, last, gen[f], LinesFrom(f, ReadFrom(f), last) \cup Settled)
    BY <1>o, <2>3, <2>5 DEF Sound
  <2>7. FoundSound'
    <3>1. /\ found'[f].next = last /\ found'[f].of = gen[f]
          /\ found'[f].records = LinesFrom(f, ReadFrom(f), last)
      BY <1>t, <2>2 DEF TypeOK
    <3>2. \A g \in File : g # f => found'[g] = found[g]
      BY <1>t, <2>2 DEF TypeOK
    <3>3. Settled' = Settled
      BY <2>1 DEF Settled
    <3>4. ASSUME NEW g \in File, found'[g] # NotRead
          PROVE  Sound(g, found[g].next, found[g].of, found[g].records \cup Settled)'
      <4>1. CASE g = f
        BY <1>g, <2>1, <2>6, <3>1, <3>3, <4>1
      <4>2. CASE g # f
        BY <1>g, <1>s, <2>1, <3>2, <3>3, <3>4, <4>2 DEF FoundSound
      <4>. QED
        BY <4>1, <4>2
    <3>. QED
      BY <3>4 DEF FoundSound
  <2>. QED
    BY <1>g, <1>s, <2>1, <2>7 DEF MemSound, DiskSound, Settled
<1>6. ASSUME NEW f \in File, Commit(f)
      PROVE  Parts
  <2>1. /\ UNCHANGED transcripts /\ disk' = disk /\ found[f] # NotRead
        /\ found' = [found EXCEPT ![f] = NotRead]
        /\ Settled \subseteq Settled'
    BY <1>6 DEF Commit, Queue, QueueFails, Skip, Hold, Committing, Settled
  <2>2. \/ mem' = mem
        \/ /\ mem' = [mem EXCEPT ![f] = [at |-> found[f].next, of |-> found[f].of]]
           /\ found[f].records \subseteq Settled'
    BY <1>6 DEF Commit, Queue, QueueFails, Skip, Hold, Advance, Settled
  <2>3. DiskSound'
    BY <1>g, <1>s, <2>1, SoundMonotone DEF DiskSound
  <2>4. FoundSound'
    <3>. SUFFICES ASSUME NEW g \in File, found'[g] # NotRead
                  PROVE  Sound(g, found[g].next, found[g].of, found[g].records \cup Settled)'
      BY DEF FoundSound
    <3>1. found'[g] = found[g] /\ found[g] # NotRead
      BY <1>t, <2>1 DEF TypeOK
    <3>2. Sound(g, found[g].next, found[g].of, found[g].records \cup Settled)
      BY <1>s, <3>1 DEF FoundSound
    <3>3. Sound(g, found[g].next, found[g].of, found[g].records \cup Settled')
      BY <2>1, <3>2, SoundMonotone
    <3>. QED
      BY <1>g, <2>1, <3>1, <3>3
  <2>5. MemSound'
    <3>. SUFFICES ASSUME NEW g \in File
                  PROVE  Sound(g, mem[g].at, mem[g].of, Settled)'
      BY DEF MemSound
    <3>1. Sound(g, mem[g].at, mem[g].of, Settled')
      BY <1>s, <2>1, SoundMonotone DEF MemSound
    <3>2. CASE mem'[g] = mem[g]
      BY <1>g, <2>1, <3>1, <3>2
    <3>3. CASE mem'[g] # mem[g]
      <4>1. g = f /\ mem'[g] = [at |-> found[f].next, of |-> found[f].of]
            /\ found[f].records \cup Settled \subseteq Settled'
        BY <1>t, <2>1, <2>2, <3>3 DEF TypeOK
      <4>2. Sound(f, found[f].next, found[f].of, Settled')
        BY <1>s, <2>1, <4>1, SoundMonotone DEF FoundSound
      <4>. QED
        BY <1>g, <2>1, <4>1, <4>2
    <3>. QED
      BY <3>2, <3>3
  <2>. QED
    BY <2>3, <2>4, <2>5
<1>7. ASSUME BeginSave
      PROVE  Parts
  <2>1. UNCHANGED transcripts /\ UNCHANGED <<mem, found, promised, skipped>> /\ disk' = Blank
    BY <1>7 DEF BeginSave, outcome
  <2>2. Blank' = Blank
    BY <2>1 DEF transcripts, Blank
  <2>. QED
    BY <1>b, <1>g, <1>s, <2>1, <2>2 DEF MemSound, DiskSound, FoundSound, Settled
<1>8. ASSUME EndSave
      PROVE  Parts
  <2>1. UNCHANGED transcripts /\ UNCHANGED <<mem, found, promised, skipped>> /\ disk' = mem
    BY <1>8 DEF EndSave, outcome
  <2>. QED
    BY <1>g, <1>s, <2>1 DEF MemSound, DiskSound, FoundSound, Settled
<1>9. ASSUME Crash
      PROVE  Parts
  <2>1. /\ UNCHANGED transcripts /\ UNCHANGED <<promised, skipped>> /\ mem' = Blank
        /\ disk' \in {disk, Blank} /\ found' = [f \in File |-> NotRead]
    BY <1>9 DEF Crash, outcome
  <2>2. Blank' = Blank
    BY <2>1 DEF transcripts, Blank
  <2>3. MemSound' /\ DiskSound'
    BY <1>b, <1>g, <1>s, <2>1, <2>2 DEF MemSound, DiskSound, Settled
  <2>4. FoundSound'
    BY <2>1 DEF FoundSound
  <2>. QED
    BY <2>3, <2>4
<1>10. ASSUME Restart
      PROVE  Parts
  <2>1. UNCHANGED transcripts /\ UNCHANGED <<disk, found, promised, skipped>> /\ mem' = disk
    BY <1>10 DEF Restart, outcome
  <2>. QED
    BY <1>g, <1>s, <2>1 DEF MemSound, DiskSound, FoundSound, Settled
<1>11. ASSUME UNCHANGED vars
      PROVE  Parts
  <2>1. UNCHANGED transcripts /\ UNCHANGED <<mem, disk, found, promised, skipped>>
    BY <1>11 DEF vars, transcripts
  <2>. QED
    BY <1>g, <1>s, <2>1 DEF MemSound, DiskSound, FoundSound, Settled
<1>12. Parts
  BY <1>1, <1>2, <1>3, <1>4, <1>5, <1>6, <1>7, <1>8, <1>9, <1>10, <1>11 DEF Next, Pass
<1>. QED
  BY <1>t, <1>12 DEF CaptureInv

LEMMA InvInit == Init => CaptureInv
<1>. SUFFICES ASSUME Init PROVE CaptureInv
  OBVIOUS
<1>1. TypeOK
  BY InitType
<1>2. MemSound /\ DiskSound
  BY <1>1, CaptureAssumption DEF Init, MemSound, DiskSound, Sound, Blank, TypeOK
<1>3. FoundSound
  BY DEF Init, FoundSound
<1>. QED
  BY <1>1, <1>2, <1>3 DEF CaptureInv

\* A sound offset covers what is in front of it.
LEMMA InvCovered == CaptureInv => OffsetsCovered
<1>. SUFFICES ASSUME CaptureInv, NEW f \in File
              PROVE  Covers(f, mem[f]) /\ Covers(f, disk[f])
  BY DEF OffsetsCovered
<1>1. ASSUME NEW at, NEW of, Sound(f, at, of, Settled), of = gen[f]
      PROVE  LinesFrom(f, 0, at) \subseteq Settled
  <2>1. LinesFrom(f, 0, 0) = {}
    BY DEF LinesFrom
  <2>. QED
    BY <1>1, <2>1 DEF Sound
<1>. QED
  BY <1>1 DEF CaptureInv, MemSound, DiskSound, Covers, Settled

\* The types hold under every hazard, the regrown transcript included: a position past
\* the end of a transcript is the worst an offset can become.
THEOREM CaptureTypeCorrect == Spec => []TypeOK
<1>1. Init => TypeOK
  BY InitType
<1>2. TypeOK /\ [Next]_vars => TypeOK'
  BY TypeStep
<1>. QED
  BY <1>1, <1>2, PTL DEF Spec

\* While no transcript regrows past an old offset, every offset the observer holds or
\* saved is a line end of the transcript it belongs to, and covered.
THEOREM CaptureInvariant ==
  ASSUME SafeHazards
  PROVE  Spec => []CaptureInv
<1>1. Init => CaptureInv
  BY InvInit
<1>2. CaptureInv /\ [Next]_vars => CaptureInv'
  BY SafeHazards, InvStep
<1>. QED
  BY <1>1, <1>2, PTL DEF Spec

\* No offset passes a line that was not durably queued or deliberately skipped: not
\* after failed appends, crashes, failed saves or a lost offsets.json.
THEOREM CoveredOffsets ==
  ASSUME SafeHazards
  PROVE  Spec => []OffsetsCovered
BY SafeHazards, CaptureInvariant, InvCovered, PTL

-----------------------------------------------------------------------------
(* What reaches the queue: whole lines, in order, none that was declined *)

\* Nothing comes from a generation a transcript has not had.
Known == \A r \in written : r.gen <= gen[r.file]
\* What was read of a transcript are lines of it, up to the next offset.
FoundWhole ==
  \A f \in File : found[f] # NotRead => \A r \in found[f].records :
    /\ r.file = f /\ r.gen = found[f].of /\ r.to <= found[f].next
    /\ found[f].of = gen[f] => r \in Lines(f)
\* What was promised was written.
Kept == promised \subseteq written
WholeInv == WholeLines /\ OrderKept /\ Known /\ FoundWhole /\ Kept

LEMMA SameLines ==
  ASSUME text' = text, gen' = gen
  PROVE  \A f, a, b : LinesFrom(f, a, b)' = LinesFrom(f, a, b) /\ Lines(f)' = Lines(f)
BY DEF Lines, LinesFrom, EndsAt

LEMMA LineBounds ==
  ASSUME TypeOK, NEW f \in File, NEW r \in Lines(f)
  PROVE  /\ r.file = f /\ r.gen = gen[f] /\ r.from \in Nat /\ r.to \in Nat
         /\ r.from < r.to /\ r.to <= Len(text[f])
<1>1. Len(text[f]) \in Nat
  BY ReadFromNat, CaptureAssumption
<1>. QED
  BY <1>1 DEF Lines, LinesFrom

\* A line that ends by b is among the lines up to b.
LEMMA LinesWithin ==
  ASSUME TypeOK, NEW f \in File, NEW r \in Lines(f), NEW b \in Nat, r.to <= b
  PROVE  r \in LinesFrom(f, 0, b)
<1>1. Len(text[f]) \in Nat
  BY ReadFromNat, CaptureAssumption
<1>2. /\ r \in [file : {f}, gen : {gen[f]}, from : 1..Len(text[f]), to : 1..Len(text[f])]
      /\ r.from < r.to
      /\ EndsAt(f, r.to)
      /\ r.from = 1 \/ EndsAt(f, r.from - 1)
      /\ \A q \in r.from..(r.to - 1) : ~EndsAt(f, q)
  BY <1>1 DEF Lines, LinesFrom
<1>3. r \in [file : {f}, gen : {gen[f]}, from : 1..b, to : 1..b]
  BY <1>1, <1>2
<1>. QED
  BY <1>2, <1>3 DEF LinesFrom

\* What is read from a line end on are lines of the transcript.
LEMMA LinesBehind ==
  ASSUME TypeOK, NEW f \in File, NEW a \in Nat, NEW b \in Nat, a = 0 \/ EndsAt(f, a),
         NEW r \in LinesFrom(f, a, b)
  PROVE  /\ r \in Lines(f) /\ r.file = f /\ r.gen = gen[f]
         /\ a < r.from /\ r.to <= b
<1>1. Len(text[f]) \in Nat
  BY ReadFromNat, CaptureAssumption
<1>2. /\ r \in [file : {f}, gen : {gen[f]}, from : (a + 1)..b, to : (a + 1)..b]
      /\ r.from < r.to
      /\ EndsAt(f, r.to)
      /\ r.from = a + 1 \/ EndsAt(f, r.from - 1)
      /\ \A q \in r.from..(r.to - 1) : ~EndsAt(f, q)
  BY DEF LinesFrom
<1>3. r.from = 1 \/ EndsAt(f, r.from - 1)
  <2>1. CASE r.from = a + 1
    <3>1. r.from - 1 = a
      BY <2>1
    <3>. QED
      BY <2>1, <3>1
  <2>. QED
    BY <1>2, <2>1
<1>4. r.to <= Len(text[f])
  BY <1>1, <1>2 DEF EndsAt
<1>5. r \in [file : {f}, gen : {gen[f]}, from : 1..Len(text[f]), to : 1..Len(text[f])]
  BY <1>1, <1>2, <1>4
<1>6. r \in Lines(f)
  BY <1>2, <1>3, <1>5 DEF Lines, LinesFrom
<1>. QED
  BY <1>2, <1>6

\* A transcript that grows keeps its lines; a new one ends where it grew.
LEMMA WriteLines ==
  ASSUME TypeOK, NEW f \in File, NEW cell \in {EOL, Char}, Write(f, cell), NEW g \in File
  PROVE  /\ Lines(g) \subseteq Lines(g)'
         /\ \A r \in Lines(g)' : r.to <= Len(text[g]) => r \in Lines(g)
<1>1. /\ text' = [text EXCEPT ![f] = Append(@, cell)] /\ gen' = gen
  BY DEF Write
<1>2. /\ \A p \in 0..Len(text[g]) : EndsAt(g, p)' <=> EndsAt(g, p)
      /\ Len(text[g]) <= Len(text'[g])
  BY <1>1, AppendKeepsLines
<1>3. Len(text[g]) \in Nat /\ Len(text'[g]) \in Nat
  BY ReadFromNat, TypeStep, CaptureAssumption DEF Next
<1>4. ASSUME NEW r \in Lines(g)
      PROVE  r \in Lines(g)'
  <2>1. /\ r \in [file : {g}, gen : {gen[g]}, from : 1..Len(text[g]), to : 1..Len(text[g])]
        /\ r.from < r.to
        /\ EndsAt(g, r.to)
        /\ r.from = 1 \/ EndsAt(g, r.from - 1)
        /\ \A q \in r.from..(r.to - 1) : ~EndsAt(g, q)
    BY <1>3 DEF Lines, LinesFrom
  <2>2. /\ r.from - 1 \in 0..Len(text[g]) /\ r.to \in 0..Len(text[g])
        /\ \A q \in r.from..(r.to - 1) : q \in 0..Len(text[g])
    BY <1>3, <2>1
  <2>3. r \in [file : {g}, gen : {gen'[g]}, from : 1..Len(text'[g]), to : 1..Len(text'[g])]
    BY <1>1, <1>2, <1>3, <2>1
  <2>. QED
    BY <1>2, <2>1, <2>2, <2>3 DEF Lines, LinesFrom
<1>5. ASSUME NEW r \in Lines(g)', r.to <= Len(text[g])
      PROVE  r \in Lines(g)
  <2>1. /\ r \in [file : {g}, gen : {gen'[g]}, from : 1..Len(text'[g]), to : 1..Len(text'[g])]
        /\ r.from < r.to
        /\ EndsAt(g, r.to)'
        /\ r.from = 1 \/ EndsAt(g, r.from - 1)'
        /\ \A q \in r.from..(r.to - 1) : ~(EndsAt(g, q)')
    BY <1>3, <1>5 DEF Lines, LinesFrom
  <2>2. /\ r.from - 1 \in 0..Len(text[g]) /\ r.to \in 0..Len(text[g])
        /\ \A q \in r.from..(r.to - 1) : q \in 0..Len(text[g])
    BY <1>3, <1>5, <2>1
  <2>3. r \in [file : {g}, gen : {gen[g]}, from : 1..Len(text[g]), to : 1..Len(text[g])]
    BY <1>1, <1>3, <1>5, <2>1
  <2>. QED
    BY <1>2, <2>1, <2>2, <2>3 DEF Lines, LinesFrom
<1>. QED
  BY <1>4, <1>5

LEMMA WholeWrite ==
  ASSUME CaptureInv, WholeInv, NEW f \in File, NEW cell \in {EOL, Char}, Write(f, cell)
  PROVE  WholeInv'
<1>t. TypeOK
  BY DEF CaptureInv
<1>1. UNCHANGED <<gen, found, written, promised, skipped>>
  BY DEF Write, pass, outcome
<1>2. \A g \in File : /\ Lines(g) \subseteq Lines(g)'
                      /\ \A r \in Lines(g)' : r.to <= Len(text[g]) => r \in Lines(g)
  BY <1>t, WriteLines
<1>3. WholeLines'
  BY <1>1, <1>2 DEF WholeInv, WholeLines
<1>4. ASSUME NEW g \in File, NEW r \in written', NEW s \in Lines(g)',
             r.file = g, r.gen = gen'[g], s.to < r.from
      PROVE  s \in written' \cup skipped'
  <2>1. r \in Lines(g) /\ r \in written
    BY <1>1, <1>4 DEF WholeInv, WholeLines
  <2>2. r.from \in Nat /\ r.to \in Nat /\ r.from < r.to /\ r.to <= Len(text[g])
    BY <1>t, <2>1, LineBounds
  <2>3. Len(text'[g]) \in Nat
    BY <1>t, TypeStep, CaptureAssumption DEF Next, TypeOK
  <2>4. s.to \in Nat
    BY <1>4, <2>3 DEF Lines, LinesFrom
  <2>5. Len(text[g]) \in Nat
    BY <1>t, ReadFromNat, CaptureAssumption
  <2>6. s \in Lines(g)
    BY <1>2, <1>4, <2>2, <2>4, <2>5
  <2>. QED
    BY <1>1, <1>4, <2>1, <2>6 DEF WholeInv, OrderKept
<1>5. OrderKept'
  BY <1>4 DEF OrderKept
<1>6. Known' /\ Kept'
  BY <1>1 DEF WholeInv, Known, Kept
<1>7. FoundWhole'
  BY <1>1, <1>2 DEF WholeInv, FoundWhole
<1>. QED
  BY <1>3, <1>5, <1>6, <1>7 DEF WholeInv

\* Nothing in the queue or in memory is of the generation that begins.
LEMMA WholeRecreate ==
  ASSUME CaptureInv, WholeInv, NEW f \in File, Recreate(f)
  PROVE  WholeInv'
<1>t. TypeOK /\ CaptureAssumption
  BY CaptureAssumption DEF CaptureInv
<1>1. /\ UNCHANGED <<found, written, promised, skipped>>
      /\ gen' = [gen EXCEPT ![f] = @ + 1] /\ text' = [text EXCEPT ![f] = <<>>]
  BY DEF Recreate, pass, outcome
<1>2. /\ gen'[f] = gen[f] + 1 /\ gen[f] \in Nat
      /\ \A g \in File : g # f => gen'[g] = gen[g] /\ text'[g] = text[g]
  BY <1>1, <1>t DEF TypeOK, CaptureAssumption
<1>3. \A g \in File : g # f => Lines(g)' = Lines(g)
  BY <1>2 DEF Lines, LinesFrom, EndsAt
<1>4. ASSUME NEW r \in written
      PROVE  /\ r.file \in File /\ r.gen \in Nat
             /\ r.gen <= gen'[r.file] /\ (r.file = f => r.gen # gen'[f])
  <2>1. r \in LineRef
    BY <1>t DEF TypeOK
  <2>2. r.file \in File /\ r.gen \in Nat
    BY <2>1, <1>t DEF LineRef, CaptureAssumption
  <2>3. r.gen <= gen[r.file]
    BY DEF WholeInv, Known
  <2>. QED
    BY <1>2, <2>2, <2>3
<1>5. Known' /\ Kept'
  BY <1>1, <1>4 DEF WholeInv, Known, Kept
<1>6. WholeLines'
  BY <1>1, <1>2, <1>3, <1>4 DEF WholeInv, WholeLines
<1>7. OrderKept'
  BY <1>1, <1>2, <1>3, <1>4 DEF WholeInv, OrderKept
<1>8. FoundWhole'
  <2>1. found[f] # NotRead => found[f].of # gen'[f]
    <3>1. found[f] # NotRead => found[f].of <= gen[f] /\ found[f].of \in 0..MaxRewrites
      BY <1>t DEF CaptureInv, FoundSound, Sound, TypeOK, Captured
    <3>. QED
      BY <1>2, <1>t, <3>1 DEF CaptureAssumption
  <2>. QED
    BY <1>1, <1>2, <1>3, <2>1 DEF WholeInv, FoundWhole
<1>. QED
  BY <1>5, <1>6, <1>7, <1>8 DEF WholeInv

\* What a pass reads continues a sound offset: it enters no line in the middle.
LEMMA WholeRead ==
  ASSUME CaptureInv, WholeInv, NEW f \in File, NEW fate \in Fate, ReadFile(f, fate)
  PROVE  WholeInv'
<1>t. TypeOK
  BY DEF CaptureInv
<1>1. UNCHANGED <<text, gen, written, promised, skipped>>
  BY DEF ReadFile, transcripts, outcome
<1>2. PICK last \in Complete(f) :
        found' = [found EXCEPT ![f] =
          [records |-> LinesFrom(f, ReadFrom(f), last), next |-> last,
           of |-> gen[f], fate |-> fate]]
  BY DEF ReadFile
<1>3. last \in Nat /\ ReadFrom(f) \in Nat
  BY <1>t, ReadFromNat, CaptureAssumption DEF Complete, EndsAt
<1>4. ReadFrom(f) = 0 \/ EndsAt(f, ReadFrom(f))
  <2>1. mem[f].at \in Nat /\ Len(text[f]) \in Nat
    BY <1>t, ReadFromNat, CaptureAssumption DEF TypeOK, Offset
  <2>2. mem[f].at # 0 => EndsAt(f, mem[f].at) \/ mem[f].at > Len(text[f])
    BY DEF CaptureInv, MemSound, Sound
  <2>. QED
    BY <2>1, <2>2 DEF ReadFrom
<1>5. \A r \in LinesFrom(f, ReadFrom(f), last) :
        r \in Lines(f) /\ r.file = f /\ r.gen = gen[f] /\ r.to <= last
  BY <1>t, <1>3, <1>4, LinesBehind
<1>6. \A g \in File : Lines(g)' = Lines(g)
  BY <1>1, SameLines
<1>7. FoundWhole'
  <2>1. /\ found'[f].next = last /\ found'[f].of = gen[f]
        /\ found'[f].records = LinesFrom(f, ReadFrom(f), last)
        /\ \A g \in File : g # f => found'[g] = found[g]
    BY <1>t, <1>2 DEF TypeOK
  <2>2. ASSUME NEW g \in File, found'[g] # NotRead, NEW r \in found'[g].records
        PROVE  /\ r.file = g /\ r.gen = found'[g].of /\ r.to <= found'[g].next
               /\ found'[g].of = gen'[g] => r \in Lines(g)'
    <3>1. CASE g = f
      BY <1>1, <1>5, <1>6, <2>1, <2>2, <3>1
    <3>2. CASE g # f
      BY <1>1, <1>6, <2>1, <2>2, <3>2 DEF WholeInv, FoundWhole
    <3>. QED
      BY <3>1, <3>2
  <2>. QED
    BY <2>2 DEF FoundWhole
<1>. QED
  BY <1>1, <1>6, <1>7 DEF WholeInv, WholeLines, OrderKept, Known, Kept

\* An append writes what was read from its beginning on, and all in front of it was
\* decided on.
LEMMA WholeCommit ==
  ASSUME CaptureInv, WholeInv, NEW f \in File, Commit(f)
  PROVE  WholeInv'
<1>t. TypeOK
  BY DEF CaptureInv
<1>1. /\ UNCHANGED <<text, gen>> /\ found[f] # NotRead
      /\ found' = [found EXCEPT ![f] = NotRead]
      /\ skipped \subseteq skipped'
  BY DEF Commit, Queue, QueueFails, Skip, Hold, Committing, transcripts
<1>2. /\ found[f].records \subseteq LineRef
      /\ found[f].next \in Nat /\ found[f].next # 0
  BY <1>t, <1>1, CaptureAssumption DEF TypeOK, Captured
<1>3. PICK k \in Nat :
        \/ written' = written
        \/ written' = written \cup {r \in found[f].records : r.to <= k}
  <2>1. CASE Queue(f)
    <3>1. \A r \in found[f].records : r.to <= found[f].next
      BY <1>1 DEF WholeInv, FoundWhole
    <3>2. written' = written \cup {r \in found[f].records : r.to <= found[f].next}
      BY <2>1, <3>1 DEF Queue
    <3>. QED
      BY <1>2, <3>2
  <2>2. CASE QueueFails(f)
    <3>1. PICK k \in 0..found[f].next :
            written' = written \cup {r \in found[f].records : r.to <= k}
      BY <2>2 DEF QueueFails
    <3>2. k \in Nat
      BY <1>2, <3>1
    <3>. QED
      BY <3>1, <3>2
  <2>3. CASE Skip(f) \/ Hold(f)
    BY <2>3 DEF Skip, Hold
  <2>. QED
    BY <2>1, <2>2, <2>3 DEF Commit
<1>4. Kept'
  BY DEF WholeInv, Kept, Commit, Queue, QueueFails, Skip, Hold
<1>5. \A g \in File : Lines(g)' = Lines(g)
  BY <1>1, SameLines
<1>6. \A r \in found[f].records :
        /\ r.file = f /\ r.gen = found[f].of
        /\ found[f].of = gen[f] => r \in Lines(f)
  BY <1>1 DEF WholeInv, FoundWhole
<1>7. found[f].of <= gen[f]
  BY <1>1 DEF CaptureInv, FoundSound, Sound
<1>8. Known'
  BY <1>1, <1>3, <1>6, <1>7 DEF WholeInv, Known
<1>9. WholeLines'
  BY <1>1, <1>3, <1>5, <1>6 DEF WholeInv, WholeLines
<1>10. ASSUME NEW g \in File, NEW r \in written', NEW s \in Lines(g)',
              r.file = g, r.gen = gen'[g], s.to < r.from
       PROVE  s \in written' \cup skipped'
  <2>1. s \in Lines(g)
    BY <1>5
  <2>2. CASE r \in written
    BY <1>1, <1>3, <1>10, <2>1, <2>2 DEF WholeInv, OrderKept
  <2>3. CASE r \notin written
    <3>1. r \in found[f].records /\ r.to <= k
          /\ written' = written \cup {q \in found[f].records : q.to <= k}
      BY <1>3, <1>10, <2>3
    <3>2. g = f /\ found[f].of = gen[f] /\ r \in Lines(f) /\ r.to <= found[f].next
      BY <1>1, <1>6, <1>10, <3>1 DEF WholeInv, FoundWhole
    <3>3. r.from \in Nat /\ r.to \in Nat /\ r.from < r.to
      BY <1>t, <3>2, LineBounds
    <3>4. s.to \in Nat
      BY <1>t, <2>1, LineBounds
    <3>5. s \in LinesFrom(f, 0, found[f].next)
      <4>1. s.to <= found[f].next
        BY <1>2, <1>10, <3>2, <3>3, <3>4
      <4>. QED
        BY <1>t, <1>2, <2>1, <3>2, <4>1, LinesWithin
    <3>6. s \in found[f].records \cup Settled
      BY <1>1, <1>2, <3>2, <3>5 DEF CaptureInv, FoundSound, Sound
    <3>7. s \in found[f].records => s \in written'
      <4>1. s.to <= k
        BY <1>10, <3>1, <3>3, <3>4
      <4>. QED
        BY <3>1, <4>1
    <3>. QED
      BY <1>1, <3>1, <3>6, <3>7 DEF Settled, WholeInv, Kept
  <2>. QED
    BY <2>2, <2>3
<1>11. OrderKept'
  BY <1>10 DEF OrderKept
<1>12. FoundWhole'
  <2>1. \A g \in File : found'[g] # NotRead => found'[g] = found[g]
    BY <1>t, <1>1 DEF TypeOK
  <2>. QED
    BY <1>1, <1>5, <2>1 DEF WholeInv, FoundWhole
<1>. QED
  BY <1>4, <1>8, <1>9, <1>11, <1>12 DEF WholeInv

LEMMA WholeStep ==
  ASSUME CaptureInv, WholeInv, [Next]_vars
  PROVE  WholeInv'
<1>1. ASSUME UNCHANGED <<text, gen, written, promised, skipped>>,
             \A f \in File : found'[f] \in {found[f], NotRead}
      PROVE  WholeInv'
  <2>1. \A g \in File : Lines(g)' = Lines(g)
    BY <1>1, SameLines
  <2>. QED
    BY <1>1, <2>1 DEF WholeInv, WholeLines, OrderKept, Known, FoundWhole, Kept
<1>2. ASSUME NEW f \in File, ReadNothing(f)
      PROVE  WholeInv'
  BY <1>1, <1>2 DEF ReadNothing, transcripts, outcome
<1>3. CASE StartPass \/ EndScan \/ NothingToSave \/ BeginSave \/ EndSave \/ Restart
  BY <1>1, <1>3
     DEF StartPass, EndScan, NothingToSave, BeginSave, EndSave, Restart, transcripts, outcome
<1>4. CASE SaveFails \/ Crash
  BY <1>1, <1>4 DEF SaveFails, Crash, transcripts, outcome
<1>5. CASE UNCHANGED vars
  BY <1>1, <1>5 DEF vars
<1>. QED
  BY <1>2, <1>3, <1>4, <1>5, WholeWrite, WholeRecreate, WholeRead, WholeCommit
     DEF Next, Pass

LEMMA WholeInit == Init => WholeInv
BY DEF Init, WholeInv, WholeLines, OrderKept, Known, FoundWhole, Kept

LEMMA WholeInvariant ==
  ASSUME SafeHazards
  PROVE  Spec => []WholeInv
<1>1. Init => WholeInv
  BY WholeInit
<1>2. CaptureInv /\ WholeInv /\ [Next]_vars => WholeInv'
  BY WholeStep
<1>3. Spec => []CaptureInv
  BY SafeHazards, CaptureInvariant
<1>. QED
  BY <1>1, <1>2, <1>3, PTL DEF Spec

\* A queued record is a whole line of its transcript: the first half of a line still
\* being written is never queued, and a line is never entered in the middle.
THEOREM QueuesWholeLines ==
  ASSUME SafeHazards
  PROVE  Spec => []WholeLines
<1>1. WholeInv => WholeLines
  BY DEF WholeInv
<1>. QED
  BY <1>1, SafeHazards, WholeInvariant, PTL

\* Lines reach the queue in the order of their transcript, through failed appends.
THEOREM QueuesInOrder ==
  ASSUME SafeHazards
  PROVE  Spec => []OrderKept
<1>1. WholeInv => OrderKept
  BY DEF WholeInv
<1>. QED
  BY <1>1, SafeHazards, WholeInvariant, PTL

(***************************************************************************)
(* What was declined and saved stays out: offsets.json is behind the       *)
(* offsets in memory, which are behind what the pass has read.             *)
(***************************************************************************)

Behind(o, at, of) == o.at = 0 \/ o.of < of \/ (o.of = of /\ o.at <= at)

DiskBehind == pc # "down" => \A f \in File : Behind(disk[f], mem[f].at, mem[f].of)
FoundAhead ==
  \A f \in File : found[f] # NotRead =>
    /\ Behind(disk[f], found[f].next, found[f].of)
    /\ disk[f].of = found[f].of => \A r \in found[f].records : r.to > disk[f].at
\* Between passes nothing read is waiting for its commit.
Quiet == pc \notin {"scan", "commit"} => \A f \in File : found[f] = NotRead
AheadInv == DiskBehind /\ FoundAhead /\ Quiet

LEMMA AheadRead ==
  ASSUME CaptureInv, AheadInv, NEW f \in File, NEW fate \in Fate, ReadFile(f, fate)
  PROVE  AheadInv'
<1>. USE CaptureAssumption
<1>t. TypeOK
  BY DEF CaptureInv
<1>1. /\ UNCHANGED <<text, gen, mem, disk, pc>> /\ pc = "scan"
  BY DEF ReadFile, transcripts
<1>2. PICK last \in Complete(f) :
        found' = [found EXCEPT ![f] =
          [records |-> LinesFrom(f, ReadFrom(f), last), next |-> last,
           of |-> gen[f], fate |-> fate]]
  BY DEF ReadFile
<1>3. last \in Nat /\ ReadFrom(f) \in Nat /\ ReadFrom(f) < last /\ Len(text[f]) \in Nat
  BY <1>t, ReadFromNat DEF Complete, EndsAt
<1>4. /\ mem[f].at \in Nat /\ mem[f].of \in Nat /\ gen[f] \in Nat
      /\ disk[f].at \in Nat /\ disk[f].of \in Nat
  BY <1>t DEF TypeOK, Offset
<1>5. /\ mem[f].of <= gen[f]
      /\ mem[f].at # 0 /\ mem[f].of = gen[f] => EndsAt(f, mem[f].at)
  BY DEF CaptureInv, MemSound, Sound
<1>6. mem[f].of = gen[f] => ReadFrom(f) = mem[f].at
  BY <1>3, <1>4, <1>5 DEF ReadFrom, EndsAt
<1>7. Behind(disk[f], mem[f].at, mem[f].of)
  BY <1>1 DEF AheadInv, DiskBehind
<1>8. disk[f].at = 0 \/ disk[f].of < gen[f] \/ (disk[f].of = gen[f] /\ disk[f].at <= ReadFrom(f))
  BY <1>4, <1>5, <1>6, <1>7 DEF Behind
<1>9. \A r \in LinesFrom(f, ReadFrom(f), last) : r.to \in Nat /\ r.to > ReadFrom(f)
  BY <1>3 DEF LinesFrom
<1>10. FoundAhead'
  <2>1. /\ found'[f].next = last /\ found'[f].of = gen[f]
        /\ found'[f].records = LinesFrom(f, ReadFrom(f), last)
        /\ \A g \in File : g # f => found'[g] = found[g]
    BY <1>t, <1>2 DEF TypeOK
  <2>2. Behind(disk[f], last, gen[f])
    BY <1>3, <1>4, <1>8 DEF Behind
  <2>3. disk[f].of = gen[f] =>
          \A r \in LinesFrom(f, ReadFrom(f), last) : r.to > disk[f].at
    BY <1>3, <1>4, <1>8, <1>9
  <2>4. \A g \in File : disk'[g] = disk[g]
    BY <1>1
  <2>. QED
    BY <2>1, <2>2, <2>3, <2>4 DEF AheadInv, FoundAhead, Behind
<1>11. DiskBehind' /\ Quiet'
  BY <1>1 DEF AheadInv, DiskBehind, Quiet, Behind
<1>. QED
  BY <1>10, <1>11 DEF AheadInv

LEMMA AheadCommit ==
  ASSUME CaptureInv, AheadInv, NEW f \in File, Commit(f)
  PROVE  AheadInv'
<1>t. TypeOK
  BY DEF CaptureInv
<1>1. /\ UNCHANGED <<disk, pc>> /\ pc = "commit" /\ found[f] # NotRead
      /\ found' = [found EXCEPT ![f] = NotRead]
  BY DEF Commit, Queue, QueueFails, Skip, Hold, Committing
<1>2. \/ mem' = mem
      \/ mem' = [mem EXCEPT ![f] = [at |-> found[f].next, of |-> found[f].of]]
  BY DEF Commit, Queue, QueueFails, Skip, Hold, Advance
<1>3. FoundAhead'
  <2>1. \A g \in File : found'[g] # NotRead => found'[g] = found[g]
    BY <1>t, <1>1 DEF TypeOK
  <2>. QED
    BY <1>1, <2>1 DEF AheadInv, FoundAhead, Behind
<1>4. DiskBehind'
  <2>1. \A g \in File : Behind(disk[g], mem[g].at, mem[g].of)
    BY <1>1 DEF AheadInv, DiskBehind
  <2>2. Behind(disk[f], found[f].next, found[f].of)
    BY <1>1 DEF AheadInv, FoundAhead
  <2>3. ASSUME NEW g \in File PROVE Behind(disk[g], mem'[g].at, mem'[g].of)
    <3>1. CASE mem'[g] = mem[g]
      BY <2>1, <3>1
    <3>2. CASE mem'[g] # mem[g]
      <4>1. g = f /\ mem'[g] = [at |-> found[f].next, of |-> found[f].of]
        BY <1>t, <1>2, <3>2 DEF TypeOK
      <4>. QED
        BY <2>2, <4>1
    <3>. QED
      BY <3>1, <3>2
  <2>. QED
    BY <1>1, <2>3 DEF DiskBehind, Behind
<1>. QED
  BY <1>1, <1>3, <1>4 DEF AheadInv, Quiet

LEMMA AheadStep ==
  ASSUME CaptureInv, AheadInv, [Next]_vars
  PROVE  AheadInv'
<1>. USE CaptureAssumption
<1>t. TypeOK
  BY DEF CaptureInv
<1>o. \A f \in File : mem[f].at \in Nat /\ disk[f].at \in Nat
  BY <1>t DEF TypeOK, Offset
<1>1. ASSUME UNCHANGED <<mem, disk, found, pc>>
      PROVE  AheadInv'
  BY <1>1 DEF AheadInv, DiskBehind, FoundAhead, Quiet, Behind
<1>2. ASSUME NEW f \in File, NEW cell \in {EOL, Char}, Write(f, cell)
      PROVE  AheadInv'
  BY <1>1, <1>2 DEF Write, pass
<1>3. ASSUME NEW f \in File, Recreate(f)
      PROVE  AheadInv'
  BY <1>1, <1>3 DEF Recreate, pass
<1>4. ASSUME NEW f \in File, ReadNothing(f)
      PROVE  AheadInv'
  BY <1>1, <1>4 DEF ReadNothing
<1>5. CASE StartPass \/ EndScan
  <2>1. /\ UNCHANGED <<mem, disk, found>> /\ pc # "down" /\ pc' \in {"scan", "commit"}
    BY <1>5 DEF StartPass, EndScan
  <2>. QED
    BY <2>1 DEF AheadInv, DiskBehind, FoundAhead, Quiet, Behind
\* A save starts when everything read is committed, and none goes on meanwhile.
<1>6. CASE NothingToSave \/ BeginSave \/ EndSave \/ SaveFails
  <2>1. /\ UNCHANGED <<mem, found>> /\ pc # "down"
        /\ \A f \in File : found[f] = NotRead
    BY <1>6 DEF NothingToSave, BeginSave, EndSave, SaveFails, AllCommitted, AheadInv, Quiet
  <2>2. disk' \in {disk, Blank, mem}
    BY <1>6 DEF NothingToSave, BeginSave, EndSave, SaveFails
  <2>3. \A f \in File : Behind(disk'[f], mem[f].at, mem[f].of)
    BY <1>o, <2>1, <2>2 DEF AheadInv, DiskBehind, Behind, Blank
  <2>. QED
    BY <2>1, <2>3 DEF AheadInv, DiskBehind, FoundAhead, Quiet, Behind
<1>7. CASE Crash
  BY <1>7 DEF Crash, AheadInv, DiskBehind, FoundAhead, Quiet
<1>8. CASE Restart
  <2>1. /\ UNCHANGED <<disk, found>> /\ mem' = disk /\ pc = "down"
    BY <1>8 DEF Restart
  <2>2. \A f \in File : Behind(disk[f], disk[f].at, disk[f].of)
    BY <1>o DEF Behind
  <2>. QED
    BY <2>1, <2>2 DEF AheadInv, DiskBehind, FoundAhead, Quiet, Behind
<1>9. CASE UNCHANGED vars
  BY <1>1, <1>9 DEF vars
<1>. QED
  BY <1>2, <1>3, <1>4, <1>5, <1>6, <1>7, <1>8, <1>9, AheadRead, AheadCommit DEF Next, Pass

LEMMA AheadInit == Init => AheadInv
BY DEF Init, Blank, AheadInv, DiskBehind, FoundAhead, Quiet, Behind

\* What is written in a step is read beyond the offset that is saved.
LEMMA DeclinedStep ==
  ASSUME CaptureInv, WholeInv, AheadInv, [Next]_vars,
         NEW r \in Declined, r \in written'
  PROVE  r \in written
<1>. SUFFICES ASSUME r \notin written PROVE FALSE
  OBVIOUS
<1>1. PICK f \in File : Commit(f)
  BY DEF Next, Pass, vars, Write, Recreate, StartPass, ReadNothing, ReadFile, EndScan,
         NothingToSave, BeginSave, EndSave, SaveFails, Crash, Restart, outcome
<1>2. found[f] # NotRead /\ r \in found[f].records
  BY <1>1 DEF Commit, Queue, QueueFails, Skip, Hold, Committing
<1>3. r.file = f /\ r.gen = found[f].of
  BY <1>2 DEF WholeInv, FoundWhole
<1>4. disk[f].of = found[f].of /\ r.to <= disk[f].at
  BY <1>3 DEF Declined
<1>5. r.to > disk[f].at
  BY <1>2, <1>4 DEF AheadInv, FoundAhead
<1>6. r.to \in Nat /\ disk[f].at \in Nat
  BY CaptureAssumption DEF CaptureInv, TypeOK, Declined, LineRef, Offset
<1>. QED
  BY <1>4, <1>5, <1>6

\* A line that was passed over, and saved as such, is never uploaded later: not after
\* a restart, and not when its repository gets a destination.
THEOREM NeverUploadsDeclined ==
  ASSUME SafeHazards
  PROVE  Spec => DeclinedStaysOut
<1>1. Init => AheadInv
  BY AheadInit
<1>2. CaptureInv /\ AheadInv /\ [Next]_vars => AheadInv'
  BY AheadStep
<1>3. CaptureInv /\ WholeInv /\ AheadInv /\ [Next]_vars
        => [\A r \in Declined : r \in written' => r \in written]_vars
  BY DeclinedStep
<1>4. Spec => []CaptureInv /\ []WholeInv
  BY SafeHazards, CaptureInvariant, WholeInvariant, PTL
<1>. QED
  BY <1>1, <1>2, <1>3, <1>4, PTL DEF Spec, DeclinedStaysOut
=============================================================================
