------------------------------ MODULE SpoolQueue ------------------------------
(***************************************************************************)
(* One route's durable queue: spool/<id>/records.ndjson with its           *)
(* cursor.json, as src/src/spool.rs keeps them and as scan_and_ship, drain *)
(* and one_batch (src/src/main.rs) drive them.                             *)
(*                                                                         *)
(* The observer holds a file lock, so one process runs the operations; its *)
(* program counter pc stops between every two writes that reach the disk,  *)
(* so that a crash or an I/O error can fall there.  `khotan-observer       *)
(* status` takes no lock and lists routes too: it is the second actor.     *)
(*                                                                         *)
(* Positions count lines, not bytes.  A line is a record, or Garbled: what *)
(* becomes of a half-written line once the next append continues it.  The  *)
(* last line may lack its newline: that is tail.                           *)
(***************************************************************************)
EXTENDS Integers, Sequences, Functions

CONSTANTS
  Record,         \* the captured records
  Garbled,        \* a complete line that no longer parses as a record
  Fragment,       \* an unterminated line that does not parse
  NoTail,         \* the file ends with a newline
  NoSnap,         \* the status command holds no cursor to write
  BatchLimit,     \* cfg.batch: records one request carries at most
  CompactAfter,   \* COMPACT_AFTER: delivered lines kept in front of the cursor
  MaxAppendLen,   \* bound: records one append carries
  MaxAppends,     \* bound: calls of append
  MaxFaults,      \* bound: crashes and I/O errors
  Windows         \* which of WindowNames the environment may hit

\* Places where an interruption leaves cursor.json and records.ndjson at odds.
\*   torn      an append stops inside a line (a killed write, a full disk)
\*   unlinked  the drained file is gone, the cursor is not reset yet
\*   compacted the file is rewritten, the cursor still holds the old offset
\*   unsaved   routes() cannot write the cursor it scanned and goes on
\*   unremoved drop_front cannot remove the drained file and goes on
\*   status    the lock holder takes a step between the moment the lock-free
\*             status command read the queue and the moment it writes its cursor
WindowNames == {"torn", "unlinked", "compacted", "unsaved", "unremoved", "status"}

ASSUME ConstantsOK ==
  /\ Record # {}
  /\ {Garbled, Fragment, NoTail} \cap Record = {}
  /\ Garbled # Fragment /\ Garbled # NoTail /\ Fragment # NoTail
  /\ BatchLimit \in Nat \ {0}
  /\ CompactAfter \in Nat
  /\ MaxAppendLen \in Nat \ {0}
  /\ MaxAppends \in Nat
  /\ MaxFaults \in Nat
  /\ Windows \subseteq WindowNames
  \* A position is a whole line here.  With a count that is off as well, delivery
  \* could stop inside a line that a later append continues.
  /\ "torn" \in Windows => Windows = {"torn"}

VARIABLES
  exists,     \* records.ndjson is there
  lines,      \* its complete lines, oldest first
  tail,       \* its last line, when that has no newline
  cursor,     \* cursor.json
  pc,         \* where the lock holder is
  todo,       \* append: records still to write
  batch,      \* append: the records of the call; drain: the peeked batch
  fresh,      \* drop_front: the cursor computed, not yet written
  snap,       \* status: the cursor it scanned, not yet written
  durable,    \* records an append has returned Ok for
  sent,       \* records the endpoint has accepted
  parked,     \* records moved to quarantine/oversize-<id>.ndjson
  cleared,    \* records removed by clear-queue
  appends,    \* counts calls of append
  faults      \* counts crashes and I/O errors

file    == <<exists, lines, tail>>
memory  == <<todo, batch, fresh>>
history == <<durable, sent, parked, cleared>>
bounds  == <<appends, faults>>
vars    == <<exists, lines, tail, cursor, pc, todo, batch, fresh, snap,
             durable, sent, parked, cleared, appends, faults>>

Line   == Record \cup {Garbled}
Ending  == Record \cup {Fragment, NoTail}
Cursor == [offset : Nat, pending : Nat, scanned : Nat]
PC     == {"idle", "writing", "lane", "posting", "parking", "posted",
           "unlinked", "compacted"}

Start == [offset |-> 0, pending |-> 0, scanned |-> 0]

TypeOK ==
  /\ exists \in BOOLEAN
  /\ lines \in Seq(Line)
  /\ tail \in Ending
  /\ cursor \in Cursor
  /\ pc \in PC
  /\ todo \in Seq(Record)
  /\ batch \in Seq(Record)
  /\ fresh \in Cursor
  /\ snap \in Cursor \cup {NoSnap}
  /\ durable \subseteq Record
  /\ sent \subseteq Record
  /\ parked \subseteq Record
  /\ cleared \subseteq Record
  /\ appends \in 0..MaxAppends
  /\ faults \in 0..MaxFaults

Init ==
  /\ exists = FALSE
  /\ lines = <<>>
  /\ tail = NoTail
  /\ cursor = Start
  /\ pc = "idle"
  /\ todo = <<>>
  /\ batch = <<>>
  /\ fresh = Start
  /\ snap = NoSnap
  /\ durable = {}
  /\ sent = {}
  /\ parked = {}
  /\ cleared = {}
  /\ appends = 0
  /\ faults = 0

-----------------------------------------------------------------------------
(* Reading the file and the cursor *)

Least(a, b) == IF a <= b THEN a ELSE b
Minus(a, b) == IF a >= b THEN a - b ELSE 0      \* saturating_sub

\* Every line a reader meets; read_line hands out the unterminated one too.
Content == IF tail = NoTail THEN lines ELSE Append(lines, tail)
FileLen == Len(Content)

\* Mutated: the stored count is trusted and the new lines are not looked at.
ScanTail_Trusting(c) == IF exists THEN c ELSE Start

\* Mutated: every look counts the file from its beginning.
ScanTail_Recounting(c) ==
  IF exists THEN [c EXCEPT !.pending = @ + Len(lines), !.scanned = Len(lines)] ELSE Start

\* scan_tail: count the complete lines past scanned, after starting over when
\* the file is gone, is shorter than what was scanned, or ends before offset.
ScanTail(c) ==
  IF ~exists THEN Start
  ELSE LET base  == IF FileLen < c.scanned \/ FileLen < c.offset THEN Start ELSE c
           added == Minus(Len(lines), base.scanned)
       IN [offset  |-> base.offset,
           pending |-> base.pending + added,
           scanned |-> base.scanned + added]

\* The lines from a position on.
From(offset) == SubSeq(Content, offset + 1, FileLen)

-----------------------------------------------------------------------------
(* append: write every record and its newline, sync, then count them *)

BeginAppend(b) ==
  /\ pc = "idle"
  /\ appends < MaxAppends
  /\ appends' = appends + 1
  /\ exists' = TRUE
  /\ todo' = b
  /\ batch' = b
  /\ pc' = "writing"
  /\ UNCHANGED <<lines, tail, cursor, fresh, snap, history, faults>>

WriteRecord ==
  /\ pc = "writing"
  /\ todo # <<>>
  /\ lines' = Append(lines, IF tail = NoTail THEN Head(todo) ELSE Garbled)
  /\ tail' = NoTail
  /\ todo' = Tail(todo)
  /\ UNCHANGED <<exists, cursor, pc, batch, fresh, snap, history, bounds>>

\* The write stops inside the line: after the record and before its newline, or
\* inside the record.  The call fails, or the process is gone.
TornWrite ==
  /\ "torn" \in Windows
  /\ pc = "writing"
  /\ todo # <<>>
  /\ faults < MaxFaults
  /\ faults' = faults + 1
  /\ tail' \in IF tail = NoTail THEN {Head(todo), Fragment} ELSE {Fragment}
  /\ pc' = "idle"
  /\ todo' = <<>>
  /\ batch' = <<>>
  /\ UNCHANGED <<exists, lines, cursor, fresh, snap, history, appends>>

AppendDone ==
  /\ pc = "writing"
  /\ todo = <<>>
  /\ cursor' = ScanTail(cursor)
  /\ durable' = durable \cup Range(batch)
  /\ batch' = <<>>
  /\ pc' = "idle"
  /\ UNCHANGED <<file, todo, fresh, snap, sent, parked, cleared, bounds>>

-----------------------------------------------------------------------------
(* drain: list the route, then peek, post and drop until it is empty *)

\* routes(), once per drain.  The route takes a lane only when records wait.
Routes ==
  /\ pc = "idle"
  /\ LET counted == ScanTail(cursor) IN
     /\ \/ cursor' = counted /\ UNCHANGED faults
        \/ /\ "unsaved" \in Windows         \* let _ = write_cursor_at(..)
           /\ counted # cursor
           /\ faults < MaxFaults
           /\ faults' = faults + 1
           /\ UNCHANGED cursor
     /\ pc' = IF counted.pending > 0 THEN "lane" ELSE "idle"
  /\ UNCHANGED <<file, memory, snap, history, appends>>

Readable(front) == Range(front) \subseteq Record

\* peek_batch reads at the stored offset: n lines, or as many as there are.
PeekBatch(n) ==
  /\ pc = "lane"
  /\ LET front == IF exists THEN SubSeq(Content, cursor.offset + 1,
                                        Least(cursor.offset + n, FileLen))
                            ELSE <<>>
     IN \/ /\ front # <<>> /\ Readable(front)
           /\ batch' = front
           /\ pc' = "posting"
        \/ /\ front = <<>> \/ ~Readable(front)
           /\ pc' = "idle"                  \* Empty, or "A queued file is unreadable"
           /\ UNCHANGED batch
  /\ UNCHANGED <<file, cursor, todo, fresh, snap, history, bounds>>

\* The pass budget is spent: the drain ends between two turns.
Deadline ==
  /\ pc = "lane"
  /\ pc' = "idle"
  /\ UNCHANGED <<file, cursor, memory, snap, history, bounds>>

PostAccepted ==
  /\ pc = "posting"
  /\ sent' = sent \cup Range(batch)
  /\ pc' = "posted"
  /\ UNCHANGED <<file, cursor, memory, snap, durable, parked, cleared, bounds>>

\* The endpoint took the batch and the answer never came back: to the observer
\* this is a transport error, Retry, and the batch stays queued.
PostUnheard ==
  /\ pc = "posting"
  /\ sent' = sent \cup Range(batch)
  /\ batch' = <<>>
  /\ pc' = "idle"
  /\ UNCHANGED <<file, cursor, todo, fresh, snap, durable, parked, cleared, bounds>>

\* No credentials, no organization, Retry or Blocked: the lane stops.
PostRefused ==
  /\ pc = "posting"
  /\ batch' = <<>>
  /\ pc' = "idle"
  /\ UNCHANGED <<file, cursor, todo, fresh, snap, history, bounds>>

\* Mutated: one record is parked and the whole refused batch is stepped over.
PostTooLarge_AnyLength ==
  /\ pc = "posting"
  /\ pc' = "parking"
  /\ UNCHANGED <<file, cursor, memory, snap, history, bounds>>

\* TooLarge: a smaller batch next turn, or the record itself is to be parked.
PostTooLarge ==
  /\ pc = "posting"
  /\ pc' = IF Len(batch) > 1 THEN "lane" ELSE "parking"
  /\ UNCHANGED <<file, cursor, memory, snap, history, bounds>>

\* quarantine_front, first half: copy the front line, as the file has it now, to
\* the quarantine file and sync that; the second half is drop_front(1).
ParkFront ==
  /\ pc = "parking"
  /\ \/ /\ ~exists                          \* File::open(&path)? fails: Stop
        /\ pc' = "idle"
        /\ UNCHANGED parked
     \/ /\ exists /\ cursor.offset >= FileLen
        /\ pc' = "lane"
        /\ UNCHANGED parked
     \/ /\ exists /\ cursor.offset < FileLen
        /\ pc' = "posted"
        /\ parked' = parked \cup ({Content[cursor.offset + 1]} \cap Record)
  /\ UNCHANGED <<file, cursor, memory, snap, durable, sent, cleared, bounds>>

\* Mutated: the record ceiling is dropped instead of the batch that was sent.
DropOffset_Ceiling(n) == Least(cursor.offset + BatchLimit, FileLen)

\* Mutated: off by one at the end of the file.
Drained_Past(n) == Minus(cursor.pending, n) = 0 /\ cursor.offset + n > FileLen

\* drop_front(n): where the offset and the count get to past n lines.
DropOffset(n) ==
  IF cursor.offset > FileLen THEN cursor.offset ELSE Least(cursor.offset + n, FileLen)
DropPending(n) == Minus(cursor.pending, DropOffset(n) - cursor.offset)
Drained(n)     == DropPending(n) = 0 /\ DropOffset(n) >= FileLen

\* Nothing left: remove the file.  The cursor is reset by WriteCursor.
DropReclaim(n) ==
  /\ exists /\ Drained(n)
  /\ \/ /\ exists' = FALSE
        /\ lines' = <<>>
        /\ tail' = NoTail
        /\ UNCHANGED faults
     \/ /\ "unremoved" \in Windows          \* let _ = fs::remove_file(..)
        /\ faults < MaxFaults
        /\ faults' = faults + 1
        /\ UNCHANGED file
  /\ fresh' = Start
  /\ pc' = "unlinked"
  /\ UNCHANGED cursor

\* compact: replace the file by what follows the offset.
DropCompact(n) ==
  /\ exists /\ ~Drained(n)
  /\ DropOffset(n) > CompactAfter
  /\ lines' = SubSeq(lines, DropOffset(n) + 1, Len(lines))
  /\ tail' = IF DropOffset(n) > Len(lines) THEN NoTail ELSE tail
  /\ fresh' = [offset  |-> 0,
               pending |-> DropPending(n),
               scanned |-> Minus(cursor.scanned, DropOffset(n))]
  /\ pc' = "compacted"
  /\ UNCHANGED <<exists, cursor, faults>>

\* The common case: one small write.
DropAdvance(n) ==
  /\ exists /\ ~Drained(n)
  /\ DropOffset(n) <= CompactAfter
  /\ cursor' = [cursor EXCEPT !.offset = DropOffset(n), !.pending = DropPending(n)]
  /\ pc' = "lane"
  /\ UNCHANGED <<file, fresh, faults>>

DropFront ==
  /\ pc = "posted"
  /\ batch' = <<>>
  /\ \/ ~exists /\ pc' = "lane" /\ UNCHANGED <<file, cursor, fresh, faults>>
     \/ DropReclaim(Len(batch))
     \/ DropCompact(Len(batch))
     \/ DropAdvance(Len(batch))
  /\ UNCHANGED <<todo, snap, history, appends>>

\* drop_front's last statement, after the file was removed or rewritten.
WriteCursor ==
  /\ pc \in {"unlinked", "compacted"}
  /\ cursor' = fresh
  /\ pc' = "lane"
  /\ UNCHANGED <<file, memory, snap, history, bounds>>

-----------------------------------------------------------------------------
(* What the queue holds *)

\* Where delivery stands: drop_front has it in memory while it rewrites the file.
Position == IF pc \in {"unlinked", "compacted"} THEN fresh ELSE cursor

\* The lines the next pass will read, after the scan it starts with.
Queue   == From(ScanTail(Position).offset)
Waiting == Range(Queue)

-----------------------------------------------------------------------------
(* Interruptions, the operator and the status command *)

\* The process dies or the operation returns an I/O error: what was in memory is
\* gone.  cursor.json is never synced, so it may come back empty, which
\* read_cursor_at reads as the start of the file.
Interrupt ==
  /\ faults < MaxFaults
  /\ pc \in {"unlinked", "compacted"} => pc \in Windows
  /\ faults' = faults + 1
  /\ cursor' \in {cursor, Start}
  /\ todo' = <<>>
  /\ batch' = <<>>
  /\ pc' = "idle"
  /\ UNCHANGED <<file, fresh, snap, history, appends>>

\* clear-queue takes the lock and removes the spool.
Clear ==
  /\ pc = "idle"
  /\ exists
  /\ exists' = FALSE
  /\ lines' = <<>>
  /\ tail' = NoTail
  /\ cursor' = Start
  /\ cleared' = cleared \cup (Waiting \cap Record)
  /\ UNCHANGED <<pc, memory, snap, durable, sent, parked, bounds>>

\* status: routes() without the lock, its read and its write apart.
StatusScan ==
  /\ snap = NoSnap
  /\ ScanTail(cursor) # cursor
  /\ snap' = ScanTail(cursor)
  /\ UNCHANGED <<file, cursor, pc, memory, history, bounds>>

StatusWrite ==
  /\ snap # NoSnap
  /\ cursor' = snap
  /\ snap' = NoSnap
  /\ UNCHANGED <<file, pc, memory, history, bounds>>

Drain ==
  \/ Routes
  \/ \E n \in 1..BatchLimit : PeekBatch(n)
  \/ Deadline
  \/ PostAccepted
  \/ PostUnheard
  \/ PostRefused
  \/ PostTooLarge
  \/ ParkFront
  \/ DropFront
  \/ WriteCursor

AppendBatches == UNION {[1..n -> Record] : n \in 1..MaxAppendLen}

LockHolder ==
  \/ \E b \in AppendBatches : BeginAppend(b)
  \/ WriteRecord
  \/ TornWrite
  \/ AppendDone
  \/ Drain
  \/ Interrupt
  \/ Clear

Next ==
  \/ (snap = NoSnap \/ "status" \in Windows) /\ LockHolder
  \/ StatusScan
  \/ StatusWrite

Spec == Init /\ [][Next]_vars

-----------------------------------------------------------------------------
(* Properties *)

\* A record whose append returned Ok is still readable in the queue, or was
\* accepted, parked or cleared by the operator: whatever crashed, in whatever
\* order appends, drains and compactions ran ("nothing may be dropped").
NoLoss == durable \subseteq (sent \cup parked \cup cleared \cup Waiting)

\* Delivery never steps over a record: all lines in front of the offset, also
\* after a lost cursor, a repeated batch or a rewrite of the file, were accepted
\* or parked.  This is why resuming at the offset is right.
BehindCursor ==
  \A i \in 1..Least(ScanTail(Position).offset, Len(lines)) :
    lines[i] \in sent \cup parked

\* The count taken incrementally (added by scan_tail, lowered by drop_front,
\* carried through compaction and redelivery) is what a recount would give.
PendingExact ==
  LET counted == ScanTail(Position) IN
  counted.pending = Len(lines) - counted.offset

\* "A route empties": a route that has no line left to deliver has given its
\* file back by the time the lane takes another turn.
ReclaimedWhenEmpty == pc = "lane" /\ exists => cursor.offset < FileLen

\* A line that does not parse stops its route instead of being skipped: once it
\* waits, no append, drain, removal of a drained file, compaction or crash takes
\* it away, only clear-queue, which starts when nothing is under way.
CorruptLineHolds ==
  [][(pc # "idle" \/ exists') /\ Garbled \in Waiting => Garbled \in Waiting']_vars

-----------------------------------------------------------------------------
(* The inductive invariant behind NoLoss and BehindCursor.  It needs the        *)
(* interruptions of SafeWindows only: an ignored I/O error in routes() or in    *)
(* the removal of a drained file spoils the count, never the records.           *)

SafeWindows == Windows \cap {"torn", "unlinked", "compacted", "status"} = {}

Rewriting == pc \in {"unlinked", "compacted"}

WholeLines ==
  /\ tail = NoTail
  /\ lines \in Seq(Record)
  /\ exists \/ lines = <<>>

CursorInFile ==
  IF Rewriting
  THEN fresh.offset = 0 /\ fresh.scanned <= Len(lines)
  ELSE cursor.offset <= Len(lines) /\ cursor.scanned <= Len(lines)

SnapIsScan == snap # NoSnap => snap = ScanTail(cursor)

SettledBehind == ~Rewriting => \A i \in 1..cursor.offset : lines[i] \in sent \cup parked

\* The batch in memory is what the file still has at the offset.
BatchAtFront ==
  pc \in {"posting", "parking", "posted"} =>
    /\ exists
    /\ batch # <<>>
    /\ cursor.offset + Len(batch) <= Len(lines)
    /\ \A i \in 1..Len(batch) : batch[i] = lines[cursor.offset + i]
    /\ pc = "parking" => Len(batch) = 1
    /\ pc = "posted" => \A i \in 1..Len(batch) : batch[i] \in sent \cup parked

WrittenOrToDo ==
  pc = "writing" => exists /\ Range(batch) \subseteq Range(lines) \cup Range(todo)

Kept == durable \subseteq Range(lines) \cup sent \cup parked \cup cleared

\* The steps of append, drain, drop_front and quarantine_front keep the file, the
\* cursor and the batch in memory in agreement between every two disk writes.
QueueInv ==
  /\ TypeOK
  /\ WholeLines
  /\ CursorInFile
  /\ SnapIsScan
  /\ SettledBehind
  /\ BatchAtFront
  /\ WrittenOrToDo
  /\ Kept

-----------------------------------------------------------------------------
(* The inductive invariant behind PendingExact, ReclaimedWhenEmpty and          *)
(* CorruptLineHolds.  Writes may stop inside a line and garble the next one;    *)
(* no interruption falls between the two halves of an update, and no I/O error  *)
(* is ignored.                                                                  *)

TornOnly == Windows \subseteq {"torn"}

FileOrNothing ==
  /\ exists \/ (lines = <<>> /\ tail = NoTail)
  /\ pc = "writing" => exists

\* The number in a cursor is the distance between its two positions.
Counted(c) == c.offset <= c.scanned /\ c.pending = c.scanned - c.offset

CursorCounts ==
  /\ Counted(Position) /\ Position.scanned <= Len(lines)
  /\ Rewriting => Position.offset = 0
  /\ \A i \in 1..Position.offset : lines[i] \in sent \cup parked

\* The batch in memory is what a reader meets at the offset, an unfinished last
\* line included.
BatchIsFront ==
  pc \in {"posting", "parking", "posted"} =>
    /\ exists /\ batch # <<>>
    /\ cursor.offset + Len(batch) <= FileLen
    /\ \A i \in 1..Len(batch) : batch[i] = Content[cursor.offset + i]
    /\ pc = "parking" => Len(batch) = 1
    /\ pc = "posted" => \A i \in 1..Len(batch) : batch[i] \in sent \cup parked

\* A lane has counted every line and is not at the end of its file.
LaneCounted ==
  /\ pc \in {"lane", "posting", "parking", "posted"} =>
       IF exists THEN cursor.scanned = Len(lines) /\ cursor.offset < FileLen
                 ELSE cursor = Start
  /\ pc = "unlinked" => ~exists
  /\ pc = "compacted" => exists /\ fresh.scanned = Len(lines) /\ FileLen > 0

TornInv ==
  /\ TypeOK
  /\ FileOrNothing
  /\ CursorCounts
  /\ SnapIsScan
  /\ BatchIsFront
  /\ LaneCounted

-----------------------------------------------------------------------------
(* The queue implements its specification *)

\* Seen from outside, the file, the cursor and the recovery rules together are a
\* first-in first-out queue that delivers at least once and drops nothing:
\* requests carry a prefix of what waits, and only settled records leave.
DQ == INSTANCE DurableQueue WITH queue <- Queue
ImplementsDurableQueue == DQ!Spec

-----------------------------------------------------------------------------
(* Liveness *)

\* The watch loop starts a pass at least every poll_secs and a started operation
\* runs on: weak fairness.  The pass budget (120 s) outlives the first turn, so a
\* lane that is opened again and again is peeked, and an endpoint that is asked
\* again and again accepts some time: strong fairness.
Fairness ==
  /\ WF_vars(StatusWrite)
  /\ WF_vars(WriteRecord \/ AppendDone)
  /\ WF_vars(Routes \/ ParkFront \/ DropFront \/ WriteCursor)
  /\ SF_vars(\E n \in 1..BatchLimit : PeekBatch(n))
  /\ SF_vars(PostAccepted)

FairSpec == Spec /\ Fairness

\* Every record whose append returned Ok is eventually accepted, parked or
\* cleared, across crashes, lost answers, refusals and shrinking batches.
EventuallySettled ==
  \A r \in Record : r \in durable ~> r \in sent \cup parked \cup cleared
=============================================================================
