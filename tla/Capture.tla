------------------------------- MODULE Capture -------------------------------
(***************************************************************************)
(* The capture half of a pass: collect_new reads what the transcripts      *)
(* gained since their offsets (src/src/capture.rs), scan_and_ship queues   *)
(* it or decides not to, and then saves the offsets (src/src/main.rs).     *)
(*                                                                         *)
(* The transcripts belong to other programs, which write, remove and       *)
(* recreate them while the pass runs.  A transcript is a sequence of cells,*)
(* a cell is EOL or Char, and positions count cells.  Offsets carry the    *)
(* generation of the transcript they were taken in: the program does not   *)
(* know it, the properties do.                                             *)
(***************************************************************************)
EXTENDS Integers, Sequences

CONSTANTS
  File,         \* transcripts
  EOL, Char,    \* what a cell holds
  NotRead,      \* the pass found nothing new in a transcript
  Window,       \* MAX_READ_PER_FILE: cells read from one file in one pass
  MaxLine,      \* bound: cells of a line, its EOL included
  MaxLen,       \* bound: cells of a transcript
  MaxRewrites,  \* bound: times a transcript is recreated
  MaxFaults,    \* bound: crashes and failed writes
  Hazards       \* which of HazardNames can happen

\*   regrown  a recreated transcript outgrows the old offset before it is read
\*   blanked  an interrupted save leaves offsets.json empty
HazardNames == {"regrown", "blanked"}

ASSUME CaptureAssumption ==
  /\ EOL # Char
  /\ Window \in Nat \ {0}
  /\ MaxLine \in Nat \ {0}
  /\ MaxLen \in Nat
  /\ MaxRewrites \in Nat
  /\ MaxFaults \in Nat
  /\ Hazards \subseteq HazardNames

VARIABLES
  text,       \* the transcripts
  gen,        \* their generations
  mem,        \* the offsets of the running process
  disk,       \* offsets.json
  pc,         \* where the pass is
  left,       \* transcripts the pass still has to read
  found,      \* what it has read: CapturedFile, or NotRead
  dirty,      \* offsets_changed
  written,    \* lines written to a queue
  promised,   \* lines whose append returned Ok
  skipped,    \* lines passed over without a destination
  faults      \* counts crashes and failed writes

transcripts == <<text, gen>>
pass        == <<pc, left, found, dirty>>
outcome     == <<written, promised, skipped>>
vars        == <<text, gen, mem, disk, pc, left, found, dirty,
                 written, promised, skipped, faults>>

LineRef  == [file : File, gen : 0..MaxRewrites, from : 1..MaxLen, to : 1..MaxLen]
Offset   == [at : 0..MaxLen, of : 0..MaxRewrites]
Fate     == {"route", "skip", "hold"}
Captured == [records : SUBSET LineRef, next : 1..MaxLen, of : 0..MaxRewrites, fate : Fate]

TypeOK ==
  /\ text \in [File -> Seq({EOL, Char})]
  /\ \A f \in File : Len(text[f]) <= MaxLen
  /\ gen \in [File -> 0..MaxRewrites]
  /\ mem \in [File -> Offset]
  /\ disk \in [File -> Offset]
  /\ pc \in {"down", "idle", "scan", "commit", "saving"}
  /\ left \subseteq File
  /\ found \in [File -> Captured \cup {NotRead}]
  /\ dirty \in BOOLEAN
  /\ written \subseteq LineRef
  /\ promised \subseteq LineRef
  /\ skipped \subseteq LineRef
  /\ faults \in 0..MaxFaults

\* An empty offsets.json: Offsets::load gives 0 for every transcript.
Blank == [f \in File |-> [at |-> 0, of |-> gen[f]]]

Init ==
  /\ text = [f \in File |-> <<>>]
  /\ gen = [f \in File |-> 0]
  /\ mem = Blank
  /\ disk = Blank
  /\ pc = "idle"
  /\ left = {}
  /\ found = [f \in File |-> NotRead]
  /\ dirty = FALSE
  /\ written = {}
  /\ promised = {}
  /\ skipped = {}
  /\ faults = 0

-----------------------------------------------------------------------------
(* Lines *)

EndsAt(f, p) == p \in 1..Len(text[f]) /\ text[f][p] = EOL

\* What read_file makes of the cells from a + 1 to b: the non-empty lines that end
\* there.  The first one starts at a + 1, wherever that is.
LinesFrom(f, a, b) ==
  {r \in [file : {f}, gen : {gen[f]}, from : (a + 1)..b, to : (a + 1)..b] :
     /\ r.from < r.to
     /\ EndsAt(f, r.to)
     /\ r.from = a + 1 \/ EndsAt(f, r.from - 1)
     /\ \A q \in r.from..(r.to - 1) : ~EndsAt(f, q)}

Lines(f) == LinesFrom(f, 0, Len(text[f]))

-----------------------------------------------------------------------------
(* The programs that own the transcripts *)

\* Positions taken in an earlier generation of f, wherever the observer keeps them.
OldPositions(f) ==
  {o.at : o \in {o \in {mem[f], disk[f]} : o.of # gen[f] /\ o.at > 0}} \cup
  {c.next : c \in {c \in {found[f]} \ {NotRead} : c.of # gen[f]}}

Write(f, cell) ==
  /\ Len(text[f]) < MaxLen
  /\ cell = EOL \/ \E p \in 0..Len(text[f]) :
       (p = 0 \/ EndsAt(f, p)) /\ Len(text[f]) - p < MaxLine - 1
  /\ "regrown" \in Hazards \/ \A p \in OldPositions(f) : Len(text[f]) + 1 < p
  /\ text' = [text EXCEPT ![f] = Append(@, cell)]
  /\ UNCHANGED <<gen, mem, disk, pass, outcome, faults>>

\* Truncated, rotated, or removed and created again under the same path.
Recreate(f) ==
  /\ gen[f] < MaxRewrites
  /\ text[f] # <<>>
  /\ text' = [text EXCEPT ![f] = <<>>]
  /\ gen' = [gen EXCEPT ![f] = @ + 1]
  /\ UNCHANGED <<mem, disk, pass, outcome, faults>>

-----------------------------------------------------------------------------
(* collect_new *)

StartPass ==
  /\ pc = "idle"
  /\ pc' = "scan"
  /\ left' = File
  /\ UNCHANGED <<transcripts, mem, disk, found, dirty, outcome, faults>>

\* Mutated: a transcript that shrank is read from the stored offset.
ReadFrom_Stale(f) == mem[f].at

\* Mutated: a transcript of any other length is read from its beginning.
ReadFrom_Restarting(f) == IF Len(text[f]) # mem[f].at THEN 0 ELSE mem[f].at

\* A transcript that shrank is read from its beginning.
ReadFrom(f) == IF Len(text[f]) < mem[f].at THEN 0 ELSE mem[f].at

\* Mutated: the whole window is taken, not only its complete lines.
Complete_Partial(f) ==
  {p \in (ReadFrom(f) + 1)..(ReadFrom(f) + Window) : p <= Len(text[f])}

\* The line ends inside the window that read_file reads.
Complete(f) == {p \in (ReadFrom(f) + 1)..(ReadFrom(f) + Window) : EndsAt(f, p)}

\* Nothing was appended, the window holds no line end, or a stat, open or read fails.
ReadNothing(f) ==
  /\ pc = "scan"
  /\ f \in left
  /\ left' = left \ {f}
  /\ UNCHANGED <<transcripts, mem, disk, pc, found, dirty, outcome, faults>>

\* fate is what routing says of the workspace now: a destination; none, not on the
\* allow list or no workspace; or an ambiguous workspace or unusable destination.
ReadFile(f, fate) ==
  /\ pc = "scan"
  /\ f \in left
  /\ left' = left \ {f}
  /\ \E last \in Complete(f) :
       /\ \A p \in Complete(f) : p <= last
       /\ found' = [found EXCEPT ![f] =
            [records |-> LinesFrom(f, ReadFrom(f), last),
             next    |-> last,
             of      |-> gen[f],
             fate    |-> fate]]
  /\ UNCHANGED <<transcripts, mem, disk, pc, dirty, outcome, faults>>

EndScan ==
  /\ pc = "scan"
  /\ left = {}
  /\ pc' = "commit"
  /\ UNCHANGED <<transcripts, mem, disk, left, found, dirty, outcome, faults>>

-----------------------------------------------------------------------------
(* scan_and_ship: queue what was read, then commit the offset *)

Committing(f, fates) ==
  /\ pc = "commit"
  /\ found[f] # NotRead
  /\ found[f].fate \in fates
  /\ found' = [found EXCEPT ![f] = NotRead]
  /\ UNCHANGED <<transcripts, disk, pc, left>>

Advance(f) ==
  /\ mem' = [mem EXCEPT ![f] = [at |-> found[f].next, of |-> found[f].of]]
  /\ dirty' = TRUE

Queue(f) ==
  /\ Committing(f, {"route"})
  /\ Advance(f)
  /\ written' = written \cup found[f].records
  /\ promised' = promised \cup found[f].records
  /\ UNCHANGED <<skipped, faults>>

\* Mutated: the offset is committed although the append failed.
QueueFails_Advancing(f) ==
  /\ Committing(f, {"route"})
  /\ faults < MaxFaults
  /\ faults' = faults + 1
  /\ \E k \in 0..found[f].next :
       written' = written \cup {r \in found[f].records : r.to <= k}
  /\ Advance(f)
  /\ UNCHANGED <<promised, skipped>>

\* append returns an error: some of the lines may be in the queue, the offset stays.
QueueFails(f) ==
  /\ Committing(f, {"route"})
  /\ faults < MaxFaults
  /\ faults' = faults + 1
  /\ \E k \in 0..found[f].next :
       written' = written \cup {r \in found[f].records : r.to <= k}
  /\ UNCHANGED <<mem, dirty, promised, skipped>>

\* advance_unrouted: no destination is wanted here, and none later either.
Skip(f) ==
  /\ Committing(f, {"skip"})
  /\ Advance(f)
  /\ skipped' = skipped \cup found[f].records
  /\ UNCHANGED <<written, promised, faults>>

Hold(f) ==
  /\ Committing(f, {"hold"})
  /\ UNCHANGED <<mem, dirty, written, promised, skipped, faults>>

-----------------------------------------------------------------------------
(* Offsets::save, and what interrupts it *)

AllCommitted == pc = "commit" /\ \A f \in File : found[f] = NotRead

NothingToSave ==
  /\ AllCommitted
  /\ ~dirty
  /\ pc' = "idle"
  /\ UNCHANGED <<transcripts, mem, disk, left, found, dirty, outcome, faults>>

\* fs::write cuts the file before it writes it.
BeginSave ==
  /\ AllCommitted
  /\ dirty
  /\ pc' = "saving"
  /\ disk' = Blank
  /\ UNCHANGED <<transcripts, mem, left, found, dirty, outcome, faults>>

EndSave ==
  /\ pc = "saving"
  /\ disk' = mem
  /\ dirty' = FALSE
  /\ pc' = "idle"
  /\ UNCHANGED <<transcripts, mem, left, found, outcome, faults>>

\* The file cannot be opened, or the disk is full: the pass reports it and goes on.
SaveFails ==
  /\ \/ AllCommitted /\ dirty
     \/ pc = "saving" /\ "blanked" \in Hazards
  /\ faults < MaxFaults
  /\ faults' = faults + 1
  /\ dirty' = FALSE
  /\ pc' = "idle"
  /\ UNCHANGED <<transcripts, mem, disk, left, found, outcome>>

\* offsets.json is not synced: after a power loss it may come back empty.
Crash ==
  /\ pc # "down"
  /\ pc = "saving" => "blanked" \in Hazards
  /\ faults < MaxFaults
  /\ faults' = faults + 1
  /\ disk' \in {disk} \cup (IF "blanked" \in Hazards THEN {Blank} ELSE {})
  /\ pc' = "down"
  /\ left' = {}
  /\ found' = [f \in File |-> NotRead]
  /\ dirty' = FALSE
  /\ mem' = Blank
  /\ UNCHANGED <<transcripts, outcome>>

Restart ==
  /\ pc = "down"
  /\ mem' = disk
  /\ pc' = "idle"
  /\ UNCHANGED <<transcripts, disk, left, found, dirty, outcome, faults>>

Commit(f) == Queue(f) \/ QueueFails(f) \/ Skip(f) \/ Hold(f)

Pass ==
  \/ StartPass
  \/ \E f \in File : ReadNothing(f)
  \/ \E f \in File, fate \in Fate : ReadFile(f, fate)
  \/ EndScan
  \/ \E f \in File : Commit(f)
  \/ NothingToSave
  \/ BeginSave
  \/ EndSave
  \/ SaveFails

Next ==
  \/ \E f \in File, cell \in {EOL, Char} : Write(f, cell)
  \/ \E f \in File : Recreate(f)
  \/ Pass
  \/ Crash
  \/ Restart

Spec == Init /\ [][Next]_vars

-----------------------------------------------------------------------------
(* Properties *)

\* Every line in front of the offset o of f was decided on.
Covers(f, o) ==
  o.of = gen[f] => LinesFrom(f, 0, o.at) \subseteq promised \cup skipped

\* No offset, in memory or saved, ever passes a line that was not durably queued
\* or deliberately skipped: "offsets are never committed before durable spooling",
\* through failed appends, crashes and transcripts cut under the reader.
OffsetsCovered == \A f \in File : Covers(f, mem[f]) /\ Covers(f, disk[f])

\* A queued record is one whole line of its transcript: never the first half of a
\* line still being written, never a line entered in the middle.
WholeLines ==
  \A f \in File : {r \in written : r.file = f /\ r.gen = gen[f]} \subseteq Lines(f)

\* Lines reach the queue in the order of their transcript: when one is there, all
\* in front of it are there or were skipped.
OrderKept ==
  \A f \in File : \A r \in written : \A s \in Lines(f) :
    r.file = f /\ r.gen = gen[f] /\ s.to < r.from => s \in written \cup skipped

\* Lines passed over, while offsets.json says so.
Declined ==
  {r \in skipped : r.gen = disk[r.file].of /\ r.to <= disk[r.file].at}

\* A line that was passed over, and saved as such, is not uploaded later, whatever
\* destination the repository gets then (README.md:157-159): only a lost offsets.json
\* brings it back.
DeclinedStaysOut ==
  [][\A r \in Declined : r \in written' => r \in written]_vars

-----------------------------------------------------------------------------
(* The inductive invariant behind OffsetsCovered *)

\* o is a line end of the present generation and covered, or lies beyond what the
\* recreated transcript holds.
Sound(f, at, of, settled) ==
  /\ of <= gen[f]
  /\ at # 0 => IF of = gen[f]
               THEN EndsAt(f, at) /\ LinesFrom(f, 0, at) \subseteq settled
               ELSE at > Len(text[f])

Settled == promised \cup skipped

MemSound  == \A f \in File : Sound(f, mem[f].at, mem[f].of, Settled)
DiskSound == \A f \in File : Sound(f, disk[f].at, disk[f].of, Settled)

\* What was read but not committed yet continues what was decided on.
FoundSound ==
  \A f \in File : found[f] # NotRead =>
    Sound(f, found[f].next, found[f].of, found[f].records \cup Settled)

CaptureInv ==
  /\ TypeOK
  /\ MemSound
  /\ DiskSound
  /\ FoundSound

-----------------------------------------------------------------------------
(* Liveness *)

\* The watch loop starts a pass at least every poll_secs and a pass runs to its
\* end; a file is not unreadable for ever, its workspace resolves some time, and
\* the disk takes an append some time.
Fairness ==
  /\ WF_vars(StartPass \/ EndScan \/ NothingToSave \/ BeginSave \/ EndSave)
  /\ WF_vars(Restart)
  /\ \A f \in File :
       /\ WF_vars(ReadNothing(f))
       /\ SF_vars(ReadFile(f, "route") \/ ReadFile(f, "skip"))
       /\ WF_vars(Commit(f))
       /\ SF_vars(Queue(f) \/ Skip(f))

FairSpec == Spec /\ Fairness

\* "Anything beyond is picked up on the next pass": every complete line is queued
\* or skipped in the end, unless its transcript is recreated first.
EveryLineSettles ==
  \A r \in {r \in LineRef : r.from < r.to} :
    r \in Lines(r.file) ~> (r \in promised \cup skipped \/ gen[r.file] # r.gen)
=============================================================================
