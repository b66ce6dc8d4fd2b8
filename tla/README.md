# A verification of harness-message-capture

`khotan-observer` watches the transcripts that coding tools (Cursor, Claude Code,
Codex) write, cuts them into lines, keeps the lines in one durable queue per
customer, and posts each queue to its customer's endpoint. What has to be right is
what a unit test hardly reaches: a kill between two disk writes, a lost answer, a
file another program rewrites, an endpoint that refuses a size, a destination file
edited under a running drain, two customers on one machine.

This directory holds TLA+ modules of those parts, TLC configurations that check
them on small instances, and TLAPS proofs for all instances. Everything is
translated from `src/src/*.rs`; line numbers are in `PROJECT.json` (`map`).

## 1. Inventory

| component | source | state | operations | what makes it correct |
|---|---|---|---|---|
| spool queue | `spool.rs`, drain steps in `main.rs` | `records.ndjson`, `cursor.json` (offset, pending, scanned), quarantine file | append, routes, peek_batch, drop_front (advance, compact, reclaim), quarantine_front, clear, the cursor write of `status` | no promised record lost or stepped over, the incremental count exact, an emptied route gives its file back, a corrupt line stops its route |
| capture and offsets | `capture.rs`, `scan_and_ship` in `main.rs` | transcripts (of other programs), offsets in memory and `offsets.json` | collect_new, read_file, queue / skip / hold, save | an offset never passes an undecided line; whole lines, in order; declined lines stay out; every line is settled |
| drain | `main.rs` (drain, one_batch) | lanes with budget, result and counters; the result map | cycles of turns: sent, empty, smaller, parked, stop; the pass budget | nothing skipped, only unsendable records parked, bounded refusals, even turns, it ends, every stop is reported |
| route identity and destinations | `destination.rs`, `spool.rs` 44-77 and 116-217, `uploader.rs` 59-120 | destination files, allow list, `route.json` (origin, key fingerprint, organization, path) | match or make a queue, adopt an old one, discover, choose credentials, repoint, pin, enforce | identities never share a queue, keys stay with their origin, one organization per queue, a sibling file rescues a queue |
| uploader | `uploader.rs` | verification cache | identity check, post, classification of answers | an answer is mapped to the right one of four outcomes |
| local inbox, receiver, reader | `store.rs`, `receiver.rs`, `reader.rs` | one file of lines per session, the keys of the file in hand | judge a request, append_batch, load_keys, list, the last records for `read` | idempotent under redelivery; what a 204 promised is in its file; a torn line costs little and hides nothing |
| single instance and agent | `singleton.rs`, `agent.rs`, `main.rs` 458-496 | advisory lock, plist, launchd's table | run, run-once, start, stop, uninstall, the takeover and its retries | one observer at a time; every command ends; the agent is not restarted for ever |
| update | `update.rs` | installed binary | fetch, verify, remove, copy, restart | a verified binary at the path unless a copy was cut short |
| workspace resolution | `workspace.rs`, `destination.rs`, `sources.rs`, routing in `capture.rs` | none (reads the disk) | discover, decode a transcript's folder, select a destination file, diagnose, match the allow list | list, diagnosis and capture agree on every chat |
| configuration, picker | `config.rs`, `picker.rs`, `main.rs` 65-362 and 497-566 | `config.toml`, rows, filter, cursor, window, the list in the watch loop | flags, keys, load, save in two writes, reload | what is ticked is what is written and sent; the device id lasts; a change is in force soon |
| records, redaction, log, docs, CLI text | the rest | none | text to text | formatting |

How they interact. One process at a time holds the observer lock and runs `watch`:
wait for a file event or the poll interval, then one pass, `scan_and_ship`. A pass
reads the transcripts from their offsets (capture), asks route identity for the
queue of each file's lines, appends them (spool queue), saves the offsets, and
drains: one lane per queue, one thread per lane and cycle, each doing one
`one_batch` (peek, credentials, identity check, post, drop or park). Between the
components there is only shared disk state and direct calls. Outside the lock run
`status` (which lists queues and writes the cursor it scanned), `configure` (which
rewrites `config.toml`), `start`, `stop`, `uninstall` and `update` (which talk to
launchd and replace the binary), people editing files, and the tools that own the
transcripts. `receive` is a server of its own for machines that collect batches; no
observer of this version posts to it (section 6).

The behaviours that are hard:

- crashes and I/O errors between any two disk writes (append, drop_front, offsets);
- at-least-once delivery with lost answers, and a cursor written after the fact;
- transcripts truncated, recreated or half written while they are read;
- state read at the start of a drain and used all through it;
- batch limits in records and bytes, halving against a floor, records too big alone;
- metadata found by content in directory order, adopted, repointed and pinned;
- commands in several terminals, launchd and a dying agent handing one lock around;
- a file format with a line and its newline in two writes, read by programs that stop
  at a broken line or skip it;
- a picker that stays open over a file other commands rewrite.

`PROJECT.json` lists these as hazards, each at its line with its properties.

## 2. Modules

| module | what it is |
|---|---|
| `SpoolQueue` | one queue's files, program counter and history; `DQ!Spec` is its refinement |
| `DurableQueue` | the abstract queue: first in first out, at least once, nothing dropped |
| `Capture` | transcripts, offsets and the pass that reads, decides and saves |
| `DrainRound` | a whole drain over several routes, one step per turn |
| `RouteIdentity` | destination files, queue identity, credentials and organizations |
| `Inbox` | the receiver, the files of the local inbox and what `read` shows of them |
| `Lifecycle` | commands, launchd, the instance lock and the installed binary |
| `Workspaces` | directories, worktrees, destination files, the allow list and the decision about a chat: operators over one variable, the files |
| `Configure` | `configure` with its flags and picker, `config.toml`, the watch loop; extends `Workspaces` |
| `MC*` | small instances; constants only |
| `*Proofs` | the theorems of a module |

Operators named `X_Suffix` (such as `DropOffset_Ceiling`), each with a comment
that begins "Mutated", stand beside the definition they vary. No specification uses
them; substituted for `X` they make the property that guards `X` fail.

### SpoolQueue

One action per operation, split wherever the code reaches the disk: `BeginAppend`,
`WriteRecord`, `AppendDone` (spool.rs 116-157); `Routes` (219-251); `PeekBatch`
(264-303); `PostAccepted`, `PostUnheard`, `PostRefused`, `PostTooLarge` (one_batch);
`DropFront` with its three branches and `WriteCursor` (307-345, compact, 435-441);
`ParkFront`; `Clear`; `StatusScan` and `StatusWrite`; `Interrupt` for a crash or an
I/O error at any of these points. `ScanTail` is scan_tail, all its restarts
included. A position counts lines. A half-written line is `tail`, and
`Garbled` is what it becomes when the next append continues it.

`Windows` names the interruptions that leave the two files at odds. A run or a
theorem says which of them are closed, so that each disagreement of section 6 is
isolated and everything else is checked around it.

Abstractions: `Clear` removes its files in one step; a completed rename is not
undone by a power loss; `StatusScan` reads cursor and file in one step; with `torn`
open no other window is (`ConstantsOK`), because a position is a whole line here.

### Capture

A transcript is a sequence of cells, `Char` or `EOL`; read_file is
`ReadFrom`/`Complete`/`LinesFrom` (restart on a shorter file, window, last line end,
nonempty lines). The pass is `StartPass`, `ReadFile` or `ReadNothing` per file,
`EndScan`, one of `Queue`, `QueueFails`, `Skip`, `Hold` per file, then `BeginSave`
and `EndSave`, or `SaveFails`; `Crash` and `Restart` at any time, `Write` and
`Recreate` by the tools at any time. The stat and the read of one file are one
step. What a queue does with the lines is SpoolQueue's.

### DrainRound

`Peek` builds a batch under both bounds (records and bytes, one record at least,
one record only at the floor), `OneBatch` is a turn with its six outcomes,
`EndCycle` the loop body over the joined threads (halving, parking, closing),
`EndDrain` the result map keyed by label. Byte sizes are sums given by `Load`; an
endpoint takes up to its `Limit`. A turn is one step: lanes share no state, so the
threads' interleaving only shows in the order of turns, which is free within a cycle.

### RouteIdentity

`EditFile` and `Configure` are people; `AppendMatched` and `AppendFresh` are the
half of append that finds, adopts or makes a queue (the first match of a directory
scan: any match); `StartDrain` takes the snapshots a drain works from
(`lanes`, `seen`, `candidates`); a turn is `NoCredentials`, `Refused`, `Deliver`,
`Unheard` or `Emptied`. `Credentials` is resolve_credentials over read_credentials
(`Serves`), `Agrees` is enforce against the lane's snapshot, `Recorded` is repoint
and pin_org on the file as it is by then. `EndDrain` may come at any time: it is
also the pass budget and a kill. Lines carry histories (`born`, `into`, `posted`).

Abstractions: a batch is any nonempty part of a queue; the key is its fingerprint
(no collision of hashes); the endpoint names one organization per key, so the
verification cache is invisible; a transcript's route is computed and used in one
step; checkouts are repositories, not worktrees; which of two checkouts with one
identity discovery meets first is free.

### Inbox

The server handles one connection at a time: `Take` (the request is judged by `Checks`
in the order of handle_connection), `Load` per file (by_path, load_keys), `Write` per
record, `Answer`; `WriteFails`, `Crash` and `Restart` in between. A file is a sequence
of lines and a line a sequence of pieces: `Longer` continues a line that has no
newline, so one torn write turns two records into one line nothing can parse.
`Listed` and `Shown` are list_records and the last records `read` prints. Clients
(`Send`, `Reads`) are external: they repeat a batch after a 500 or a lost answer.

Abstractions: content_key is given as `KeyOf`, which may give two records one key;
HTTP syntax and the socket timeouts are left out; a write stops after nothing, part of
the record, half a character, or the record without its newline.

### Lifecycle

A process is a terminal with a command or a slot for launchd's. One action per call to
launchctl, look at the plist, attempt at the lock and file operation: `Look`, `Unload`,
`Try`, `Finish`; `Begin`, `Drop`, `WritePlist`, `LoadAgent`; `Discard`; `Fetch`,
`Remove`, `Copy`, `Copied`. launchd is external: `Unloaded` sends SIGTERM and returns,
`Die` is the end in its own time, `Spawn` is RunAtLoad and KeepAlive. `Kill` is Ctrl-C.
run-once and clear-queue take the lock once and are one command here.

### Workspaces and Configure

`Workspaces` follows three loops of the code that walk directories upwards: resolve
(`WithinRepo`, `Resolve`), diagnose (`Nearest`, `Asked`, `Reason`) and the scan
(`Depths`, `Candidates`); `Decision` is what read_file makes of a chat. A destination
file is its origin, key and organization, each of which may be blank.

`Configure` has `Begin` (parse_configure_args, load, next_allow_repos, build_choices),
`ReadKeys` for each read of the open picker (`Keys` is parse_keys, `Press` is apply),
`Truncate` and `Save` (fs::write), `Boot`, `Scan` and `Reload` (watch). People edit
destination files (`EditFile`) and `config.toml` (`EditConfig`) and kill commands.

Abstractions: names and paths are atoms with a `Lower` form; a filter matches the names
`Matching` says; rows are sorted as `RowOrder` is, and `Visible` is the set of those a
filter leaves. Two directories whose paths differ in case alone are left out
(`CaseAssumption`): the file systems macOS has by default have none. On a case-sensitive
one `--add-repo` takes the second for the first (main.rs 170-189, merge_allow) and does
not add it.

## 3. Runs

| run | bounds | shows |
|---|---|---|
| `queue` | 2 records (may repeat), 2 appends of up to 2, batches of 2, compaction after 1 line, 2 faults, windows `unsaved` and `unremoved` open, fair | NoLoss, the refinement of DurableQueue, EventuallySettled |
| `queue_torn` | 3 appends, compaction after 2, 2 faults, `torn` open | PendingExact, BehindCursor, ReclaimedWhenEmpty, CorruptLineHolds |
| `queue_unlinked` | 3 appends, compaction after 1, `unlinked` open | NoLoss is violated |
| `capture` | 1 transcript of 4 cells, lines and window of 3, 1 recreation, 1 fault, `blanked` open, fair | OffsetsCovered, WholeLines, OrderKept, DeclinedStaysOut, EveryLineSettles |
| `drain` | 2 routes, up to 3 records of 1 or 3 bytes (at most one big), budget 7, floor 2, batch 3, endpoints that take 1 or 8 bytes, fair | NothingSkipped, OnlyUnsendable, FewRefusals, EmptiedUnlessStopped, ReasonRecorded, FairTurns, DrainFinishes |
| `routes` | 2 checkouts, 3 destinations over 2 origins and 2 keys, 1 old queue, 2 lines, 1 edit, fair | QueuesApart, OneOrgPerQueue, KeyStaysHome, SiblingDelivers |
| `routes_pasted` | two contents with one key, one declaring the other organization | DeclaredOrgKept is violated |
| `inbox` | 4 records with 2 keys in 2 files, 2 clients, 4 requests (2 of them refused), 2 faults, `read` of 2 records, fair | TypeOK, StoredOnce, NothingDropped, LossBounded, ShownUntilOutrun, EventuallyAnswered |
| `lifecycle` | 2 terminals, 3 commands of six kinds, 2 slots for agents, 2 attempts, 2 versions, 1 kill, fair | OneObserver, BinaryWhole, EveryCommandEnds, SettlesDown |
| `lifecycle_background` | one `start`, nothing else, fair | StartedRuns is violated |
| `configure` | 9 directories, 2 terminals (1 with a picker, 1 without), 9 reads to type, 6 edits of files (two of them leave two files, which differ or agree), 1 edit or kill, a window of 2 rows | TypeOK, CursorOnScreen, SavedAsAsked, TickedIsSent, BlockedSaysWhy, OneScanBehind, StableAlone |
| `configure_next_scan` | the same | NextScanReads is violated |

Why the bounds are enough to see something. Three appends of up to two records reach
a queue that is drained, reclaimed and refilled, and one that is compacted with
records behind; two faults give a crash during the recovery from a crash. Four cells
hold two whole lines, or a line and a half, and a window of three ends inside the
second one; one recreation gives two generations and an offset of the first. Seven
bytes with a floor of two give every step of the halving (7, 3, 2), batches of one to
three records, a record larger than the whole budget of a floor turn, and one the
endpoint never takes. In `routes` an edit on top of every initial content covers a
repurposed file, a rotated key, a file lost or found, and a checkout taken off the
allow list; three destinations suffice for a shared origin, a shared key, an adopted
queue and an unbound one.

In `inbox` one line is captured twice with one key and once more in another thread's
file; the batches repeat a key, cross files and share records, and two faults tear a
line and lose the answer to its retry. In `lifecycle` three commands give every pair of
overlapping commands a third one to meet, and a second agent slot holds the process
that is still dying while launchd starts the next. Only a
start and an uninstall are never begun while the other is under way (`Apart`): that pair
breaks SettlesDown, see section 6; the proofs do without the bound. In
`configure` the directories are two checkouts of one name, two names that differ in
case, a linked worktree, a malformed marker, a directory inside a checkout, one that is
gone, and two paths with one slug; the window of two rows makes it scroll at the third.

`queue_torn` and `queue_unlinked` use the symmetry of records; runs with liveness use
none. `drain`, `routes`, `routes_pasted`, `lifecycle` and `configure` (with their
violation runs) set `CHECK_DEADLOCK FALSE`: a drain ends, and a machine on which nobody
types, edits or captures any more is idle.

Every property of a passing run has a mutant in `PROJECT.json`: a change of one
mapped definition, of the kind a slip in the code would be, under which TLC finds the
property violated with the run's own configuration.

## 4. Fairness

- The watch loop starts a pass at least every `poll_secs` (main.rs 538-566), and a
  started operation of the one process runs on: weak fairness of the process's own
  steps (`StartPass`, `Routes`, `WriteCursor`, `BeginCycle`, `Working` and so on).
- A post ends within its timeout (60 s), so a thread returns: weak fairness of
  `OneBatch` per route.
- Strong fairness is only given to what the environment grants some day although it
  may refuse any number of times: an endpoint asked again and again accepts, the
  disk takes an append, a transcript becomes readable and its checkout resolves.
  `PeekBatch` has it too: a lane is opened, interrupted and opened again, and the
  pass budget (120 s) outlives the first turn.
- `drain` assumes nothing of the pass budget: the drain ends without it.
- The receiver's loop serves the connection in hand to its end (weak fairness of `Load`,
  `Write`, `Answer`), is started again after a crash, and accepts connections in the
  order they arrived, so a client that asks again and again is taken in hand some day:
  strong fairness of `Take`, since in between the server may be busy or down.
- In `Lifecycle` every process runs on (weak fairness of `Step`), SIGTERM is delivered
  and a loaded agent without a process is started. Nobody has to type, or to interrupt.
- `Configure` has no fairness: its properties are safety.

## 5. Proofs

TLAPS checks these for every value of the constants that satisfies the named
`ASSUME`s (any sets, limits, bounds).

| module | theorem | assumption | inductive invariant |
|---|---|---|---|
| `SpoolQueueProofs` | `TypeCorrect`: types | none | TypeOK |
| | `QueueInvariant`, `NothingLost` (NoLoss), `NeverSteppedOver` (BehindCursor) | `SafeWindows`: `torn`, `unlinked`, `compacted`, `status` closed | QueueInv |
| | `TornInvariant`, `CorruptLinesHold` (CorruptLineHolds, an action property), `CountsExactly` (PendingExact), `GivesBackItsFile` (ReclaimedWhenEmpty), `NothingGarbledBehind` (BehindCursor) | `TornOnly`: all but `torn` closed | TornInv |
| `QueueRefinementProofs` | `QueueImplements` (ImplementsDurableQueue) | `SafeWindows` | QueueInv |
| `CaptureProofs` | `CaptureTypeCorrect`: types | none | TypeOK |
| | `CaptureInvariant`, `CoveredOffsets` (OffsetsCovered) | `SafeHazards`: `regrown` excluded | CaptureInv |
| | `QueuesWholeLines` (WholeLines), `QueuesInOrder` (OrderKept) | `SafeHazards` | CaptureInv, WholeInv |
| | `NeverUploadsDeclined` (DeclinedStaysOut, an action property) | `SafeHazards` | CaptureInv, WholeInv, AheadInv |
| `DrainRoundProofs` | `DrainTypeCorrect`, `DrainInvariant`, `DrainSkipsNothing` (NothingSkipped), `ParksOnlyUnsendable` (OnlyUnsendable), `TurnsStayEven` (FairTurns) | none | DrainInv |
| | `EmptiesWhatItCan` (EmptiedUnlessStopped) | none | EndInv |
| | `RefusalsAreFew` (FewRefusals) | none | TypeOK, Refusals |
| | `ReasonsAreKept` (ReasonRecorded) | `OwnLabels`: no label is shared | Stopped |
| `RouteIdentityProofs` | `RouteTypeCorrect`, `KeysStayHome` (KeyStaysHome), `RecordedIdentity`, `IdentitiesApart` (QueuesApart) | none: all windows open | TypeOK, IdentityInv |
| | `RouteInvariant`, `OneOrganization` (OneOrgPerQueue) | `SafeWindows`: Windows is empty | RouteInv |
| `InboxProofs` | `InboxTypeCorrect`, `StoredAtMostOnce` (StoredOnce), `PromisedIsKept` (NothingDropped) | none | Inv (TypeOK, StoredOnce, NothingDropped, Seen, Pending) |
| | `LossIsBounded` (LossBounded) | none | Inv, Costs |
| | `StaysInView` (ShownUntilOutrun, an action property) | none | Inv |
| `LifecycleProofs` | `LifecycleTypeCorrect`, `LifecycleInvariant`, `OneWorks` (OneObserver), `BinaryStaysWhole` (BinaryWhole) | none: any commands overlap | Inv (Typed, Held, Launchd, Rest, BinaryWhole) |
| `ConfigureProofs` | `AtMostOneScanBehind` (OneScanBehind) | none | itself |
| | `DeviceIdLasts` (StableAlone) | none | StableAlone, Form, Alone |
| | `ConfigureTypeCorrect` (TypeOK), `CursorStaysOnScreen` (CursorOnScreen), `SavesWhatWasAsked` (SavedAsAsked), `TickedIsDelivered` (TickedIsSent), `BlockedIsExplained` (BlockedSaysWhy) | none | Kinv |

Why each needs strengthening:

- NoLoss does not survive a step by itself: what `DropFront` removes is a number of
  lines, so one must know that the batch in memory is still the front of the file
  (`BatchAtFront`), that all in front of the offset is settled (`SettledBehind`), and
  where offsets may stand while a file is being rewritten (`CursorInFile`).
- PendingExact needs that the count in a cursor is the distance between its two positions
  (`Counted`) and where these stand while a file is being rewritten (`CursorCounts`);
  ReclaimedWhenEmpty that a lane has counted every line and stands before the end of its
  file, an unfinished last line included (`LaneCounted`). CorruptLineHolds and BehindCursor
  need that the batch in memory is what a reader meets at the offset (`BatchIsFront`): then
  what is dropped, by the removal of a drained file too, was accepted or parked, which a
  garbled line never is, and `LinesBehind` follows each other line through every step but
  `Clear`. This invariant allows torn lines, QueueInv
  ignored I/O errors: an error that is ignored breaks the counts, a torn line NoLoss.
- ImplementsDurableQueue rests on one fact: what waits is what the file holds past the
  position of delivery (`QueueIs`). `AfterAppend` and `AfterAfter` say what an append and a
  drop do to that; `BatchIsPrefix` that a request carries its front; `BackToStart` that a
  lost cursor, or a drained file that cannot be removed, brings settled records back.
- OffsetsCovered needs the same of the offsets that are on their way, in memory and
  in what a pass has read (`FoundSound`), and that an offset of an older generation
  lies beyond the recreated transcript, which is what makes the length test of
  read_file enough (`Sound`). `LinesSplit` is the lemma under it: lines up to b are
  lines up to a plus lines read from a on, if a is a line end.
- WholeLines and OrderKept need to know what the pass holds in hand (`FoundWhole`: whole
  lines, up to the next offset), that what was promised was written (`Kept`: a failed
  append may leave a line in the queue that was never promised), and that nothing queued
  is of a generation still to come (`Known`). DeclinedStaysOut needs that `offsets.json`
  is never ahead of memory, nor of what is in hand (`DiskBehind`, `FoundAhead`), and that
  nothing is in hand while offsets are saved (`Quiet`).
- OnlyUnsendable and NothingSkipped need that a thread reports what it did
  (`TurnHonest`); FairTurns that lanes advance in step with the cycle (`InStep`). EmptiedUnlessStopped
  needs that a lane only leaves the cycle empty or stopped (`Closed`) and that a drain
  that ends in time has none left (`AllClosed`). FewRefusals needs the invariant of the
  halvings, budget * 2^n <= Full, and which refusals the cycle has not halved for yet (`Due`).
- QueuesApart needs that `route.json` holds the identity of every line captured into
  the queue (`IdentityInv`); in particular a line only ever meets an old queue in the
  step that adopts it.
- OneOrgPerQueue needs `LaneAgrees`: what a lane was opened with is either what
  `route.json` says, or it was opened unbound and every key it can still be served
  with belongs to the organization pinned meanwhile. This is where "no edit during a
  drain" enters, and `OneKey` (discovery offers one candidate per identity).

- StoredOnce needs that the keys in the server's memory are at least those of the file
  in hand (`Seen`), or a record could be written beside its twin; NothingDropped that
  they are no more than those, on lines that can be read or not, and that every record
  of the batch in hand is either still to do or in its file (`Pending`). `LongerProps`
  and `RestOf` say what an append does to a file and a removal to a batch.
- LossBounded is a count, and what it counts jumps by two in one step: the write that
  finishes a torn line spoils the record in front and its own. `Costs` charges that ahead:
  the promised records that some later write can spoil (`AtRisk`) and the missing newlines
  together grow by two at most, and only with a fault. ShownUntilOutrun holds because no write
  moves what is in front of a missing newline (`StaysListed`) and a listing is a finite total
  order (`ListingOrder`) whose Limit highest elements are Limit in number and above all
  others (`TopOf`).
- OneObserver needs that whoever watches, or probes the lock for `start`, has it
  (`Held`), and that launchd's process and the dying ones are processes at all
  (`Launchd`); BinaryWhole that an update past its download carries a verified release
  (`Shape`). Neither needs the bound `Apart`.
- StableAlone needs that a single command has the file in hand and the id it read
  (`Alone`); the proof follows the id through the open picker.

- The five theorems about `configure` share `Kinv`. Its parts tie what a terminal holds to
  what it began with (`Terms`: rows, ticks, kept entries and the cursor between two reads),
  to what was asked (`Sound`: the list is what the command that wrote it was asked for). TickedIsSent joins both ends: `configure` writes an entry by its name or
  path, the observer compares it with the directory a chat was held in, several recursions
  on directories later. BlockedSaysWhy compares two walks upwards, that of diagnose and that
  of resolve; what it excepts (`Misdiagnosed`) is in section 6.

Many of these rest on functions that are defined by recursion: over numbers (`Power`, the
keys of one read, the flags) and over directories (`Upward`). The library's induction
theorems take an operator as a parameter, which the provers here cannot instantiate, so
induction is done on sets: a set of numbers that is not empty has a least one (`LeastOf`,
`Smallest`, from `WFMin`), so the set of those where a claim fails is empty, and likewise for
directories, which have no cycle. That the function exists at all is proved that way too.
The modules with theorems declare no RECURSIVE operator: with one tlapm loses its SMT backend.

Only model-checked: liveness, which needs ENABLED and is out of the prover's reach:
EventuallySettled, EveryLineSettles, DrainFinishes, SiblingDelivers, EventuallyAnswered,
EveryCommandEnds and SettlesDown. Every other property of a passing run is a theorem.

## 6. Where the code disagrees with its documents

Four violation runs keep these at hand (`findings` quotes both sides):

- `queue_unlinked`: drop_front removes a drained file before it resets the cursor; a
  crash between them applies the old offset to the next file of that length.
- `routes_pasted`: a declared organization is not looked at when the repository's
  lines join an existing queue of the same key.
- `lifecycle_background`: the agent's own `run` begins with the takeover meant for a
  foreground `run`, and unloads the agent it belongs to.
- `configure_next_scan`: the watch loop reads `config.toml` before it waits, so the scan
  that ends the wait works with the list from before a change.

The same models show these when a constant is changed:

| change | violated | where |
|---|---|---|
| SpoolQueue, Windows = {"compacted"} | BehindCursor, NoLoss | spool.rs:342-344; spool-queue/spec.md:35-37 |
| SpoolQueue, Windows = {"torn"} | NoLoss: the next record is glued to the fragment, and the route stops | spool.rs:145-152 |
| SpoolQueue, Windows = {"unsaved"} | ReclaimedWhenEmpty | spool.rs:240; spool-queue/spec.md:41-43 |
| SpoolQueue, Windows = {"status"} | PendingExact | spool.rs:239-241 from main.rs:372; spool-queue/spec.md:54-55 |
| Capture, Hazards = {"regrown"} | OffsetsCovered | capture.rs:120 |
| Capture, MaxLine = Window + 1 | EveryLineSettles: a line wider than the 4 MiB read window is read for ever | capture.rs:130-136; capture.rs:13-14 |
| DrainRound, two routes with one label | ReasonRecorded | main.rs:859-870; drain-scheduling/spec.md:24-26 |
| DrainRound, property ParkingReported | it: a later stop overwrites the parking | main.rs:840-843; upload-batching/spec.md:69-70 |
| RouteIdentity, Windows = {"midway"} | OneOrgPerQueue: pin_org overwrites what an earlier turn pinned | main.rs:934-936; destination-identity/spec.md:67-72 |
| RouteIdentity, Windows = {"unpinned"} | OneOrgPerQueue | main.rs:935 |
| Lifecycle, Apart = {} | SettlesDown: start loads the agent between the unload and the removal of uninstall; loaded without a file, it is never released, and contends with a foreground `run` for ever | agent.rs:170-179; agent.rs:67-69 |

An old queue adopted after a fresh one was made for the same key leaves two queues of
one identity; both are delivered, so no property forbids it.

What the properties except, or the models show beside them:

- Capture. Saving `offsets.json` cuts the file first (capture.rs:37): an interrupted save
  leaves it empty, every transcript is read again, and what was passed over then goes to
  the destination its repository has by now, against README.md:158-159. `Declined` is what
  `offsets.json` still says, so this is the exception in DeclinedStaysOut.
- Inbox. A cut inside a multi-byte character leaves a line that lines() refuses, and
  every batch that touches the file is answered 500 from then on (store.rs:170): the
  exception in EventuallyAnswered. A device id that is no path is a 500 too
  (store.rs:120-140 behind receiver.rs:190), so such a client asks for ever.
  Where records have no seq, equal lines of one file are stored once; content_key leaves
  the thread out, but keys are only compared within a file, which is one thread's.
  The observer of this version cannot talk to this receiver (it sends `x-api-key` and
  asks `/api/v1/me`, the receiver wants a bearer token): clients are external.
- Lifecycle. An update that fails while it copies leaves no binary, and the agent stopped
  (the exception in BinaryWhole). `stop` reports success although it looks at no outcome of
  unload. A takeover may use up its attempts while the agent is still dying. StartedRuns
  and SettlesDown meet in `Look`: if the agent's own run left launchd alone, it would be
  restarted for ever against a foreground run (the mutant of SettlesDown).
- Configure. A cancelled picker still writes the config it loaded (picker.rs:34-35 asks
  the caller to leave it alone; main.rs:212-220): an edit made meanwhile is lost. A
  config that does not parse, or is read between another command's two writes, becomes a
  fresh one with a new device id and an empty list (`unsafe`). An arrow key split by the
  32-byte read is an escape and a letter (picker.rs:308-326).
- The allow list. Two names that differ in case alone allow each other (`Twin`); a
  worktree whose folder has the name of another repository is allowed with that one; a
  bare entry that a row claims with an absolute one is lost on save; a chat in a
  subdirectory of an allowed repository is passed over; a worktree with a file of its own
  whose primary has none gets no row.
- Wrong reasons (`Misdiagnosed`, the two exceptions of BlockedSaysWhy; the bounds reach
  both). Two files that agree and both lack a key, or have no bare origin, "disagree":
  the flag of nearest_env_file only says that both exist, although its comment says it
  reports the conflict that select_env_file rejects (destination.rs:181-182, 152-154). A
  malformed `.git` without a file gets a row with the reason "destination file is
  unreadable" (destination.rs:149-151).
- Labels. `status` and the drain's results are keyed by a folder name, so a worktree's
  failures appear under its own name (README.md:98-100), or hide another's.

## 7. Not modelled

- Text: redaction and record building, the activity log (`log.rs`: wording and layout of
  counts that scan_and_ship and drain pass in), `docs.rs`, the drawing of the picker, the
  rendering of `read`.
- Syntax: TOML, JSON and env files, URLs, HTTP requests, paths; what they parse to is
  modelled.
- In `update.rs`: which tag is the latest, version comparison, URLs. In `uploader.rs`:
  response texts, timeouts, the verification cache of five minutes.
- `quarantine_legacy` (a rename of a file no other operation knows), the system's file
  watcher (a pass may start at any time), the contents of the plist, the flags of `run`,
  `receive` and `read`.

Component by component: `PROJECT.json`.

## 8. Plan

Done, most important first: the queue and its abstraction, capture, drain, route
identity; then the inbox, the life of the observer's processes, directories and the
allow list, `configure` and the watch loop; each with its proofs. What is left:

1. A composition of `Capture`, `Workspaces` and `SpoolQueue` through append, so that "no
   line is lost from transcript to endpoint" is one property. Each side's promise at the
   seam is checked now: OffsetsCovered takes a successful append for granted, NoLoss
   starts from it, TickedIsSent says which queue.
2. Proofs: one invariant for `torn` together with `unsaved` and `unremoved`, which
   TornInv and QueueInv cover separately; an invariant under which the terminals of
   `configure` may overlap without losing the device id.
3. The verification cache of the uploader with a key that changes its organization at the
   endpoint within the five minutes.
