------------------------------- MODULE Inbox -------------------------------
(***************************************************************************)
(* The local inbox: `khotan-observer receive` (receiver.rs) takes batches  *)
(* one connection at a time and appends them to one file per session       *)
(* (store.rs); `khotan-observer read` lists what the files hold.           *)
(*                                                                         *)
(* A file is a sequence of lines and a line a sequence of pieces: one      *)
(* whole record on a good line, more than one piece after a write that     *)
(* stopped inside a line and was continued by the next append.  What is    *)
(* left of a record that was cut is Cut, or SplitChar when the cut fell    *)
(* inside a multi-byte character, which no line reader of the program      *)
(* gets past.                                                              *)
(***************************************************************************)
EXTENDS Naturals, FiniteSets, SequencesExt

CONSTANTS
  Record,          \* what clients send: one captured line each
  Key, KeyOf,      \* content_key: two captures of one line share it
  File, NoFile, FileOf, \* path_under: device, tool, project, thread, session
  Rank,            \* (captured_at_ms, seq), which orders a listing
  Walk,            \* the order walk_ndjson meets the files in
  Client, NoClient,
  Request,         \* the requests clients make
  NoRequest,
  Cut, SplitChar,  \* what is left of a record whose write stopped
  Limit,           \* read --limit
  MaxFaults        \* bound: failed writes, crashes and lost answers

Piece == Record \cup {Cut, SplitChar}
Flaw == {"head", "target", "token", "empty", "large", "json", "device",
         "fields", "unsafe", "unsafeDevice"}

ASSUME InboxAssumption ==
  /\ KeyOf \in [Record -> Key] /\ FileOf \in [Record -> File] /\ NoFile \notin File
  /\ Rank \in [Record -> Nat]
  /\ Walk \in Seq(File) /\ ToSet(Walk) = File /\ IsInjective(Walk)
  /\ Request \subseteq [flaws : SUBSET Flaw, batch : Seq(Record)]
  /\ NoRequest \notin Request /\ NoClient \notin Client
  /\ Cut \notin Record /\ SplitChar \notin Record /\ Cut # SplitChar
  /\ Limit \in Nat \ {0} /\ MaxFaults \in Nat

VARIABLES
  lines,     \* the lines of each file
  torn,      \* the files whose last line has no newline yet
  asked,     \* the request each client waits for, or NoRequest
  state,     \* the server: "down", "free", "load" or "write"
  serving,   \* the client of the connection in hand, or NoClient
  work,      \* the records of its batch that are left
  target,    \* the file in hand
  seen,      \* the keys of the file in hand: load_keys and new_keys
  acked,     \* history: the records a client was told are stored
  faults

vars == <<lines, torn, asked, state, serving, work, target, seen, acked, faults>>
disk == <<lines, torn>>
hand == <<state, serving, work, target, seen>>

-----------------------------------------------------------------------------
(* What a reader makes of a file. *)

\* A line parses when it is one whole record.
Parses(l) == Len(l) = 1 /\ l[1] \in Record

\* lines() fails on a line that is not UTF-8.
Broken(l) == SplitChar \in ToSet(l)

\* Mutated: a last line without its newline is an error too.
Wedged_Strict(f) == f \in torn \/ \E i \in DOMAIN lines[f] : Broken(lines[f][i])

Wedged(f) == \E i \in DOMAIN lines[f] : Broken(lines[f][i])

\* Mutated: the keys of every file count for each of them.
Keys_Anywhere(f) ==
  UNION {{KeyOf[lines[g][i][1]] : i \in {j \in DOMAIN lines[g] : Parses(lines[g][j])}} :
           g \in File}

\* load_keys, of a file without a broken line.
Keys(f) == {KeyOf[lines[f][i][1]] : i \in {j \in DOMAIN lines[f] : Parses(lines[f][j])}}

\* Mutated: an error while reading a file drops the whole file.
Listed_WholeFile == {p \in UNION {{f} \X DOMAIN lines[f] : f \in File} :
             /\ Parses(lines[p[1]][p[2]])
             /\ \A i \in DOMAIN lines[p[1]] : ~Broken(lines[p[1]][i])}

\* list_records: the lines in front of the first broken one, those that parse.
Listed == {p \in UNION {{f} \X DOMAIN lines[f] : f \in File} :
             /\ Parses(lines[p[1]][p[2]])
             /\ \A i \in 1..p[2] : ~Broken(lines[p[1]][i])}

RecordAt(p) == lines[p[1]][p[2]][1]

Met(f) == CHOOSE n \in DOMAIN Walk : Walk[n] = f

\* The stable sort: rank first, then the order of the walk.
Older(p, q) ==
  LET r == Rank[RecordAt(p)]  s == Rank[RecordAt(q)]
      i == Met(p[1])  j == Met(q[1])
  IN  r < s \/ (r = s /\ (i < j \/ (i = j /\ p[2] < q[2])))

\* read: the last Limit records of the listing.
Shown == {p \in Listed : Cardinality({q \in Listed : Older(p, q)}) < Limit}

-----------------------------------------------------------------------------
(* The checks of handle_connection, in their order. *)

Checks == << <<"head", "431">>, <<"target", "404">>, <<"token", "401">>,
             <<"empty", "400">>, <<"large", "413">>, <<"json", "400">>,
             <<"device", "400">>, <<"fields", "400">>, <<"unsafe", "400">>,
             <<"unsafeDevice", "500">> >>

\* The first check a request fails; a device id that cannot be a path is only
\* found by append_batch, which makes it a 500.
Failing(q) == {i \in DOMAIN Checks : Checks[i][1] \in q.flaws}
Verdict(q) ==
  IF Failing(q) = {} THEN "append"
  ELSE Checks[CHOOSE i \in Failing(q) : \A j \in Failing(q) : i <= j][2]

-----------------------------------------------------------------------------
(* Writing.  by_path splits a batch by file, files in the order they first      *)
(* occur: so the next file is that of the first record left, and the next       *)
(* record the first one left of the file in hand.                               *)

Mine == {i \in DOMAIN work : FileOf[work[i]] = target}
Place == CHOOSE i \in Mine : \A j \in Mine : i <= j
Next1 == work[Place]

\* A file with a piece behind whatever it ends in.
Longer(f, piece) ==
  LET l == lines[f] IN
  IF f \in torn THEN [l EXCEPT ![Len(l)] = Append(@, piece)] ELSE Append(l, <<piece>>)

\* Mutated: the newline is never written.
Put_Unended(f, piece, ended) ==
  /\ lines' = [lines EXCEPT ![f] = Longer(f, piece)]
  /\ torn' = torn \cup {f}

\* append-mode write of a piece.
Put(f, piece, ended) ==
  /\ lines' = [lines EXCEPT ![f] = Longer(f, piece)]
  /\ torn' = IF ended THEN torn \ {f} ELSE torn \cup {f}

\* The forms a write may stop in: nothing, part of the record, or the whole of
\* it without its newline.
Stopped(f, r) ==
  \/ UNCHANGED disk
  \/ \E piece \in {Cut, SplitChar, r} : Put(f, piece, FALSE)

-----------------------------------------------------------------------------
\* The server is done with the connection in hand: waiting, or dead.
Over(next) ==
  state' = next /\ serving' = NoClient /\ work' = <<>> /\ target' = NoFile /\ seen' = {}

Init ==
  /\ lines = [f \in File |-> <<>>] /\ torn = {}
  /\ asked = [c \in Client |-> NoRequest]
  /\ state = "free" /\ serving = NoClient
  /\ work = <<>> /\ target = NoFile /\ seen = {}
  /\ acked = {} /\ faults = 0

\* A client has a batch to deliver (external).
Send(c) ==
  /\ asked[c] = NoRequest
  /\ \E q \in Request : asked' = [asked EXCEPT ![c] = q]
  /\ UNCHANGED <<disk, hand, acked, faults>>

\* A client reads its answer: done with 204, gives up on 4xx, asks again
\* later on 5xx (external).
Reads(c, status) ==
  /\ asked' = IF status = "500" THEN asked ELSE [asked EXCEPT ![c] = NoRequest]
  /\ acked' = IF status = "204" THEN acked \cup ToSet(asked[c].batch) ELSE acked

\* One connection is accepted and its request read and judged.
Take(c) ==
  /\ state = "free" /\ asked[c] # NoRequest
  /\ LET v == Verdict(asked[c]) IN
       IF v = "append"
       THEN /\ work' = asked[c].batch /\ state' = "load"
            /\ serving' = c /\ UNCHANGED <<asked, acked, target, seen>>
       ELSE Reads(c, v) /\ UNCHANGED hand
  /\ UNCHANGED <<disk, faults>>

\* The next file: its keys, or an error that ends the batch with 500.
Load ==
  /\ state = "load" /\ work # <<>>
  /\ LET f == FileOf[work[1]] IN
     IF Wedged(f) THEN Over("free")
     ELSE state' = "write" /\ target' = f /\ seen' = Keys(f) /\ UNCHANGED <<serving, work>>
  /\ UNCHANGED <<disk, asked, acked, faults>>

\* Mutated: one record stands for the whole batch.
Rest_Nothing == <<>>

\* What is left once the next record is done.
Rest == RemoveAt(work, Place)

\* Mutated: new_keys is forgotten.
Write_KeysOfFileOnly ==
  /\ state = "write"
  /\ IF KeyOf[Next1] \in seen THEN UNCHANGED disk ELSE Put(target, Next1, TRUE)
  /\ work' = Rest
  /\ IF Mine = {Place} THEN state' = "load" /\ target' = NoFile /\ seen' = {}
     ELSE UNCHANGED <<state, target, seen>>
  /\ UNCHANGED <<asked, serving, acked, faults>>

\* One record: a duplicate is skipped, another gets a line.
Write ==
  /\ state = "write"
  /\ IF KeyOf[Next1] \in seen THEN UNCHANGED disk ELSE Put(target, Next1, TRUE)
  /\ work' = Rest
  /\ IF Mine = {Place} THEN state' = "load" /\ target' = NoFile /\ seen' = {}
     ELSE seen' = seen \cup {KeyOf[Next1]} /\ UNCHANGED <<state, target>>
  /\ UNCHANGED <<asked, serving, acked, faults>>

\* What is on disk when the work on a file stops: a record may be half written.
Interrupted ==
  IF state = "write" /\ KeyOf[Next1] \notin seen THEN Stopped(target, Next1) ELSE UNCHANGED disk

\* The file cannot be opened or a write fails: append_batch returns its error, the
\* client reads 500.
WriteFails ==
  /\ state = "write" /\ faults < MaxFaults
  /\ Interrupted
  /\ faults' = faults + 1 /\ Over("free")
  /\ UNCHANGED <<asked, acked>>

\* 204, which the client reads or never hears of.
Answer ==
  /\ state = "load" /\ work = <<>>
  /\ \/ Reads(serving, "204") /\ UNCHANGED faults
     \/ faults < MaxFaults /\ faults' = faults + 1 /\ UNCHANGED <<asked, acked>>
  /\ Over("free")
  /\ UNCHANGED disk

\* The process dies, in the middle of a write or elsewhere, ...
Crash ==
  /\ state # "down" /\ faults < MaxFaults
  /\ Interrupted
  /\ faults' = faults + 1 /\ Over("down")
  /\ UNCHANGED <<asked, acked>>

\* ... and is started again.
Restart ==
  /\ state = "down" /\ Over("free")
  /\ UNCHANGED <<disk, asked, acked, faults>>

Next ==
  \/ \E c \in Client : Send(c) \/ Take(c)
  \/ Load \/ Write \/ WriteFails \/ Answer \/ Crash \/ Restart

Spec == Init /\ [][Next]_vars

\* The listener hands connections over in the order they arrived, so a client
\* that keeps asking is accepted; the server is started again after a crash.
Fairness ==
  /\ \A c \in Client : SF_vars(Take(c))
  /\ WF_vars(Load) /\ WF_vars(Write) /\ WF_vars(Answer) /\ WF_vars(Restart)
FairSpec == Spec /\ Fairness

-----------------------------------------------------------------------------
(* Properties *)

\* Only files hold lines, an unfinished last line belongs to a file that has
\* one, and the server works on a record it has.
TypeOK ==
  /\ lines \in [File -> Seq(Seq(Piece) \ {<<>>})]
  /\ torn \subseteq {f \in File : lines[f] # <<>>}
  /\ asked \in [Client -> Request \cup {NoRequest}]
  /\ state \in {"down", "free", "load", "write"}
  /\ serving \in Client \cup {NoClient}
  /\ work \in Seq(Record) /\ target \in File \cup {NoFile}
  /\ state = "write" => target \in File /\ Mine # {}
  /\ state \in {"load", "write"} => serving \in Client /\ asked[serving] \in Request
  /\ seen \subseteq Key /\ acked \subseteq Record /\ faults \in 0..MaxFaults

\* A line captured twice, sent twice or retried after any failure is readable
\* at most once in its session's file (the purpose of content_key).
StoredOnce ==
  \A f \in File : \A i, j \in DOMAIN lines[f] :
     /\ Parses(lines[f][i]) /\ Parses(lines[f][j])
     /\ KeyOf[lines[f][i][1]] = KeyOf[lines[f][j][1]]
     => i = j

\* What a client was told is stored is in the file of its session, byte for
\* byte: a duplicate is only skipped where its twin is.
NothingDropped ==
  \A r \in acked : \E i \in DOMAIN lines[FileOf[r]] : \E p \in ToSet(lines[FileOf[r]][i]) :
     p \in Record /\ KeyOf[p] = KeyOf[r]

Unreadable ==
  {<<FileOf[r], KeyOf[r]>> : r \in {x \in acked :
     ~\E i \in DOMAIN lines[FileOf[x]] :
         Parses(lines[FileOf[x]][i]) /\ KeyOf[lines[FileOf[x]][i][1]] = KeyOf[x]}}

\* A write that stops inside a line costs at most two records that were said to
\* be stored, the one in front of the missing newline and the one behind it.
LossBounded == Cardinality(Unreadable) <= 2 * faults

\* A record on a finished line that `read` shows is shown until as many records
\* that are not older take its place, whatever is appended or fails meanwhile.
ShownUntilOutrun ==
  [][\A p \in Shown :
       \/ p \in Shown'
       \/ p[1] \in torn /\ p[2] = Len(lines[p[1]])
       \/ /\ Cardinality(Shown') = Limit
          /\ \A q \in Shown' : Rank[RecordAt(q)'] >= Rank[RecordAt(p)]]_vars

\* A client that keeps asking is answered for good, unless one of the files its
\* batch goes to ends in half a character (or its device id is no path).
EventuallyAnswered ==
  \A c \in Client : \A q \in {x \in Request : x.flaws = {}} :
     asked[c] = q ~> \/ asked[c] # q
                     \/ \E r \in ToSet(q.batch) :
                          \E l \in ToSet(lines[FileOf[r]]) : Broken(l)
=============================================================================
