----------------------------- MODULE RouteIdentity -----------------------------
(***************************************************************************)
(* Which queue a record goes to and which customer the queue is sent to:   *)
(* the destination files (src/src/destination.rs), the recorded identity   *)
(* of a queue (src/src/spool.rs), and the turn of a drain that chooses a   *)
(* key and an organization (src/src/main.rs, src/src/uploader.rs).         *)
(*                                                                         *)
(* People edit the files and the allow list while the observer runs.  A    *)
(* drain works from what routes() and discover_routes() read at its start. *)
(* The order of the records and the batch bounds are SpoolQueue's and      *)
(* DrainRound's: here a batch is any nonempty set of queued records.  Key  *)
(* stands for the API keys and their fingerprints, which do not collide.   *)
(***************************************************************************)
EXTENDS Integers

CONSTANTS
  Checkout,      \* repositories that may hold a destination file
  Origin, Key, Org,
  NoKey, NoOrg,  \* a field that is not recorded
  NoFile,        \* a repository without a destination
  NoQueue,       \* a queue directory that does not exist
  OrgOf,         \* the organization the endpoint names for a key
  Dest,          \* what a destination file can hold
  Old, OldRoute, \* queues written before the fingerprint, and their route.json
  Record,        \* chat lines that can be captured
  MaxEdits,      \* bound: edits of destination files and of the allow list
  Windows        \* which of WindowNames can happen

\*   midway    a destination file is edited while a drain runs
\*   unpinned  pin_org fails, which one_batch ignores
WindowNames == {"midway", "unpinned"}

Destination == [origin : Origin, key : Key, org : Org \cup {NoOrg}]
Metadata    == [origin : Origin, key : Key \cup {NoKey}, org : Org \cup {NoOrg}, path : Checkout]
Name        == (Origin \X Key) \cup Old
Line        == Record \cup Old

ASSUME RouteAssumption ==
  /\ OrgOf \in [Key -> Org]
  /\ Dest \subseteq Destination
  /\ NoFile \notin Destination
  /\ NoKey \notin Key
  /\ NoOrg \notin Org
  /\ NoQueue \notin Metadata \cup Name
  /\ OldRoute \in [Old -> [origin : Origin, key : {NoKey}, org : Org, path : Checkout]]
  /\ Old \cap (Origin \X Key) = {}
  /\ Old \cap Record = {}
  /\ MaxEdits \in Nat
  /\ Windows \subseteq WindowNames

VARIABLES
  file,        \* the destination file of each checkout
  allow,       \* the checkouts on the allow list
  queue,       \* route.json of each queue directory
  waiting,     \* the lines each queue holds
  draining, lanes, \* whether a drain runs, and the queues it still serves
  seen,        \* the metadata its lanes were opened with
  candidates,  \* the live destinations it discovered
  born,        \* history: what the file held when a line was captured
  into,        \* history: the queue a line was put in
  posted,      \* history: <<line, organization>> the endpoint was given
  shown,       \* history: <<origin, key>> put on the wire
  edits        \* counts edits

files   == <<file, allow, edits>>
drain   == <<draining, lanes, seen, candidates>>
history == <<born, into>>
wire    == <<posted, shown>>
vars    == <<file, allow, queue, waiting, draining, lanes, seen, candidates,
             born, into, posted, shown, edits>>

TypeOK ==
  /\ file \in [Checkout -> Dest \cup {NoFile}]
  /\ allow \subseteq Checkout
  /\ queue \in [Name -> Metadata \cup {NoQueue}]
  /\ waiting \in [Name -> SUBSET Line]
  /\ draining \in BOOLEAN
  /\ lanes \subseteq Name
  /\ seen \in [Name -> Metadata \cup {NoQueue}]
  /\ \A q \in lanes : seen[q] # NoQueue /\ queue[q] # NoQueue
  /\ candidates \subseteq [path : Checkout, origin : Origin, key : Key]
  /\ born \in [Record -> Dest \cup {NoFile}]
  /\ into \in [Record -> Name \cup {NoQueue}]
  /\ posted \subseteq Line \X Org
  /\ shown \subseteq Origin \X Key
  /\ edits \in 0..MaxEdits

\* The queues of an earlier version have an organization, which was required then, and
\* one line waiting in each.
Init ==
  /\ file \in [Checkout -> Dest \cup {NoFile}]
  /\ allow = Checkout
  /\ queue = [q \in Name |-> IF q \in Old THEN OldRoute[q] ELSE NoQueue]
  /\ waiting = [q \in Name |-> {q} \cap Old]
  /\ draining = FALSE
  /\ lanes = {}
  /\ seen = [q \in Name |-> NoQueue]
  /\ candidates = {}
  /\ born = [r \in Record |-> NoFile]
  /\ into = [r \in Record |-> NoQueue]
  /\ posted = {}
  /\ shown = {}
  /\ edits = 0

-----------------------------------------------------------------------------
(* People *)

EditFile(c, d) ==
  /\ ~draining \/ "midway" \in Windows
  /\ edits < MaxEdits
  /\ d # file[c]
  /\ file' = [file EXCEPT ![c] = d]
  /\ edits' = edits + 1
  /\ UNCHANGED <<allow, queue, waiting, drain, history, wire>>

\* configure: watch reloads the list before its next pass.
Configure(A) ==
  /\ ~draining
  /\ edits < MaxEdits
  /\ A # allow
  /\ allow' = A
  /\ edits' = edits + 1
  /\ UNCHANGED <<file, queue, waiting, drain, history, wire>>

-----------------------------------------------------------------------------
(* Capture: the queue a line goes to *)

\* Mutated: any fingerprint matches.
QueueMatches_OriginOnly(m, d) ==
  /\ m.origin = d.origin
  /\ m.key = NoKey => m.org # NoOrg /\ m.org = d.org

QueueMatches(m, d) ==
  /\ m.origin = d.origin
  /\ \/ m.key # NoKey /\ m.key = d.key
     \/ m.key = NoKey /\ m.org # NoOrg /\ m.org = d.org

Matching(d) == {q \in Name : queue[q] # NoQueue /\ QueueMatches(queue[q], d)}

Enqueue(r, q, c) ==
  /\ ~draining
  /\ c \in allow
  /\ file[c] # NoFile
  /\ born[r] = NoFile
  /\ born' = [born EXCEPT ![r] = file[c]]
  /\ into' = [into EXCEPT ![r] = q]
  /\ waiting' = [waiting EXCEPT ![q] = @ \cup {r}]
  /\ UNCHANGED <<files, drain, wire>>

\* Mutated: adoption writes the route instead of the recorded metadata.
AppendMatched_Overwriting(r, q, c) ==
  /\ Enqueue(r, q, c)
  /\ q \in Matching(file[c])
  /\ queue' = [queue EXCEPT ![q].key = file[c].key, ![q].org = file[c].org, ![q].path = c]

\* The first match of a directory scan, whose order is the file system's.  A queue
\* without a fingerprint is stamped with the route's.
AppendMatched(r, q, c) ==
  /\ Enqueue(r, q, c)
  /\ q \in Matching(file[c])
  /\ queue' = [queue EXCEPT ![q].key = file[c].key]

AppendFresh(r, c) ==
  LET d == file[c]
      q == <<d.origin, d.key>>
  IN  /\ Enqueue(r, q, c)
      /\ Matching(d) = {}
      /\ queue[q] = NoQueue
      /\ queue' = [queue EXCEPT ![q] = [origin |-> d.origin, key |-> d.key, org |-> d.org, path |-> c]]

-----------------------------------------------------------------------------
(* Drain: the key and the organization a queue is sent with *)

\* discover_routes: one route for each identity the allowed checkouts offer.
Discovered(C) ==
  LET route(c)  == [path |-> c, origin |-> file[c].origin, key |-> file[c].key]
      live      == {c \in allow : file[c] # NoFile}
      same(a, b) == a.origin = b.origin /\ a.key = b.key
  IN  /\ C \subseteq {route(c) : c \in live}
      /\ \A c \in live : \E x \in C : same(x, route(c))
      /\ \A x, y \in C : same(x, y) => x = y

StartDrain ==
  /\ ~draining
  /\ draining' = TRUE
  /\ lanes' = {q \in Name : queue[q] # NoQueue /\ waiting[q] # {} /\ queue[q].path \in allow}
  /\ lanes' # {}
  /\ seen' = queue
  /\ \E C \in SUBSET [path : Checkout, origin : Origin, key : Key] :
       Discovered(C) /\ candidates' = C
  /\ UNCHANGED <<files, queue, waiting, history, wire>>

\* Mutated: the origin need not agree.
Serves_AnyOrigin(path, origin) == file[path] # NoFile

\* read_credentials: only the origin has to agree.
Serves(path, origin) == file[path] # NoFile /\ file[path].origin = origin

\* Mutated: no sibling stands in.
Credentials_Pinned(q) ==
  LET pinned == seen[q].path
  IN  {[key |-> file[c].key, path |-> c] : c \in {pinned} \cap {c \in Checkout : Serves(c, seen[q].origin)}}

\* resolve_credentials: the pinned file, or else a live one of the same identity.
\* A key and the file it was read from.
Credentials(q) ==
  LET pinned == seen[q].path
      stands == {x.path : x \in {x \in candidates :
                   x.origin = seen[q].origin /\ x.key = seen[q].key /\ Serves(x.path, x.origin)}}
      from   == IF Serves(pinned, seen[q].origin) THEN {pinned} ELSE stands
  IN  {[key |-> file[c].key, path |-> c] : c \in from}

\* enforce, with the organization the lane was opened with.
Agrees(q, org) == seen[q].org \in {NoOrg, org}

Close(q) == lanes' = lanes \ {q} /\ UNCHANGED <<draining, seen, candidates>>

\* repoint and pin_org, which write route.json whatever it says by now.
Recorded(q, c, pin) ==
  queue' = [queue EXCEPT ![q].path = IF c.path = seen[q].path THEN @ ELSE c.path,
                         ![q].org  = IF pin THEN OrgOf[c.key] ELSE @]

Present(q, c) == shown' = shown \cup {<<seen[q].origin, c.key>>}

NoCredentials(q) ==
  /\ q \in lanes
  /\ waiting[q] # {}
  /\ Credentials(q) = {}
  /\ Close(q)
  /\ UNCHANGED <<files, queue, waiting, history, wire>>

\* The identity check fails, or names another organization.
Refused(q) ==
  /\ q \in lanes
  /\ waiting[q] # {}
  /\ \E c \in Credentials(q) : Recorded(q, c, FALSE) /\ Present(q, c)
  /\ Close(q)
  /\ UNCHANGED <<files, waiting, history, posted>>

Give(q, B) ==
  /\ q \in lanes
  /\ B # {}
  /\ \E c \in Credentials(q), pinned \in BOOLEAN :
       /\ Agrees(q, OrgOf[c.key])
       /\ pinned => seen[q].org = NoOrg
       /\ seen[q].org = NoOrg => pinned \/ "unpinned" \in Windows
       /\ Recorded(q, c, pinned)
       /\ Present(q, c)
       /\ posted' = posted \cup (B \X {OrgOf[c.key]})

Deliver(q, B) ==
  /\ Give(q, B)
  /\ waiting' = [waiting EXCEPT ![q] = @ \ B]
  /\ UNCHANGED <<files, drain, history>>

\* The answer is lost, or is a refusal: the lines stay.
Unheard(q, B) ==
  /\ Give(q, B)
  /\ Close(q)
  /\ UNCHANGED <<files, waiting, history>>

Emptied(q) ==
  /\ q \in lanes
  /\ waiting[q] = {}
  /\ Close(q)
  /\ UNCHANGED <<files, queue, waiting, history, wire>>

\* No lane is left, the deadline passed, or the process died.
EndDrain ==
  /\ draining
  /\ draining' = FALSE
  /\ lanes' = {}
  /\ seen' = [q \in Name |-> NoQueue]
  /\ candidates' = {}
  /\ UNCHANGED <<files, queue, waiting, history, wire>>

Turn(q) ==
  \/ NoCredentials(q) \/ Refused(q) \/ Emptied(q)
  \/ \E B \in SUBSET waiting[q] : Deliver(q, B) \/ Unheard(q, B)

Next ==
  \/ \E c \in Checkout, d \in Dest \cup {NoFile} : EditFile(c, d)
  \/ \E A \in SUBSET Checkout : Configure(A)
  \/ \E r \in Record, c \in Checkout :
       AppendFresh(r, c) \/ \E q \in Name : AppendMatched(r, q, c)
  \/ StartDrain
  \/ \E q \in Name : Turn(q)
  \/ EndDrain

Spec == Init /\ [][Next]_vars

\* watch starts a pass again and again, and drain goes on until no lane is left; an
\* endpoint that is asked again and again takes a batch some day.
Working == StartDrain \/ (\E q \in Name : Turn(q)) \/ (lanes = {} /\ EndDrain)

Fairness ==
  /\ WF_vars(Working)
  /\ \A q \in Name : SF_vars(\E B \in SUBSET waiting[q] : Deliver(q, B))

FairSpec == Spec /\ Fairness

-----------------------------------------------------------------------------
(* Properties *)

QueueOf(l) == IF l \in Old THEN l ELSE into[l]

\* A key is only ever put on the wire towards the origin that the file it was read
\* from names, whichever file stands in for whichever queue (read_credentials).
KeyStaysHome ==
  [][\A p \in shown' \ shown :
       \E c \in Checkout : file[c] # NoFile /\ p = <<file[c].origin, file[c].key>>]_vars

\* Lines captured for different origins or under different keys never share a queue,
\* so they are never sent in one request (queue_matches; an old queue, once adopted,
\* belongs to the key that adopted it).
QueuesApart ==
  \A r, s \in Record :
    into[r] = into[s] /\ into[r] # NoQueue =>
      born[r].origin = born[s].origin /\ born[r].key = born[s].key

\* One queue is never delivered to two organizations, however its file, its siblings'
\* files and the allow list are edited between drains (enforce and pin_org).
OneOrgPerQueue ==
  \A x, y \in posted : QueueOf(x[1]) = QueueOf(y[1]) => x[2] = y[2]

\* The inductive strengthening of QueuesApart: route.json holds the identity of every
\* line captured into the queue.
IdentityInv ==
  \A r \in Record :
    \/ born[r] = NoFile /\ into[r] = NoQueue
    \/ /\ born[r] \in Dest
       /\ into[r] \in Name
       /\ queue[into[r]] # NoQueue
       /\ queue[into[r]].origin = born[r].origin
       /\ queue[into[r]].key = born[r].key

\* The inductive strengthening of OneOrgPerQueue: what was posted from a queue went to
\* the organization recorded in it, and within a drain every key a lane can still be
\* served with belongs to that organization, whatever the lane was opened with.
OneCandidate ==
  \A x, y \in candidates : x.origin = y.origin /\ x.key = y.key => x = y

LaneAgrees(q) ==
  \/ queue[q].org = seen[q].org
  \/ seen[q].org = NoOrg /\ \A c \in Credentials(q) : OrgOf[c.key] = queue[q].org

WaitingAtHome ==
  \A q \in Name : \A l \in waiting[q] : QueueOf(l) = q /\ queue[q] # NoQueue

PostedAsBound ==
  \A x \in posted : /\ QueueOf(x[1]) \in Name
                    /\ queue[QueueOf(x[1])] # NoQueue
                    /\ queue[QueueOf(x[1])].org = x[2]

LanesAgree ==
  /\ ~draining => lanes = {}
  /\ \A q \in lanes : LaneAgrees(q)

OrgInv == WaitingAtHome /\ PostedAsBound /\ OneCandidate /\ LanesAgree

RouteInv == IdentityInv /\ OrgInv

\* A line captured under a declared organization is given to no other one, so a key
\* pasted into the wrong repository is caught (README.md, "Once pinned - or when
\* KHOTAN_ORG_ID is declared").  append looks at the declaration only when it makes a
\* queue or adopts an old one.
DeclaredOrgKept ==
  \A x \in posted :
    x[1] \in Record /\ born[x[1]].org # NoOrg => x[2] = born[x[1]].org

\* A queue is delivered, through a sibling if need be, once some file on the allow
\* list keeps producing its identity and its pinned file is silent or agrees
\* (resolve_credentials and repoint).
Reaches(q, c) ==
  /\ c \in allow
  /\ file[c] # NoFile
  /\ file[c].origin = queue[q].origin
  /\ file[c].key = queue[q].key

Deliverable(q) ==
  /\ queue[q] # NoQueue
  /\ queue[q].path \in allow
  /\ Serves(queue[q].path, queue[q].origin) => Reaches(q, queue[q].path)
  /\ \E c \in Checkout : Reaches(q, c)
  /\ queue[q].key \in Key => queue[q].org \in {NoOrg, OrgOf[queue[q].key]}

SiblingDelivers ==
  \A q \in Name : <>[]Deliverable(q) => []<>(waiting[q] = {})
=============================================================================
