-------------------------- MODULE RouteIdentityProofs --------------------------
(***************************************************************************)
(* Proofs about RouteIdentity, for every set of checkouts, destinations,   *)
(* keys, organizations and old queues:                                     *)
(*   KeysStayHome      a key only travels to the origin its file names     *)
(*   IdentitiesApart   lines of two identities never share a queue         *)
(*   OneOrganization   a queue is delivered to one organization, if no     *)
(*                     file is edited during a drain and pin_org succeeds  *)
(***************************************************************************)
EXTENDS RouteIdentity, TLAPS

\* Neither of the two windows is open.
SafeWindows == Windows = {}

\* What a file or a route.json holds, field by field.
LEMMA DestFields ==
  ASSUME NEW d \in Dest
  PROVE  d.origin \in Origin /\ d.key \in Key /\ d.org \in Org \cup {NoOrg} /\ d # NoFile
BY RouteAssumption DEF Destination

LEMMA MetaFields ==
  ASSUME NEW m \in Metadata
  PROVE  /\ m.origin \in Origin
         /\ m.key \in Key \cup {NoKey}
         /\ m.org \in Org \cup {NoOrg}
         /\ m.path \in Checkout
         /\ m # NoQueue
BY RouteAssumption DEF Metadata

\* A key comes from a file that names the origin of the lane.
LEMMA CredentialFields ==
  ASSUME TypeOK, NEW q \in lanes, NEW c \in Credentials(q)
  PROVE  /\ c.path \in Checkout
         /\ file[c.path] \in Dest
         /\ file[c.path].origin = seen[q].origin
         /\ c.key = file[c.path].key
         /\ c.key \in Key
         /\ OrgOf[c.key] \in Org
<1>1. seen[q] \in Metadata
  BY DEF TypeOK
<1>2. PICK p \in Checkout : /\ c = [key |-> file[p].key, path |-> p]
                            /\ Serves(p, seen[q].origin)
  <2>1. seen[q].path \in Checkout
    BY <1>1, MetaFields
  <2>2. \A x \in candidates : x.path \in Checkout
    BY DEF TypeOK
  <2>. QED
    BY <2>1, <2>2 DEF Credentials
<1>3. file[p] \in Dest /\ file[p].origin = seen[q].origin
  BY <1>2 DEF Serves, TypeOK
<1>4. file[p].key \in Key
  BY <1>3, DestFields
<1>. QED
  BY <1>2, <1>3, <1>4, RouteAssumption

\* A lane is served with one key.
LEMMA OneKey ==
  ASSUME TypeOK, OneCandidate, NEW q \in lanes, NEW c \in Credentials(q), NEW d \in Credentials(q)
  PROVE  c.key = d.key
<1>1. CASE Serves(seen[q].path, seen[q].origin)
  BY <1>1 DEF Credentials
<1>2. CASE ~Serves(seen[q].path, seen[q].origin)
  <2>1. PICK x \in candidates : /\ x.origin = seen[q].origin /\ x.key = seen[q].key
                                /\ c = [key |-> file[x.path].key, path |-> x.path]
    BY <1>2 DEF Credentials
  <2>2. PICK y \in candidates : /\ y.origin = seen[q].origin /\ y.key = seen[q].key
                                /\ d = [key |-> file[y.path].key, path |-> y.path]
    BY <1>2 DEF Credentials
  <2>3. x = y
    BY <2>1, <2>2 DEF OneCandidate
  <2>. QED
    BY <2>1, <2>2, <2>3
<1>. QED
  BY <1>1, <1>2

\* repoint and pin_org change the path and the organization of one queue.
LEMMA RecordedEffect ==
  ASSUME TypeOK, NEW q \in lanes, NEW c \in Credentials(q), NEW pin \in BOOLEAN,
         Recorded(q, c, pin)
  PROVE  /\ queue' \in [Name -> Metadata \cup {NoQueue}]
         /\ \A p \in Name : p # q => queue'[p] = queue[p]
         /\ queue[q] # NoQueue /\ queue'[q] # NoQueue
         /\ queue'[q].origin = queue[q].origin
         /\ queue'[q].key = queue[q].key
         /\ queue'[q].org = (IF pin THEN OrgOf[c.key] ELSE queue[q].org)
<1>1. q \in Name /\ queue \in [Name -> Metadata \cup {NoQueue}] /\ queue[q] \in Metadata
  BY DEF TypeOK
<1>2. c.path \in Checkout /\ OrgOf[c.key] \in Org
  BY CredentialFields
<1>. DEFINE path == IF c.path = seen[q].path THEN queue[q].path ELSE c.path
            org  == IF pin THEN OrgOf[c.key] ELSE queue[q].org
            m    == [queue[q] EXCEPT !.path = path, !.org = org]
<1>3. path \in Checkout /\ org \in Org \cup {NoOrg}
  BY <1>1, <1>2, MetaFields
<1>4. m \in Metadata
  BY <1>1, <1>3 DEF Metadata
<1>5. m.origin = queue[q].origin /\ m.key = queue[q].key /\ m.org = org
  BY <1>1 DEF Metadata
<1>6. queue' = [queue EXCEPT ![q] = m]
  BY <1>1 DEF Recorded
<1>. HIDE DEF m
<1>. QED
  BY <1>1, <1>4, <1>5, <1>6, MetaFields

-----------------------------------------------------------------------------
(* Types *)

\* The part of an append that does not depend on the queue it finds.
LEMMA EnqueueType ==
  ASSUME TypeOK, NEW r \in Record, NEW q \in Name, NEW c \in Checkout, Enqueue(r, q, c)
  PROVE  /\ file[c] \in Dest
         /\ file' = file /\ allow' \subseteq Checkout /\ edits' \in 0..MaxEdits
         /\ waiting' \in [Name -> SUBSET Line]
         /\ draining' \in BOOLEAN
         /\ lanes' = lanes /\ seen' = seen
         /\ candidates' \subseteq [path : Checkout, origin : Origin, key : Key]
         /\ born' \in [Record -> Dest \cup {NoFile}]
         /\ into' \in [Record -> Name \cup {NoQueue}]
         /\ posted' \subseteq Line \X Org
         /\ shown' \subseteq Origin \X Key
<1>1. file[c] \in Dest
  BY DEF TypeOK, Enqueue
<1>2. waiting' \in [Name -> SUBSET Line]
  BY DEF TypeOK, Enqueue, Line
<1>. QED
  BY <1>1, <1>2 DEF TypeOK, Enqueue, files, drain, wire

\* The part of a turn that posts.
LEMMA GiveType ==
  ASSUME TypeOK, NEW q \in Name, NEW B \in SUBSET waiting[q], Give(q, B)
  PROVE  /\ queue' \in [Name -> Metadata \cup {NoQueue}]
         /\ \A p \in lanes : queue'[p] # NoQueue
         /\ posted' \subseteq Line \X Org
         /\ shown' \subseteq Origin \X Key
<1>1. PICK c \in Credentials(q), pin \in BOOLEAN :
        /\ Recorded(q, c, pin)
        /\ Present(q, c)
        /\ posted' = posted \cup (B \X {OrgOf[c.key]})
  BY DEF Give
<1>2. q \in lanes
  BY DEF Give
<1>3. c.key \in Key /\ OrgOf[c.key] \in Org
  BY <1>2, CredentialFields
<1>4. seen[q].origin \in Origin
  BY <1>2, MetaFields DEF TypeOK
<1>5. B \subseteq Line
  BY DEF TypeOK
<1>6. /\ queue' \in [Name -> Metadata \cup {NoQueue}]
      /\ \A p \in Name : p # q => queue'[p] = queue[p]
      /\ queue'[q] # NoQueue
  BY <1>1, <1>2, RecordedEffect
<1>7. \A p \in lanes : queue'[p] # NoQueue
  BY <1>6 DEF TypeOK
<1>8. posted' \subseteq Line \X Org
  BY <1>1, <1>3, <1>5 DEF TypeOK
<1>9. shown' \subseteq Origin \X Key
  BY <1>1, <1>3, <1>4 DEF TypeOK, Present
<1>. QED
  BY <1>6, <1>7, <1>8, <1>9

\* The initial states have the types.
LEMMA InitType == Init => TypeOK
<1>. SUFFICES ASSUME Init PROVE TypeOK
  OBVIOUS
<1>1. queue \in [Name -> Metadata \cup {NoQueue}]
  BY RouteAssumption DEF Init, Metadata, Name
<1>2. waiting \in [Name -> SUBSET Line]
  BY DEF Init, Line
<1>3. file \in [Checkout -> Dest \cup {NoFile}] /\ allow \subseteq Checkout
  BY DEF Init
<1>4. 0 \in 0..MaxEdits
  BY RouteAssumption
<1>5. /\ draining \in BOOLEAN /\ lanes = {} /\ candidates = {} /\ posted = {} /\ shown = {}
      /\ edits \in 0..MaxEdits
  BY <1>4 DEF Init
<1>6. seen \in [Name -> Metadata \cup {NoQueue}]
  BY DEF Init
<1>7. /\ born \in [Record -> Dest \cup {NoFile}]
      /\ into \in [Record -> Name \cup {NoQueue}]
  BY DEF Init
<1>. QED
  BY <1>1, <1>2, <1>3, <1>5, <1>6, <1>7 DEF TypeOK

\* Each step keeps the types.
LEMMA NextType == TypeOK /\ [Next]_vars => TypeOK'
<1>. SUFFICES ASSUME TypeOK, [Next]_vars PROVE TypeOK'
  OBVIOUS
<1>1. ASSUME NEW c \in Checkout, NEW d \in Dest \cup {NoFile}, EditFile(c, d)
      PROVE  TypeOK'
  BY <1>1, RouteAssumption DEF EditFile, TypeOK, drain, history, wire
<1>2. ASSUME NEW A \in SUBSET Checkout, Configure(A)
      PROVE  TypeOK'
  BY <1>2, RouteAssumption DEF Configure, TypeOK, drain, history, wire
<1>3. ASSUME NEW r \in Record, NEW c \in Checkout, AppendFresh(r, c)
      PROVE  TypeOK'
  <2>. DEFINE d == file[c]
              q == <<d.origin, d.key>>
              m == [origin |-> d.origin, key |-> d.key, org |-> d.org, path |-> c]
  <2>1. file[c] \in Dest
    BY <1>3 DEF AppendFresh, Enqueue, TypeOK
  <2>2. q \in Name /\ m \in Metadata
    BY <2>1, DestFields DEF Name, Metadata
  <2>3. queue' = [queue EXCEPT ![q] = m]
    BY <1>3 DEF AppendFresh
  <2>. HIDE DEF m
  <2>4. queue' \in [Name -> Metadata \cup {NoQueue}] /\ \A p \in lanes : queue'[p] # NoQueue
    BY <2>2, <2>3, MetaFields DEF TypeOK
  <2>5. Enqueue(r, q, c)
    BY <1>3 DEF AppendFresh
  <2>. QED
    BY <2>2, <2>4, <2>5, EnqueueType DEF TypeOK
<1>4. ASSUME NEW r \in Record, NEW c \in Checkout, NEW q \in Name, AppendMatched(r, q, c)
      PROVE  TypeOK'
  <2>1. file[c] \in Dest /\ queue[q] \in Metadata
    BY <1>4 DEF AppendMatched, Enqueue, Matching, TypeOK
  <2>. DEFINE m == [queue[q] EXCEPT !.key = file[c].key]
  <2>2. m \in Metadata
    BY <2>1, DestFields DEF Metadata
  <2>3. queue' = [queue EXCEPT ![q] = m]
    BY <1>4 DEF AppendMatched
  <2>. HIDE DEF m
  <2>4. queue' \in [Name -> Metadata \cup {NoQueue}] /\ \A p \in lanes : queue'[p] # NoQueue
    BY <2>2, <2>3, MetaFields DEF TypeOK
  <2>5. Enqueue(r, q, c)
    BY <1>4 DEF AppendMatched
  <2>. QED
    BY <2>4, <2>5, EnqueueType DEF TypeOK
<1>5. ASSUME StartDrain
      PROVE  TypeOK'
  BY <1>5 DEF StartDrain, TypeOK, files, history, wire
<1>6. ASSUME NEW q \in Name, NoCredentials(q) \/ Emptied(q)
      PROVE  TypeOK'
  BY <1>6 DEF NoCredentials, Emptied, Close, TypeOK, files, history, wire
<1>7. ASSUME NEW q \in Name, Refused(q)
      PROVE  TypeOK'
  <2>1. PICK c \in Credentials(q) : Recorded(q, c, FALSE) /\ Present(q, c)
    BY <1>7 DEF Refused
  <2>2. q \in lanes
    BY <1>7 DEF Refused
  <2>3. /\ queue' \in [Name -> Metadata \cup {NoQueue}]
        /\ \A p \in Name : p # q => queue'[p] = queue[p]
        /\ queue'[q] # NoQueue
    BY <2>1, <2>2, RecordedEffect
  <2>4. \A p \in lanes : queue'[p] # NoQueue
    BY <2>3 DEF TypeOK
  <2>5. shown' \subseteq Origin \X Key
    <3>1. c.key \in Key /\ seen[q].origin \in Origin
      BY <2>2, CredentialFields, MetaFields DEF TypeOK
    <3>. QED
      BY <2>1, <3>1 DEF Present, TypeOK
  <2>. QED
    BY <1>7, <2>3, <2>4, <2>5 DEF Refused, Close, TypeOK, files, history
<1>8. ASSUME NEW q \in Name, NEW B \in SUBSET waiting[q], Deliver(q, B)
      PROVE  TypeOK'
  <2>1. Give(q, B)
    BY <1>8 DEF Deliver
  <2>2. waiting' \in [Name -> SUBSET Line]
    BY <1>8 DEF Deliver, TypeOK
  <2>. QED
    BY <1>8, <2>1, <2>2, GiveType DEF Deliver, TypeOK, files, drain, history
<1>9. ASSUME NEW q \in Name, NEW B \in SUBSET waiting[q], Unheard(q, B)
      PROVE  TypeOK'
  <2>1. Give(q, B)
    BY <1>9 DEF Unheard
  <2>. QED
    BY <1>9, <2>1, GiveType DEF Unheard, Close, TypeOK, files, history
<1>10. ASSUME EndDrain
       PROVE  TypeOK'
  BY <1>10 DEF EndDrain, TypeOK, files, history, wire
<1>11. ASSUME UNCHANGED vars
       PROVE  TypeOK'
  BY <1>11 DEF vars, TypeOK
<1>. QED
  BY <1>1, <1>2, <1>3, <1>4, <1>5, <1>6, <1>7, <1>8, <1>9, <1>10, <1>11 DEF Next, Turn

\* Every variable keeps its type.
THEOREM RouteTypeCorrect == Spec => []TypeOK
BY InitType, NextType, PTL DEF Spec

-----------------------------------------------------------------------------
(* A key only travels to the origin its file names *)

\* The pair a turn adds to shown comes from one file.
LEMMA PresentAtHome ==
  ASSUME TypeOK, NEW q \in lanes, NEW c \in Credentials(q), Present(q, c),
         NEW p \in shown' \ shown
  PROVE  \E f \in Checkout : file[f] # NoFile /\ p = <<file[f].origin, file[f].key>>
<1>1. /\ c.path \in Checkout
      /\ file[c.path] \in Dest
      /\ file[c.path].origin = seen[q].origin
      /\ c.key = file[c.path].key
  BY CredentialFields
<1>2. p = <<seen[q].origin, c.key>>
  BY DEF Present
<1>. QED
  BY <1>1, <1>2, DestFields

\* Files may be edited at any time, siblings may stand in, and queues may be adopted:
\* the key of one customer is never sent to the origin of another.
THEOREM KeysStayHome == Spec => KeyStaysHome
<1>. DEFINE Home == \A p \in shown' \ shown :
                      \E c \in Checkout : file[c] # NoFile /\ p = <<file[c].origin, file[c].key>>
<1>1. ASSUME TypeOK, [Next]_vars
      PROVE  Home
  <2>1. CASE shown' = shown
    BY <2>1
  <2>2. ASSUME NEW q \in Name, NEW B \in SUBSET waiting[q], Give(q, B)
        PROVE  Home
    BY <1>1, <2>2, PresentAtHome DEF Give
  <2>3. ASSUME NEW q \in Name, Refused(q)
        PROVE  Home
    BY <1>1, <2>3, PresentAtHome DEF Refused
  <2>. HIDE DEF Home
  <2>4. ASSUME NEW q \in Name, Turn(q)
        PROVE  Home
    BY <2>1, <2>2, <2>3, <2>4 DEF Turn, NoCredentials, Emptied, Deliver, Unheard, wire
  <2>5. ASSUME Next, \A q \in Name : ~Turn(q)
        PROVE  shown' = shown
    BY <2>5 DEF Next, EditFile, Configure, AppendFresh, AppendMatched, Enqueue, StartDrain, EndDrain, wire
  <2>6. ASSUME UNCHANGED vars
        PROVE  shown' = shown
    BY <2>6 DEF vars
  <2>. QED
    BY <1>1, <2>1, <2>4, <2>5, <2>6
<1>2. TypeOK /\ [Next]_vars =>
      [\A p \in shown' \ shown :
         \E c \in Checkout : file[c] # NoFile /\ p = <<file[c].origin, file[c].key>>]_vars
  BY <1>1
<1>. QED
  BY <1>2, RouteTypeCorrect, PTL DEF Spec, KeyStaysHome

-----------------------------------------------------------------------------
(* Lines of two identities never share a queue *)

\* Nothing but a drain's turn or an append touches a queue, and only an append gives a
\* line its queue.
LEMMA QueueFrame ==
  ASSUME TypeOK, [Next]_vars
  PROVE  \/ \E r \in Record, c \in Checkout :
              AppendFresh(r, c) \/ \E q \in Name : AppendMatched(r, q, c)
         \/ /\ born' = born /\ into' = into
            /\ \A q \in Name : queue[q] # NoQueue =>
                 /\ queue'[q] # NoQueue
                 /\ queue'[q].origin = queue[q].origin
                 /\ queue'[q].key = queue[q].key
<1>. DEFINE Same == /\ born' = born /\ into' = into
                    /\ \A q \in Name : queue[q] # NoQueue =>
                         /\ queue'[q] # NoQueue
                         /\ queue'[q].origin = queue[q].origin
                         /\ queue'[q].key = queue[q].key
<1>1. ASSUME NEW q \in Name, NEW B \in SUBSET waiting[q], Deliver(q, B) \/ Unheard(q, B)
      PROVE  Same
  <2>1. Give(q, B) /\ born' = born /\ into' = into
    BY <1>1 DEF Deliver, Unheard, history
  <2>2. q \in lanes
    BY <2>1 DEF Give
  <2>3. PICK c \in Credentials(q), pin \in BOOLEAN : Recorded(q, c, pin)
    BY <2>1 DEF Give
  <2>. QED
    BY <2>1, <2>2, <2>3, RecordedEffect
<1>2. ASSUME NEW q \in Name, Refused(q)
      PROVE  Same
  <2>1. born' = born /\ into' = into /\ q \in lanes
    BY <1>2 DEF Refused, history
  <2>2. PICK c \in Credentials(q) : Recorded(q, c, FALSE)
    BY <1>2 DEF Refused
  <2>. QED
    BY <2>1, <2>2, RecordedEffect
<1>3. ASSUME queue' = queue, born' = born, into' = into
      PROVE  Same
  BY <1>3
<1>4. ASSUME NEW q \in Name, Turn(q)
      PROVE  Same
  <2>. HIDE DEF Same
  <2>. QED
    BY <1>1, <1>2, <1>3, <1>4 DEF Turn, NoCredentials, Emptied, history
<1>5. ASSUME UNCHANGED vars
      PROVE  Same
  BY <1>5, <1>3 DEF vars
<1>. HIDE DEF Same
<1>6. ASSUME NEW c \in Checkout, NEW d, EditFile(c, d)
      PROVE  Same
  BY <1>6, <1>3 DEF EditFile, history
<1>7. ASSUME NEW A, Configure(A)
      PROVE  Same
  BY <1>7, <1>3 DEF Configure, history
<1>8. ASSUME StartDrain \/ EndDrain
      PROVE  Same
  BY <1>8, <1>3 DEF StartDrain, EndDrain, history
<1>9. Same \/ \E r \in Record, c \in Checkout :
                AppendFresh(r, c) \/ \E q \in Name : AppendMatched(r, q, c)
  BY <1>4, <1>5, <1>6, <1>7, <1>8 DEF Next
<1>. QED
  BY <1>9 DEF Same

\* What an append does, whichever queue it finds.
LEMMA AppendEffect ==
  ASSUME TypeOK, NEW r \in Record, NEW q \in Name, NEW c \in Checkout,
         \/ AppendMatched(r, q, c)
         \/ AppendFresh(r, c) /\ q = <<file[c].origin, file[c].key>>
  PROVE  /\ born[r] = NoFile
         /\ file[c] \in Dest
         /\ born' = [born EXCEPT ![r] = file[c]]
         /\ into' = [into EXCEPT ![r] = q]
         /\ waiting' = [waiting EXCEPT ![q] = @ \cup {r}]
         /\ UNCHANGED <<files, drain, wire>>
         /\ ~draining
         /\ \A p \in Name : p # q => queue'[p] = queue[p]
         /\ queue'[q] # NoQueue
         /\ queue'[q].origin = file[c].origin
         /\ queue'[q].key = file[c].key
         /\ queue[q] # NoQueue =>
              /\ queue[q].origin = file[c].origin
              /\ queue[q].key \in {NoKey, file[c].key}
              /\ queue'[q].org = queue[q].org
<1>1. Enqueue(r, q, c)
  BY DEF AppendMatched, AppendFresh
<1>2. file[c] \in Dest
  BY <1>1 DEF Enqueue, TypeOK
<1>3. /\ born[r] = NoFile
      /\ born' = [born EXCEPT ![r] = file[c]]
      /\ into' = [into EXCEPT ![r] = q]
      /\ waiting' = [waiting EXCEPT ![q] = @ \cup {r}]
      /\ UNCHANGED <<files, drain, wire>>
      /\ ~draining
  BY <1>1 DEF Enqueue
<1>4. queue \in [Name -> Metadata \cup {NoQueue}]
  BY DEF TypeOK
<1>5. CASE AppendMatched(r, q, c)
  <2>. DEFINE m == [queue[q] EXCEPT !.key = file[c].key]
  <2>1. queue[q] \in Metadata /\ QueueMatches(queue[q], file[c])
    BY <1>4, <1>5 DEF AppendMatched, Matching
  <2>2. queue' = [queue EXCEPT ![q] = m]
    BY <1>5 DEF AppendMatched
  <2>3. m \in Metadata
    BY <1>2, <2>1, DestFields DEF Metadata
  <2>4. m.origin = queue[q].origin /\ m.key = file[c].key /\ m.org = queue[q].org
    BY <2>1 DEF Metadata
  <2>5. queue[q].origin = file[c].origin /\ queue[q].key \in {NoKey, file[c].key}
    BY <2>1 DEF QueueMatches
  <2>. HIDE DEF m
  <2>6. queue'[q] = m /\ \A p \in Name : p # q => queue'[p] = queue[p]
    BY <1>4, <2>2
  <2>. QED
    BY <1>2, <1>3, <2>3, <2>4, <2>5, <2>6, MetaFields
<1>6. CASE AppendFresh(r, c) /\ q = <<file[c].origin, file[c].key>>
  <2>. DEFINE m == [origin |-> file[c].origin, key |-> file[c].key, org |-> file[c].org, path |-> c]
  <2>1. queue[q] = NoQueue /\ queue' = [queue EXCEPT ![q] = m]
    BY <1>6 DEF AppendFresh
  <2>2. m \in Metadata /\ m.origin = file[c].origin /\ m.key = file[c].key
    BY <1>2, DestFields DEF Metadata
  <2>. HIDE DEF m
  <2>3. queue'[q] = m /\ \A p \in Name : p # q => queue'[p] = queue[p]
    BY <1>4, <2>1
  <2>. QED
    BY <1>2, <1>3, <2>1, <2>2, <2>3, MetaFields
<1>. QED
  BY <1>5, <1>6

\* AppendFresh names its queue.
LEMMA FreshName ==
  ASSUME TypeOK, NEW r \in Record, NEW c \in Checkout, AppendFresh(r, c)
  PROVE  <<file[c].origin, file[c].key>> \in Name
<1>1. file[c] \in Dest
  BY DEF AppendFresh, Enqueue, TypeOK
<1>. QED
  BY <1>1, DestFields DEF Name

\* Each step keeps the recorded identities.
LEMMA IdentityStep == TypeOK /\ IdentityInv /\ [Next]_vars => IdentityInv'
<1>. SUFFICES ASSUME TypeOK, IdentityInv, [Next]_vars PROVE IdentityInv'
  OBVIOUS
<1>1. ASSUME NEW r \in Record, NEW q \in Name, NEW c \in Checkout,
             \/ AppendMatched(r, q, c)
             \/ AppendFresh(r, c) /\ q = <<file[c].origin, file[c].key>>
      PROVE  IdentityInv'
  <2>. SUFFICES ASSUME NEW s \in Record
                PROVE  \/ born'[s] = NoFile /\ into'[s] = NoQueue
                       \/ /\ born'[s] \in Dest
                          /\ into'[s] \in Name
                          /\ queue'[into'[s]] # NoQueue
                          /\ queue'[into'[s]].origin = born'[s].origin
                          /\ queue'[into'[s]].key = born'[s].key
    BY DEF IdentityInv
  <2>1. /\ file[c] \in Dest
        /\ born' = [born EXCEPT ![r] = file[c]]
        /\ into' = [into EXCEPT ![r] = q]
        /\ \A p \in Name : p # q => queue'[p] = queue[p]
        /\ queue'[q] # NoQueue
        /\ queue'[q].origin = file[c].origin
        /\ queue'[q].key = file[c].key
        /\ queue[q] # NoQueue =>
              /\ queue[q].origin = file[c].origin
              /\ queue[q].key \in {NoKey, file[c].key}
    BY <1>1, AppendEffect
  <2>2. born \in [Record -> Dest \cup {NoFile}] /\ into \in [Record -> Name \cup {NoQueue}]
    BY DEF TypeOK
  <2>3. CASE s = r
    <3>1. born'[s] = file[c] /\ into'[s] = q
      BY <2>1, <2>2, <2>3
    <3>. QED
      BY <2>1, <3>1
  <2>4. CASE s # r
    <3>1. born'[s] = born[s] /\ into'[s] = into[s]
      BY <2>1, <2>2, <2>4
    <3>2. CASE born[s] = NoFile /\ into[s] = NoQueue
      BY <3>1, <3>2
    <3>3. CASE /\ born[s] \in Dest
               /\ into[s] \in Name
               /\ queue[into[s]] # NoQueue
               /\ queue[into[s]].origin = born[s].origin
               /\ queue[into[s]].key = born[s].key
      <4>1. CASE into[s] = q
        <5>1. born[s].key # NoKey
          BY <3>3, DestFields, RouteAssumption
        <5>. QED
          BY <2>1, <3>1, <3>3, <4>1, <5>1
      <4>2. CASE into[s] # q
        BY <2>1, <3>1, <3>3, <4>2
      <4>. QED
        BY <4>1, <4>2
    <3>. QED
      BY <3>2, <3>3 DEF IdentityInv
  <2>. QED
    BY <2>3, <2>4
<1>2. CASE /\ born' = born /\ into' = into
           /\ \A q \in Name : queue[q] # NoQueue =>
                /\ queue'[q] # NoQueue
                /\ queue'[q].origin = queue[q].origin
                /\ queue'[q].key = queue[q].key
  BY <1>2 DEF IdentityInv
<1>. QED
  BY <1>1, <1>2, QueueFrame, FreshName

\* route.json holds the identity of every line captured into its queue.
THEOREM RecordedIdentity == Spec => []IdentityInv
<1>1. Init => IdentityInv
  BY DEF Init, IdentityInv
<1>. QED
  BY <1>1, IdentityStep, RouteTypeCorrect, PTL DEF Spec

\* Whatever is edited and whenever, adopted or fresh, lines of two identities are never
\* in one queue.
THEOREM IdentitiesApart == Spec => []QueuesApart
<1>1. IdentityInv => QueuesApart
  <2>1. NoQueue \notin Name
    BY RouteAssumption
  <2>. QED
    BY <2>1 DEF IdentityInv, QueuesApart
<1>. QED
  BY <1>1, RecordedIdentity, PTL

-----------------------------------------------------------------------------
(* A queue is delivered to one organization *)

\* A line that was not captured yet is in no queue and was given to nobody.
LEMMA UnbornNowhere ==
  ASSUME IdentityInv, WaitingAtHome, PostedAsBound, NEW r \in Record, born[r] = NoFile
  PROVE  /\ \A q \in Name : r \notin waiting[q]
         /\ \A x \in posted : x[1] # r
<1>1. NoFile \notin Dest /\ NoQueue \notin Name /\ r \notin Old
  BY RouteAssumption
<1>2. QueueOf(r) = NoQueue
  BY <1>1 DEF IdentityInv, QueueOf
<1>. QED
  BY <1>1, <1>2 DEF WaitingAtHome, PostedAsBound

\* An append moves no other line and binds no other organization.
LEMMA AppendKeepsOrg ==
  ASSUME TypeOK, IdentityInv, OrgInv, NEW r \in Record, NEW q \in Name, NEW c \in Checkout,
         \/ AppendMatched(r, q, c)
         \/ AppendFresh(r, c) /\ q = <<file[c].origin, file[c].key>>
  PROVE  OrgInv'
<1>1. /\ born[r] = NoFile
      /\ into' = [into EXCEPT ![r] = q]
      /\ waiting' = [waiting EXCEPT ![q] = @ \cup {r}]
      /\ posted' = posted /\ lanes' = lanes /\ draining' = draining /\ candidates' = candidates
      /\ ~draining
      /\ \A p \in Name : p # q => queue'[p] = queue[p]
      /\ queue'[q] # NoQueue
      /\ queue[q] # NoQueue => queue'[q].org = queue[q].org
  BY AppendEffect DEF drain, wire
<1>2. /\ \A p \in Name : r \notin waiting[p]
      /\ \A x \in posted : x[1] # r
  BY <1>1, UnbornNowhere DEF OrgInv
<1>3. QueueOf(r)' = q /\ \A l \in Line : l # r => QueueOf(l)' = QueueOf(l)
  <2>1. r \notin Old /\ into \in [Record -> Name \cup {NoQueue}]
    BY RouteAssumption DEF TypeOK
  <2>. QED
    BY <1>1, <2>1 DEF QueueOf, Line
<1>4. WaitingAtHome'
  <2>. SUFFICES ASSUME NEW p \in Name, NEW l \in waiting'[p]
                PROVE  QueueOf(l)' = p /\ queue'[p] # NoQueue
    BY DEF WaitingAtHome
  <2>1. waiting \in [Name -> SUBSET Line]
    BY DEF TypeOK
  <2>2. CASE l = r
    <3>1. p = q
      BY <1>1, <1>2, <2>1, <2>2
    <3>. QED
      BY <1>1, <1>3, <2>2, <3>1
  <2>3. CASE l # r
    <3>1. l \in waiting[p] /\ l \in Line
      BY <1>1, <2>1, <2>3
    <3>2. QueueOf(l) = p /\ queue[p] # NoQueue
      BY <3>1 DEF OrgInv, WaitingAtHome
    <3>. QED
      BY <1>1, <1>3, <2>3, <3>1, <3>2
  <2>. QED
    BY <2>2, <2>3
<1>5. PostedAsBound'
  <2>. SUFFICES ASSUME NEW x \in posted
                PROVE  /\ QueueOf(x[1])' \in Name
                       /\ queue'[QueueOf(x[1])'] # NoQueue
                       /\ queue'[QueueOf(x[1])'].org = x[2]
    BY <1>1 DEF PostedAsBound
  <2>1. /\ QueueOf(x[1]) \in Name
        /\ queue[QueueOf(x[1])] # NoQueue
        /\ queue[QueueOf(x[1])].org = x[2]
    BY DEF OrgInv, PostedAsBound
  <2>2. x[1] \in Line /\ x[1] # r
    BY <1>2 DEF TypeOK
  <2>3. QueueOf(x[1])' = QueueOf(x[1])
    BY <1>3, <2>2
  <2>. QED
    BY <1>1, <2>1, <2>3
<1>6. OneCandidate' /\ LanesAgree'
  BY <1>1 DEF OrgInv, OneCandidate, LanesAgree
<1>. QED
  BY <1>4, <1>5, <1>6 DEF OrgInv

\* What a drain chose its keys from does not change under it.
LEMMA SameCredentials ==
  ASSUME file' = file, seen' = seen, candidates' = candidates
  PROVE  \A q \in Name : Credentials(q)' = Credentials(q)
BY DEF Credentials, Serves

\* A step that leaves every queue's organization alone, and the lines where they are.
LEMMA OrgFrame ==
  ASSUME TypeOK, OrgInv, file' = file, seen' = seen, candidates' = candidates,
         into' = into, posted' = posted,
         \A q \in Name : waiting'[q] \subseteq waiting[q],
         \A q \in Name : queue[q] # NoQueue =>
           queue'[q] # NoQueue /\ queue'[q].org = queue[q].org,
         lanes' \subseteq lanes, ~draining' => lanes' = {}
  PROVE  OrgInv'
<1>1. \A l : QueueOf(l)' = QueueOf(l)
  BY DEF QueueOf
<1>2. WaitingAtHome' /\ PostedAsBound'
  BY <1>1 DEF OrgInv, WaitingAtHome, PostedAsBound
<1>3. OneCandidate'
  BY DEF OrgInv, OneCandidate
<1>4. \A q \in lanes : queue[q] # NoQueue /\ q \in Name
  BY DEF TypeOK
<1>5. LanesAgree'
  BY <1>4, SameCredentials DEF OrgInv, LanesAgree, LaneAgrees
<1>. QED
  BY <1>2, <1>3, <1>5 DEF OrgInv

\* A lane gives a batch to the organization its queue is bound to, or binds it.
LEMMA GiveKeepsOrg ==
  ASSUME SafeWindows, TypeOK, OrgInv, NEW q \in Name, NEW B \in SUBSET waiting[q], Give(q, B),
         file' = file, seen' = seen, candidates' = candidates, into' = into,
         \A p \in Name : waiting'[p] \subseteq waiting[p],
         lanes' \subseteq lanes, draining' = draining
  PROVE  OrgInv'
<1>1. q \in lanes /\ draining
  BY DEF Give, OrgInv, LanesAgree
<1>2. PICK c \in Credentials(q), pin \in BOOLEAN :
        /\ Agrees(q, OrgOf[c.key])
        /\ pin <=> seen[q].org = NoOrg
        /\ Recorded(q, c, pin)
        /\ posted' = posted \cup (B \X {OrgOf[c.key]})
  BY DEF Give, SafeWindows
<1>. DEFINE org == OrgOf[c.key]
<1>3. org \in Org /\ NoOrg \notin Org
  BY <1>1, <1>2, CredentialFields, RouteAssumption
<1>4. /\ \A p \in Name : p # q => queue'[p] = queue[p]
      /\ queue[q] # NoQueue /\ queue'[q] # NoQueue
      /\ queue'[q].org = (IF pin THEN org ELSE queue[q].org)
  BY <1>1, <1>2, RecordedEffect
<1>5. \A d \in Credentials(q) : OrgOf[d.key] = org
  BY <1>1, <1>2, OneKey DEF OrgInv
<1>. HIDE DEF org
<1>6. queue[q].org \in {NoOrg, org} /\ queue'[q].org = org
  <2>1. LaneAgrees(q)
    BY <1>1 DEF OrgInv, LanesAgree
  <2>2. CASE seen[q].org = NoOrg
    <3>1. queue[q].org = NoOrg \/ OrgOf[c.key] = queue[q].org
      BY <1>2, <2>1, <2>2 DEF LaneAgrees
    <3>. QED
      BY <1>2, <1>4, <2>2, <3>1 DEF org
  <2>3. CASE seen[q].org # NoOrg
    <3>1. seen[q].org = org /\ ~pin
      BY <1>2, <2>3 DEF Agrees, org
    <3>2. queue[q].org = seen[q].org
      BY <2>1, <2>3 DEF LaneAgrees
    <3>. QED
      BY <1>4, <3>1, <3>2
  <2>. QED
    BY <2>2, <2>3
<1>7. \A l : QueueOf(l)' = QueueOf(l)
  BY DEF QueueOf
<1>8. WaitingAtHome'
  BY <1>4, <1>7 DEF OrgInv, WaitingAtHome
<1>9. PostedAsBound'
  <2>. SUFFICES ASSUME NEW x \in posted'
                PROVE  /\ QueueOf(x[1]) \in Name
                       /\ queue'[QueueOf(x[1])] # NoQueue
                       /\ queue'[QueueOf(x[1])].org = x[2]
    BY <1>7 DEF PostedAsBound
  <2>1. CASE x \in posted
    <3>1. /\ QueueOf(x[1]) \in Name
          /\ queue[QueueOf(x[1])] # NoQueue
          /\ queue[QueueOf(x[1])].org = x[2]
      BY <2>1 DEF OrgInv, PostedAsBound
    <3>2. x[2] \in Org
      BY <2>1 DEF TypeOK
    <3>. QED
      BY <1>3, <1>4, <1>6, <3>1, <3>2
  <2>2. CASE x \in B \X {OrgOf[c.key]}
    <3>1. x[1] \in waiting[q] /\ x[2] = org
      BY <2>2 DEF org
    <3>2. QueueOf(x[1]) = q
      BY <3>1 DEF OrgInv, WaitingAtHome
    <3>. QED
      BY <1>4, <1>6, <3>1, <3>2
  <2>. QED
    BY <1>2, <2>1, <2>2
<1>10. OneCandidate'
  BY DEF OrgInv, OneCandidate
<1>11. LanesAgree'
  <2>. SUFFICES ASSUME NEW p \in lanes'
                PROVE  LaneAgrees(p)'
    BY <1>1 DEF LanesAgree
  <2>1. p \in Name /\ LaneAgrees(p) /\ Credentials(p)' = Credentials(p)
    BY SameCredentials DEF OrgInv, LanesAgree, TypeOK
  <2>2. CASE p # q
    BY <1>4, <2>1, <2>2 DEF LaneAgrees
  <2>3. CASE p = q
    <3>1. CASE seen[q].org = NoOrg
      BY <1>5, <1>6, <2>1, <2>3, <3>1 DEF LaneAgrees
    <3>2. CASE seen[q].org # NoOrg
      BY <1>2, <1>4, <2>1, <2>3, <3>2 DEF LaneAgrees
    <3>. QED
      BY <3>1, <3>2
  <2>. QED
    BY <2>2, <2>3
<1>. QED
  BY <1>8, <1>9, <1>10, <1>11 DEF OrgInv

\* Each step keeps what was posted and what is bound together.
LEMMA OrgStep ==
  ASSUME SafeWindows
  PROVE  TypeOK /\ IdentityInv /\ OrgInv /\ [Next]_vars => OrgInv'
<1>. SUFFICES ASSUME TypeOK, IdentityInv, OrgInv, [Next]_vars PROVE OrgInv'
  OBVIOUS
<1>1. ASSUME NEW c \in Checkout, NEW d \in Dest \cup {NoFile}, EditFile(c, d)
      PROVE  OrgInv'
  <2>1. /\ ~draining /\ lanes = {}
        /\ UNCHANGED <<queue, waiting, draining, lanes, candidates, into, posted>>
    BY <1>1 DEF EditFile, SafeWindows, OrgInv, LanesAgree, drain, history, wire
  <2>. QED
    BY <2>1 DEF OrgInv, WaitingAtHome, PostedAsBound, OneCandidate, LanesAgree, QueueOf
<1>2. ASSUME NEW A \in SUBSET Checkout, Configure(A)
      PROVE  OrgInv'
  <2>1. /\ UNCHANGED <<file, queue, waiting, draining, lanes, seen, candidates, into, posted>>
    BY <1>2 DEF Configure, drain, history, wire
  <2>. QED
    BY <2>1, OrgFrame DEF OrgInv, LanesAgree
<1>3. ASSUME NEW r \in Record, NEW c \in Checkout, AppendFresh(r, c)
      PROVE  OrgInv'
  BY <1>3, FreshName, AppendKeepsOrg
<1>4. ASSUME NEW r \in Record, NEW c \in Checkout, NEW q \in Name, AppendMatched(r, q, c)
      PROVE  OrgInv'
  BY <1>4, AppendKeepsOrg
<1>5. ASSUME StartDrain
      PROVE  OrgInv'
  <2>1. /\ draining' = TRUE /\ seen' = queue
        /\ Discovered(candidates')
        /\ UNCHANGED <<queue, waiting, into, posted>>
    BY <1>5 DEF StartDrain, history, wire
  <2>2. OneCandidate'
    BY <2>1 DEF OneCandidate, Discovered
  <2>3. LanesAgree'
    BY <2>1 DEF LanesAgree, LaneAgrees
  <2>4. WaitingAtHome' /\ PostedAsBound'
    BY <2>1 DEF OrgInv, WaitingAtHome, PostedAsBound, QueueOf
  <2>. QED
    BY <2>2, <2>3, <2>4 DEF OrgInv
<1>6. ASSUME NEW q \in Name, NoCredentials(q) \/ Emptied(q)
      PROVE  OrgInv'
  <2>1. /\ UNCHANGED <<file, queue, waiting, draining, seen, candidates, into, posted>>
        /\ lanes' \subseteq lanes /\ draining
    BY <1>6 DEF NoCredentials, Emptied, Close, files, history, wire, OrgInv, LanesAgree
  <2>. QED
    BY <2>1, OrgFrame
<1>7. ASSUME NEW q \in Name, Refused(q)
      PROVE  OrgInv'
  <2>1. /\ UNCHANGED <<file, waiting, draining, seen, candidates, into, posted>>
        /\ lanes' \subseteq lanes /\ draining /\ q \in lanes
    BY <1>7 DEF Refused, Close, files, history, OrgInv, LanesAgree
  <2>2. PICK c \in Credentials(q) : Recorded(q, c, FALSE)
    BY <1>7 DEF Refused
  <2>3. \A p \in Name : queue[p] # NoQueue =>
          queue'[p] # NoQueue /\ queue'[p].org = queue[p].org
    BY <2>1, <2>2, RecordedEffect
  <2>. QED
    BY <2>1, <2>3, OrgFrame
<1>8. ASSUME NEW q \in Name, NEW B \in SUBSET waiting[q], Deliver(q, B)
      PROVE  OrgInv'
  <2>1. /\ Give(q, B)
        /\ UNCHANGED <<file, draining, lanes, seen, candidates, into>>
        /\ \A p \in Name : waiting'[p] \subseteq waiting[p]
    BY <1>8 DEF Deliver, files, drain, history, TypeOK
  <2>. QED
    BY <2>1, GiveKeepsOrg
<1>9. ASSUME NEW q \in Name, NEW B \in SUBSET waiting[q], Unheard(q, B)
      PROVE  OrgInv'
  <2>1. /\ Give(q, B)
        /\ UNCHANGED <<file, waiting, draining, seen, candidates, into>>
        /\ lanes' \subseteq lanes
    BY <1>9 DEF Unheard, Close, files, history
  <2>. QED
    BY <2>1, GiveKeepsOrg
<1>10. ASSUME EndDrain
       PROVE  OrgInv'
  <2>1. /\ UNCHANGED <<queue, waiting, into, posted>>
        /\ lanes' = {} /\ candidates' = {}
    BY <1>10 DEF EndDrain, history, wire
  <2>2. OneCandidate' /\ LanesAgree'
    BY <2>1 DEF OneCandidate, LanesAgree
  <2>3. WaitingAtHome' /\ PostedAsBound'
    BY <2>1 DEF OrgInv, WaitingAtHome, PostedAsBound, QueueOf
  <2>. QED
    BY <2>2, <2>3 DEF OrgInv
<1>11. ASSUME UNCHANGED vars
       PROVE  OrgInv'
  BY <1>11, OrgFrame DEF vars, OrgInv, LanesAgree
<1>. QED
  BY <1>1, <1>2, <1>3, <1>4, <1>5, <1>6, <1>7, <1>8, <1>9, <1>10, <1>11 DEF Next, Turn

\* At first old lines wait in their own queues.
LEMMA InitOrg == Init => OrgInv
<1>. SUFFICES ASSUME Init PROVE OrgInv
  OBVIOUS
<1>1. WaitingAtHome
  <2>. SUFFICES ASSUME NEW q \in Name, NEW l \in waiting[q]
                PROVE  QueueOf(l) = q /\ queue[q] # NoQueue
    BY DEF WaitingAtHome
  <2>1. l = q /\ q \in Old
    BY DEF Init
  <2>2. queue[q] = OldRoute[q]
    BY <2>1 DEF Init
  <2>3. OldRoute[q] \in Metadata
    BY <2>1, RouteAssumption DEF Metadata
  <2>. QED
    BY <2>1, <2>2, <2>3, RouteAssumption DEF QueueOf
<1>. QED
  BY <1>1 DEF Init, OrgInv, PostedAsBound, OneCandidate, LanesAgree

\* The inductive invariant: identities and organizations are recorded as they are used.
THEOREM RouteInvariant ==
  ASSUME SafeWindows
  PROVE  Spec => []RouteInv
<1>1. TypeOK /\ IdentityInv /\ OrgInv /\ [Next]_vars => OrgInv'
  BY SafeWindows, OrgStep
<1>. QED
  BY <1>1, InitOrg, RouteTypeCorrect, RecordedIdentity, PTL DEF Spec, RouteInv

\* With files left alone during a drain and pin_org succeeding, the records of a queue
\* are given to one organization for ever, whatever is edited between drains.
THEOREM OneOrganization ==
  ASSUME SafeWindows
  PROVE  Spec => []OneOrgPerQueue
<1>1. RouteInv => OneOrgPerQueue
  BY DEF RouteInv, OrgInv, PostedAsBound, OneOrgPerQueue
<1>2. Spec => []RouteInv
  BY SafeWindows, RouteInvariant
<1>. QED
  BY <1>1, <1>2, PTL
=============================================================================
