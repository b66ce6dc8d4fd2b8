----------------------------- MODULE DurableQueue -----------------------------
(***************************************************************************)
(* What a route's queue promises, without files or cursors: first in, first *)
(* out, at least once, nothing dropped.                                    *)
(*                                                                         *)
(* Requests carry a prefix of the queue.  Records leave from the front and *)
(* only once they were accepted or parked; they may come back to the front *)
(* (a crash before the cursor was written), to be delivered again.         *)
(***************************************************************************)
EXTENDS Integers, Sequences, Functions

CONSTANT Record

VARIABLES
  queue,      \* records waiting, oldest first
  durable,    \* records the queue has promised to keep
  sent,       \* records the endpoint has accepted
  parked,     \* records set aside as too big to send
  cleared     \* records the operator removed

vars == <<queue, durable, sent, parked, cleared>>

TypeOK ==
  /\ queue \in Seq(Record)
  /\ durable \subseteq Record
  /\ sent \subseteq Record
  /\ parked \subseteq Record
  /\ cleared \subseteq Record

Init ==
  /\ queue = <<>>
  /\ durable = {}
  /\ sent = {}
  /\ parked = {}
  /\ cleared = {}

Prefix(n) == SubSeq(queue, 1, n)
Suffix(n) == SubSeq(queue, n + 1, Len(queue))

Settled == sent \cup parked \cup cleared

Put(r) ==
  /\ queue' = Append(queue, r)
  /\ UNCHANGED <<durable, sent, parked, cleared>>

\* An append returns Ok.
Promise(S) ==
  /\ S \subseteq Settled \cup Range(queue)
  /\ durable' = durable \cup S
  /\ UNCHANGED <<queue, sent, parked, cleared>>

\* The endpoint takes the first n records, whether or not the answer arrives.
Accept(n) ==
  /\ sent' = sent \cup Range(Prefix(n))
  /\ UNCHANGED <<queue, durable, parked, cleared>>

Park ==
  /\ queue # <<>>
  /\ parked' = parked \cup {Head(queue)}
  /\ UNCHANGED <<queue, durable, sent, cleared>>

Forget(n) ==
  /\ Range(Prefix(n)) \subseteq sent \cup parked
  /\ queue' = Suffix(n)
  /\ UNCHANGED <<durable, sent, parked, cleared>>

\* n records that were already delivered are in front of the queue again.
Rewind(n) ==
  /\ Range(SubSeq(queue', 1, n)) \subseteq sent \cup parked
  /\ SubSeq(queue', n + 1, Len(queue')) = queue
  /\ UNCHANGED <<durable, sent, parked, cleared>>

Clear ==
  /\ queue' = <<>>
  /\ cleared' = cleared \cup Range(queue)
  /\ UNCHANGED <<durable, sent, parked>>

Next ==
  \/ \E r \in Record : Put(r)
  \/ \E S \in SUBSET Record : Promise(S)
  \/ \E n \in 1..Len(queue) : Accept(n) \/ Forget(n)
  \/ Park
  \/ queue' \in Seq(Record) /\ \E n \in 1..Len(queue') : Rewind(n)
  \/ Clear

Spec == Init /\ [][Next]_vars

\* What the operations amount to: a promised record is settled or still waits.
NothingDropped == durable \subseteq Settled \cup Range(queue)
=============================================================================
