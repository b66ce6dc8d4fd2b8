------------------------------ MODULE DrainRound ------------------------------
(***************************************************************************)
(* One drain: every route with records gets a lane, every cycle posts one  *)
(* batch per lane, all lanes at once, and waits for all of them (drain and *)
(* one_batch in src/src/main.rs, peek_batch's bounds in src/src/spool.rs). *)
(*                                                                         *)
(* A turn is one step here: what it does to the queue's files between two  *)
(* disk writes is module SpoolQueue.  Records are numbered from the front  *)
(* of their queue; end[r][i] is where record i ends, in bytes.             *)
(***************************************************************************)
EXTENDS Integers, FiniteSets

CONSTANTS
  Route,      \* the queues on the machine
  Label,      \* folder names: what a route's activity line is filed under
  LabelOf,    \* the folder name of a route's checkout
  NoRoute,    \* no lane has reported under a label
  Full,       \* PAYLOAD_BUDGET
  Floor,      \* MIN_PAYLOAD_BUDGET
  Batch,      \* cfg.batch
  Load,       \* where the records of a queue can end, in bytes
  Limit,      \* bytes an endpoint takes in one request
  MaxQueue    \* bound: records queued for a route

ASSUME DrainAssumption ==
  /\ LabelOf \in [Route -> Label]
  /\ NoRoute \notin Route
  /\ Floor \in Nat \ {0}
  /\ Full \in Nat /\ Floor <= Full
  /\ Batch \in Nat \ {0}
  /\ MaxQueue \in Nat
  /\ Load \subseteq [0..MaxQueue -> Nat]
  /\ \A e \in Load : e[0] = 0 /\ \A i \in 1..MaxQueue : e[i - 1] < e[i]
  /\ Limit \subseteq Nat

VARIABLES
  total,      \* records queued for a route when the drain starts
  end,        \* where they end
  limit,      \* what the route's endpoint takes
  front,      \* records that left the queue
  accepted,   \* records the endpoint took
  aside,      \* records copied to the quarantine file
  pc,         \* "head" of the loop, in a "cycle", "finished"
  late,       \* the pass budget is spent
  lanes,      \* routes that still take turns
  cycle,      \* cycles so far
  turn,       \* what the turn of this cycle did
  budget,     \* bytes a lane may put in a request
  delivered,  \* records a lane counts as delivered
  means,      \* the reason a lane keeps for its activity line
  report,     \* the lane whose result stands under a label
  turns,      \* counts a lane's turns
  refused     \* counts a lane's size refusals since something left its queue

queues == <<total, end, limit>>
effect == <<front, accepted, aside>>
lane   == <<lanes, cycle, budget, delivered, means, report>>
vars   == <<total, end, limit, front, accepted, aside, pc, late, lanes, cycle,
            turn, budget, delivered, means, report, turns, refused>>

Turn  == [is : {"none", "sent", "empty", "smaller", "parked", "stop"},
          of : SUBSET (1..MaxQueue)]
NoTurn == [is |-> "none", of |-> {}]
Means == {"nothing", "parked", "stopped"}

TypeOK ==
  /\ total \in [Route -> 0..MaxQueue]
  /\ end \in [Route -> Load]
  /\ limit \in [Route -> Limit]
  /\ front \in [Route -> 0..MaxQueue]
  /\ accepted \in [Route -> SUBSET (1..MaxQueue)]
  /\ aside \in [Route -> SUBSET (1..MaxQueue)]
  /\ pc \in {"head", "cycle", "finished"}
  /\ late \in BOOLEAN
  /\ lanes \subseteq Route
  /\ cycle \in Nat
  /\ turn \in [Route -> Turn]
  /\ budget \in [Route -> Floor..Full]
  /\ delivered \in [Route -> SUBSET (1..MaxQueue)]
  /\ means \in [Route -> Means]
  /\ report \in [Label -> Route \cup {NoRoute}]
  /\ turns \in [Route -> Nat]
  /\ refused \in [Route -> Nat]

Init ==
  /\ total \in [Route -> 0..MaxQueue]
  /\ end \in [Route -> Load]
  /\ limit \in [Route -> Limit]
  /\ front = [r \in Route |-> 0]
  /\ accepted = [r \in Route |-> {}]
  /\ aside = [r \in Route |-> {}]
  /\ pc = "head"
  /\ late = FALSE
  /\ lanes \in SUBSET {r \in Route : total[r] > 0}    \* those on the allow list
  /\ cycle = 0
  /\ turn = [r \in Route |-> NoTurn]
  /\ budget = [r \in Route |-> Full]
  /\ delivered = [r \in Route |-> {}]
  /\ means = [r \in Route |-> "nothing"]
  /\ report = [l \in Label |-> NoRoute]
  /\ turns = [r \in Route |-> 0]
  /\ refused = [r \in Route |-> 0]

-----------------------------------------------------------------------------
(* What one request carries *)

Bytes(r, n) == end[r][front[r] + n] - end[r][front[r]]

\* Mutated: off by one at the floor.
MaxRecords_AboveFloor(r) == IF budget[r] < Floor THEN 1 ELSE Batch

\* At its floor a lane sends one record per request, so that a refusal names it.
MaxRecords(r) == IF budget[r] <= Floor THEN 1 ELSE Batch

\* peek_batch: as many records as both bounds allow, and at least one.
Fits(r, n) ==
  /\ n <= MaxRecords(r)
  /\ n = 1 \/ Bytes(r, n) <= budget[r]

Peek(r) ==
  {n \in 1..(total[r] - front[r]) :
     Fits(r, n) /\ (n = total[r] - front[r] \/ ~Fits(r, n + 1))}

Front(r, n) == (front[r] + 1)..(front[r] + n)

-----------------------------------------------------------------------------
(* one_batch, in a thread of its own *)

Takes(r, outcome, batch) ==
  /\ pc = "cycle"
  /\ r \in lanes
  /\ turn[r] = NoTurn
  /\ turn' = [turn EXCEPT ![r] = [is |-> outcome, of |-> batch]]
  /\ turns' = [turns EXCEPT ![r] = @ + 1]
  /\ UNCHANGED <<queues, pc, late, lane>>

Empty(r) ==
  /\ Takes(r, "empty", {})
  /\ front[r] = total[r]
  /\ UNCHANGED <<effect, refused>>

\* Unreadable queue, no credentials, no organization, Retry or Blocked.
Refuse(r) ==
  /\ Takes(r, "stop", {})
  /\ front[r] < total[r]
  /\ UNCHANGED <<effect, refused>>

\* Mutated: the record ceiling leaves the queue instead of the batch that was sent.
Send_Ceiling(r) ==
  /\ \E n \in Peek(r) :
       /\ Bytes(r, n) <= limit[r]
       /\ Takes(r, "sent", Front(r, n))
       /\ accepted' = [accepted EXCEPT ![r] = @ \cup Front(r, n)]
       /\ front' = [front EXCEPT ![r] = IF @ + Batch < total[r] THEN @ + Batch ELSE total[r]]
  /\ refused' = [refused EXCEPT ![r] = 0]
  /\ UNCHANGED aside

Send(r) ==
  /\ \E n \in Peek(r) :
       /\ Bytes(r, n) <= limit[r]
       /\ Takes(r, "sent", Front(r, n))
       /\ accepted' = [accepted EXCEPT ![r] = @ \cup Front(r, n)]
       /\ front' = [front EXCEPT ![r] = @ + n]
  /\ refused' = [refused EXCEPT ![r] = 0]
  /\ UNCHANGED aside

\* The endpoint took the batch, and the answer or drop_front fails: it stays queued.
SendUnnoticed(r) ==
  /\ Takes(r, "stop", {})
  /\ \E n \in Peek(r) :
       /\ Bytes(r, n) <= limit[r]
       /\ accepted' = [accepted EXCEPT ![r] = @ \cup Front(r, n)]
  /\ UNCHANGED <<front, aside, refused>>

TooLarge(r) ==
  /\ Takes(r, "smaller", {})
  /\ \E n \in Peek(r) : n > 1 /\ Bytes(r, n) > limit[r]
  /\ refused' = [refused EXCEPT ![r] = @ + 1]
  /\ UNCHANGED effect

\* Mutated: the front record of a refused batch is parked, whatever the batch held.
Park_AnyBatch(r) ==
  /\ Takes(r, "parked", {})
  /\ \E n \in Peek(r) : Bytes(r, n) > limit[r]
  /\ aside' = [aside EXCEPT ![r] = @ \cup Front(r, 1)]
  /\ front' = [front EXCEPT ![r] = @ + 1]
  /\ refused' = [refused EXCEPT ![r] = 0]
  /\ UNCHANGED accepted

\* A record refused on its own: quarantine_front.
Park(r) ==
  /\ Takes(r, "parked", {})
  /\ 1 \in Peek(r) /\ Bytes(r, 1) > limit[r]
  /\ aside' = [aside EXCEPT ![r] = @ \cup Front(r, 1)]
  /\ front' = [front EXCEPT ![r] = @ + 1]
  /\ refused' = [refused EXCEPT ![r] = 0]
  /\ UNCHANGED accepted

\* quarantine_front fails, before or after the record was copied.
ParkFails(r) ==
  /\ Takes(r, "stop", {})
  /\ 1 \in Peek(r) /\ Bytes(r, 1) > limit[r]
  /\ \/ aside' = [aside EXCEPT ![r] = @ \cup Front(r, 1)]
     \/ UNCHANGED aside
  /\ UNCHANGED <<front, accepted, refused>>

OneBatch(r) ==
  Empty(r) \/ Refuse(r) \/ Send(r) \/ SendUnnoticed(r) \/ TooLarge(r) \/ Park(r) \/ ParkFails(r)

-----------------------------------------------------------------------------
(* drain *)

Halved(b) == IF b \div 2 > Floor THEN b \div 2 ELSE Floor

BeginCycle ==
  /\ pc = "head"
  /\ lanes # {} /\ ~late
  /\ pc' = "cycle"
  /\ turn' = [r \in Route |-> NoTurn]
  /\ UNCHANGED <<queues, effect, late, lane, turns, refused>>

\* Mutated: a lane that delivered nothing says nothing.
Said_Delivered(r) == delivered'[r] # {}

\* What drain's last filter keeps.
Said(r) == delivered'[r] # {} \/ means'[r] # "nothing"

\* Lanes that leave the drain now put their result under their label; where two
\* lanes share a label, the one collected later replaces the other.
Collect(leaving) ==
  /\ report' \in [Label -> Route \cup {NoRoute}]
  /\ \A l \in Label :
       LET said == {r \in leaving : LabelOf[r] = l /\ Said(r)}
       IN IF said = {} THEN report'[l] = report[l] ELSE report'[l] \in said

\* Mutated: the cycle ends with the first thread that has.
Joined_First == \E r \in lanes : turn[r] # NoTurn

\* Mutated: the threads of lanes that are closed are waited for too.
Joined_Closed == \A r \in Route : turn[r] # NoTurn

\* Mutated: a lane that parked a record takes no other turn.
Leaves_Parked(r) == turn[r].is \in {"empty", "parked", "stop"}

Leaves(r) == turn[r].is \in {"empty", "stop"}

\* Every thread has joined.
Joined == \A r \in lanes : turn[r] # NoTurn

EndCycle ==
  /\ pc = "cycle"
  /\ Joined
  /\ pc' = "head"
  /\ delivered' = [r \in Route |-> IF r \in lanes THEN delivered[r] \cup turn[r].of
                                                 ELSE delivered[r]]
  /\ budget' = [r \in Route |->
       CASE r \in lanes /\ turn[r].is = "smaller" -> Halved(budget[r])
         [] r \in lanes /\ turn[r].is = "parked"  -> Full
         [] OTHER -> budget[r]]
  /\ means' = [r \in Route |->
       CASE r \in lanes /\ turn[r].is = "parked" -> "parked"
         [] r \in lanes /\ turn[r].is = "stop"   -> "stopped"
         [] OTHER -> means[r]]
  /\ lanes' = {r \in lanes : ~Leaves(r)}
  /\ Collect(lanes \ lanes')
  /\ cycle' = cycle + 1
  /\ UNCHANGED <<queues, effect, late, turn, turns, refused>>

\* 120 s have passed: the cycle that runs ends, no other starts.
Deadline ==
  /\ pc # "finished"
  /\ ~late
  /\ late' = TRUE
  /\ UNCHANGED <<queues, effect, pc, lane, turn, turns, refused>>

EndDrain ==
  /\ pc = "head"
  /\ lanes = {} \/ late
  /\ pc' = "finished"
  /\ UNCHANGED <<delivered, means>>
  /\ Collect(lanes)
  /\ UNCHANGED <<queues, effect, late, lanes, cycle, turn, budget, turns, refused>>

Next ==
  \/ BeginCycle
  \/ \E r \in Route : OneBatch(r)
  \/ EndCycle
  \/ Deadline
  \/ EndDrain

Spec == Init /\ [][Next]_vars

-----------------------------------------------------------------------------
(* Properties *)

\* The queues lose nothing in a drain, and the activity lines claim nothing that did
\* not happen: what left a queue was delivered or parked, and what a lane counts as
\* delivered was accepted and has left.
NothingSkipped ==
  \A r \in Route :
    /\ \A i \in 1..front[r] : i \in accepted[r] \/ i \in aside[r]
    /\ delivered[r] \subseteq accepted[r] \cap (1..front[r])

\* Only a record its endpoint refuses on its own is parked: never one that was merely
\* in a batch the endpoint refused.
OnlyUnsendable ==
  \A r \in Route : \A i \in aside[r] : end[r][i] - end[r][i - 1] > limit[r]

\* "Every customer gets a turn in every cycle": two lanes that are both in the drain
\* never differ by more than one turn, however slow an endpoint or long a queue is.
FairTurns == \A r, s \in lanes : turns[r] <= turns[s] + 1

Power[n \in Nat] == IF n = 0 THEN 1 ELSE 2 * Power[n - 1]

\* A size refusal costs a bounded number of turns: a lane is refused as often as its
\* budget can be halved before it reaches the floor, and then its front record moves.
FewRefusals ==
  \A r \in Route : refused[r] > 0 => Floor * Power[refused[r] - 1] < Full

\* A drain with time left empties every queue whose lane was not stopped: a record set
\* aside or a shrunken batch never ends a lane's part in the drain.
EmptiedUnlessStopped ==
  pc = "finished" /\ ~late =>
    \A r \in Route : turns[r] > 0 /\ means[r] # "stopped" => front[r] = total[r]

\* "That route leaves the pass with its reason recorded" (drain-scheduling/spec.md:24-26):
\* where a lane was stopped, the result under its label is the one of that lane.
ReasonRecorded ==
  pc = "finished" =>
    \A r \in Route : means[r] = "stopped" => report[LabelOf[r]] = r

\* "The move SHALL be reported on the customer's activity line"
\* (upload-batching/spec.md:69-70): a lane that parked a record says so at the end.
ParkingReported ==
  pc = "finished" => \A r \in Route : aside[r] # {} => means[r] = "parked"

-----------------------------------------------------------------------------
(* The inductive invariant behind NothingSkipped, OnlyUnsendable and FairTurns *)

FrontInQueue == \A r \in Route : front[r] <= total[r]

\* A batch a thread reports as sent is accepted and has left the queue.
TurnHonest == \A r \in Route : turn[r].of \subseteq accepted[r] \cap (1..front[r])

\* The lanes of a drain advance together.
InStep ==
  \A r \in lanes :
    turns[r] = IF pc = "cycle" /\ turn[r] # NoTurn THEN cycle + 1 ELSE cycle

DrainInv ==
  /\ TypeOK
  /\ FrontInQueue
  /\ TurnHonest
  /\ NothingSkipped
  /\ OnlyUnsendable
  /\ InStep

-----------------------------------------------------------------------------
(* Liveness *)

\* A request ends within its timeout (60 s), so a thread always returns, and the
\* loop goes on: weak fairness of both.  Nothing is assumed of the deadline.
Fairness ==
  /\ WF_vars(BeginCycle \/ EndCycle \/ EndDrain)
  /\ \A r \in Route : WF_vars(OneBatch(r))

FairSpec == Spec /\ Fairness

\* A drain ends by itself, without its time budget: refusals shrink a batch to one
\* record at last, and every other turn moves the queue or closes the lane.
DrainFinishes == <>(pc = "finished")
=============================================================================
