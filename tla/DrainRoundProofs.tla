--------------------------- MODULE DrainRoundProofs ---------------------------
(* Proofs about DrainRound for any set of routes, any queues, budgets and limits. *)
EXTENDS DrainRound, WellFoundedInduction, TLAPS

\* A batch lies inside the queue, behind what has left it.
LEMMA PeekBounds ==
  ASSUME TypeOK, NEW r \in Route, NEW n \in Peek(r)
  PROVE  /\ n \in 1..MaxQueue
         /\ front[r] + n <= total[r]
         /\ Front(r, n) \subseteq 1..MaxQueue
<1>1. front[r] \in 0..MaxQueue /\ total[r] \in 0..MaxQueue /\ MaxQueue \in Nat
  BY DrainAssumption DEF TypeOK
<1>2. n \in 1..(total[r] - front[r])
  BY DEF Peek
<1>. QED
  BY <1>1, <1>2 DEF Front

LEMMA HalvedInRange ==
  ASSUME NEW b \in Floor..Full
  PROVE  Halved(b) \in Floor..Full
BY DrainAssumption DEF Halved

\* Records are added to a set per route.
LEMMA SetGrows ==
  ASSUME NEW S, NEW f \in [Route -> SUBSET S], NEW r \in Route, NEW B \in SUBSET S
  PROVE  [f EXCEPT ![r] = @ \cup B] \in [Route -> SUBSET S]
<1>1. f[r] \cup B \in SUBSET S
  OBVIOUS
<1>. QED
  BY <1>1

LEMMA InitType == Init => TypeOK
<1>. SUFFICES ASSUME Init PROVE TypeOK
  OBVIOUS
<1>1. NoTurn \in Turn
  BY DEF NoTurn, Turn
<1>2. 0 \in 0..MaxQueue /\ Full \in Floor..Full /\ lanes \subseteq Route
  BY DrainAssumption DEF Init
<1>3. {} \in SUBSET (1..MaxQueue) /\ "nothing" \in Means
  BY DEF Means
<1>. QED
  BY <1>1, <1>2, <1>3 DEF Init, TypeOK

LEMMA TypeStep ==
  ASSUME TypeOK, [Next]_vars
  PROVE  TypeOK'
<1>. USE DrainAssumption
<1>1. CASE BeginCycle
  BY <1>1 DEF BeginCycle, TypeOK, queues, effect, lane, Turn, NoTurn
<1>2. ASSUME NEW r \in Route, OneBatch(r)
      PROVE  TypeOK'
  <2>1. ASSUME NEW o \in {"sent", "empty", "smaller", "parked", "stop"},
               NEW B \in SUBSET (1..MaxQueue), Takes(r, o, B)
        PROVE  /\ turn' \in [Route -> Turn]
               /\ turns' \in [Route -> Nat]
               /\ UNCHANGED <<queues, pc, late, lane>>
    <3>1. [is |-> o, of |-> B] \in Turn
      BY <2>1 DEF Turn
    <3>2. turn' = [turn EXCEPT ![r] = [is |-> o, of |-> B]] /\ turn \in [Route -> Turn]
      BY <2>1 DEF Takes, TypeOK
    <3>3. turn' \in [Route -> Turn]
      BY <3>1, <3>2
    <3>. QED
      BY <2>1, <3>3 DEF Takes, TypeOK
  <2>2. CASE Empty(r)
    BY <2>1, <2>2 DEF Empty, TypeOK, queues, effect, lane
  <2>3. CASE Refuse(r)
    BY <2>1, <2>3 DEF Refuse, TypeOK, queues, effect, lane
  <2>4. CASE Send(r)
    <3>1. PICK n \in Peek(r) :
            /\ Takes(r, "sent", Front(r, n))
            /\ accepted' = [accepted EXCEPT ![r] = @ \cup Front(r, n)]
            /\ front' = [front EXCEPT ![r] = @ + n]
      BY <2>4 DEF Send
    <3>2. n \in 1..MaxQueue /\ front[r] + n <= total[r] /\ Front(r, n) \subseteq 1..MaxQueue
      BY PeekBounds
    <3>3. front' \in [Route -> 0..MaxQueue]
      <4>1. front \in [Route -> 0..MaxQueue] /\ total[r] \in 0..MaxQueue /\ front[r] \in 0..MaxQueue
        BY DEF TypeOK
      <4>2. front[r] + n \in 0..MaxQueue
        BY <3>2, <4>1
      <4>. QED
        BY <3>1, <4>1, <4>2
    <3>4. accepted' \in [Route -> SUBSET (1..MaxQueue)]
      BY <3>1, <3>2, SetGrows DEF TypeOK
    <3>. QED
      BY <2>1, <2>4, <3>1, <3>2, <3>3, <3>4 DEF Send, TypeOK, queues, lane
  <2>5. CASE SendUnnoticed(r)
    <3>1. PICK n \in Peek(r) : accepted' = [accepted EXCEPT ![r] = @ \cup Front(r, n)]
      BY <2>5 DEF SendUnnoticed
    <3>2. accepted' \in [Route -> SUBSET (1..MaxQueue)]
      BY <3>1, PeekBounds, SetGrows DEF TypeOK
    <3>. QED
      BY <2>1, <2>5, <3>2 DEF SendUnnoticed, TypeOK, queues, lane
  <2>6. CASE TooLarge(r)
    <3>1. refused' \in [Route -> Nat]
      BY <2>6 DEF TooLarge, TypeOK
    <3>. QED
      BY <2>1, <2>6, <3>1 DEF TooLarge, TypeOK, queues, effect, lane
  <2>7. CASE Park(r)
    <3>1. 1 \in Peek(r)
      BY <2>7 DEF Park
    <3>2. front[r] + 1 <= total[r] /\ Front(r, 1) \subseteq 1..MaxQueue
      BY <3>1, PeekBounds
    <3>3. front' \in [Route -> 0..MaxQueue]
      <4>1. front \in [Route -> 0..MaxQueue] /\ total[r] \in 0..MaxQueue /\ front[r] \in 0..MaxQueue
        BY DEF TypeOK
      <4>2. front[r] + 1 \in 0..MaxQueue
        BY <3>2, <4>1
      <4>. QED
        BY <2>7, <4>1, <4>2 DEF Park
    <3>4. aside' \in [Route -> SUBSET (1..MaxQueue)]
      BY <2>7, <3>2, SetGrows DEF Park, TypeOK
    <3>. QED
      BY <2>1, <2>7, <3>3, <3>4 DEF Park, TypeOK, queues, lane
  <2>8. CASE ParkFails(r)
    <3>1. Front(r, 1) \subseteq 1..MaxQueue
      BY <2>8, PeekBounds DEF ParkFails
    <3>2. aside' \in [Route -> SUBSET (1..MaxQueue)]
      <4>1. aside \in [Route -> SUBSET (1..MaxQueue)]
        BY DEF TypeOK
      <4>2. [aside EXCEPT ![r] = @ \cup Front(r, 1)] \in [Route -> SUBSET (1..MaxQueue)]
        BY <3>1, <4>1, SetGrows
      <4>. QED
        BY <2>8, <4>1, <4>2 DEF ParkFails
    <3>. QED
      BY <2>1, <2>8, <3>2 DEF ParkFails, TypeOK, queues, lane
  <2>. QED
    BY <1>2, <2>2, <2>3, <2>4, <2>5, <2>6, <2>7, <2>8 DEF OneBatch
<1>3. CASE EndCycle
  <2>1. \A r \in Route : turn[r].of \subseteq 1..MaxQueue
    BY DEF TypeOK, Turn
  <2>2. delivered' \in [Route -> SUBSET (1..MaxQueue)]
    BY <1>3, <2>1 DEF EndCycle, TypeOK
  <2>3. budget' \in [Route -> Floor..Full]
    <3>1. Full \in Floor..Full
      OBVIOUS
    <3>2. \A r \in Route : budget[r] \in Floor..Full /\ Halved(budget[r]) \in Floor..Full
      BY HalvedInRange DEF TypeOK
    <3>. QED
      BY <1>3, <3>1, <3>2 DEF EndCycle
  <2>4. means' \in [Route -> Means]
    BY <1>3 DEF EndCycle, TypeOK, Means
  <2>. QED
    BY <1>3, <2>2, <2>3, <2>4 DEF EndCycle, Collect, TypeOK, queues, effect
<1>4. CASE Deadline
  BY <1>4 DEF Deadline, TypeOK, queues, effect, lane
<1>5. CASE EndDrain
  BY <1>5 DEF EndDrain, Collect, TypeOK, queues, effect
<1>6. CASE UNCHANGED vars
  BY <1>6 DEF vars, TypeOK
<1>. QED
  BY <1>1, <1>2, <1>3, <1>4, <1>5, <1>6 DEF Next

-----------------------------------------------------------------------------
(* The inductive invariant *)

LEMMA InvInit == Init => DrainInv
<1>. SUFFICES ASSUME Init PROVE DrainInv
  OBVIOUS
<1>1. TypeOK
  BY InitType
<1>2. FrontInQueue
  BY <1>1 DEF Init, FrontInQueue, TypeOK
<1>3. TurnHonest /\ NothingSkipped /\ OnlyUnsendable
  BY DEF Init, TurnHonest, NoTurn, NothingSkipped, OnlyUnsendable
<1>4. InStep
  BY <1>1 DEF Init, InStep, TypeOK
<1>. QED
  BY <1>1, <1>2, <1>3, <1>4 DEF DrainInv

\* A turn of one lane: what the step does to the queues.
LEMMA TurnStep ==
  ASSUME DrainInv, NEW r \in Route, OneBatch(r)
  PROVE  FrontInQueue' /\ TurnHonest' /\ NothingSkipped' /\ OnlyUnsendable'
<1>. USE DrainAssumption
<1>t. TypeOK /\ FrontInQueue /\ TurnHonest /\ NothingSkipped /\ OnlyUnsendable
  BY DEF DrainInv
<1>n. \A q \in Route : front[q] \in Nat /\ total[q] \in Nat
  BY <1>t DEF TypeOK
<1>0. total' = total /\ end' = end /\ limit' = limit /\ delivered' = delivered
  BY DEF OneBatch, Empty, Refuse, Send, SendUnnoticed, TooLarge, Park, ParkFails,
         Takes, queues, lane
\* The turns that neither accept nor park leave all of it alone.
<1>1. ASSUME UNCHANGED effect,
             NEW o \in {"stop", "empty", "smaller"}, Takes(r, o, {})
      PROVE  FrontInQueue' /\ TurnHonest' /\ NothingSkipped' /\ OnlyUnsendable'
  <2>1. \A q \in Route : turn'[q].of = turn[q].of \/ turn'[q].of = {}
    BY <1>1, <1>t DEF Takes, TypeOK
  <2>2. TurnHonest'
    BY <1>1, <1>t, <2>1 DEF TurnHonest, effect
  <2>. QED
    BY <1>0, <1>1, <1>t, <2>2 DEF FrontInQueue, NothingSkipped, OnlyUnsendable, effect
<1>2. CASE Empty(r) \/ Refuse(r) \/ TooLarge(r)
  BY <1>1, <1>2 DEF Empty, Refuse, TooLarge
<1>3. CASE Send(r)
  <2>1. PICK n \in Peek(r) :
          /\ Takes(r, "sent", Front(r, n))
          /\ accepted' = [accepted EXCEPT ![r] = @ \cup Front(r, n)]
          /\ front' = [front EXCEPT ![r] = @ + n]
          /\ UNCHANGED aside
    BY <1>3 DEF Send
  <2>2. n \in Nat /\ front[r] + n <= total[r]
    BY <1>t, PeekBounds
  <2>3. /\ front'[r] = front[r] + n
        /\ accepted'[r] = accepted[r] \cup Front(r, n)
        /\ turn'[r].of = Front(r, n)
        /\ \A q \in Route \ {r} : front'[q] = front[q] /\ accepted'[q] = accepted[q]
                                  /\ turn'[q] = turn[q]
    BY <1>t, <2>1 DEF Takes, TypeOK
  <2>4. Front(r, n) \subseteq 1..front'[r] /\ 1..front[r] \subseteq 1..front'[r]
    BY <1>n, <2>2, <2>3 DEF Front
  <2>5. \A i \in 1..front'[r] : i \in 1..front[r] \/ i \in Front(r, n)
    BY <1>n, <2>2, <2>3 DEF Front
  <2>6. FrontInQueue'
    BY <1>0, <1>t, <2>2, <2>3 DEF FrontInQueue
  <2>7. TurnHonest'
    BY <1>t, <2>3, <2>4 DEF TurnHonest
  <2>8. NothingSkipped'
    <3>1. ASSUME NEW q \in Route
          PROVE  /\ \A i \in 1..front'[q] : i \in accepted'[q] \/ i \in aside'[q]
                 /\ delivered'[q] \subseteq accepted'[q] \cap (1..front'[q])
      <4>1. CASE q = r
        BY <1>0, <1>t, <2>1, <2>3, <2>4, <2>5, <4>1 DEF NothingSkipped
      <4>2. CASE q # r
        BY <1>0, <1>t, <2>1, <2>3, <4>2 DEF NothingSkipped
      <4>. QED
        BY <4>1, <4>2
    <3>. QED
      BY <3>1 DEF NothingSkipped
  <2>9. OnlyUnsendable'
    BY <1>0, <1>t, <2>1 DEF OnlyUnsendable
  <2>. QED
    BY <2>6, <2>7, <2>8, <2>9
<1>4. CASE SendUnnoticed(r)
  <2>1. PICK n \in Peek(r) : accepted' = [accepted EXCEPT ![r] = @ \cup Front(r, n)]
    BY <1>4 DEF SendUnnoticed
  <2>2. \A q \in Route : accepted[q] \subseteq accepted'[q]
    BY <1>t, <2>1 DEF TypeOK
  <2>3. \A q \in Route : turn'[q].of = turn[q].of \/ turn'[q].of = {}
    BY <1>4, <1>t DEF SendUnnoticed, Takes, TypeOK
  <2>4. TurnHonest'
    BY <1>4, <1>t, <2>2, <2>3 DEF SendUnnoticed, TurnHonest
  <2>5. NothingSkipped'
    BY <1>0, <1>4, <1>t, <2>2 DEF SendUnnoticed, NothingSkipped
  <2>. QED
    BY <1>0, <1>4, <1>t, <2>4, <2>5 DEF SendUnnoticed, FrontInQueue, OnlyUnsendable
\* Parking: the front record alone is beyond the limit.
<1>5. ASSUME 1 \in Peek(r), Bytes(r, 1) > limit[r],
             aside' = [aside EXCEPT ![r] = @ \cup Front(r, 1)]
      PROVE  OnlyUnsendable'
  <2>1. Front(r, 1) = {front[r] + 1}
    BY <1>n DEF Front
  <2>2. ASSUME NEW j, j = front[r] + 1
        PROVE  end[r][j] - end[r][j - 1] > limit[r]
    <3>1. j - 1 = front[r]
      BY <1>n, <2>2
    <3>2. end[r][front[r] + 1] - end[r][front[r]] > limit[r]
      BY <1>5 DEF Bytes
    <3>. QED
      BY <2>2, <3>1, <3>2
  <2>3. ASSUME NEW q \in Route, NEW i \in aside'[q]
        PROVE  end[q][i] - end[q][i - 1] > limit[q]
    <3>1. CASE i \in aside[q]
      BY <1>t, <3>1 DEF OnlyUnsendable
    <3>2. CASE i \notin aside[q]
      <4>1. aside'[r] = aside[r] \cup Front(r, 1) /\ \A p \in Route \ {r} : aside'[p] = aside[p]
        BY <1>5, <1>t DEF TypeOK
      <4>2. q = r /\ i = front[r] + 1
        BY <2>1, <2>3, <3>2, <4>1
      <4>. QED
        BY <2>2, <4>2
    <3>. QED
      BY <3>1, <3>2
  <2>. QED
    BY <1>0, <2>3 DEF OnlyUnsendable
<1>6. CASE Park(r)
  <2>1. front[r] + 1 <= total[r]
    BY <1>6, <1>t, PeekBounds DEF Park
  <2>2. /\ front'[r] = front[r] + 1
        /\ aside'[r] = aside[r] \cup Front(r, 1)
        /\ turn'[r].of = {}
        /\ \A q \in Route \ {r} : front'[q] = front[q] /\ aside'[q] = aside[q]
                                  /\ turn'[q] = turn[q]
    BY <1>6, <1>t DEF Park, Takes, TypeOK
  <2>3. 1..front[r] \subseteq 1..front'[r]
        /\ \A i \in 1..front'[r] : i \in 1..front[r] \/ i \in Front(r, 1)
    BY <1>n, <2>2 DEF Front
  <2>4. FrontInQueue'
    BY <1>0, <1>t, <2>1, <2>2 DEF FrontInQueue
  <2>5. TurnHonest'
    BY <1>6, <1>t, <2>2, <2>3 DEF Park, TurnHonest
  <2>6. NothingSkipped'
    <3>1. ASSUME NEW q \in Route
          PROVE  /\ \A i \in 1..front'[q] : i \in accepted'[q] \/ i \in aside'[q]
                 /\ delivered'[q] \subseteq accepted'[q] \cap (1..front'[q])
      <4>1. CASE q = r
        BY <1>0, <1>6, <1>t, <2>2, <2>3, <4>1 DEF Park, NothingSkipped
      <4>2. CASE q # r
        BY <1>0, <1>6, <1>t, <2>2, <4>2 DEF Park, NothingSkipped
      <4>. QED
        BY <4>1, <4>2
    <3>. QED
      BY <3>1 DEF NothingSkipped
  <2>. QED
    BY <1>5, <1>6, <2>4, <2>5, <2>6 DEF Park
<1>7. CASE ParkFails(r)
  <2>1. \A q \in Route : aside[q] \subseteq aside'[q]
    <3>1. aside' = [aside EXCEPT ![r] = @ \cup Front(r, 1)] \/ aside' = aside
      BY <1>7 DEF ParkFails
    <3>2. aside \in [Route -> SUBSET (1..MaxQueue)]
      BY <1>t DEF TypeOK
    <3>. QED
      BY <3>1, <3>2
  <2>2. \A q \in Route : turn'[q].of = turn[q].of \/ turn'[q].of = {}
    BY <1>7, <1>t DEF ParkFails, Takes, TypeOK
  <2>3. OnlyUnsendable'
    BY <1>0, <1>5, <1>7, <1>t DEF ParkFails, OnlyUnsendable
  <2>4. TurnHonest'
    BY <1>7, <1>t, <2>2 DEF ParkFails, TurnHonest
  <2>5. NothingSkipped'
    BY <1>0, <1>7, <1>t, <2>1 DEF ParkFails, NothingSkipped
  <2>. QED
    BY <1>0, <1>7, <1>t, <2>3, <2>4, <2>5 DEF ParkFails, FrontInQueue
<1>. QED
  BY <1>2, <1>3, <1>4, <1>6, <1>7 DEF OneBatch

LEMMA InvStep ==
  ASSUME DrainInv, [Next]_vars
  PROVE  DrainInv'
<1>. USE DrainAssumption
<1>t. TypeOK /\ TypeOK'
  BY TypeStep DEF DrainInv
<1>s. FrontInQueue /\ TurnHonest /\ NothingSkipped /\ OnlyUnsendable /\ InStep
  BY DEF DrainInv
<1>. DEFINE Parts == FrontInQueue' /\ TurnHonest' /\ NothingSkipped' /\ OnlyUnsendable' /\ InStep'
<1>1. ASSUME BeginCycle
      PROVE  Parts
  <2>1. \A r \in Route : turn'[r] = NoTurn
    BY <1>1 DEF BeginCycle
  <2>2. TurnHonest'
    BY <2>1 DEF TurnHonest, NoTurn
  <2>3. InStep'
    BY <1>1, <1>s, <1>t, <2>1 DEF BeginCycle, InStep, lane, TypeOK
  <2>. QED
    BY <1>1, <1>s, <2>2, <2>3
    DEF BeginCycle, FrontInQueue, NothingSkipped, OnlyUnsendable, queues, effect, lane
<1>2. ASSUME NEW r \in Route, OneBatch(r)
      PROVE  Parts
  <2>1. PICK o, B : o # "none" /\ Takes(r, o, B)
    BY <1>2 DEF OneBatch, Empty, Refuse, Send, SendUnnoticed, TooLarge, Park, ParkFails
  <2>2. /\ pc = "cycle" /\ pc' = pc /\ lanes' = lanes /\ cycle' = cycle
        /\ r \in lanes /\ turn[r] = NoTurn /\ turn'[r] = [is |-> o, of |-> B]
        /\ turns'[r] = turns[r] + 1
        /\ \A q \in lanes \ {r} : turn'[q] = turn[q] /\ turns'[q] = turns[q]
    BY <1>t, <2>1 DEF Takes, TypeOK, lane
  <2>3. turn'[r] # NoTurn
    BY <2>1, <2>2 DEF NoTurn
  <2>4. InStep'
    BY <1>s, <2>2, <2>3 DEF InStep
  <2>. QED
    BY <1>2, <2>4, TurnStep
<1>3. ASSUME EndCycle
      PROVE  Parts
  <2>1. InStep'
    BY <1>3, <1>s DEF EndCycle, Joined, InStep
  <2>2. NothingSkipped'
    BY <1>3, <1>s, <1>t DEF EndCycle, NothingSkipped, TurnHonest, effect, TypeOK
  <2>. QED
    BY <1>3, <1>s, <2>1, <2>2
    DEF EndCycle, FrontInQueue, TurnHonest, OnlyUnsendable, queues, effect
<1>4. ASSUME Deadline
      PROVE  Parts
  BY <1>4, <1>s DEF Deadline, FrontInQueue, TurnHonest, NothingSkipped, OnlyUnsendable, InStep,
                    queues, effect, lane
<1>5. ASSUME EndDrain
      PROVE  Parts
  <2>1. InStep'
    BY <1>5, <1>s DEF EndDrain, InStep
  <2>. QED
    BY <1>5, <1>s, <2>1
    DEF EndDrain, FrontInQueue, TurnHonest, NothingSkipped, OnlyUnsendable, queues, effect
<1>6. ASSUME UNCHANGED vars
      PROVE  Parts
  BY <1>6, <1>s DEF vars, FrontInQueue, TurnHonest, NothingSkipped, OnlyUnsendable, InStep
<1>7. Parts
  BY <1>1, <1>2, <1>3, <1>4, <1>5, <1>6 DEF Next
<1>. QED
  BY <1>7, <1>t DEF DrainInv

-----------------------------------------------------------------------------
(* How a lane ends *)

\* Who left the drain was stopped or found its queue empty.
Closed ==
  \A r \in Route \ lanes : turns[r] > 0 => means[r] = "stopped" \/ front[r] = total[r]
\* A turn that found the queue empty stays true until the threads join.
EmptyTurn == pc = "cycle" => \A r \in lanes : turn[r].is = "empty" => front[r] = total[r]
AllClosed == pc = "finished" /\ ~late => lanes = {}
EndInv == TypeOK /\ Closed /\ EmptyTurn /\ AllClosed

LEMMA EndInit == Init => EndInv
<1>. SUFFICES ASSUME Init PROVE EndInv
  OBVIOUS
<1>1. TypeOK
  BY InitType
<1>. QED
  BY <1>1 DEF Init, EndInv, Closed, EmptyTurn, AllClosed

\* One turn touches no lane but its own, and its own only from before it.
LEMMA EndTurn ==
  ASSUME EndInv, NEW r \in Route, OneBatch(r)
  PROVE  Closed' /\ EmptyTurn' /\ AllClosed'
<1>. USE DrainAssumption
<1>t. TypeOK
  BY DEF EndInv
<1>1. PICK o, B : o # "none" /\ Takes(r, o, B) /\ (o = "empty" => Empty(r))
  BY DEF OneBatch, Empty, Refuse, Send, SendUnnoticed, TooLarge, Park, ParkFails
<1>2. /\ pc = "cycle" /\ pc' = pc /\ late' = late /\ lanes' = lanes /\ means' = means
      /\ total' = total /\ r \in lanes /\ turn[r] = NoTurn /\ turn'[r] = [is |-> o, of |-> B]
      /\ \A q \in Route \ {r} : turn'[q] = turn[q] /\ turns'[q] = turns[q]
  BY <1>1, <1>t DEF Takes, TypeOK, lane, queues
<1>3. \A q \in Route \ {r} : front'[q] = front[q]
  BY <1>t DEF OneBatch, Empty, Refuse, Send, SendUnnoticed, TooLarge, Park, ParkFails, TypeOK, effect
<1>4. o = "empty" => front'[r] = total[r]
  BY <1>1 DEF Empty, effect
<1>5. Closed'
  BY <1>2, <1>3 DEF EndInv, Closed
<1>6. ASSUME NEW q \in lanes', turn'[q].is = "empty"
      PROVE  front'[q] = total'[q]
  <2>1. CASE q = r
    <3>1. [is |-> o, of |-> B].is = o
      OBVIOUS
    <3>. QED
      BY <1>2, <1>4, <1>6, <2>1, <3>1
  <2>2. CASE q # r
    <3>1. q \in lanes /\ q \in Route \ {r}
      BY <1>2, <1>t, <1>6, <2>2 DEF TypeOK
    <3>2. turn'[q] = turn[q] /\ front'[q] = front[q] /\ total'[q] = total[q]
      BY <1>2, <1>3, <3>1
    <3>3. turn[q].is = "empty" => front[q] = total[q]
      BY <1>2, <3>1 DEF EndInv, EmptyTurn
    <3>. QED
      BY <1>6, <3>2, <3>3
  <2>. QED
    BY <2>1, <2>2
<1>. QED
  BY <1>2, <1>5, <1>6 DEF EmptyTurn, AllClosed

LEMMA EndStep ==
  ASSUME EndInv, [Next]_vars
  PROVE  EndInv'
<1>t. TypeOK /\ TypeOK'
  BY TypeStep DEF EndInv
<1>s. Closed /\ EmptyTurn /\ AllClosed
  BY DEF EndInv
<1>. DEFINE Parts == Closed' /\ EmptyTurn' /\ AllClosed'
<1>1. ASSUME BeginCycle
      PROVE  Parts
  <2>1. /\ pc' = "cycle" /\ lanes' = lanes /\ means' = means /\ turns' = turns
        /\ front' = front /\ total' = total /\ lanes \subseteq Route
        /\ \A r \in Route : turn'[r] = NoTurn
    BY <1>1, <1>t DEF BeginCycle, TypeOK, queues, effect, lane
  <2>2. NoTurn.is # "empty"
    BY DEF NoTurn
  <2>. QED
    BY <1>s, <2>1, <2>2 DEF Closed, EmptyTurn, AllClosed
<1>2. ASSUME NEW r \in Route, OneBatch(r)
      PROVE  Parts
  BY <1>2, EndTurn
<1>3. ASSUME EndCycle
      PROVE  Parts
  <2>1. /\ pc = "cycle" /\ pc' = "head" /\ lanes' = {r \in lanes : ~Leaves(r)}
        /\ front' = front /\ total' = total /\ turns' = turns
        /\ \A r \in Route : means'[r] =
             CASE r \in lanes /\ turn[r].is = "parked" -> "parked"
               [] r \in lanes /\ turn[r].is = "stop"   -> "stopped"
               [] OTHER -> means[r]
    BY <1>3 DEF EndCycle, queues, effect
  <2>2. ASSUME NEW r \in Route \ lanes', turns'[r] > 0
        PROVE  means'[r] = "stopped" \/ front'[r] = total'[r]
    <3>1. CASE r \in lanes
      BY <1>s, <2>1, <2>2, <3>1 DEF Leaves, EmptyTurn
    <3>2. CASE r \notin lanes
      BY <1>s, <2>1, <2>2, <3>2 DEF Closed
    <3>. QED
      BY <3>1, <3>2
  <2>. QED
    BY <2>1, <2>2 DEF Closed, EmptyTurn, AllClosed
<1>4. ASSUME Deadline
      PROVE  Parts
  BY <1>4, <1>s DEF Deadline, Closed, EmptyTurn, AllClosed, queues, effect, lane
<1>5. ASSUME EndDrain
      PROVE  Parts
  BY <1>5, <1>s DEF EndDrain, Closed, EmptyTurn, AllClosed, queues, effect
<1>6. ASSUME UNCHANGED vars
      PROVE  Parts
  BY <1>6, <1>s DEF vars, Closed, EmptyTurn, AllClosed
<1>7. Parts
  BY <1>1, <1>2, <1>3, <1>4, <1>5, <1>6 DEF Next
<1>. QED
  BY <1>7, <1>t DEF EndInv

\* Folder names that tell the customers apart.
OwnLabels == \A r, q \in Route : LabelOf[r] = LabelOf[q] => r = q

\* A lane that was stopped has left, and its result stands under its label.
Stopped == \A r \in Route : means[r] = "stopped" => r \notin lanes /\ report[LabelOf[r]] = r

\* Who leaves with something to say is found under its label; nobody else's result
\* is touched.
LEMMA CollectOwn ==
  ASSUME OwnLabels, NEW leaving \in SUBSET Route, Collect(leaving), NEW r \in Route
  PROVE  /\ r \in leaving /\ Said(r) => report'[LabelOf[r]] = r
         /\ r \notin leaving => report'[LabelOf[r]] = report[LabelOf[r]]
<1>. DEFINE said == {q \in leaving : LabelOf[q] = LabelOf[r] /\ Said(q)}
<1>1. LabelOf[r] \in Label
  BY DrainAssumption
<1>2. IF said = {} THEN report'[LabelOf[r]] = report[LabelOf[r]] ELSE report'[LabelOf[r]] \in said
  BY <1>1 DEF Collect
<1>3. said \subseteq {r} /\ (r \in said <=> r \in leaving /\ Said(r))
  BY DEF OwnLabels
<1>. QED
  BY <1>2, <1>3

LEMMA StoppedStep ==
  ASSUME OwnLabels, TypeOK, Stopped, [Next]_vars
  PROVE  Stopped'
<1>1. ASSUME BeginCycle
      PROVE  Stopped'
  BY <1>1 DEF BeginCycle, Stopped, lane
<1>2. ASSUME NEW r \in Route, OneBatch(r)
      PROVE  Stopped'
  BY <1>2 DEF OneBatch, Empty, Refuse, Send, SendUnnoticed, TooLarge, Park, ParkFails, Takes, Stopped, lane
<1>3. ASSUME EndCycle
      PROVE  Stopped'
  <2>1. /\ lanes' = {r \in lanes : ~Leaves(r)} /\ Collect(lanes \ lanes') /\ lanes \subseteq Route
        /\ \A r \in Route : means'[r] =
             CASE r \in lanes /\ turn[r].is = "parked" -> "parked"
               [] r \in lanes /\ turn[r].is = "stop"   -> "stopped"
               [] OTHER -> means[r]
    BY <1>3 DEF EndCycle, TypeOK
  <2>2. ASSUME NEW r \in Route, means'[r] = "stopped"
        PROVE  r \notin lanes' /\ report'[LabelOf[r]] = r
    <3>1. CASE r \in lanes /\ turn[r].is = "stop"
      <4>1. r \in lanes \ lanes' /\ Said(r)
        BY <2>1, <2>2, <3>1 DEF Leaves, Said
      <4>. QED
        BY <2>1, <4>1, CollectOwn
    <3>2. CASE ~(r \in lanes /\ turn[r].is = "stop")
      <4>1. means[r] = "stopped"
        BY <2>1, <2>2, <3>2
      <4>2. r \notin lanes /\ report[LabelOf[r]] = r
        BY <4>1 DEF Stopped
      <4>. QED
        BY <2>1, <4>2, CollectOwn
    <3>. QED
      BY <3>1, <3>2
  <2>. QED
    BY <2>2 DEF Stopped
<1>4. ASSUME Deadline
      PROVE  Stopped'
  BY <1>4 DEF Deadline, Stopped, lane
<1>5. ASSUME EndDrain
      PROVE  Stopped'
  <2>1. Collect(lanes) /\ means' = means /\ lanes' = lanes /\ lanes \subseteq Route
    BY <1>5 DEF EndDrain, TypeOK
  <2>. QED
    BY <2>1, CollectOwn DEF Stopped
<1>6. ASSUME UNCHANGED vars
      PROVE  Stopped'
  BY <1>6 DEF vars, Stopped
<1>. QED
  BY <1>1, <1>2, <1>3, <1>4, <1>5, <1>6 DEF Next

-----------------------------------------------------------------------------
(* Powers of two, and how often a lane is refused *)

\* What holds of 0, and of a number when of the one before, holds up to any number.
LEMMA UpTo ==
  ASSUME NEW N \in Nat, NEW good, 0 \in good, \A n \in 1..N : n - 1 \in good => n \in good
  PROVE  0..N \subseteq good
<1>. DEFINE bad == (0..N) \ good
<1>. SUFFICES ASSUME bad # {} PROVE FALSE
  OBVIOUS
<1>1. \E n \in bad : \A m \in bad : ~(<<m, n>> \in OpToRel(<, Nat))
  <2>1. bad \subseteq Nat
    OBVIOUS
  <2>. HIDE DEF bad
  <2>. QED
    BY <2>1, NatLessThanWellFounded, WFMin, Zenon
<1>2. PICK n \in bad : \A m \in bad : ~(<<m, n>> \in OpToRel(<, Nat))
  BY <1>1, Zenon
<1>3. n \in 1..N /\ n - 1 \in 0..N /\ n - 1 < n /\ n - 1 \in Nat /\ n \in Nat
  <2>1. n \in 0..N /\ n \notin good
    OBVIOUS
  <2>2. n # 0
    BY <2>1
  <2>. QED
    BY <2>1, <2>2
<1>4. <<n - 1, n>> \in OpToRel(<, Nat)
  BY <1>3 DEF OpToRel
<1>. QED
  BY <1>2, <1>3, <1>4

Doubles(f, N) ==
  /\ f \in [0..N -> Nat \ {0}]
  /\ f[0] = 1
  /\ \A n \in 1..N : f[n] = 2 * f[n - 1]

LEMMA DoublesExist == ASSUME NEW N \in Nat PROVE \E f : Doubles(f, N)
<1>. DEFINE good == {n \in Nat : \E f : Doubles(f, n)}
<1>1. 0 \in good
  <2>1. Doubles([n \in 0..0 |-> 1], 0)
    BY DEF Doubles
  <2>. QED
    BY <2>1
<1>2. ASSUME NEW n \in 1..N, n - 1 \in good
      PROVE  n \in good
  <2>1. PICK f : Doubles(f, n - 1)
    BY <1>2
  <2>. DEFINE g == [m \in 0..n |-> IF m = n THEN 2 * f[n - 1] ELSE f[m]]
  <2>2. f \in [0..n - 1 -> Nat \ {0}] /\ f[0] = 1 /\ \A m \in 1..n - 1 : f[m] = 2 * f[m - 1]
    BY <2>1 DEF Doubles
  <2>3. f[n - 1] \in Nat \ {0}
    BY <2>2
  <2>4. g \in [0..n -> Nat \ {0}]
    BY <2>2, <2>3
  <2>5. g[0] = 1 /\ \A m \in 1..n : g[m] = 2 * g[m - 1]
    BY <2>2
  <2>. HIDE DEF g
  <2>6. Doubles(g, n)
    BY <2>4, <2>5 DEF Doubles
  <2>. QED
    BY <2>6
<1>. HIDE DEF good
<1>3. N \in good
  BY <1>1, <1>2, UpTo
<1>. QED
  BY <1>3 DEF good

LEMMA DoublesAgree ==
  ASSUME NEW N \in Nat, NEW M \in Nat, N <= M, NEW f, NEW g, Doubles(f, N), Doubles(g, M)
  PROVE  f[N] = g[N]
<1>. DEFINE good == {n \in 0..N : f[n] = g[n]}
<1>1. 0 \in good
  BY DEF Doubles
<1>2. ASSUME NEW n \in 1..N, n - 1 \in good
      PROVE  n \in good
  BY <1>2 DEF Doubles
<1>. HIDE DEF good
<1>3. N \in good
  BY <1>1, <1>2, UpTo
<1>. QED
  BY <1>3 DEF good

LEMMA PowerIs ==
  /\ Power[0] = 1
  /\ \A n \in Nat : Power[n] \in Nat \ {0} /\ Power[n + 1] = 2 * Power[n]
<1>. DEFINE table(n) == CHOOSE f : Doubles(f, n)
            g == [n \in Nat |-> table(n)[n]]
<1>1. \A n \in Nat : Doubles(table(n), n)
  BY DoublesExist
<1>. HIDE DEF table
<1>2. \A n \in Nat : g[n] \in Nat \ {0}
  BY <1>1 DEF Doubles
<1>3. g[0] = 1
  BY <1>1 DEF Doubles
<1>4. ASSUME NEW n \in Nat, n # 0
      PROVE  g[n] = 2 * g[n - 1]
  <2>1. n - 1 \in Nat /\ n - 1 <= n /\ n \in 1..n
    BY <1>4
  <2>2. table(n - 1)[n - 1] = table(n)[n - 1]
    BY <1>1, <2>1, DoublesAgree
  <2>3. table(n)[n] = 2 * table(n)[n - 1]
    BY <1>1, <2>1 DEF Doubles
  <2>. QED
    BY <2>1, <2>2, <2>3
<1>5. g = [n \in Nat |-> IF n = 0 THEN 1 ELSE 2 * g[n - 1]]
  BY <1>3, <1>4
<1>. HIDE DEF g
<1>6. Power = [n \in Nat |-> IF n = 0 THEN 1 ELSE 2 * Power[n - 1]]
  BY <1>5, Zenon DEF Power
<1>7. Power[0] = 1 /\ \A n \in Nat : Power[n + 1] = 2 * Power[n]
  BY <1>6
<1>8. ASSUME NEW N \in Nat
      PROVE  Power[N] \in Nat \ {0}
  <2>. DEFINE good == {n \in Nat : Power[n] \in Nat \ {0}}
  <2>1. 0 \in good
    BY <1>7
  <2>2. ASSUME NEW n \in 1..N, n - 1 \in good
        PROVE  n \in good
    <3>1. n - 1 \in Nat /\ (n - 1) + 1 = n
      OBVIOUS
    <3>2. Power[n] = 2 * Power[n - 1]
      BY <1>7, <3>1
    <3>. QED
      BY <2>2, <3>2
  <2>. HIDE DEF good
  <2>3. N \in good
    BY <2>1, <2>2, UpTo
  <2>. QED
    BY <2>3 DEF good
<1>. QED
  BY <1>7, <1>8

\* A lane was refused in the cycle that runs, and its budget is not halved yet.
Due(r) == pc = "cycle" /\ turn[r].is = "smaller"

Halvings(r) == IF Due(r) THEN refused[r] - 1 ELSE refused[r]

\* A budget above the floor is what the halvings since something left the queue can
\* have left of the full one.
Refusals ==
  \A r \in Route :
    /\ Due(r) => r \in lanes /\ refused[r] > 0
    /\ pc = "cycle" /\ r \in lanes /\ turn[r].is = "parked" => refused[r] = 0
    /\ budget[r] = Floor \/ budget[r] * Power[Halvings(r)] <= Full
    /\ refused[r] > 0 => Floor * Power[refused[r] - 1] < Full

LEMMA LessTimes ==
  ASSUME NEW a \in Nat, NEW b \in Nat, NEW p \in Nat \ {0}, NEW c \in Nat,
         a < b, b * p <= c
  PROVE  a * p < c
<1>1. b - a \in Nat \ {0} /\ b * p = a * p + (b - a) * p
  BY SMT
<1>2. (b - a) * p > 0 /\ a * p \in Nat /\ (b - a) * p \in Nat
  BY <1>1
<1>. QED
  BY <1>1, <1>2

\* Half of a budget, twice the power.
LEMMA HalfTimes ==
  ASSUME NEW b \in Nat, NEW p \in Nat \ {0}, NEW c \in Nat, b * p <= c
  PROVE  (b \div 2) * (2 * p) <= c
<1>1. b \div 2 \in Nat /\ 2 * (b \div 2) <= b
  OBVIOUS
<1>2. PICK h \in Nat : h = b \div 2
  BY <1>1
<1>3. h * (2 * p) = (2 * h) * p /\ b - 2 * h \in Nat /\ b * p = (2 * h) * p + (b - 2 * h) * p
  BY <1>1, <1>2
<1>4. (b - 2 * h) * p >= 0 /\ (2 * h) * p \in Nat /\ (b - 2 * h) * p \in Nat
  BY <1>3
<1>. QED
  BY <1>2, <1>3, <1>4

LEMMA RefusedTurn ==
  ASSUME TypeOK, Refusals, NEW r \in Route, OneBatch(r)
  PROVE  Refusals'
<1>. USE DrainAssumption
<1>1. PICK o, B :
        /\ o \in {"sent", "empty", "smaller", "parked", "stop"} /\ Takes(r, o, B)
        /\ o = "smaller" => TooLarge(r)
        /\ o # "smaller" => refused' = refused \/ refused' = [refused EXCEPT ![r] = 0]
        /\ o = "parked" => refused' = [refused EXCEPT ![r] = 0]
  BY DEF OneBatch, Empty, Refuse, Send, SendUnnoticed, TooLarge, Park, ParkFails
<1>2. /\ pc = "cycle" /\ pc' = pc /\ lanes' = lanes /\ budget' = budget
      /\ r \in lanes /\ turn[r] = NoTurn /\ turn'[r] = [is |-> o, of |-> B]
      /\ \A q \in Route \ {r} : turn'[q] = turn[q]
  BY <1>1 DEF Takes, TypeOK, lane
<1>3. turn'[r].is = o /\ ~Due(r)
  <2>1. [is |-> o, of |-> B].is = o /\ NoTurn.is # "smaller"
    BY DEF NoTurn
  <2>. QED
    BY <1>2, <2>1 DEF Due
<1>4. /\ refused[r] \in Nat /\ refused \in [Route -> Nat]
      /\ budget[r] \in Floor..Full /\ Power[refused[r]] \in Nat \ {0}
  BY PowerIs DEF TypeOK
<1>5. ASSUME NEW q \in Route \ {r}
      PROVE  /\ Due(q)' => q \in lanes' /\ refused'[q] > 0
             /\ pc' = "cycle" /\ q \in lanes' /\ turn'[q].is = "parked" => refused'[q] = 0
             /\ budget'[q] = Floor \/ budget'[q] * Power[Halvings(q)'] <= Full
             /\ refused'[q] > 0 => Floor * Power[refused'[q] - 1] < Full
  <2>1. refused'[q] = refused[q]
    BY <1>1, <1>4 DEF TooLarge
  <2>2. (Due(q)' <=> Due(q)) /\ Halvings(q)' = Halvings(q)
    BY <1>2, <2>1 DEF Due, Halvings
  <2>. QED
    BY <1>2, <2>1, <2>2 DEF Refusals
<1>6. budget[r] = Floor \/ budget[r] * Power[refused[r]] <= Full
  BY <1>3 DEF Refusals, Halvings
<1>7. CASE o = "smaller"
  <2>1. refused'[r] = refused[r] + 1 /\ Due(r)'
    BY <1>1, <1>2, <1>3, <1>4, <1>7 DEF TooLarge, Due
  <2>2. Halvings(r)' = refused[r]
    BY <1>4, <2>1 DEF Halvings
  <2>3. budget[r] > Floor
    <3>1. PICK n \in Peek(r) : n > 1
      BY <1>1, <1>7 DEF TooLarge
    <3>2. n \in Int /\ n <= MaxRecords(r)
      BY <3>1 DEF Peek, Fits, TypeOK
    <3>3. MaxRecords(r) # 1
      BY <3>1, <3>2
    <3>. QED
      BY <1>4, <3>3 DEF MaxRecords
  <2>4. Floor * Power[refused[r]] < Full
    <3>1. Floor \in Nat /\ budget[r] \in Nat /\ Full \in Nat /\ Floor < budget[r] /\ budget[r] # Floor
      BY <1>4, <2>3
    <3>. QED
      BY <1>4, <1>6, <3>1, LessTimes
  <2>5. refused'[r] - 1 = refused[r] /\ refused'[r] > 0
    BY <1>4, <2>1
  <2>6. /\ budget'[r] = Floor \/ budget'[r] * Power[Halvings(r)'] <= Full
        /\ Floor * Power[refused'[r] - 1] < Full
    BY <1>2, <1>6, <2>2, <2>4, <2>5
  <2>. QED
    BY <1>2, <1>3, <1>5, <1>7, <2>5, <2>6 DEF Refusals
<1>8. CASE o # "smaller"
  <2>1. ~Due(r)' /\ Halvings(r)' = refused'[r]
    BY <1>3, <1>8 DEF Due, Halvings
  <2>2. CASE refused' = refused
    <3>1. o # "parked" \/ refused[r] = 0
      BY <1>1, <1>4, <2>2
    <3>2. refused[r] > 0 => Floor * Power[refused[r] - 1] < Full
      BY DEF Refusals
    <3>. QED
      BY <1>2, <1>3, <1>5, <1>6, <2>1, <2>2, <3>1, <3>2 DEF Refusals
  <2>3. CASE refused' = [refused EXCEPT ![r] = 0]
    <3>1. refused'[r] = 0 /\ ~(refused'[r] > 0)
      BY <1>4, <2>3
    <3>2. budget'[r] * Power[Halvings(r)'] <= Full
      <4>1. budget'[r] \in Nat /\ budget'[r] <= Full
        BY <1>2, <1>4
      <4>2. Power[Halvings(r)'] = 1
        BY <2>1, <3>1, PowerIs
      <4>. QED
        BY <4>1, <4>2
    <3>. QED
      BY <1>5, <2>1, <3>1, <3>2 DEF Refusals
  <2>. QED
    BY <1>1, <1>8, <2>2, <2>3
<1>. QED
  BY <1>7, <1>8

LEMMA RefusedEndCycle ==
  ASSUME TypeOK, Refusals, EndCycle
  PROVE  Refusals'
<1>. USE DrainAssumption
<1>1. /\ pc = "cycle" /\ pc' = "head" /\ refused' = refused
      /\ \A r \in Route : budget'[r] =
           CASE r \in lanes /\ turn[r].is = "smaller" -> Halved(budget[r])
             [] r \in lanes /\ turn[r].is = "parked"  -> Full
             [] OTHER -> budget[r]
  BY DEF EndCycle
<1>2. ASSUME NEW r \in Route
      PROVE  budget'[r] = Floor \/ budget'[r] * Power[refused[r]] <= Full
  <2>1. refused[r] \in Nat /\ budget[r] \in Floor..Full
    BY DEF TypeOK
  <2>2. CASE r \in lanes /\ turn[r].is = "smaller"
    <3>1. Due(r) /\ refused[r] > 0 /\ Halvings(r) = refused[r] - 1
      BY <1>1, <2>2 DEF Refusals, Due, Halvings
    <3>2. budget'[r] = Halved(budget[r])
      BY <1>1, <2>2
    <3>3. PICK k \in Nat : refused[r] = k + 1 /\ Halvings(r) = k
      BY <2>1, <3>1
    <3>4. Power[k] \in Nat \ {0} /\ Power[refused[r]] = 2 * Power[k]
      BY <3>3, PowerIs
    <3>5. CASE budget[r] = Floor
      <4>1. ~(Floor \div 2 > Floor)
        OBVIOUS
      <4>. QED
        BY <3>2, <3>5, <4>1 DEF Halved
    <3>6. CASE budget[r] * Power[k] <= Full
      <4>1. budget[r] \in Nat /\ Full \in Nat
        BY <2>1
      <4>2. (budget[r] \div 2) * (2 * Power[k]) <= Full
        BY <3>4, <3>6, <4>1, HalfTimes
      <4>. QED
        BY <3>2, <3>4, <4>2 DEF Halved
    <3>. QED
      BY <3>3, <3>5, <3>6 DEF Refusals
  <2>3. CASE r \in lanes /\ turn[r].is = "parked"
    <3>1. refused[r] = 0 /\ budget'[r] = Full
      BY <1>1, <2>3 DEF Refusals
    <3>. QED
      BY <3>1, PowerIs
  <2>4. CASE ~(r \in lanes /\ turn[r].is \in {"smaller", "parked"})
    <3>1. budget'[r] = budget[r] /\ ~Due(r)
      BY <1>1, <2>4 DEF Refusals, Due
    <3>. QED
      BY <3>1 DEF Refusals, Halvings
  <2>. QED
    BY <2>2, <2>3, <2>4
<1>3. \A r \in Route : ~Due(r)' /\ Halvings(r)' = refused[r]
  BY <1>1 DEF Due, Halvings
<1>. QED
  BY <1>1, <1>2, <1>3 DEF Refusals

LEMMA RefusedStep ==
  ASSUME TypeOK, Refusals, [Next]_vars
  PROVE  Refusals'
<1>1. ASSUME BeginCycle
      PROVE  Refusals'
  <2>1. /\ pc = "head" /\ refused' = refused /\ budget' = budget /\ pc' = "cycle"
        /\ \A r \in Route : turn'[r] = NoTurn
    BY <1>1 DEF BeginCycle, lane
  <2>2. NoTurn.is = "none"
    BY DEF NoTurn
  <2>3. \A r \in Route : ~Due(r) /\ ~Due(r)' /\ Halvings(r)' = refused[r] /\ Halvings(r) = refused[r]
    BY <2>1, <2>2 DEF Due, Halvings
  <2>. QED
    BY <2>1, <2>2, <2>3 DEF Refusals
<1>2. ASSUME NEW r \in Route, OneBatch(r)
      PROVE  Refusals'
  BY <1>2, RefusedTurn
<1>3. ASSUME EndCycle
      PROVE  Refusals'
  BY <1>3, RefusedEndCycle
<1>4. ASSUME Deadline \/ EndDrain \/ UNCHANGED vars
      PROVE  Refusals'
  <2>1. /\ refused' = refused /\ budget' = budget /\ turn' = turn /\ lanes' = lanes
        /\ pc' = pc \/ (pc = "head" /\ pc' = "finished")
    BY <1>4 DEF Deadline, EndDrain, vars, lane
  <2>2. \A r \in Route : (Due(r)' <=> Due(r)) /\ Halvings(r)' = Halvings(r)
    BY <2>1 DEF Due, Halvings
  <2>. QED
    BY <2>1, <2>2 DEF Refusals
<1>. QED
  BY <1>1, <1>2, <1>3, <1>4 DEF Next

-----------------------------------------------------------------------------
(* Theorems *)

\* The types hold, and with them the bounds of the byte budget.
THEOREM DrainTypeCorrect == Spec => []TypeOK
<1>1. TypeOK /\ [Next]_vars => TypeOK'
  BY TypeStep
<1>. QED
  BY <1>1, InitType, PTL DEF Spec

THEOREM DrainInvariant == Spec => []DrainInv
<1>1. DrainInv /\ [Next]_vars => DrainInv'
  BY InvStep
<1>. QED
  BY <1>1, InvInit, PTL DEF Spec

\* However many lanes there are and whatever their endpoints answer, what leaves a
\* queue was accepted or parked, and what is reported as delivered was accepted.
THEOREM DrainSkipsNothing == Spec => []NothingSkipped
<1>1. DrainInv => NothingSkipped
  BY DEF DrainInv
<1>. QED
  BY <1>1, DrainInvariant, PTL

\* For every limit and every budget: no record is parked that would have fitted alone.
THEOREM ParksOnlyUnsendable == Spec => []OnlyUnsendable
<1>1. DrainInv => OnlyUnsendable
  BY DEF DrainInv
<1>. QED
  BY <1>1, DrainInvariant, PTL

\* For any number of lanes, the cycles of a drain keep their turns even.
THEOREM TurnsStayEven == Spec => []FairTurns
<1>1. DrainInv => FairTurns
  BY DEF DrainInv, TypeOK, InStep, FairTurns
<1>. QED
  BY <1>1, DrainInvariant, PTL

\* With time left a drain empties the queue of every lane that was not stopped, for any
\* number of lanes, records, budgets and limits.
THEOREM EmptiesWhatItCan == Spec => []EmptiedUnlessStopped
<1>1. EndInv => EmptiedUnlessStopped
  BY DEF EndInv, Closed, AllClosed, EmptiedUnlessStopped
<1>2. EndInv /\ [Next]_vars => EndInv'
  BY EndStep
<1>. QED
  BY <1>1, <1>2, EndInit, PTL DEF Spec

\* Where no two customers share a label, the reason a lane was stopped for is what the
\* drain's result holds for it (main.rs, the result map of drain).
THEOREM ReasonsAreKept ==
  ASSUME OwnLabels
  PROVE  Spec => []ReasonRecorded
<1>1. Init => Stopped
  BY DEF Init, Stopped
<1>2. TypeOK /\ Stopped /\ [Next]_vars => Stopped'
  BY StoppedStep
<1>3. Stopped => ReasonRecorded
  BY DEF Stopped, ReasonRecorded
<1>. QED
  BY <1>1, <1>2, <1>3, DrainTypeCorrect, PTL DEF Spec
\* However wide the budget is above its floor and whatever the records' sizes: a lane
\* is refused no oftener than its budget can be halved before it reaches the floor,
\* and then its front record leaves the queue.
THEOREM RefusalsAreFew == Spec => []FewRefusals
<1>1. Init => Refusals
  <2>. SUFFICES ASSUME Init PROVE Refusals
    OBVIOUS
  <2>1. \A r \in Route : ~Due(r) /\ refused[r] = 0 /\ Halvings(r) = 0 /\ budget[r] = Full
    BY DEF Init, Due, Halvings
  <2>2. Full * Power[0] <= Full /\ pc # "cycle"
    BY PowerIs, DrainAssumption DEF Init
  <2>. QED
    BY <2>1, <2>2 DEF Refusals
<1>2. TypeOK /\ Refusals /\ [Next]_vars => Refusals'
  BY RefusedStep
<1>3. Refusals => FewRefusals
  BY DEF Refusals, FewRefusals
<1>. QED
  BY <1>1, <1>2, <1>3, DrainTypeCorrect, PTL DEF Spec
=============================================================================
