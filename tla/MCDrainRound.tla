----------------------------- MODULE MCDrainRound -----------------------------
(* Small instances of DrainRound for TLC.  Records take 1 or 3 bytes, budgets   *)
(* go 7, 3, 2: the floor is wide enough for two small records, as 32 KiB is.    *)
EXTENDS DrainRound, TLC

CONSTANTS r1, r2, a, b

Two   == {r1, r2}
Apart == (r1 :> a) @@ (r2 :> b)

Loads(sizes) ==
  {e \in [0..MaxQueue -> 0..(3 * MaxQueue)] :
     e[0] = 0 /\ \A i \in 1..MaxQueue : e[i] - e[i - 1] \in sizes}
\* At most one record of a queue is big.
Wide == {e \in Loads({1, 3}) : e[MaxQueue] <= MaxQueue + 2}
=============================================================================
