------------------------------- MODULE MCInbox -------------------------------
(* One line is captured twice in a session, with one key, and once more in     *)
(* another thread: the key leaves the thread out.  The batches repeat a record, *)
(* cross files and share records.                                               *)
EXTENDS Inbox, TLC

CONSTANTS r1, again, r2, elsewhere, fa, fb, k1, k2

Lines == {r1, again, r2, elsewhere}
Keyed == (r1 :> k1) @@ (again :> k1) @@ (r2 :> k2) @@ (elsewhere :> k1)
Filed == (r1 :> fa) @@ (again :> fa) @@ (r2 :> fa) @@ (elsewhere :> fb)
Dated == (r1 :> 1) @@ (r2 :> 2) @@ (elsewhere :> 2) @@ (again :> 3)
Walked == <<fb, fa>>
Sound(batch) == [flaws |-> {}, batch |-> batch]
Requests ==
  {Sound(<<r1, elsewhere, again>>), Sound(<<elsewhere, r2>>),
   [flaws |-> {"fields"}, batch |-> <<elsewhere>>],
   [flaws |-> {"unsafeDevice"}, batch |-> <<elsewhere>>]}
=============================================================================
