--------------------------- MODULE LifecycleProofs ---------------------------
(***************************************************************************)
(* One observer at a time, and a whole binary, for any number of           *)
(* terminals, agents and attempts, whatever commands people overlap.       *)
(***************************************************************************)
EXTENDS Lifecycle, TLAPS

At14 == {"idle", "look", "unload", "try", "watch", "begin", "drop", "write",
         "load", "discard", "fetch", "remove", "copy", "copied"}
State == [cmd : Command \cup {"idle"}, at : At14,
          managed : BOOLEAN, tries : 0..Attempts, tag : Version \cup {Missing}]

\* Which command can be where, and with what.
Shape(q, s) ==
  /\ q \in Agent => s.cmd \in {"idle", "run"}
  /\ s.at = "look" => s.cmd \in {"run", "stop", "update"}
  /\ s.at = "unload" => s.cmd \in {"run", "stop", "update", "start", "uninstall"}
  /\ s.at \in {"remove", "copy", "copied"} => s.cmd = "update"
  /\ s.cmd = "update" /\ s.at # "fetch" => s.tag \in Version
  /\ s.cmd = "idle" => s = Idle

Typed == proc \in [Proc -> State] /\ \A q \in Proc : Shape(q, proc[q])

\* Who works, and who probes the lock, has it.
Held == \A q \in Proc : proc[q].at \in {"watch", "drop"} => holder = q

\* launchd's process runs, and so does one that has its signal.
Launchd ==
  /\ job \in Agent \cup {NoProc} /\ dying \subseteq Agent
  /\ job # NoProc => loaded /\ job \notin dying
  /\ \A a \in Agent : a = job \/ a \in dying => proc[a] # Idle

Rest == /\ holder \in Proc \cup {NoProc} /\ plist \in BOOLEAN /\ loaded \in BOOLEAN
        /\ installed \in Version \cup {Missing, Partial}
        /\ wanted \in BOOLEAN /\ spoiled \in BOOLEAN
        /\ commands \in 0..MaxCommands /\ kills \in 0..MaxKills

Inv == Typed /\ Held /\ Launchd /\ Rest /\ BinaryWhole

-----------------------------------------------------------------------------
USE LifecycleAssumption

LEMMA IdleState == Idle \in State /\ (\A q : Shape(q, Idle))
  BY DEF Idle, Process, State, Shape, At14, Command

\* Who ends gives up the lock and leaves launchd's books.
LEMMA EndKeeps ==
  ASSUME Inv, NEW p \in Proc, End(p)
  PROVE  /\ Typed' /\ Held' /\ job' \in Agent \cup {NoProc} /\ dying' \subseteq Agent
         /\ holder' \in Proc \cup {NoProc}
         /\ loaded' = loaded => Launchd'
  <1>1. Typed'
    BY IdleState DEF Inv, Typed, End
  <1>2. Held' /\ holder' \in Proc \cup {NoProc}
    BY DEF Inv, Typed, Held, Rest, End, Idle, Process
  <1>3. job' \in Agent \cup {NoProc} /\ dying' \subseteq Agent /\ (loaded' = loaded => Launchd')
    BY DEF Inv, Typed, Launchd, End, Proc
  <1>. QED BY <1>1, <1>2, <1>3

\* One process moves on, neither into the lock nor out of existence.
LEMMA GoKeeps ==
  ASSUME Inv, NEW p \in Proc, NEW s \in State, Shape(p, s),
         proc' = [proc EXCEPT ![p] = s]
  PROVE  /\ Typed'
         /\ holder' = holder /\ (s.at \in {"watch", "drop"} => holder = p) => Held'
         /\ s.at # "idle" /\ job' = job /\ dying' = dying /\ loaded' = loaded => Launchd'
  <1>1. Typed'
    BY DEF Inv, Typed
  <1>2. holder' = holder /\ (s.at \in {"watch", "drop"} => holder = p) => Held'
    BY DEF Inv, Typed, Held
  <1>3. s.at # "idle" /\ job' = job /\ dying' = dying /\ loaded' = loaded => Launchd'
    <2>1. s.at # "idle" => s # Idle
      BY DEF Idle, Process
    <2>. QED BY <2>1 DEF Inv, Typed, Launchd, Proc
  <1>. QED BY <1>1, <1>2, <1>3

\* launchctl unload hands launchd's process over to its signal.
LEMMA UnloadedKeeps ==
  ASSUME Inv, Unloaded, \A a \in Agent : proc[a] # Idle => proc'[a] # Idle
  PROVE  Launchd' /\ loaded' \in BOOLEAN /\ plist' \in BOOLEAN
  BY DEF Inv, Launchd, Rest, Unloaded, Proc

-----------------------------------------------------------------------------
LEMMA InitInv == Init => Inv
  <1>. SUFFICES ASSUME Init PROVE Inv
    OBVIOUS
  <1>1. Typed
    BY IdleState DEF Init, Typed
  <1>2. Held
    BY DEF Init, Held, Idle, Process
  <1>3. Launchd
    BY DEF Init, Launchd, Proc
  <1>4. Rest
    <2>1. commands \in 0..MaxCommands /\ kills \in 0..MaxKills
      BY DEF Init
    <2>. QED BY <2>1, Zenon DEF Init, Rest
  <1>5. BinaryWhole
    BY DEF Init, BinaryWhole
  <1>. QED BY <1>1, <1>2, <1>3, <1>4, <1>5 DEF Inv

\* A terminal that is copying answers for the binary until it says how it ended.
LEMMA BinaryKept ==
  ASSUME Inv, NEW p \in Proc,
         \A q \in Proc \ {p} : proc'[q] = proc[q],
         installed' = installed,
         spoiled' = spoiled,
         proc[p].at \in {"copy", "copied"} => proc'[p].at \in {"copy", "copied"}
  PROVE  BinaryWhole'
  BY DEF Inv, BinaryWhole, Proc

LEMMA StateOf ==
  ASSUME Inv, NEW p \in Proc
  PROVE  /\ proc[p] \in State /\ Shape(p, proc[p]) /\ proc \in [Proc -> State]
         /\ proc[p].cmd = "idle" => proc[p].at = "idle"
  BY DEF Inv, Typed, Shape, Idle, Process

\* A command goes on: where, and with what.
Now(p, at, managed, tries, tag) ==
  [proc EXCEPT ![p] = [cmd |-> proc[p].cmd, at |-> at, managed |-> managed,
                       tries |-> tries, tag |-> tag]]

LEMMA Rewritten ==
  ASSUME Inv, NEW p \in Proc, NEW at, NEW b, NEW n
  PROVE  /\ Go(p, at) => proc' = Now(p, at, proc[p].managed, proc[p].tries, proc[p].tag)
         /\ [proc EXCEPT ![p].tries = n] = Now(p, proc[p].at, proc[p].managed, n, proc[p].tag)
         /\ [proc EXCEPT ![p].at = at, ![p].tries = n]
            = Now(p, at, proc[p].managed, n, proc[p].tag)
         /\ [proc EXCEPT ![p].at = at, ![p].managed = b]
            = Now(p, at, b, proc[p].tries, proc[p].tag)
  <1>1. proc[p] \in State /\ proc \in [Proc -> State]
    BY StateOf
  <1>2. /\ [proc[p] EXCEPT !.at = at]
           = [cmd |-> proc[p].cmd, at |-> at, managed |-> proc[p].managed,
              tries |-> proc[p].tries, tag |-> proc[p].tag]
        /\ [proc[p] EXCEPT !.tries = n]
           = [cmd |-> proc[p].cmd, at |-> proc[p].at, managed |-> proc[p].managed,
              tries |-> n, tag |-> proc[p].tag]
    BY <1>1 DEF State
  <1>3. Go(p, at) => proc' = Now(p, at, proc[p].managed, proc[p].tries, proc[p].tag)
    BY <1>2 DEF Go, Now
  <1>4. [proc EXCEPT ![p].tries = n] = Now(p, proc[p].at, proc[p].managed, n, proc[p].tag)
    BY <1>2 DEF Now
  <1>5. [proc EXCEPT ![p].at = at, ![p].tries = n] = Now(p, at, proc[p].managed, n, proc[p].tag)
    <2>1. [proc EXCEPT ![p].at = at, ![p].tries = n] = [proc EXCEPT ![p] = [proc[p] EXCEPT !.at = at, !.tries = n]]
      BY <1>1
    <2>2. ASSUME NEW r \in State, NEW x, x = [r EXCEPT !.at = at, !.tries = n]
          PROVE  x = [cmd |-> r.cmd, at |-> at, managed |-> r.managed,
            tries |-> n, tag |-> r.tag]
      BY <2>2 DEF State
    <2>. QED BY <1>1, <2>1, <2>2 DEF Now
  <1>6. [proc EXCEPT ![p].at = at, ![p].managed = b] = Now(p, at, b, proc[p].tries, proc[p].tag)
    <2>1. [proc EXCEPT ![p].at = at, ![p].managed = b] = [proc EXCEPT ![p] = [proc[p] EXCEPT !.at = at, !.managed = b]]
      BY <1>1
    <2>2. ASSUME NEW r \in State, NEW x, x = [r EXCEPT !.at = at, !.managed = b]
          PROVE  x = [cmd |-> r.cmd, at |-> at, managed |-> b,
            tries |-> r.tries, tag |-> r.tag]
      BY <2>2 DEF State
    <2>. QED BY <1>1, <2>1, <2>2 DEF Now
  <1>. QED BY <1>3, <1>4, <1>5, <1>6

LEMMA RewrittenAll ==
  ASSUME Inv, NEW p \in Proc, NEW at, NEW b, NEW g,
         proc' = [proc EXCEPT ![p].at = at, ![p].managed = b, ![p].tag = g]
  PROVE  proc' = Now(p, at, b, proc[p].tries, g)
  <1>1. proc[p] \in State
    BY StateOf
  <1>2. proc' = [proc EXCEPT ![p] = [proc[p] EXCEPT !.at = at, !.managed = b, !.tag = g]]
    BY StateOf
  <1>3. ASSUME NEW r \in State, NEW x, x = [r EXCEPT !.at = at, !.managed = b, !.tag = g]
        PROVE  x = [cmd |-> r.cmd, at |-> at, managed |-> b, tries |-> r.tries, tag |-> g]
    BY <1>3 DEF State
  <1>. QED BY <1>1, <1>2, <1>3 DEF Now

LEMMA NowKeeps ==
  ASSUME Inv, NEW p \in Proc, NEW at \in At14 \ {"idle"}, NEW b \in BOOLEAN,
         NEW n \in 0..Attempts, NEW g \in Version \cup {Missing},
         proc' = Now(p, at, b, n, g), proc[p].cmd # "idle",
         at = "look" => proc[p].cmd \in {"run", "stop", "update"},
         at = "unload" => proc[p].cmd \in {"run", "stop", "update", "start", "uninstall"},
         at \in {"remove", "copy", "copied"} => proc[p].cmd = "update",
         proc[p].cmd = "update" => g \in Version
  PROVE  /\ Typed' /\ proc'[p].at = at
         /\ \A q \in Proc \ {p} : proc'[q] = proc[q]
         /\ holder' = holder /\ (at \in {"watch", "drop"} => holder = p) => Held'
         /\ job' = job /\ dying' = dying /\ loaded' = loaded => Launchd'
         /\ \A a \in Agent : proc[a] # Idle => proc'[a] # Idle
  <1>. DEFINE s == [cmd |-> proc[p].cmd, at |-> at, managed |-> b, tries |-> n, tag |-> g]
  <1>1. proc' = [proc EXCEPT ![p] = s]
    BY DEF Now
  <1>2. s \in State /\ Shape(p, s)
    BY StateOf DEF State, Shape, At14
  <1>3. s # Idle
    BY DEF Idle, Process
  <1>6. s.at = at
    OBVIOUS
  <1>. HIDE DEF s
  <1>4. \A q \in Proc \ {p} : proc'[q] = proc[q]
    BY <1>1, StateOf
  <1>5. proc'[p] = s
    BY <1>1, StateOf
  <1>7. \A a \in Agent : proc[a] # Idle => proc'[a] # Idle
    BY <1>3, <1>4, <1>5 DEF Proc
  <1>. QED BY <1>1, <1>2, <1>4, <1>5, <1>6, <1>7, GoKeeps

\* The same for a step that changes nothing but where the process is.
LEMMA MoveKeeps ==
  ASSUME Inv, NEW p \in Proc, NEW at \in At14 \ {"idle"}, Go(p, at), proc[p].cmd # "idle",
         at = "look" => proc[p].cmd \in {"run", "stop", "update"},
         at = "unload" => proc[p].cmd \in {"run", "stop", "update", "start", "uninstall"},
         at \in {"remove", "copy", "copied"} => proc[p].cmd = "update",
         proc[p].cmd = "update" => proc[p].tag \in Version
  PROVE  /\ Typed' /\ proc'[p].at = at
         /\ \A q \in Proc \ {p} : proc'[q] = proc[q]
         /\ holder' = holder /\ (at \in {"watch", "drop"} => holder = p) => Held'
         /\ job' = job /\ dying' = dying /\ loaded' = loaded => Launchd'
         /\ \A a \in Agent : proc[a] # Idle => proc'[a] # Idle
  <1>1. proc' = Now(p, at, proc[p].managed, proc[p].tries, proc[p].tag)
    BY Rewritten
  <1>2. /\ proc[p].managed \in BOOLEAN /\ proc[p].tries \in 0..Attempts
        /\ proc[p].tag \in Version \cup {Missing}
    BY StateOf DEF State
  <1>. QED BY <1>1, <1>2, NowKeeps

\* Whoever is released goes on, and touches nobody else.
LEMMA ReleasedKeeps ==
  ASSUME Inv, NEW p \in Proc, NEW was \in BOOLEAN, Released(p, was),
         proc[p].cmd \in {"run", "update", "start", "uninstall"},
         proc[p].at \in {"look", "unload"}
  PROVE  /\ Typed'
         /\ \A q \in Proc \ {p} : proc'[q] = proc[q]
         /\ holder' = holder => Held'
         /\ job' = job /\ dying' = dying /\ loaded' = loaded => Launchd'
         /\ \A a \in Agent : proc[a] # Idle => proc'[a] # Idle
  <1>1. CASE proc[p].cmd = "run"
    <2>1. \E n \in 0..Attempts : proc' = Now(p, "try", proc[p].managed, n, proc[p].tag)
      <3>1. PICK n \in 0..Attempts : n = IF was THEN Attempts ELSE 1
        OBVIOUS
      <3>2. proc' = [proc EXCEPT ![p].at = "try", ![p].tries = n]
        BY <1>1, <3>1, Zenon DEF Released
      <3>3. [proc EXCEPT ![p].at = "try", ![p].tries = n]
            = Now(p, "try", proc[p].managed, n, proc[p].tag)
        BY Rewritten
      <3>. QED BY <3>2, <3>3, Zenon
    <2>2. PICK n \in 0..Attempts : proc' = Now(p, "try", proc[p].managed, n, proc[p].tag)
      BY <2>1
    <2>3. proc[p].managed \in BOOLEAN /\ proc[p].tag \in Version \cup {Missing}
      BY StateOf DEF State
    <2>4. "try" \in At14 \ {"idle"}
      BY DEF At14
    <2>. QED BY <1>1, <2>2, <2>3, <2>4, NowKeeps
  <1>2. ASSUME NEW at \in {"remove", "load", "discard"}, Go(p, at),
               proc[p].cmd # "run", at = "remove" => proc[p].cmd = "update"
        PROVE  /\ Typed'
               /\ \A q \in Proc \ {p} : proc'[q] = proc[q]
               /\ holder' = holder => Held'
               /\ job' = job /\ dying' = dying /\ loaded' = loaded => Launchd'
               /\ \A a \in Agent : proc[a] # Idle => proc'[a] # Idle
    <2>1. at \in At14 \ {"idle"}
      BY DEF At14
    <2>2. proc[p].cmd = "update" => proc[p].tag \in Version
      BY StateOf DEF Shape
    <2>. QED BY <1>2, <2>1, <2>2, MoveKeeps
  <1>3. CASE proc[p].cmd = "update"
    BY <1>2, <1>3 DEF Released
  <1>4. CASE proc[p].cmd = "start"
    BY <1>2, <1>4 DEF Released
  <1>5. CASE proc[p].cmd = "uninstall"
    BY <1>2, <1>5 DEF Released
  <1>. QED BY <1>1, <1>3, <1>4, <1>5

\* A command other than run is over; no agent is touched.
LEMMA QuitKeeps ==
  ASSUME Inv, NEW p \in Proc, proc[p].cmd \notin {"idle", "run"},
         proc' = [proc EXCEPT ![p] = Idle]
  PROVE  /\ Typed' /\ proc'[p].at = "idle"
         /\ \A q \in Proc \ {p} : proc'[q] = proc[q]
         /\ holder' = holder => Held'
         /\ \A a \in Agent : proc'[a] = proc[a]
  <1>1. p \notin Agent
    BY StateOf DEF Shape
  <1>2. proc'[p] = Idle /\ \A q \in Proc \ {p} : proc'[q] = proc[q]
    BY StateOf
  <1>3. Idle.at = "idle"
    BY DEF Idle, Process
  <1>4. Typed'
    BY IdleState DEF Inv, Typed
  <1>5. holder' = holder => Held'
    BY <1>2, <1>3 DEF Inv, Held
  <1>. QED BY <1>1, <1>2, <1>3, <1>4, <1>5 DEF Proc

LEMMA Others ==
  ASSUME Inv, NEW p \in Proc, End(p)
  PROVE  \A q \in Proc \ {p} : proc'[q] = proc[q]
  BY StateOf DEF End

LEMMA Whole ==
  ASSUME Inv, Typed', Held', Launchd', BinaryWhole', holder' \in Proc \cup {NoProc},
         plist' \in BOOLEAN, loaded' \in BOOLEAN, wanted' \in BOOLEAN,
         UNCHANGED <<installed, spoiled, bounds>>
  PROVE  Inv'
  BY DEF Inv, Rest, bounds

\* The history of starts is a flag whatever is compared.
LEMMA Flag == ASSUME wanted \in BOOLEAN, NEW b PROVE (wanted /\ b) \in BOOLEAN
  OBVIOUS

-----------------------------------------------------------------------------
(* Every step keeps the invariant. *)

LEMMA LookKeeps == ASSUME Inv, NEW p \in Proc, Look(p) PROVE Inv'
  <1>0. /\ proc[p].at = "look" /\ proc[p].cmd \in {"run", "stop", "update"}
        /\ proc[p].cmd = "update" => proc[p].tag \in Version
        /\ UNCHANGED <<plist, loaded, installed, spoiled, bounds>>
        /\ "unload" \in At14 \ {"idle"}
    BY StateOf DEF Look, Shape, At14
  <1>1. CASE Go(p, "unload") /\ UNCHANGED <<holder, job, dying, wanted>>
    <2>1. Typed' /\ Held' /\ Launchd' /\ BinaryWhole'
      BY <1>0, <1>1, MoveKeeps, BinaryKept
    <2>. QED BY <1>0, <1>1, <2>1, Whole DEF Inv, Rest
  <1>2. CASE proc[p].cmd = "stop" /\ End(p) /\ wanted' = (wanted /\ proc[p].cmd # "stop")
    <2>1. Typed' /\ Held' /\ Launchd' /\ BinaryWhole' /\ holder' \in Proc \cup {NoProc}
      BY <1>0, <1>2, EndKeeps, Others, BinaryKept
    <2>. QED BY <1>0, <1>2, <2>1, Whole, Flag DEF Inv, Rest
  <1>3. CASE /\ proc[p].cmd # "stop" /\ Released(p, FALSE) /\ UNCHANGED <<holder, job, dying>>
             /\ wanted' = (wanted /\ proc[p].cmd # "stop")
    <2>1. Typed' /\ Held' /\ Launchd' /\ BinaryWhole'
      BY <1>0, <1>3, ReleasedKeeps, BinaryKept
    <2>. QED BY <1>0, <1>3, <2>1, Whole, Flag DEF Inv, Rest
  <1>. QED BY <1>1, <1>2, <1>3, Zenon DEF Look

LEMMA UnloadKeeps == ASSUME Inv, NEW p \in Proc, Unload(p) PROVE Inv'
  <1>0. /\ proc[p].at = "unload"
        /\ proc[p].cmd \in {"run", "stop", "update", "start", "uninstall"}
        /\ UNCHANGED <<holder, installed, spoiled, bounds>> /\ Unloaded
    BY StateOf DEF Unload, Shape
  <1>1. wanted' \in BOOLEAN
    BY Zenon DEF Unload, Inv, Rest
  <1>2. /\ Typed' /\ Held' /\ \A q \in Proc \ {p} : proc'[q] = proc[q]
        /\ \A a \in Agent : proc[a] # Idle => proc'[a] # Idle
    <2>1. CASE proc[p].cmd = "stop"
      BY <1>0, <2>1, QuitKeeps DEF Unload
    <2>2. CASE proc[p].cmd # "stop"
      BY <1>0, <2>2, ReleasedKeeps DEF Unload
    <2>. QED BY <2>1, <2>2
  <1>3. Launchd' /\ loaded' \in BOOLEAN /\ plist' \in BOOLEAN
    BY <1>0, <1>2, UnloadedKeeps
  <1>4. BinaryWhole'
    BY <1>0, <1>2, BinaryKept
  <1>. QED BY <1>0, <1>1, <1>2, <1>3, <1>4, Whole DEF Inv, Rest

\* A process that ends without a word about the binary.
LEMMA EndedKeeps ==
  ASSUME Inv, NEW p \in Proc, Ended(p), UNCHANGED <<installed, bounds>>,
         spoiled' = spoiled \/ spoiled' = TRUE, wanted' = wanted,
         spoiled' \/ proc[p].at \notin {"copy", "copied"}
  PROVE  Inv'
  <1>1. /\ Typed' /\ Held' /\ Launchd' /\ holder' \in Proc \cup {NoProc}
        /\ \A q \in Proc \ {p} : proc'[q] = proc[q]
    BY EndKeeps, Others DEF Ended
  <1>2. BinaryWhole'
    <2>1. CASE spoiled'
      BY <2>1 DEF BinaryWhole
    <2>2. CASE ~spoiled'
      BY <1>1, <2>2, BinaryKept
    <2>. QED BY <2>1, <2>2
  <1>3. spoiled' \in BOOLEAN /\ wanted' \in BOOLEAN /\ plist' \in BOOLEAN /\ loaded' \in BOOLEAN
    BY Zenon DEF Inv, Rest, Ended
  <1>. QED BY <1>1, <1>2, <1>3 DEF Inv, Rest, bounds

LEMMA TryKeeps == ASSUME Inv, NEW p \in Proc, Try(p) PROVE Inv'
  <1>0. proc[p].at = "try" /\ proc[p].cmd # "idle" /\ UNCHANGED <<installed, history, bounds>>
    BY StateOf DEF Try
  <1>1. CASE holder = NoProc /\ holder' = p /\ Go(p, "watch") /\ UNCHANGED launchd
    <2>1. Typed' /\ proc'[p].at = "watch" /\ Launchd' /\ \A q \in Proc \ {p} : proc'[q] = proc[q]
      BY <1>0, <1>1, MoveKeeps, StateOf DEF launchd, At14, Shape
    <2>2. Held'
      BY <1>1, <2>1 DEF Inv, Held, Proc
    <2>3. BinaryWhole'
      BY <1>0, <2>1, BinaryKept DEF history
    <2>. QED BY <1>0, <1>1, <2>1, <2>2, <2>3, Whole DEF Inv, Rest, launchd, history
  <1>2. CASE /\ proc[p].tries > 1 /\ proc' = [proc EXCEPT ![p].tries = @ - 1]
             /\ UNCHANGED <<holder, launchd>>
    <2>1. PICK n \in 0..Attempts : n = proc[p].tries - 1
      BY <1>2, StateOf DEF State
    <2>2. proc' = [proc EXCEPT ![p].tries = n]
      BY <1>2, <2>1
    <2>3. proc' = Now(p, "try", proc[p].managed, n, proc[p].tag)
      BY <1>0, <2>2, Rewritten
    <2>4. proc[p].managed \in BOOLEAN /\ proc[p].tag \in Version \cup {Missing}
          /\ (proc[p].cmd = "update" => proc[p].tag \in Version) /\ "try" \in At14 \ {"idle"}
      BY <1>0, StateOf DEF State, Shape, At14
    <2>5. UNCHANGED <<holder, job, dying, loaded, plist, wanted, spoiled, installed, bounds>>
      BY <1>0, <1>2 DEF launchd, history
    <2>6. /\ Typed' /\ Held' /\ Launchd' /\ proc'[p].at = "try"
          /\ \A q \in Proc \ {p} : proc'[q] = proc[q]
      BY <1>0, <2>3, <2>4, <2>5, NowKeeps
    <2>7. BinaryWhole'
      BY <1>0, <2>5, <2>6, BinaryKept
    <2>. QED BY <2>5, <2>6, <2>7, Whole DEF Inv, Rest
  <1>3. CASE Ended(p)
    BY <1>0, <1>3, EndedKeeps DEF history
  <1>. QED BY <1>0, <1>1, <1>2, <1>3, Zenon DEF Try

LEMMA BeginKeeps == ASSUME Inv, NEW p \in Proc, Begin(p) PROVE Inv'
  <1>0. /\ proc[p].at = "begin" /\ proc[p].cmd = "start"
        /\ UNCHANGED <<installed, wanted, spoiled, bounds>>
    BY DEF Begin, At, history
  <1>. "write" \in At14 \ {"idle"} /\ "drop" \in At14 \ {"idle"}
    BY DEF At14
  <1>1. CASE /\ proc' = [proc EXCEPT ![p].at = "write", ![p].managed = TRUE]
             /\ UNCHANGED <<holder, launchd>>
    <2>1. PICK b \in BOOLEAN : b = TRUE
      OBVIOUS
    <2>2. proc' = Now(p, "write", TRUE, proc[p].tries, proc[p].tag)
      BY <1>1, Rewritten, Zenon
    <2>3. proc[p].tries \in 0..Attempts /\ proc[p].tag \in Version \cup {Missing}
      BY StateOf DEF State
    <2>4. UNCHANGED <<holder, job, dying, loaded, plist>>
      BY <1>1 DEF launchd
    <2>5. Typed' /\ Held' /\ Launchd' /\ \A q \in Proc \ {p} : proc'[q] = proc[q]
      BY <1>0, <2>2, <2>3, <2>4, NowKeeps
    <2>6. BinaryWhole'
      BY <1>0, <2>5, BinaryKept
    <2>. QED BY <1>0, <2>4, <2>5, <2>6, Whole DEF Inv, Rest
  <1>2. CASE holder = NoProc /\ holder' = p /\ Go(p, "drop") /\ UNCHANGED launchd
    <2>1. Typed' /\ proc'[p].at = "drop" /\ Launchd' /\ \A q \in Proc \ {p} : proc'[q] = proc[q]
      BY <1>0, <1>2, MoveKeeps DEF launchd
    <2>2. Held'
      BY <1>2, <2>1 DEF Inv, Held, Proc
    <2>3. BinaryWhole'
      BY <1>0, <2>1, BinaryKept
    <2>. QED BY <1>0, <1>2, <2>1, <2>2, <2>3, Whole DEF Inv, Rest, launchd
  <1>3. CASE Ended(p)
    BY <1>0, <1>3, EndedKeeps
  <1>. QED BY <1>1, <1>2, <1>3, Zenon DEF Begin

\* The probe gives back what it holds: nobody worked behind it.
LEMMA DropKeeps == ASSUME Inv, NEW p \in Proc, Drop(p) PROVE Inv'
  <1>0. /\ proc[p].at = "drop" /\ proc[p].cmd = "start" /\ holder' = NoProc
        /\ UNCHANGED <<plist, loaded, job, dying, installed, wanted, spoiled, bounds>>
    BY DEF Drop, At, history, launchd
  <1>. "write" \in At14 \ {"idle"}
    BY DEF At14
  <1>1. proc' = Now(p, "write", FALSE, proc[p].tries, proc[p].tag)
    <2>1. proc' = [proc EXCEPT ![p].at = "write", ![p].managed = FALSE]
      BY Zenon DEF Drop
    <2>. QED BY <2>1, Rewritten, Zenon
  <1>2. proc[p].tries \in 0..Attempts /\ proc[p].tag \in Version \cup {Missing}
    BY StateOf DEF State
  <1>3. Typed' /\ Launchd' /\ proc'[p].at = "write" /\ \A q \in Proc \ {p} : proc'[q] = proc[q]
    BY <1>0, <1>1, <1>2, NowKeeps
  <1>4. Held'
    BY <1>0, <1>3 DEF Inv, Held
  <1>5. BinaryWhole'
    BY <1>0, <1>3, BinaryKept
  <1>. QED BY <1>0, <1>3, <1>4, <1>5, Whole DEF Inv, Rest

LEMMA WritePlistKeeps == ASSUME Inv, NEW p \in Proc, WritePlist(p) PROVE Inv'
  <1>0. /\ proc[p].at = "write" /\ proc[p].cmd = "start" /\ plist' = TRUE
        /\ UNCHANGED <<holder, loaded, job, dying, installed, wanted, spoiled, bounds>>
    BY DEF WritePlist, At, history
  <1>1. ASSUME NEW at \in {"unload", "load"}, Go(p, at) PROVE Inv'
    <2>0. at \in At14 \ {"idle"}
      BY DEF At14
    <2>1. Typed' /\ Held' /\ Launchd' /\ \A q \in Proc \ {p} : proc'[q] = proc[q]
      BY <1>0, <1>1, <2>0, MoveKeeps
    <2>2. BinaryWhole'
      BY <1>0, <2>1, BinaryKept
    <2>. QED BY <1>0, <2>1, <2>2, Whole DEF Inv, Rest
  <1>. QED BY <1>1 DEF WritePlist

\* start and uninstall end, and no agent notices.
LEMMA LastStepKeeps ==
  ASSUME Inv, NEW p \in Proc, LoadAgent(p) \/ Discard(p)
  PROVE  Inv'
  <1>0. /\ proc[p].cmd \in {"start", "uninstall"} /\ proc[p].at \in {"load", "discard"}
        /\ proc' = [proc EXCEPT ![p] = Idle]
        /\ UNCHANGED <<holder, job, dying, installed, spoiled, bounds>>
    BY DEF LoadAgent, Discard, At, history
  <1>5. loaded => loaded'
    BY Zenon DEF LoadAgent, Discard
  <1>1. plist' \in BOOLEAN /\ loaded' \in BOOLEAN /\ wanted' \in BOOLEAN
    BY Zenon DEF LoadAgent, Discard, history, Inv, Rest
  <1>2. /\ Typed' /\ Held' /\ \A q \in Proc \ {p} : proc'[q] = proc[q]
        /\ \A a \in Agent : proc'[a] = proc[a]
    BY <1>0, QuitKeeps
  <1>3. Launchd'
    BY <1>0, <1>2, <1>5 DEF Inv, Launchd
  <1>4. BinaryWhole'
    BY <1>0, <1>2, BinaryKept
  <1>. QED BY <1>0, <1>1, <1>2, <1>3, <1>4, Whole DEF Inv, Rest

LEMMA FetchKeeps == ASSUME Inv, NEW p \in Proc, Fetch(p) PROVE Inv'
  <1>0. /\ proc[p].at = "fetch" /\ proc[p].cmd = "update"
        /\ UNCHANGED <<installed, wanted, spoiled, bounds>>
    BY DEF Fetch, At, history
  <1>1. CASE Ended(p)
    BY <1>0, <1>1, EndedKeeps
  <1>2. ASSUME NEW got \in Version \cup {Corrupt}, Verified(got),
               proc' = [proc EXCEPT ![p].at = IF loaded THEN "look" ELSE "remove",
                                    ![p].managed = loaded, ![p].tag = got],
               UNCHANGED <<holder, launchd>>
        PROVE  Inv'
    <2>1. PICK at \in {"look", "remove"} : at = IF loaded THEN "look" ELSE "remove"
      OBVIOUS
    <2>2. at \in At14 \ {"idle"} /\ got \in Version /\ loaded \in BOOLEAN
      BY <1>2 DEF At14, Verified, Inv, Rest
    <2>9. PICK b \in BOOLEAN : b = loaded
      BY <2>2, Zenon
    <2>3. proc' = [proc EXCEPT ![p].at = at, ![p].managed = b, ![p].tag = got]
      BY <1>2, <2>1, <2>9, Zenon
    <2>4. proc' = Now(p, at, b, proc[p].tries, got)
      BY <2>3, RewrittenAll
    <2>5. proc[p].tries \in 0..Attempts
      BY StateOf DEF State
    <2>6. UNCHANGED <<holder, job, dying, loaded, plist>>
      BY <1>2 DEF launchd
    <2>7. Typed' /\ Held' /\ Launchd' /\ \A q \in Proc \ {p} : proc'[q] = proc[q]
      BY <1>0, <2>1, <2>2, <2>4, <2>5, <2>6, NowKeeps
    <2>8. BinaryWhole'
      BY <1>0, <2>7, BinaryKept
    <2>. QED BY <1>0, <2>6, <2>7, <2>8, Whole DEF Inv, Rest
  <1>. QED BY <1>1, <1>2, Zenon DEF Fetch

\* The path is empty, or half a binary, only while the terminal that made it so
\* is still there to answer for it.
LEMMA CopyingKeeps ==
  ASSUME Inv, NEW p \in Proc, NEW at \in {"copy", "copied"}, Go(p, at),
         proc[p].cmd = "update", proc[p].at \in {"remove", "copy"},
         installed' \in {Missing, Partial},
         UNCHANGED <<holder, plist, loaded, job, dying, wanted, spoiled, bounds>>
  PROVE  Inv'
  <1>1. at \in At14 \ {"idle"} /\ (proc[p].cmd = "update" => proc[p].tag \in Version)
    BY StateOf DEF At14, Shape
  <1>2. Typed' /\ Held' /\ Launchd' /\ proc'[p].at = at
    BY <1>1, MoveKeeps
  <1>3. p \in Terminal
    BY StateOf DEF Shape, Proc
  <1>4. BinaryWhole'
    BY <1>2, <1>3 DEF BinaryWhole
  <1>. QED BY <1>2, <1>4 DEF Inv, Rest, bounds

\* The new binary is in place: whoever else is copying may go on.
LEMMA InstalledKeeps ==
  ASSUME Inv, Typed', Held', Launchd', holder' \in Proc \cup {NoProc}, installed' \in Version,
         UNCHANGED <<plist, loaded, wanted, spoiled, bounds>>
  PROVE  Inv'
  BY DEF Inv, Rest, bounds, BinaryWhole

LEMMA UpdateKeeps ==
  ASSUME Inv, NEW p \in Proc, Remove(p) \/ Copy(p) \/ Copied(p)
  PROVE  Inv'
  <1>1. CASE Remove(p)
    <2>1. /\ Go(p, "copy") /\ proc[p].cmd = "update" /\ proc[p].at = "remove"
          /\ installed' \in {Missing, Partial}
          /\ UNCHANGED <<holder, plist, loaded, job, dying, wanted, spoiled, bounds>>
      BY <1>1 DEF Remove, At, launchd, history
    <2>. QED BY <2>1, CopyingKeeps
  <1>2. CASE Copy(p)
    <2>1. proc[p].cmd = "update" /\ proc[p].at = "copy" /\ UNCHANGED <<wanted, bounds>>
      BY <1>2 DEF Copy, At
    <2>2. CASE installed' = Partial /\ Go(p, "copied") /\ UNCHANGED <<holder, launchd, spoiled>>
      <3>1. UNCHANGED <<plist, loaded, job, dying>>
        BY <2>2 DEF launchd
      <3>. QED BY <2>1, <2>2, <3>1, CopyingKeeps
    <2>3. CASE Ended(p) /\ spoiled' = TRUE /\ UNCHANGED installed
      BY <2>1, <2>3, EndedKeeps
    <2>. QED BY <1>2, <2>2, <2>3, Zenon DEF Copy
  <1>3. CASE Copied(p)
    <2>1. /\ proc[p].cmd = "update" /\ proc[p].at = "copied" /\ UNCHANGED <<wanted, bounds>>
          /\ proc[p].tag \in Version
      BY <1>3, StateOf DEF Copied, At, Shape
    <2>2. CASE /\ installed' = proc[p].tag /\ UNCHANGED <<spoiled, holder, launchd>>
               /\ proc' = [proc EXCEPT ![p] = Process("start", "begin", 0)]
      <3>. DEFINE s == Process("start", "begin", 0)
      <3>1. s \in State /\ Shape(p, s) /\ s.at = "begin"
        <4>1. p \notin Agent
          BY <2>1, StateOf DEF Shape
        <4>. QED BY <4>1 DEF Process, State, Shape, At14, Command
      <3>2. Typed' /\ Held' /\ Launchd'
        BY <2>2, <3>1, GoKeeps DEF launchd
      <3>. QED BY <2>1, <2>2, <3>2, InstalledKeeps DEF launchd, Inv, Rest
    <2>3. CASE installed' = proc[p].tag /\ UNCHANGED spoiled /\ Ended(p)
      <3>1. Typed' /\ Held' /\ Launchd' /\ holder' \in Proc \cup {NoProc}
        BY <2>3, EndKeeps DEF Ended
      <3>. QED BY <2>1, <2>3, <3>1, InstalledKeeps DEF Ended
    <2>4. CASE Ended(p) /\ spoiled' = TRUE /\ UNCHANGED installed
      BY <2>1, <2>4, EndedKeeps
    <2>. QED BY <1>3, <2>2, <2>3, <2>4, Zenon DEF Copied
  <1>. QED BY <1>1, <1>2, <1>3

LEMMA LaunchKeeps ==
  ASSUME Inv, NEW t \in Terminal, NEW cmd \in Offered, Launch(t, cmd)
  PROVE  Inv'
  <1>. DEFINE s == Process(cmd, FirstStep(cmd), IF cmd = "once" THEN 1 ELSE 0)
  <1>1. /\ proc[t] = Idle /\ commands < MaxCommands /\ proc' = [proc EXCEPT ![t] = s]
        /\ commands' = commands + 1
        /\ UNCHANGED <<holder, plist, loaded, job, dying, installed, wanted, spoiled, kills>>
    BY DEF Launch, launchd, history
  <1>2. t \in Proc /\ t \notin Agent /\ cmd \in Command
    BY DEF Proc
  <1>3. s = [cmd |-> cmd, at |-> FirstStep(cmd), managed |-> FALSE,
             tries |-> IF cmd = "once" THEN 1 ELSE 0, tag |-> Missing]
    BY DEF Process
  <1>4. FirstStep(cmd) \in {"look", "try", "begin", "unload", "fetch"}
    BY <1>2 DEF FirstStep, Command
  <1>5. s \in State
    <2>1. PICK n \in 0..Attempts : n = IF cmd = "once" THEN 1 ELSE 0
      OBVIOUS
    <2>2. PICK at \in At14 : at = FirstStep(cmd)
      BY <1>4 DEF At14
    <2>3. s = [cmd |-> cmd, at |-> at, managed |-> FALSE, tries |-> n, tag |-> Missing]
      BY <1>3, <2>1, <2>2, Zenon
    <2>. HIDE DEF s
    <2>. QED BY <1>2, <2>3 DEF State
  <1>6. Shape(t, s)
    BY <1>2, <1>3 DEF Shape, FirstStep, Command
  <1>7. s.at = FirstStep(cmd)
    BY <1>3
  <1>. HIDE DEF s
  <1>8. Typed' /\ Held' /\ Launchd'
    BY <1>1, <1>2, <1>4, <1>5, <1>6, <1>7, GoKeeps
  <1>9. BinaryWhole'
    <2>1. \A q \in Proc \ {t} : proc'[q] = proc[q]
      BY <1>1, <1>2, StateOf
    <2>2. proc[t].at = "idle"
      BY <1>1 DEF Idle, Process
    <2>. QED BY <1>1, <1>2, <2>1, <2>2, BinaryKept
  <1>10. commands' \in 0..MaxCommands
    BY <1>1 DEF Inv, Rest
  <1>. QED BY <1>1, <1>8, <1>9, <1>10 DEF Inv, Rest

LEMMA SpawnKeeps == ASSUME Inv, NEW a \in Agent, Spawn(a) PROVE Inv'
  <1>. DEFINE s == Process("run", "look", 0)
  <1>1. /\ loaded /\ job = NoProc /\ proc[a] = Idle /\ job' = a
        /\ proc' = [proc EXCEPT ![a] = s]
        /\ UNCHANGED <<holder, plist, loaded, dying, installed, wanted, spoiled, bounds>>
    BY DEF Spawn, history
  <1>2. s \in State /\ Shape(a, s) /\ s.at = "look" /\ s # Idle
    BY DEF Idle, Process, State, Shape, At14, Command
  <1>. HIDE DEF s
  <1>3. a \in Proc
    BY DEF Proc
  <1>4. Typed' /\ Held'
    BY <1>1, <1>2, <1>3, GoKeeps
  <1>5. proc'[a] = s /\ \A q \in Proc \ {a} : proc'[q] = proc[q]
    BY <1>1, <1>3, StateOf
  <1>6. Launchd'
    BY <1>1, <1>2, <1>5 DEF Inv, Launchd, Proc
  <1>7. BinaryWhole'
    <2>1. proc[a].at = "idle"
      BY <1>1 DEF Idle, Process
    <2>. QED BY <1>1, <1>3, <1>5, <2>1, BinaryKept
  <1>. QED BY <1>1, <1>4, <1>6, <1>7, Whole DEF Inv, Rest

LEMMA EndKeepsAll ==
  ASSUME Inv, NEW p \in Proc, Finish(p) \/ Kill(p) \/ (p \in Agent /\ Die(p))
  PROVE  Inv'
  <1>1. CASE Finish(p)
    <2>1. Ended(p) /\ UNCHANGED <<installed, bounds, wanted, spoiled>> /\ proc[p].at = "watch"
      BY <1>1 DEF Finish, At, history
    <2>. QED BY <2>1, EndedKeeps
  <1>2. CASE p \in Agent /\ Die(p)
    <2>1. Ended(p) /\ UNCHANGED <<installed, bounds, wanted, spoiled>>
      BY <1>2 DEF Die, history
    <2>2. proc[p].at \notin {"copy", "copied"}
      BY <1>2, StateOf DEF Shape
    <2>. QED BY <2>1, <2>2, EndedKeeps
  <1>3. CASE Kill(p)
    <2>1. Ended(p) /\ UNCHANGED <<installed, wanted, commands>> /\ kills' = kills + 1 /\ kills < MaxKills
      BY <1>3 DEF Kill
    <2>2. Typed' /\ Held' /\ Launchd' /\ holder' \in Proc \cup {NoProc}
          /\ \A q \in Proc \ {p} : proc'[q] = proc[q]
      BY <2>1, EndKeeps, Others DEF Ended
    <2>3. spoiled' = (spoiled \/ proc[p].at \in {"copy", "copied"})
      BY <1>3 DEF Kill
    <2>4. BinaryWhole'
      <3>1. CASE proc[p].at \in {"copy", "copied"}
        BY <2>3, <3>1, Zenon DEF BinaryWhole
      <3>2. CASE proc[p].at \notin {"copy", "copied"}
        <4>1. spoiled' = spoiled
          BY <2>3, <3>2, Zenon DEF Inv, Rest
        <4>. QED BY <2>1, <2>2, <3>2, <4>1, BinaryKept
      <3>. QED BY <3>1, <3>2
    <2>5. spoiled' \in BOOLEAN /\ wanted' \in BOOLEAN /\ plist' \in BOOLEAN /\ loaded' \in BOOLEAN
      BY <2>1, <2>3, Zenon DEF Inv, Rest, Ended
    <2>6. kills' \in 0..MaxKills
      BY <2>1 DEF Inv, Rest
    <2>. QED BY <2>1, <2>2, <2>4, <2>5, <2>6 DEF Inv, Rest
  <1>. QED BY <1>1, <1>2, <1>3

LEMMA StepKeeps == ASSUME Inv, [Next]_vars PROVE Inv'
  <1>1. ASSUME NEW p \in Proc, Step(p) PROVE Inv'
    BY <1>1, LookKeeps, UnloadKeeps, TryKeeps, EndKeepsAll, BeginKeeps, DropKeeps, WritePlistKeeps,
       LastStepKeeps, FetchKeeps, UpdateKeeps DEF Step
  <1>2. ASSUME NEW a \in Agent, Spawn(a) \/ Die(a) PROVE Inv'
    BY <1>2, SpawnKeeps, EndKeepsAll DEF Proc
  <1>3. CASE UNCHANGED vars
    BY <1>3 DEF vars, launchd, history, bounds, Inv, Typed, Held, Launchd, Rest, BinaryWhole
  <1>. QED BY <1>1, <1>2, <1>3, LaunchKeeps, EndKeepsAll DEF Next

\* The inductive invariant: which command can be where, who holds the lock,
\* what launchd's processes are, and who answers for the binary.
THEOREM LifecycleInvariant == Spec => []Inv
  <1>. QED BY InitInv, StepKeeps, PTL DEF Spec

\* Two processes never work at once (singleton.rs, agent.rs, main.rs), however
\* many terminals, agents and attempts there are: whoever works has the lock.
THEOREM OneWorks == Spec => []OneObserver
  <1>1. Inv => OneObserver
    BY DEF Inv, Held, OneObserver
  <1>. QED BY <1>1, LifecycleInvariant, PTL

\* The install path holds a verified release unless an update is copying, or
\* ended while it was (update.rs), whichever commands people overlap.
THEOREM BinaryStaysWhole == Spec => []BinaryWhole
  <1>1. Inv => BinaryWhole
    BY DEF Inv
  <1>. QED BY <1>1, LifecycleInvariant, PTL

\* Processes, launchd and the install path hold what they can hold.
THEOREM LifecycleTypeCorrect == Spec => []TypeOK
  <1>1. Inv => TypeOK
    <2>. SUFFICES ASSUME Inv PROVE TypeOK
      OBVIOUS
    <2>1. proc \in [Proc -> [cmd : Command \cup {"idle"},
                        at : {"idle", "look", "unload", "try", "watch", "begin", "drop", "write",
                              "load", "discard", "fetch", "remove", "copy", "copied"},
                        managed : BOOLEAN, tries : 0..Attempts, tag : Version \cup {Missing}]]
      BY DEF Inv, Typed, State, At14
    <2>2. job # NoProc => loaded /\ job \notin dying /\ proc[job] # Idle
      BY DEF Inv, Launchd
    <2>. QED BY <2>1, <2>2, Zenon DEF Inv, Rest, Launchd, TypeOK
  <1>. QED BY <1>1, LifecycleInvariant, PTL
=============================================================================
