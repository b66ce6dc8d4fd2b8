------------------------------ MODULE Lifecycle ------------------------------
(***************************************************************************)
(* Which observer runs: the instance lock (singleton.rs), the background   *)
(* agent (agent.rs), the takeover by a foreground `run` (main.rs) and the  *)
(* replacement of the installed binary (update.rs).                        *)
(*                                                                         *)
(* A process is a terminal running one command, or a process launchd       *)
(* started for the agent; both `run` through the same code.  Every call to *)
(* launchctl, every test of the lock and every write of the binary is a    *)
(* step of its own, so commands interleave between them.  launchd, and the *)
(* people who start and interrupt commands, are external: an unload sends  *)
(* SIGTERM and returns, and the process ends in its own time; a loaded     *)
(* agent that has ended is started again (RunAtLoad, KeepAlive).           *)
(***************************************************************************)
EXTENDS Naturals, FiniteSets

CONSTANTS
  Terminal, Agent,   \* where commands run, and slots for launchd's processes
  NoProc,
  Version,           \* release binaries
  Corrupt,           \* a download that does not match its checksum
  Missing, Partial,  \* no binary, or an unfinished copy, at the install path
  Attempts,          \* attempts at the lock after an agent was released
  Offered,           \* bound: the commands people use
  Apart,             \* bound: commands nobody has under way at once
  MaxCommands, MaxKills

Command == {"run", "once", "start", "stop", "uninstall", "update"}
Proc == Terminal \cup Agent

ASSUME LifecycleAssumption ==
  /\ Terminal \cap Agent = {} /\ NoProc \notin Proc
  /\ {Corrupt, Missing, Partial} \cap Version = {}
  /\ Attempts \in Nat \ {0} /\ Offered \subseteq Command /\ Apart \subseteq SUBSET Command
  /\ MaxCommands \in Nat /\ MaxKills \in Nat

VARIABLES
  proc,       \* each process: its command, where it is, what it remembers
  holder,     \* who has observer.lock
  plist,      \* the LaunchAgent file exists
  loaded,     \* launchd knows the agent
  job,        \* the process launchd runs for it, or NoProc
  dying,      \* processes launchd has sent SIGTERM
  installed,  \* what is at the install path
  wanted,     \* history: the last command that settled it was a start
  spoiled,    \* history: an update ended while it was copying
  commands, kills

launchd == <<plist, loaded, job, dying>>
history == <<wanted, spoiled>>
bounds == <<commands, kills>>
vars == <<proc, holder, launchd, installed, history, bounds>>

Process(cmd, at, tries) ==
  [cmd |-> cmd, at |-> at, managed |-> FALSE, tries |-> tries, tag |-> Missing]
Idle == Process("idle", "idle", 0)
At(p, cmd, at) == proc[p].cmd = cmd /\ proc[p].at = at
Go(p, at) == proc' = [proc EXCEPT ![p].at = at]

\* A process ends: the operating system drops its lock, launchd notices.
End(p) ==
  /\ proc' = [proc EXCEPT ![p] = Idle]
  /\ holder' = IF holder = p THEN NoProc ELSE holder
  /\ job' = IF job = p THEN NoProc ELSE job
  /\ dying' = dying \ {p}
Ended(p) == End(p) /\ UNCHANGED <<plist, loaded>>

\* launchctl unload: nothing happens without the file, or to an agent that is
\* not loaded; the caller looks at neither outcome.
Unloaded ==
  /\ loaded' = (loaded /\ ~plist)
  /\ job' = IF plist THEN NoProc ELSE job
  /\ dying' = IF plist /\ job # NoProc THEN dying \cup {job} ELSE dying
  /\ UNCHANGED plist

Init ==
  /\ proc = [p \in Proc |-> Idle] /\ holder = NoProc
  /\ plist \in BOOLEAN /\ loaded = FALSE /\ job = NoProc /\ dying = {}
  /\ installed \in Version
  /\ wanted = FALSE /\ spoiled = FALSE /\ commands = 0 /\ kills = 0

-----------------------------------------------------------------------------
(* release_for_foreground, which run, stop and update begin with. *)

FirstStep(cmd) ==
  CASE cmd \in {"run", "stop"} -> "look" [] cmd = "once" -> "try"
    [] cmd = "start" -> "begin" [] cmd = "uninstall" -> "unload" [] cmd = "update" -> "fetch"

\* Someone types a command (external).
Launch(t, cmd) ==
  /\ proc[t] = Idle /\ commands < MaxCommands
  /\ \A u \in Terminal : {cmd, proc[u].cmd} \notin Apart
  /\ proc' = [proc EXCEPT ![t] =
       Process(cmd, FirstStep(cmd), IF cmd = "once" THEN 1 ELSE 0)]
  /\ commands' = commands + 1
  /\ UNCHANGED <<holder, launchd, installed, history, kills>>

\* Where a command goes on once an agent was, or was not, released: `run` asks
\* for the lock, more than once if it has released an agent.
Released(p, was) ==
  \/ proc[p].cmd = "run" /\ proc' = [proc EXCEPT ![p].at = "try", ![p].tries = IF was THEN Attempts ELSE 1]
  \/ proc[p].cmd = "update" /\ Go(p, "remove")
  \/ proc[p].cmd = "start" /\ Go(p, "load")
  \/ proc[p].cmd = "uninstall" /\ Go(p, "discard")

\* Mutated: the agent's own `run` leaves launchd alone.
Look_AgentStays(p) ==
  /\ proc[p].at = "look"
  /\ IF plist /\ loaded /\ p \notin Agent
     THEN Go(p, "unload") /\ UNCHANGED <<holder, job, dying, wanted>>
     ELSE /\ IF proc[p].cmd = "stop" THEN End(p)
             ELSE Released(p, FALSE) /\ UNCHANGED <<holder, job, dying>>
          /\ wanted' = (wanted /\ proc[p].cmd # "stop")
  /\ UNCHANGED <<plist, loaded, installed, spoiled, bounds>>

\* Is there an agent to release?
Look(p) ==
  /\ proc[p].at = "look"
  /\ IF plist /\ loaded
     THEN Go(p, "unload") /\ UNCHANGED <<holder, job, dying, wanted>>
     ELSE /\ IF proc[p].cmd = "stop" THEN End(p)
             ELSE Released(p, FALSE) /\ UNCHANGED <<holder, job, dying>>
          /\ wanted' = (wanted /\ proc[p].cmd # "stop")
  /\ UNCHANGED <<plist, loaded, installed, spoiled, bounds>>

\* launchctl unload, for whoever asked.
Unload(p) ==
  /\ proc[p].at = "unload"
  /\ IF proc[p].cmd = "stop" THEN proc' = [proc EXCEPT ![p] = Idle] ELSE Released(p, TRUE)
  /\ Unloaded
  /\ wanted' = (wanted /\ (p \in Agent \/ proc[p].cmd \notin {"run", "stop", "uninstall"}))
  /\ UNCHANGED <<holder, installed, spoiled, bounds>>

-----------------------------------------------------------------------------
(* The lock. *)

\* Mutated: the last failed attempt is not counted.
Try_Forever(p) ==
  /\ proc[p].at = "try"
  /\ IF holder = NoProc
     THEN holder' = p /\ Go(p, "watch") /\ UNCHANGED launchd
     ELSE UNCHANGED <<proc, holder, launchd>>
  /\ UNCHANGED <<installed, history, bounds>>

\* Mutated: after the last attempt it goes on without the lock.
Try_Regardless(p) ==
  /\ proc[p].at = "try"
  /\ IF holder = NoProc THEN holder' = p /\ Go(p, "watch")
     ELSE /\ IF proc[p].tries > 1 THEN proc' = [proc EXCEPT ![p].tries = @ - 1] ELSE Go(p, "watch")
          /\ UNCHANGED holder
  /\ UNCHANGED <<launchd, installed, history, bounds>>

\* One attempt at the lock, by run (acquire_foreground_lock) or by a command
\* that takes it once: run-once and clear-queue, which are alike here.
Try(p) ==
  /\ proc[p].at = "try"
  /\ IF holder = NoProc
     THEN holder' = p /\ Go(p, "watch") /\ UNCHANGED launchd
     ELSE IF proc[p].tries > 1
     THEN proc' = [proc EXCEPT ![p].tries = @ - 1] /\ UNCHANGED <<holder, launchd>>
     ELSE Ended(p)
  /\ UNCHANGED <<installed, history, bounds>>

\* run-once and clear-queue finish; run goes on for ever.
Finish(p) ==
  /\ At(p, "once", "watch") /\ Ended(p)
  /\ UNCHANGED <<installed, history, bounds>>

-----------------------------------------------------------------------------
(* start *)

\* already_loaded; otherwise the lock is taken, to see that it is free, ...
Begin(p) ==
  /\ At(p, "start", "begin")
  /\ IF loaded THEN proc' = [proc EXCEPT ![p].at = "write", ![p].managed = TRUE]
                    /\ UNCHANGED <<holder, launchd>>
     ELSE IF holder = NoProc THEN holder' = p /\ Go(p, "drop") /\ UNCHANGED launchd
     ELSE Ended(p)
  /\ UNCHANGED <<installed, history, bounds>>

\* ... and given back.
Drop(p) ==
  /\ At(p, "start", "drop")
  /\ holder' = NoProc
  /\ proc' = [proc EXCEPT ![p].at = "write", ![p].managed = FALSE]
  /\ UNCHANGED <<launchd, installed, history, bounds>>

WritePlist(p) ==
  /\ At(p, "start", "write")
  /\ plist' = TRUE
  /\ Go(p, IF proc[p].managed THEN "unload" ELSE "load")
  /\ UNCHANGED <<holder, loaded, job, dying, installed, history, bounds>>

\* launchctl load -w, which needs the file.
LoadAgent(p) ==
  /\ At(p, "start", "load")
  /\ loaded' = (loaded \/ plist) /\ wanted' = (wanted \/ plist)
  /\ proc' = [proc EXCEPT ![p] = Idle]
  /\ UNCHANGED <<holder, plist, job, dying, installed, spoiled, bounds>>

\* uninstall removes the file after its unload.
Discard(p) ==
  /\ At(p, "uninstall", "discard")
  /\ plist' = FALSE /\ proc' = [proc EXCEPT ![p] = Idle]
  /\ UNCHANGED <<holder, loaded, job, dying, installed, history, bounds>>

-----------------------------------------------------------------------------
(* update *)

\* Mutated: the checksum is not compared.
Verified_Any(got) == TRUE

\* The checksum of a download agrees with the published one.
Verified(got) == got # Corrupt

\* apply: find the tag, download, verify.  It stops there when GitHub does not
\* answer, the tag is installed already or the checksum differs; otherwise
\* manage_agent is decided.
Fetch(p) ==
  /\ At(p, "update", "fetch")
  /\ \/ Ended(p)
     \/ \E got \in Version \cup {Corrupt} :
          /\ installed # got /\ Verified(got)
          /\ proc' = [proc EXCEPT ![p].at = IF loaded THEN "look" ELSE "remove",
                                  ![p].managed = loaded, ![p].tag = got]
          /\ UNCHANGED <<holder, launchd>>
  /\ UNCHANGED <<installed, history, bounds>>

Remove(p) ==
  /\ At(p, "update", "remove")
  /\ installed' = Missing /\ Go(p, "copy")
  /\ UNCHANGED <<holder, launchd, history, bounds>>

\* fs::copy begins and finishes; either may fail, and that is the end.
Copy(p) ==
  /\ At(p, "update", "copy")
  /\ \/ installed' = Partial /\ Go(p, "copied") /\ UNCHANGED <<holder, launchd, spoiled>>
     \/ Ended(p) /\ spoiled' = TRUE /\ UNCHANGED installed
  /\ UNCHANGED <<wanted, bounds>>

\* The new binary's `start` takes over when there was an agent.
Copied(p) ==
  /\ At(p, "update", "copied")
  /\ \/ /\ installed' = proc[p].tag /\ UNCHANGED spoiled
        /\ IF proc[p].managed
           THEN proc' = [proc EXCEPT ![p] = Process("start", "begin", 0)]
                /\ UNCHANGED <<holder, launchd>>
           ELSE Ended(p)
     \/ Ended(p) /\ spoiled' = TRUE /\ UNCHANGED installed
  /\ UNCHANGED <<wanted, bounds>>

-----------------------------------------------------------------------------
(* launchd, crashes and Ctrl-C (external). *)

\* A loaded agent without a process gets one, if the binary runs.
Spawn(a) ==
  /\ loaded /\ job = NoProc /\ installed \in Version /\ proc[a] = Idle
  /\ job' = a
  /\ proc' = [proc EXCEPT ![a] = Process("run", "look", 0)]
  /\ UNCHANGED <<holder, plist, loaded, dying, installed, history, bounds>>

\* SIGTERM arrives.
Die(a) ==
  /\ a \in dying /\ Ended(a)
  /\ UNCHANGED <<installed, history, bounds>>

\* Ctrl-C, a closed terminal, a panic.
Kill(p) ==
  /\ proc[p] # Idle /\ kills < MaxKills
  /\ Ended(p) /\ kills' = kills + 1
  /\ spoiled' = (spoiled \/ proc[p].at \in {"copy", "copied"})
  /\ UNCHANGED <<installed, wanted, commands>>

Step(p) ==
  \/ Look(p) \/ Unload(p) \/ Try(p) \/ Finish(p)
  \/ Begin(p) \/ Drop(p) \/ WritePlist(p) \/ LoadAgent(p) \/ Discard(p)
  \/ Fetch(p) \/ Remove(p) \/ Copy(p) \/ Copied(p)

Next ==
  \/ \E p \in Proc : Step(p) \/ Kill(p)
  \/ \E t \in Terminal, cmd \in Offered : Launch(t, cmd)
  \/ \E a \in Agent : Spawn(a) \/ Die(a)

Spec == Init /\ [][Next]_vars

\* The scheduler runs every process; launchd starts the agent and delivers its
\* signals.  Nobody is obliged to type a command or to interrupt one.
Fairness ==
  /\ \A p \in Proc : WF_vars(Step(p))
  /\ \A a \in Agent : WF_vars(Die(a))
  /\ WF_vars(\E a \in Agent : Spawn(a))
FairSpec == Spec /\ Fairness

-----------------------------------------------------------------------------
(* Properties *)

\* Processes, launchd and the install path hold what they can hold; launchd's
\* process is one that runs.
TypeOK ==
  /\ proc \in [Proc -> [cmd : Command \cup {"idle"},
                        at : {"idle", "look", "unload", "try", "watch", "begin", "drop", "write",
                              "load", "discard", "fetch", "remove", "copy", "copied"},
                        managed : BOOLEAN, tries : 0..Attempts, tag : Version \cup {Missing}]]
  /\ holder \in Proc \cup {NoProc} /\ job \in Agent \cup {NoProc}
  /\ plist \in BOOLEAN /\ loaded \in BOOLEAN /\ dying \subseteq Agent
  /\ job # NoProc => loaded /\ job \notin dying /\ proc[job] # Idle
  /\ installed \in Version \cup {Missing, Partial}
  /\ wanted \in BOOLEAN /\ spoiled \in BOOLEAN
  /\ commands \in 0..MaxCommands /\ kills \in 0..MaxKills

\* Two processes never work on the offsets and the queues at once, however
\* takeovers, restarts and the probe of `start` interleave.
OneObserver ==
  \A p, q \in Proc : proc[p].at = "watch" /\ proc[q].at = "watch" => p = q

\* The install path holds a verified release unless an update is copying or
\* ended while it was: no download, checksum or agent can cost the binary.
BinaryWhole ==
  installed \in Version \/ spoiled \/ \E t \in Terminal : proc[t].at \in {"copy", "copied"}

\* Every command comes to an end, or to the watch loop, whoever has the lock.
EveryCommandEnds ==
  \A t \in Terminal : proc[t] # Idle ~> proc[t] = Idle \/ At(t, "run", "watch")

\* Once people leave it alone the agent is not restarted over and over for a
\* lock someone else has (what agent.rs:69 wants to avoid).
SettlesDown ==
  \A a \in Agent : <>[](proc[a] = Idle) \/ <>[](proc[a].at = "watch")

\* After the last start has succeeded, and nobody stopped it or ran another, an
\* observer runs (README.md: "a persistent background LaunchAgent").
StartedRuns == <>[](wanted => \E p \in Proc : proc[p].at = "watch")
=============================================================================
