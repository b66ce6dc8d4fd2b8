----------------------------- MODULE MCLifecycle -----------------------------
(* Two terminals and launchd; a process of an unloaded agent may outlive it    *)
(* into the next, hence two slots for agents.                                   *)
EXTENDS Lifecycle
=============================================================================
