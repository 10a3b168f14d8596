------------------------------- MODULE ModuleSet --------------------------------
(***************************************************************************)
(* What a Safe promises about its modules: a set that is opened once, to   *)
(* whatever the initializer enabled, and then changes by one module at a   *)
(* time.                                                                   *)
(***************************************************************************)
CONSTANT Candidate      \* the addresses that may become modules

VARIABLES open, enabled

vars == <<open, enabled>>

Init == ~open /\ enabled = {}

Open(ms) == ~open /\ open' /\ enabled' = ms

Enable(m) == open /\ open' /\ m \notin enabled /\ enabled' = enabled \cup {m}

Disable(m) == open /\ open' /\ m \in enabled /\ enabled' = enabled \ {m}

Next ==
  \/ \E ms \in SUBSET Candidate : Open(ms)
  \/ \E m \in Candidate : Enable(m) \/ Disable(m)

Spec == Init /\ [][Next]_vars
================================================================================
