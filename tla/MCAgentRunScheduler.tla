------------------------ MODULE MCAgentRunScheduler ------------------------
(* Model-checking instances of AgentRunScheduler.  Runs wait for the mutex *)
(* in turn, so liveness is checked and no symmetry is taken.               *)
EXTENDS AgentRunScheduler
=============================================================================
