------------------------------ MODULE MCDaemon ------------------------------
(* Model-checking instances of Daemon.                                     *)
EXTENDS Daemon, TLC

CONSTANTS c1, c2, c3, p1

Ask(a, b, c, waits) ==
  [kind |-> c1 :> a @@ c2 :> b @@ c3 :> c, waits |-> waits, up |-> {p1}]

\* Three prompts for one slot; a restart between two prompts; a turn that
\* holds the mutexes while others want them; a second daemon started by hand.
Mix == {Ask("send", "send", "send", {}), Ask("send", "shutdown", "send", {c1}),
        Ask("turn", "view", "cancel", {c1}), Ask("send", "daemon", "view", {c1})}

\* The daemon is started again while it serves.
TwoDaemons == {Ask("view", "daemon", "cancel", {})}
=============================================================================
