------------------------------ MODULE Supervisor ------------------------------
(***************************************************************************)
(* What init promises about the services it supervises, with no word about  *)
(* flags, pids, signals or the main loop.  A service is stopped, running or *)
(* waiting to be started again, and init either would bring it back after   *)
(* its process ends or would not.  The promise has three parts: only the    *)
(* end of a process that was to be kept makes a service wait for a restart, *)
(* such an end never leaves the service stopped, and the wait is finite.  A *)
(* reboot into recovery mode ends the promise.                              *)
(***************************************************************************)
CONSTANTS
    Services,    \* the services of the init language scripts
    OneShot      \* those declared oneshot: not brought back unless asked

VARIABLES
    st,          \* st[s] in {"stopped", "running", "restarting"}
    keep,        \* keep[s]: init does not hold s back
    down         \* the device has been rebooted into recovery mode

vars == <<st, keep, down>>

Init ==
    /\ st = [s \in Services |-> "stopped"]
    /\ keep \in [Services -> BOOLEAN]
    /\ down = FALSE

\* s is started: on request, or at the end of its wait.  It may fail, and then
\* the service is stopped.
Launch(s) ==
    /\ st[s] # "running"
    /\ st'[s] \in {"running", "stopped"}
    /\ st'[s] = "running" => keep'[s]

\* s is asked to start or to stop while its process runs, which it keeps doing.
Ask(s) ==
    /\ st[s] = "running"
    /\ st'[s] = "running"

\* s is held back while it has no process: a wait for a restart ends there.
HoldBack(s) ==
    /\ st[s] # "running"
    /\ st'[s] = "stopped"
    /\ ~keep'[s]

\* the process of s ends
Exit(s) ==
    /\ st[s] = "running"
    /\ st'[s] = IF keep'[s] THEN "restarting" ELSE "stopped"
    /\ keep'[s] # keep[s] => keep[s] /\ s \in OneShot

\* One request may be about several services: a class, or the services that
\* restart together with another one.
Step(s) ==
    \/ st'[s] = st[s] /\ keep'[s] = keep[s]
    \/ Launch(s)
    \/ Ask(s)
    \/ HoldBack(s)
    \/ Exit(s)

Next ==
    /\ st' \in [Services -> {"stopped", "running", "restarting"}]
    /\ keep' \in [Services -> BOOLEAN]
    /\ ~down
    /\ down' \/ \A s \in Services : Step(s)
    /\ down' \in BOOLEAN

Spec == Init /\ [][Next]_vars

\* the finite wait
NoEndlessWait == \A s \in Services : st[s] = "restarting" ~> st[s] # "restarting" \/ down
=============================================================================
