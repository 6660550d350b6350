----------------------------- MODULE MCInitServices -----------------------------
(***************************************************************************)
(* Small instances of InitServices: services of a boot and their flags.  A  *)
(* behaviour of MixSpec is of one of three kinds, by the variable rc: the   *)
(* scripts of the configuration, scripts with exec, a console service and a *)
(* key chord, or a critical service.                                        *)
(***************************************************************************)
EXTENDS InitServices, TLC

CONSTANTS zygote, media, p1, p2, p3

VARIABLE rc

\* zygote restarts media; both are plain services
PlainRc == zygote :> {} @@ media :> {}
PlainClass == zygote :> "main" @@ media :> "core"
PlainOnRestart == zygote :> {media} @@ media :> {}

\* a console service and a disabled oneshot with a key chord, in one class
ShellRc == zygote :> {"CONSOLE"} @@ media :> {"ONESHOT", "DISABLED", "RC_DISABLED"}
ShellClass == zygote :> "core" @@ media :> "core"
ShellOnRestart == zygote :> {} @@ media :> {}

Exec == INSTANCE InitServices WITH
    RcFlags <- ShellRc, ClassOf <- ShellClass, OnRestart <- ShellOnRestart,
    Keyed <- {media}, Adbd <- {zygote}, Faults <- {"missing", "nofork"},
    Scripts <- {"class_start", "restart", "exec"}, Messages <- {}

\* one critical service
Critical == INSTANCE InitServices WITH
    Svc <- {zygote}, RcFlags <- zygote :> {"CRITICAL"}, ClassOf <- zygote :> "core",
    OnRestart <- zygote :> {}, Faults <- {}, Scripts <- {"start", "class_stop"},
    Messages <- {"restart"}, CrashWindow <- 3, CrashThreshold <- 2

PlainInit == Init /\ rc = "plain"
PlainNext == Next /\ UNCHANGED rc
PlainSpec == PlainInit /\ [][PlainNext]_<<vars, rc>> /\ Fairness

MixInit ==
    \/ rc = "plain" /\ Init
    \/ rc = "exec" /\ Exec!Init
    \/ rc = "critical" /\ Critical!Init
MixNext ==
    /\ UNCHANGED rc
    /\ \/ rc = "plain" /\ Next
       \/ rc = "exec" /\ Exec!Next
       \/ rc = "critical" /\ Critical!Next
MixSpec == MixInit /\ [][MixNext]_<<vars, rc>>

PidSymmetry == Permutations(Pids)

------------------------------------------------------------------------------
\* The properties of InitServices, for each kind of behaviour.

\* service_start, wait_for_one_process: the variables have their types (a crash
\* counter stays within its limit), and init's records agree with the processes
MixProcessTable ==
    CASE rc = "plain" -> TypeOK /\ ProcessTable
      [] rc = "exec" -> Exec!TypeOK /\ Exec!ProcessTable
      [] rc = "critical" -> Critical!TypeOK /\ Critical!ProcessTable
\* service_stop_or_reset: a service asked to stop stays down
MixStopHolds ==
    CASE rc = "plain" -> StopHolds [] rc = "exec" -> Exec!StopHolds [] rc = "critical" -> Critical!StopHolds
\* handle_signal: no exit is missed
MixNoLostExit ==
    CASE rc = "plain" -> NoLostExit [] rc = "exec" -> Exec!NoLostExit
      [] rc = "critical" -> Critical!NoLostExit
\* restart_processes: no service drops out of supervision (one whose fork fails
\* does: it is neither running, nor waiting, nor disabled)
MixNeverDropped == (rc = "plain" => NeverDropped) /\ (rc = "critical" => Critical!NeverDropped)
\* notify_service_state: init.svc.<name> agrees with SVC_RUNNING
MixNotifiedState ==
    CASE rc = "plain" -> NotifiedState [] rc = "exec" -> Exec!NotifiedState
      [] rc = "critical" -> Critical!NotifiedState
\* wait_for_one_process: a reboot into recovery mode has its reason
MixRecoveryJustified == rc = "critical" => Critical!RecoveryJustified
\* every step is one the promise of Supervisor allows
MixImplementsSupervisor ==
    /\ rc = "plain" => Promise!Init
    /\ rc = "exec" => Exec!Promise!Init
    /\ rc = "critical" => Critical!Promise!Init
    /\ [][CASE rc = "plain" -> [Promise!Next]_(Promise!vars)
            [] rc = "exec" -> [Exec!Promise!Next]_(Exec!Promise!vars)
            [] rc = "critical" -> [Critical!Promise!Next]_(Critical!Promise!vars)]_<<vars, rc>>
=============================================================================
