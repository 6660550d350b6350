------------------------------ MODULE InitServices ------------------------------
(***************************************************************************)
(* init as a supervisor of services: the service functions and main loop of *)
(* init.c, the SIGCHLD path of signal_handler.c, the service commands of    *)
(* builtins.c, control messages and key chords.  The kernel's side (the     *)
(* children of init, their exits, pids that are used again, the clock) is   *)
(* the environment.  Times are kept as ages, counted up to the largest age  *)
(* the code tells apart, so the clock itself is not bounded.                *)
(***************************************************************************)
EXTENDS Integers, Sequences, FiniteSets

CONSTANTS
    Svc,             \* the services of service_list
    Pids, NoPid,     \* process ids, and the code's 0
    RcFlags,         \* RcFlags[s]: the flags the init language gives s
    ClassOf,         \* ClassOf[s]: the class of s
    OnRestart,       \* OnRestart[s]: the services its onrestart commands restart
    Keyed,           \* the services with a key chord
    Adbd,            \* the service adbd, as a set of at most one
    Debuggable,      \* ro.debuggable is 1
    HaveConsole,     \* have_console, once console_init has run
    Faults,          \* what may go wrong when a service is started
    Scripts,         \* the service commands the init language scripts contain
    Messages,        \* the control messages other programs send
    BootCommands,    \* bound: commands run before signal_init
    RestartDelay,    \* 5 seconds in the code
    CrashWindow,     \* CRITICAL_CRASH_WINDOW, 240 seconds in the code
    CrashThreshold   \* CRITICAL_CRASH_THRESHOLD, 4 in the code

Flags == {"DISABLED", "ONESHOT", "RUNNING", "RESTARTING", "CONSOLE", "CRITICAL",
          "RESET", "RC_DISABLED", "RESTART"}
Failures == {"missing", "nofork"}
ServiceCommands == {"start", "stop", "restart", "class_start", "class_stop", "class_reset", "exec"}
Execs == "exec" \in Scripts
MaxAge == IF RestartDelay > CrashWindow THEN RestartDelay ELSE CrashWindow + 1

ASSUME ServiceConstants ==
    /\ IsFiniteSet(Svc)
    /\ NoPid \notin Pids
    /\ Pids \cap Failures = {}
    /\ Svc \cap {"exec", "orphan", "nobody"} = {}
    /\ RcFlags \in [Svc -> SUBSET {"DISABLED", "ONESHOT", "CONSOLE", "CRITICAL", "RC_DISABLED"}]
    /\ \A s \in Svc : "DISABLED" \in RcFlags[s] <=> "RC_DISABLED" \in RcFlags[s]
    /\ OnRestart \in [Svc -> SUBSET Svc]
    /\ \A s \in Svc : s \notin OnRestart[s]
    /\ Keyed \subseteq Svc /\ Adbd \subseteq Svc
    /\ Debuggable \in BOOLEAN /\ HaveConsole \in BOOLEAN
    /\ Scripts \subseteq ServiceCommands /\ Messages \subseteq {"start", "stop", "restart"}
    /\ Faults \subseteq Failures
    /\ BootCommands \in Nat
    /\ {RestartDelay, CrashWindow, CrashThreshold} \subseteq Nat \ {0}

VARIABLES
    svc,       \* svc[s]: struct service, with times as ages
    proc,      \* proc[p]: the kernel's view of child p of init
    whose,     \* whose[p]: what p was forked for: a service, an exec, an orphan
    uptime,    \* gettime(), counted up to MaxAge
    sig,       \* a byte is in the socket sigchld_handler writes to
    handler,   \* "none", "installing" or "on": how far signal_init is
    boot,      \* commands still to run before signal_init
    needs,     \* process_needs_restart as time left, -1 for none or no longer read
    ready,     \* descriptors poll returned that are still to be handled
    execpid,   \* the child do_exec waits for
    pc,        \* where the main loop is
    stopped,   \* history: the services whose last request was to stop
    exits      \* history: ages of the recent exits of each critical service

vars == <<svc, proc, whose, uptime, sig, handler, boot, needs, ready, execpid, pc, stopped, exits>>
kernel == <<uptime, sig, handler>>

Init ==
    /\ svc = [s \in Svc |-> [flags |-> RcFlags[s], pid |-> NoPid, sinceStart |-> 0,
                             sinceCrash |-> 0, nr_crashed |-> 0, state |-> "none"]]
    /\ proc = [p \in Pids |-> "none"]
    /\ whose = [p \in Pids |-> "nobody"]
    /\ uptime = 0 /\ sig = FALSE /\ handler = "none"
    /\ boot = BootCommands
    /\ needs = -1 /\ ready = {} /\ execpid = NoPid /\ pc = "cmd"
    /\ stopped = {}
    /\ exits = [s \in Svc |-> <<>>]

------------------------------------------------------------------------------
\* What one call does to the struct service it is about.

\* a process that runs needs no second one
isRunning_again(r) == FALSE
isRunning(r) == "RUNNING" \in r.flags

\* service_start after the fork, in init
forked(r, answer) ==
    IF answer = "nofork" THEN [r EXCEPT !.pid = NoPid]
    ELSE [r EXCEPT !.flags = @ \cup {"RUNNING"}, !.pid = answer, !.sinceStart = 0, !.state = "running"]

\* service_start(svc, dynamic_args); answer is what the kernel says: the pid of
\* the child, "missing" for a failed stat, "nofork" for a failed fork (or a
\* security context that cannot be computed).
service_start(r, dynamic, answer) ==
    LET cleared == [r EXCEPT !.flags = @ \ {"DISABLED", "RESTARTING", "RESET", "RESTART"},
                             !.sinceStart = IF uptime < RestartDelay THEN uptime ELSE RestartDelay]
        refused == \/ "CONSOLE" \in r.flags /\ ~HaveConsole
                   \/ answer = "missing"
                   \/ dynamic /\ "ONESHOT" \notin r.flags
    IN IF isRunning(r) THEN cleared
       ELSE IF refused THEN [cleared EXCEPT !.flags = @ \cup {"DISABLED"}]
       ELSE forked(cleared, answer)

\* service_stop_or_reset(svc, how): the kill is in Effect
service_stop_forgetful(r, how) ==
    [r EXCEPT !.flags = @ \cup {how}, !.state = IF r.pid # NoPid THEN "stopping" ELSE "stopped"]
service_stop_hasty(r, how) ==
    [r EXCEPT !.flags = (@ \ {"RESTARTING"}) \cup {how}, !.state = "stopped"]
service_stop_or_reset(r, how) ==
    LET mark == IF how = "RESET" /\ "RC_DISABLED" \in r.flags THEN "DISABLED" ELSE how
    IN [r EXCEPT !.flags = (@ \ {"RESTARTING"}) \cup {mark},
                 !.state = IF r.pid # NoPid THEN "stopping" ELSE "stopped"]

\* service_restart(svc)
service_restart(r, answer) ==
    IF "RUNNING" \in r.flags THEN service_stop_or_reset(r, "RESTART")
    ELSE IF "RESTARTING" \notin r.flags THEN service_start(r, FALSE, answer)
    ELSE r

\* wait_for_one_process: a oneshot that ended is disabled
oneShotDone_any(flags) == "RESTART" \notin flags
oneShotDone(flags) == "ONESHOT" \in flags /\ "RESTART" \notin flags

\* ... disabled and reset processes are not restarted
heldBack(flags) == flags \cap {"DISABLED", "RESET"} # {}

\* ... a crash belongs to the crashes counted since time_crashed
inWindow_always(r) == TRUE
inWindow(r) == r.sinceCrash <= CrashWindow

\* ... and is one too many
tooMany(r) == inWindow(r) /\ r.nr_crashed >= CrashThreshold

\* ... the others wait for restart_processes
awaits_nothing(flags) == flags \ {"RESTART"}
awaits(flags) == (flags \ {"RESTART"}) \cup {"RESTARTING"}

\* wait_for_one_process up to the onrestart commands: what the exit of its
\* process does to a service.
exited(r) ==
    LET gone == [r EXCEPT !.pid = NoPid, !.flags = (@ \ {"RUNNING"}) \cup
                     (IF oneShotDone(@) THEN {"DISABLED"} ELSE {})]
        counted == "CRITICAL" \in r.flags /\ "RESTART" \notin r.flags
        waiting == [gone EXCEPT !.flags = awaits(@), !.state = "restarting"]
    IN IF heldBack(gone.flags) THEN [gone EXCEPT !.state = "stopped"]
       ELSE IF ~counted THEN waiting
       ELSE IF ~inWindow(r) THEN [waiting EXCEPT !.sinceCrash = 0, !.nr_crashed = 1]
       ELSE IF tooMany(r) THEN [gone EXCEPT !.nr_crashed = @ + 1]
       ELSE [waiting EXCEPT !.nr_crashed = @ + 1]

\* the exit makes init reboot the device into recovery mode
givesUp(r) ==
    /\ {"DISABLED", "RESET", "RESTART", "ONESHOT"} \cap r.flags = {}
    /\ "CRITICAL" \in r.flags
    /\ tooMany(r)

------------------------------------------------------------------------------
\* Requests.

Free == {p \in Pids : proc[p] = "none"}

\* what the kernel may answer when the services of T are started: distinct pids
Answers(T) ==
    {a \in [T -> Free \cup Faults] :
        \A s, t \in T : s # t /\ a[s] = a[t] => a[s] \in Faults}

\* The services take their new records; the ones that began to run have a new
\* child, the process groups of the killed ones get SIGKILL, the reaped are gone.
Effect(new, killed, reaped) ==
    LET child(p) == {s \in Svc : "RUNNING" \in new[s].flags \ svc[s].flags /\ new[s].pid = p}
        hit == {svc[s].pid : s \in killed}
    IN /\ svc' = new
       /\ proc' = [p \in Pids |-> IF p \in reaped THEN "none"
                                  ELSE IF child(p) # {} THEN "alive"
                                  ELSE IF p \in hit /\ proc[p] = "alive" THEN "dying"
                                  ELSE proc[p]]
       /\ whose' = [p \in Pids |-> IF child(p) # {} THEN CHOOSE s \in child(p) : TRUE
                                   ELSE IF p \in reaped THEN "nobody"
                                   ELSE whose[p]]

Start(T, dynamic) ==
    /\ \E a \in Answers(T) :
           Effect([s \in Svc |-> IF s \in T THEN service_start(svc[s], dynamic, a[s]) ELSE svc[s]], {}, {})
    /\ stopped' = stopped \ T

Stop(T, how) ==
    /\ Effect([s \in Svc |-> IF s \in T THEN service_stop_or_reset(svc[s], how) ELSE svc[s]], T, {})
    /\ stopped' = stopped \cup T

Restart(T) ==
    /\ \E a \in Answers(T) :
           Effect([s \in Svc |-> IF s \in T THEN service_restart(svc[s], a[s]) ELSE svc[s]],
                  {s \in T : "RUNNING" \in svc[s].flags}, {})
    /\ stopped' = stopped \ T

------------------------------------------------------------------------------
\* execute_one_command: one command of the current action, if there is one.
\* Commands before signal_init are counted down; signal_init is one of them.

Command(name, then) ==
    /\ pc = "cmd"
    /\ name \in Scripts \cup {"none"}
    /\ boot > 0 \/ handler = "on"
    /\ boot' = IF boot > 0 THEN boot - 1 ELSE 0
    /\ pc' = then
    /\ UNCHANGED <<kernel, needs, ready, exits>>

no_command    == Command("none", "restart") /\ UNCHANGED <<svc, proc, whose, stopped, execpid>>
do_start      == Command("start", "restart") /\ (\E s \in Svc : Start({s}, FALSE)) /\ UNCHANGED execpid
do_stop       == Command("stop", "restart") /\ (\E s \in Svc : Stop({s}, "DISABLED")) /\ UNCHANGED execpid
do_restart    == Command("restart", "restart") /\ (\E s \in Svc : Restart({s})) /\ UNCHANGED execpid

InClass(c) == {s \in Svc : ClassOf[s] = c}

\* service_start_if_not_disabled on every service of the class
do_class_start ==
    /\ Command("class_start", "restart")
    /\ \E s \in Svc : Start({t \in InClass(ClassOf[s]) : "DISABLED" \notin svc[t].flags}, FALSE)
    /\ UNCHANGED execpid

do_class_stop ==
    /\ Command("class_stop", "restart")
    /\ \E s \in Svc : Stop(InClass(ClassOf[s]), "DISABLED")
    /\ UNCHANGED execpid

do_class_reset ==
    /\ Command("class_reset", "restart")
    /\ \E s \in Svc : Stop(InClass(ClassOf[s]), "RESET")
    /\ UNCHANGED execpid

\* do_exec: fork, then wait for the child; a failed fork waits as well, for
\* a wait() that returns -1
do_exec ==
    /\ Command("exec", "exec")
    /\ \E a \in Free \cup (Faults \cap {"nofork"}) :
           /\ execpid' = IF a \in Free THEN a ELSE NoPid
           /\ proc' = [p \in Pids |-> IF p = a THEN "alive" ELSE proc[p]]
           /\ whose' = [p \in Pids |-> IF p = a THEN "exec" ELSE whose[p]]
    /\ UNCHANGED <<svc, stopped>>

\* one turn of  while (wait(&status) != pid);
exec_wait ==
    /\ pc = "exec"
    /\ \/ \E p \in Pids :
              /\ proc[p] = "zombie"
              /\ Effect(svc, {}, {p})
              /\ pc' = IF p = execpid THEN "restart" ELSE "exec"
              /\ execpid' = IF p = execpid THEN NoPid ELSE execpid
       \/ /\ execpid = NoPid
          /\ Free = Pids
          /\ pc' = "restart"
          /\ UNCHANGED <<svc, proc, whose, execpid>>
    /\ UNCHANGED <<kernel, boot, needs, ready, stopped, exits>>

\* signal_init: install the handler and the socket, then handle_signal
signal_init ==
    /\ pc = "cmd" /\ boot = 0 /\ handler = "none"
    /\ handler' = "installing"
    /\ pc' = "reap"
    /\ UNCHANGED <<svc, proc, whose, uptime, sig, boot, needs, ready, execpid, stopped, exits>>

------------------------------------------------------------------------------
\* restart_processes: the services that wait and are due start, the others set
\* process_needs_restart.
next_wakeup_none(left) == -1
next_wakeup(left) == IF left = {} THEN -1 ELSE CHOOSE t \in left : \A u \in left : t <= u

restart_processes ==
    LET waiting == {s \in Svc : "RESTARTING" \in svc[s].flags}
        due == {s \in waiting : svc[s].sinceStart >= RestartDelay}
        left == {RestartDelay - svc[s].sinceStart : s \in waiting \ due}
    IN /\ pc = "restart"
       /\ \E a \in Answers(due) :
              Effect([s \in Svc |-> IF s \in due THEN service_start(svc[s], FALSE, a[s]) ELSE svc[s]], {}, {})
       /\ needs' = next_wakeup(left)
       /\ pc' = "poll"
       /\ UNCHANGED <<kernel, boot, ready, execpid, stopped, exits>>

\* poll returns with env, the messages and key chords there are, and the
\* signal socket when there is a byte in it.  WakeUp has to happen: a
\* descriptor or the timeout is ready, or commands of the boot are queued.
Returns(env) ==
    /\ ready' = env \cup (IF sig /\ handler = "on" THEN {"signal"} ELSE {})
    /\ pc' = IF ready' = {} THEN "cmd" ELSE "dispatch"
    /\ needs' = -1
    /\ UNCHANGED <<svc, proc, whose, kernel, boot, execpid, stopped, exits>>

Inputs == SUBSET ((IF handler = "on" THEN {"property"} ELSE {})
                  \cup (IF Keyed # {} THEN {"keychord"} ELSE {}))

WakeUp_no_timeout ==
    /\ pc = "poll"
    /\ handler # "on" \/ sig
    /\ \E env \in Inputs : Returns(env)

WakeUp ==
    /\ pc = "poll"
    /\ handler # "on" \/ sig \/ needs = 0
    /\ \E env \in Inputs : Returns(env)

\* a message or a key chord arrived, or an action is queued (timeout 0)
Wanted ==
    /\ pc = "poll"
    /\ ~(handler # "on" \/ sig \/ needs = 0)
    /\ \E env \in Inputs : Returns(env)

Handled(fd) ==
    /\ pc = "dispatch"
    /\ fd \in ready
    /\ ready' = ready \ {fd}
    /\ pc' = IF ready' = {} THEN "cmd" ELSE "dispatch"
    /\ UNCHANGED <<kernel, boot, needs, execpid, exits>>

\* handle_keychord starts a service only when debugging is allowed
handle_keychord ==
    /\ Handled("keychord")
    /\ IF Debuggable \/ \E a \in Adbd : svc[a].state = "running"
       THEN \/ \E s \in Keyed : Start({s}, FALSE)
            \/ UNCHANGED <<svc, proc, whose, stopped>>
       ELSE UNCHANGED <<svc, proc, whose, stopped>>

\* handle_property_set_fd with a ctl.* message: handle_control_message.  Other
\* messages change no service.
handle_control_message ==
    /\ "keychord" \notin ready
    /\ Handled("property")
    /\ \/ "start" \in Messages /\ \E s \in Svc, dynamic \in BOOLEAN : Start({s}, dynamic)
       \/ "stop" \in Messages /\ \E s \in Svc : Stop({s}, "DISABLED")
       \/ "restart" \in Messages /\ \E s \in Svc : Restart({s})
       \/ UNCHANGED <<svc, proc, whose, stopped>>

\* handle_signal: read the socket, then reap until no child has ended
handle_signal ==
    /\ pc = "dispatch" /\ ready = {"signal"}
    /\ sig' = FALSE
    /\ ready' = {}
    /\ pc' = "reap"
    /\ UNCHANGED <<svc, proc, whose, uptime, handler, boot, needs, execpid, stopped, exits>>

\* wait_for_one_process, for a child p that has ended: its service's record, the
\* onrestart commands, and the reboot into recovery mode.
wait_for_one_process(p) ==
    LET found == {s \in Svc : svc[s].pid = p}
        again(s) == IF "RESTARTING" \in exited(svc[s]).flags THEN OnRestart[s] ELSE {}
        counted(s) == /\ "CRITICAL" \in svc[s].flags
                      /\ svc[s].flags \cap {"RESTART", "DISABLED", "RESET", "ONESHOT"} = {}
        recent(l) == IF Len(l) > CrashThreshold THEN Tail(l) ELSE l
    IN /\ pc = "reap"
       /\ proc[p] = "zombie"
       /\ \/ /\ found = {}
             /\ Effect(svc, {}, {p})
             /\ UNCHANGED <<pc, stopped, exits>>
          \/ \E s \in found : \E a \in Answers(again(s)) :
             /\ Effect([t \in Svc |-> IF t = s THEN exited(svc[s])
                                      ELSE IF t \in again(s) THEN service_restart(svc[t], a[t])
                                      ELSE svc[t]],
                       {t \in again(s) : "RUNNING" \in svc[t].flags}, {p})
             /\ stopped' = stopped \ again(s)
             /\ exits' = [exits EXCEPT ![s] = IF counted(s) THEN Append(recent(@), 0) ELSE @]
             /\ pc' = IF givesUp(svc[s]) THEN "recovery" ELSE "reap"
       /\ UNCHANGED <<kernel, boot, needs, ready, execpid>>

\* no child has ended: waitpid returns 0 and handle_signal is over, back in the
\* main loop or in signal_init
reaped_one ==
    /\ pc = "reap"
    /\ handler' = "on"
    /\ pc' = IF handler = "installing" THEN "restart" ELSE "cmd"
    /\ UNCHANGED <<svc, proc, whose, uptime, sig, boot, needs, ready, execpid, stopped, exits>>

reaped ==
    /\ pc = "reap"
    /\ \A p \in Pids : proc[p] # "zombie"
    /\ handler' = "on"
    /\ pc' = IF handler = "installing" THEN "restart" ELSE "cmd"
    /\ UNCHANGED <<svc, proc, whose, uptime, sig, boot, needs, ready, execpid, stopped, exits>>

\* the device has rebooted into recovery mode
Rebooted == pc = "recovery" /\ UNCHANGED vars

------------------------------------------------------------------------------
\* The kernel and the clock.

\* A child ends, by itself or by SIGKILL; sigchld_handler writes its byte.
Ends(p) ==
    /\ pc # "recovery"
    /\ proc' = [proc EXCEPT ![p] = "zombie"]
    /\ sig' = (sig \/ handler # "none")
    /\ UNCHANGED <<svc, whose, uptime, handler, boot, needs, ready, execpid, pc, stopped, exits>>

ChildExits(p) == proc[p] = "alive" /\ Ends(p)
ChildKilled(p) == proc[p] = "dying" /\ Ends(p)

\* The parent of some process ends and init inherits it: one at a time, and not
\* so fast that handle_signal never catches up with them.
Orphaned(p) ==
    /\ pc \in {"poll", "exec"}
    /\ proc[p] = "none"
    /\ \A q \in Pids : proc[q] # "none" => whose[q] # "orphan"
    /\ proc' = [proc EXCEPT ![p] = "alive"]
    /\ whose' = [whose EXCEPT ![p] = "orphan"]
    /\ UNCHANGED <<svc, kernel, boot, needs, ready, execpid, pc, stopped, exits>>

Older(age, cap) == IF age < cap THEN age + 1 ELSE cap

\* A second passes, while init sleeps or waits: what it does between two sleeps
\* takes less.
Tick ==
    /\ pc \in {"poll", "exec"}
    /\ uptime' = Older(uptime, MaxAge)
    /\ svc' = [s \in Svc |-> [svc[s] EXCEPT !.sinceStart = Older(@, RestartDelay),
                                            !.sinceCrash = Older(@, CrashWindow + 1)]]
    /\ needs' = IF needs > 0 THEN needs - 1 ELSE needs
    /\ exits' = [s \in Svc |->
                    SelectSeq([i \in 1..Len(exits[s]) |-> exits[s][i] + 1],
                              LAMBDA age : age <= CrashWindow)]
    /\ UNCHANGED <<proc, whose, sig, handler, boot, ready, execpid, pc, stopped>>

Loop ==
    \/ no_command \/ do_start \/ do_stop \/ do_restart
    \/ do_class_start \/ do_class_stop \/ do_class_reset
    \/ do_exec \/ exec_wait \/ signal_init
    \/ restart_processes \/ WakeUp
    \/ handle_keychord \/ handle_control_message \/ handle_signal
    \/ (\E p \in Pids : wait_for_one_process(p)) \/ reaped

Next ==
    \/ Loop \/ Wanted \/ Rebooted
    \/ \E p \in Pids : ChildExits(p) \/ ChildKilled(p) \/ Orphaned(p)
    \/ Tick

Spec == Init /\ [][Next]_vars

\* init's process runs, the clock advances however often init wakes up, and a
\* killed process ends.
Fairness ==
    /\ WF_vars(Loop)
    /\ SF_vars(Tick)
    /\ \A p \in Pids : WF_vars(ChildKilled(p))

FairSpec == Spec /\ Fairness

------------------------------------------------------------------------------
\* The variables take only the values the code can give them.
TypeOK ==
    /\ svc \in [Svc -> [flags : SUBSET Flags, pid : Pids \cup {NoPid},
                        sinceStart : 0..RestartDelay, sinceCrash : 0..(CrashWindow + 1),
                        nr_crashed : 0..(CrashThreshold + 1),
                        state : {"none", "running", "stopping", "stopped", "restarting"}]]
    /\ proc \in [Pids -> {"none", "alive", "dying", "zombie"}]
    /\ whose \in [Pids -> Svc \cup {"exec", "orphan", "nobody"}]
    /\ uptime \in 0..MaxAge /\ sig \in BOOLEAN
    /\ handler \in {"none", "installing", "on"}
    /\ boot \in 0..BootCommands
    /\ needs \in (-1)..RestartDelay
    /\ ready \subseteq {"property", "keychord", "signal"}
    /\ execpid \in Pids \cup {NoPid}
    /\ pc \in {"cmd", "restart", "poll", "dispatch", "reap", "exec", "recovery"}
    /\ stopped \subseteq Svc

\* init's records agree with the kernel's processes (service_start,
\* wait_for_one_process): SVC_RUNNING is set exactly while a pid is recorded, no
\* service ever has a process other than the recorded one, so never two, and
\* without exec commands the recorded process is a child that is the service's.
ProcessTable ==
    \A s \in Svc :
        /\ "RUNNING" \in svc[s].flags <=> svc[s].pid # NoPid
        /\ \A p \in Pids : proc[p] # "none" /\ whose[p] = s => svc[s].pid = p
        /\ ~Execs /\ svc[s].pid # NoPid => proc[svc[s].pid] # "none" /\ whose[svc[s].pid] = s

\* A service that was last asked to stop stays down (service_stop_or_reset,
\* wait_for_one_process): whatever the order in which the stop, the end of the
\* process and an earlier restart meet, it is held back and waits for no restart.
StopHolds ==
    \A s \in stopped :
        /\ "RESTARTING" \notin svc[s].flags
        /\ svc[s].flags \cap {"DISABLED", "RESET"} # {}

\* No exit is missed (handle_signal reads the socket before it reaps): while a
\* child has ended and is not reaped, a byte is in the socket, so poll will
\* return, unless handle_signal is reaping now (or the device has rebooted).
NoLostExit ==
    handler = "on" /\ (\E p \in Pids : proc[p] = "zombie") => sig \/ pc \in {"reap", "recovery"}

\* No service drops out of supervision (service_start, restart_processes): once
\* it was started it runs, waits for a restart, or is held back.
NeverDropped ==
    pc = "recovery" \/ \A s \in Svc :
        svc[s].state # "none" => svc[s].flags \cap {"RUNNING", "RESTARTING", "DISABLED", "RESET"} # {}

\* The property init.svc.<name> (notify_service_state) says "running" or
\* "stopping" exactly while the service is SVC_RUNNING.
NotifiedState ==
    pc # "recovery" =>
        \A s \in Svc : "RUNNING" \in svc[s].flags <=> svc[s].state \in {"running", "stopping"}

\* init reboots into recovery mode only for a critical service that really ended
\* more than CrashThreshold times within CrashWindow (wait_for_one_process).
RecoveryJustified ==
    pc = "recovery" => \E s \in Svc : Len(exits[s]) > CrashThreshold

\* A service that is SVC_RUNNING has a process: "currently active" (init.h).
RunningIsActive ==
    \A s \in Svc : "RUNNING" \in svc[s].flags => \E p \in Pids : proc[p] # "none" /\ whose[p] = s

\* A service that ended and is not held back runs again, unless it is stopped
\* meanwhile: "restarts when they exit" (readme.txt).  Also shows that init never
\* sleeps in poll past the time a restart is due (process_needs_restart).
ComesBack ==
    \A s \in Svc :
        /\ svc[s].pid # NoPid /\ proc[svc[s].pid] = "zombie"
        /\ svc[s].flags \cap {"ONESHOT", "DISABLED", "RESET"} = {}
        ~> \/ svc[s].pid # NoPid /\ proc[svc[s].pid] \in {"alive", "dying"}
           \/ svc[s].flags \cap {"DISABLED", "RESET"} # {}

\* init implements the promise of Supervisor.
Promise == INSTANCE Supervisor WITH
    Services <- Svc,
    OneShot <- {s \in Svc : "ONESHOT" \in RcFlags[s]},
    st <- [s \in Svc |-> IF "RUNNING" \in svc[s].flags THEN "running"
                         ELSE IF "RESTARTING" \in svc[s].flags THEN "restarting"
                         ELSE "stopped"],
    keep <- [s \in Svc |-> svc[s].flags \cap {"DISABLED", "RESET"} = {}],
    down <- pc = "recovery"

\* Every step of init is one the promise allows: only the end of a process that
\* was to be kept makes a service wait, and such an end never leaves it stopped.
ImplementsSupervisor == Promise!Spec

\* The promise's finite wait: a service that waits for a restart is started, or
\* stopped, in the end.
NoEndlessWait == Promise!NoEndlessWait
=============================================================================
