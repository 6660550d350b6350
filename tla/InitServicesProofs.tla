-------------------------- MODULE InitServicesProofs --------------------------
(***************************************************************************)
(* Proofs about init as a supervisor, for any services, flags, scripts and  *)
(* number of processes.                                                     *)
(*                                                                          *)
(* The argument: every step of init and of its environment is either one of *)
(* those InitTableProofs describes or leaves the services alone.  The       *)
(* invariant IInv adds to the properties that no crash counter has passed   *)
(* the threshold while init runs, that the oneshot flag is the one of the   *)
(* scripts, and that without exec commands init never waits in do_exec.     *)
(***************************************************************************)
EXTENDS InitTableProofs, WellFoundedInduction

\* the types of what is not about services
OtherTypes ==
    /\ uptime \in 0..MaxAge /\ sig \in BOOLEAN
    /\ handler \in {"none", "installing", "on"}
    /\ boot \in 0..BootCommands
    /\ needs \in (-1)..RestartDelay
    /\ ready \subseteq {"property", "keychord", "signal"}
    /\ execpid \in Pids \cup {NoPid}
    /\ pc \in {"cmd", "restart", "poll", "dispatch", "reap", "exec", "recovery"}
    /\ NoExec

\* what a step is for Supervisor
Promised == pc # "recovery" /\ (pc' = "recovery" \/ \A s \in Svc : PromiseStep(svc[s], svc'[s]))

\* a step that leaves the services in order and loses no exit
LEMMA InOrder ==
    ASSUME IInv, pc # "recovery", ServicesStep, OtherTypes',
           \/ UNCHANGED <<sig, handler>> /\ (pc = "reap" => pc' \in {"reap", "recovery"})
           \/ pc' = "reap"
           \/ \A p \in Pids : proc'[p] # "zombie"
    PROVE  IInv' /\ Promised
<1>1. TypeOK' /\ NoExec'
    BY DEF ServicesStep, OtherTypes, TypeOK, Service, States, NoExec, Execs
<1>2. LiveInv' /\ StopHolds' /\ Promised
    BY DEF ServicesStep, LiveInv, StopHolds, Held, Promised
<1>3. NoLostExit'
    BY DEF ServicesStep, IInv, NoLostExit
<1> QED BY <1>1, <1>2, <1>3 DEF IInv, ServicesStep

\* a command of an action, whatever it does to the services
LEMMA CommandFrame ==
    ASSUME IInv, NEW name, NEW then \in {"restart", "exec"}, Command(name, then),
           then = "exec" => name = "exec", execpid' \in Pids \cup {NoPid}
    PROVE  pc # "recovery" /\ pc' = then /\ OtherTypes' /\ UNCHANGED <<sig, handler>> /\ pc # "reap"
<1>1. pc = "cmd" /\ pc' = then /\ UNCHANGED <<uptime, sig, handler, needs, ready>>
    BY DEF Command, kernel
<1>2. boot' \in 0..BootCommands
    BY ServiceConstants DEF Command, IInv, TypeOK
<1>3. NoExec'
    BY <1>1 DEF NoExec, Execs, Command
<1> QED BY <1>1, <1>2, <1>3 DEF OtherTypes, IInv, TypeOK

\* the commands that start, stop and restart services
LEMMA CommandInv ==
    ASSUME IInv, \/ no_command \/ do_start \/ do_stop \/ do_restart
                 \/ do_class_start \/ do_class_stop \/ do_class_reset
    PROVE  IInv' /\ Promised
<1>1. PICK name : Command(name, "restart") /\ UNCHANGED execpid
    BY DEF no_command, do_start, do_stop, do_restart, do_class_start, do_class_stop, do_class_reset
<1>2. pc # "recovery" /\ OtherTypes' /\ UNCHANGED <<sig, handler>> /\ pc # "reap"
    BY <1>1, CommandFrame DEF IInv, TypeOK
<1>4. no_command => ServicesStep
    BY <1>2, NoServiceChanges DEF no_command, IInv, TypeOK
<1>5. do_start => ServicesStep
    BY <1>2, StartStep DEF do_start, Start
<1>6. do_stop => ServicesStep
    BY <1>2, StopStep DEF do_stop
<1>7. do_restart => ServicesStep
    BY <1>2, RestartStep DEF do_restart
<1>8. do_class_start => ServicesStep
    BY <1>2, StartStep DEF do_class_start, Start, InClass
<1>9. do_class_stop \/ do_class_reset => ServicesStep
    BY <1>2, StopStep DEF do_class_stop, do_class_reset, InClass
<1> QED BY <1>2, <1>4, <1>5, <1>6, <1>7, <1>8, <1>9, InOrder

\* do_exec: the new child is no service's
LEMMA ExecInv == ASSUME IInv, do_exec PROVE IInv' /\ Promised
<1>1. PICK a \in Free \cup (Faults \cap {"nofork"}) :
           /\ execpid' = IF a \in Free THEN a ELSE NoPid
           /\ proc' = [p \in Pids |-> IF p = a THEN "alive" ELSE proc[p]]
           /\ whose' = [p \in Pids |-> IF p = a THEN "exec" ELSE whose[p]]
    BY DEF do_exec
<1>2. execpid' \in Pids \cup {NoPid} /\ Command("exec", "exec") /\ UNCHANGED <<svc, stopped>>
    BY <1>1 DEF do_exec, Free
<1>3. pc # "recovery" /\ OtherTypes' /\ UNCHANGED <<sig, handler>> /\ pc # "reap" /\ Execs
    BY <1>2, CommandFrame DEF Command, Execs
<1>4. /\ proc' \in [Pids -> {"none", "alive", "dying", "zombie"}]
      /\ whose' \in [Pids -> Svc \cup {"exec", "orphan", "nobody"}]
      /\ \A p \in Pids : proc'[p] = "zombie" => proc[p] = "zombie"
    BY <1>1 DEF IInv, TypeOK
<1>5. ProcessTable'
    BY <1>1, <1>2, <1>3, ServiceConstants DEF IInv, TypeOK, ProcessTable, Execs
<1>6. SvcInv' /\ \A s \in Svc : Fine(svc'[s]) /\ PromiseStep(svc[s], svc'[s])
    BY <1>2, <1>3, RecordsNow DEF IInv, SvcInv, PromiseStep
<1>7. svc' \in [Svc -> Service] /\ stopped' \subseteq Svc /\ \A s \in stopped' : Held(svc'[s])
    BY <1>2, <1>3, RecordsNow
<1> QED BY <1>3, <1>4, <1>5, <1>6, <1>7, InOrder DEF ServicesStep

\* the wait of do_exec reaps whatever has ended
LEMMA ExecWaitInv == ASSUME IInv, exec_wait PROVE IInv' /\ Promised
<1>1. /\ pc = "exec" /\ Execs /\ pc' \in {"restart", "exec"} /\ stopped' = stopped
      /\ UNCHANGED <<uptime, sig, handler, boot, needs, ready, stopped>>
      /\ execpid' \in {execpid, NoPid}
    BY DEF exec_wait, kernel, IInv, NoExec
<1>2. OtherTypes'
    BY <1>1 DEF IInv, TypeOK, OtherTypes, NoExec, Execs
<1>3. ASSUME NEW p \in Pids, proc[p] = "zombie", Effect(svc, {}, {p}) PROVE ServicesStep
  <2>1. svc = [s \in Svc |-> svc[s]]
    BY DEF IInv, TypeOK
  <2>2. Becomes(svc, {}, <<>>, {}, {p})
    BY <1>1, <1>3, <2>1 DEF Becomes, Answered, Free
  <2> QED BY <1>1, <1>3, <2>2, RecordsNow, ServicesChange
<1>4. CASE UNCHANGED <<svc, proc, whose>>
    BY <1>1, <1>2, <1>4, NoServiceChanges, InOrder DEF IInv, TypeOK
<1> QED BY <1>1, <1>2, <1>3, <1>4, InOrder DEF exec_wait

\* a set of naturals has a smallest member
LEMMA NatMin == ASSUME NEW T, T \subseteq Nat, T # {} PROVE \E t \in T : \A u \in T : t <= u
<1> DEFINE R == OpToRel(<, Nat)
<1>1. IsWellFoundedOn(R, Nat)
    BY NatLessThanWellFounded
<1> HIDE DEF R
<1>2. PICK t \in T : \A u \in T : ~(<<u, t>> \in R)
    BY <1>1, WFMin
<1>3. \A u, v \in Nat : u < v => <<u, v>> \in R
    BY DEF R, OpToRel
<1>4. \A u \in T : t \in Nat /\ u \in Nat /\ ~(u < t)
    BY <1>2, <1>3
<1>5. \A u \in T : t <= u
    BY <1>4
<1> QED BY <1>5

\* restart_processes: only services that wait are started, so none that is held
LEMMA RestartProcessesInv == ASSUME IInv, restart_processes PROVE IInv' /\ Promised
<1> DEFINE waiting == {s \in Svc : "RESTARTING" \in svc[s].flags}
           due == {s \in waiting : svc[s].sinceStart >= RestartDelay}
           left == {RestartDelay - svc[s].sinceStart : s \in waiting \ due}
<1>1. /\ pc = "restart" /\ pc' = "poll" /\ needs' = next_wakeup(left)
      /\ UNCHANGED <<uptime, sig, handler, boot, ready, execpid, stopped, exits>>
    BY DEF restart_processes, kernel
<1>2. PICK a \in Answers(due) :
          Effect([s \in Svc |-> IF s \in due THEN service_start(svc[s], FALSE, a[s]) ELSE svc[s]], {}, {})
    BY DEF restart_processes
<1>3. due \in SUBSET Svc /\ stopped' \subseteq stopped \ due
    BY <1>1, RecordsNow DEF Held
<1>4. needs' \in (-1)..RestartDelay
  <2>1. RestartDelay \in Nat /\ \A s \in Svc : svc[s].sinceStart \in 0..RestartDelay
    BY ServiceConstants, <1>1, RecordsNow DEF Service
  <2>2. left \subseteq 0..RestartDelay /\ left \subseteq Nat
    BY <2>1
  <2> HIDE DEF left
  <2>3. CASE left = {}
    BY <1>1, <2>1, <2>3 DEF next_wakeup
  <2>4. CASE left # {}
    <3>1. \E t \in left : \A u \in left : t <= u
      BY <2>2, <2>4, NatMin
    <3>2. needs' = CHOOSE t \in left : \A u \in left : t <= u
      BY <1>1, <2>4 DEF next_wakeup
    <3>3. needs' \in left
      BY <3>1, <3>2
    <3> QED BY <2>1, <2>2, <3>3
  <2> QED BY <2>3, <2>4
<1> HIDE DEF due
<1>5. ServicesStep
    BY <1>1, <1>2, <1>3, StartStep
<1>6. OtherTypes'
    BY <1>1, <1>4 DEF IInv, TypeOK, OtherTypes, NoExec, Execs
<1> QED BY <1>1, <1>5, <1>6, InOrder

\* signal_init, poll and handle_signal change no service
LEMMA QuietInv ==
    ASSUME IInv, signal_init \/ WakeUp \/ Wanted \/ handle_signal \/ reaped
    PROVE  IInv' /\ Promised
<1>1. /\ pc # "recovery" /\ UNCHANGED <<svc, proc, whose, stopped>>
      /\ \/ UNCHANGED <<sig, handler>> /\ (pc = "reap" => pc' \in {"reap", "recovery"})
         \/ pc' = "reap"
         \/ \A p \in Pids : proc'[p] # "zombie"
    BY DEF signal_init, WakeUp, Wanted, Returns, handle_signal, reaped, kernel
<1>2. ServicesStep
    BY <1>1, NoServiceChanges DEF IInv, TypeOK
<1>3. OtherTypes'
  <2>1. signal_init \/ handle_signal \/ reaped => OtherTypes'
    BY DEF signal_init, handle_signal, reaped, IInv, TypeOK, OtherTypes, NoExec, Execs
  <2>2. ASSUME NEW env \in Inputs, Returns(env), pc = "poll" PROVE OtherTypes'
    <3>1. ready' \subseteq {"property", "keychord", "signal"}
      BY <2>2 DEF Returns, Inputs
    <3>2. needs' \in (-1)..RestartDelay
      BY <2>2, ServiceConstants DEF Returns
    <3> QED BY <2>2, <3>1, <3>2 DEF Returns, kernel, IInv, TypeOK, OtherTypes, NoExec, Execs
  <2> QED BY <2>1, <2>2 DEF WakeUp, Wanted
<1> QED BY <1>1, <1>2, <1>3, InOrder

\* handle_keychord and handle_control_message
LEMMA MessageInv ==
    ASSUME IInv, handle_keychord \/ handle_control_message PROVE IInv' /\ Promised
<1>1. PICK fd : Handled(fd)
    BY DEF handle_keychord, handle_control_message
<1>2. pc = "dispatch" /\ UNCHANGED <<sig, handler>> /\ OtherTypes'
    BY <1>1 DEF Handled, kernel, IInv, TypeOK, OtherTypes, NoExec, Execs
<1>3. UNCHANGED <<svc, proc, whose, stopped>> => ServicesStep
    BY <1>2, NoServiceChanges DEF IInv, TypeOK
<1>4. ASSUME NEW s \in Svc, NEW dynamic \in BOOLEAN, Start({s}, dynamic) PROVE ServicesStep
    BY <1>2, <1>4, StartStep DEF Start
<1>5. ASSUME NEW s \in Svc, Stop({s}, "DISABLED") \/ Restart({s}) PROVE ServicesStep
    BY <1>2, <1>5, StopStep, RestartStep
<1>6. handle_keychord => ServicesStep
    BY <1>3, <1>4, ServiceConstants DEF handle_keychord
<1>7. handle_control_message => ServicesStep
    BY <1>3, <1>4, <1>5 DEF handle_control_message
<1> QED BY <1>2, <1>6, <1>7, InOrder

\* wait_for_one_process: the exit of a service's process, or of another child
LEMMA ReapInv == ASSUME IInv, NEW p \in Pids, wait_for_one_process(p) PROVE IInv' /\ Promised
<1> DEFINE found == {s \in Svc : svc[s].pid = p}
           again(s) == IF "RESTARTING" \in exited(svc[s]).flags THEN OnRestart[s] ELSE {}
<1>1. /\ pc = "reap" /\ proc[p] = "zombie" /\ pc' \in {"reap", "recovery"}
      /\ UNCHANGED <<uptime, sig, handler, boot, needs, ready, execpid>>
    BY DEF wait_for_one_process, kernel
<1>2. OtherTypes'
    BY <1>1 DEF IInv, TypeOK, OtherTypes, NoExec, Execs
<1>3. CASE found = {} /\ Effect(svc, {}, {p}) /\ UNCHANGED <<pc, stopped>>
  <2>1. svc = [s \in Svc |-> svc[s]]
    BY DEF IInv, TypeOK
  <2>2. Becomes(svc, {}, <<>>, {}, {p})
    BY <1>1, <1>3, <2>1 DEF Becomes, Answered, Free
  <2>3. ServicesStep
    BY <1>1, <1>3, <2>2, RecordsNow, ServicesChange
  <2> QED BY <1>1, <1>2, <2>3, InOrder
<1>4. ASSUME NEW s \in found, NEW a \in Answers(again(s)),
             Effect([t \in Svc |-> IF t = s THEN exited(svc[s])
                                   ELSE IF t \in again(s) THEN service_restart(svc[t], a[t])
                                   ELSE svc[t]],
                    {t \in again(s) : "RUNNING" \in svc[t].flags}, {p}),
             stopped' = stopped \ again(s),
             pc' = IF givesUp(svc[s]) THEN "recovery" ELSE "reap"
      PROVE  IInv' /\ Promised
  <2> DEFINE T == again(s)
             new == [t \in Svc |-> IF t = s THEN exited(svc[s])
                                   ELSE IF t \in T THEN service_restart(svc[t], a[t])
                                   ELSE svc[t]]
             killed == {t \in T : "RUNNING" \in svc[t].flags}
  <2>1. s \in Svc /\ svc[s].pid = p /\ p # NoPid /\ T \in SUBSET Svc /\ s \notin T
    BY ServiceConstants
  <2>2. Effect(new, killed, {p}) /\ a \in Answers(T) /\ stopped' = stopped \ T
    BY <1>4
  <2>3. /\ new[s] = exited(svc[s]) /\ \A t \in T : new[t] = service_restart(svc[t], a[t])
        /\ new = [t \in Svc |-> new[t]] /\ \A t \in Svc \ (T \cup {s}) : new[t] = svc[t]
    BY <2>1
  <2> HIDE DEF T, new, killed
  <2>4. Left(svc[s], new[s])
    BY <1>1, <2>1, <2>3, RecordsNow, ExitLeaves DEF Coherent, Fine
  <2>5. \A t \in T : Moved(svc[t], new[t], a[t])
    BY <1>1, <2>1, <2>2, <2>3, RecordsNow, KernelAnswers, RestartMoves
  <2>6. ~Execs => \A t \in Svc : svc[t].pid = p => t = s
    BY <2>1 DEF IInv, ProcessTable
  <2>7. Becomes(new, T, a, {s}, {p})
    BY <1>1, <2>1, <2>2, <2>3, <2>4, <2>5, <2>6, KernelAnswers DEF Becomes, Free
  <2>8. stopped' \subseteq Svc /\ \A t \in stopped' : Held(new[t])
    BY <1>1, <2>1, <2>2, <2>3, <2>4, RecordsNow DEF Left
  <2>9. ServicesStep
    BY <1>1, <1>4, <2>2, <2>7, <2>8, ServicesChange
  <2> QED BY <1>1, <1>2, <2>9, InOrder
<1> QED BY <1>3, <1>4 DEF wait_for_one_process

\* the end of a process: sigchld_handler has written its byte
LEMMA EndsInv ==
    ASSUME IInv, NEW p \in Pids, ChildExits(p) \/ ChildKilled(p) PROVE IInv' /\ Promised
<1>1. /\ pc # "recovery" /\ proc[p] \in {"alive", "dying"}
      /\ proc' = [proc EXCEPT ![p] = "zombie"] /\ sig' = (sig \/ handler # "none")
      /\ UNCHANGED <<svc, whose, uptime, handler, boot, needs, ready, execpid, pc, stopped, exits>>
    BY DEF ChildExits, ChildKilled, Ends
<1>2. TypeOK' /\ NoExec'
    BY <1>1 DEF IInv, TypeOK, NoExec, Execs
<1>3. \A q \in Pids : proc'[q] # "none" <=> proc[q] # "none"
    BY <1>1 DEF IInv, TypeOK
<1>4. ProcessTable'
    BY <1>1, <1>3 DEF IInv, TypeOK, ProcessTable, Execs
<1>5. SvcInv' /\ LiveInv' /\ StopHolds'
    BY <1>1 DEF IInv, SvcInv, LiveInv, StopHolds
<1>6. NoLostExit'
    BY <1>1 DEF NoLostExit
<1>7. Promised
    BY <1>1 DEF Promised, PromiseStep
<1> QED BY <1>2, <1>4, <1>5, <1>6, <1>7 DEF IInv

\* init inherits a process
LEMMA OrphanInv == ASSUME IInv, NEW p \in Pids, Orphaned(p) PROVE IInv' /\ Promised
<1>1. /\ pc \in {"poll", "exec"} /\ proc[p] = "none"
      /\ proc' = [proc EXCEPT ![p] = "alive"] /\ whose' = [whose EXCEPT ![p] = "orphan"]
      /\ UNCHANGED <<svc, uptime, sig, handler, boot, needs, ready, execpid, pc, stopped, exits>>
    BY DEF Orphaned, kernel
<1>2. TypeOK' /\ NoExec'
    BY <1>1 DEF IInv, TypeOK, NoExec, Execs
<1>3. ProcessTable'
    BY <1>1, ServiceConstants DEF IInv, TypeOK, ProcessTable, Execs
<1>4. SvcInv' /\ LiveInv' /\ StopHolds'
    BY <1>1 DEF IInv, SvcInv, LiveInv, StopHolds
<1>5. NoLostExit'
    BY <1>1 DEF IInv, TypeOK, NoLostExit
<1>6. Promised
    BY <1>1 DEF Promised, PromiseStep
<1> QED BY <1>2, <1>3, <1>4, <1>5, <1>6 DEF IInv

\* a second passes: ages grow up to the largest one told apart
LEMMA TickInv == ASSUME IInv, Tick PROVE IInv' /\ Promised
<1>1. /\ pc \in {"poll", "exec"} /\ uptime' = Older(uptime, MaxAge)
      /\ svc' = [s \in Svc |-> [svc[s] EXCEPT !.sinceStart = Older(@, RestartDelay),
                                              !.sinceCrash = Older(@, CrashWindow + 1)]]
      /\ needs' = IF needs > 0 THEN needs - 1 ELSE needs
      /\ UNCHANGED <<proc, whose, sig, handler, boot, ready, execpid, pc, stopped>>
    BY DEF Tick
<1>2. RestartDelay \in Nat /\ CrashWindow \in Nat /\ MaxAge \in Nat
    BY ServiceConstants DEF MaxAge
<1>3. \A cap \in Nat : \A age \in 0..cap : Older(age, cap) \in 0..cap
    BY DEF Older
<1>4. ASSUME NEW s \in Svc
      PROVE  /\ svc'[s] \in Service /\ svc'[s].flags = svc[s].flags /\ svc'[s].pid = svc[s].pid
             /\ svc'[s].state = svc[s].state /\ svc'[s].nr_crashed = svc[s].nr_crashed
  <2>1. svc[s] \in Service
    BY <1>1, RecordsNow
  <2>2. Older(svc[s].sinceStart, RestartDelay) \in 0..RestartDelay
        /\ Older(svc[s].sinceCrash, CrashWindow + 1) \in 0..(CrashWindow + 1)
    BY <1>2, <1>3, <2>1 DEF Service
  <2> QED BY <1>1, <2>1, <2>2 DEF Service
<1>5. svc' \in [Svc -> Service]
    BY <1>1, <1>4
<1>6. OtherTypes'
  <2>1. uptime' \in 0..MaxAge
    BY <1>1, <1>2, <1>3 DEF IInv, TypeOK
  <2>2. needs \in (-1)..RestartDelay
    BY DEF IInv, TypeOK
  <2>3. needs' \in (-1)..RestartDelay
    <3>1. needs' = IF needs > 0 THEN needs - 1 ELSE needs
      BY <1>1
    <3>2. CASE needs > 0
      BY <1>2, <2>2, <3>1, <3>2
    <3>3. CASE ~(needs > 0)
      BY <2>2, <3>1, <3>3
    <3> QED BY <3>2, <3>3
  <2> QED BY <1>1, <2>1, <2>3 DEF IInv, TypeOK, OtherTypes, NoExec, Execs
<1>7. ProcessTable' /\ SvcInv'
  <2>1. SvcInv'
    BY <1>4 DEF IInv, SvcInv, Coherent
  <2>2. ASSUME NEW s \in Svc
        PROVE  /\ "RUNNING" \in svc'[s].flags <=> svc'[s].pid # NoPid
               /\ \A p \in Pids : proc'[p] # "none" /\ whose'[p] = s => svc'[s].pid = p
               /\ ~Execs /\ svc'[s].pid # NoPid => proc'[svc'[s].pid] # "none" /\ whose'[svc'[s].pid] = s
    <3>1. proc' = proc /\ whose' = whose /\ svc'[s].flags = svc[s].flags /\ svc'[s].pid = svc[s].pid
      BY <1>1, <1>4
    <3> QED BY <3>1 DEF IInv, ProcessTable
  <2> QED BY <2>1, <2>2 DEF ProcessTable, Execs
<1>8. \A s \in Svc : Fine(svc'[s]) /\ PromiseStep(svc[s], svc'[s])
    BY <1>1, <1>4, RecordsNow DEF Fine, Notified, Supervised, PromiseStep, St, Keep
<1>9. stopped' \subseteq Svc /\ \A s \in stopped' : Held(svc'[s])
    BY <1>1, <1>4, RecordsNow DEF Held
<1>10. ServicesStep
    BY <1>1, <1>5, <1>7, <1>8, <1>9 DEF ServicesStep, IInv, TypeOK
<1> QED BY <1>1, <1>6, <1>10, InOrder

------------------------------------------------------------------------------
\* the boot starts in order: no service has been started
LEMMA InitInv == Init => IInv
<1> SUFFICES ASSUME Init PROVE IInv
    OBVIOUS
<1>1. ASSUME NEW s \in Svc
      PROVE  /\ svc[s].flags = RcFlags[s] /\ svc[s].pid = NoPid /\ svc[s].state = "none"
             /\ svc[s].nr_crashed = 0 /\ svc[s] \in Service
             /\ "RUNNING" \notin svc[s].flags /\ "RESTARTING" \notin svc[s].flags
  <2>1. svc[s] = [flags |-> RcFlags[s], pid |-> NoPid, sinceStart |-> 0, sinceCrash |-> 0,
                  nr_crashed |-> 0, state |-> "none"]
    BY DEF Init
  <2>2. RcFlags[s] \subseteq {"DISABLED", "ONESHOT", "CONSOLE", "CRITICAL", "RC_DISABLED"}
    BY ServiceConstants
  <2>3. 0 \in 0..RestartDelay /\ 0 \in 0..(CrashWindow + 1) /\ 0 \in 0..(CrashThreshold + 1)
    BY ServiceConstants
  <2>4. svc[s] \in Service
    BY <2>1, <2>2, <2>3 DEF Service, States, Flags
  <2> QED BY <2>1, <2>2, <2>4
<1>2. svc \in [Svc -> Service]
    BY <1>1 DEF Init
<1>3. TypeOK
  <2>1. 0 \in 0..MaxAge /\ BootCommands \in 0..BootCommands
    BY ServiceConstants DEF MaxAge
  <2>2. needs \in (-1)..RestartDelay
    BY ServiceConstants DEF Init
  <2> QED BY <1>2, <2>1, <2>2 DEF Init, TypeOK, Service, States
<1>4. ProcessTable /\ SvcInv
    BY <1>1 DEF Init, ProcessTable, SvcInv, Coherent
<1>5. LiveInv
  <2>1. 0 <= CrashThreshold
    BY ServiceConstants
  <2> QED BY <1>1, <2>1 DEF LiveInv, Fine, Notified, Supervised
<1> QED BY <1>3, <1>4, <1>5 DEF IInv, StopHolds, NoLostExit, NoExec, Init

\* every step keeps the invariant and is one of Supervisor's, or nothing happens
LEMMA NextInv == ASSUME IInv, [Next]_vars PROVE IInv' /\ (Promised \/ UNCHANGED vars)
<1>1. CASE UNCHANGED vars
  <2>1. TypeOK' /\ NoExec' /\ NoLostExit'
    BY <1>1 DEF vars, IInv, TypeOK, NoLostExit, NoExec, Execs
  <2>2. ProcessTable'
    BY <1>1 DEF vars, IInv, ProcessTable, Execs
  <2>3. SvcInv' /\ LiveInv' /\ StopHolds'
    BY <1>1 DEF vars, IInv, SvcInv, LiveInv, StopHolds
  <2> QED BY <1>1, <2>1, <2>2, <2>3 DEF IInv
<1>2. CASE Loop
    BY <1>2, CommandInv, ExecInv, ExecWaitInv, QuietInv, RestartProcessesInv, MessageInv, ReapInv DEF Loop
<1>3. CASE Wanted
    BY <1>3, QuietInv
<1>4. CASE Tick
    BY <1>4, TickInv
<1>5. CASE \E p \in Pids : ChildExits(p) \/ ChildKilled(p) \/ Orphaned(p)
    BY <1>5, EndsInv, OrphanInv
<1>6. CASE Rebooted
    BY <1>1, <1>6 DEF Rebooted
<1> QED BY <1>1, <1>2, <1>3, <1>4, <1>5, <1>6 DEF Next

\* the invariant holds throughout
LEMMA Invariance == Spec => []IInv
<1>1. IInv /\ [Next]_vars => IInv'
    BY NextInv
<1> QED BY <1>1, InitInv, PTL DEF Spec

\* Types: among others, no crash counter of wait_for_one_process passes the
\* threshold by more than one, whatever the services do.
THEOREM TypesHold == Spec => []TypeOK
<1>1. IInv => TypeOK
    BY DEF IInv
<1> QED BY <1>1, Invariance, PTL

\* service_start and wait_for_one_process keep init's records and the kernel's
\* processes in agreement, with any number of services and of pids that are used
\* again: no service has two processes.
THEOREM TableHolds == Spec => []ProcessTable
<1>1. IInv => ProcessTable
    BY DEF IInv
<1> QED BY <1>1, Invariance, PTL

\* A service that was last asked to stop (service_stop_or_reset) is held back and
\* waits for no restart, in whatever order the stop, the end of its process, a
\* crash and an onrestart command of another service meet.
THEOREM StopsHold == Spec => []StopHolds
<1>1. IInv => StopHolds
    BY DEF IInv
<1> QED BY <1>1, Invariance, PTL

\* handle_signal misses no exit: as long as a child is not reaped, poll returns.
THEOREM NoExitIsLost == Spec => []NoLostExit
<1>1. IInv => NoLostExit
    BY DEF IInv
<1> QED BY <1>1, Invariance, PTL

\* init.svc.<name> (notify_service_state) says running or stopping exactly while
\* the service is SVC_RUNNING.
THEOREM StateIsNotified == Spec => []NotifiedState
<1>1. IInv => NotifiedState
    BY DEF IInv, LiveInv, Fine, Notified, NotifiedState
<1> QED BY <1>1, Invariance, PTL

\* If fork does not fail, no service that was started drops out of supervision.
THEOREM NoneIsDropped == ASSUME "nofork" \notin Faults PROVE Spec => []NeverDropped
<1>1. IInv => NeverDropped
    BY DEF IInv, LiveInv, Fine, Supervised, NeverDropped
<1> QED BY <1>1, Invariance, PTL

\* init implements the promise of Supervisor: the end of a process that was to be
\* kept makes its service wait for a restart, and nothing else does.
THEOREM KeepsPromise == Spec => Promise!Spec
<1>1. Init => Promise!Init
  <2> SUFFICES ASSUME Init PROVE Promise!Init
    OBVIOUS
  <2>1. \A s \in Svc : "RUNNING" \notin svc[s].flags /\ "RESTARTING" \notin svc[s].flags
    BY ServiceConstants DEF Init
  <2> QED BY <2>1 DEF Promise!Init, Init
<1>2. IInv /\ IInv' /\ (Promised \/ UNCHANGED vars) => [Promise!Next]_(Promise!vars)
  <2> SUFFICES ASSUME IInv, Promised \/ UNCHANGED vars PROVE [Promise!Next]_(Promise!vars)
    OBVIOUS
  <2>1. CASE UNCHANGED vars
    BY <2>1 DEF vars, Promise!vars
  <2>2. CASE Promised
    <3>1. pc # "recovery"
      BY <2>2 DEF Promised
    <3>2. ASSUME NEW s \in Svc, PromiseStep(svc[s], svc'[s]) PROVE Promise!Step(s)
      BY <3>2 DEF Promise!Step, Promise!Launch, Promise!Ask, Promise!HoldBack, Promise!Exit, PromiseStep,
                  St, Keep, IInv, SvcInv
    <3>3. pc' = "recovery" \/ \A s \in Svc : Promise!Step(s)
      BY <2>2, <3>2 DEF Promised
    <3> QED BY <3>1, <3>3 DEF Promise!Next
  <2> QED BY <2>1, <2>2
<1>3. IInv /\ [Next]_vars => IInv' /\ (Promised \/ UNCHANGED vars)
    BY NextInv
<1> QED BY <1>1, <1>2, <1>3, Invariance, PTL DEF Spec, Promise!Spec
================================================================================
