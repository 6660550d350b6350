---------------------------- MODULE InitTableProofs ----------------------------
(***************************************************************************)
(* Facts about the services of init and the table of their processes, for   *)
(* any services, flags and number of processes: what a call does to one     *)
(* struct service is summed up in Moved (start, stop, restart) and Left     *)
(* (the exit of its process), and Effect carries these facts over to the    *)
(* table of processes.                                                      *)
(***************************************************************************)
EXTENDS InitServices, TLAPS

States == {"none", "running", "stopping", "stopped", "restarting"}
Service == [flags : SUBSET Flags, pid : Pids \cup {NoPid},
            sinceStart : 0..RestartDelay, sinceCrash : 0..(CrashWindow + 1),
            nr_crashed : 0..(CrashThreshold + 1), state : States]

\* what the properties say of one struct service
Coherent(r) ==
    /\ "RUNNING" \in r.flags <=> r.pid # NoPid
    /\ ~({"RUNNING", "RESTARTING"} \subseteq r.flags)
Notified(r) == "RUNNING" \in r.flags <=> r.state \in {"running", "stopping"}
Supervised(r) == r.state # "none" => r.flags \cap {"RUNNING", "RESTARTING", "DISABLED", "RESET"} # {}
Held(r) == "RESTARTING" \notin r.flags /\ r.flags \cap {"DISABLED", "RESET"} # {}

\* the state and the intent Supervisor knows of it, and a step of Supervisor
St(r) == IF "RUNNING" \in r.flags THEN "running"
         ELSE IF "RESTARTING" \in r.flags THEN "restarting" ELSE "stopped"
Keep(r) == r.flags \cap {"DISABLED", "RESET"} = {}
PromiseStep(r, n) ==
    \/ St(n) = St(r) /\ Keep(n) = Keep(r)
    \/ St(r) # "running" /\ St(n) \in {"running", "stopped"} /\ (St(n) = "running" => Keep(n))
    \/ St(r) = "running" /\ St(n) = "running"
    \/ St(r) # "running" /\ St(n) = "stopped" /\ ~Keep(n)
    \/ /\ St(r) = "running" /\ St(n) = IF Keep(n) THEN "restarting" ELSE "stopped"
       /\ Keep(n) # Keep(r) => Keep(r) /\ "ONESHOT" \in r.flags

\* n is r after a start, a stop or a restart that the kernel answered with a
Moved(r, n, a) ==
    /\ n \in Service /\ n.nr_crashed = r.nr_crashed
    /\ n.pid = r.pid \/ (r.pid = NoPid /\ a \in Pids /\ n.pid = a)
    /\ Coherent(n)
    /\ Notified(r) => Notified(n)
    /\ a # "nofork" /\ Supervised(r) => Supervised(n)
    /\ "ONESHOT" \in n.flags <=> "ONESHOT" \in r.flags
    /\ PromiseStep(r, n)

\* n is r after the exit of its process
Left(r, n) ==
    /\ n \in Service /\ n.pid = NoPid /\ Coherent(n)
    /\ ~givesUp(r) => n.nr_crashed <= CrashThreshold /\ Notified(n) /\ Supervised(n)
    /\ "ONESHOT" \in n.flags <=> "ONESHOT" \in r.flags
    /\ ~givesUp(r) => PromiseStep(r, n)
    /\ Held(r) => Held(n)

------------------------------------------------------------------------------
\* service_start, in any state of the service and whatever the kernel answers
LEMMA StartMoves ==
    ASSUME NEW r \in Service, Coherent(r), NEW dynamic \in BOOLEAN, NEW a \in Pids \cup Failures,
           uptime \in 0..MaxAge
    PROVE  Moved(r, service_start(r, dynamic, a), a)
<1> DEFINE c == [r EXCEPT !.flags = @ \ {"DISABLED", "RESTARTING", "RESET", "RESTART"},
                          !.sinceStart = IF uptime < RestartDelay THEN uptime ELSE RestartDelay]
           d == [c EXCEPT !.flags = @ \cup {"DISABLED"}]
           f == [c EXCEPT !.flags = @ \cup {"RUNNING"}, !.pid = a, !.sinceStart = 0, !.state = "running"]
           g == [c EXCEPT !.pid = NoPid]
<1>1. uptime \in Nat /\ RestartDelay \in Nat /\ 0 <= RestartDelay
    BY ServiceConstants DEF MaxAge
<1>2. (IF uptime < RestartDelay THEN uptime ELSE RestartDelay) \in 0..RestartDelay /\ 0 \in 0..RestartDelay
    BY <1>1
<1>3. c \in Service /\ d \in Service /\ g \in Service /\ (a \in Pids => f \in Service)
    BY <1>2 DEF Service, Flags, States
<1>4. CASE isRunning(r)
  <2>1. service_start(r, dynamic, a) = c
    BY <1>4 DEF service_start
  <2> QED BY <1>3, <1>4, <2>1 DEF Moved, Coherent, Notified, Supervised, PromiseStep, St, Keep, isRunning, Service
<1>5. CASE ~isRunning(r)
  <2>1. service_start(r, dynamic, a) \in {d, forked(c, a)} /\ (a = "missing" => service_start(r, dynamic, a) = d)
    BY <1>5 DEF service_start
  <2>2. a = "nofork" => forked(c, a) = g
    BY DEF forked
  <2>3. a # "nofork" => forked(c, a) = f
    BY DEF forked
  <2>4. Moved(r, d, a)
    BY <1>3, <1>5 DEF Moved, Coherent, Notified, Supervised, PromiseStep, St, Keep, isRunning, Service
  <2>5. a = "nofork" => Moved(r, g, a)
    BY <1>3, <1>5 DEF Moved, Coherent, Notified, Supervised, PromiseStep, St, Keep, isRunning, Service
  <2>6. a \in Pids => Moved(r, f, a)
    BY <1>3, <1>5, ServiceConstants DEF Moved, Coherent, Notified, Supervised, PromiseStep, St, Keep, isRunning, Service
  <2> QED BY <2>1, <2>2, <2>3, <2>4, <2>5, <2>6 DEF Failures
<1> QED BY <1>4, <1>5

\* service_stop_or_reset
LEMMA StopMoves ==
    ASSUME NEW r \in Service, Coherent(r), NEW how \in {"DISABLED", "RESET", "RESTART"},
           how = "RESTART" => "RUNNING" \in r.flags, NEW a
    PROVE  /\ Moved(r, service_stop_or_reset(r, how), a)
           /\ how # "RESTART" => Held(service_stop_or_reset(r, how))
<1> DEFINE mark == IF how = "RESET" /\ "RC_DISABLED" \in r.flags THEN "DISABLED" ELSE how
           n == [r EXCEPT !.flags = (@ \ {"RESTARTING"}) \cup {mark},
                          !.state = IF r.pid # NoPid THEN "stopping" ELSE "stopped"]
<1>1. service_stop_or_reset(r, how) = n
    BY DEF service_stop_or_reset
<1>2. mark \in {"DISABLED", "RESET", "RESTART"} /\ (how # "RESTART" => mark \in {"DISABLED", "RESET"})
      /\ (how = "RESTART" => mark = "RESTART")
    OBVIOUS
<1> HIDE DEF mark
<1>3. n \in Service
    BY <1>2 DEF Service, Flags, States
<1> QED BY <1>1, <1>2, <1>3
        DEF Moved, Coherent, Notified, Supervised, PromiseStep, St, Keep, Held, Service

\* service_restart
LEMMA RestartMoves ==
    ASSUME NEW r \in Service, Coherent(r), NEW a \in Pids \cup Failures, uptime \in 0..MaxAge
    PROVE  Moved(r, service_restart(r, a), a)
<1>1. CASE "RUNNING" \in r.flags
    BY <1>1, StopMoves DEF service_restart
<1>2. CASE "RUNNING" \notin r.flags /\ "RESTARTING" \notin r.flags
    BY <1>2, StartMoves DEF service_restart
<1>3. CASE "RUNNING" \notin r.flags /\ "RESTARTING" \in r.flags
    BY <1>3 DEF service_restart, Moved, PromiseStep, St, Keep, Coherent
<1> QED BY <1>1, <1>2, <1>3

\* wait_for_one_process, for the service whose process it was
LEMMA ExitLeaves ==
    ASSUME NEW r \in Service, Coherent(r), "RUNNING" \in r.flags, r.nr_crashed <= CrashThreshold
    PROVE  Left(r, exited(r))
<1> DEFINE gone == [r EXCEPT !.pid = NoPid, !.flags = (@ \ {"RUNNING"}) \cup
                        (IF oneShotDone(@) THEN {"DISABLED"} ELSE {})]
           waiting == [gone EXCEPT !.flags = awaits(@), !.state = "restarting"]
           e1 == [gone EXCEPT !.state = "stopped"]
           e2 == [waiting EXCEPT !.sinceCrash = 0, !.nr_crashed = 1]
           e3 == [gone EXCEPT !.nr_crashed = @ + 1]
           e4 == [waiting EXCEPT !.nr_crashed = @ + 1]
           counted == "CRITICAL" \in r.flags /\ "RESTART" \notin r.flags
<1>1. /\ CrashThreshold \in Nat /\ CrashThreshold >= 1 /\ CrashWindow \in Nat
      /\ 0 \in 0..(CrashWindow + 1) /\ 1 \in 0..(CrashThreshold + 1)
      /\ r.nr_crashed \in Nat /\ r.nr_crashed + 1 \in 0..(CrashThreshold + 1)
    BY ServiceConstants DEF Service
<1>2. gone \in Service /\ waiting \in Service
    BY DEF Service, Flags, States, awaits
<1>4. /\ gone.flags = (r.flags \ {"RUNNING"}) \cup (IF oneShotDone(r.flags) THEN {"DISABLED"} ELSE {})
      /\ gone.pid = NoPid /\ gone.nr_crashed = r.nr_crashed
      /\ waiting.flags = (gone.flags \ {"RESTART"}) \cup {"RESTARTING"} /\ waiting.pid = NoPid
      /\ waiting.nr_crashed = r.nr_crashed /\ waiting.state = "restarting"
    BY DEF Service, awaits
<1>5. exited(r) = IF heldBack(gone.flags) THEN e1
                  ELSE IF ~counted THEN waiting
                  ELSE IF ~inWindow(r) THEN e2
                  ELSE IF tooMany(r) THEN e3 ELSE e4
    BY DEF exited
<1> HIDE DEF gone, waiting
<1>3. e1 \in Service /\ e2 \in Service /\ e3 \in Service /\ e4 \in Service
    BY <1>1, <1>2, <1>4 DEF Service, States
<1>6. /\ e1.flags = gone.flags /\ e1.pid = NoPid /\ e1.state = "stopped" /\ e1.nr_crashed = r.nr_crashed
      /\ e2.flags = waiting.flags /\ e2.pid = NoPid /\ e2.state = "restarting" /\ e2.nr_crashed = 1
      /\ e3.flags = gone.flags /\ e3.pid = NoPid
      /\ e4.flags = waiting.flags /\ e4.pid = NoPid /\ e4.state = "restarting"
      /\ e4.nr_crashed = r.nr_crashed + 1
    BY <1>2, <1>4 DEF Service
<1> HIDE DEF e1, e2, e3, e4
<1>7. CASE heldBack(gone.flags)
  <2>1. exited(r) = e1
    BY <1>5, <1>7
  <2> QED BY <1>3, <1>4, <1>6, <1>7, <2>1 DEF Left, Coherent, Notified, Supervised, PromiseStep, St, Keep, Held,
          heldBack, oneShotDone
<1>8. CASE ~heldBack(gone.flags) /\ counted /\ inWindow(r) /\ tooMany(r)
  <2>1. exited(r) = e3
    BY <1>5, <1>8
  <2>2. givesUp(r)
    BY <1>4, <1>8 DEF givesUp, heldBack, oneShotDone
  <2> QED BY <1>3, <1>4, <1>6, <1>8, <2>1, <2>2 DEF Left, Coherent, Held, heldBack
<1>9. CASE ~heldBack(gone.flags) /\ ~(counted /\ inWindow(r) /\ tooMany(r))
  <2>1. exited(r) \in {waiting, e2} \/ (exited(r) = e4 /\ inWindow(r) /\ ~tooMany(r))
    BY <1>5, <1>9
  <2>2. exited(r).flags = waiting.flags /\ exited(r).pid = NoPid /\ exited(r).state = "restarting"
        /\ exited(r) \in Service
    BY <1>2, <1>3, <1>4, <1>6, <2>1
  <2>3. exited(r).nr_crashed <= CrashThreshold
    BY <1>1, <1>4, <1>6, <2>1 DEF tooMany
  <2>4. ~Held(r)
    BY <1>4, <1>9 DEF Held, heldBack
  <2> QED BY <1>4, <1>9, <2>2, <2>3, <2>4 DEF Left, Coherent, Notified, Supervised, PromiseStep, St, Keep,
          heldBack, oneShotDone
<1> QED BY <1>7, <1>8, <1>9

------------------------------------------------------------------------------
\* what holds of every service, and of every service while init runs
SvcInv == \A s \in Svc : Coherent(svc[s]) /\ ("ONESHOT" \in svc[s].flags <=> "ONESHOT" \in RcFlags[s])
Fine(r) == /\ r.nr_crashed <= CrashThreshold /\ Notified(r)
           /\ "nofork" \notin Faults => Supervised(r)
LiveInv == pc # "recovery" => \A s \in Svc : Fine(svc[s])
NoExec == ~Execs => pc # "exec"

IInv == TypeOK /\ ProcessTable /\ SvcInv /\ LiveInv /\ StopHolds /\ NoLostExit /\ NoExec

\* the services of T get the answers a: pids are free and given once
Answered(T, a) ==
    /\ \A s \in T : (a[s] \in Pids => a[s] \in Free) /\ (a[s] = "nofork" => "nofork" \in Faults)
    /\ \A s, t \in T : a[s] \in Pids /\ a[s] = a[t] => s = t

\* new is what becomes of the services when those of T are started, stopped or
\* restarted and those of X have lost their process
Becomes(new, T, a, X, gone) ==
    /\ T \subseteq Svc /\ X \subseteq Svc /\ T \cap X = {}
    /\ Answered(T, a)
    /\ new = [s \in Svc |-> new[s]]
    /\ \A s \in T : Moved(svc[s], new[s], a[s])
    /\ \A s \in X : Left(svc[s], new[s]) /\ svc[s].pid \in gone
    /\ \A s \in Svc \ (T \cup X) : new[s] = svc[s]
    /\ gone \subseteq Pids \ Free
    /\ ~Execs => \A s \in Svc : svc[s].pid \in gone => s \in X

\* the answers of the kernel
LEMMA KernelAnswers ==
    ASSUME NEW T \in SUBSET Svc, NEW a \in Answers(T)
    PROVE  Answered(T, a) /\ \A s \in T : a[s] \in Pids \cup Failures
<1>1. Faults \subseteq Failures /\ Pids \cap Failures = {} /\ "nofork" \in Failures
    BY ServiceConstants DEF Failures
<1>2. Free \subseteq Pids
    BY DEF Free
<1> QED BY <1>1, <1>2 DEF Answers, Answered

\* the records after a step: each is in order, and each changed as Supervisor allows
LEMMA RecordsAfter ==
    ASSUME IInv, pc # "recovery", NEW new, NEW T, NEW a, NEW X, NEW gone,
           Becomes(new, T, a, X, gone)
    PROVE  /\ new \in [Svc -> Service]
           /\ \A s \in Svc : Coherent(new[s]) /\ ("ONESHOT" \in new[s].flags <=> "ONESHOT" \in RcFlags[s])
           /\ (\A s \in X : ~givesUp(svc[s])) =>
                  \A s \in Svc : Fine(new[s]) /\ PromiseStep(svc[s], new[s])
           /\ \A s \in Svc : \/ new[s].pid = svc[s].pid
                             \/ svc[s].pid = NoPid /\ new[s].pid \in Free /\ s \in T /\ new[s].pid = a[s]
                             \/ new[s].pid = NoPid /\ svc[s].pid \in gone
<1>1. /\ svc \in [Svc -> Service] /\ \A s \in Svc : svc[s] \in Service
      /\ \A s \in Svc : Coherent(svc[s]) /\ ("ONESHOT" \in svc[s].flags <=> "ONESHOT" \in RcFlags[s])
      /\ \A s \in Svc : Fine(svc[s])
    BY DEF IInv, TypeOK, SvcInv, LiveInv, Service, States
<1>2. ASSUME NEW s \in Svc, s \notin T, s \notin X
      PROVE  new[s] = svc[s] /\ PromiseStep(svc[s], new[s])
    BY <1>2 DEF Becomes, PromiseStep
<1>3. ASSUME NEW s \in T
      PROVE  /\ Moved(svc[s], new[s], a[s]) /\ Fine(new[s])
             /\ new[s].pid = svc[s].pid \/ (svc[s].pid = NoPid /\ new[s].pid \in Free /\ new[s].pid = a[s])
    BY <1>1, <1>3 DEF Becomes, Moved, Fine, Answered
<1>4. ASSUME NEW s \in X
      PROVE  Left(svc[s], new[s]) /\ svc[s].pid \in gone /\ (~givesUp(svc[s]) => Fine(new[s]))
    BY <1>1, <1>4 DEF Becomes, Left, Fine
<1>5. \A s \in Svc : new[s] \in Service
    BY <1>1, <1>2, <1>3, <1>4 DEF Moved, Left
<1>6. new \in [Svc -> Service]
    BY <1>5 DEF Becomes
<1>7. T \subseteq Svc /\ X \subseteq Svc
    BY DEF Becomes
<1>8. \A s \in Svc : Coherent(new[s]) /\ ("ONESHOT" \in new[s].flags <=> "ONESHOT" \in RcFlags[s])
    BY <1>1, <1>2, <1>3, <1>4, <1>7 DEF Moved, Left
<1>9. (\A s \in X : ~givesUp(svc[s])) => \A s \in Svc : Fine(new[s]) /\ PromiseStep(svc[s], new[s])
    BY <1>1, <1>2, <1>3, <1>4, <1>7 DEF Moved, Left
<1>10. ASSUME NEW s \in Svc
       PROVE  \/ new[s].pid = svc[s].pid
              \/ svc[s].pid = NoPid /\ new[s].pid \in Free /\ s \in T /\ new[s].pid = a[s]
              \/ new[s].pid = NoPid /\ svc[s].pid \in gone
  <2>1. CASE s \in T
    BY <1>3, <2>1
  <2>2. CASE s \in X
    BY <1>4, <2>2 DEF Left
  <2>3. CASE s \notin T /\ s \notin X
    BY <1>2, <2>3
  <2> QED BY <2>1, <2>2, <2>3
<1> QED BY <1>6, <1>8, <1>9, <1>10

\* ... and the table of processes agrees with them
LEMMA TableAfter ==
    ASSUME IInv, pc # "recovery", NEW new, NEW T, NEW a, NEW X, NEW gone, NEW killed,
           Becomes(new, T, a, X, gone), Effect(new, killed, gone)
    PROVE  /\ svc' = new /\ ProcessTable'
           /\ proc' \in [Pids -> {"none", "alive", "dying", "zombie"}]
           /\ whose' \in [Pids -> Svc \cup {"exec", "orphan", "nobody"}]
           /\ \A p \in Pids : proc'[p] = "zombie" => proc[p] = "zombie"
<1> DEFINE child(p) == {s \in Svc : "RUNNING" \in new[s].flags \ svc[s].flags /\ new[s].pid = p}
           hit == {svc[s].pid : s \in killed}
<1>1. /\ svc' = new
      /\ proc' = [p \in Pids |-> IF p \in gone THEN "none"
                                 ELSE IF child(p) # {} THEN "alive"
                                 ELSE IF p \in hit /\ proc[p] = "alive" THEN "dying"
                                 ELSE proc[p]]
      /\ whose' = [p \in Pids |-> IF child(p) # {} THEN CHOOSE s \in child(p) : TRUE
                                  ELSE IF p \in gone THEN "nobody"
                                  ELSE whose[p]]
    BY DEF Effect
<1>2. /\ proc \in [Pids -> {"none", "alive", "dying", "zombie"}]
      /\ whose \in [Pids -> Svc \cup {"exec", "orphan", "nobody"}]
      /\ \A s \in Svc : svc[s].pid \in Pids \cup {NoPid} /\ Coherent(svc[s])
    BY DEF IInv, TypeOK, SvcInv
<1>0. \A s \in Svc : new[s].pid \in Pids \cup {NoPid}
  <2>1. new \in [Svc -> Service]
    BY RecordsAfter
  <2> QED BY <2>1 DEF Service
<1>3. /\ \A s \in Svc : Coherent(new[s]) /\ new[s].pid \in Pids \cup {NoPid}
      /\ \A s \in Svc : \/ new[s].pid = svc[s].pid
                        \/ svc[s].pid = NoPid /\ new[s].pid \in Free /\ s \in T /\ new[s].pid = a[s]
                        \/ new[s].pid = NoPid /\ svc[s].pid \in gone
    BY <1>0, RecordsAfter
<1>4. gone \subseteq Pids \ Free /\ NoPid \notin Pids /\ Free \subseteq Pids /\ Svc \cap {"exec", "orphan", "nobody"} = {}
    BY ServiceConstants DEF Becomes, Free
<1>5. \A p \in Pids : \A s \in child(p) : s \in T /\ a[s] = p /\ p \in Free /\ svc[s].pid = NoPid
    BY <1>2, <1>3, <1>4 DEF Coherent
<1>6. \A p \in Pids : \A s, t \in child(p) : s = t
    BY <1>5 DEF Becomes, Answered
<1>7. \A p \in Pids : child(p) # {} => (CHOOSE s \in child(p) : TRUE) \in child(p)
    OBVIOUS
<1>8. proc' \in [Pids -> {"none", "alive", "dying", "zombie"}]
    BY <1>1, <1>2
<1>9. whose' \in [Pids -> Svc \cup {"exec", "orphan", "nobody"}]
    BY <1>1, <1>2, <1>7
<1>10. \A p \in Pids : proc'[p] = "zombie" => proc[p] = "zombie"
    BY <1>1
<1> HIDE DEF child, hit
<1>11. \A p \in Pids : /\ proc'[p] # "none" => p \notin gone /\ (child(p) # {} \/ proc[p] # "none")
                       /\ p \notin gone /\ (child(p) # {} \/ proc[p] # "none") => proc'[p] # "none"
    BY <1>1
<1>12. \A p \in Pids : /\ child(p) # {} => whose'[p] \in child(p)
                       /\ child(p) = {} /\ p \in gone => whose'[p] = "nobody"
                       /\ child(p) = {} /\ p \notin gone => whose'[p] = whose[p]
    BY <1>1, <1>7
<1>13. ASSUME NEW s \in Svc PROVE "RUNNING" \in svc'[s].flags <=> svc'[s].pid # NoPid
    BY <1>1, <1>3 DEF Coherent
<1>14. ASSUME NEW s \in Svc, NEW p \in Pids, proc'[p] # "none", whose'[p] = s PROVE svc'[s].pid = p
  <2>1. CASE child(p) # {}
    BY <1>1, <1>12, <1>14, <2>1 DEF child
  <2>2. CASE child(p) = {}
    <3>1. p \notin gone /\ proc[p] # "none" /\ whose[p] = s
      BY <1>4, <1>11, <1>12, <1>14, <2>2
    <3>2. svc[s].pid = p
      BY <3>1 DEF IInv, ProcessTable
    <3> QED BY <1>1, <1>3, <1>4, <3>1, <3>2
  <2> QED BY <2>1, <2>2
<1>15. ASSUME NEW s \in Svc, ~Execs, svc'[s].pid # NoPid
       PROVE  proc'[svc'[s].pid] # "none" /\ whose'[svc'[s].pid] = s
  <2> DEFINE p == new[s].pid
  <2>1. p \in Pids /\ svc'[s].pid = p
    BY <1>1, <1>3, <1>15
  <2> HIDE DEF p
  <2>2. CASE svc[s].pid = p
    <3>1. proc[p] # "none" /\ whose[p] = s
      BY <1>4, <1>15, <2>1, <2>2 DEF IInv, ProcessTable
    <3>2. child(p) = {}
      BY <1>5, <2>1, <3>1 DEF Free
    <3>3. p \notin gone
      <4>1. p \in gone => s \in X
        BY <1>15, <2>2 DEF Becomes
      <4>2. s \in X => new[s].pid = NoPid
        BY DEF Becomes, Left
      <4> QED BY <1>4, <2>1, <4>1, <4>2 DEF p
    <3> QED BY <1>11, <1>12, <2>1, <3>1, <3>2, <3>3
  <2>3. CASE svc[s].pid # p
    <3>1. s \in child(p) /\ p \in Free
      BY <1>3, <1>4, <2>1, <2>3, <1>2 DEF child, p, Coherent
    <3> QED BY <1>4, <1>6, <1>11, <1>12, <2>1, <3>1
  <2> QED BY <2>2, <2>3
<1>16. ProcessTable'
    BY <1>13, <1>14, <1>15 DEF ProcessTable, Execs
<1> QED BY <1>1, <1>8, <1>9, <1>10, <1>16

------------------------------------------------------------------------------
\* a step leaves the services and their processes in order
ServicesStep ==
    /\ svc' \in [Svc -> Service] /\ ProcessTable' /\ SvcInv'
    /\ proc' \in [Pids -> {"none", "alive", "dying", "zombie"}]
    /\ whose' \in [Pids -> Svc \cup {"exec", "orphan", "nobody"}]
    /\ \A p \in Pids : proc'[p] = "zombie" => proc[p] = "zombie"
    /\ pc' # "recovery" => \A s \in Svc : Fine(svc'[s]) /\ PromiseStep(svc[s], svc'[s])
    /\ stopped' \subseteq Svc /\ \A s \in stopped' : Held(svc'[s])

\* the facts about single services that the invariant holds
LEMMA RecordsNow ==
    ASSUME IInv, pc # "recovery"
    PROVE  /\ svc \in [Svc -> Service] /\ \A s \in Svc : svc[s] \in Service /\ Coherent(svc[s]) /\ Fine(svc[s])
           /\ stopped \subseteq Svc /\ \A s \in stopped : Held(svc[s])
           /\ uptime \in 0..MaxAge
BY DEF IInv, TypeOK, SvcInv, LiveInv, StopHolds, Held, Service, States

\* a step in which no service changes
LEMMA NoServiceChanges ==
    ASSUME IInv, pc # "recovery", UNCHANGED <<svc, whose, stopped>>,
           proc' \in [Pids -> {"none", "alive", "dying", "zombie"}],
           \A p \in Pids : proc'[p] = "none" <=> proc[p] = "none",
           \A p \in Pids : proc'[p] = "zombie" => proc[p] = "zombie"
    PROVE  ServicesStep
<1>1. svc' \in [Svc -> Service] /\ \A s \in Svc : Fine(svc'[s]) /\ PromiseStep(svc[s], svc'[s])
    BY RecordsNow DEF PromiseStep
<1>2. ProcessTable'
  <2>1. \A s \in Svc : svc[s].pid \in Pids \cup {NoPid}
    BY RecordsNow DEF Service
  <2> QED BY <2>1 DEF IInv, ProcessTable, Execs
<1>3. SvcInv' /\ stopped' \subseteq Svc /\ \A s \in stopped' : Held(svc'[s])
    BY RecordsNow DEF IInv, SvcInv
<1>4. whose' \in [Pids -> Svc \cup {"exec", "orphan", "nobody"}]
    BY DEF IInv, TypeOK
<1> QED BY <1>1, <1>2, <1>3, <1>4 DEF ServicesStep

\* a step that Becomes describes
LEMMA ServicesChange ==
    ASSUME IInv, pc # "recovery", NEW new, NEW T, NEW a, NEW X, NEW gone, NEW killed,
           Becomes(new, T, a, X, gone), Effect(new, killed, gone),
           pc' # "recovery" => \A s \in X : ~givesUp(svc[s]),
           stopped' \subseteq Svc, \A s \in stopped' : Held(new[s])
    PROVE  ServicesStep
<1>1. /\ svc' = new /\ ProcessTable'
      /\ proc' \in [Pids -> {"none", "alive", "dying", "zombie"}]
      /\ whose' \in [Pids -> Svc \cup {"exec", "orphan", "nobody"}]
      /\ \A p \in Pids : proc'[p] = "zombie" => proc[p] = "zombie"
    BY TableAfter
<1>2. /\ new \in [Svc -> Service]
      /\ \A s \in Svc : Coherent(new[s]) /\ ("ONESHOT" \in new[s].flags <=> "ONESHOT" \in RcFlags[s])
      /\ (\A s \in X : ~givesUp(svc[s])) =>
             \A s \in Svc : Fine(new[s]) /\ PromiseStep(svc[s], new[s])
    BY RecordsAfter
<1>3. SvcInv'
    BY <1>1, <1>2 DEF SvcInv
<1> QED BY <1>1, <1>2, <1>3 DEF ServicesStep

\* service_start, on the services of T
LEMMA StartStep ==
    ASSUME IInv, pc # "recovery", NEW T \in SUBSET Svc, NEW dynamic \in BOOLEAN, NEW a \in Answers(T),
           Effect([s \in Svc |-> IF s \in T THEN service_start(svc[s], dynamic, a[s]) ELSE svc[s]], {}, {}),
           stopped' \subseteq stopped \ T
    PROVE  ServicesStep
<1> DEFINE new == [s \in Svc |-> IF s \in T THEN service_start(svc[s], dynamic, a[s]) ELSE svc[s]]
<1>1. \A s \in T : new[s] = service_start(svc[s], dynamic, a[s])
    OBVIOUS
<1>2. new = [s \in Svc |-> new[s]] /\ \A s \in Svc \ T : new[s] = svc[s]
    OBVIOUS
<1> HIDE DEF new
<1>3. \A s \in T : Moved(svc[s], new[s], a[s])
    BY <1>1, RecordsNow, KernelAnswers, StartMoves
<1>4. Becomes(new, T, a, {}, {})
    BY <1>2, <1>3, KernelAnswers DEF Becomes
<1>5. stopped' \subseteq Svc /\ \A s \in stopped' : Held(new[s])
    BY <1>2, RecordsNow
<1>6. Effect(new, {}, {})
    BY DEF new
<1> QED BY <1>4, <1>5, <1>6, ServicesChange

\* service_stop and service_reset, on the services of T
LEMMA StopStep ==
    ASSUME IInv, pc # "recovery", NEW T \in SUBSET Svc, NEW how \in {"DISABLED", "RESET"}, Stop(T, how)
    PROVE  ServicesStep
<1> DEFINE new == [s \in Svc |-> IF s \in T THEN service_stop_or_reset(svc[s], how) ELSE svc[s]]
           a == [s \in T |-> "missing"]
<1>1. \A s \in T : new[s] = service_stop_or_reset(svc[s], how)
    OBVIOUS
<1>2. new = [s \in Svc |-> new[s]] /\ \A s \in Svc \ T : new[s] = svc[s]
    OBVIOUS
<1>3. Answered(T, a)
    BY ServiceConstants DEF Answered, Failures
<1>4. Effect(new, T, {}) /\ stopped' = stopped \cup T
    BY DEF Stop
<1> HIDE DEF new, a
<1>5. \A s \in T : Moved(svc[s], new[s], a[s]) /\ Held(new[s])
    BY <1>1, RecordsNow, StopMoves
<1>6. Becomes(new, T, a, {}, {})
    BY <1>2, <1>3, <1>5 DEF Becomes
<1>7. stopped' \subseteq Svc /\ \A s \in stopped' : Held(new[s])
    BY <1>2, <1>4, <1>5, RecordsNow
<1> QED BY <1>4, <1>6, <1>7, ServicesChange

\* service_restart, on the services of T
LEMMA RestartStep ==
    ASSUME IInv, pc # "recovery", NEW T \in SUBSET Svc, Restart(T)
    PROVE  ServicesStep
<1>1. PICK a \in Answers(T) :
          Effect([s \in Svc |-> IF s \in T THEN service_restart(svc[s], a[s]) ELSE svc[s]],
                 {s \in T : "RUNNING" \in svc[s].flags}, {})
    BY DEF Restart
<1> DEFINE new == [s \in Svc |-> IF s \in T THEN service_restart(svc[s], a[s]) ELSE svc[s]]
           killed == {s \in T : "RUNNING" \in svc[s].flags}
<1>2. \A s \in T : new[s] = service_restart(svc[s], a[s])
    OBVIOUS
<1>3. new = [s \in Svc |-> new[s]] /\ \A s \in Svc \ T : new[s] = svc[s]
    OBVIOUS
<1>4. Effect(new, killed, {}) /\ stopped' = stopped \ T
    BY <1>1 DEF Restart
<1> HIDE DEF new, killed
<1>5. \A s \in T : Moved(svc[s], new[s], a[s])
    BY <1>2, RecordsNow, KernelAnswers, RestartMoves
<1>6. Becomes(new, T, a, {}, {})
    BY <1>3, <1>5, KernelAnswers DEF Becomes
<1>7. stopped' \subseteq Svc /\ \A s \in stopped' : Held(new[s])
    BY <1>3, <1>4, RecordsNow
<1> QED BY <1>4, <1>6, <1>7, ServicesChange
================================================================================
