------------------------------- MODULE InitMount -------------------------------
(***************************************************************************)
(* The mount command of init (builtins.c, do_mount, and wait_for_file),     *)
(* with ueventd making the device node meanwhile and another process (vold) *)
(* binding and releasing loop devices.                                      *)
(***************************************************************************)
EXTENDS Integers, FiniteSets

CONSTANTS
    Jobs,        \* sources: [kind, there, wait]; there: the mtd partition or file exists
    Loops,       \* number of loop devices
    Timeout,     \* COMMAND_RETRY_TIMEOUT
    MaxVold      \* bound on what vold does

\* what the proofs ask of the constants
Bounds == Loops \in Nat /\ Timeout \in Nat /\ MaxVold \in Nat

VARIABLES
    job, pc, rc, clock, deadline,
    node,        \* the device node exists
    refused,     \* history: mount(2) said no to a device that was there
    n, loop,     \* the loop device looked at, and whose file each is bound to
    mounted,     \* what is mounted
    vold         \* how often vold acted

vars == <<job, pc, rc, clock, deadline, node, refused, n, loop, mounted, vold>>

Init ==
    /\ job \in Jobs /\ pc = "start" /\ rc = 1 /\ clock = 0 /\ deadline = 0
    /\ node \in BOOLEAN /\ refused = FALSE /\ n = 0
    /\ loop \in [0..(Loops - 1) -> {"blank", "vold"}] /\ mounted = "nothing" /\ vold = 0

Return(status) == rc' = status /\ pc' = "out"

do_mount ==
    /\ pc = "start"
    /\ \/ job.kind \in {"mtd", "loop"} /\ ~job.there /\ Return(-1) /\ UNCHANGED deadline
       \/ job.kind = "loop" /\ job.there /\ pc' = "open" /\ UNCHANGED <<rc, deadline>>
       \/ /\ job.kind = "dev" \/ (job.kind = "mtd" /\ job.there)
          /\ deadline' = clock + Timeout
          /\ pc' = (IF job.wait THEN "wait" ELSE "mount") /\ UNCHANGED rc
    /\ UNCHANGED <<job, clock, node, refused, n, loop, mounted, vold>>

\* a turn of the loop; do_mount does not look at how it ended
wait_for_file ==
    /\ pc = "wait" /\ (clock >= deadline \/ node) /\ pc' = "mount"
    /\ UNCHANGED <<job, rc, clock, deadline, node, refused, n, loop, mounted, vold>>

mount_device ==
    /\ pc = "mount"
    /\ \/ node /\ mounted' = "device" /\ Return(0) /\ UNCHANGED refused
       \/ Return(-1) /\ refused' = node /\ UNCHANGED mounted
    /\ UNCHANGED <<job, clock, deadline, node, n, loop, vold>>

\* for (n = 0; ; n++): until a node does not open
open_loop ==
    /\ pc = "open"
    /\ \/ n = Loops /\ Return(-1)
       \/ n < Loops /\ pc' = "status" /\ UNCHANGED rc
    /\ UNCHANGED <<job, clock, deadline, node, refused, n, loop, mounted, vold>>

NextLoop == n' = n + 1 /\ pc' = "open"

loop_get_status ==
    /\ pc = "status"
    /\ \/ loop[n] = "blank" /\ pc' = "set" /\ UNCHANGED n
       \/ loop[n] # "blank" /\ NextLoop
    /\ UNCHANGED <<job, rc, clock, deadline, node, refused, loop, mounted, vold>>

\* it may have been bound since
loop_set_fd_trusting ==
    /\ pc = "set" /\ pc' = "mount_loop" /\ UNCHANGED n
    /\ loop' = [loop EXCEPT ![n] = IF @ = "blank" THEN "init" ELSE @]
    /\ UNCHANGED <<job, rc, clock, deadline, node, refused, mounted, vold>>
loop_set_fd ==
    /\ pc = "set"
    /\ \/ loop[n] = "blank" /\ loop' = [loop EXCEPT ![n] = "init"] /\ pc' = "mount_loop" /\ UNCHANGED n
       \/ loop[n] # "blank" /\ NextLoop /\ UNCHANGED loop
    /\ UNCHANGED <<job, rc, clock, deadline, node, refused, mounted, vold>>

mount_loop ==
    /\ pc = "mount_loop"
    /\ \/ mounted' = loop[n] /\ Return(0) /\ UNCHANGED loop
       \/ loop' = [loop EXCEPT ![n] = "blank"] /\ Return(-1) /\ UNCHANGED mounted
    /\ UNCHANGED <<job, clock, deadline, node, refused, n, vold>>

InitSteps ==
    \/ do_mount \/ wait_for_file \/ mount_device \/ open_loop
    \/ loop_get_status \/ loop_set_fd \/ mount_loop

\* time passes (what the clock says before the wait or after the deadline changes
\* nothing), ueventd makes the node
Tick ==
    /\ pc # "out" /\ clock < deadline /\ clock' = clock + 1
    /\ UNCHANGED <<job, pc, rc, deadline, node, refused, n, loop, mounted, vold>>
MakeNode ==
    /\ pc # "out" /\ ~node /\ node' = TRUE
    /\ UNCHANGED <<job, pc, rc, clock, deadline, refused, n, loop, mounted, vold>>

\* vold binds a blank device or releases one of its own
Vold ==
    /\ pc # "out" /\ vold < MaxVold /\ vold' = vold + 1
    /\ \E l \in DOMAIN loop :
          \/ loop[l] = "blank" /\ loop' = [loop EXCEPT ![l] = "vold"]
          \/ loop[l] = "vold" /\ loop' = [loop EXCEPT ![l] = "blank"]
    /\ UNCHANGED <<job, pc, rc, clock, deadline, node, refused, n, mounted>>

Next == InitSteps \/ Tick \/ MakeNode \/ Vold

Spec == Init /\ [][Next]_vars

\* init runs the command to its end; time passes
FairSpec == Spec /\ WF_vars(InitSteps) /\ WF_vars(Tick)

------------------------------------------------------------------------------
TypeOK ==
    /\ pc \in {"start", "wait", "mount", "open", "status", "set", "mount_loop", "out"}
    /\ rc \in {-1, 0, 1} /\ clock \in 0..Timeout /\ n \in 0..Loops
    /\ \A l \in DOMAIN loop : loop[l] \in {"blank", "init", "vold"}
    /\ mounted \in {"nothing", "device", "init", "vold"} /\ vold \in 0..MaxVold

\* What is mounted is what was asked for, whoever binds loop devices meanwhile
\* (LOOP_GET_STATUS and LOOP_SET_FD are two calls)
OwnImage == rc = 0 => mounted = IF job.kind = "loop" THEN "init" ELSE "device"

\* A failed mount leaves no loop device bound
LoopGivenBack == rc = -1 => \A l \in DOMAIN loop : loop[l] # "init"

\* A device of vold's is never unbound by init (LOOP_CLR_FD is only for its own)
VoldsStay == \A l \in DOMAIN loop : loop[l] = "vold" => loop'[l] = "vold" \/ vold' # vold
VoldUndisturbed == [][VoldsStay]_vars

\* With wait, a device that mount would accept is mounted unless it took longer
\* than the timeout to show up
WaitedFor ==
    rc = -1 /\ job.kind = "dev" /\ job.wait => refused \/ clock >= deadline

\* The command ends, though its loop over devices has no bound of its own: there
\* are finitely many nodes to open
Over == pc = "out"
MountEnds == <>Over
================================================================================
