---------------------------- MODULE InitMountProofs ----------------------------
(***************************************************************************)
(* The proof that do_mount mounts what it was asked to and leaves no loop   *)
(* device bound, for any number of loop devices and whatever vold does.     *)
(*                                                                          *)
(* The argument: between LOOP_GET_STATUS and LOOP_SET_FD vold may take the  *)
(* device, but then LOOP_SET_FD fails; after it the device is init's, and   *)
(* no other process touches it until mount has answered.                    *)
(***************************************************************************)
EXTENDS InitMount, TLAPS

Devices == 0..(Loops - 1)
LoopPcs == {"open", "status", "set", "mount_loop"}

\* where the command is tells what it is about, and how it ended
Where ==
    /\ pc \in LoopPcs => job.kind = "loop"
    /\ pc \in {"wait", "mount"} => job.kind # "loop"
    /\ rc = 1 <=> pc # "out"
    /\ pc \in {"status", "set", "mount_loop"} => n < Loops

\* init has a loop device bound only while it mounts it, or has mounted it
Bound ==
    /\ pc = "mount_loop" => loop[n] = "init" /\ \A l \in Devices : loop[l] = "init" => l = n
    /\ pc # "mount_loop" /\ rc # 0 => \A l \in Devices : loop[l] # "init"

\* the wait for a device ends when it is there or the time is over
Waited ==
    /\ pc = "start" => clock = 0 /\ deadline = 0
    /\ deadline \in {0, Timeout}
    /\ pc = "mount" /\ job.wait => node \/ clock >= deadline

Types ==
    /\ TypeOK /\ loop \in [Devices -> {"blank", "init", "vold"}]
    /\ node \in BOOLEAN /\ refused \in BOOLEAN

IInv == Types /\ Where /\ Bound /\ Waited /\ OwnImage /\ WaitedFor

\* the command starts with no loop device of init's
LEMMA InitInv == ASSUME Bounds PROVE Init => IInv
<1> SUFFICES ASSUME Init PROVE IInv
    OBVIOUS
<1>1. loop \in [Devices -> {"blank", "init", "vold"}] /\ (\A l \in Devices : loop[l] # "init")
    BY DEF Init, Devices
<1>2. Types
  <2>1. node \in BOOLEAN /\ refused \in BOOLEAN
    BY DEF Init
  <2>2. clock \in 0..Timeout /\ n \in 0..Loops /\ vold \in 0..MaxVold
    BY DEF Bounds, Init
  <2>3. TypeOK
    BY <1>1, <2>2 DEF Init, TypeOK
  <2> QED BY <1>1, <2>1, <2>3 DEF Types
<1> QED BY <1>1, <1>2 DEF Init, IInv, Where, Bound, Waited, OwnImage, WaitedFor, LoopPcs, Bounds

\* the steps that only move the command on keep the invariant
LEMMA MovingOn ==
    ASSUME Bounds, IInv, do_mount \/ wait_for_file \/ open_loop \/ loop_get_status \/ UNCHANGED vars
    PROVE  IInv'
<1> USE DEF IInv, Types, TypeOK, Where, Bound, Waited, OwnImage, WaitedFor, Devices, LoopPcs, Return
<1>1. CASE do_mount
    BY <1>1 DEF do_mount, Bounds
<1>2. CASE wait_for_file
    BY <1>2 DEF wait_for_file
<1>3. CASE open_loop
    BY <1>3 DEF open_loop
<1>4. CASE loop_get_status
    BY <1>4 DEF loop_get_status, NextLoop, Bounds
<1>5. CASE UNCHANGED vars
    BY <1>5 DEF vars
<1> QED BY <1>1, <1>2, <1>3, <1>4, <1>5

\* LOOP_SET_FD and the two mounts
LEMMA Mounting ==
    ASSUME Bounds, IInv, loop_set_fd \/ mount_device \/ mount_loop
    PROVE  IInv'
<1> USE DEF IInv, Types, TypeOK, Where, Bound, Waited, OwnImage, WaitedFor, Devices, LoopPcs, Return
<1>1. CASE loop_set_fd
    BY <1>1 DEF loop_set_fd, NextLoop, Bounds
<1>2. CASE mount_device
    BY <1>2 DEF mount_device
<1>3. CASE mount_loop
    BY <1>3 DEF mount_loop, Bounds
<1> QED BY <1>1, <1>2, <1>3

\* the others: the clock, ueventd and vold
LEMMA Others == ASSUME Bounds, IInv, Tick \/ MakeNode \/ Vold PROVE IInv'
<1> USE DEF IInv, Types, TypeOK, Where, Bound, Waited, OwnImage, WaitedFor, Devices, LoopPcs
<1>1. CASE Tick
    BY <1>1 DEF Tick, Bounds
<1>2. CASE MakeNode
    BY <1>2 DEF MakeNode
<1>3. CASE Vold
    BY <1>3 DEF Vold, Bounds
<1> QED BY <1>1, <1>2, <1>3

\* every step keeps the invariant
LEMMA NextInv == ASSUME Bounds, IInv, [Next]_vars PROVE IInv'
BY MovingOn, Mounting, Others DEF Next, InitSteps

\* the invariant holds throughout
LEMMA Invariance == ASSUME Bounds PROVE Spec => []IInv
<1>1. Init => IInv
    BY InitInv
<1>2. IInv /\ [Next]_vars => IInv'
    BY NextInv
<1> QED BY <1>1, <1>2, PTL DEF Spec

\* do_mount mounts what it was asked to mount, though LOOP_GET_STATUS and
\* LOOP_SET_FD are two calls and vold may act between them.
THEOREM MountsItsOwn == ASSUME Bounds PROVE Spec => []OwnImage
<1>1. IInv => OwnImage
    BY DEF IInv
<1> QED BY <1>1, Invariance, PTL

\* A mount that fails leaves no loop device bound (LOOP_CLR_FD).
THEOREM GivesBack == ASSUME Bounds PROVE Spec => []LoopGivenBack
<1>1. IInv => LoopGivenBack
    BY DEF IInv, Types, Where, Bound, LoopGivenBack
<1> QED BY <1>1, Invariance, PTL

\* With wait, do_mount gives up on a device only after the timeout, or because
\* mount refused it (wait_for_file).
THEOREM WaitsLongEnough == ASSUME Bounds PROVE Spec => []WaitedFor
<1>1. IInv => WaitedFor
    BY DEF IInv
<1> QED BY <1>1, Invariance, PTL

\* No step of init unbinds a loop device of vold's.
THEOREM LeavesVoldAlone == ASSUME Bounds PROVE Spec => VoldUndisturbed
<1>1. IInv /\ [Next]_vars => [VoldsStay]_vars
  <2> SUFFICES ASSUME IInv, Next PROVE VoldsStay
    BY DEF vars
  <2> USE DEF VoldsStay, IInv, Types, TypeOK, Devices
  <2>1. CASE Vold
    BY <2>1 DEF Vold, Bounds
  <2>2. CASE loop_set_fd
    BY <2>2 DEF loop_set_fd, Where
  <2>3. CASE mount_loop
    BY <2>3 DEF mount_loop, Bound
  <2>4. CASE UNCHANGED loop
    BY <2>4
  <2> QED BY <2>1, <2>2, <2>3, <2>4 DEF Next, InitSteps, do_mount, wait_for_file, mount_device, open_loop,
          loop_get_status, Tick, MakeNode
<1> QED BY <1>1, Invariance, PTL DEF Spec, VoldUndisturbed
================================================================================
