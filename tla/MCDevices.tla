------------------------------- MODULE MCDevices -------------------------------
(***************************************************************************)
(* Small instances of the parts of init and ueventd that work on devices    *)
(* and files.  They share no state, so that a behaviour is about one of     *)
(* them, the focus, and v1 to v14 are the variables of that one.            *)
(***************************************************************************)
EXTENDS Integers, Sequences, FiniteSets

CONSTANTS none,    \* no device, no value
          percent  \* a character

VARIABLES focus, v1, v2, v3, v4, v5, v6, v7, v8, v9, v10, v11, v12, v13, v14

vars == <<focus, v1, v2, v3, v4, v5, v6, v7, v8, v9, v10, v11, v12, v13, v14>>

\* a card behind two platform devices, and two devices that take the same node
Devs == {"soc", "mmc", "mmcblk0", "usb1", "usb2"}
U == INSTANCE Ueventd WITH
    Hot <- {"mmcblk0", "usb1", "usb2"},
    Subsystem <- [d \in Devs |-> CASE d \in {"soc", "mmc"} -> "platform" [] d = "mmcblk0" -> "block" [] OTHER -> "usb"],
    Ancestors <- [d \in Devs |-> CASE d = "mmc" -> <<"soc">> [] d = "mmcblk0" -> <<"soc", "mmc">> [] OTHER -> <<>>],
    Path <- [d \in Devs |-> IF d \in {"usb1", "usb2"} THEN "bus/usb/001" ELSE d],
    LinkNames <- [d \in Devs |-> CASE d = "mmcblk0" -> {"by-name", "by-num"} [] d = "usb1" -> {"if0"} [] OTHER -> {}],
    Rules <- <<[path |-> "bus", prefix |-> TRUE, perm |-> "0660"],
               [path |-> "bus/usb/001", prefix |-> FALSE, perm |-> "0664"],
               [path |-> "bus", prefix |-> TRUE, perm |-> "0666"]>>,
    UnderPrefix <- [q \in {"bus", "bus/usb/001"} |-> {"bus/usb/001"}],
    SockMax <- 2, MaxHotplug <- 2, MaxRestarts <- 1, None <- none,
    present <- v1, sock <- v2, node <- v3, link <- v4, platform <- v5, todo <- v6, pc <- v7, done <- v8,
    hotplugs <- v9, restarts <- v10, lost <- v11, since <- v12

F == INSTANCE Firmware WITH
    Holders <- SUBSET {"/etc/firmware", "/vendor/firmware"}, Sizes <- {0, 1, 3, 4}, ShortWrites <- FALSE,
    mounted <- v1, booting <- v2, holders <- v3, size <- v4, sound <- v5, pc <- v6, flag <- v7,
    tocopy <- v8, buf <- v9, loading <- v10, data <- v11, inTime <- v12, st <- v13, low <- v14

M == INSTANCE InitMount WITH
    Jobs <- [kind : {"mtd", "loop"}, there : BOOLEAN, wait : {FALSE}] \cup
            [kind : {"dev", "mtd"}, there : {TRUE}, wait : {TRUE}],
    Loops <- 2, Timeout <- 2, MaxVold <- 2,
    job <- v1, pc <- v2, rc <- v3, clock <- v4, deadline <- v5, node <- v6, refused <- v7, n <- v8,
    loop <- v9, mounted <- v10, vold <- v11

\* the hypothesis of the theorems about do_mount
ASSUME MountBounds == M!Bounds

C == INSTANCE FileCopy WITH
    Sources <- {<<>>, <<"a">>, <<"a", "b", "c">>}, MaxChange <- 2, Garbage <- none,
    pc <- v1, rc <- v2, size <- v3, src <- v4, offset <- v5, buf <- v6, p <- v7, dst <- v8,
    changes <- v9, shrunk <- v10, stalled <- v11

\* 250 s for 200 ms of polling: three samples in the ten minutes allowed
B == INSTANCE BootChart WITH
    Order <- <<"stat", "procs">>,
    Starts <- {<<>>, <<0>>, <<9>>, <<5, 0, 0>>, <<9, 9, 9>>, <<1, 2, 0, 0>>}, Options <- {-1, 0, 501, 1200},
    MaxTime <- 600, Polling <- 250000, Lengths <- {0, 3}, BufSize <- 2,
    phase <- v1, asked <- v2, count <- v3, taken <- v4, rest <- v5, src <- v6, to <- v7, buf <- v8,
    file <- v9, logged <- v10, cut <- v11

\* the list: up to six characters, and two that seq_printf takes for conversions
P == INSTANCE AslProc WITH
    Lists <- {SubSeq(<<"a", "b", "c", "d", "e", "f">>, 1, n) : n \in 0..6}
             \cup {<<"a", percent, "b", "c">>, <<percent, percent>>},
    Percent <- percent, Junk <- {<<>>, <<"j">>, <<percent>>},
    Reads <- {1, 2, 3, 8}, Statuses <- {}, Others <- {}, MaxProcSize <- 4, Nul <- none, Beyond <- {<<>>},
    list <- v1, index <- v2, buf <- v3, got <- v4, end <- v5, proc_data <- v6, reader <- v7,
    written <- v8, past <- v9

\* the status: besides what the scripts write, a shorter one, one that leaves no room
\* for a Nul and one that is too long
S == INSTANCE AslProc WITH
    Lists <- {<<>>}, Percent <- percent, Junk <- {}, Reads <- {1, 8},
    Statuses <- {<<"0", "nl">>, <<"1", "nl">>}, Others <- {<<"1">>, <<"o", "k", "a", "y">>, <<"e", "r", "r", "o", "r">>},
    MaxProcSize <- 4, Nul <- none, Beyond <- {<<>>, <<"j">>},
    list <- v1, index <- v2, buf <- v3, got <- v4, end <- v5, proc_data <- v6, reader <- v7,
    written <- v8, past <- v9

\* four names of /system and their rules in asl_permissions.conf
A == INSTANCE AslPerms WITH
    Paths <- {"bin", "netcfg", ".ext", "su"}, Dir <- {"bin", ".ext"},
    Below <- [d \in {"bin", ".ext"} |-> IF d = "bin" THEN <<"bin", ".ext", "su", "netcfg">> ELSE <<".ext", "su">>],
    Rules <- <<[who |-> "0:2000", mode |-> "0755", dirmode |-> "0755", path |-> "bin"],
               [who |-> "0:0", mode |-> "06755", dirmode |-> "0711", path |-> ".ext"],
               [who |-> "0:3003", mode |-> "02750", dirmode |-> "none", path |-> "netcfg"]>>,
    SetId <- [m \in {"06755", "02750"} |-> IF m = "06755" THEN "0755" ELSE "0750"],
    Restored <- {[who |-> "0:0", mode |-> "0644"], [who |-> "0:0", mode |-> "0755"]}, MaxCuts <- 1,
    attr <- v1, built <- v2, line <- v3, cmds <- v4, cuts <- v5

Init ==
    \/ focus = "ueventd" /\ U!Init /\ v13 = none /\ v14 = none
    \/ focus = "firmware" /\ F!Init
    \/ focus = "mount" /\ M!Init /\ v12 = none /\ v13 = none /\ v14 = none
    \/ focus = "copy" /\ C!Init /\ v12 = none /\ v13 = none /\ v14 = none
    \/ focus = "chart" /\ B!Init /\ v12 = none /\ v13 = none /\ v14 = none
    \/ focus = "list" /\ P!Init /\ v10 = none /\ v11 = none /\ v12 = none /\ v13 = none /\ v14 = none
    \/ focus = "status" /\ S!Init /\ v10 = none /\ v11 = none /\ v12 = none /\ v13 = none /\ v14 = none
    \/ focus = "perms" /\ A!Init /\ v6 = none /\ v7 = none /\ v8 = none /\ v9 = none
       /\ v10 = none /\ v11 = none /\ v12 = none /\ v13 = none /\ v14 = none

Next ==
    /\ UNCHANGED focus
    /\ \/ focus = "ueventd" /\ U!Next /\ UNCHANGED <<v13, v14>>
       \/ focus = "firmware" /\ F!Next
       \/ focus = "mount" /\ M!Next /\ UNCHANGED <<v12, v13, v14>>
       \/ focus = "copy" /\ C!Next /\ UNCHANGED <<v12, v13, v14>>
       \/ focus = "chart" /\ B!Next /\ UNCHANGED <<v12, v13, v14>>
       \/ focus = "list" /\ P!Next /\ UNCHANGED <<v10, v11, v12, v13, v14>>
       \/ focus = "status" /\ S!Next /\ UNCHANGED <<v10, v11, v12, v13, v14>>
       \/ focus = "perms" /\ A!Next /\ UNCHANGED <<v6, v7, v8, v9, v10, v11, v12, v13, v14>>

\* the fairness of each of them
Steps ==
    /\ UNCHANGED focus
    /\ \/ focus = "ueventd" /\ U!ueventd /\ UNCHANGED <<v13, v14>>
       \/ focus = "firmware" /\ F!child
       \/ focus = "mount" /\ M!InitSteps /\ UNCHANGED <<v12, v13, v14>>
       \/ focus = "copy" /\ C!InitSteps /\ UNCHANGED <<v12, v13, v14>>
Others ==
    /\ UNCHANGED focus
    /\ \/ focus = "firmware" /\ F!check_startup_action
       \/ focus = "mount" /\ M!Tick /\ UNCHANGED <<v12, v13, v14>>

FairSpec == Init /\ [][Next]_vars /\ WF_vars(Steps) /\ WF_vars(Others)

------------------------------------------------------------------------------
\* The properties of the parts, each of the behaviours that are about it; what
\* they say of the code is said where they are defined.

\* every part's variables have their types
TypeOK ==
    CASE focus = "ueventd" -> U!TypeOK
      [] focus = "firmware" -> F!TypeOK
      [] focus = "mount" -> M!TypeOK
      [] focus = "copy" -> C!TypeOK
      [] focus = "chart" -> B!TypeOK
      [] focus = "list" -> P!TypeOK
      [] focus = "status" -> S!TypeOK
      [] focus = "perms" -> A!TypeOK

\* ueventd: once it has caught up, /dev has the nodes of the devices there are and
\* their links, each node with the permissions the last rule for it gives
DevFollows == focus = "ueventd" => U!NodesFollow /\ U!LinksFollow /\ U!LastRuleHolds
\* ueventd: the walk of the cold boot never overruns the event socket, and
\* coldboot_done means nodes for the devices there from the start
ColdbootComplete == focus = "ueventd" => U!ColdbootFits /\ U!DoneMeansNodes

\* firmware: a transfer reported as done is the front of the file, at least as much
\* as it had at all times since fstat, and there is no abort while the file could be
\* read when the boot ended
AnswerIsRight == focus = "firmware" => F!CompleteTransfer /\ F!NoPrematureAbort

\* do_mount: success means that what was asked for is mounted, and failure that
\* no loop device is left bound and a device was waited for until the deadline
ResultIsRight == focus = "mount" => M!OwnImage /\ M!LoopGivenBack /\ M!WaitedFor
\* do_mount: loop devices of others are left alone
VoldUndisturbed == [][focus = "mount" => M!VoldsStay]_vars

\* do_copy: a copy reported as done is the file as long as it was at stat, but for
\* what a truncated source no longer gave and a write that took nothing left out
CopiesAll == focus = "copy" => C!CopiesAll

\* bootchart: as many samples as the time asked for takes, no logged byte doubled
\* or out of place, and none lost but by a write that was cut short
ChartIsWhole == focus = "chart" => B!LastsAsAsked /\ B!NothingLost /\ B!AllInFiles

\* asl.c: a reader of the list gets all of it or an error, never a part; of a list
\* with a percent sign, what is before it
WholeList == focus = "list" => P!WholeList
\* asl.c: the status read is the one written last, unless a longer one came before
\* it or it fills the buffer, and a read that a write of the scripts overtakes is
\* still of one status
OneStatus == focus = "status" => S!StatusIsLast /\ S!NeverMixed

\* fix_permissions: at its end owners and modes are those of the build, and at no
\* time is a set-id bit there for another owner
PermissionsRight == focus = "perms" => A!AsBuilt /\ A!SetIdWithOwner

\* ueventd, firmware, do_mount, do_copy: the cold boot, a request of the kernel and
\* the two commands come to their end, whatever the others do meanwhile
EachEnds ==
    <>(CASE focus = "ueventd" -> U!Done
         [] focus = "firmware" -> F!Answered
         [] focus = "mount" -> M!Over
         [] focus = "copy" -> C!Over
         [] OTHER -> TRUE)
================================================================================
