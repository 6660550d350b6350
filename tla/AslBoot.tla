------------------------------ MODULE AslBoot -------------------------------
(***************************************************************************)
(* A device with ASL over many boots: init executes the check and the      *)
(* recovery in its "fs" action; between boots, or rather while the device  *)
(* is up, files of /system are changed, deleted and added.  The power may  *)
(* fail at any command, the image may fail to mount, a copy may be cut     *)
(* short and the partition may be mounted read-only.                       *)
(***************************************************************************)
EXTENDS AslRecovery

CONSTANTS
  Kernels,    \* the values of /proc/asl/enabled to consider
  Images,     \* the images the device may start with
  Drifts,     \* Drifts[p]: what p may be replaced by while the device is up
  Faults,     \* which of "power", "mount", "copy", "ro", "image" may happen
  MaxEvents   \* bound on the number of drifts and faults of a behaviour

ASSUME BootAssumption ==
  /\ Kernels \subseteq {"absent", "0", "1"}
  /\ Images \subseteq [Places -> {"none", "bad", "good"}]
  /\ Drifts \in [Path -> SUBSET Node]
  /\ Faults \subseteq {"power", "mount", "copy", "ro", "image"}
  /\ MaxEvents \in Nat

VARIABLES
  left,     \* drifts and faults that may still happen
  fresh,    \* history: nothing changed since this boot reached "up"
  spoiled,  \* history: a command of this boot's scripts could not do its work
  snap      \* history: the partition as this boot found it

bootVars == <<left, fresh, spoiled, snap>>
vars == <<checkVars, recoveryVars, bootVars>>

PCs ==
  {"off", "fs", "sha1check", "proto_parse", "check_count", "check_status",
   "recovery", "check_asl_img", "mount_sd", "modify", "doa",
   "fix_permissions", "up"}

\* Every variable holds a value of its kind.
TypeOK ==
  /\ pc \in PCs
  /\ CheckTypeOK
  /\ RecoveryTypeOK
  /\ left \in 0..MaxEvents
  /\ fresh \in BOOLEAN
  /\ spoiled \in BOOLEAN
  /\ snap \in Tree

Init ==
  /\ pc = "off"
  /\ sys = Orig
  /\ enabled \in Kernels
  /\ FreshDev
  /\ img \in Images
  /\ Idle
  /\ rw = TRUE
  /\ left = MaxEvents
  /\ fresh = FALSE /\ spoiled = FALSE /\ snap = Orig
-----------------------------------------------------------------------------
\* some fault f of the environment strikes
Strikes(f) == f \in Faults /\ left > 0 /\ left' = left - 1

\* the volatile state after the power is gone
Volatile ==
  /\ failed' = {} /\ mod' = {} /\ doa' = NoDoa /\ status' = "" /\ need' = "none"
  /\ mounted' = FALSE /\ todo' = {} /\ add' = {} /\ del' = {}
  /\ cur' = NoPath /\ wr' = NoPath

\* init runs up to the "fs" action, which mounts /system
power_on ==
  /\ pc = "off" /\ pc' = "fs"
  /\ \/ rw' = TRUE /\ spoiled' = FALSE /\ UNCHANGED left
     \/ rw' = FALSE /\ spoiled' = TRUE /\ Strikes("ro")
  /\ snap' = sys /\ fresh' = FALSE
  /\ UNCHANGED <<sys, enabled, failed, mod, doa, status, need,
                 img, mounted, todo, add, del, cur, wr>>

\* neither exec of the "fs" action can start busybox
exec_fails ==
  /\ pc = "fs" /\ ~CanExec(sys)
  /\ pc' = "up" /\ spoiled' = TRUE /\ fresh' = TRUE
  /\ UNCHANGED <<sys, enabled, failed, mod, doa, status, need,
                 recoveryVars, left, snap>>

check == CheckNext /\ UNCHANGED <<recoveryVars, bootVars>>

find_image ==
  \/ recovery_init /\ UNCHANGED bootVars
  \/ data_img_unusable /\ UNCHANGED bootVars
  \/ /\ check_asl_img(TRUE) \/ mount_sd(TRUE)
     /\ UNCHANGED bootVars
  \/ /\ check_asl_img(FALSE) \/ mount_sd(FALSE)
     /\ Strikes("mount")
     /\ spoiled' = TRUE /\ UNCHANGED <<fresh, snap>>

\* power_off: umount -l, poweroff
power_off ==
  /\ pc = "mount_sd" /\ img["sd"] # "good"
  /\ pc' = "off" /\ Volatile
  /\ UNCHANGED <<sys, enabled, img, rw, bootVars>>

put_back ==
  \/ /\ \/ \E p \in todo : recovery_modify(p)
        \/ modify_done
        \/ \E p \in add : recovery_added(p)
        \/ \E p \in del : recovery_deleted(p)
        \/ doa_done
        \/ cp_fails \/ cp_link \/ cp_open \/ cp_end(TRUE)
     /\ UNCHANGED bootVars
  \/ cp_end(FALSE) /\ Strikes("copy") /\ spoiled' = TRUE
     /\ UNCHANGED <<fresh, snap>>
  \/ commands_lost /\ spoiled' = TRUE /\ UNCHANGED <<left, fresh, snap>>

boot_continues ==
  /\ fix_permissions
  /\ fresh' = TRUE
  /\ UNCHANGED <<left, spoiled, snap>>
-----------------------------------------------------------------------------
(* The environment. *)

\* p is replaced by node n; what was below p goes with it
Replaced(s, p, n) ==
  [q \in Path |-> IF q = p THEN n
                  ELSE IF p \in Above[q] /\ n # Dir THEN Missing ELSE s[q]]

drift ==
  /\ pc = "up" /\ left > 0 /\ left' = left - 1
  /\ \E p \in Path : \E n \in Drifts[p] :
       /\ n # Missing => \A a \in Above[p] : sys[a] = Dir
       /\ sys' = Replaced(sys, p, n)
  /\ fresh' = FALSE
  /\ UNCHANGED <<pc, enabled, failed, mod, doa, status, need,
                 recoveryVars, spoiled, snap>>

\* somebody puts another asl.img in /data or on the card, or takes it away
image_changes ==
  /\ pc \in {"off", "up"} /\ Strikes("image")
  /\ \E pl \in Places, i \in {"none", "bad", "good"} :
       img' = [img EXCEPT ![pl] = i]
  /\ fresh' = FALSE
  /\ UNCHANGED <<checkVars, mounted, rw, todo, add, del, cur, wr,
                 spoiled, snap>>

shutdown ==
  /\ pc = "up" /\ pc' = "off" /\ Volatile /\ fresh' = FALSE
  /\ UNCHANGED <<sys, enabled, img, rw, left, spoiled, snap>>

power_loss ==
  /\ pc \notin {"off", "up"} /\ pc' = "off" /\ Volatile /\ Strikes("power")
  /\ UNCHANGED <<sys, enabled, img, rw, fresh, spoiled, snap>>

System ==
  \/ exec_fails \/ check \/ find_image \/ power_off \/ put_back
  \/ boot_continues

Next ==
  \/ power_on \/ System \/ drift \/ image_changes \/ shutdown \/ power_loss

Spec == Init /\ [][Next]_vars

\* init waits for the scripts, and the kernel keeps running them
FairSpec == Spec /\ WF_vars(System)
-----------------------------------------------------------------------------
(* Properties. *)

\* a link that leads to no readable file
DeadLink(s, p) == s[p].kind = "link" /\ ~IsRegular(s, p)

\* p reads as it did when the list was made; nothing else is on /system
Right(s, p) ==
  IF p \in ListNames THEN hash_file(s, p) = ListHash[p] ELSE ~IsEntry(s[p])

\* When init.asl.sh ends, need_recovery and the status shown by the kernel
\* agree with the partition: recovery is asked for exactly when some listed
\* name does not read as listed or some unlisted file or link exists.  A dead
\* link in place of a listed name is the one failure it does not report.
DetectionExact ==
  pc = "recovery" /\ enabled = "1" =>
    LET ok == \A p \in Path :
                Right(sys, p) \/ (p \in ListNames /\ DeadLink(sys, p))
    IN  /\ need = IF ok THEN "0" ELSE "1"
        /\ status = IF ok THEN "1" ELSE "0"

\* After a recovery in which every command worked, each name is what the two
\* report files say it should be: a modified or deleted name is the image's,
\* an added one is gone, and a file or link nobody reported is untouched.  A
\* name that was a directory is not put back: cp wrote inside the directory.
RecoveryExact ==
  pc = "up" /\ fresh /\ need = "1" /\ ~spoiled =>
    /\ \A p \in mod : sys[p] = asl_img[p]
    /\ \A p \in doa.deleted : snap[p] # Dir => sys[p] = asl_img[p]
    /\ \A p \in doa.added :
         IsEntry(sys[p]) => \E q \in doa.deleted : snap[q] = Dir /\ Into[q] = p
    /\ \A p \in Entries(snap) \ (mod \cup doa.added) : sys[p] = snap[p]

\* names that no recovery puts right: a listed name turned into a directory,
\* or into another link that is dead or that reads as listed until the recovery
\* removes the added file it leads to, or one the image does not hold; and the
\* links that lead to such a name
BlindRoot ==
  {p \in ListNames \ mod :
     snap[p] = Dir \/ (snap[p].kind = "link" /\ snap[p] # asl_img[p])}
   \cup (ListNames \cap Hidden)
Blind ==
  BlindRoot \cup {p \in ListNames : Orig[p].kind = "link"
                                      /\ Orig[p].to \in BlindRoot}

\* What the two scripts promise together: a boot in which every command worked
\* comes up with every listed name reading as listed and with nothing added,
\* but for the names the check cannot see and the copies cp put in their place.
CleanBoot ==
  pc = "up" /\ fresh /\ enabled = "1" /\ ~spoiled =>
    \A p \in Path : \/ Right(sys, p)
                     \/ p \in Blind
                     \/ \E q \in BlindRoot : Into[q] = p

\* A boot that found something to recover never comes up without an image of
\* the right sum: power_off is the only way out of check_asl_img without one.
NoImageNoBoot ==
  pc = "up" /\ fresh /\ need = "1" =>
    \E pl \in Places : img[pl] = "good"

\* Where every link leads to a listed name, no directory stands in a file's
\* place and busybox is not loaded from the partition (the instance's
\* LiveDrifts and Tools): whenever the power fails, a copy is cut short or the
\* image does not mount, a device with a good image that is switched on again
\* and again is up and right again and again, since each boot of the two
\* scripts finds what the last one left undone.
AlwaysRightAgain ==
  enabled = "1" /\ (\E pl \in Places : img[pl] = "good") =>
    ([]<>(pc = "fs") => []<>(pc = "up" /\ \A p \in Path : Right(sys, p)))
-----------------------------------------------------------------------------
(* What README.md says of the scripts, and the code does not do. *)

\* README.md: files are recovered "if they was modified or deleted".  After a
\* boot in which every command worked all listed names read as listed.
RecoversModified ==
  pc = "up" /\ fresh /\ enabled = "1" /\ ~spoiled =>
    \A p \in ListNames : Right(sys, p)

\* README.md again, for the files the recovery's own commands are loaded from:
\* what was reported as modified has been put back when the boot goes on.
ModifiedPutBack ==
  pc = "up" /\ fresh /\ need = "1" => \A p \in mod : sys[p] = asl_img[p]
=============================================================================
