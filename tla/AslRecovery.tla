---------------------------- MODULE AslRecovery -----------------------------
(***************************************************************************)
(* init.recovery.asl.sh, the script that init executes after init.asl.sh:  *)
(* it looks for a recovery image whose sum is the one in the kernel, first *)
(* in /data and then on the SD card, and puts back every file the check    *)
(* reported, one line of mod_detected and doa_detected at a time.  Without *)
(* a usable image it switches the device off.                              *)
(*                                                                         *)
(* None of the commands' results is tested by the script, so each may fail *)
(* and the script goes on.                                                 *)
(***************************************************************************)
EXTENDS AslCheck

VARIABLES
  img,      \* the image in each place: "none", "bad" (wrong sum) or "good"
  mounted,  \* is the image mounted on /asl_img?
  rw,       \* is /system mounted for writing?
  todo,     \* lines of mod_detected still to be read
  add,      \* "+" lines of doa_detected still to be read
  del,      \* "-" lines of doa_detected still to be read
  cur,      \* the name a cp is about to write, or is writing
  wr        \* the file a cp is filling

recoveryVars == <<img, mounted, rw, todo, add, del, cur, wr>>

Places == {"data", "sd"}

RecoveryTypeOK ==
  /\ img \in [Places -> {"none", "bad", "good"}]
  /\ mounted \in BOOLEAN
  /\ rw \in BOOLEAN
  /\ todo \subseteq ListNames
  /\ add \subseteq Path
  /\ del \subseteq ListNames
  /\ cur \in ListNames \cup {NoPath}
  /\ wr \in Path \cup {NoPath}

Idle ==
  /\ mounted = FALSE
  /\ todo = {} /\ add = {} /\ del = {}
  /\ cur = NoPath /\ wr = NoPath

\* a command that writes to /system does nothing on a read-only mount
Written(s) == IF rw THEN s ELSE sys

devUnchanged == UNCHANGED <<enabled, failed, mod, doa, status, need>>
-----------------------------------------------------------------------------
\* init(): the first test of the script
recovery_init ==
  /\ pc = "recovery"
  /\ pc' = IF need = "1" THEN "check_asl_img" ELSE "fix_permissions"
  /\ devUnchanged
  /\ UNCHANGED <<sys, recoveryVars>>

(* mount_asl_img, with the outcome isMounted, and the start of              *)
(* check_mod_files.  A failed losetup or mount leaves /asl_img empty.       *)
mount_asl_img(isMounted) ==
  /\ mounted' = isMounted
  /\ todo' = mod /\ add' = doa.added /\ del' = doa.deleted
  /\ pc' = "modify"
  /\ devUnchanged
  /\ UNCHANGED <<sys, img, rw, cur, wr>>

check_asl_img(isMounted) ==
  /\ pc = "check_asl_img"
  /\ img["data"] = "good"
  /\ mount_asl_img(isMounted)

\* variant: the card is not tried and the boot goes on
data_img_ignored ==
  /\ pc = "check_asl_img"
  /\ img["data"] # "good"
  /\ pc' = "fix_permissions"
  /\ devUnchanged
  /\ UNCHANGED <<sys, recoveryVars>>

\* no image in /data, or one with another sum
data_img_unusable ==
  /\ pc = "check_asl_img"
  /\ img["data"] # "good"
  /\ pc' = "mount_sd"
  /\ devUnchanged
  /\ UNCHANGED <<sys, recoveryVars>>

mount_sd(isMounted) ==
  /\ pc = "mount_sd"
  /\ img["sd"] = "good"
  /\ mount_asl_img(isMounted)

\* the rm of a line of mod_detected
recovery_modify(p) ==
  /\ pc = "modify" /\ cur = NoPath /\ p \in todo
  /\ CanExec(sys)
  /\ sys' = Written(Rm(sys, p))
  /\ todo' = todo \ {p} /\ cur' = p
  /\ devUnchanged
  /\ UNCHANGED <<pc, img, mounted, rw, add, del, wr>>

modify_done ==
  /\ pc = "modify" /\ cur = NoPath /\ todo = {}
  /\ CanExec(sys)
  /\ pc' = "doa"
  /\ devUnchanged
  /\ UNCHANGED <<sys, recoveryVars>>

\* a "+" line of doa_detected; all of them precede the "-" lines
recovery_added(p) ==
  /\ pc = "doa" /\ cur = NoPath /\ p \in add
  /\ CanExec(sys)
  /\ sys' = Written(Rm(sys, p))
  /\ add' = add \ {p}
  /\ devUnchanged
  /\ UNCHANGED <<pc, img, mounted, rw, todo, del, cur, wr>>

\* variant: "-" lines before "+" lines
recovery_deleted_first(p) ==
  /\ pc = "doa" /\ cur = NoPath /\ p \in del
  /\ CanExec(sys)
  /\ sys' = Written(MkdirP(sys, p))
  /\ del' = del \ {p} /\ cur' = p
  /\ devUnchanged
  /\ UNCHANGED <<pc, img, mounted, rw, todo, add, wr>>

\* the mkdir of a "-" line of doa_detected
recovery_deleted(p) ==
  /\ pc = "doa" /\ cur = NoPath /\ add = {} /\ p \in del
  /\ CanExec(sys)
  /\ sys' = Written(MkdirP(sys, p))
  /\ del' = del \ {p} /\ cur' = p
  /\ devUnchanged
  /\ UNCHANGED <<pc, img, mounted, rw, todo, add, wr>>

doa_done ==
  /\ pc = "doa" /\ cur = NoPath /\ add = {} /\ del = {}
  /\ CanExec(sys)
  /\ mounted' = FALSE
  /\ pc' = "fix_permissions"
  /\ devUnchanged
  /\ UNCHANGED <<sys, img, rw, todo, add, del, cur, wr>>
-----------------------------------------------------------------------------
(* cp -d of the line being processed: it creates the target, then fills it. *)

CpPossible ==
  /\ mounted /\ rw
  /\ asl_img[cur] # Missing
  /\ CpCanCreate(sys, cur)

cp_fails ==
  /\ cur # NoPath /\ wr = NoPath /\ CanExec(sys)
  /\ ~CpPossible
  /\ cur' = NoPath
  /\ devUnchanged
  /\ UNCHANGED <<pc, sys, img, mounted, rw, todo, add, del, wr>>

cp_link ==
  /\ cur # NoPath /\ wr = NoPath /\ CanExec(sys)
  /\ CpPossible /\ asl_img[cur].kind = "link"
  /\ sys' = [sys EXCEPT ![CpTarget(sys, cur)] = asl_img[cur]]
  /\ cur' = NoPath
  /\ devUnchanged
  /\ UNCHANGED <<pc, img, mounted, rw, todo, add, del, wr>>

cp_open ==
  /\ cur # NoPath /\ wr = NoPath /\ CanExec(sys)
  /\ CpPossible /\ asl_img[cur].kind = "file"
  /\ sys' = [sys EXCEPT ![CpTarget(sys, cur)] = File(Torn)]
  /\ wr' = CpTarget(sys, cur)
  /\ devUnchanged
  /\ UNCHANGED <<pc, img, mounted, rw, todo, add, del, cur>>

\* the copy ends: completely, or (disk full, read error) cut short
cp_end(complete) ==
  /\ wr # NoPath
  /\ sys' = IF complete THEN [sys EXCEPT ![wr] = asl_img[cur]] ELSE sys
  /\ cur' = NoPath /\ wr' = NoPath
  /\ devUnchanged
  /\ UNCHANGED <<pc, img, mounted, rw, todo, add, del>>

\* with a tool file gone no command of the rest of the script runs
commands_lost ==
  /\ pc \in {"modify", "doa"} /\ wr = NoPath /\ ~CanExec(sys)
  /\ pc' = "fix_permissions"
  /\ todo' = {} /\ add' = {} /\ del' = {} /\ cur' = NoPath
  /\ devUnchanged
  /\ UNCHANGED <<sys, img, mounted, rw, wr>>

\* fix_permissions changes owners and modes only; the boot goes on
fix_permissions ==
  /\ pc = "fix_permissions"
  /\ pc' = "up"
  /\ devUnchanged
  /\ UNCHANGED <<sys, recoveryVars>>
=============================================================================
