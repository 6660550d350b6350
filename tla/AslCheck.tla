------------------------------ MODULE AslCheck ------------------------------
(***************************************************************************)
(* init.asl.sh, the script that init executes first in its "fs" action: it *)
(* runs sha1sum -c over the list the kernel carries, sorts the failures    *)
(* into modified, added and deleted files, and decides whether the         *)
(* recovery script has something to do.                                    *)
(***************************************************************************)
EXTENDS AslBuild

CONSTANTS
  Tools,    \* the files on /system that busybox itself is loaded from
  Working   \* the contents of a tool file with which it still runs

ASSUME CheckAssumption ==
  /\ Tools \subseteq Path
  /\ Working \subseteq Data \ {Torn}

VARIABLES
  pc,       \* where the boot is
  sys,      \* the partition
  enabled,  \* /proc/asl/enabled: "absent", "0" or "1"
  failed,   \* /dev/asl/failed_detected, the FAILED lines of asl_protocol
  mod,      \* /dev/asl/mod_detected
  doa,      \* /dev/asl/doa_detected, when made
  status,   \* /proc/asl/status, "" until it is written
  need      \* /dev/asl/need_recovery, "none" until it is written

checkVars == <<pc, sys, enabled, failed, mod, doa, status, need>>

NoDoa == [made |-> FALSE, added |-> {}, deleted |-> {}]

CheckTypeOK ==
  /\ sys \in Tree
  /\ enabled \in {"absent", "0", "1"}
  /\ failed \subseteq ListNames
  /\ mod \subseteq ListNames
  /\ doa \in [made : BOOLEAN, added : SUBSET Path, deleted : SUBSET ListNames]
  /\ status \in {"", "0", "1"}
  /\ need \in {"none", "0", "1"}

\* the files of /dev/asl (a tmpfs) and the kernel's buffer after a restart
FreshDev ==
  /\ failed = {} /\ mod = {} /\ doa = NoDoa
  /\ status = "" /\ need = "none"

\* execve of /sbin/busybox, a dynamic executable, or of one of its applets
CanExec(s) == \A t \in Tools : hash_file(s, t) \in Working
-----------------------------------------------------------------------------
(* init(), up to the calls of the checks.  When busybox cannot be executed *)
(* the child of do_exec exits and init goes on with its next command.      *)
asl_init_enter ==
  /\ pc = "fs"
  /\ CanExec(sys)
  /\ \/ enabled = "absent" /\ pc' = "recovery" /\ UNCHANGED <<status, need>>
     \/ enabled = "0" /\ pc' = "recovery" /\ status' = "0" /\ need' = "0"
     \/ enabled = "1" /\ pc' = "sha1check" /\ UNCHANGED <<status, need>>
  /\ UNCHANGED <<sys, enabled, failed, mod, doa>>

\* sha1sum -c prints FAILED for what it cannot open as well
FailedNames(s) == {p \in ListNames : hash_file(s, p) # ListHash[p]}

sha1check ==
  /\ pc = "sha1check"
  /\ failed' = FailedNames(sys)
  /\ pc' = "proto_parse"
  /\ UNCHANGED <<sys, enabled, mod, doa, status, need>>

proto_parse ==
  /\ pc = "proto_parse"
  /\ mod' = {p \in failed : IsRegular(sys, p)}
  /\ pc' = "check_count"
  /\ UNCHANGED <<sys, enabled, failed, doa, status, need>>

\* variant: the two files of each grep swapped
InventorySwapped(s) ==
  [made    |-> TRUE,
   added   |-> ListNames \ Entries(s),
   deleted |-> Entries(s) \ ListNames]

\* make_file_list and check_doa_files
Inventory(s) ==
  [made    |-> TRUE,
   added   |-> Entries(s) \ ListNames,
   deleted |-> ListNames \ Entries(s)]

\* variant: the counts of the two sides are compared as numbers
check_count_gated ==
  /\ pc = "check_count"
  /\ doa' = IF Cardinality(Entries(sys))
                 # files_count - (Cardinality(failed) - Cardinality(mod))
            THEN Inventory(sys) ELSE doa
  /\ pc' = "check_status"
  /\ UNCHANGED <<sys, enabled, failed, mod, status, need>>

(* CALC_EXIST_IN_PROTO is meant to be a number, but busybox ash leaves      *)
(* $[...] as it stands: a text that no count is equal to, so that the test   *)
(* of line 173 always takes the inventory.                                   *)
check_count ==
  /\ pc = "check_count"
  /\ doa' = Inventory(sys)
  /\ pc' = "check_status"
  /\ UNCHANGED <<sys, enabled, failed, mod, status, need>>

\* variant: doa_detected is not looked at
check_status_mod_only ==
  /\ pc = "check_status"
  /\ need' = IF mod # {} THEN "1" ELSE "0"
  /\ status' = IF mod # {} THEN "0" ELSE "1"
  /\ pc' = "recovery"
  /\ UNCHANGED <<sys, enabled, failed, mod, doa>>

(* need_recovery is "0" when check_status starts.  mod_detected has no      *)
(* empty line; doa_detected, when it exists, has an empty one for an empty  *)
(* half, so that a scan that found nothing ends in good_status.             *)
check_status ==
  /\ pc = "check_status"
  /\ LET bad == mod # {} \/ doa.added \cup doa.deleted # {}
     IN  /\ need' = IF bad THEN "1" ELSE "0"
         /\ status' = IF bad THEN "0" ELSE IF doa.made THEN "1" ELSE status
  /\ pc' = "recovery"
  /\ UNCHANGED <<sys, enabled, failed, mod, doa>>

CheckNext ==
  \/ asl_init_enter \/ sha1check \/ proto_parse \/ check_count \/ check_status
=============================================================================
