---------------------------- MODULE AslBootProofs ---------------------------
(***************************************************************************)
(* Proofs about AslBoot, for every tree, image, set of faults and bound.   *)
(* Where a link ends (LinkEnd) is never expanded: nothing below depends on *)
(* it.                                                                     *)
(***************************************************************************)
EXTENDS AslBoot, TLAPS

\* The nodes that the tools write are nodes.
LEMMA NodeFacts ==
  /\ Missing \in Node /\ Dir \in Node /\ File(Torn) \in Node
  /\ Missing # Dir /\ Missing # File(Torn) /\ Dir # File(Torn)
  /\ ~IsEntry(Missing) /\ ~IsEntry(Dir) /\ IsEntry(File(Torn))
  /\ \A n \in Node : IsEntry(n) <=> n # Missing /\ n # Dir
BY FsAssumption DEF Node, Missing, Dir, File, IsEntry

\* The image is a tree.
LEMMA ImgTree == asl_img \in Tree
BY BuildAssumption, NodeFacts DEF asl_img, Tree

\* Every listed name is an entry of the product's tree.
LEMMA ListFacts ==
  /\ ListNames \subseteq Path
  /\ \A p \in ListNames : IsEntry(Orig[p])
BY DEF ListNames, Entries

\* rm and mkdir -p turn a tree into a tree.
LEMMA ToolsTree ==
  ASSUME NEW s \in Tree, NEW p \in Path
  PROVE  Rm(s, p) \in Tree /\ MkdirP(s, p) \in Tree
<1>1. Rm(s, p) \in Tree
  BY NodeFacts DEF Rm, Tree
<1>2. MkdirP(s, p) \in Tree
  BY NodeFacts DEF MkdirP, Tree
<1> QED BY <1>1, <1>2

-----------------------------------------------------------------------------
(* Type correctness.  While a file is being filled the name is known, and a *)
(* name is known only while one of the two lists is being worked off.       *)

TypeInv ==
  /\ TypeOK
  /\ wr # NoPath => cur # NoPath
  /\ cur # NoPath => pc \in {"modify", "doa"}

\* A device as the build leaves it satisfies the typing invariant.
LEMMA TypeInit == Init => TypeInv
<1> SUFFICES ASSUME Init PROVE TypeInv
  OBVIOUS
<1> USE FsAssumption, BuildAssumption, BootAssumption
<1>1. CheckTypeOK
  BY DEF Init, FreshDev, CheckTypeOK, NoDoa
<1>2. RecoveryTypeOK
  BY DEF Init, Idle, RecoveryTypeOK
<1>3. pc \in PCs /\ left \in 0..MaxEvents /\ snap \in Tree
  BY DEF Init, PCs
<1>4. fresh \in BOOLEAN /\ spoiled \in BOOLEAN
  BY DEF Init
<1>5. cur = NoPath /\ wr = NoPath
  BY DEF Init, Idle
<1> QED
  BY <1>1, <1>2, <1>3, <1>4, <1>5 DEF TypeInv, TypeOK

(* The provers treat Boolean variables apart from the others. *)
Flags ==
  /\ mounted \in BOOLEAN /\ rw \in BOOLEAN
  /\ fresh \in BOOLEAN /\ spoiled \in BOOLEAN

Values ==
  /\ pc \in PCs
  /\ CheckTypeOK
  /\ img \in [Places -> {"none", "bad", "good"}]
  /\ todo \subseteq ListNames /\ add \subseteq Path /\ del \subseteq ListNames
  /\ cur \in ListNames \cup {NoPath}
  /\ wr \in Path \cup {NoPath}
  /\ wr # NoPath => cur # NoPath
  /\ cur # NoPath => pc \in {"modify", "doa"}
  /\ snap \in Tree

\* The typing invariant in three parts, each within reach of one prover.
LEMMA TypeSplit == TypeInv <=> Flags /\ Values /\ left \in 0..MaxEvents
BY DEF TypeInv, TypeOK, RecoveryTypeOK, Flags, Values

\* No step of the scripts or the environment gives a flag another kind of value.
LEMMA FlagsNext == Flags /\ [Next]_vars => Flags'
BY DEF Flags, Next, System, power_on, exec_fails, check, find_image, power_off,
  put_back, boot_continues, drift, image_changes, shutdown, power_loss,
  recovery_init, data_img_unusable, check_asl_img, mount_sd, mount_asl_img,
  recovery_modify, modify_done, recovery_added, recovery_deleted, doa_done,
  cp_fails, cp_link, cp_open, cp_end, commands_lost, fix_permissions,
  Volatile, vars, recoveryVars, bootVars

\* The budget of drifts and faults only shrinks, down to zero.
LEMMA LeftNext == left \in 0..MaxEvents /\ [Next]_vars => left' \in 0..MaxEvents
<1> SUFFICES ASSUME left \in 0..MaxEvents, [Next]_vars
             PROVE  left' \in 0..MaxEvents
  OBVIOUS
<1>1. left' = left \/ (left > 0 /\ left' = left - 1)
  BY DEF Next, System, power_on, exec_fails, check, find_image, power_off,
    put_back, boot_continues, drift, image_changes, shutdown, power_loss,
    Strikes, vars, bootVars
<1> QED BY <1>1, BootAssumption

\* Every command leaves a tree, reports of listed names and known states.
LEMMA ValuesNext == TypeInv /\ [Next]_vars => Values'
<1> SUFFICES ASSUME Values, [Next]_vars PROVE Values'
  BY TypeSplit
<1> USE FsAssumption, BuildAssumption, BootAssumption DEF Values, CheckTypeOK,
      PCs, checkVars, recoveryVars, bootVars
<1>1. CASE power_on
  BY <1>1 DEF power_on, Strikes
<1>2. CASE exec_fails
  BY <1>2 DEF exec_fails
<1>3. CASE check
  <2> USE <1>3 DEF check
  <2>1. CASE asl_init_enter
    BY <2>1 DEF asl_init_enter
  <2>2. CASE sha1check
    BY <2>2 DEF sha1check, FailedNames
  <2>3. CASE proto_parse
    BY <2>3 DEF proto_parse
  <2>4. CASE check_count
    BY <2>4 DEF check_count, Inventory, Entries
  <2>5. CASE check_status
    BY <2>5 DEF check_status
  <2> QED BY <2>1, <2>2, <2>3, <2>4, <2>5 DEF CheckNext
<1>4. CASE find_image
  <2>1. CASE recovery_init /\ UNCHANGED bootVars
    BY <2>1 DEF recovery_init, devUnchanged
  <2>2. CASE data_img_unusable /\ UNCHANGED bootVars
    BY <2>2 DEF data_img_unusable, devUnchanged
  <2>3. CASE /\ check_asl_img(TRUE) \/ mount_sd(TRUE)
             /\ UNCHANGED bootVars
    BY <2>3 DEF check_asl_img, mount_sd, mount_asl_img, devUnchanged
  <2>4. CASE /\ check_asl_img(FALSE) \/ mount_sd(FALSE)
             /\ Strikes("mount")
             /\ spoiled' = TRUE /\ UNCHANGED <<fresh, snap>>
    BY <2>4 DEF check_asl_img, mount_sd, mount_asl_img, devUnchanged, Strikes
  <2> QED BY <1>4, <2>1, <2>2, <2>3, <2>4 DEF find_image
<1>5. CASE power_off
  BY <1>5 DEF power_off, Volatile, NoDoa
<1>6. CASE put_back
  <2> USE ListFacts, ImgTree, NodeFacts DEF devUnchanged
  <2>1. ASSUME NEW p \in todo, recovery_modify(p), UNCHANGED bootVars
        PROVE  Values'
    BY <2>1, ToolsTree DEF recovery_modify, Written
  <2>2. CASE modify_done /\ UNCHANGED bootVars
    BY <2>2 DEF modify_done
  <2>3. ASSUME NEW p \in add, recovery_added(p), UNCHANGED bootVars
        PROVE  Values'
    BY <2>3, ToolsTree DEF recovery_added, Written
  <2>4. ASSUME NEW p \in del, recovery_deleted(p), UNCHANGED bootVars
        PROVE  Values'
    BY <2>4, ToolsTree DEF recovery_deleted, Written
  <2>5. CASE doa_done /\ UNCHANGED bootVars
    BY <2>5 DEF doa_done
  <2>6. CASE cp_fails /\ UNCHANGED bootVars
    BY <2>6 DEF cp_fails
  <2>7. CASE cp_link /\ UNCHANGED bootVars
    BY <2>7 DEF cp_link, CpPossible, CpCanCreate, Tree
  <2>8. CASE cp_open /\ UNCHANGED bootVars
    BY <2>8 DEF cp_open, CpPossible, CpCanCreate, Tree
  <2>9. CASE cp_end(TRUE) /\ UNCHANGED bootVars
    BY <2>9 DEF cp_end, Tree
  <2>10. CASE /\ cp_end(FALSE) /\ Strikes("copy") /\ spoiled' = TRUE
              /\ UNCHANGED <<fresh, snap>>
    BY <2>10 DEF cp_end, Strikes
  <2>11. CASE commands_lost /\ spoiled' = TRUE /\ UNCHANGED <<left, fresh, snap>>
    BY <2>11 DEF commands_lost
  <2> QED
    BY <1>6, <2>1, <2>2, <2>3, <2>4, <2>5, <2>6, <2>7, <2>8, <2>9, <2>10, <2>11
    DEF put_back
<1>7. CASE boot_continues
  BY <1>7 DEF boot_continues, fix_permissions, devUnchanged
<1>8. CASE drift
  <2>1. PICK p \in Path : \E n \in Drifts[p] : sys' = Replaced(sys, p, n)
    BY <1>8 DEF drift
  <2>2. PICK n \in Drifts[p] : sys' = Replaced(sys, p, n)
    BY <2>1
  <2>3. n \in Node /\ Missing \in Node /\ sys \in [Path -> Node]
    BY NodeFacts DEF Tree
  <2>4. Replaced(sys, p, n) \in [Path -> Node]
    BY <2>3 DEF Replaced
  <2>5. sys' \in Tree
    BY <2>2, <2>4 DEF Tree
  <2> QED BY <1>8, <2>5 DEF drift
<1>9. CASE image_changes
  <2>1. img' \in [Places -> {"none", "bad", "good"}]
    BY <1>9 DEF image_changes
  <2> QED BY <1>9, <2>1 DEF image_changes
<1>10. CASE shutdown
  BY <1>10 DEF shutdown, Volatile, NoDoa
<1>11. CASE power_loss
  BY <1>11 DEF power_loss, Volatile, NoDoa, Strikes
<1>12. CASE UNCHANGED vars
  <2>1. /\ pc' = pc /\ sys' = sys /\ enabled' = enabled /\ failed' = failed
        /\ mod' = mod /\ doa' = doa /\ status' = status /\ need' = need
        /\ img' = img /\ todo' = todo /\ add' = add /\ del' = del
        /\ cur' = cur /\ wr' = wr /\ snap' = snap
    BY <1>12 DEF vars
  <2> QED BY <2>1
<1> QED
  BY <1>1, <1>2, <1>3, <1>4, <1>5, <1>6, <1>7, <1>8, <1>9, <1>10, <1>11, <1>12
  DEF Next, System

\* Every step preserves the typing invariant.
LEMMA TypeNext == TypeInv /\ [Next]_vars => TypeInv'
<1> SUFFICES ASSUME TypeInv, [Next]_vars PROVE TypeInv'
  OBVIOUS
<1>1. Flags' /\ Values' /\ left' \in 0..MaxEvents
  BY TypeSplit, FlagsNext, ValuesNext, LeftNext
<1> QED
  BY <1>1 DEF TypeInv, TypeOK, RecoveryTypeOK, Flags, Values

\* The typing invariant holds in every reachable state.
LEMMA TypeInvariant == Spec => []TypeInv
BY TypeInit, TypeNext, PTL DEF Spec

\* Every variable of a device with ASL keeps to its type in every behaviour.
THEOREM TypeCorrect == Spec => []TypeOK
<1>1. TypeInv => TypeOK
  BY DEF TypeInv
<1> QED BY <1>1, TypeInvariant, PTL
-----------------------------------------------------------------------------
(* Detection.  What each function of init.asl.sh has found agrees with the *)
(* partition, which no step between them changes.                          *)

\* What sha1sum reads: a file's content, nothing in the place of a directory
\* or of a missing name.
LEMMA ReadFacts ==
  ASSUME NEW s \in Tree, NEW p \in Path
  PROVE  /\ s[p].kind \in {"missing", "dir", "file", "link"}
         /\ s[p].kind = "file" => IsRegular(s, p)
         /\ ~IsEntry(s[p]) => hash_file(s, p) = NoData
<1>1. s[p] \in Node
  BY DEF Tree
<1>2. s[p].kind \in {"missing", "dir", "file", "link"}
  BY <1>1 DEF Node, Missing, Dir
<1>3. s[p].kind = "file" => s[p].data \in Data
  BY <1>1 DEF Node, Missing, Dir
<1>4. s[p].kind = "file" => IsRegular(s, p)
  BY <1>3, FsAssumption DEF IsRegular, hash_file, Read
<1>5. ~IsEntry(s[p]) => hash_file(s, p) = NoData
  BY DEF IsEntry, hash_file, Read
<1> QED BY <1>2, <1>4, <1>5

ModNames(s) == {p \in FailedNames(s) : IsRegular(s, p)}

\* Nothing is modified, added or deleted exactly when every name is right, dead
\* links in the place of listed names apart.
LEMMA ReportExact ==
  ASSUME NEW s \in Tree
  PROVE  (ModNames(s) = {} /\ Inventory(s).added \cup Inventory(s).deleted = {})
         <=> \A p \in Path : Right(s, p) \/ (p \in ListNames /\ DeadLink(s, p))
<1> DEFINE ok(p) == Right(s, p) \/ (p \in ListNames /\ DeadLink(s, p))
           quiet(p) == p \notin ModNames(s) /\ p \notin Inventory(s).added
                         /\ p \notin Inventory(s).deleted
<1>1. ASSUME NEW p \in Path PROVE ok(p) <=> quiet(p)
  <2>1. CASE p \in ListNames
    <3>1. ListHash[p] # NoData
      BY <2>1 DEF ListHash, ListNames
    <3>2. quiet(p) <=> /\ IsEntry(s[p])
                       /\ hash_file(s, p) = ListHash[p] \/ ~IsRegular(s, p)
      BY <2>1 DEF ModNames, FailedNames, Inventory, Entries
    <3>3. ok(p) <=> hash_file(s, p) = ListHash[p]
                      \/ (s[p].kind = "link" /\ ~IsRegular(s, p))
      BY <2>1 DEF Right, DeadLink
    <3> QED BY <3>1, <3>2, <3>3, ReadFacts DEF IsEntry, IsRegular
  <2>2. CASE p \notin ListNames
    BY <2>2 DEF ModNames, FailedNames, Inventory, Entries, Right
  <2> QED BY <2>1, <2>2
<1>2. /\ ModNames(s) \subseteq Path /\ Inventory(s).added \subseteq Path
      /\ Inventory(s).deleted \subseteq Path
  BY ListFacts DEF ModNames, FailedNames, Inventory, Entries
<1>3. (ModNames(s) = {} /\ Inventory(s).added \cup Inventory(s).deleted = {})
      <=> \A p \in Path : quiet(p)
  BY <1>2
<1> HIDE DEF quiet
<1> QED BY <1>1, <1>3

DetectionInv ==
  /\ pc \in {"proto_parse", "check_count", "check_status"} =>
       failed = FailedNames(sys)
  /\ pc \in {"check_count", "check_status"} => mod = ModNames(sys)
  /\ pc = "check_status" => doa = Inventory(sys)
  /\ DetectionExact

\* Every step of init.asl.sh carries the truth about the partition on into
\* the next report, and no other step makes a report.
LEMMA DetectionNext ==
  ASSUME TypeInv, DetectionInv, [Next]_vars
  PROVE  DetectionInv'
<1> USE DEF DetectionInv, DetectionExact
<1>1. CASE check
  <2> USE <1>1 DEF check
  <2>1. CASE asl_init_enter
    BY <2>1 DEF asl_init_enter
  <2>2. CASE sha1check
    BY <2>2 DEF sha1check
  <2>3. CASE proto_parse
    BY <2>3 DEF proto_parse, ModNames
  <2>4. CASE check_count
    BY <2>4 DEF check_count
  <2>5. CASE check_status
    <3>1. sys \in Tree
      BY DEF TypeInv, TypeOK, CheckTypeOK
    <3>2. mod = ModNames(sys) /\ doa = Inventory(sys) /\ doa.made
      BY <2>5 DEF check_status, Inventory
    <3>3. sys' = sys /\ pc' = "recovery"
      BY <2>5 DEF check_status
    <3>4. LET bad == mod # {} \/ doa.added \cup doa.deleted # {}
          IN  /\ need' = IF bad THEN "1" ELSE "0"
              /\ status' = IF bad THEN "0" ELSE "1"
      BY <2>5, <3>2 DEF check_status
    <3> QED BY <3>1, <3>2, <3>3, <3>4, ReportExact
  <2> QED BY <2>1, <2>2, <2>3, <2>4, <2>5 DEF CheckNext
<1>2. CASE pc' \notin {"proto_parse", "check_count", "check_status", "recovery"}
  BY <1>2
<1>3. CASE UNCHANGED vars
  BY <1>3 DEF vars, checkVars
<1>4. ~check /\ ~UNCHANGED vars =>
        pc' \notin {"proto_parse", "check_count", "check_status", "recovery"}
  BY DEF TypeInv, Next, System, power_on, exec_fails, find_image, power_off, put_back,
    boot_continues, drift, image_changes, shutdown, power_loss, recovery_init,
    data_img_unusable, check_asl_img, mount_sd, mount_asl_img,
    recovery_modify, modify_done, recovery_added, recovery_deleted, doa_done,
    cp_fails, cp_link, cp_open, cp_end, commands_lost, fix_permissions,
    checkVars
<1> QED BY <1>1, <1>2, <1>3, <1>4

\* need_recovery and /proc/asl/status tell the truth about the partition
\* whenever init.asl.sh has run.
THEOREM DetectionCorrect == Spec => []DetectionExact
<1>1. Init => DetectionInv
  BY DEF Init, DetectionInv, DetectionExact
<1>2. TypeInv /\ DetectionInv /\ [Next]_vars => DetectionInv'
  BY DetectionNext
<1>3. DetectionInv => DetectionExact
  BY DEF DetectionInv
<1> QED BY <1>1, <1>2, <1>3, TypeInvariant, PTL DEF Spec
-----------------------------------------------------------------------------
(* No boot without an image.  need_recovery is not written before           *)
(* check_status, and the lists are only worked off with a good image.       *)

Good == \E pl \in Places : img[pl] = "good"

ImageInv ==
  /\ pc \in {"off", "fs", "sha1check", "proto_parse", "check_count",
             "check_status"} => need = "none"
  /\ pc \in {"modify", "doa"} => Good
  /\ pc = "fix_permissions" /\ need = "1" => Good
  /\ NoImageNoBoot

\* Every way through check_asl_img and mount_sd that does not power the
\* device off has seen a good image, and none is lost before the boot ends.
LEMMA ImageNext == TypeInv /\ ImageInv /\ [Next]_vars => ImageInv'
<1> SUFFICES ASSUME TypeInv, ImageInv, [Next]_vars PROVE ImageInv'
  OBVIOUS
<1> USE DEF ImageInv, NoImageNoBoot, Good, checkVars, recoveryVars, bootVars,
      devUnchanged
<1>1. CASE power_on
  BY <1>1 DEF power_on
<1>2. CASE exec_fails
  BY <1>2 DEF exec_fails
<1>3. CASE check
  BY <1>3 DEF check, CheckNext, asl_init_enter, sha1check, proto_parse,
    check_count, check_status
<1>4. CASE find_image
  BY <1>4 DEF find_image, recovery_init, data_img_unusable, check_asl_img,
    mount_sd, mount_asl_img, Places
<1>5. CASE power_off
  BY <1>5 DEF power_off, Volatile
<1>6. CASE put_back
  <2>1. /\ pc \in {"modify", "doa"} /\ img' = img /\ need' = need
        /\ pc' \in {"modify", "doa", "fix_permissions"}
    BY <1>6 DEF TypeInv, put_back, recovery_modify, modify_done,
      recovery_added, recovery_deleted, doa_done, cp_fails, cp_link, cp_open,
      cp_end, commands_lost
  <2> QED BY <2>1
<1>7. CASE boot_continues
  BY <1>7 DEF boot_continues, fix_permissions
<1>8. CASE drift
  BY <1>8 DEF drift
<1>9. CASE image_changes
  BY <1>9 DEF image_changes
<1>10. CASE shutdown
  BY <1>10 DEF shutdown, Volatile
<1>11. CASE power_loss
  BY <1>11 DEF power_loss, Volatile
<1>12. CASE UNCHANGED vars
  BY <1>12 DEF vars
<1> QED
  BY <1>1, <1>2, <1>3, <1>4, <1>5, <1>6, <1>7, <1>8, <1>9, <1>10, <1>11, <1>12
  DEF Next, System

\* A boot that asked for a recovery does not come up without an image whose sum
\* is the kernel's, whatever fails on the way.
THEOREM NoImageNoBootCorrect == Spec => []NoImageNoBoot
<1>1. Init => ImageInv
  BY DEF Init, FreshDev, ImageInv, NoImageNoBoot
<1>2. ImageInv => NoImageNoBoot
  BY DEF ImageInv
<1> QED BY <1>1, <1>2, ImageNext, TypeInvariant, PTL DEF Spec
=============================================================================
