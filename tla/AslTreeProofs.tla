--------------------------- MODULE AslTreeProofs ----------------------------
(***************************************************************************)
(* What holds during every boot, recovery or not: the partition stays a    *)
(* tree, the reports are true of the partition as the boot found it, and   *)
(* without a fault the mounts last until the recovery is done.             *)
(***************************************************************************)
EXTENDS AslBootProofs

\* The directories above a listed name are directories of the product and of
\* the image.
LEMMA AboveListed ==
  ASSUME NEW p \in ListNames
  PROVE  /\ p \in Path
         /\ \A a \in Above[p] : a \in Path /\ a \notin ListNames
         /\ Into[p] \notin ListNames
         /\ asl_img[p] = Missing \/ IsEntry(asl_img[p])
<1>1. p \in Path
  BY ListFacts
<1>2. ASSUME NEW q \in ListNames, NEW a \in Above[q]
      PROVE  a \in Path /\ a \notin ListNames
  <2>1. q \in Path /\ Orig[q] # Missing
    BY ListFacts, NodeFacts
  <2>2. a \in Path /\ Orig[a] = Dir
    BY <2>1, FsAssumption, BuildAssumption DEF WellFormed
  <2> QED BY <2>2, ListFacts, NodeFacts
<1>3. Into[p] \notin ListNames
  <2> SUFFICES ASSUME Into[p] \in ListNames PROVE FALSE
    OBVIOUS
  <2>1. Into[p] \in Path
    BY ListFacts
  <2>2. p \in Above[Into[p]]
    BY <1>1, <2>1, FsAssumption
  <2> QED BY <1>2, <2>2
<1>4. asl_img[p] = Missing \/ IsEntry(asl_img[p])
  BY <1>1, ListFacts DEF asl_img
<1> QED BY <1>1, <1>2, <1>3, <1>4
-----------------------------------------------------------------------------
(* The partition stays a tree: nothing is left below a file or a hole. *)

\* Writing an entry, or removing one, where no directory is.
LEMMA SetWellFormed ==
  ASSUME NEW s \in Tree, WellFormed(s), NEW p \in Path, NEW n \in Node,
         s[p] # Dir, \A a \in Above[p] : s[a] = Dir
  PROVE  WellFormed([s EXCEPT ![p] = n])
<1> DEFINE t == [s EXCEPT ![p] = n]
<1> SUFFICES ASSUME NEW q \in Path, t[q] # Missing, NEW a \in Above[q]
             PROVE  t[a] = Dir
  BY DEF WellFormed
<1>1. a \in Path
  BY FsAssumption
<1>2. t \in Tree /\ \A r \in Path : t[r] = IF r = p THEN n ELSE s[r]
  BY DEF Tree
<1>3. s[a] = Dir
  <2>1. CASE q = p
    BY <2>1
  <2>2. CASE q # p
    BY <1>2, <2>2 DEF WellFormed
  <2> QED BY <2>1, <2>2
<1> QED BY <1>1, <1>2, <1>3

\* rm leaves nothing below something that is not a directory.
LEMMA RmWellFormed ==
  ASSUME NEW s \in Tree, WellFormed(s), NEW p \in Path
  PROVE  WellFormed(Rm(s, p))
<1>1. CASE IsEntry(s[p])
  <2>1. s[p] # Dir /\ s[p] # Missing
    BY <1>1, NodeFacts
  <2>2. \A a \in Above[p] : s[a] = Dir
    BY <2>1 DEF WellFormed
  <2>3. WellFormed([s EXCEPT ![p] = Missing])
    BY <2>1, <2>2, NodeFacts, SetWellFormed
  <2> QED BY <1>1, <2>3 DEF Rm
<1>2. CASE ~IsEntry(s[p])
  BY <1>2 DEF Rm
<1> QED BY <1>1, <1>2

\* What mkdir -p does when no file is in its way, and that it harms no tree.
LEMMA MkdirFacts ==
  ASSUME NEW s \in Tree, NEW p \in Path
  PROVE  /\ \A q \in Path : s[q] # Missing \/ q \notin Above[p] =>
              MkdirP(s, p)[q] = s[q]
         /\ \A q \in Path : MkdirP(s, p)[q] = s[q] \/ MkdirP(s, p)[q] = Dir
         /\ (\A a \in Above[p] : ~IsEntry(s[a])) =>
              \A a \in Above[p] : MkdirP(s, p)[a] = Dir
         /\ WellFormed(s) => WellFormed(MkdirP(s, p))
<1> DEFINE t == MkdirP(s, p)
<1>1. CASE \E a \in Above[p] : IsEntry(s[a])
  BY <1>1 DEF MkdirP
<1>2. CASE \A a \in Above[p] : ~IsEntry(s[a])
  <2>1. \A q \in Path : t[q] = IF q \in Above[p] /\ s[q] = Missing
                                THEN Dir ELSE s[q]
    BY <1>2 DEF MkdirP
  <2>2. Above[p] \subseteq Path
    BY FsAssumption
  <2>3. \A a \in Above[p] : s[a] = Missing \/ s[a] = Dir
    BY <1>2, <2>2, NodeFacts DEF Tree
  <2>4. \A a \in Above[p] : t[a] = Dir
    BY <2>1, <2>2, <2>3
  <2>5. ASSUME WellFormed(s), NEW q \in Path, t[q] # Missing, NEW a \in Above[q]
        PROVE  t[a] = Dir
    <3>1. CASE q \in Above[p]
      <4>1. a \in Above[p]
        BY <3>1, FsAssumption
      <4> QED BY <2>4, <4>1
    <3>2. CASE q \notin Above[p]
      <4>1. s[a] = Dir
        BY <2>1, <2>5, <3>2 DEF WellFormed
      <4>2. a \in Path
        BY FsAssumption
      <4> QED BY <2>1, <4>1, <4>2, NodeFacts
    <3> QED BY <3>1, <3>2
  <2>6. WellFormed(s) => WellFormed(t)
    BY <2>5 DEF WellFormed
  <2> QED BY <2>1, <2>4, <2>6
<1> QED BY <1>1, <1>2

\* Neither does a change of a name while the device is up.
LEMMA ReplacedWellFormed ==
  ASSUME NEW s \in Tree, WellFormed(s), NEW p \in Path, NEW n \in Node,
         n # Missing => \A a \in Above[p] : s[a] = Dir
  PROVE  WellFormed(Replaced(s, p, n))
<1> DEFINE t == Replaced(s, p, n)
<1> SUFFICES ASSUME NEW q \in Path, t[q] # Missing, NEW a \in Above[q]
             PROVE  t[a] = Dir
  BY DEF WellFormed
<1>1. \A r \in Path : t[r] = IF r = p THEN n
                              ELSE IF p \in Above[r] /\ n # Dir THEN Missing
                              ELSE s[r]
  BY DEF Replaced
<1>2. a \in Path /\ a # q /\ Above[a] \subseteq Above[q]
  BY FsAssumption
<1>3. s[a] = Dir
  BY <1>1 DEF WellFormed
<1>4. CASE a = p
  BY <1>1, <1>2, <1>4
<1>5. CASE a # p
  <2>1. p \in Above[a] => n = Dir
    <3> SUFFICES ASSUME p \in Above[a], n # Dir PROVE FALSE
      OBVIOUS
    <3>1. p \in Above[q]
      BY <1>2
    <3>2. q = p
      BY <1>1, <3>1
    <3> QED BY <3>1, <3>2, FsAssumption
  <2> QED BY <1>1, <1>2, <1>3, <1>5, <2>1
<1> QED BY <1>4, <1>5
-----------------------------------------------------------------------------
(* What is known at each place of the two scripts. *)

\* states in which the scripts have not written to /system yet
Before ==
  {"fs", "sha1check", "proto_parse", "check_count", "check_status",
   "recovery", "check_asl_img", "mount_sd"}

\* what the reports say of the partition that was checked; a deleted name is
\* only ever reported by an inventory, which reports all added ones too
Reports ==
  /\ mod \subseteq Entries(snap) \cap ListNames
  /\ doa.deleted \subseteq ListNames \ Entries(snap)
  /\ doa.added \subseteq Entries(snap) \ ListNames
  /\ doa.deleted # {} => doa.added = Entries(snap) \ ListNames

(* The invariants, in the order in which they are proved. *)

TreeInv ==
  /\ WellFormed(sys) /\ WellFormed(snap)
  /\ wr # NoPath => sys[wr] = File(Torn)

ReportInv ==
  /\ pc \in Before => sys = snap
  /\ pc \in {"off", "fs", "sha1check", "proto_parse"} => mod = {}
  /\ pc \in {"off", "fs", "sha1check", "proto_parse", "check_count"} =>
       doa = NoDoa
  /\ Reports

MountInv ==
  /\ pc # "off" /\ ~spoiled => rw
  /\ pc \in {"modify", "doa"} /\ ~spoiled => mounted
-----------------------------------------------------------------------------
\* Every step keeps the partition a proper tree.
LEMMA TreeNext == TypeInv /\ TreeInv /\ [Next]_vars => TreeInv'
<1> SUFFICES ASSUME TypeInv, TreeInv, [Next]_vars PROVE TreeInv'
  OBVIOUS
<1> USE DEF TreeInv
<1>1. /\ sys \in Tree /\ todo \subseteq Path /\ add \subseteq Path
      /\ del \subseteq Path /\ cur \in Path \cup {NoPath}
      /\ wr \in Path \cup {NoPath}
      /\ wr # NoPath => cur # NoPath
  BY ListFacts DEF TypeInv, TypeOK, CheckTypeOK, RecoveryTypeOK
<1>2. CASE UNCHANGED <<sys, snap, wr>>
  BY <1>2
<1>3. CASE power_on
  BY <1>3 DEF power_on
<1>4. CASE sys' = sys /\ snap' = snap /\ wr' = NoPath
  BY <1>4
<1>5. CASE put_back
  <2>1. snap' = snap
    BY <1>5 DEF put_back, bootVars
  <2>2. ASSUME NEW p \in todo, recovery_modify(p) PROVE TreeInv'
    BY <1>1, <2>1, <2>2, RmWellFormed DEF recovery_modify, Written
  <2>3. ASSUME NEW p \in add, recovery_added(p) PROVE TreeInv'
    BY <1>1, <2>1, <2>3, RmWellFormed DEF recovery_added, Written
  <2>4. ASSUME NEW p \in del, recovery_deleted(p) PROVE TreeInv'
    BY <1>1, <2>1, <2>4, MkdirFacts DEF recovery_deleted, Written
  <2>5. ASSUME CpPossible, cur # NoPath, NEW n \in Node,
               sys' = [sys EXCEPT ![CpTarget(sys, cur)] = n]
        PROVE  WellFormed(sys')
    <3> DEFINE t == CpTarget(sys, cur)
    <3>1. t \in Path /\ sys[t] # Dir
      BY <2>5 DEF CpPossible, CpCanCreate
    <3>2. \A a \in Above[cur] : sys[a] = Dir
      BY <2>5 DEF CpPossible, CpCanCreate
    <3>3. \A a \in Above[t] : sys[a] = Dir
      <4>1. CASE sys[cur] = Dir
        <5>1. Above[t] = Above[cur] \cup {cur}
          BY <1>1, <2>5, <3>1, <4>1, FsAssumption DEF CpTarget
        <5> QED BY <3>2, <4>1, <5>1
      <4>2. CASE sys[cur] # Dir
        BY <3>2, <4>2 DEF CpTarget
      <4> QED BY <4>1, <4>2
    <3> HIDE DEF t
    <3>4. WellFormed([sys EXCEPT ![t] = n])
      BY <1>1, <3>1, <3>3, SetWellFormed
    <3> QED BY <2>5, <3>4 DEF t
  <2>6. CASE cp_link
    <3>1. asl_img[cur] \in Node
      BY <1>1, <2>6, ImgTree DEF cp_link, Tree
    <3> QED BY <1>1, <2>1, <2>5, <2>6, <3>1 DEF cp_link
  <2>7. CASE cp_open
    <3>1. WellFormed(sys')
      BY <2>5, <2>7, NodeFacts DEF cp_open
    <3>2. CpTarget(sys, cur) \in Path
      BY <2>7 DEF cp_open, CpPossible, CpCanCreate
    <3>3. sys'[wr'] = File(Torn)
      BY <1>1, <2>7, <3>2 DEF cp_open, Tree
    <3> QED BY <2>1, <3>1, <3>3
  <2>8. CASE cp_end(TRUE)
    <3>1. wr \in Path /\ cur \in Path /\ sys[wr] # Dir /\ sys[wr] # Missing
      BY <1>1, <2>8, NodeFacts DEF cp_end
    <3>2. \A a \in Above[wr] : sys[a] = Dir
      BY <3>1 DEF WellFormed
    <3>3. asl_img[cur] \in Node
      BY <3>1, ImgTree DEF Tree
    <3>4. WellFormed([sys EXCEPT ![wr] = asl_img[cur]])
      BY <1>1, <3>1, <3>2, <3>3, SetWellFormed
    <3> QED BY <2>1, <2>8, <3>4 DEF cp_end
  <2>9. CASE \/ modify_done \/ doa_done \/ cp_fails \/ cp_end(FALSE)
             \/ commands_lost
    BY <2>1, <2>9 DEF modify_done, doa_done, cp_fails, cp_end, commands_lost,
      recoveryVars
  <2> QED
    BY <1>5, <2>2, <2>3, <2>4, <2>6, <2>7, <2>8, <2>9 DEF put_back
<1>6. CASE drift
  <2>1. PICK p \in Path : \E n \in Drifts[p] :
          /\ n # Missing => \A a \in Above[p] : sys[a] = Dir
          /\ sys' = Replaced(sys, p, n)
    BY <1>6 DEF drift
  <2>2. PICK n \in Drifts[p] :
          /\ n # Missing => \A a \in Above[p] : sys[a] = Dir
          /\ sys' = Replaced(sys, p, n)
    BY <2>1
  <2>3. n \in Node
    BY BootAssumption
  <2>4. WellFormed(sys')
    BY <1>1, <2>2, <2>3, ReplacedWellFormed
  <2>5. wr = NoPath
    BY <1>6 DEF drift, TypeInv
  <2> QED BY <1>6, <2>4, <2>5 DEF drift, recoveryVars
<1> QED
  BY <1>2, <1>3, <1>4, <1>5, <1>6 DEF Next, System, exec_fails, check, CheckNext,
    asl_init_enter, sha1check, proto_parse, check_count, check_status,
    find_image, recovery_init, data_img_unusable, check_asl_img, mount_sd,
    mount_asl_img, power_off, boot_continues, fix_permissions, image_changes,
    shutdown, power_loss, Volatile, vars, checkVars, recoveryVars, bootVars

\* Whatever happens, the partition and the one the boot found are trees.
LEMMA TreeInvariant == Spec => []TreeInv
<1>1. Init => TreeInv
  BY BuildAssumption DEF Init, Idle, TreeInv
<1> QED BY <1>1, TreeNext, TypeInvariant, PTL DEF Spec
-----------------------------------------------------------------------------
\* Every step keeps the reports true of the partition as the boot found it.
LEMMA ReportNext == TypeInv /\ ReportInv /\ [Next]_vars => ReportInv'
<1> SUFFICES ASSUME TypeInv, ReportInv, [Next]_vars PROVE ReportInv'
  OBVIOUS
<1> USE DEF ReportInv, Before
<1>1. sys \in Tree /\ failed \subseteq ListNames
  BY DEF TypeInv, TypeOK, CheckTypeOK
<1>2. ASSUME mod' = {}, doa' = NoDoa PROVE Reports'
  BY <1>2 DEF Reports, NoDoa
<1>3. ASSUME UNCHANGED <<mod, doa, snap>> PROVE Reports'
  BY <1>3 DEF Reports
<1>4. CASE power_on
  BY <1>2, <1>4 DEF power_on
<1>5. CASE check
  <2> USE <1>5 DEF check, bootVars
  <2>1. CASE asl_init_enter
    BY <1>3, <2>1 DEF asl_init_enter
  <2>2. CASE sha1check
    BY <1>3, <2>2 DEF sha1check
  <2>3. CASE proto_parse
    <3>1. sys = snap /\ doa = NoDoa /\ mod' = {p \in failed : IsRegular(sys, p)}
      BY <2>3 DEF proto_parse
    <3>2. mod' \subseteq Entries(snap) \cap ListNames
      BY <1>1, <3>1, ListFacts, ReadFacts DEF Entries, IsRegular
    <3>3. Reports'
      BY <2>3, <3>1, <3>2 DEF proto_parse, Reports, NoDoa
    <3> QED BY <2>3, <3>3 DEF proto_parse
  <2>4. CASE check_count
    <3>1. sys = snap /\ doa' \in {doa, Inventory(snap)} /\ mod' = mod
      BY <2>4 DEF check_count
    <3>2. CASE doa' = Inventory(snap)
      BY <2>4, <3>1, <3>2 DEF check_count, Reports, Inventory
    <3>3. CASE doa' = doa
      BY <1>3, <2>4, <3>1, <3>3 DEF check_count
    <3> QED BY <3>1, <3>2, <3>3
  <2>5. CASE check_status
    BY <1>3, <2>5 DEF check_status
  <2> QED BY <2>1, <2>2, <2>3, <2>4, <2>5 DEF CheckNext
<1>6. CASE find_image
  BY <1>3, <1>6 DEF find_image, recovery_init, data_img_unusable,
    check_asl_img, mount_sd, mount_asl_img, devUnchanged, bootVars
<1>7. CASE power_off \/ shutdown \/ power_loss
  BY <1>2, <1>7 DEF power_off, shutdown, power_loss, Volatile
<1>8. CASE image_changes
  BY <1>3, <1>8 DEF image_changes, checkVars
<1>9. CASE exec_fails \/ put_back \/ boot_continues \/ drift
  <2>1. /\ pc' \in {"modify", "doa", "fix_permissions", "up"}
        /\ UNCHANGED <<mod, doa, snap>>
    BY <1>9 DEF TypeInv, exec_fails, put_back, boot_continues, drift,
      recovery_modify, modify_done, recovery_added, recovery_deleted, doa_done,
      cp_fails, cp_link, cp_open, cp_end, commands_lost, fix_permissions,
      devUnchanged, bootVars
  <2> QED BY <1>3, <2>1
<1>10. CASE UNCHANGED vars
  BY <1>3, <1>10 DEF vars, checkVars, bootVars
<1> QED
  BY <1>4, <1>5, <1>6, <1>7, <1>8, <1>9, <1>10 DEF Next, System

\* The reports speak of the partition as the boot found it.
LEMMA ReportInvariant == Spec => []ReportInv
<1>1. Init => ReportInv
  <2> SUFFICES ASSUME Init PROVE ReportInv
    OBVIOUS
  <2>1. pc = "off" /\ mod = {} /\ doa = NoDoa
    BY DEF Init, FreshDev
  <2>2. Reports
    BY <2>1 DEF Reports, NoDoa
  <2> QED BY <2>1, <2>2 DEF ReportInv, Before
<1> QED BY <1>1, ReportNext, TypeInvariant, PTL DEF Spec

\* Every step keeps the image mounted and /system writable while the two
\* lists are worked off, unless a fault has struck.
LEMMA MountNext == TypeInv /\ MountInv /\ [Next]_vars => MountInv'
<1> SUFFICES ASSUME TypeInv, MountInv, [Next]_vars PROVE MountInv'
  OBVIOUS
<1> USE DEF MountInv
<1>1. CASE power_on
  BY <1>1 DEF power_on
<1>2. CASE find_image
  BY <1>2 DEF find_image, recovery_init, data_img_unusable, check_asl_img,
    mount_sd, mount_asl_img, recoveryVars, bootVars
<1>3. CASE exec_fails \/ check
  BY <1>3 DEF exec_fails, check, CheckNext, asl_init_enter, sha1check,
    proto_parse, check_count, check_status, recoveryVars, bootVars
<1>4. CASE put_back
  BY <1>4 DEF put_back, recovery_modify, modify_done,
    recovery_added, recovery_deleted, doa_done, cp_fails, cp_link, cp_open,
    cp_end, commands_lost, recoveryVars, bootVars, TypeInv
<1>5. CASE boot_continues \/ drift \/ image_changes
  BY <1>5 DEF boot_continues, fix_permissions, drift, image_changes, checkVars,
    recoveryVars
<1>6. CASE power_off \/ shutdown \/ power_loss
  BY <1>6 DEF power_off, shutdown, power_loss
<1>7. CASE UNCHANGED vars
  BY <1>7 DEF vars, checkVars, recoveryVars, bootVars
<1> QED
  BY <1>1, <1>2, <1>3, <1>4, <1>5, <1>6, <1>7 DEF Next, System

\* The image is mounted and /system writable while the lists are worked off.
LEMMA MountInvariant == Spec => []MountInv
<1>1. Init => MountInv
  BY DEF Init, MountInv
<1> QED BY <1>1, MountNext, TypeInvariant, PTL DEF Spec
=============================================================================
