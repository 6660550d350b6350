------------------------- MODULE AslRecoveryProofs --------------------------
(***************************************************************************)
(* The proof that a recovery puts back exactly what was reported.          *)
(*                                                                         *)
(* The argument: before the first rm the partition is as the boot found it *)
(* (snap).  While mod_detected is worked off, the names outside it are     *)
(* untouched and those already done are the image's.  While doa_detected   *)
(* is worked off, every "+" line comes before every "-" line, so that no   *)
(* added file is in the way of a directory that a deleted file needs.      *)
(***************************************************************************)
EXTENDS AslModifyProofs

\* cp wrote p inside a directory that had the name of a file
Inside(p) == \E q \in doa.deleted : snap[q] = Dir /\ Into[q] = p

\* doa_detected has been worked off up to add, del and the name cur
DoaLists ==
  /\ add \subseteq doa.added /\ del \subseteq doa.deleted
  /\ add # {} => del = doa.deleted /\ cur = NoPath

DoaKept ==
  /\ \A q \in mod : sys[q] = asl_img[q]
  /\ \A q \in Entries(snap) \ (mod \cup doa.added) : sys[q] = snap[q]

DoaExtra ==
  \A q \in Path \ ListNames :
    IsEntry(sys[q]) => \/ q \in add
                       \/ q \in Entries(snap) \ doa.added
                       \/ Inside(q)

DoaBack ==
  \A q \in doa.deleted :
    /\ snap[q] = Dir => sys[q] = Dir
    /\ snap[q] = Missing /\ q \in del => sys[q] = Missing
    /\ snap[q] = Missing /\ q \notin del /\ q # cur => sys[q] = asl_img[q]

DoaCopying ==
  cur # NoPath =>
    /\ cur \in doa.deleted \ del
    /\ \A a \in Above[cur] : sys[a] = Dir
    /\ wr = NoPath /\ snap[cur] = Missing => sys[cur] = Missing
    /\ wr # NoPath =>
         /\ wr = IF snap[cur] = Dir THEN Into[cur] ELSE cur
         /\ asl_img[cur].kind = "file"

DoaInv == DoaLists /\ DoaKept /\ DoaExtra /\ DoaBack /\ DoaCopying

\* what RecoveryExact says of the partition
Recovered ==
  /\ \A p \in mod : sys[p] = asl_img[p]
  /\ \A p \in doa.deleted : snap[p] # Dir => sys[p] = asl_img[p]
  /\ \A p \in doa.added : IsEntry(sys[p]) => Inside(p)
  /\ \A p \in Entries(snap) \ (mod \cup doa.added) : sys[p] = snap[p]

\* The invariant of the recovery.
PhaseInv ==
  /\ pc = "modify" /\ ~spoiled => ModifyInv
  /\ pc = "doa" /\ ~spoiled => DoaInv
  /\ pc = "fix_permissions" /\ need = "1" /\ ~spoiled => Recovered
  /\ RecoveryExact
-----------------------------------------------------------------------------
(* doa_detected is worked off. *)

\* When mod_detected is worked off, every name of it is the image's.
LEMMA ModifyDone ==
  ASSUME Known, ModifyInv, pc = "modify", modify_done, UNCHANGED bootVars
  PROVE  DoaInv'
<1> USE KnownFacts
<1>1. /\ todo = {} /\ cur = NoPath /\ cur' = cur
      /\ UNCHANGED <<sys, add, del, wr, mod, doa, snap>>
  BY DEF modify_done, devUnchanged, recoveryVars, bootVars
<1>2. DoaInv
  <2>1. \A q \in Path : q \notin mod => sys[q] = snap[q]
    BY DEF ModifyInv
  <2>2. \A q \in mod : sys[q] = asl_img[q]
    BY <1>1 DEF ModifyInv
  <2>3. add = doa.added /\ del = doa.deleted
    BY DEF ModifyInv
  <2>4. \A q \in doa.deleted : q \notin mod
    OBVIOUS
  <2>5. Entries(snap) \subseteq Path
    BY DEF Entries
  <2>6. \A q \in Path \ ListNames : IsEntry(sys[q]) => q \in Entries(snap)
    BY <2>1 DEF Entries
  <2>7. DoaLists /\ DoaCopying
    BY <1>1, <2>3 DEF DoaLists, DoaCopying
  <2>8. DoaKept /\ DoaExtra
    BY <2>1, <2>2, <2>3, <2>5, <2>6 DEF DoaKept, DoaExtra
  <2>9. DoaBack
    BY <2>1, <2>3, <2>4 DEF DoaBack
  <2> QED BY <2>7, <2>8, <2>9 DEF DoaInv
<1> QED BY <1>1, <1>2
  DEF DoaInv, DoaLists, DoaKept, DoaExtra, DoaBack, DoaCopying, Inside

\* recovery_doa: a "+" line removes that name and leaves the others alone.
LEMMA AddedStep ==
  ASSUME Known, DoaInv, pc = "doa", ~spoiled, UNCHANGED bootVars,
         NEW p \in add, recovery_added(p)
  PROVE  DoaInv'
<1> USE KnownFacts
<1>1. p \in Path /\ p \in doa.added /\ p \notin ListNames
  BY DEF DoaInv, DoaLists, Entries
<1>2. /\ \A q \in Path : q # p => sys'[q] = sys[q]
      /\ ~IsEntry(sys'[p])
  <2>1. sys' = Rm(sys, p)
    BY DEF recovery_added, Written, Known, MountInv
  <2> QED BY <1>1, <2>1, NodeFacts DEF Rm, Tree
<1>3. /\ add' = add \ {p} /\ cur = NoPath
      /\ UNCHANGED <<del, cur, wr, mod, doa, snap>>
  BY DEF recovery_added, devUnchanged, bootVars
<1>4. Entries(snap) \subseteq Path
  BY DEF Entries
<1>5. DoaLists' /\ DoaCopying'
  BY <1>3 DEF DoaInv, DoaLists, DoaCopying
<1>6. DoaKept'
  BY <1>1, <1>2, <1>3, <1>4 DEF DoaInv, DoaKept
<1>7. DoaExtra'
  BY <1>1, <1>2, <1>3 DEF DoaInv, DoaExtra, Inside
<1>8. DoaBack'
  <2>1. \A q \in doa.deleted : sys'[q] = sys[q]
    BY <1>1, <1>2
  <2> QED BY <1>3, <2>1 DEF DoaInv, DoaBack
<1> QED BY <1>5, <1>6, <1>7, <1>8 DEF DoaInv

\* no file is in the way of the directories a deleted file needs
LEMMA NothingInTheWay ==
  ASSUME Known, DoaInv, add = {}, NEW p \in doa.deleted, NEW a \in Above[p]
  PROVE  ~IsEntry(sys[a])
<1> USE KnownFacts
<1>1. p \in Path /\ p \in ListNames /\ a \in Path /\ a \notin ListNames
  BY AboveListed
<1>2. ~Inside(a)
  <2> SUFFICES ASSUME NEW r \in doa.deleted, Into[r] = a PROVE FALSE
    BY DEF Inside
  <2>1. r \in Path /\ r \in ListNames
    OBVIOUS
  <2>2. r \in Above[a]
    BY <1>1, <2>1, FsAssumption
  <2>3. r \in Above[p]
    BY <1>1, <2>2, FsAssumption
  <2> QED BY <1>1, <2>1, <2>3, AboveListed
<1>3. a \notin Entries(snap) \ doa.added
  BY <1>1
<1> QED BY <1>1, <1>2, <1>3 DEF DoaInv, DoaExtra

\* recovery_doa: the mkdir of a "-" line creates directories only.
LEMMA DeletedStep ==
  ASSUME Known, DoaInv, pc = "doa", ~spoiled, UNCHANGED bootVars,
         NEW p \in del, recovery_deleted(p)
  PROVE  DoaInv'
<1> USE KnownFacts
<1>1. p \in doa.deleted /\ p \in Path /\ p \in ListNames
  BY DEF DoaInv, DoaLists
<1>2. /\ add = {} /\ add' = {} /\ del' = del \ {p} /\ cur = NoPath /\ cur' = p
      /\ wr' = NoPath /\ UNCHANGED <<mod, doa, snap>>
  BY DEF recovery_deleted, devUnchanged, bootVars
<1>3. sys' = MkdirP(sys, p)
  BY DEF recovery_deleted, Written, Known, MountInv
<1>4. /\ \A q \in Path : sys[q] # Missing \/ q \notin Above[p] => sys'[q] = sys[q]
      /\ \A q \in Path : sys'[q] = sys[q] \/ sys'[q] = Dir
      /\ \A a \in Above[p] : sys'[a] = Dir
  <2>1. \A a \in Above[p] : ~IsEntry(sys[a])
    BY <1>1, <1>2, NothingInTheWay
  <2> QED BY <1>1, <1>3, <2>1, MkdirFacts
<1>5. \A q \in ListNames : q \in Path /\ sys'[q] = sys[q]
  BY <1>1, <1>4, AboveListed
<1>6. \A q \in Entries(snap) \ (mod \cup doa.added) : sys'[q] = snap[q]
  <2> TAKE q \in Entries(snap) \ (mod \cup doa.added)
  <2>1. q \in Path /\ sys[q] = snap[q] /\ IsEntry(snap[q])
    BY DEF DoaInv, DoaKept, Entries
  <2> QED BY <1>4, <2>1, NodeFacts
<1>7. \A q \in Path : IsEntry(sys'[q]) => sys'[q] = sys[q]
  BY <1>4, NodeFacts
<1>8. /\ \A q \in mod : sys'[q] = asl_img[q]
      /\ del' \subseteq doa.deleted /\ p \in doa.deleted \ del'
  BY <1>1, <1>2, <1>5 DEF DoaInv, DoaLists, DoaKept
<1>9. \A q \in Path \ ListNames :
        IsEntry(sys'[q]) => q \in Entries(snap) \ doa.added \/ Inside(q)
  BY <1>2, <1>7 DEF DoaInv, DoaExtra
<1>10. \A q \in doa.deleted :
         /\ snap[q] = Dir => sys'[q] = Dir
         /\ snap[q] = Missing /\ q \in del => sys'[q] = Missing
         /\ snap[q] = Missing /\ q \notin del => sys'[q] = asl_img[q]
  BY <1>2, <1>5 DEF DoaInv, DoaBack
<1>11. DoaLists' /\ DoaKept'
  BY <1>2, <1>6, <1>8 DEF DoaLists, DoaKept
<1>12. DoaExtra'
  BY <1>2, <1>9 DEF DoaExtra, Inside
<1>13. DoaBack'
  BY <1>2, <1>10 DEF DoaBack
<1>14. DoaCopying'
  BY <1>1, <1>2, <1>4, <1>8, <1>10 DEF DoaCopying
<1> QED BY <1>11, <1>12, <1>13, <1>14 DEF DoaInv

\* When doa_detected is worked off, the recovery is complete.
LEMMA DoaDone ==
  ASSUME Known, DoaInv, pc = "doa", doa_done, UNCHANGED bootVars
  PROVE  Recovered'
<1> USE KnownFacts
<1>1. /\ add = {} /\ del = {} /\ cur = NoPath
      /\ UNCHANGED <<sys, mod, doa, snap>>
  BY DEF doa_done, devUnchanged, bootVars
<1>2. Recovered
  BY <1>1 DEF DoaInv, DoaKept, DoaExtra, DoaBack, Recovered, Entries
<1> QED BY <1>1, <1>2 DEF Recovered, Inside

\* where the copy of a deleted file goes: to its name, or into the directory
\* that has taken the name; what the copy may not disturb is elsewhere
LEMMA DoaTarget ==
  ASSUME Known, DoaInv, cur # NoPath,
         NEW t \in Path, t = IF snap[cur] = Dir THEN Into[cur] ELSE cur
  PROVE  /\ cur \in doa.deleted /\ cur \in Path /\ cur \in ListNames
         /\ t \notin mod /\ t \notin Entries(snap) \ (mod \cup doa.added)
         /\ t \notin Above[cur]
         /\ \A q \in doa.deleted : q = t => q = cur /\ snap[cur] = Missing
         /\ t \notin ListNames => Inside(t)
         /\ snap[cur] = Missing => t = cur
<1> USE KnownFacts
<1>1. cur \in doa.deleted /\ cur \in Path /\ cur \in ListNames
  BY DEF DoaInv, DoaCopying
<1>2. CASE snap[cur] = Missing
  BY <1>1, <1>2, NodeFacts, FsAssumption
<1>3. CASE snap[cur] = Dir
  <2>1. t = Into[cur] /\ t \notin ListNames
    BY <1>1, <1>3, AboveListed
  <2>2. Above[t] = Above[cur] \cup {cur} /\ t \notin Above[t]
    BY <1>1, <2>1, FsAssumption
  <2>3. Inside(t)
    BY <1>1, <1>3, <2>1 DEF Inside
  <2> QED BY <1>1, <1>3, <2>1, <2>2, <2>3, NodeFacts
<1> QED BY <1>1, <1>2, <1>3

\* A write to that place, leaving cur to be copied further or done with.
LEMMA DoaWrite ==
  ASSUME Known, DoaInv, cur # NoPath,
         UNCHANGED <<add, del, mod, doa, snap>>,
         NEW t \in Path, t = IF snap[cur] = Dir THEN Into[cur] ELSE cur,
         NEW n, sys' = [sys EXCEPT ![t] = n],
         \/ cur' = NoPath /\ n = asl_img[cur]
         \/ cur' = cur /\ wr' = t /\ asl_img[cur].kind = "file"
  PROVE  DoaInv'
<1> USE KnownFacts
<1>1. \A q \in Path : sys'[q] = IF q = t THEN n ELSE sys[q]
  BY DEF Tree
<1>2. /\ cur \in doa.deleted /\ cur \in Path /\ cur \in ListNames
      /\ t \notin mod /\ t \notin Entries(snap) \ (mod \cup doa.added)
      /\ t \notin Above[cur]
      /\ \A q \in doa.deleted : q = t => q = cur /\ snap[cur] = Missing
      /\ t \notin ListNames => Inside(t)
      /\ snap[cur] = Missing => t = cur
  BY DoaTarget
<1>3. add = {}
  BY DEF DoaInv, DoaLists
<1>4. \A q \in mod : sys'[q] = asl_img[q]
  BY <1>1, <1>2 DEF DoaInv, DoaKept
<1>5. \A q \in Entries(snap) \ (mod \cup doa.added) : sys'[q] = snap[q]
  BY <1>1, <1>2 DEF DoaInv, DoaKept, Entries
<1>6. \A q \in Path \ ListNames :
        IsEntry(sys'[q]) => q \in Entries(snap) \ doa.added \/ Inside(q)
  BY <1>1, <1>2, <1>3 DEF DoaInv, DoaExtra
<1>7. \A q \in doa.deleted : q # cur =>
        /\ snap[q] = Dir => sys'[q] = Dir
        /\ snap[q] = Missing /\ q \in del => sys'[q] = Missing
        /\ snap[q] = Missing /\ q \notin del => sys'[q] = asl_img[q]
  BY <1>1, <1>2 DEF DoaInv, DoaBack
<1>8. /\ cur \notin del
      /\ snap[cur] = Dir => sys'[cur] = Dir
      /\ snap[cur] = Missing => sys'[cur] = n
  BY <1>1, <1>2, NodeFacts DEF DoaInv, DoaBack, DoaCopying
<1>9. \A a \in Above[cur] : sys'[a] = Dir
  BY <1>1, <1>2, AboveListed DEF DoaInv, DoaCopying
<1>10. del \subseteq doa.deleted
  BY DEF DoaInv, DoaLists
<1>11. \A q : Inside(q)' <=> Inside(q)
  BY DEF Inside
<1>12. DoaLists' /\ DoaKept'
  BY <1>3, <1>4, <1>5, <1>10 DEF DoaLists, DoaKept
<1>13. DoaExtra'
  BY <1>6, <1>11 DEF DoaExtra
<1>14. CASE cur' = NoPath /\ n = asl_img[cur]
  <2>1. DoaBack'
    BY <1>7, <1>8, <1>14 DEF DoaBack
  <2>2. DoaCopying'
    BY <1>14 DEF DoaCopying
  <2> QED BY <1>12, <1>13, <2>1, <2>2 DEF DoaInv
<1>15. CASE cur' = cur /\ wr' = t /\ asl_img[cur].kind = "file"
  <2>1. DoaBack'
    BY <1>7, <1>8, <1>15 DEF DoaBack
  <2>2. DoaCopying'
    BY <1>2, <1>8, <1>9, <1>15 DEF DoaCopying
  <2> QED BY <1>12, <1>13, <2>1, <2>2 DEF DoaInv
<1> QED BY <1>14, <1>15

\* recovery_doa: the cp of a "-" line puts that name back.
LEMMA DoaCopy ==
  ASSUME Known, DoaInv, pc = "doa", ~spoiled, UNCHANGED bootVars,
         cp_fails \/ cp_link \/ cp_open \/ cp_end(TRUE)
  PROVE  DoaInv'
<1> USE KnownFacts
<1>1. cur # NoPath /\ UNCHANGED <<add, del, mod, doa, snap>>
  BY DEF cp_fails, cp_link, cp_open, cp_end, devUnchanged, bootVars
<1>2. cur \in doa.deleted /\ cur \in Path
  BY <1>1 DEF DoaInv, DoaCopying
<1>3. wr = NoPath =>
        CpTarget(sys, cur) = IF snap[cur] = Dir THEN Into[cur] ELSE cur
  BY <1>1, <1>2, NodeFacts DEF DoaInv, DoaBack, DoaCopying, CpTarget
<1>4. CASE cp_fails
  <2>1. snap[cur] = Missing => sys[cur] = asl_img[cur]
    <3> SUFFICES ASSUME snap[cur] = Missing PROVE sys[cur] = asl_img[cur]
      OBVIOUS
    <3>1. sys[cur] = Missing /\ \A a \in Above[cur] : sys[a] = Dir
      BY <1>1, <1>2, <1>4 DEF cp_fails, DoaInv, DoaCopying
    <3>2. CpCanCreate(sys, cur)
      BY <1>2, <3>1, NodeFacts DEF CpCanCreate, CpTarget
    <3>3. mounted /\ rw
      BY DEF Known, MountInv
    <3> QED BY <1>4, <3>1, <3>2, <3>3 DEF cp_fails, CpPossible
  <2>2. sys' = sys /\ cur' = NoPath
    BY <1>4 DEF cp_fails
  <2>3. \A q : Inside(q)' <=> Inside(q)
    BY <1>1 DEF Inside
  <2>4. DoaLists' /\ DoaKept' /\ DoaCopying'
    BY <1>1, <2>2 DEF DoaInv, DoaLists, DoaKept, DoaCopying
  <2>5. DoaExtra'
    BY <1>1, <2>2, <2>3 DEF DoaInv, DoaExtra
  <2>6. DoaBack'
    <3>1. cur \notin del
      BY <1>1 DEF DoaInv, DoaCopying
    <3> QED BY <1>1, <1>2, <2>1, <2>2, <3>1 DEF DoaInv, DoaBack
  <2> QED BY <2>4, <2>5, <2>6 DEF DoaInv
<1>5. CASE cp_link
  <2> DEFINE t == CpTarget(sys, cur)
  <2>1. t \in Path /\ t = IF snap[cur] = Dir THEN Into[cur] ELSE cur
    BY <1>3, <1>5 DEF cp_link, CpPossible, CpCanCreate
  <2>2. sys' = [sys EXCEPT ![t] = asl_img[cur]] /\ cur' = NoPath
    BY <1>5 DEF cp_link
  <2> QED BY <1>1, <2>1, <2>2, DoaWrite
<1>6. CASE cp_open
  <2> DEFINE t == CpTarget(sys, cur)
  <2>1. t \in Path /\ t = IF snap[cur] = Dir THEN Into[cur] ELSE cur
    BY <1>3, <1>6 DEF cp_open, CpPossible, CpCanCreate
  <2>2. /\ sys' = [sys EXCEPT ![t] = File(Torn)] /\ cur' = cur /\ wr' = t
        /\ asl_img[cur].kind = "file"
    BY <1>6 DEF cp_open
  <2> QED BY <1>1, <2>1, <2>2, DoaWrite
<1>7. CASE cp_end(TRUE)
  <2>1. wr \in Path /\ wr = IF snap[cur] = Dir THEN Into[cur] ELSE cur
    BY <1>1, <1>7 DEF cp_end, DoaInv, DoaCopying
  <2>2. sys' = [sys EXCEPT ![wr] = asl_img[cur]] /\ cur' = NoPath
    BY <1>7 DEF cp_end
  <2> QED BY <1>1, <2>1, <2>2, DoaWrite
<1> QED BY <1>4, <1>5, <1>6, <1>7

\* Every step preserves what each phase of the recovery has achieved.
LEMMA PhaseNext ==
  ASSUME Known, PhaseInv, [Next]_vars
  PROVE  PhaseInv'
<1>1. CASE spoiled'
  BY <1>1 DEF PhaseInv, RecoveryExact
<1>2. CASE pc' \notin {"modify", "doa", "fix_permissions", "up"}
  BY <1>2 DEF PhaseInv, RecoveryExact
<1>3. CASE pc' = "up" /\ ~fresh'
  BY <1>3 DEF PhaseInv, RecoveryExact
<1>4. CASE UNCHANGED vars
  <2>1. UNCHANGED <<pc, spoiled, need, fresh, sys, mod, doa, snap, todo, add,
                    del, cur, wr>>
    BY <1>4 DEF vars, checkVars, recoveryVars, bootVars
  <2>2. \A q : Inside(q)' <=> Inside(q)
    BY <2>1 DEF Inside
  <2> QED
    BY <2>1, <2>2 DEF PhaseInv, RecoveryExact, ModifyInv, DoaInv,
    DoaLists, DoaKept, DoaExtra, DoaBack, DoaCopying, Recovered
<1>5. CASE find_image /\ ~spoiled'
  <2>1. CASE recovery_init
    <3>1. pc' = "fix_permissions" => need' # "1"
      BY <2>1 DEF recovery_init, devUnchanged
    <3>2. pc' \in {"fix_permissions", "check_asl_img"}
      BY <2>1 DEF recovery_init
    <3> QED BY <3>1, <3>2 DEF PhaseInv, RecoveryExact
  <2>2. CASE data_img_unusable
    BY <1>2, <2>2 DEF data_img_unusable
  <2>3. CASE check_asl_img(TRUE) \/ mount_sd(TRUE)
    <3>1. /\ pc \in Before /\ pc' = "modify" /\ todo' = mod
          /\ add' = doa.added /\ del' = doa.deleted /\ cur' = cur
          /\ UNCHANGED <<sys, mod, doa>>
      BY <2>3 DEF check_asl_img, mount_sd, mount_asl_img, devUnchanged, Before
    <3>2. sys = snap /\ snap' = snap /\ cur = NoPath
      BY <1>5, <3>1 DEF find_image, bootVars, Known, ReportInv, TypeInv, Before
    <3>3. ModifyInv'
      BY <3>1, <3>2, KnownFacts DEF ModifyInv
    <3> QED BY <3>1, <3>3 DEF PhaseInv, RecoveryExact
  <2> QED BY <1>1, <1>5, <2>1, <2>2, <2>3 DEF find_image
<1>6. CASE put_back /\ ~spoiled'
  <2>1. UNCHANGED bootVars /\ ~spoiled
    <3>1. spoiled' # TRUE
      BY <1>6
    <3>2. UNCHANGED bootVars
      BY <1>6, <3>1 DEF put_back
    <3> QED BY <1>6, <3>2 DEF bootVars
  <2>2. CASE pc = "modify"
    <3>1. ModifyInv
      BY <2>1, <2>2 DEF PhaseInv
    <3>2. CASE modify_done
      <4>1. DoaInv'
        BY <2>1, <2>2, <3>1, <3>2, ModifyDone
      <4> QED BY <3>2, <4>1 DEF modify_done, PhaseInv, RecoveryExact
    <3>3. CASE \/ \E p \in todo : recovery_modify(p)
               \/ cp_fails \/ cp_link \/ cp_open \/ cp_end(TRUE)
      <4>1. ModifyInv'
        BY <2>1, <2>2, <3>1, <3>3, ModifySteps
      <4>2. pc' = "modify"
        BY <2>2, <3>3 DEF recovery_modify, cp_fails, cp_link, cp_open, cp_end
      <4> QED BY <4>1, <4>2 DEF PhaseInv, RecoveryExact
    <3> QED
      BY <1>6, <2>2, <3>2, <3>3 DEF put_back, recovery_added, recovery_deleted,
        doa_done
  <2>3. CASE pc = "doa"
    <3>1. DoaInv
      BY <2>1, <2>3 DEF PhaseInv
    <3>2. CASE doa_done
      <4>1. Recovered'
        BY <2>1, <2>3, <3>1, <3>2, DoaDone
      <4> QED BY <3>2, <4>1 DEF doa_done, PhaseInv, RecoveryExact
    <3>3. CASE \/ \E p \in add : recovery_added(p)
               \/ \E p \in del : recovery_deleted(p)
               \/ cp_fails \/ cp_link \/ cp_open \/ cp_end(TRUE)
      <4>1. DoaInv'
        BY <2>1, <2>3, <3>1, <3>3, AddedStep, DeletedStep, DoaCopy
      <4>2. pc' = "doa"
        BY <2>3, <3>3 DEF recovery_added, recovery_deleted, cp_fails, cp_link,
          cp_open, cp_end
      <4> QED BY <4>1, <4>2 DEF PhaseInv, RecoveryExact
    <3> QED
      BY <1>6, <2>3, <3>2, <3>3 DEF put_back, recovery_modify, modify_done
  <2>4. pc \in {"modify", "doa"}
    BY <1>6 DEF Known, TypeInv, put_back, recovery_modify, modify_done,
      recovery_added, recovery_deleted, doa_done, cp_fails, cp_link, cp_open,
      cp_end
  <2> QED BY <2>2, <2>3, <2>4
<1>7. CASE boot_continues /\ ~spoiled'
  <2>1. /\ pc = "fix_permissions" /\ pc' = "up"
        /\ UNCHANGED <<need, spoiled, sys, mod, doa, snap>>
    BY <1>7 DEF boot_continues, fix_permissions, devUnchanged
  <2>2. need = "1" => Recovered
    BY <1>7, <2>1 DEF PhaseInv
  <2> QED BY <2>1, <2>2 DEF PhaseInv, RecoveryExact, Recovered, Inside
<1>8. CASE image_changes
  <2>1. pc' \notin {"modify", "doa", "fix_permissions"} /\ ~fresh'
    BY <1>8 DEF image_changes, checkVars
  <2> QED BY <2>1 DEF PhaseInv, RecoveryExact
<1>9. CASE exec_fails \/ drift
  BY <1>1, <1>3, <1>9 DEF exec_fails, drift
<1>10. CASE check \/ power_on \/ power_off \/ shutdown \/ power_loss
  BY <1>2, <1>10 DEF check, CheckNext, asl_init_enter, sha1check, proto_parse,
    check_count, check_status, power_on, power_off, shutdown, power_loss
<1> QED
  BY <1>1, <1>4, <1>5, <1>6, <1>7, <1>8, <1>9, <1>10 DEF Next, System

\* After a boot whose commands all worked, every modified or deleted name is the
\* image's, every added one is gone and everything else is as the boot found it,
\* whatever was changed and however often earlier boots were interrupted.
THEOREM RecoveryCorrect == Spec => []RecoveryExact
<1>1. Init => PhaseInv
  BY DEF Init, PhaseInv, RecoveryExact
<1>2. Known /\ PhaseInv /\ [Next]_vars => PhaseInv'
  BY PhaseNext
<1>3. PhaseInv => RecoveryExact
  BY DEF PhaseInv
<1>4. TypeInv /\ TreeInv /\ ReportInv /\ MountInv => Known
  BY DEF Known
<1> QED
  BY <1>1, <1>2, <1>3, <1>4, TypeInvariant, TreeInvariant, ReportInvariant,
    MountInvariant, PTL DEF Spec
=============================================================================
