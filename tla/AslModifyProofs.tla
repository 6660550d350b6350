-------------------------- MODULE AslModifyProofs ---------------------------
(***************************************************************************)
(* The first half of a recovery: while mod_detected is worked off, the     *)
(* names outside it are untouched and those already done are the image's.  *)
(***************************************************************************)
EXTENDS AslTreeProofs

\* mod_detected has been worked off up to todo and the name cur
ModifyInv ==
  /\ todo \subseteq mod /\ add = doa.added /\ del = doa.deleted
  /\ \A q \in Path : q \notin mod \/ q \in todo => sys[q] = snap[q]
  /\ \A q \in mod : q \notin todo /\ q # cur => sys[q] = asl_img[q]
  /\ cur # NoPath =>
       /\ cur \in mod \ todo
       /\ wr = NoPath => sys[cur] = Missing
       /\ wr # NoPath => wr = cur /\ asl_img[cur].kind = "file"

Known == TypeInv /\ TreeInv /\ ReportInv /\ MountInv

\* What the invariants say of a boot without faults while it recovers.
LEMMA KnownFacts ==
  ASSUME Known
  PROVE  /\ sys \in Tree /\ snap \in Tree /\ NoPath \notin Path
         /\ mod \subseteq Path /\ mod \subseteq ListNames
         /\ mod \subseteq Entries(snap)
         /\ doa.deleted \subseteq Path /\ doa.deleted \subseteq ListNames
         /\ doa.deleted \cap Entries(snap) = {}
         /\ doa.added \subseteq Entries(snap) \ ListNames
         /\ doa.deleted # {} => doa.added = Entries(snap) \ ListNames
         /\ cur \in ListNames \cup {NoPath} /\ wr \in Path \cup {NoPath}
         /\ cur = NoPath => wr = NoPath
         /\ \A q \in doa.deleted : snap[q] = Dir \/ snap[q] = Missing
<1>1. sys \in Tree /\ snap \in Tree /\ NoPath \notin Path
  BY FsAssumption DEF Known, TypeInv, TypeOK, CheckTypeOK
<1>2. Reports
  BY DEF Known, ReportInv
<1>3. doa.deleted \subseteq Path
  BY <1>2, ListFacts DEF Reports
<1>4. \A q \in doa.deleted : snap[q] = Dir \/ snap[q] = Missing
  <2> TAKE q \in doa.deleted
  <2>1. q \in Path /\ ~IsEntry(snap[q]) /\ snap[q] \in Node
    BY <1>1, <1>2, <1>3 DEF Reports, Entries, Tree
  <2> QED BY <2>1, NodeFacts
<1>5. /\ cur \in ListNames \cup {NoPath} /\ wr \in Path \cup {NoPath}
      /\ cur = NoPath => wr = NoPath
  BY DEF Known, TypeInv, TypeOK, RecoveryTypeOK
<1> QED BY <1>1, <1>2, <1>3, <1>4, <1>5, ListFacts DEF Reports

\* a line of mod_detected is being copied: its place is empty and reachable
LEMMA ModifyTarget ==
  ASSUME Known, ModifyInv, pc = "modify", ~spoiled, cur # NoPath, wr = NoPath
  PROVE  /\ CpTarget(sys, cur) = cur /\ cur \in mod
         /\ CpPossible <=> asl_img[cur] # Missing
<1> USE KnownFacts
<1>1. cur \in mod /\ cur \in Path /\ sys[cur] = Missing
  BY DEF ModifyInv
<1>2. CpTarget(sys, cur) = cur
  BY <1>1, NodeFacts DEF CpTarget
<1>3. \A a \in Above[cur] : sys[a] = Dir
  <2> TAKE a \in Above[cur]
  <2>1. snap[cur] # Missing
    BY <1>1, NodeFacts DEF Entries
  <2>2. snap[a] = Dir
    BY <1>1, <2>1 DEF Known, TreeInv, WellFormed
  <2>3. a \in Path /\ a \notin mod
    BY <1>1, AboveListed
  <2> QED BY <2>2, <2>3 DEF ModifyInv
<1>4. CpCanCreate(sys, cur)
  BY <1>1, <1>2, <1>3, NodeFacts DEF CpCanCreate
<1>5. mounted /\ rw
  BY DEF Known, MountInv
<1> QED BY <1>1, <1>2, <1>4, <1>5 DEF CpPossible

\* recovery_modify: rm and cp of a line bring that name closer to the image
\* and leave every other name alone.
LEMMA ModifySteps ==
  ASSUME Known, ModifyInv, pc = "modify", ~spoiled, UNCHANGED bootVars,
         \/ \E p \in todo : recovery_modify(p)
         \/ cp_fails \/ cp_link \/ cp_open \/ cp_end(TRUE)
  PROVE  ModifyInv'
<1> USE KnownFacts
<1>1. sys \in [Path -> Node] /\ snap' = snap
  BY DEF Tree, bootVars
<1>2. ASSUME NEW p \in todo, recovery_modify(p) PROVE ModifyInv'
  <2>1. p \in mod /\ p \in Path /\ sys[p] = snap[p] /\ IsEntry(sys[p])
    BY DEF ModifyInv, Entries
  <2>2. sys' = [sys EXCEPT ![p] = Missing]
    BY <1>2, <2>1 DEF recovery_modify, Written, Rm, Known, MountInv
  <2>3. \A q \in Path : sys'[q] = IF q = p THEN Missing ELSE sys[q]
    BY <1>1, <2>2
  <2> QED
    BY <1>1, <1>2, <2>1, <2>3 DEF recovery_modify, devUnchanged, ModifyInv
<1>3. CASE cp_fails
  <2>1. asl_img[cur] = Missing /\ sys[cur] = Missing
    BY <1>3, ModifyTarget DEF cp_fails, ModifyInv
  <2> QED BY <1>1, <1>3, <2>1 DEF cp_fails, devUnchanged, ModifyInv
<1>4. CASE cp_link
  <2>1. sys' = [sys EXCEPT ![cur] = asl_img[cur]] /\ cur \in mod
    BY <1>4, ModifyTarget DEF cp_link
  <2>2. \A q \in Path : sys'[q] = IF q = cur THEN asl_img[cur] ELSE sys[q]
    BY <1>1, <2>1
  <2> QED
    BY <1>1, <1>4, <2>1, <2>2 DEF cp_link, devUnchanged, ModifyInv
<1>5. CASE cp_open
  <2>1. sys' = [sys EXCEPT ![cur] = File(Torn)] /\ cur \in mod /\ wr' = cur
    BY <1>5, ModifyTarget DEF cp_open
  <2>2. \A q \in Path : sys'[q] = IF q = cur THEN File(Torn) ELSE sys[q]
    BY <1>1, <2>1
  <2> QED
    BY <1>1, <1>5, <2>1, <2>2 DEF cp_open, devUnchanged, ModifyInv
<1>6. CASE cp_end(TRUE)
  <2>1. cur # NoPath /\ wr = cur /\ cur \in mod
    BY <1>6 DEF cp_end, ModifyInv
  <2>2. \A q \in Path : sys'[q] = IF q = cur THEN asl_img[cur] ELSE sys[q]
    BY <1>1, <1>6, <2>1 DEF cp_end
  <2> QED
    BY <1>1, <1>6, <2>1, <2>2 DEF cp_end, devUnchanged, ModifyInv
<1> QED BY <1>2, <1>3, <1>4, <1>5, <1>6
=============================================================================
