------------------------------ MODULE AslBuild ------------------------------
(***************************************************************************)
(* The build step (build/core/asl/asl.sh, AMB/asl.sh): from the tree of    *)
(* the product's system directory it derives the hash list, the file       *)
(* count and the recovery image that are compiled into the kernel or       *)
(* copied to the device.                                                   *)
(***************************************************************************)
EXTENDS AslFs

CONSTANTS
  Orig,      \* the system directory on the build host
  Hidden     \* the names the shell pattern system/* does not match

ASSUME BuildAssumption ==
  /\ Orig \in Tree
  /\ WellFormed(Orig)
  /\ \A p \in Path : Orig[p] # File(Torn)
  /\ IsFiniteSet(Path)
  /\ Hidden \subseteq Path
  /\ \A p \in Path : Above[p] \cap Hidden # {} => p \in Hidden

\* sha1sum on the build host; a link that leads nowhere there, or to a
\* directory, makes sha1sum print nothing and the list line has no name
HostHash(p) == Read(Orig, TRUE, p)

\* the names on the lines of asl_list
ListNames == {p \in Entries(Orig) : HostHash(p) # NoData}

\* the sum on the line of a name
ListHash == [p \in ListNames |-> HostHash(p)]

\* nameless lines are counted too
files_count == Cardinality(Entries(Orig))

\* cp -R $SYSTEM_DIR/* copies links as links
asl_img == [p \in Path |-> IF p \in Hidden THEN Missing ELSE Orig[p]]
=============================================================================
