------------------------------ MODULE MCAslBoot -----------------------------
(***************************************************************************)
(* Instances of AslBoot: a file a, a link l to it, a directory d with a    *)
(* file b, a name x that is not part of the product, and the name aa that  *)
(* cp uses when a has become a directory.                                  *)
(***************************************************************************)
EXTENDS AslBoot

CONSTANTS a, aa, b, d, l, x, da, db, alt, torn

MCAbove == [p \in Path |-> CASE p = aa -> {a} [] p = b -> {d} [] OTHER -> {}]
MCInto == [p \in Path |-> IF p = a /\ aa \in Path THEN aa ELSE NoPath]
MCOrig ==
  [p \in Path |-> CASE p = a -> File(da)
                    [] p = b -> File(db)
                    [] p = d -> Dir
                    [] p = l -> Link(a, FALSE)
                    [] OTHER -> Missing]
MCWorking == {da, db, alt}

AllImages == [Places -> {"none", "bad", "good"}]
GoodImage == {[data |-> "none", sd |-> "good"], [data |-> "good", sd |-> "none"]}

SomeImages == GoodImage \cup {[data |-> "bad", sd |-> "none"]}

\* contents, deletions, added files, links to other files and back
FileDrifts ==
  [p \in Path |->
     CASE p = a -> {Missing, File(alt), File(da), Link(x, FALSE)}
       [] p = b -> {Missing, File(alt), File(db)}
       [] p = l -> {Missing, File(alt), File(da), Link(b, TRUE), Link(x, FALSE)}
       [] p = d -> {Missing, File(alt), Dir}
       [] p = x -> {Missing, File(alt), Link(a, FALSE)}
       [] OTHER -> {}]

\* directories in the place of files as well
AllDrifts ==
  [p \in Path |->
     CASE p = a -> FileDrifts[a] \cup {Dir}
       [] p = aa -> {Missing, File(alt)}
       [] OTHER -> FileDrifts[p]]

\* every link leads to a listed name, and no directory takes a file's place
LiveDrifts ==
  [p \in Path |-> {n \in FileDrifts[p] : n.kind = "link" => n.to # x}]
=============================================================================
