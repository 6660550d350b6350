------------------------------- MODULE AslFs --------------------------------
(***************************************************************************)
(* The /system partition as the ASL scripts see it: a tree of regular      *)
(* files, symbolic links and directories, and what the shell tools they    *)
(* call (find, sha1sum, rm, mkdir -p, cp -d, test -f) do to it.            *)
(*                                                                         *)
(* Contents are abstract: two files have the same SHA-1 sum exactly when   *)
(* they have the same content.                                             *)
(***************************************************************************)
EXTENDS Integers, FiniteSets

CONSTANTS
  Path,      \* the names below /system
  NoPath,    \* not a name below /system (a link may point there)
  Data,      \* what a regular file may hold
  Torn,      \* the content of a file whose copy was cut short
  NoData,    \* what reading something unreadable yields
  Above,     \* Above[p]: the directories a path goes through, /system excluded
  Into,      \* Into[p]: the name that cp gives p when p is a directory
  MaxLinks   \* how many links the kernel follows before it gives up

Missing == [kind |-> "missing"]
Dir     == [kind |-> "dir"]
File(d) == [kind |-> "file", data |-> d]
\* abs: the link text is absolute, so on the build host it leaves the tree
Link(q, abs) == [kind |-> "link", to |-> q, abs |-> abs]

Node ==
  {Missing, Dir}
    \cup [kind : {"file"}, data : Data]
    \cup [kind : {"link"}, to : Path \cup {NoPath}, abs : BOOLEAN]

Tree == [Path -> Node]

ASSUME FsAssumption ==
  /\ NoPath \notin Path
  /\ Torn \in Data
  /\ NoData \notin Data
  /\ Above \in [Path -> SUBSET Path]
  /\ Into \in [Path -> Path \cup {NoPath}]
  /\ \A p \in Path :
       /\ p \notin Above[p]
       /\ \A a \in Above[p] : Above[a] \subseteq Above[p]
       /\ Into[p] \in Path => Above[Into[p]] = Above[p] \cup {p}
  /\ MaxLinks \in Nat
-----------------------------------------------------------------------------
(* What the tools read. *)

\* where the kernel ends up when it follows the links from each name of s
LinkEnd(s, onHost) ==
  LET hop[n \in 0..MaxLinks] ==
        [p \in Path |->
           IF /\ s[p].kind = "link" /\ n > 0
              /\ s[p].to \in Path /\ ~(onHost /\ s[p].abs)
           THEN hop[n - 1][s[p].to]
           ELSE p]
  IN  hop[MaxLinks]

\* open() and read() of p
Read(s, onHost, p) ==
  LET end == s[LinkEnd(s, onHost)[p]]
  IN  CASE s[p].kind = "file" -> s[p].data
        [] s[p].kind = "link" /\ end.kind = "file" -> end.data
        [] OTHER -> NoData

\* hash_file(): the sum of the content, or NULL when it cannot be read
hash_file(s, p) == Read(s, FALSE, p)

\* [ -f p ]
IsRegular(s, p) == hash_file(s, p) # NoData

IsEntry(n) == n.kind \in {"file", "link"}

\* find /system -type f -o -type l
Entries(s) == {p \in Path : IsEntry(s[p])}

\* nothing exists below something that is not a directory
WellFormed(s) ==
  \A p \in Path : s[p] # Missing => \A a \in Above[p] : s[a] = Dir
-----------------------------------------------------------------------------
(* What the tools write. *)

\* rm p: fails on a directory and on a missing name
Rm(s, p) == IF IsEntry(s[p]) THEN [s EXCEPT ![p] = Missing] ELSE s

\* mkdir -p of the directory that holds p: fails when a file is in the way
MkdirP(s, p) ==
  IF \E a \in Above[p] : IsEntry(s[a])
  THEN s
  ELSE [q \in Path |-> IF q \in Above[p] /\ s[q] = Missing THEN Dir ELSE s[q]]

\* the name that cp writes when its second argument is p
CpTarget(s, p) == IF s[p] = Dir THEN Into[p] ELSE p

CpCanCreate(s, p) ==
  /\ CpTarget(s, p) \in Path
  /\ s[CpTarget(s, p)] # Dir
  /\ \A a \in Above[p] : s[a] = Dir
=============================================================================
