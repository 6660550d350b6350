------------------------------- MODULE AslPerms -------------------------------
(***************************************************************************)
(* The permission manifest: what the build does to owners and modes with    *)
(* asl_permissions.conf, and fix_permissions, which works the same rules    *)
(* off on the device at every boot, after any recovery, command by command, *)
(* and may be cut off at any of them.  A rule is [who, mode, dirmode, path] *)
(* with dirmode "none" for the rule of one file (4 fields) and a mode for   *)
(* the rule of a directory and all below it (5 fields).                     *)
(***************************************************************************)
EXTENDS Naturals, Sequences, FiniteSets, SequencesExt

CONSTANTS
    Paths, Dir,     \* the names on the partition, and those that are directories
    Below,          \* Below[d]: d and what is below it, in the order find prints it
    Rules,          \* the lines of the manifest, in order
    SetId,          \* the modes with a set-id bit, each with the mode left without it
    Restored,       \* what cp -d, or a boot cut off, may have left: set of [who, mode]
    MaxCuts         \* bound on the boots that are cut off

VARIABLES
    attr,           \* of each path: [who, mode]
    built,          \* what the build gave each path
    line,           \* the line fix_permissions is at; one more than there are at its end
    cmds,           \* the commands this line has still to run
    cuts

vars == <<attr, built, line, cmds, cuts>>

\* chown of the kernel takes the set-id bits of a file away; chmod sets what it is told
chown(a, p, who) ==
    [a EXCEPT ![p] = [who |-> who,
                      mode |-> IF @.mode \in DOMAIN SetId /\ p \notin Dir THEN SetId[@.mode] ELSE @.mode]]
chmod(a, p, mode) == [a EXCEPT ![p].mode = mode]
Apply(a, c) == IF c.op = "chown" THEN chown(a, c.path, c.arg) ELSE chmod(a, c.path, c.arg)

Each(op, list, arg) == [i \in DOMAIN list |-> [op |-> op, path |-> list[i], arg |-> arg]]
Files(list) == SelectSeq(list, LAMBDA p : p \notin Dir)
Dirs(list) == SelectSeq(list, LAMBDA p : p \in Dir)

\* the build: a find for each command
BuildCommands(r) ==
    IF r.dirmode = "none"
    THEN Each("chown", <<r.path>>, r.who) \o Each("chmod", <<r.path>>, r.mode)
    ELSE LET all == Below[r.path] IN
         Each("chown", Files(all), r.who) \o Each("chown", Dirs(all), r.who)
         \o Each("chmod", Dirs(all), r.dirmode) \o Each("chmod", Files(all), r.mode)
build(a) == FoldLeft(Apply, a, FlattenSeq([i \in DOMAIN Rules |-> BuildCommands(Rules[i])]))

\* fix_permissions: both commands for one name after the other, directories first
both(p, who, mode) == Each("chown", <<p>>, who) \o Each("chmod", <<p>>, mode)
EachBoth(list, who, mode) == FlattenSeq([i \in DOMAIN list |-> both(list[i], who, mode)])
Commands(r) ==
    IF r.dirmode = "none" THEN both(r.path, r.who, r.mode)
    ELSE EachBoth(Dirs(Below[r.path]), r.who, r.dirmode) \o EachBoth(Files(Below[r.path]), r.who, r.mode)

------------------------------------------------------------------------------
\* the build starts from what the compiler left; on the device some names have
\* just been put back
Init ==
    /\ built = build([p \in Paths |-> [who |-> "builder", mode |-> "0664"]])
    /\ \E new \in [Paths -> Restored], S \in SUBSET Paths :
          attr = [p \in Paths |-> IF p \in S THEN new[p] ELSE built[p]]
    /\ line = 1 /\ cmds = <<>> /\ cuts = 0

read_line_backward ==
    /\ cmds = <<>> /\ line <= Len(Rules)
    /\ cmds' = Commands(Rules[Len(Rules) + 1 - line]) /\ line' = line + 1
    /\ UNCHANGED <<attr, built, cuts>>
read_line ==
    /\ cmds = <<>> /\ line <= Len(Rules)
    /\ cmds' = Commands(Rules[line]) /\ line' = line + 1
    /\ UNCHANGED <<attr, built, cuts>>

run_command ==
    /\ cmds # <<>>
    /\ attr' = Apply(attr, Head(cmds)) /\ cmds' = Tail(cmds)
    /\ UNCHANGED <<built, line, cuts>>

\* the power goes; the recovery script works the rules off at every boot, so the
\* next one begins again with the first
PowerCut ==
    /\ cuts < MaxCuts /\ line > 1
    /\ cuts' = cuts + 1 /\ line' = 1 /\ cmds' = <<>>
    /\ UNCHANGED <<attr, built>>

Next == read_line \/ run_command \/ PowerCut

Spec == Init /\ [][Next]_vars

------------------------------------------------------------------------------
TypeOK ==
    /\ DOMAIN attr = Paths /\ DOMAIN built = Paths
    /\ line \in 1..(Len(Rules) + 1) /\ cuts \in 0..MaxCuts

Covered(p) == \E i \in DOMAIN Rules : Rules[i].path = p \/ (Rules[i].dirmode # "none" /\ p \in ToSet(Below[Rules[i].path]))
\* When fix_permissions is through, every name a rule covers has the owner and
\* the mode the build gave it, set-id bits included, whatever it had before and
\* though the build runs the commands of a rule in another order
AsBuilt ==
    line > Len(Rules) /\ cmds = <<>> => \A p \in Paths : Covered(p) => attr[p] = built[p]

\* At no time does a file carry a set-id bit for an owner other than the one it
\* is meant for: between two rules for the same file the chown of the second
\* takes away the bit of the first before anything else happens
SetIdWithOwner ==
    \A p \in Paths \ Dir : attr[p].mode \in DOMAIN SetId =>
        \/ attr[p] = built[p]
        \/ \E i \in DOMAIN Rules : attr[p] = [who |-> Rules[i].who, mode |-> Rules[i].mode]
================================================================================
