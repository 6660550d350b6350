------------------------------- MODULE FileCopy -------------------------------
(***************************************************************************)
(* The copy command of init (builtins.c, do_copy): the size is taken once,  *)
(* the file is read into a buffer of that size and the buffer is written    *)
(* out, while another process may change the file.                          *)
(***************************************************************************)
EXTENDS Integers, Sequences, SequencesExt

CONSTANTS
    Sources,     \* contents the file may have
    MaxChange,   \* bound on what the other process does to it
    Garbage      \* memory malloc hands out as it is

VARIABLES
    pc, rc,            \* where do_copy is, and what it returned
    size, buf, p,      \* info.st_size, buffer and the place in it
    src, offset, dst,  \* the file, how far it is read, and the copy
    changes,
    shrunk, stalled    \* history: the file was truncated after stat; a write took nothing

vars == <<pc, rc, size, src, offset, buf, p, dst, changes, shrunk, stalled>>

Init ==
    /\ pc = "stat" /\ rc = 1 /\ size = 0 /\ src \in Sources /\ offset = 0 /\ buf = <<>> /\ p = 0
    /\ dst = <<"old">> /\ changes = 0 /\ shrunk = FALSE /\ stalled = FALSE

Return(status) == rc' = status /\ pc' = "out"

\* stat, then both are opened, the target truncated, and the buffer is allocated;
\* each may fail
do_copy ==
    /\ pc = "stat"
    /\ \/ Return(-1) /\ UNCHANGED <<size, dst, buf>>
       \/ size' = Len(src) /\ pc' = "open" /\ UNCHANGED <<rc, dst, buf>>
    /\ UNCHANGED <<src, offset, p, changes, shrunk, stalled>>
open_files ==
    /\ pc = "open"
    /\ \/ Return(-1) /\ UNCHANGED buf /\ dst' \in {dst, <<>>}
       \/ /\ dst' = <<>> /\ buf' = [i \in 1..size |-> Garbage] /\ pc' = "read" /\ UNCHANGED rc
    /\ UNCHANGED <<size, src, offset, p, changes, shrunk, stalled>>

\* a turn of the reading loop: any part of what is there, up to what is missing
read_again ==
    /\ pc = "read"
    /\ \/ p = size /\ pc' = "write" /\ p' = 0 /\ UNCHANGED <<rc, buf, offset>>
       \/ p < size /\ Return(-1) /\ UNCHANGED <<buf, p, offset>>
       \/ p < size /\ offset >= Len(src) /\ pc' = "write" /\ p' = 0 /\ UNCHANGED <<rc, buf, offset>>
       \/ \E n \in 1..(size - p) :
             /\ offset + n <= Len(src)
             /\ buf' = [i \in 1..size |-> IF i \in (p + 1)..(p + n) THEN src[offset + i - p] ELSE buf[i]]
             /\ p' = p + n /\ offset' = offset + n /\ UNCHANGED <<rc, pc>>
    /\ UNCHANGED <<size, src, dst, changes, shrunk, stalled>>

\* a turn of the writing loop: any part is taken; a write that takes nothing ends
\* the loop, and the command with success
write_again_restarted ==
    /\ pc = "write"
    /\ \/ p = size /\ Return(0) /\ UNCHANGED <<dst, p>>
       \/ \E n \in 1..(size - p) :
             dst' = dst \o SubSeq(buf, 1, n) /\ p' = p + n /\ UNCHANGED <<rc, pc>>
    /\ UNCHANGED <<size, src, offset, buf, changes, shrunk, stalled>>
write_again ==
    /\ pc = "write"
    /\ \/ p = size /\ Return(0) /\ UNCHANGED <<dst, p, stalled>>
       \/ p < size /\ Return(-1) /\ UNCHANGED <<dst, p, stalled>>
       \/ p < size /\ Return(0) /\ stalled' = TRUE /\ UNCHANGED <<dst, p>>
       \/ \E n \in 1..(size - p) :
             dst' = dst \o SubSeq(buf, p + 1, p + n) /\ p' = p + n /\ UNCHANGED <<rc, pc, stalled>>
    /\ UNCHANGED <<size, src, offset, buf, changes, shrunk>>

\* the other process appends to the file or truncates it
Change ==
    /\ pc # "out" /\ changes < MaxChange /\ changes' = changes + 1
    /\ \/ src' = Append(src, "new") /\ UNCHANGED shrunk
       \/ src # <<>> /\ src' = SubSeq(src, 1, Len(src) - 1) /\ shrunk' = (shrunk \/ pc # "stat")
    /\ UNCHANGED <<pc, rc, size, offset, buf, p, dst, stalled>>

InitSteps == do_copy \/ open_files \/ read_again \/ write_again
Next == InitSteps \/ Change

Spec == Init /\ [][Next]_vars

\* init runs the command to its end
FairSpec == Spec /\ WF_vars(InitSteps)

------------------------------------------------------------------------------
TypeOK ==
    /\ pc \in {"stat", "open", "read", "write", "out"} /\ rc \in {-1, 0, 1}
    /\ size \in Nat /\ offset \in Nat /\ p \in 0..size /\ changes \in 0..MaxChange
    /\ shrunk \in BOOLEAN /\ stalled \in BOOLEAN

\* However the reads and writes are cut up, a copy reported as done is the file as
\* long as it was at stat, cut off only where a write took nothing.  A byte of
\* malloc's is in it exactly in the places do_copy did not reach with its reads,
\* and there are such places only if the file was truncated after stat.  (In both
\* cases do_copy returns 0: it does not compare what it moved with the size.)
CopiesAll ==
    rc = 0 =>
        /\ IF stalled THEN Len(dst) < size ELSE Len(dst) = size
        /\ ~ shrunk => IsPrefix(dst, src)
        /\ \A i \in DOMAIN dst : dst[i] = Garbage <=> i > offset
        /\ offset < size => shrunk

\* The copy comes to its end: every turn of its loops gets it further
Over == pc = "out"
CopyEnds == <>Over
================================================================================
