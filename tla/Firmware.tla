------------------------------- MODULE Firmware -------------------------------
(***************************************************************************)
(* A firmware request: the child ueventd forks looks for the file in two    *)
(* directories, waits for file systems as long as init is booting, and      *)
(* copies the file to the kernel page by page.  init, which mounts the file *)
(* systems and ends the boot, runs beside it, and so does whoever writes    *)
(* the file: the recovery script fills files of /system while ueventd works.*)
(***************************************************************************)
EXTENDS Integers, Sequences, FiniteSets

CONSTANTS
    Holders,      \* the sets of directories that may hold the file
    Sizes,        \* the sizes the file may have, in parts
    ShortWrites   \* the kernel may take a part of what it is given

VARIABLES
    mounted, booting,  \* init: the directories that can be read; /dev/.booting
    holders, size,     \* the directories that hold the file; its size now
    sound,             \* no read, write, fstat, or opening of the kernel's files fails
    pc, flag,          \* the child, and its local booting
    st, tocopy, buf,   \* load_firmware: st_size, len_to_copy, what is left of a page to write
    loading, data,     \* kernel: the transfer's state, the pages it was given
    inTime, low        \* history: the file could be read when the boot ended; its least size since fstat

file == <<holders, size, low>>
vars == <<mounted, booting, file, sound, pc, flag, st, tocopy, buf, loading, data, inTime>>

Dirs == {"/etc/firmware", "/vendor/firmware"}
Available == holders \cap mounted # {}
Page == 2                             \* a page is two parts, so that a file can end inside one
Parts(a, b) == [i \in 1..(b - a) |-> a + i]   \* the parts of the file from a to b, numbered
Least(a, b) == IF a < b THEN a ELSE b

Init ==
    /\ mounted \in SUBSET Dirs /\ booting \in BOOLEAN
    /\ holders \in Holders /\ size \in Sizes /\ sound \in BOOLEAN
    /\ pc = "start" /\ flag = FALSE /\ st = 0 /\ tocopy = 0 /\ buf = <<>>
    /\ loading = "" /\ data = <<>> /\ low = size
    /\ inTime = (~ booting /\ holders \cap mounted # {})

\* init mounts file systems, and its check_startup_action removes /dev/.booting
Mount(d) ==
    /\ d \notin mounted
    /\ mounted' = mounted \cup {d}
    /\ UNCHANGED <<booting, file, sound, pc, flag, st, tocopy, buf, loading, data, inTime>>

check_startup_action ==
    /\ booting
    /\ booting' = FALSE /\ inTime' = Available
    /\ UNCHANGED <<mounted, file, sound, pc, flag, st, tocopy, buf, loading, data>>

\* another process writes the file (it is not taken away): longer or shorter
Resize(n) ==
    /\ size' = n
    /\ low' = IF pc = "copy" THEN Least(low, n) ELSE n
    /\ UNCHANGED <<mounted, booting, holders, sound, pc, flag, st, tocopy, buf, loading, data, inTime>>

------------------------------------------------------------------------------
\* process_firmware_event: booting is read first; without the kernel's files
\* (or the memory for their names) there is nothing to do
process_firmware_event ==
    /\ pc = "start"
    /\ flag' = booting
    /\ \/ pc' = "open"
       \/ ~ sound /\ pc' = "exit"
    /\ UNCHANGED <<mounted, booting, file, sound, st, tocopy, buf, loading, data, inTime>>

\* the two opens: one is enough, and then load_firmware begins, unless the size
\* cannot be had.  After a failure it waits only if the boot was on before it tried.
try_loading ==
    /\ pc = "open"
    /\ \/ /\ Available
          /\ pc' = "copy" /\ st' = size /\ tocopy' = size /\ low' = size /\ loading' = "1"
       \/ /\ Available /\ ~ sound
          /\ pc' = "exit" /\ UNCHANGED <<st, tocopy, low, loading>>
       \/ /\ ~ Available /\ flag
          /\ pc' = "sleep" /\ UNCHANGED <<st, tocopy, low, loading>>
       \/ /\ ~ Available /\ ~ flag
          /\ pc' = "exit" /\ loading' = "-1" /\ UNCHANGED <<st, tocopy, low>>
    /\ UNCHANGED <<mounted, booting, holders, size, sound, flag, buf, data, inTime>>

try_loading_again_late ==
    /\ pc = "sleep"
    /\ flag' = booting
    /\ IF booting THEN pc' = "open" /\ UNCHANGED loading ELSE pc' = "exit" /\ loading' = "-1"
    /\ UNCHANGED <<mounted, booting, file, sound, st, tocopy, buf, data, inTime>>
try_loading_again_stale ==
    /\ pc = "sleep"
    /\ pc' = "open"
    /\ UNCHANGED <<mounted, booting, file, sound, flag, st, tocopy, buf, loading, data, inTime>>
try_loading_again ==
    /\ pc = "sleep"
    /\ flag' = booting
    /\ pc' = "open"
    /\ UNCHANGED <<mounted, booting, file, sound, st, tocopy, buf, loading, data, inTime>>

\* load_firmware: read a page, or what there is of one after the st - tocopy parts
\* read before, or finish; nothing there to be read is a successful end, too
read_page ==
    /\ pc = "copy" /\ buf = <<>>
    /\ LET pos == st - tocopy
           nr == IF pos < size THEN Least(Page, size - pos) ELSE 0
       IN \/ /\ tocopy > 0 /\ nr > 0
             /\ buf' = Parts(pos, pos + nr) /\ tocopy' = tocopy - nr /\ UNCHANGED <<pc, loading>>
          \/ /\ tocopy <= 0 \/ nr = 0
             /\ pc' = "exit" /\ loading' = "0" /\ UNCHANGED <<buf, tocopy>>
          \/ /\ ~ sound /\ tocopy > 0
             /\ pc' = "exit" /\ loading' = "-1" /\ UNCHANGED <<buf, tocopy>>
    /\ UNCHANGED <<mounted, booting, file, sound, flag, st, data, inTime>>

\* ... and write it: each write starts at the beginning of the page again, for
\* the length that is left
write_page ==
    /\ pc = "copy" /\ buf # <<>>
    /\ \/ /\ \E nw \in IF ShortWrites THEN 1..Len(buf) ELSE {Len(buf)} :
                data' = data \o SubSeq(buf, 1, nw) /\ buf' = SubSeq(buf, 1, Len(buf) - nw)
          /\ UNCHANGED <<pc, loading>>
       \/ ~ sound /\ pc' = "exit" /\ loading' = "-1" /\ UNCHANGED <<buf, data>>
    /\ UNCHANGED <<mounted, booting, file, sound, flag, st, tocopy, inTime>>

child == process_firmware_event \/ try_loading \/ try_loading_again \/ read_page \/ write_page
Next ==
    \/ child \/ check_startup_action
    \/ \E d \in Dirs : Mount(d)
    \/ \E n \in Sizes \ {size} : pc # "exit" /\ Resize(n)

Spec == Init /\ [][Next]_vars
\* the child is never stopped, and the boot ends
FairSpec == Spec /\ WF_vars(child) /\ WF_vars(check_startup_action)

------------------------------------------------------------------------------
TypeOK ==
    /\ mounted \subseteq Dirs /\ holders \subseteq Dirs
    /\ pc \in {"start", "open", "sleep", "copy", "exit"}
    /\ loading \in {"", "1", "0", "-1"}
    /\ size \in Sizes /\ st \in Sizes /\ low \in Sizes /\ tocopy \in (1 - Page)..st

\* The kernel is told that there is no such firmware only if the file could not
\* be read when the boot ended: the last try comes after the last look at
\* /dev/.booting, so a file system mounted while the child slept is not missed
NoPrematureAbort == sound /\ loading = "-1" => ~ inTime

\* A transfer that is reported complete gave the kernel the file from its
\* beginning, in order, as far as it was there all the time and fstat had seen
\* it, and less than a page of what was added later.  (So a file that is
\* shortened after fstat is reported as complete when it is not, and so is one
\* that is still being filled at fstat: load_firmware cannot tell.)
CompleteTransfer ==
    loading = "0" =>
        /\ data = Parts(0, Len(data))
        /\ Least(st, low) <= Len(data) /\ Len(data) < st + Page

\* Every request is answered: the transfer ends or is aborted, the kernel does
\* not wait for ever
Answered == sound => loading \in {"0", "-1"}
RequestEnds == <>Answered
================================================================================
