------------------------------- MODULE BootChart -------------------------------
(***************************************************************************)
(* Boot charting: how many samples are taken, and the buffered log files    *)
(* they go to.  What is logged to a file is numbered, so that the log is    *)
(* right when its file has 1, 2, 3, ... in this order.                      *)
(***************************************************************************)
EXTENDS Integers, Sequences, FiniteSets, SequencesExt

CONSTANTS
    Order,       \* log_stat, log_disks and log_procs, as bootchart_step takes them
    Starts,      \* the start file: its digits, or nothing
    Options,     \* androidboot.bootchart=, in seconds; 0 when it is not there
    MaxTime,     \* BOOTCHART_MAX_TIME_SEC
    Polling,     \* BOOTCHART_POLLING_MS, as a part of a thousand
    Lengths,     \* how much one call logs
    BufSize      \* FILE_BUFF_SIZE

VARIABLES
    phase,       \* "init", "loop", "step", "finish" or "over"
    asked,       \* [start, option]: the start file and the kernel's option
    count,       \* bootchart_count
    taken,       \* history: samples taken
    rest,        \* logs the step at work has still to do
    src, to,     \* what file_buff_write has still to copy, and where to
    buf, file,   \* data of each log, and its file
    logged, cut  \* history: how much has been logged to each; logs with a write that was cut short

Logs == ToSet(Order)

vars == <<phase, asked, count, taken, rest, src, to, buf, file, logged, cut>>

Numbers(a, b) == [i \in 1..(b - a) |-> a + i]

Init ==
    /\ phase = "init" /\ asked \in [start : Starts, option : Options] /\ count = 0 /\ taken = 0
    /\ rest = <<>> /\ src = <<>> /\ to = Order[1]
    /\ buf = [l \in Logs |-> <<>>] /\ file = [l \in Logs |-> <<>>]
    /\ logged = [l \in Logs |-> 0] /\ cut = {}

atoi(digits) == FoldLeft(LAMBDA n, d : 10 * n + d, 0, digits)

\* proc_read into buff[4]: three characters of the start file
StartChars == 3
proc_read(text) == SubSeq(text, 1, IF Len(text) < StartChars THEN Len(text) ELSE StartChars)

\* bootchart_init: the option is looked at only without a start file; at most
\* MaxTime, rounded up to whole samples; 0 is no charting
samples(timeout) ==
    LET t == IF timeout > MaxTime THEN MaxTime ELSE timeout
    IN (t * 1000 + Polling - 1) \div Polling

bootchart_init ==
    /\ phase = "init"
    /\ LET timeout == IF asked.start # <<>> THEN atoi(proc_read(asked.start)) ELSE asked.option
       IN count' = IF timeout = 0 THEN 0 ELSE samples(timeout)
    /\ phase' = IF count' > 0 THEN "loop" ELSE "over"
    /\ UNCHANGED <<asked, taken, rest, src, to, buf, file, logged, cut>>

\* a turn of main's loop: bootchart_step logs to each file
bootchart_step ==
    /\ phase = "loop"
    /\ phase' = "step" /\ rest' = Order /\ taken' = taken + 1
    /\ UNCHANGED <<asked, count, src, to, buf, file, logged, cut>>

\* do_log_file, do_log_procs: some text is handed to file_buff_write
do_log ==
    /\ phase = "step" /\ src = <<>> /\ rest # <<>>
    /\ to' = Head(rest) /\ rest' = Tail(rest)
    /\ \E n \in Lengths : /\ src' = Numbers(logged[to'], logged[to'] + n)
                          /\ logged' = [logged EXCEPT ![to'] = @ + n]
    /\ UNCHANGED <<phase, asked, count, taken, buf, file, cut>>

\* unix_write: the write may take all, a part or (when it or the open failed)
\* nothing of the buffer; nobody looks at its result, and the buffer is empty then
unix_write(l, n, data) == file' = [file EXCEPT ![l] = @ \o SubSeq(data, 1, n)]

\* one turn of the loop of file_buff_write: as much as fits; a full buffer is
\* written out
file_buff_write_again ==
    /\ src # <<>>
    /\ LET room == BufSize - Len(buf[to])
           avail == IF room > Len(src) THEN Len(src) ELSE room
           filled == buf[to] \o SubSeq(src, 1, avail)
       IN /\ src' = SubSeq(src, 1, Len(src) - avail)
          /\ IF Len(filled) = BufSize
             THEN unix_write(to, BufSize, filled) /\ buf' = [buf EXCEPT ![to] = <<>>]
             ELSE buf' = [buf EXCEPT ![to] = filled] /\ UNCHANGED file
    /\ UNCHANGED <<phase, asked, count, taken, rest, to, logged, cut>>
file_buff_write ==
    /\ src # <<>>
    /\ LET room == BufSize - Len(buf[to])
           avail == IF room > Len(src) THEN Len(src) ELSE room
           filled == buf[to] \o SubSeq(src, 1, avail)
       IN /\ src' = SubSeq(src, avail + 1, Len(src))
          /\ IF Len(filled) = BufSize
             THEN \E n \in 0..BufSize :
                     /\ unix_write(to, n, filled) /\ buf' = [buf EXCEPT ![to] = <<>>]
                     /\ cut' = IF n < BufSize THEN cut \cup {to} ELSE cut
             ELSE buf' = [buf EXCEPT ![to] = filled] /\ UNCHANGED <<file, cut>>
    /\ UNCHANGED <<phase, asked, count, taken, rest, to, logged>>

\* the end of the step: the stop file may ask for the end; otherwise main counts
bootchart_counted ==
    /\ phase = "step" /\ rest = <<>> /\ src = <<>>
    /\ \E stop \in BOOLEAN :
          /\ count' = IF stop THEN count ELSE count - 1
          /\ phase' = IF stop \/ count' = 0 THEN "finish" ELSE "loop"
    /\ UNCHANGED <<asked, taken, rest, src, to, buf, file, logged, cut>>

\* bootchart_finish: file_buff_done writes out what is left in the buffers
bootchart_finish ==
    /\ phase = "finish"
    /\ \E n \in [Logs -> 0..BufSize] :
          /\ \A l \in Logs : n[l] <= Len(buf[l])
          /\ file' = [l \in Logs |-> file[l] \o SubSeq(buf[l], 1, n[l])]
          /\ cut' = cut \cup {l \in Logs : n[l] < Len(buf[l])}
    /\ buf' = [l \in Logs |-> <<>>]
    /\ count' = 0 /\ phase' = "over"
    /\ UNCHANGED <<asked, taken, rest, src, to, logged>>

Next ==
    \/ bootchart_init \/ bootchart_step \/ do_log
    \/ file_buff_write \/ bootchart_counted \/ bootchart_finish

Spec == Init /\ [][Next]_vars

------------------------------------------------------------------------------
TypeOK ==
    /\ phase \in {"init", "loop", "step", "finish", "over"}
    /\ count \in Int /\ taken \in Nat /\ rest \in Seq(Logs) /\ to \in Logs
    /\ \A l \in Logs : buf[l] \in Seq(Nat) /\ file[l] \in Seq(Nat) /\ logged[l] \in Nat
    /\ src \in Seq(Nat) /\ cut \subseteq Logs

InOrder(s) == \A i \in 1..(Len(s) - 1) : s[i] < s[i + 1]

\* Nothing logged is lost, doubled or out of place: a log's file, its buffer and
\* what is being written to it are all that was logged, in order.  A log of which
\* a write was cut short has a gap there and nothing else wrong.  The buffer
\* always has room when file_buff_write comes back.
NothingLost ==
    \A l \in Logs :
        LET all == file[l] \o buf[l] \o (IF l = to THEN src ELSE <<>>) IN
        /\ IF l \in cut THEN InOrder(all) /\ ToSet(all) \subseteq 1..logged[l]
                       ELSE all = Numbers(0, logged[l])
        /\ Len(buf[l]) < BufSize

\* When charting is over, all of it is in the files of which no write was cut short
AllInFiles == phase = "over" => \A l \in Logs \ cut : file[l] = Numbers(0, logged[l])

\* As many samples are taken as cover the time asked for or allowed, and no more:
\* bootchart_init rounds up, main counts down.  A start file of more than three
\* digits gives a shorter chart than README.BOOTCHART has it, never a longer one,
\* for only three are read.  (While actions are queued the loop does not wait
\* between samples, so that this is no statement about time.)
LastsAsAsked ==
    LET wanted == IF asked.start # <<>> THEN atoi(asked.start) ELSE asked.option
        time == IF wanted > MaxTime THEN MaxTime ELSE wanted
    IN /\ taken > 0 => (taken - 1) * Polling < time * 1000
       /\ phase = "finish" /\ count = 0 /\ Len(asked.start) <= StartChars
             => taken * Polling >= time * 1000
================================================================================
