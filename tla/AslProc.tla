-------------------------------- MODULE AslProc --------------------------------
(***************************************************************************)
(* The kernel side of ASL: the entries of /proc/asl.  The list of checksums *)
(* (and, alike, the permissions) is one record of a seq_file, which the     *)
(* check script copies with reads of any size; the status is a static       *)
(* buffer the scripts write and anyone reads.                               *)
(***************************************************************************)
EXTENDS Naturals, Sequences, FiniteSets, SequencesExt

CONSTANTS
    Lists,       \* the texts that may be compiled in as the list
    Percent,     \* the character that begins a conversion of seq_printf
    Junk,        \* what a conversion without its argument may print
    Reads,       \* the sizes a reader asks for
    Statuses,    \* the texts the scripts write to status
    Others,      \* the texts another process with the rights may write to it
    MaxProcSize, \* MAX_PROC_SIZE
    Nul,
    Beyond       \* what may lie behind proc_data, up to a Nul

VARIABLES
    list,        \* the compiled-in text
    index, buf,  \* the seq_file: the record to start at, text shown and not yet read
    got, end,    \* the reader: what it has, and "" or how its reading ended
    proc_data,   \* the status buffer
    reader,      \* a reader of status: what its reads gave so far
    written,     \* history: the status written last,
    past         \* and all that were written

vars == <<list, index, buf, got, end, proc_data, reader, written, past>>

Init ==
    /\ list \in Lists
    /\ index = 0 /\ buf = <<>> /\ got = <<>> /\ end = ""
    /\ proc_data = [i \in 1..MaxProcSize |-> Nul] /\ reader = <<>>
    /\ written = <<>> /\ past = {}

Least(a, b) == IF a < b THEN a ELSE b

\* my_seq_start: a sequence begins at 0 only; my_seq_next: there is one record
my_seq_start_again(pos) == TRUE
my_seq_start(pos) == pos = 0
my_seq_next_two(pos) == pos + 2
my_seq_next(pos) == pos + 1

\* the text up to its first Percent
Plain(text) ==
    LET special == {i \in DOMAIN text : text[i] = Percent}
    IN SubSeq(text, 1, IF special = {} THEN Len(text) ELSE (CHOOSE i \in special : \A j \in special : i <= j) - 1)

\* list_seq_show prints the whole text into the buffer of seq_file.  The text is
\* seq_printf's format: a Percent and some of what follows it are a conversion,
\* which prints whatever is in the place of its argument ("%%" is a Percent)
list_seq_show ==
    IF Plain(list) = list THEN {list}
    ELSE {Plain(list) \o j \o SubSeq(list, k, Len(list)) : j \in Junk, k \in (Len(Plain(list)) + 2)..(Len(list) + 1)}

\* seq_read of the kernel: first what is left of the record shown before; then
\* the record at index, in a buffer that is made and then doubled until the text
\* is smaller than it (kmalloc may fail, and then nothing of the record is given)
seq_read(n) ==
    LET left == Len(buf)
        first == Least(left, n)
        begin == IF left > 0 /\ first = left THEN index + 1 ELSE index
        over == left > n \/ n = first
        given == got \o SubSeq(buf, 1, first)
    IN
    /\ end = ""
    /\ \/ /\ over
          /\ got' = given /\ buf' = SubSeq(buf, first + 1, left) /\ index' = begin /\ UNCHANGED end
       \/ /\ ~ over /\ ~ my_seq_start(begin)
          /\ got' = given /\ buf' = <<>> /\ index' = begin
          /\ end' = IF first = 0 THEN "eof" ELSE ""
       \/ /\ ~ over /\ my_seq_start(begin) /\ <<>> \in list_seq_show
          /\ index' = my_seq_next(begin)
          /\ end' = "eof" /\ UNCHANGED <<got, buf>>
       \/ /\ ~ over /\ my_seq_start(begin)
          /\ \E text \in list_seq_show \ {<<>>} :
                LET more == Least(Len(text), n - first) IN
                /\ got' = given \o SubSeq(text, 1, more)
                /\ buf' = SubSeq(text, more + 1, Len(text))
                /\ index' = IF more = Len(text) THEN begin + 1 ELSE begin
          /\ UNCHANGED end
       \/ /\ ~ over /\ my_seq_start(begin)
          /\ got' = given /\ buf' = <<>> /\ index' = begin
          /\ end' = IF first = 0 THEN "enomem" ELSE ""
    /\ UNCHANGED <<list, proc_data, reader, written, past>>

Noted(text) == written' = text /\ past' = past \cup {text}

\* write_proc: what is written replaces the front of the buffer, at most all of it
write_proc_append(text) ==
    LET old == Len(written) IN
    /\ proc_data' = [i \in 1..MaxProcSize |->
                        IF i \in (old + 1)..(old + Len(text)) THEN text[i - old] ELSE proc_data[i]]
    /\ Noted(text)
    /\ UNCHANGED <<list, index, buf, got, end, reader>>
write_proc(text) ==
    LET count == Least(Len(text), MaxProcSize) IN
    /\ proc_data' = [i \in 1..MaxProcSize |-> IF i <= count THEN text[i] ELSE proc_data[i]]
    /\ Noted(text)
    /\ UNCHANGED <<list, index, buf, got, end, reader>>

\* read_proc prints the buffer up to the first Nul, which may lie beyond it
read_proc ==
    LET nul == {i \in 1..MaxProcSize : proc_data[i] = Nul}
    IN IF nul = {} THEN {proc_data \o more : more \in Beyond}
       ELSE {SubSeq(proc_data, 1, (CHOOSE i \in nul : \A j \in nul : i <= j) - 1)}

\* ... and the kernel gives the caller what lies past the place it has reached
read_status(n) ==
    /\ \E text \in read_proc :
          reader' = reader \o SubSeq(text, Len(reader) + 1, Least(Len(reader) + n, Len(text)))
    /\ UNCHANGED <<list, index, buf, got, end, proc_data, written, past>>

reopen_status == reader' = <<>> /\ UNCHANGED <<list, index, buf, got, end, proc_data, written, past>>

Next ==
    \/ \E n \in Reads : seq_read(n) \/ read_status(n)
    \/ \E text \in Statuses \cup Others : write_proc(text)
    \/ reopen_status

Spec == Init /\ [][Next]_vars

------------------------------------------------------------------------------
TypeOK ==
    /\ index \in {0, 1}
    /\ end \in {"", "eof", "enomem"}
    /\ DOMAIN proc_data = 1..MaxProcSize

\* A reader of the list, whatever the sizes of its reads, gets the text from its
\* beginning, every character once; it meets the end after all of it, or an
\* error before any of it.  The copy the check works from is never a part.  When
\* there is a Percent in the text this holds of what is before it: the text is
\* the format of seq_printf, and what follows is as the conversion has it.
WholeList ==
    LET plain == Plain(list) IN
    /\ IsPrefix(got, plain) \/ (plain # list /\ IsPrefix(plain, got))
    /\ end = "eof" => IF plain = list THEN got = list ELSE IsPrefix(plain, got)
    /\ end = "enomem" => got = <<>>

\* The status read back begins with the one written last, as far as the buffer
\* holds it, and is exactly that one when none before it was longer and it leaves
\* room for a Nul.  So after the scripts' writes, which are all of one length,
\* nothing of an older one is left behind it.
StatusIsLast ==
    \A text \in read_proc :
        /\ IsPrefix(SubSeq(written, 1, Least(Len(written), MaxProcSize)), text)
        /\ Len(written) < MaxProcSize /\ (\A t \in past : Len(t) <= Len(written)) => text = written

\* A reader that a write of the scripts overtakes between two of its reads still
\* gets a status the scripts write, or the beginning of one, never parts of two,
\* as long as nobody else has written
NeverMixed == past \subseteq Statuses => \E t \in Statuses : IsPrefix(reader, t)
================================================================================
