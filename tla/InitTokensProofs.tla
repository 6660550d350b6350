--------------------------- MODULE InitTokensProofs ---------------------------
(***************************************************************************)
(* The proof that next_token may rewrite a file in place, for every source  *)
(* and of any length.                                                       *)
(*                                                                          *)
(* The argument: what is written goes to s, which is at most x, and a       *)
(* character is kept, or one less than was read, so s stays behind; the     *)
(* only steps that write without reading follow a backslash, which was read *)
(* and not kept.  The zero read_file puts at the end is therefore never     *)
(* overwritten before it is met, which keeps x within the buffer.           *)
(***************************************************************************)
EXTENDS InitTokens, TLAPS

\* the source and the buffer are as read_file made them
Buffer ==
    /\ Source \in Seq(Chars) /\ Len(Source) \in Nat /\ Len(Source) >= 2
    /\ Source[Len(Source)] = "0"

IInv == Buffer /\ TypeOK /\ UnreadIntact

\* read_file: the buffer ends with a zero
LEMMA ReadFileEnds ==
    ASSUME SourcesAreTexts, NEW src \in Seq(Chars)
    PROVE  /\ read_file(src) \in Seq(Chars) /\ Len(read_file(src)) \in Nat
           /\ Len(read_file(src)) >= 2
           /\ read_file(src)[Len(read_file(src))] = "0"
<1>1. <<"nl", "0">> \in Seq(Chars) /\ Len(<<"nl", "0">>) = 2 /\ <<"nl", "0">>[2] = "0"
    BY DEF SourcesAreTexts
<1> DEFINE t == <<"nl", "0">>
<1>2. /\ src \o t \in Seq(Chars) /\ Len(src \o t) = Len(src) + 2
      /\ (src \o t)[Len(src) + 2] = t[2] /\ Len(src) \in Nat
    BY <1>1
<1> QED BY <1>1, <1>2 DEF read_file

\* the reading starts in a state the invariant allows
LEMMA InitInv == ASSUME SourcesAreTexts PROVE Init => IInv
<1> SUFFICES ASSUME Init PROVE IInv
    OBVIOUS
<1>1. Buffer
    BY ReadFileEnds DEF Init, Buffer, Source, SourcesAreTexts
<1>2. Source \in [1..Len(Source) -> Chars] /\ 1 \in 1..Len(Source)
    BY <1>1 DEF Buffer
<1> QED BY <1>1, <1>2 DEF Init, IInv, TypeOK, UnreadIntact, Reading

\* a character that is not the final zero is not the last one
LEMMA NotLast ==
    ASSUME IInv PROVE /\ mem[x] # "0" => x + 1 \in 1..Len(Source)
                      /\ mem[x] \in Chars
BY DEF IInv, Buffer, TypeOK, UnreadIntact

\* *s++ = c after a character was read from x: s stays behind
LEMMA PutBehind ==
    ASSUME IInv, NEW c \in Chars, NEW n \in {x, x + 1}, put(c, n), mode \in Reading,
           n \in 1..Len(Source), s < n, UNCHANGED job
    PROVE  /\ mem' \in [1..Len(Source) -> Chars] /\ s' \in 1..Len(Source) /\ x' = n /\ s' <= x'
           /\ \A i \in x'..Len(Source) : mem'[i] = Source[i]
BY DEF IInv, Buffer, TypeOK, UnreadIntact, put

\* *s = 0 at the end of a token: what is not read stays as it is
LEMMA TextDoneBehind ==
    ASSUME SourcesAreTexts, IInv, NEW n \in {x, x + 1}, textdone(n), mode \in Reading,
           n \in 1..Len(Source), s < n \/ mem[x] = "0", UNCHANGED job
    PROVE  /\ mem' \in [1..Len(Source) -> Chars] /\ x' = n
           /\ \A i \in x'..Len(Source) : mem'[i] = Source[i]
BY DEF IInv, Buffer, TypeOK, UnreadIntact, textdone, SourcesAreTexts

\* every step of the tokenizer keeps the invariant
LEMMA NextInv == ASSUME SourcesAreTexts, IInv, [Next]_vars PROVE IInv'
<1> USE DEF IInv, TypeOK, UnreadIntact
<1>0. UNCHANGED job /\ Source' = Source /\ Len(Source)' = Len(Source) /\ Buffer'
    BY DEF Next, vars, owed_newline, skip, comment, in_text, quoted, escape, join, Source, Buffer
<1>1. CASE UNCHANGED vars
    BY <1>0, <1>1 DEF vars, Reading
<1>2. CASE owed_newline
    BY <1>0, <1>2 DEF owed_newline, Reading
<1>3. CASE skip
    BY <1>0, <1>3, NotLast DEF skip, newline, Reading, Space
<1>4. CASE comment
    BY <1>0, <1>4, NotLast DEF comment, Reading
<1>5. CASE in_text
  <2> UNCHANGED <<job, text, lines>> /\ mode = "text" /\ mode \in Reading /\ s <= x
    BY <1>0, <1>5 DEF in_text, Reading
  <2>1. CASE mem[x] = "0" /\ textdone(x) /\ UNCHANGED nexttoken
    BY <1>0, <2>1, TextDoneBehind, NotLast DEF textdone, Reading
  <2>2. CASE /\ mem[x] \in Space \cup {"nl"} /\ textdone(x + 1) /\ nexttoken' \in BOOLEAN
    BY <1>0, <2>2, TextDoneBehind, NotLast DEF textdone, Reading, Space
  <2>3. CASE mem[x] \in {"q", "bs"} /\ x' = x + 1 /\ mode' \in {"quoted", "escape"}
             /\ UNCHANGED <<mem, s, args, nexttoken>>
    BY <1>0, <2>3, NotLast DEF Reading
  <2>4. CASE mem[x] \notin Space \cup {"0", "nl", "q", "bs"} /\ put(mem[x], x + 1)
             /\ UNCHANGED <<mode, nexttoken>>
    BY <1>0, <2>4, PutBehind, NotLast DEF Reading
  <2> QED BY <1>0, <1>5, <2>1, <2>2, <2>3, <2>4 DEF in_text
<1>6. CASE quoted
  <2> UNCHANGED <<job, text, nexttoken, lines>> /\ mode = "quoted" /\ mode \in Reading /\ s < x
    BY <1>0, <1>6 DEF quoted, Reading
  <2>1. CASE mem[x] = "0" /\ mode' = "eof" /\ UNCHANGED <<mem, x, s, args>>
    BY <1>0, <2>1 DEF Reading
  <2>2. CASE mem[x] = "q" /\ x' = x + 1 /\ mode' = "text" /\ UNCHANGED <<mem, s, args>>
    BY <1>0, <2>2, NotLast DEF Reading
  <2>3. CASE mem[x] \notin {"0", "q"} /\ put(mem[x], x + 1) /\ UNCHANGED mode
    BY <1>0, <2>3, NotLast DEF Reading, put
  <2> QED BY <1>0, <1>6, <2>1, <2>2, <2>3 DEF quoted
<1>7. CASE escape
  <2> UNCHANGED <<job, text, nexttoken, lines>> /\ mode = "escape" /\ mode \in Reading /\ s < x
    BY <1>0, <1>7 DEF escape, Reading
  <2>1. CASE mem[x] = "0" /\ textdone(x)
    BY <1>0, <2>1, TextDoneBehind DEF textdone, Reading
  <2>2. CASE mem[x] \in Escapes /\ put(Escaped(mem[x]), x) /\ mode' = "text"
    <3>1. Escaped(mem[x]) \in Chars
      BY <1>0, <2>2 DEF Escapes, Escaped, SourcesAreTexts, Space
    <3> QED BY <1>0, <2>2, <3>1, PutBehind DEF Reading
  <2>3. CASE mem[x] \in {"cr", "nl"} /\ x' = x + 1 /\ mode' \in {"text", "join"}
             /\ UNCHANGED <<mem, s, args>>
    BY <1>0, <2>3, NotLast DEF Reading
  <2>4. CASE mem[x] \notin Escapes \cup {"0", "cr", "nl"} /\ put(mem[x], x + 1) /\ mode' = "text"
    BY <1>0, <2>4, PutBehind, NotLast DEF Reading
  <2> QED BY <1>0, <1>7, <2>1, <2>2, <2>3, <2>4 DEF escape
<1>8. CASE join
    BY <1>0, <1>8, NotLast DEF join, Reading
<1> QED BY <1>1, <1>2, <1>3, <1>4, <1>5, <1>6, <1>7, <1>8 DEF Next

\* next_token never runs over what it has still to read, nor past the end of the
\* buffer, whatever the file holds
THEOREM RewritingIsSafe == ASSUME SourcesAreTexts PROVE Spec => [](TypeOK /\ UnreadIntact)
<1>1. Init => IInv
    BY InitInv
<1>2. IInv /\ [Next]_vars => IInv'
    BY NextInv
<1>3. IInv => TypeOK /\ UnreadIntact
    BY DEF IInv
<1> QED BY <1>1, <1>2, <1>3, PTL DEF Spec
================================================================================
