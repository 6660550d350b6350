------------------------------ MODULE InitTokens ------------------------------
(***************************************************************************)
(* The tokenizer of the rc files: next_token, which rewrites the text in    *)
(* place as it reads it, and the loop of parse_config that gathers the      *)
(* tokens of a line.  One step looks at one character.  "0" is the end of   *)
(* a string, "q" a double quote and "bs" a backslash.                       *)
(***************************************************************************)
EXTENDS Naturals, Sequences

CONSTANTS
    Chars,      \* the characters of the sources
    Jobs,       \* set of [src, meant]: a source, and the lines it should give or Anything
    Anything,
    MaxArgs     \* INIT_PARSER_MAXARGS

VARIABLES
    job,            \* the source being read
    mem,            \* the buffer
    x, s, text,     \* where next_token reads, where it writes, where the token began
    nexttoken,      \* a newline is owed
    mode,           \* "skip", "comment", "text", "quoted", "escape", "join" or "eof"
    args,           \* where the tokens of the line begin
    lines           \* the lines handed over, each a sequence of tokens

vars == <<job, mem, x, s, text, nexttoken, mode, args, lines>>

\* read_file puts a newline and a zero after what the file has
read_file(src) == src \o <<"nl", "0">>
Source == read_file(job.src)

Init ==
    /\ job \in Jobs
    /\ mem = Source
    /\ x = 1 /\ s = 1 /\ text = 1 /\ nexttoken = FALSE /\ mode = "skip"
    /\ args = <<>> /\ lines = <<>>

\* the string that begins at i
String(i) ==
    LET z == CHOOSE j \in DOMAIN mem : j >= i /\ mem[j] = "0" /\ \A k \in i..(j-1) : mem[k] # "0"
    IN SubSeq(mem, i, z - 1)

\* parse_config on T_NEWLINE and on T_TEXT
newline ==
    /\ lines' = IF args = <<>> THEN lines ELSE Append(lines, [i \in DOMAIN args |-> String(args[i])])
    /\ args' = <<>>
token(i) == args' = IF Len(args) < MaxArgs THEN Append(args, i) ELSE args

Space == {"sp", "tab", "cr"}

------------------------------------------------------------------------------
owed_newline ==
    /\ mode = "skip" /\ nexttoken
    /\ nexttoken' = FALSE
    /\ newline
    /\ UNCHANGED <<job, mem, x, s, text, mode>>

skip ==
    /\ mode = "skip" /\ ~ nexttoken
    /\ \/ /\ mem[x] = "0" /\ mode' = "eof"
          /\ UNCHANGED <<x, s, text, args, lines>>
       \/ /\ mem[x] = "nl" /\ x' = x + 1
          /\ newline /\ UNCHANGED <<s, text, mode>>
       \/ /\ mem[x] \in Space /\ x' = x + 1
          /\ UNCHANGED <<s, text, mode, args, lines>>
       \/ /\ mem[x] = "#" /\ mode' = "comment"
          /\ UNCHANGED <<x, s, text, args, lines>>
       \/ /\ mem[x] \notin Space \cup {"0", "nl", "#"}
          /\ mode' = "text" /\ text' = x /\ s' = x
          /\ UNCHANGED <<x, args, lines>>
    /\ UNCHANGED <<job, mem, nexttoken>>

comment ==
    /\ mode = "comment"
    /\ \/ mem[x] = "0" /\ mode' = "eof" /\ UNCHANGED <<x, args, lines>>
       \/ mem[x] = "nl" /\ x' = x + 1 /\ mode' = "skip" /\ newline
       \/ mem[x] \notin {"0", "nl"} /\ x' = x + 1 /\ UNCHANGED <<mode, args, lines>>
    /\ UNCHANGED <<job, mem, s, text, nexttoken>>

\* textdone: the token ends at s, reading goes on at n
textdone(n) ==
    /\ mem' = [mem EXCEPT ![s] = "0"] /\ x' = n /\ mode' = "skip"
    /\ token(text)
    /\ UNCHANGED s

\* *s++ = c, reading on at n
put(c, n) ==
    /\ mem' = [mem EXCEPT ![s] = c] /\ s' = s + 1 /\ x' = n
    /\ UNCHANGED args

in_text ==
    /\ mode = "text"
    /\ \/ mem[x] = "0" /\ textdone(x) /\ UNCHANGED nexttoken
       \/ mem[x] \in Space /\ textdone(x + 1) /\ UNCHANGED nexttoken
       \/ mem[x] = "nl" /\ textdone(x + 1) /\ nexttoken' = TRUE
       \/ mem[x] = "q" /\ x' = x + 1 /\ mode' = "quoted" /\ UNCHANGED <<mem, s, args, nexttoken>>
       \/ mem[x] = "bs" /\ x' = x + 1 /\ mode' = "escape" /\ UNCHANGED <<mem, s, args, nexttoken>>
       \/ mem[x] \notin Space \cup {"0", "nl", "q", "bs"} /\ put(mem[x], x + 1) /\ UNCHANGED <<mode, nexttoken>>
    /\ UNCHANGED <<job, text, lines>>

\* a quoted part; one that is not ended ends the whole file
quoted_open ==
    /\ mode = "quoted"
    /\ \/ mem[x] = "0" /\ mode' = "eof" /\ UNCHANGED <<mem, x, s, args>>
       \/ mem[x] \in Space \cup {"q"} /\ x' = x + 1 /\ mode' = "text" /\ UNCHANGED <<mem, s, args>>
       \/ mem[x] \notin Space \cup {"0", "q"} /\ put(mem[x], x + 1) /\ UNCHANGED mode
    /\ UNCHANGED <<job, text, nexttoken, lines>>
quoted ==
    /\ mode = "quoted"
    /\ \/ mem[x] = "0" /\ mode' = "eof" /\ UNCHANGED <<mem, x, s, args>>
       \/ mem[x] = "q" /\ x' = x + 1 /\ mode' = "text" /\ UNCHANGED <<mem, s, args>>
       \/ mem[x] \notin {"0", "q"} /\ put(mem[x], x + 1) /\ UNCHANGED mode
    /\ UNCHANGED <<job, text, nexttoken, lines>>

\* after a backslash.  The character of a known escape is not passed over: it is
\* looked at once more as text.
Escapes == {"n", "r", "t", "bs"}
Escaped(c) == CASE c = "n" -> "nl" [] c = "r" -> "cr" [] c = "t" -> "tab" [] c = "bs" -> "bs"
escape_in_place ==
    /\ mode = "escape"
    /\ \/ mem[x] = "0" /\ textdone(x)
       \/ /\ mem[x] \in Escapes /\ mem' = [mem EXCEPT ![x] = Escaped(mem[x])]
          /\ s' = s + 1 /\ mode' = "text" /\ UNCHANGED <<x, args>>
       \/ mem[x] \notin Escapes \cup {"0"} /\ put(mem[x], x + 1) /\ mode' = "text"
    /\ UNCHANGED <<job, text, nexttoken, lines>>
escape ==
    /\ mode = "escape"
    /\ \/ mem[x] = "0" /\ textdone(x)
       \/ mem[x] \in Escapes /\ put(Escaped(mem[x]), x) /\ mode' = "text"
       \/ /\ mem[x] = "cr" /\ mem[x + 1] # "nl"
          /\ x' = x + 1 /\ mode' = "text" /\ UNCHANGED <<mem, s, args>>
       \/ /\ mem[x] = "nl" \/ (mem[x] = "cr" /\ mem[x + 1] = "nl")
          /\ x' = x + 1 /\ mode' = "join" /\ UNCHANGED <<mem, s, args>>
       \/ mem[x] \notin Escapes \cup {"0", "cr", "nl"} /\ put(mem[x], x + 1) /\ mode' = "text"
    /\ UNCHANGED <<job, text, nexttoken, lines>>

\* white space at the beginning of a continuation line
join ==
    /\ mode = "join"
    /\ \/ mem[x] \in {"sp", "tab"} /\ x' = x + 1 /\ UNCHANGED mode
       \/ mem[x] \notin {"sp", "tab"} /\ mode' = "text" /\ UNCHANGED x
    /\ UNCHANGED <<job, mem, s, text, nexttoken, args, lines>>

\* the sources are texts, which the proofs ask of the constants
SourcesAreTexts ==
    /\ \A j \in Jobs : j.src \in Seq(Chars)
    /\ Space \cup Escapes \cup {"0", "nl"} \subseteq Chars

Next == owed_newline \/ skip \/ comment \/ in_text \/ quoted \/ escape \/ join

Spec == Init /\ [][Next]_vars
FairSpec == Spec /\ WF_vars(Next)

------------------------------------------------------------------------------
Reading == {"text", "quoted", "escape", "join"}
TypeOK ==
    /\ mem \in [1..Len(Source) -> Chars]
    /\ x \in 1..Len(Source) /\ s \in 1..Len(Source) /\ text \in 1..Len(Source)
    /\ nexttoken \in BOOLEAN
    /\ mode \in Reading \cup {"skip", "comment", "eof"}

\* Rewriting in place never runs ahead of reading: what has not been read is as
\* it was in the file, and the place to write is not past the place to read
UnreadIntact ==
    /\ \A i \in x..Len(Source) : mem[i] = Source[i]
    /\ mode \in Reading => s <= x
    /\ mode \in {"quoted", "escape", "join"} => s < x

\* The lines handed to the section parsers are the ones the file was written to
\* mean: tokens are split at white space, comments dropped, a quoted token kept
\* whole, also when a later token of the line was rewritten after it, folded lines
\* joined, and a blank after a backslash is part of the token.  (Of the escapes of
\* C, the letter stays in the token behind what it stands for; and a line is not
\* folded where it ends with a carriage return and a newline.)
ReadAsMeant == mode = "eof" /\ job.meant # Anything => lines = job.meant

\* Every file comes to its end: no character is looked at for ever
AtEof == mode = "eof"
TokensEnd == <>AtEof
================================================================================
