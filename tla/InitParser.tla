------------------------------ MODULE InitParser ------------------------------
(***************************************************************************)
(* The section parser of the rc files: services, actions and imports, line  *)
(* by line, and the files an import brings in.  A line is a record: its     *)
(* keyword's kind and what matters of its arguments.                        *)
(*   [kw |-> "service", name, ok], [kw |-> "on", name, ok],                 *)
(*   [kw |-> "import", file, ok], [kw |-> "option", name],                  *)
(*   [kw |-> "command", name], [kw |-> "bad"]                               *)
(* ok is FALSE when the number of arguments, the name, or the expansion of  *)
(* a property is wrong; a bad line has an unknown keyword or too few        *)
(* arguments.                                                               *)
(***************************************************************************)
EXTENDS Naturals, Sequences, FiniteSets, SequencesExt

CONSTANTS
    Trees,     \* set of functions from file names to sequences of lines
    Root       \* the file init reads, /init.rc

VARIABLES
    files,     \* what is on the ramdisk
    stack,     \* the calls of parse_config at work, the innermost last
    services,  \* service_list: each [name, options, ioprio]
    actions    \* action_list: each [name, commands]

vars == <<files, stack, services, actions>>

NoSection == [in |-> "none", at |-> 0]
Frame(f) == [file |-> f, pos |-> 1, section |-> NoSection, imports |-> <<>>]

Init ==
    /\ files \in Trees
    /\ stack = <<Frame(Root)>>
    /\ services = <<>> /\ actions = <<>>

Top == Last(stack)
Line == files[Top.file][Top.pos]
AtEnd == Top.pos > Len(files[Top.file])

\* the innermost call goes on: with the next line, in the section given
Goes(section, imports) ==
    stack' = [stack EXCEPT ![Len(stack)] =
                 [@ EXCEPT !.pos = @ + 1, !.section = section, !.imports = imports]]

------------------------------------------------------------------------------
service_find_by_name(n) == \E i \in DOMAIN services : services[i].name = n

parse_service ==
    /\ Line.kw = "service"
    /\ IF Line.ok /\ ~ service_find_by_name(Line.name)
       THEN /\ services' = Append(services, [name |-> Line.name, options |-> <<>>, ioprio |-> FALSE])
            /\ Goes([in |-> "service", at |-> Len(services) + 1], Top.imports)
       ELSE Goes(NoSection, Top.imports) /\ UNCHANGED services
    /\ UNCHANGED actions

parse_action ==
    /\ Line.kw = "on"
    /\ IF Line.ok
       THEN /\ actions' = Append(actions, [name |-> Line.name, commands |-> <<>>])
            /\ Goes([in |-> "action", at |-> Len(actions) + 1], Top.imports)
       ELSE Goes(NoSection, Top.imports) /\ UNCHANGED actions
    /\ UNCHANGED services

parse_import ==
    /\ Line.kw = "import"
    /\ Goes(NoSection, IF Line.ok THEN Append(Top.imports, Line.file) ELSE Top.imports)
    /\ UNCHANGED <<services, actions>>

IsIoprio(line) == line.kw = "option" /\ line.name = "ioprio"

\* parse_line_service: every line, also a bad one, forgets the ioprio option
parse_line_service ==
    /\ Line.kw \notin {"service", "on", "import"} /\ Top.section.in = "service"
    /\ services' = [services EXCEPT ![Top.section.at] =
          [@ EXCEPT !.ioprio = IsIoprio(Line),
                    !.options = IF Line.kw = "option" /\ Line.name # "ioprio" THEN Append(@, Line.name) ELSE @]]
    /\ Goes(Top.section, Top.imports)
    /\ UNCHANGED actions

parse_line_action ==
    /\ Line.kw \notin {"service", "on", "import"} /\ Top.section.in = "action"
    /\ actions' = [actions EXCEPT ![Top.section.at].commands =
                      IF Line.kw = "command" THEN Append(@, Line.name) ELSE @]
    /\ Goes(Top.section, Top.imports)
    /\ UNCHANGED services

parse_line_no_op ==
    /\ Line.kw \notin {"service", "on", "import"} /\ Top.section.in = "none"
    /\ Goes(Top.section, Top.imports)
    /\ UNCHANGED <<services, actions>>

parse_config ==
    /\ stack # <<>> /\ ~ AtEnd
    /\ \/ parse_service \/ parse_action \/ parse_import
       \/ parse_line_service \/ parse_line_action \/ parse_line_no_op
    /\ UNCHANGED files

\* parser_done: the imports of the file, now that all of it has been read; one
\* that cannot be read is skipped
init_parse_config_file ==
    /\ stack # <<>> /\ AtEnd /\ Top.imports # <<>>
    /\ LET f == Head(Top.imports)
           rest == [stack EXCEPT ![Len(stack)].imports = Tail(@)]
       IN stack' = IF f \in DOMAIN files THEN Append(rest, Frame(f)) ELSE rest
    /\ UNCHANGED <<files, services, actions>>

parser_done ==
    /\ stack # <<>> /\ AtEnd /\ Top.imports = <<>>
    /\ stack' = Front(stack)
    /\ UNCHANGED <<files, services, actions>>

Next == parse_config \/ init_parse_config_file \/ parser_done

Spec == Init /\ [][Next]_vars
FairSpec == Spec /\ WF_vars(Next)

------------------------------------------------------------------------------
\* What the files say, without reading them line by line: the sections of a file
\* in their order, then those of the files it imports, one import after another
Headers(f) == SelectSeq([i \in DOMAIN files[f] |-> i],
                        LAMBDA i : files[f][i].kw \in {"service", "on", "import"})
Body(f, i) ==
    LET ends == {j \in (i+1)..Len(files[f]) : files[f][j].kw \in {"service", "on", "import"}}
                \cup {Len(files[f]) + 1}
    IN SubSeq(files[f], i + 1, (CHOOSE j \in ends : \A k \in ends : j <= k) - 1)
RECURSIVE Sections(_)
Sections(f) ==
    IF f \notin DOMAIN files THEN <<>> ELSE
    LET mine == SelectSeq(Headers(f), LAMBDA i : files[f][i].kw # "import" /\ files[f][i].ok)
        imported == SelectSeq(Headers(f), LAMBDA i : files[f][i].kw = "import" /\ files[f][i].ok)
    IN [i \in DOMAIN mine |-> [head |-> files[f][mine[i]], body |-> Body(f, mine[i])]]
       \o FlattenSeq([i \in DOMAIN imported |-> Sections(files[f][imported[i]].file)])

Names(body, kind) == LET l == SelectSeq(body, LAMBDA b : b.kw = kind) IN [i \in DOMAIN l |-> l[i].name]
ServicesMeant ==
    LET all == SelectSeq(Sections(Root), LAMBDA x : x.head.kw = "service")
        first == SelectSeq([i \in DOMAIN all |-> i],
                           LAMBDA i : \A j \in 1..(i-1) : all[j].head.name # all[i].head.name)
    IN [k \in DOMAIN first |->
          LET x == all[first[k]] IN
          [name |-> x.head.name,
           options |-> SelectSeq(Names(x.body, "option"), LAMBDA o : o # "ioprio"),
           ioprio |-> \E i \in DOMAIN x.body : IsIoprio(x.body[i]),
           endsWithIt |-> x.body # <<>> /\ IsIoprio(Last(x.body))]]
ActionsMeant ==
    LET all == SelectSeq(Sections(Root), LAMBDA x : x.head.kw = "on")
    IN [k \in DOMAIN all |-> [name |-> all[k].head.name, commands |-> Names(all[k].body, "command")]]

TypeOK ==
    /\ \A i \in DOMAIN stack : stack[i].file \in DOMAIN files /\ stack[i].pos \in 1..(Len(files[stack[i].file]) + 1)
    /\ \A i \in DOMAIN stack : stack[i].section.in \in {"none", "service", "action"}


\* Reading the files comes to an end
AllRead == stack = <<>>
ParsingEnds == <>AllRead
================================================================================
