------------------------------- MODULE MCScripts -------------------------------
(***************************************************************************)
(* Small instances of the parts of init that make up its language: the      *)
(* tokenizer, the section parser, the action queue and the properties.  A   *)
(* behaviour is about one of them, the focus, and v1 to v13 are the         *)
(* variables of that one.                                                   *)
(***************************************************************************)
EXTENDS Integers, Sequences, FiniteSets, SequencesExt

CONSTANTS
    Parts,        \* the parts the run is about
    Sources,      \* the texts for the tokenizer
    Clients,      \* what clients of the property service set, for the action queue
    none, list    \* NULL, and the head of the action queue

VARIABLES focus, v1, v2, v3, v4, v5, v6, v7, v8, v9, v10, v11, v12, v13

vars == <<focus, v1, v2, v3, v4, v5, v6, v7, v8, v9, v10, v11, v12, v13>>

------------------------------------------------------------------------------
\* Every short text; and lines for which it is known what they should give: two
\* quoted words, with a comment before and a plain word after; a line folded in or
\* after a word; a blank or a quote kept by a backslash
Short(S, k) == UNION {[1..i -> S] : i \in 0..k}
Raw == {[src |-> t, meant |-> none] : t \in Short({"0", "nl", "sp", "cr", "#", "q", "bs", "a", "n"}, 3)}
Quote(w) == <<"q">> \o w \o <<"q">>
Quoted == {[src |-> <<"sp", "#", "a", "nl">> \o Quote(v) \o <<"sp">> \o Quote(w) \o <<"tab", "a", "a">>,
            meant |-> <<<<v, w, <<"a", "a">>>>>>]
           : v \in Short({"a", "sp", "nl"}, 2), w \in Short({"a", "#", "bs", "sp"}, 1)}
Folded == {[src |-> v \o gap \o <<"bs", "nl">> \o blanks \o w \o <<"nl">> \o v,
            meant |-> <<IF gap = <<>> THEN <<v \o w>> ELSE <<v, w>>, <<v>>>>]
           : v \in {<<"a">>, <<"n", "a">>}, gap \in {<<>>, <<"sp">>}, blanks \in Short({"sp", "tab"}, 2),
             w \in {<<"a">>, <<"n", "a">>}}
Kept == {[src |-> v \o <<"bs", c>> \o w, meant |-> <<<<v \o <<c>> \o w>>>>]
         : v \in Short({"a"}, 1), c \in {"sp", "tab", "q", "#"}, w \in Short({"a", "n"}, 1)}
Known == Raw \cup Quoted \cup Folded \cup Kept
\* a word with an escape of C for white space in it
CStyle == {[src |-> v \o <<"bs", e>> \o w,
            meant |-> <<<<v \o <<CASE e = "n" -> "nl" [] e = "r" -> "cr" [] e = "t" -> "tab">> \o w>>>>]
           : v \in Short({"a"}, 1), e \in {"n", "r", "t"}, w \in Short({"a"}, 1)}

T == INSTANCE InitTokens WITH
    Chars <- {"0", "nl", "sp", "tab", "cr", "#", "q", "bs", "a", "n", "t", "r"},
    Jobs <- Sources, Anything <- none, MaxArgs <- 3,
    job <- v1, mem <- v2, x <- v3, s <- v4, text <- v5, nexttoken <- v6, mode <- v7, args <- v8, lines <- v9

\* the hypothesis of the theorem about next_token
ASSUME Texts == T!SourcesAreTexts

------------------------------------------------------------------------------
\* init.rc with any three lines after its import; what it imports imports init.asl.rc
Svc(n) == [kw |-> "service", name |-> n, ok |-> TRUE]
On(n, good) == [kw |-> "on", name |-> n, ok |-> good]
Import(f) == [kw |-> "import", file |-> f, ok |-> TRUE]
Opt(n) == [kw |-> "option", name |-> n]
Cmd(n) == [kw |-> "command", name |-> n]
Menu == {Svc("a"), [kw |-> "service", name |-> "", ok |-> FALSE], On("fs", TRUE), Import("asl"),
         Opt("oneshot"), Opt("ioprio"), Cmd("mount"), [kw |-> "bad"]}
Asl == {<<On("fs", TRUE), Cmd("exec"), Cmd("exec2")>>,
        <<Opt("stray"), Svc("a"), Opt("late"), Cmd("mount")>>}
RcTrees == {[f \in {"init", "asl", "more"} |->
               CASE f = "init" -> <<On("init", TRUE), Import("more")>> \o top
                 [] f = "asl" -> asl
                 [] f = "more" -> <<Import("asl"), Import("absent"), On("x", FALSE), Cmd("mount")>>]
            : top \in [1..3 -> Menu], asl \in Asl}

R == INSTANCE InitParser WITH
    Trees <- RcTrees, Root <- "init", files <- v1, stack <- v2, services <- v3, actions <- v4

------------------------------------------------------------------------------
\* init.rc and init.asl.rc in small: directories, the mount, the check, the boot,
\* and the property triggers a client and other triggers set off
BootRc == <<"mkdirs", "mount", "check", "data", "boot", "decrypted", "later", "on_a", "on_b", "on_c">>
Event(e) == [on |-> e, name |-> "", value |-> ""]
OnProp(p, v) == [on |-> "property", name |-> p, value |-> v]
BootTrigger ==
    [a \in ToSet(BootRc) |->
        CASE a = "mkdirs" -> Event("early-init")
          [] a \in {"mount", "check"} -> Event("fs")
          [] a = "data" -> Event("post-fs-data")
          [] a = "boot" -> Event("boot")
          [] a = "decrypted" -> Event("nonencrypted")
          [] a = "later" -> Event("late")
          [] a = "on_a" -> OnProp("a", "1")
          [] a = "on_b" -> OnProp("b", "*")
          [] a = "on_c" -> OnProp("c", "1")]
Set(p, v) == [op |-> "setprop", name |-> p, value |-> v]
BootCommands ==
    [a \in ToSet(BootRc) |->
        CASE a = "mount" -> <<[op |-> "mount_all"]>>
          [] a = "check" -> <<[op |-> "exec"], [op |-> "exec"]>>
          [] a = "data" -> <<[op |-> "trigger", event |-> "late"]>>
          [] a = "boot" -> <<Set("a", "1"), [op |-> "class_start"]>>
          [] a = "on_a" -> <<>>
          [] a = "on_c" -> <<Set("b", "2"), [op |-> "write"]>>
          [] OTHER -> <<[op |-> "mkdir"]>>]
\* each property is set once; or a client sets one again that the boot has set
Once == {[name |-> "c", value |-> "1"]}
Again == {[name |-> "a", value |-> "1"]}

Q == INSTANCE InitActions WITH
    RcActions <- BootRc, Trigger <- BootTrigger, Commands <- BootCommands,
    Props <- {"ro.crypto.state", "vold.decrypt", "a", "b", "c"}, Requests <- Clients,
    Repeat <- FALSE, NoAction <- none, List <- list,
    cmdline <- v1, next <- v2, prev <- v3, todo <- v4, toQueue <- v5, cur_action <- v6,
    cur_command <- v7, props <- v8, enabled <- v9, serving <- v10, sent <- v11, pc <- v12, ran <- v13

------------------------------------------------------------------------------
\* five properties and room for four of them
PropNames == {"ro.k", "net.x", "net.change", "persist.a", "persist.b"}
Prop(n, v) == [name |-> n, value |-> v]

P == INSTANCE InitProps WITH
    Names <- PropNames, NetChange <- "net.change", MaxCount <- 4,
    Class <- [n \in PropNames |-> CASE n = "ro.k" -> "ro" [] n \in {"net.x", "net.change"} -> "net"
                                    [] OTHER -> "persist"],
    KernelProps <- <<Prop("ro.k", "kernel")>>,
    Files <- [ramdisk |-> <<Prop("persist.a", "default")>>, build |-> <<Prop("ro.k", "file")>>,
              default |-> <<Prop("persist.b", "default")>>, local |-> <<Prop("persist.b", "default")>>],
    Requests <- {Prop("persist.a", "1"), Prop("persist.b", "1"), Prop("persist.b", "2"),
                 Prop("net.x", "1"), Prop("ro.k", "2")},
    Faults <- TRUE, Unset <- "unset", Torn <- "torn",
    area <- v1, disk <- v2, todo <- v3, write <- v4, loaded <- v5, serving <- v6, data <- v7,
    saved <- v8, dirty <- v9, lastNet <- v10, override <- v11

------------------------------------------------------------------------------
From10 == <<v10, v11, v12, v13>>

Init ==
    /\ focus \in Parts
    /\ \/ focus = "tokens" /\ T!Init /\ v10 = none /\ v11 = none /\ v12 = none /\ v13 = none
       \/ /\ focus = "parser" /\ R!Init
          /\ v5 = none /\ v6 = none /\ v7 = none /\ v8 = none /\ v9 = none
          /\ v10 = none /\ v11 = none /\ v12 = none /\ v13 = none
       \/ focus = "actions" /\ Q!Init
       \/ focus = "props" /\ P!Init /\ v12 = none /\ v13 = none

\* the steps of init itself, and all steps
Steps ==
    /\ UNCHANGED focus
    /\ \/ focus = "tokens" /\ T!Next /\ UNCHANGED From10
       \/ focus = "parser" /\ R!Next /\ UNCHANGED <<v5, v6, v7, v8, v9, From10>>
       \/ focus = "actions" /\ Q!Loop
Next ==
    \/ Steps
    \/ focus = "actions" /\ Q!handle_property_set_fd /\ UNCHANGED focus
    \/ focus = "props" /\ P!Next /\ UNCHANGED <<focus, v12, v13>>

Spec == Init /\ [][Next]_vars
FairSpec == Spec /\ WF_vars(Steps)

------------------------------------------------------------------------------
\* The properties of the parts, each of the behaviours that are about it; what
\* they say of the code is said where they are defined.

\* every part's variables have their types
TypeOK ==
    CASE focus = "tokens" -> T!TypeOK
      [] focus = "parser" -> R!TypeOK
      [] focus = "actions" -> Q!TypeOK
      [] focus = "props" -> P!TypeOK

\* next_token: rewriting in place never overtakes reading
UnreadIntact == focus = "tokens" => T!UnreadIntact
\* next_token and parse_config: the lines handed over are those that were meant
ReadAsMeant == focus = "tokens" => T!ReadAsMeant
\* readme.txt: an escape of C for white space inserts that white space into the
\* token, and nothing else
EscapesInsert == focus = "tokens" => T!ReadAsMeant


\* the linked list is a queue that keeps its actions and their order
ImplementsFifo == (focus = "actions" => Q!FifoInit) /\ [][focus = "actions" => Q!FifoStep]_vars
\* readme.txt: an action is added unless it is already on the queue
AddedUnlessQueued == [][focus = "actions" => Q!AddedUnlessThere]_vars
\* main: the stages of the boot follow one another, and what they trigger follows them
BootOrder == focus = "actions" => Q!BootOrder
\* property_changed and queue_all_property_triggers: each trigger fires, and once
TriggersFire == focus = "actions" => Q!NoMissedTrigger /\ Q!TriggeredOnce

\* write_persistent_property: what was written whole is in its file, and back in
\* the area after any reboot
SurvivesReboot == focus = "props" => P!FileIsWhole /\ P!SurvivesReboot
\* property_set: what the kernel says of a ro. property stays, and net.change
\* names the net. property set last
NameRules == focus = "props" => P!KernelHasTheWord /\ P!NetChangeFollows
\* property_set: defaults are not written to disk, but for those of local.prop after
\* the decryption of /data
DefaultsNotPersisted == [][focus = "props" => P!NoDefaultWritten]_vars

\* next_token, init_parse_config_file, execute_one_command: every text is read to
\* its end, so are the files with their imports, and the boot completes
EachEnds ==
    <>(CASE focus = "tokens" -> T!AtEof
         [] focus = "parser" -> R!AllRead
         [] focus = "actions" -> Q!BootComplete
         [] OTHER -> TRUE)
================================================================================
