------------------------------ MODULE InitActions ------------------------------
(***************************************************************************)
(* The actions of init: how main queues the stages of the boot, the queue   *)
(* itself (an intrusive doubly linked list through the actions), the one    *)
(* command per turn of the main loop, and the actions triggered by events   *)
(* and by properties.  Commands are abstracted to what they do to the queue *)
(* and to properties.                                                       *)
(***************************************************************************)
EXTENDS Naturals, Sequences, FiniteSets, SequencesExt

CONSTANTS
    RcActions,    \* the actions of the scripts, in the order of action_list
    Trigger,      \* Trigger[a]: [on |-> event] or [on |-> "property", name, value]
    Commands,     \* Commands[a]: the sequence of commands of a
    Props,        \* property names
    Requests,     \* what clients ask the property service to set: [name, value]
    Repeat,       \* TRUE when a client may send the same request again
    NoAction, List  \* NULL, and the head of action_queue

Builtins == {"wait_for_coldboot_done", "keychord_init", "console_init", "property_service_init",
             "signal_init", "check_startup", "queue_property_triggers", "bootchart_init"}
Actions == ToSet(RcActions) \cup Builtins

VARIABLES
    cmdline,       \* what the kernel command line says: [emmc, charger, pause]
    next, prev,    \* the links of the queue: of the actions and of its head
    todo,          \* what main has still to queue before its loop
    toQueue,       \* actions the for-each loop at work has still to add
    cur_action, cur_command,
    props,         \* the properties, "" when not set
    enabled,       \* property_triggers_enabled
    serving,       \* the property service has been started
    sent,          \* requests clients have made
    pc,            \* "main", "execute" or "poll"
    ran            \* history: how often each action was begun, up to 2

vars == <<cmdline, next, prev, todo, toQueue, cur_action, cur_command, props, enabled, serving, sent, pc, ran>>

\* main before its loop: what it queues, in order
BootStages_swapped(c) ==
    <<"early-init", "wait_for_coldboot_done", "keychord_init", "console_init", "init">>
    \o (IF c.charger THEN <<>>
        ELSE <<"early-fs", "post-fs", "post-fs-data", IF c.emmc THEN "emmc-fs" ELSE "fs">>)
    \o <<"property_service_init", "signal_init", "check_startup">>
    \o (IF c.charger \/ c.pause THEN <<"charger">> ELSE <<"early-boot", "boot">>)
    \o <<"queue_property_triggers", "bootchart_init">>
BootStages(c) ==
    <<"early-init", "wait_for_coldboot_done", "keychord_init", "console_init", "init">>
    \o (IF c.charger THEN <<>>
        ELSE <<"early-fs", IF c.emmc THEN "emmc-fs" ELSE "fs", "post-fs", "post-fs-data">>)
    \o <<"property_service_init", "signal_init", "check_startup">>
    \o (IF c.charger \/ c.pause THEN <<"charger">> ELSE <<"early-boot", "boot">>)
    \o <<"queue_property_triggers", "bootchart_init">>

\* action_for_each_trigger: the actions of an event, in the order of the list.
\* The actions queue_builtin_action makes are known by their name.
OnEvent(event) ==
    IF event \in Builtins THEN <<event>>
    ELSE SelectSeq(RcActions, LAMBDA a : Trigger[a].on = event)

\* queue_property_triggers(name, value)
OnProperty(name, value) ==
    SelectSeq(RcActions, LAMBDA a : /\ Trigger[a].on = "property"
                                    /\ Trigger[a].name = name
                                    /\ Trigger[a].value \in {value, "*"})

\* queue_all_property_triggers
OnAllProperties ==
    SelectSeq(RcActions, LAMBDA a : /\ Trigger[a].on = "property"
                                    /\ props[Trigger[a].name] # ""
                                    /\ Trigger[a].value \in {props[Trigger[a].name], "*"})

Init ==
    /\ cmdline \in [emmc : BOOLEAN, charger : BOOLEAN, pause : BOOLEAN]
    /\ next = [a \in Actions \cup {List} |-> IF a = List THEN List ELSE NoAction]
    /\ prev = next
    /\ todo = BootStages(cmdline) /\ toQueue = <<>>
    /\ cur_action = NoAction /\ cur_command = 0
    /\ props = [p \in Props |-> ""] /\ enabled = FALSE /\ serving = FALSE
    /\ sent = {}
    /\ pc = "main"
    /\ ran = [a \in Actions |-> 0]

------------------------------------------------------------------------------
\* main: the next stage
queue_stage ==
    /\ pc = "main" /\ toQueue = <<>>
    /\ IF todo = <<>>
       THEN pc' = "execute" /\ UNCHANGED <<todo, toQueue>>
       ELSE toQueue' = OnEvent(Head(todo)) /\ todo' = Tail(todo) /\ UNCHANGED pc
    /\ UNCHANGED <<cmdline, next, prev, cur_action, cur_command, props, enabled, serving, sent, ran>>

\* list_add_tail and list_remove of the C library, as the stores they make
list_add_tail_once(a) ==
    IF prev[List] = a THEN UNCHANGED <<next, prev>>
    ELSE /\ next' = [next EXCEPT ![a] = List, ![List] = a]
         /\ prev' = [prev EXCEPT ![a] = prev[List], ![List] = a]
list_add_tail(a) ==
    /\ next' = [[next EXCEPT ![a] = List] EXCEPT ![prev[List]] = a]
    /\ prev' = [[prev EXCEPT ![a] = prev[List]] EXCEPT ![List] = a]

list_remove_lazy(a) == UNCHANGED <<next, prev>>
list_remove(a) ==
    /\ prev' = [prev EXCEPT ![next[a]] = prev[a]]
    /\ next' = [next EXCEPT ![prev'[a]] = next[a]]

\* one turn of a loop that queues actions
action_add_queue_tail ==
    /\ toQueue # <<>>
    /\ list_add_tail(Head(toQueue))
    /\ toQueue' = Tail(toQueue)
    /\ UNCHANGED <<cmdline, todo, cur_action, cur_command, props, enabled, serving, sent, pc, ran>>

------------------------------------------------------------------------------
\* property_set: the properties after it, and the triggers property_changed
\* queues.  A ro. property keeps the value it got first.
ReadOnly(name) == name = "ro.crypto.state"
Settable(ps, name) == ~ (ReadOnly(name) /\ ps[name] # "")
SetAll(ps, list) ==
    FoldLeft(LAMBDA acc, s : IF Settable(acc, s.name) THEN [acc EXCEPT ![s.name] = s.value] ELSE acc,
             ps, list)
Triggered(ps, list) ==
    FlattenSeq([i \in DOMAIN list |->
        IF enabled /\ Settable(ps, list[i].name) THEN OnProperty(list[i].name, list[i].value) ELSE <<>>])
property_set(list) ==
    /\ props' = SetAll(props, list)
    /\ toQueue' = Triggered(props, list)

no_effect == UNCHANGED <<props, toQueue, enabled, serving>>

do_setprop(c) == property_set(<<[name |-> c.name, value |-> c.value]>>) /\ UNCHANGED <<enabled, serving>>

do_trigger(c) == toQueue' = OnEvent(c.event) /\ UNCHANGED <<props, enabled, serving>>

\* do_mount_all: the child says encrypted, not encrypted, or fails (as fork may)
do_mount_all ==
    \/ /\ property_set(<<[name |-> "ro.crypto.state", value |-> "encrypted"],
                         [name |-> "vold.decrypt", value |-> "1"]>>)
       /\ UNCHANGED <<enabled, serving>>
    \/ LET state == <<[name |-> "ro.crypto.state", value |-> "unencrypted"]>> IN
       /\ props' = SetAll(props, state)
       /\ toQueue' = Triggered(props, state) \o OnEvent("nonencrypted")
       /\ UNCHANGED <<enabled, serving>>
    \/ no_effect

queue_property_triggers_action_early ==
    toQueue' = <<>> /\ enabled' = TRUE /\ UNCHANGED <<props, serving>>
queue_property_triggers_action ==
    /\ toQueue' = OnAllProperties
    /\ enabled' = TRUE
    /\ UNCHANGED <<props, serving>>

\* property_service_init_action opens the socket clients talk to
property_service_init_action == serving' = TRUE /\ UNCHANGED <<props, toQueue, enabled>>

\* the function a command stands for; every other leaves this state alone
Perform(c) ==
    CASE c.op = "setprop" -> do_setprop(c)
      [] c.op = "trigger" -> do_trigger(c)
      [] c.op = "mount_all" -> do_mount_all
      [] c.op = "property_service_init" -> property_service_init_action
      [] c.op = "queue_property_triggers" -> queue_property_triggers_action
      [] OTHER -> no_effect

CommandsOf(a) == IF a \in Builtins THEN <<[op |-> a]>> ELSE Commands[a]

\* get_first_command and get_next_command, by number; 0 is NULL
get_first_command(a) == IF CommandsOf(a) = <<>> THEN 0 ELSE 1
is_last_command(a, i) == i = Len(CommandsOf(a))

\* action_remove_queue_head: the action at the head leaves the queue
action_remove_queue_head(a) ==
    /\ list_remove(a)
    /\ ran' = [ran EXCEPT ![a] = IF @ < 2 THEN @ + 1 ELSE 2]

Over == cur_action = NoAction \/ cur_command = 0 \/ is_last_command(cur_action, cur_command)

\* the next command of the current action, or the first of the next action
execute_one_command ==
    LET head == IF next[List] = List THEN NoAction ELSE next[List]
        a == IF Over THEN head ELSE cur_action
        i == IF ~ Over THEN cur_command + 1
             ELSE IF head = NoAction THEN 0 ELSE get_first_command(head)
    IN
    /\ pc = "execute" /\ toQueue = <<>>
    /\ pc' = "poll"
    /\ cur_action' = a /\ cur_command' = i
    /\ IF Over /\ head # NoAction THEN action_remove_queue_head(head) ELSE UNCHANGED <<next, prev, ran>>
    /\ IF i = 0 THEN no_effect ELSE Perform(CommandsOf(a)[i])
    /\ UNCHANGED <<cmdline, todo, sent>>

\* poll: at once when there is work; otherwise init sleeps until a client calls.
\* handle_property_set_fd takes one request a turn.
Busy == next[List] # List \/ cur_action # NoAction

poll_returns ==
    /\ pc = "poll" /\ toQueue = <<>> /\ Busy
    /\ pc' = "execute"
    /\ no_effect
    /\ UNCHANGED <<cmdline, next, prev, todo, cur_action, cur_command, sent, ran>>

handle_property_set_fd ==
    /\ pc = "poll" /\ toQueue = <<>> /\ serving
    /\ \E r \in (IF Repeat THEN Requests ELSE Requests \ sent) :
          /\ property_set(<<r>>)
          /\ sent' = sent \cup {r}
    /\ pc' = "execute"
    /\ UNCHANGED <<cmdline, next, prev, todo, cur_action, cur_command, enabled, serving, ran>>

Loop == queue_stage \/ action_add_queue_tail \/ execute_one_command \/ poll_returns
Next == Loop \/ handle_property_set_fd

Spec == Init /\ [][Next]_vars

\* init is one thread and never blocks in these steps; clients owe it nothing
FairSpec == Spec /\ WF_vars(Loop)

------------------------------------------------------------------------------
TypeOK ==
    /\ next \in [Actions \cup {List} -> Actions \cup {List, NoAction}]
    /\ prev \in [Actions \cup {List} -> Actions \cup {List, NoAction}]
    /\ toQueue \in Seq(Actions)
    /\ cur_action \in Actions \cup {NoAction}
    /\ cur_command \in Nat
    /\ DOMAIN props = Props
    /\ {enabled, serving} \subseteq BOOLEAN
    /\ sent \subseteq Requests
    /\ pc \in {"main", "execute", "poll"}
    /\ ran \in [Actions -> 0..2]

\* The actions a walk along the next links meets before it is back at the head
\* (one more than there are when it never is)
Queue ==
    LET N == Cardinality(Actions) + 1
        at[i \in 1..N] == LET before == IF i = 1 THEN List ELSE at[i-1]
                          IN IF i > 1 /\ before = List THEN List ELSE next[before]
    IN SelectSeq([i \in 1..N |-> at[i]], LAMBDA a : a # List)

\* The linked list, with its stores in the order the code makes them, is the
\* queue the readme describes: actions are added at the tail unless they are
\* there, taken from the head one by one, and none is lost or met twice
Fifo == INSTANCE ActionFifo WITH queue <- Queue, current <- cur_action
ImplementsFifo == Fifo!Spec
FifoInit == Fifo!Init
FifoStep == [Fifo!Next]_(Fifo!vars)

\* What the readme says of a triggered action: it is added to the tail of the
\* queue unless it is already on the queue (then the queue stays as it is)
AddedUnlessThere ==
    toQueue # <<>> /\ toQueue' = Tail(toQueue)
    => Queue' = (IF Contains(Queue, Head(toQueue)) THEN Queue ELSE Append(Queue, Head(toQueue)))
AddedUnlessQueued == [][AddedUnlessThere]_vars

Done(a) == ran[a] > 0 /\ a # cur_action
Stages == <<"early-init", "init", "fs", "post-fs", "post-fs-data", "property_service_init", "boot",
            "queue_property_triggers">>
\* Stages a device does not go through: emmc-fs stands in for fs, and a device
\* that charges has neither of them nor boot
Passed(stage) ==
    /\ cmdline.charger => stage \notin {"fs", "post-fs", "post-fs-data", "boot"}
    /\ cmdline.emmc => stage # "fs"
    /\ cmdline.pause => stage # "boot"
StageDone(i) == Passed(Stages[i]) => \A a \in ToSet(OnEvent(Stages[i])) : Done(a)

\* A stage of the boot begins only when every action of the stages before it has
\* been executed to its end: with the scripts of ASL, nothing of post-fs or boot
\* runs before the check of the system partition, and the property service
\* starts after /data.  What a command or a property triggers comes after all of
\* them and after the builtin actions of main, whichever stage it was triggered
\* in.  (readme.txt calls boot the first trigger; early-init, init and fs precede it.)
BootOrder ==
    /\ \A i, j \in DOMAIN Stages :
          i < j /\ (\E b \in ToSet(OnEvent(Stages[j])) : ran[b] > 0) => StageDone(i)
    /\ (\E b \in ToSet(RcActions) : Trigger[b].on \notin ToSet(Stages) /\ ran[b] > 0)
       => (\A i \in DOMAIN Stages : StageDone(i)) /\ (\A a \in Builtins : Done(a))

Quiet == pc = "poll" /\ toQueue = <<>> /\ ~ Busy
\* When init has nothing left to do, every property trigger whose property has
\* its value has fired: a property set before the triggers were enabled is found
\* by queue_all_property_triggers, one set later by property_changed, and none
\* falls between the two
NoMissedTrigger ==
    Quiet => \A a \in ToSet(RcActions) :
                Trigger[a].on = "property" /\ a \in ToSet(OnAllProperties) => ran[a] > 0

\* As long as no property is set twice, no action runs twice: enabling the
\* triggers does not repeat those that fired on their own
TriggeredOnce == ~ Repeat => \A a \in Actions : ran[a] < 2

\* The boot comes to its end: the last builtin main queued is executed whatever
\* clients do to properties in the meantime
BootComplete == ran["bootchart_init"] > 0
BootCompletes == <>BootComplete
==============================================================================
