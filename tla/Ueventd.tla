-------------------------------- MODULE Ueventd --------------------------------
(***************************************************************************)
(* ueventd: the events of the kernel, the socket they wait in, the cold     *)
(* boot that asks for the events of devices that were there before, and the *)
(* nodes and links made in /dev.  The kernel, which plugs and unplugs       *)
(* devices while ueventd works, is the environment.                         *)
(***************************************************************************)
EXTENDS Naturals, Sequences, FiniteSets, SequencesExt

CONSTANTS
    Devs, Hot,         \* the devices, and those that may come and go while ueventd runs
    Subsystem,         \* Subsystem[d]: "platform", "block" or another
    Ancestors,         \* Ancestors[d]: the devices d hangs off, outermost first
    Path,              \* Path[d]: its node in /dev
    LinkNames,         \* LinkNames[d]: its links (by-name, by-num, ...)
    Rules,             \* the rules of ueventd.rc, then of ueventd.<hardware>.rc: [path, prefix, perm]
    UnderPrefix,       \* UnderPrefix[p]: the node paths that begin with p
    SockMax, MaxHotplug, MaxRestarts,
    None

VARIABLES
    present,    \* kernel: the devices there are
    sock,       \* events waiting, each [action, dev]
    node, link, \* /dev: node[path] is [dev, perm] or None; link: set of [name, to]
    platform,   \* platform_names
    todo, pc,   \* the walk of sysfs; "walk", "drain", "loop", "deaf" or "down"
    done,       \* the file coldboot_done
    hotplugs, restarts,
    lost,       \* history: an event was lost
    since       \* history: devices there since ueventd first started

vars == <<present, sock, node, link, platform, todo, pc, done, hotplugs, restarts, lost, since>>

Paths == {Path[d] : d \in Devs}
Parents(d) == ToSet(Ancestors[d])

\* device_init is about to walk sysfs, or had no socket
Init ==
    /\ present \in {S \in SUBSET Devs : /\ \A d \in S : Parents(d) \subseteq S
                                        /\ \A d, e \in S : Path[d] = Path[e] => d = e}
    /\ sock = <<>> /\ node = [p \in Paths |-> None] /\ link = {}
    /\ platform = <<>> /\ todo = Devs /\ pc \in {"walk", "deaf"} /\ done = FALSE
    /\ hotplugs = 0 /\ restarts = 0 /\ lost = FALSE /\ since = present

------------------------------------------------------------------------------
\* the kernel puts an event in the socket, or drops it when it is full or closed
Emit(e) ==
    IF pc \in {"down", "deaf"} \/ Len(sock) = SockMax
    THEN lost' = TRUE /\ UNCHANGED sock
    ELSE sock' = Append(sock, e) /\ UNCHANGED lost

Plug(d) ==
    /\ d \in Hot \ present /\ Parents(d) \subseteq present /\ hotplugs < MaxHotplug
    /\ \A e \in present : Path[e] # Path[d]
    /\ present' = present \cup {d} /\ hotplugs' = hotplugs + 1
    /\ Emit([action |-> "add", dev |-> d])
    /\ UNCHANGED <<node, link, platform, todo, pc, done, restarts, since>>

Unplug(d) ==
    /\ d \in Hot \cap present /\ hotplugs < MaxHotplug
    /\ \A e \in present : d \notin Parents(e)
    /\ present' = present \ {d} /\ hotplugs' = hotplugs + 1
    /\ since' = since \ {d}
    /\ Emit([action |-> "remove", dev |-> d])
    /\ UNCHANGED <<node, link, platform, todo, pc, done, restarts>>

------------------------------------------------------------------------------
\* get_device_perm: the last rule that matches, or 0600 and root
Matches(r, p) == r.path = p \/ (r.prefix /\ p \in UnderPrefix[r.path])
get_device_perm(p) ==
    LET fits == {i \in DOMAIN Rules : Matches(Rules[i], p)}
    IN IF fits = {} THEN "0600" ELSE Rules[CHOOSE i \in fits : \A j \in fits : j <= i].perm

\* find_platform_device: the last known platform the device hangs off
Known(d) == {i \in DOMAIN platform : platform[i] \in Parents(d)}
find_platform_device(d) == platform[CHOOSE i \in Known(d) : \A j \in Known(d) : j <= i]

\* get_character_device_symlinks and parse_platform_block_device
links(d) ==
    IF Subsystem[d] # "block" THEN {<<Subsystem[d], n>> : n \in LinkNames[d]}
    ELSE IF Known(d) = {} THEN {} ELSE {<<find_platform_device(d), n>> : n \in LinkNames[d]}

\* make_device: mknod fails when there is a node already; make_link likewise
make_device(d) ==
    node' = IF node[Path[d]] = None
            THEN [node EXCEPT ![Path[d]] = [dev |-> d, perm |-> get_device_perm(Path[d])]] ELSE node
make_links(d) ==
    link' = link \cup {[name |-> l, to |-> Path[d]] : l \in {x \in links(d) : \A y \in link : y.name # x}}
remove_links(d) == link' = {y \in link : ~ (y.name \in links(d) /\ y.to = Path[d])}

remove_device_kept(d) == UNCHANGED node
remove_device(d) == node' = [node EXCEPT ![Path[d]] = None]

handle_device_event(e) ==
    LET d == e.dev IN
    IF Subsystem[d] = "platform"
    THEN /\ platform' = IF e.action = "add"
                        THEN IF Known(d) # {} THEN platform ELSE Append(platform, d)
                        ELSE IF Contains(platform, d) THEN RemoveAt(platform, SelectLastInSeq(platform, LAMBDA x : x = d))
                        ELSE platform
         /\ UNCHANGED <<node, link>>
    ELSE /\ IF e.action = "add"
            THEN make_device(d) /\ make_links(d)
            ELSE remove_links(d) /\ remove_device(d)
         /\ UNCHANGED platform

\* handle_device_fd takes the events one by one until there is none
handle_device_fd ==
    /\ pc \in {"drain", "loop"} /\ sock # <<>>
    /\ handle_device_event(Head(sock))
    /\ sock' = Tail(sock)
    /\ UNCHANGED <<present, todo, pc, done, hotplugs, restarts, lost, since>>

drained ==
    /\ pc = "drain" /\ sock = <<>>
    /\ pc' = "walk"
    /\ UNCHANGED <<present, sock, node, link, platform, todo, done, hotplugs, restarts, lost, since>>

\* do_coldboot: the uevent file of a directory, before those below it; the walk
\* of /sys/class and /sys/block may have met it already
do_coldboot(d) ==
    /\ pc = "walk" /\ d \in todo /\ Parents(d) \cap todo = {}
    /\ todo' = todo \ {d}
    /\ IF d \in present THEN Emit([action |-> "add", dev |-> d]) ELSE UNCHANGED <<sock, lost>>
    /\ pc' = "drain"
    /\ UNCHANGED <<present, node, link, platform, done, hotplugs, restarts, since>>

coldboot_done_early ==
    /\ pc = "walk" /\ Cardinality(todo) <= 1
    /\ done' = TRUE /\ pc' = "loop"
    /\ UNCHANGED <<present, sock, node, link, platform, todo, hotplugs, restarts, lost, since>>
coldboot_done ==
    /\ pc = "walk" /\ todo = {}
    /\ done' = TRUE /\ pc' = "loop"
    /\ UNCHANGED <<present, sock, node, link, platform, todo, hotplugs, restarts, lost, since>>

\* ueventd dies, and init starts it again: device_init skips the cold boot when
\* an earlier one was done
Dies ==
    /\ pc # "down" /\ restarts < MaxRestarts
    /\ pc' = "down" /\ restarts' = restarts + 1
    /\ sock' = <<>> /\ platform' = <<>>
    /\ UNCHANGED <<present, node, link, todo, done, hotplugs, lost, since>>

\* (without a socket it returns at once, and ueventd polls for ever with nothing to poll)
device_init ==
    /\ pc = "down"
    /\ \/ pc' = "deaf" /\ UNCHANGED todo
       \/ /\ pc' = IF done THEN "loop" ELSE "walk"
          /\ todo' = IF done THEN {} ELSE Devs
    /\ UNCHANGED <<present, sock, node, link, platform, done, hotplugs, restarts, lost, since>>

ueventd == handle_device_fd \/ drained \/ (\E d \in Devs : do_coldboot(d)) \/ coldboot_done \/ device_init
Next == ueventd \/ Dies \/ (\E d \in Devs : Plug(d) \/ Unplug(d))

Spec == Init /\ [][Next]_vars
\* ueventd's loop goes on as long as there is something to read; init restarts it
FairSpec == Spec /\ WF_vars(ueventd)

------------------------------------------------------------------------------
TypeOK ==
    /\ present \subseteq Devs /\ since \subseteq present
    /\ sock \in Seq([action : {"add", "remove"}, dev : Devs]) /\ Len(sock) <= SockMax
    /\ \A p \in Paths : node[p] = None \/ node[p].dev \in Devs
    /\ platform \in Seq(Devs) /\ todo \subseteq Devs
    /\ pc \in {"walk", "drain", "loop", "deaf", "down"}

\* The walk alone never overruns the socket: the events it causes are drained
\* after each file it pokes, so only the kernel's own events can be too many
ColdbootFits == hotplugs = 0 => ~ lost

Settled == pc = "loop" /\ sock = <<>> /\ ~ lost /\ restarts = 0
\* When ueventd has caught up, /dev has a node for exactly the devices there are,
\* with the right number, even when a device took the name of one unplugged
\* while the walk was asking for its event
NodesFollow ==
    Settled => \A p \in Paths :
        LET there == {d \in present : Path[d] = p /\ Subsystem[d] # "platform"} IN
        IF there = {} THEN node[p] = None ELSE node[p] # None /\ node[p].dev \in there

\* ... and exactly the links of those devices, named after the outermost platform
\* device they hang off, whether they were met by the walk, plugged, or both
LinksFollow ==
    Settled => link = UNION {{[name |-> <<IF Subsystem[d] = "block" THEN Head(Ancestors[d]) ELSE Subsystem[d], n>>,
                               to |-> Path[d]] : n \in LinkNames[d]}
                             : d \in {x \in present : Subsystem[x] # "platform"}}

\* A node has the permissions of the last rule for it, those of the hardware's
\* own file before those of ueventd.rc
LastRuleHolds ==
    \A p \in Paths : node[p] # None =>
        \A i \in DOMAIN Rules : Matches(Rules[i], p) /\ (\A j \in DOMAIN Rules : j > i => ~ Matches(Rules[j], p))
                                => node[p].perm = Rules[i].perm

\* What init waits for: once the file coldboot_done exists, every device that was
\* there from the start has its node
DoneMeansNodes ==
    done /\ ~ lost => \A d \in since : Subsystem[d] # "platform" => node[Path[d]] # None

\* The cold boot ends, and init's wait for it, however the kernel's events and a
\* restart of ueventd fall; a ueventd that got no socket never begins it, and init
\* waits until its timeout
Done == done \/ pc = "deaf"
ColdbootEnds == <>Done
================================================================================
