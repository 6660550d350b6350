------------------------------- MODULE InitProps -------------------------------
(***************************************************************************)
(* The property service: the shared area, the rules of property_set, the    *)
(* files properties are loaded from and the directory the persistent ones   *)
(* are kept in, over any number of boots with a power cut between any two   *)
(* steps.  Values are tokens; the class of a name stands for its prefix.    *)
(***************************************************************************)
EXTENDS Naturals, Sequences, FiniteSets, SequencesExt

CONSTANTS
    Names, Class,   \* Class[n]: "ro", "net", "persist" or "other"
    NetChange,      \* the name net.change
    KernelProps,    \* what the kernel command line gives: sequence of [name, value]
    Files,          \* Files[f] for "ramdisk", "build", "default", "local": the same
    Requests,       \* what clients ask for: set of [name, value]
    MaxCount,       \* PA_COUNT_MAX
    Faults,         \* writes to /data may fail or fall short
    Unset, Torn     \* no such property or file; a value cut short

VARIABLES
    area,      \* the property area: name to value
    disk,      \* /data/property: name to value
    todo,      \* what init has still to load, in order
    write,     \* the write of a persistent property in progress
    loaded,    \* persistent_properties_loaded
    serving,   \* property_set_fd is open
    data,      \* /data: "real", or "encrypted" until vold has mounted it, then "decrypted"
    override,  \* ALLOW_LOCAL_PROP_OVERRIDE, the choice of the build (userdebug and eng)
    saved,     \* history: the last value whose file was written whole
    dirty,     \* history: persistent properties set in this boot and not on disk
    lastNet    \* history: the last net. property set

vars == <<area, disk, todo, write, loaded, serving, data, override, saved, dirty, lastNet>>

Persistent == {n \in Names : Class[n] = "persist"}
Count == Cardinality({n \in Names : area[n] # Unset})
NoWrite == [at |-> "none"]

Lines(f) == [i \in DOMAIN Files[f] |-> [op |-> "set", from |-> f,
                                        name |-> Files[f][i].name, value |-> Files[f][i].value]]
File(f) == <<[op |-> "file", file |-> f]>>

\* load_persist_props, and start_property_service which also serves
load_persist_props ==
    (IF override THEN File("local") ELSE <<>>) \o <<[op |-> "readdir"], [op |-> "loaded"]>>
start_property_service_eager ==
    <<[op |-> "loaded"]>> \o File("build") \o File("default") \o load_persist_props \o <<[op |-> "serve"]>>
start_property_service ==
    File("build") \o File("default") \o load_persist_props \o <<[op |-> "serve"]>>

\* process_kernel_cmdline and then main; a device that charges skips the defaults
process_kernel_cmdline ==
    [i \in DOMAIN KernelProps |-> [op |-> "set", from |-> "kernel", name |-> KernelProps[i].name,
                                   value |-> KernelProps[i].value]]
main(charger) ==
    process_kernel_cmdline \o (IF charger THEN <<>> ELSE File("ramdisk")) \o start_property_service

\* property_init and the start of main, at every boot
Boot ==
    /\ area' = [n \in Names |-> Unset]
    /\ \E charger \in BOOLEAN : todo' = main(charger)
    /\ write' = NoWrite /\ loaded' = FALSE /\ serving' = FALSE /\ lastNet' = Unset /\ dirty' = {}
    /\ data' \in {"real", "encrypted"} /\ UNCHANGED override

Init ==
    /\ override \in BOOLEAN
    /\ area = [n \in Names |-> Unset] /\ disk = [n \in Persistent |-> Unset]
    /\ \E charger \in BOOLEAN : todo = main(charger)
    /\ write = NoWrite /\ loaded = FALSE /\ serving = FALSE
    /\ data \in {"real", "encrypted"}
    /\ saved = [n \in Persistent |-> Unset] /\ dirty = {} /\ lastNet = Unset

------------------------------------------------------------------------------
\* property_set on the area: ro. properties are set once, a new one needs room
Accepts_again(a, n) == a[n] # Unset \/ Cardinality({m \in Names : a[m] # Unset}) < MaxCount
Accepts_full(a, n) ==
    IF a[n] # Unset THEN Class[n] # "ro" ELSE Cardinality({m \in Names : a[m] # Unset}) <= MaxCount
Accepts(a, n) ==
    IF a[n] # Unset THEN Class[n] # "ro"
    ELSE Cardinality({m \in Names : a[m] # Unset}) < MaxCount
Store(a, n, v) == IF Accepts(a, n) THEN [a EXCEPT ![n] = v] ELSE a

\* ... with net.change, and the write of a persistent property to begin.  The
\* write is the rest of property_set: nothing else happens until it is over.
property_set(n, v, from) ==
    LET ok == Accepts(area, n)
        first == Store(area, n, v)
        net == ok /\ Class[n] = "net" /\ n # NetChange IN
    /\ area' = IF net THEN Store(first, NetChange, n) ELSE first
    /\ write' = IF ok /\ Class[n] = "persist" /\ loaded
                THEN [at |-> "open", name |-> n, value |-> v, from |-> from] ELSE NoWrite
    /\ lastNet' = IF net THEN n ELSE lastNet
    /\ dirty' = IF ok /\ Class[n] = "persist" /\ from # "disk" THEN dirty \cup {n} ELSE dirty \ {n}

\* write_persistent_property: the temporary file is opened and written (the
\* result of write is not looked at) and then renamed over the old one
open_temp ==
    /\ write.at = "open"
    /\ \/ data # "encrypted" /\ write' = [write EXCEPT !.at = "write"]
       \/ (data = "encrypted" \/ Faults) /\ write' = NoWrite
    /\ UNCHANGED <<area, disk, todo, loaded, serving, data, override, saved, dirty, lastNet>>

write_temp_inplace ==
    /\ write.at = "write"
    /\ write' = [write EXCEPT !.at = "rename"]
    /\ disk' = [disk EXCEPT ![write.name] = Torn]
    /\ UNCHANGED <<area, todo, loaded, serving, data, override, saved, dirty, lastNet>>
write_temp ==
    /\ write.at = "write"
    /\ \/ write' = [write EXCEPT !.at = "rename"]
       \/ Faults /\ write' = [write EXCEPT !.at = "rename", !.value = Torn]
    /\ UNCHANGED <<area, disk, todo, loaded, serving, data, override, saved, dirty, lastNet>>

rename_temp ==
    /\ write.at = "rename"
    /\ write' = NoWrite
    /\ \/ /\ disk' = [disk EXCEPT ![write.name] = write.value]
          /\ saved' = [saved EXCEPT ![write.name] = IF write.value = Torn THEN Unset ELSE write.value]
          /\ dirty' = dirty \ {write.name}
       \/ Faults /\ UNCHANGED <<disk, saved, dirty>>
    /\ UNCHANGED <<area, todo, loaded, serving, data, override, lastNet>>

------------------------------------------------------------------------------
\* one step of what init has still to load: a line of a file, a file (on /data it
\* may be out of reach), the directory, whose entries come in any order, an entry,
\* the flag, the socket
load_step ==
    /\ todo # <<>> /\ write = NoWrite
    /\ LET item == Head(todo) IN
       CASE item.op = "set" ->
              /\ property_set(item.name, item.value, item.from)
              /\ todo' = Tail(todo) /\ UNCHANGED <<loaded, serving>>
         [] item.op = "file" ->
              /\ todo' = (IF item.file = "local" /\ data = "encrypted" THEN <<>> ELSE Lines(item.file)) \o Tail(todo)
              /\ UNCHANGED <<area, write, loaded, serving, dirty, lastNet>>
         [] item.op = "readdir" ->
              /\ \E list \in SetToSeqs({n \in Persistent : data # "encrypted" /\ disk[n] # Unset}) :
                    todo' = [i \in DOMAIN list |-> [op |-> "read", name |-> list[i]]] \o Tail(todo)
              /\ UNCHANGED <<area, write, loaded, serving, dirty, lastNet>>
         [] item.op = "read" ->
              /\ property_set(item.name, disk[item.name], "disk")
              /\ todo' = Tail(todo) /\ UNCHANGED <<loaded, serving>>
         [] item.op = "loaded" ->
              loaded' = TRUE /\ todo' = Tail(todo) /\ UNCHANGED <<area, write, serving, dirty, lastNet>>
         [] item.op = "serve" ->
              serving' = TRUE /\ todo' = Tail(todo) /\ UNCHANGED <<area, write, loaded, dirty, lastNet>>
    /\ UNCHANGED <<disk, data, override, saved>>

\* handle_property_set_fd, for a request the permissions allow
Idle == serving /\ todo = <<>> /\ write = NoWrite
handle_property_set_fd ==
    /\ Idle
    /\ \E r \in Requests : property_set(r.name, r.value, "client")
    /\ UNCHANGED <<disk, todo, loaded, serving, data, override, saved>>

\* vold has mounted /data and has init run do_load_persist_props
do_load_persist_props ==
    /\ Idle /\ data = "encrypted"
    /\ data' = "decrypted" /\ todo' = load_persist_props
    /\ UNCHANGED <<area, disk, write, loaded, serving, override, saved, dirty, lastNet>>

\* the power goes, and comes back (a file that was renamed keeps its data: the code
\* does not sync it, the file system is taken to write data before names)
PowerCut == Boot /\ UNCHANGED <<disk, saved>>

Next ==
    \/ open_temp \/ write_temp \/ rename_temp
    \/ load_step
    \/ handle_property_set_fd
    \/ do_load_persist_props
    \/ PowerCut

Spec == Init /\ [][Next]_vars

------------------------------------------------------------------------------
Stored == {Unset, Torn} \cup Names \cup {r.value : r \in Requests}
          \cup UNION {{Files[f][i].value : i \in DOMAIN Files[f]} : f \in DOMAIN Files}
          \cup {KernelProps[i].value : i \in DOMAIN KernelProps}
\* Types; and the area never holds more properties than it has room for
TypeOK ==
    /\ area \in [Names -> Stored] /\ Count <= MaxCount
    /\ disk \in [Persistent -> Stored]
    /\ write.at \in {"none", "open", "write", "rename"}
    /\ {loaded, serving, override} \subseteq BOOLEAN
    /\ data \in {"real", "encrypted", "decrypted"}
    /\ saved \in [Persistent -> Stored] /\ dirty \subseteq Persistent /\ lastNet \in Names \cup {Unset}

\* A persistent property survives: whenever init is idle with /data mounted, the
\* area has the value that was last written whole, whatever power cuts fell
\* between the steps of write_persistent_property and however often the device
\* booted since (unless a newer value could not be written, or the area has no
\* room for the property at all)
SurvivesReboot ==
    Idle /\ data # "encrypted"
    => \A n \in Persistent : n \in dirty \/ saved[n] = Unset \/ area[n] = saved[n]
                             \/ (area[n] = Unset /\ Count = MaxCount)

\* ... and its file has that value, or is gone to a later write that fell short
FileIsWhole == \A n \in Persistent : saved[n] # Unset => disk[n] = saved[n]

\* "Don't write properties to disk until after we have read all default
\* properties": the file of a persistent property changes for a client or
\* because it was read back, never for a line of a file of defaults.  There is one
\* exception, which the comment does not know of: a build with local.prop whose
\* /data was encrypted reads that file once more in load_persist_props, when the
\* flag is already set, and its lines are written over what clients had set.
NoDefaultWritten ==
    disk' # disk =>
        \/ write.from \in {"client", "disk"}
        \/ write.from = "local" /\ override /\ data = "decrypted"
DefaultsNotPersisted == [][NoDefaultWritten]_vars

\* What the kernel command line says of a ro. property holds for the whole boot:
\* no file loaded later and no client can change it
KernelHasTheWord ==
    \A i \in DOMAIN KernelProps : LET k == KernelProps[i] IN
        Class[k.name] = "ro" /\ (\A j \in 1..(i-1) : KernelProps[j].name # k.name)
        => area[k.name] \in {Unset, k.value}

\* net.change names the net. property set last, unless the area is full
NetChangeFollows ==
    lastNet # Unset /\ ~ (\E r \in Requests : r.name = NetChange)
    => area[NetChange] = lastNet \/ (area[NetChange] = Unset /\ Count = MaxCount)
================================================================================
