---------------------------- MODULE VulkanLayer ----------------------------
(***************************************************************************)
(* The Vulkan layer's own life cycle (redunar-capture-vulkan lib.rs and    *)
(* dispatch.rs): instances and devices are entered in tables under the     *)
(* address of the loader's dispatch table, and the producer, the overlay   *)
(* and the replay copies are told of the devices that can present. A game  *)
(* creates and destroys from several threads, and an address that was      *)
(* given back may be the next device's.                                    *)
(***************************************************************************)
EXTENDS Integers, Sequences, FiniteSets, Functions

CONSTANTS
    Threads,    \* threads of the game that create and destroy
    Instances,  \* addresses of instances' dispatch tables
    Devices,    \* addresses of devices' dispatch tables
    Requested   \* the launch asked for exported frames

None == "none"
ExportExtensions == {"fd", "foreign"}  \* the two ends of the three
Extensions == ExportExtensions \cup {"swapchain"}

VARIABLES
    call,       \* what each thread is doing
    instances,  \* the driver's instances: version and supported extensions
    known,      \* INSTANCES
    devices,    \* the driver's devices: instance, asked and enabled extensions
    table,      \* DEVICES
    game,       \* the device handles the game holds
    overlay,    \* the overlay's devices
    copies,     \* the replay copies' devices, with or without export
    producer    \* active_devices, initialized

vars == <<call, instances, known, devices, table, game, overlay, copies, producer>>

Idle == [at |-> None]
Nothing == [k \in {} |-> None]

Init ==
    /\ call = [t \in Threads |-> Idle]
    /\ instances = Nothing /\ known = Nothing
    /\ devices = Nothing /\ table = Nothing
    /\ game = {} /\ overlay = {} /\ copies = Nothing
    /\ producer = [active |-> 0, initialized |-> FALSE]

Put(f, k, v) == [x \in DOMAIN f \cup {k} |-> IF x = k THEN v ELSE f[x]]
Without(f, k) == Restrict(f, DOMAIN f \ {k})

Goes(t, step) == call' = [call EXCEPT ![t] = [at |-> step, key |-> call[t].key]]
Returns(t) == call' = [call EXCEPT ![t] = Idle]

----------------------------------------------------------------------------
(* Instances: made by the driver, then entered.                            *)

CreateInstance(t, i, version, supported) ==
    /\ call[t] = Idle /\ i \notin DOMAIN instances
    /\ instances' = Put(instances, i, [version |-> version, supported |-> supported])
    /\ call' = [call EXCEPT ![t] = [at |-> "insert_instance", key |-> i]]
    /\ UNCHANGED <<known, devices, table, game, overlay, copies, producer>>

InsertInstance(t) ==
    /\ call[t].at = "insert_instance"
    /\ known' = Put(known, call[t].key, [version |-> instances[call[t].key].version])
    /\ Returns(t)
    /\ UNCHANGED <<instances, devices, table, game, overlay, copies, producer>>

(* Only after its devices, and by one thread. *)
DestroyInstance(t, i) ==
    /\ call[t] = Idle /\ i \in DOMAIN known
    /\ \A d \in DOMAIN devices : devices[d].instance # i
    /\ \A u \in Threads : call[u].at = "create" => call[u].instance # i
    /\ known' = Without(known, i)
    /\ call' = [call EXCEPT ![t] = [at |-> "next_instance", key |-> i]]
    /\ UNCHANGED <<instances, devices, table, game, overlay, copies, producer>>

NextDestroyInstance(t) ==
    /\ call[t].at = "next_instance"
    /\ instances' = Without(instances, call[t].key)
    /\ Returns(t)
    /\ UNCHANGED <<known, devices, table, game, overlay, copies, producer>>

----------------------------------------------------------------------------
(* producer_export_core_ready: "fail capture closed on 1.0". *)
CoreReady(i) == i \in DOMAIN known /\ known[i].version >= 11

Presents(extensions) == "swapchain" \in extensions

(* replay_device_extensions: the game's list with what exporting needs,    *)
(* when the launch wants it and the device has all of it.                  *)
Forwarded(i, asked) ==
    IF /\ Requested /\ Presents(asked) /\ CoreReady(i)
       /\ ExportExtensions \ asked \subseteq instances[i].supported
    THEN asked \cup ExportExtensions ELSE asked

(* What the replay copies may be told of a device, unless the driver       *)
(* says that its buffers cannot be exported.                               *)
ExportSupport(i, enabled) == ExportExtensions \subseteq enabled /\ CoreReady(i)

CreateDevice(t, i, asked) ==
    /\ call[t] = Idle /\ i \in DOMAIN known
    /\ asked \cap ExportExtensions \subseteq instances[i].supported
    /\ call' = [call EXCEPT ![t] = [at |-> "create", instance |-> i, asked |-> asked,
                                    enabled |-> Forwarded(i, asked)]]
    /\ UNCHANGED <<instances, known, devices, table, game, overlay, copies, producer>>

(* The next layer makes the device, under an address that is free, or      *)
(* refuses.                                                                *)
NextCreateDevice(t) ==
    /\ call[t].at = "create"
    /\ \/ \E d \in Devices :
            /\ d \notin DOMAIN devices
            /\ devices' = Put(devices, d, [instance |-> call[t].instance, asked |-> call[t].asked,
                                           enabled |-> call[t].enabled])
            /\ call' = [call EXCEPT ![t] = [at |-> "insert", key |-> d]]
       \/ Returns(t) /\ UNCHANGED devices
    /\ UNCHANGED <<instances, known, table, game, overlay, copies, producer>>

InsertDevice(t) ==
    LET d == call[t].key
        enabled == Presents(devices[d].asked) IN
    /\ call[t].at = "insert"
    /\ table' = Put(table, d, [presentation_enabled |-> enabled])
    /\ IF enabled THEN Goes(t, "producer") /\ UNCHANGED game
                  ELSE Returns(t) /\ game' = game \cup {d}
    /\ UNCHANGED <<instances, known, devices, overlay, copies, producer>>

(* producer::device_created: the first one starts the session. *)
ProducerCreated(t) ==
    /\ call[t].at = "producer" /\ Goes(t, "overlay")
    /\ producer' = [active |-> producer.active + 1, initialized |-> TRUE]
    /\ UNCHANGED <<instances, known, devices, table, game, overlay, copies>>

OverlayCreated(t) ==
    /\ call[t].at = "overlay" /\ Goes(t, "copies")
    /\ overlay' = overlay \cup {call[t].key}
    /\ UNCHANGED <<instances, known, devices, table, game, copies, producer>>

CopiesCreated(t) ==
    LET d == call[t].key IN
    /\ call[t].at = "copies" /\ Returns(t)
    /\ \E export \in {FALSE, ExportSupport(devices[d].instance, devices[d].enabled)} :
        copies' = Put(copies, d, [export |-> export])
    /\ game' = game \cup {d}
    /\ UNCHANGED <<instances, known, devices, table, overlay, producer>>

----------------------------------------------------------------------------
\* Variant of Teardown: the entry stays until the device is gone.
TeardownEntryLast(entry) ==
    IF entry.presentation_enabled
    THEN <<"uncopy", "unoverlay", "unproducer", "next", "remove">> ELSE <<"next", "remove">>
\* Variant of Teardown: the device goes before what was made on it.
TeardownDeviceFirst(entry) ==
    IF entry.presentation_enabled
    THEN <<"remove", "next", "uncopy", "unoverlay", "unproducer">> ELSE <<"remove", "next">>
(* destroy_device: the entry, what was made on the device, the device.     *)
Teardown(entry) ==
    IF entry.presentation_enabled
    THEN <<"remove", "uncopy", "unoverlay", "unproducer", "next">> ELSE <<"remove", "next">>

(* A device without an entry would be left to itself. *)
DestroyDevice(t, d) ==
    /\ call[t] = Idle /\ d \in game /\ d \in DOMAIN table
    /\ game' = game \ {d}
    /\ call' = [call EXCEPT ![t] = [at |-> "destroy", key |-> d, todo |-> Teardown(table[d])]]
    /\ UNCHANGED <<instances, known, devices, table, overlay, copies, producer>>

(* The next step of a destruction. *)
Does(t, step) ==
    /\ call[t].at = "destroy" /\ Head(call[t].todo) = step
    /\ IF Len(call[t].todo) = 1 THEN Returns(t)
       ELSE call' = [call EXCEPT ![t] = [at |-> "destroy", key |-> call[t].key,
                                         todo |-> Tail(call[t].todo)]]

RemoveDevice(t) ==
    /\ Does(t, "remove") /\ table' = Without(table, call[t].key)
    /\ UNCHANGED <<instances, known, devices, game, overlay, copies, producer>>

CopiesDestroyed(t) ==
    /\ Does(t, "uncopy") /\ copies' = Without(copies, call[t].key)
    /\ UNCHANGED <<instances, known, devices, table, game, overlay, producer>>

OverlayDestroyed(t) ==
    /\ Does(t, "unoverlay") /\ overlay' = overlay \ {call[t].key}
    /\ UNCHANGED <<instances, known, devices, table, game, copies, producer>>

\* Variant of Remaining: the session is closed with any device.
RemainingNone == 0
Remaining == producer.active - 1

(* producer::device_destroyed: the last one closes the session. *)
ProducerDestroyed(t) ==
    /\ Does(t, "unproducer")
    /\ producer' = [active |-> Remaining, initialized |-> Remaining # 0]
    /\ UNCHANGED <<instances, known, devices, table, game, overlay, copies>>

NextDestroyDevice(t) ==
    /\ Does(t, "next") /\ devices' = Without(devices, call[t].key)
    /\ UNCHANGED <<instances, known, table, game, overlay, copies, producer>>

----------------------------------------------------------------------------
Step(t) ==
    \/ InsertInstance(t) \/ NextDestroyInstance(t) \/ NextCreateDevice(t) \/ InsertDevice(t)
    \/ ProducerCreated(t) \/ OverlayCreated(t) \/ CopiesCreated(t)
    \/ RemoveDevice(t) \/ CopiesDestroyed(t) \/ OverlayDestroyed(t) \/ ProducerDestroyed(t)
    \/ NextDestroyDevice(t)

Next ==
    \E t \in Threads :
        \/ Step(t)
        \/ \E i \in Instances :
             \/ \E version \in {10, 11}, supported \in SUBSET ExportExtensions :
                    CreateInstance(t, i, version, supported)
             \/ DestroyInstance(t, i)
             \/ \E asked \in SUBSET Extensions : CreateDevice(t, i, asked)
        \/ \E d \in game : DestroyDevice(t, d)

Spec == Init /\ [][Next]_vars

----------------------------------------------------------------------------
Quiet == \A t \in Threads : call[t] = Idle
Presenting == {d \in game : Presents(devices[d].asked)}

(* The layer's tables describe the devices the game holds, although        *)
(* addresses are used again while other threads create and destroy.        *)
TableTrue ==
    \A d \in game :
        /\ d \in DOMAIN devices \cap DOMAIN table
        /\ table[d].presentation_enabled = Presents(devices[d].asked)

(* What the layer makes on a device is gone when the driver's device is.   *)
WithinDevice == overlay \cup DOMAIN copies \subseteq DOMAIN devices

(* "Offscreen and interop devices do not own a presentation source": when  *)
(* no call is under way the producer counts, and the overlay and the       *)
(* copies know, exactly the devices that present, and the session lasts    *)
(* exactly as long as there is one.                                        *)
Balanced ==
    Quiet =>
        /\ producer = [active |-> Cardinality(Presenting), initialized |-> Presenting # {}]
        /\ overlay = Presenting /\ DOMAIN copies = Presenting

(* "Preserve the game's exact API request and fail capture closed on 1.0": *)
(* a device gets more than the game asked for only to export what it       *)
(* presents, and export is offered only where all of it is enabled.        *)
RequestKept ==
    /\ \A d \in DOMAIN devices :
        devices[d].enabled # devices[d].asked =>
            /\ Requested /\ Presents(devices[d].asked)
            /\ instances[devices[d].instance].version >= 11
    /\ \A d \in DOMAIN copies :
        copies[d].export => /\ ExportExtensions \subseteq devices[d].enabled
                            /\ instances[devices[d].instance].version >= 11

(* What the layer adds to a device stays within what the game asked for    *)
(* and within the life of the driver's device.                             *)
DevicesKept == WithinDevice /\ RequestKept
=============================================================================
