--------------------------- MODULE VulkanLayerProofs ---------------------------
(***************************************************************************)
(* Proofs about VulkanLayer for any set of game threads, any addresses of  *)
(* instances and devices, and a launch that asks for exported frames or    *)
(* does not.                                                               *)
(***************************************************************************)
EXTENDS VulkanLayer, FiniteSetTheorems, TLAPS

(* What is left of a destruction, from all of it to the driver's call. *)
All == <<"remove", "uncopy", "unoverlay", "unproducer", "next">>
FromCopies == <<"uncopy", "unoverlay", "unproducer", "next">>
FromOverlay == <<"unoverlay", "unproducer", "next">>
FromProducer == <<"unproducer", "next">>
Plain == <<"remove", "next">>
Last == <<"next">>
Todos == {All, FromCopies, FromOverlay, FromProducer, Plain, Last}

(* A thread that has a device in its hands, and one that has an instance. *)
Making == {"insert", "producer", "overlay", "copies"}
Owns(t) == call[t].at \in Making \cup {"destroy"}
OwnsInstance(t) == call[t].at \in {"insert_instance", "next_instance"}

CallShape ==
    /\ DOMAIN call = Threads
    /\ \A t \in Threads : call[t].at = "destroy" => call[t].todo \in Todos

(* A device is in one pair of hands: the game's or those of one thread. *)
OneHolder ==
    /\ game \subseteq DOMAIN devices
    /\ \A t \in Threads : Owns(t) => call[t].key \in DOMAIN devices \ game
    /\ \A t, u \in Threads : Owns(t) /\ Owns(u) /\ call[t].key = call[u].key => t = u
    /\ \A d \in DOMAIN devices : d \in game \/ \E t \in Threads : Owns(t) /\ call[t].key = d

(* The entry of a device that is in the table. *)
EntryTrue(d) ==
    /\ d \in DOMAIN table
    /\ table[d].presentation_enabled = Presents(devices[d].asked)

Entered ==
    /\ \A d \in game : EntryTrue(d)
    /\ \A t \in Threads : call[t].at \in {"producer", "overlay", "copies"} =>
         Presents(devices[call[t].key].asked) /\ EntryTrue(call[t].key)

(* An instance that is known is the driver's; one that is entered or destroyed is in *)
(* one thread's hands; and what is known stays until its devices are gone.           *)
KnownTrue ==
    \A i \in DOMAIN known : i \in DOMAIN instances /\ known[i].version = instances[i].version
OneTaker ==
    /\ \A t \in Threads : OwnsInstance(t) => call[t].key \in DOMAIN instances \ DOMAIN known
    /\ \A t, u \in Threads : OwnsInstance(t) /\ OwnsInstance(u) /\ call[t].key = call[u].key => t = u
InUse ==
    /\ \A t \in Threads : call[t].at = "create" => call[t].instance \in DOMAIN known
    /\ \A d \in DOMAIN devices : devices[d].instance \in DOMAIN known
InstanceHeld == KnownTrue /\ OneTaker /\ InUse

(* What the overlay and the copies have of a device, at each step of its life. *)
OverlayExact ==
    /\ overlay \subseteq DOMAIN devices
    /\ \A d \in game : d \in overlay <=> Presents(devices[d].asked)
    /\ \A t \in Threads : call[t].at \in {"insert", "producer", "overlay"} => call[t].key \notin overlay
    /\ \A t \in Threads : call[t].at = "copies" => call[t].key \in overlay
    /\ \A t \in Threads : call[t].at = "destroy" =>
         (call[t].key \in overlay <=> call[t].todo \in {All, FromCopies, FromOverlay})

CopiesExact ==
    /\ DOMAIN copies \subseteq DOMAIN devices
    /\ \A d \in game : d \in DOMAIN copies <=> Presents(devices[d].asked)
    /\ \A t \in Threads : call[t].at \in Making => call[t].key \notin DOMAIN copies
    /\ \A t \in Threads : call[t].at = "destroy" =>
         (call[t].key \in DOMAIN copies <=> call[t].todo \in {All, FromCopies})

(* The devices the producer was told of and not yet told to forget. *)
Counts(t) ==
    \/ call[t].at \in {"overlay", "copies"}
    \/ call[t].at = "destroy" /\ call[t].todo \in {All, FromCopies, FromOverlay, FromProducer}
Counted == {d \in DOMAIN devices : \/ d \in game /\ Presents(devices[d].asked)
                                   \/ \E t \in Threads : Counts(t) /\ call[t].key = d}
ProducerExact ==
    /\ IsFiniteSet(Counted)
    /\ producer = [active |-> Cardinality(Counted), initialized |-> Counted # {}]

(* A request under way obeys what RequestKept says of a device. *)
Asked ==
    \A t \in Threads : call[t].at = "create" /\ call[t].enabled # call[t].asked =>
        /\ Requested /\ Presents(call[t].asked)
        /\ instances[call[t].instance].version >= 11

VInv == /\ CallShape /\ OneHolder /\ Entered /\ InstanceHeld /\ OverlayExact /\ CopiesExact
        /\ ProducerExact /\ Asked /\ RequestKept

-----------------------------------------------------------------------------
(* A call's step is the thread's own. *)
LEMMA CallFacts ==
    ASSUME CallShape, NEW t \in Threads, NEW c, call' = [call EXCEPT ![t] = c]
    PROVE  /\ DOMAIN call' = Threads /\ call'[t] = c
           /\ \A u \in Threads : u # t => call'[u] = call[u]
BY DEF CallShape

LEMMA IdleFacts == Idle.at = "none"
BY DEF Idle, None

(* The order of a destruction, one step after the other. *)
LEMMA TodoFacts ==
    /\ Head(All) = "remove" /\ Tail(All) = FromCopies /\ Len(All) = 5
    /\ Head(FromCopies) = "uncopy" /\ Tail(FromCopies) = FromOverlay /\ Len(FromCopies) = 4
    /\ Head(FromOverlay) = "unoverlay" /\ Tail(FromOverlay) = FromProducer /\ Len(FromOverlay) = 3
    /\ Head(FromProducer) = "unproducer" /\ Tail(FromProducer) = Last /\ Len(FromProducer) = 2
    /\ Head(Plain) = "remove" /\ Tail(Plain) = Last /\ Len(Plain) = 2
    /\ Head(Last) = "next" /\ Len(Last) = 1
<1>1. Head(All) = "remove" /\ Tail(All) = FromCopies /\ Len(All) = 5
  BY DEF All, FromCopies
<1>2. Head(FromCopies) = "uncopy" /\ Tail(FromCopies) = FromOverlay /\ Len(FromCopies) = 4
  BY DEF FromCopies, FromOverlay
<1>3. Head(FromOverlay) = "unoverlay" /\ Tail(FromOverlay) = FromProducer /\ Len(FromOverlay) = 3
  BY DEF FromProducer, FromOverlay
<1>4. Head(FromProducer) = "unproducer" /\ Tail(FromProducer) = Last /\ Len(FromProducer) = 2
  BY DEF FromProducer, Last
<1>5. Head(Plain) = "remove" /\ Tail(Plain) = Last /\ Len(Plain) = 2
  BY DEF Plain, Last
<1>6. Head(Last) = "next" /\ Len(Last) = 1
  BY DEF Last
<1> QED
  BY <1>1, <1>2, <1>3, <1>4, <1>5, <1>6

LEMMA TodoDistinct ==
    /\ FromOverlay \notin {All, FromCopies}
    /\ FromProducer \notin {All, FromCopies, FromOverlay}
    /\ Plain \notin {All, FromCopies, FromOverlay, FromProducer}
    /\ Last \notin {All, FromCopies, FromOverlay, FromProducer}
BY TodoFacts

LEMMA TodoSteps ==
    ASSUME NEW q \in Todos
    PROVE  /\ Head(q) = "remove" => q = All \/ q = Plain
           /\ Head(q) = "uncopy" => q = FromCopies
           /\ Head(q) = "unoverlay" => q = FromOverlay
           /\ Head(q) = "unproducer" => q = FromProducer
           /\ Head(q) = "next" => q = Last
BY TodoFacts DEF Todos

(* Each step of a destruction finds what is left of it and leaves the rest. *)
LEMMA DoesFacts ==
    ASSUME CallShape, NEW t \in Threads, NEW step, Does(t, step)
    PROVE  /\ call[t].at = "destroy" /\ call[t].todo \in Todos /\ Head(call[t].todo) = step
           /\ DOMAIN call' = Threads /\ \A u \in Threads : u # t => call'[u] = call[u]
           /\ \/ call[t].todo = Last /\ step = "next" /\ call'[t] = Idle
              \/ /\ call[t].todo # Last
                 /\ call'[t].at = "destroy" /\ call'[t].key = call[t].key
                 /\ call'[t].todo = Tail(call[t].todo)
<1>1. call[t].at = "destroy" /\ call[t].todo \in Todos /\ Head(call[t].todo) = step
  BY DEF CallShape, Does
<1>2. Len(call[t].todo) = 1 <=> call[t].todo = Last
  <2>1. Len(All) # 1 /\ Len(FromCopies) # 1 /\ Len(FromOverlay) # 1 /\ Len(FromProducer) # 1
        /\ Len(Plain) # 1 /\ Len(Last) = 1
    BY TodoFacts
  <2> QED
    BY <1>1, <2>1, Zenon DEF Todos
<1>3. CASE call[t].todo = Last
  BY <1>1, <1>2, <1>3, CallFacts, TodoFacts DEF Does, Returns
<1>4. CASE call[t].todo # Last
  <2>1. call' = [call EXCEPT ![t] = [at |-> "destroy", key |-> call[t].key, todo |-> Tail(call[t].todo)]]
    BY <1>2, <1>4 DEF Does
  <2>2. /\ DOMAIN call' = Threads /\ \A u \in Threads : u # t => call'[u] = call[u]
        /\ call'[t] = [at |-> "destroy", key |-> call[t].key, todo |-> Tail(call[t].todo)]
    BY <2>1, CallFacts
  <2> QED
    BY <1>1, <1>4, <2>2
<1> QED
  BY <1>3, <1>4

-----------------------------------------------------------------------------
(* A step of a thread that has no device in its hands and takes none leaves what is *)
(* known of the devices alone.                                                       *)
LEMMA DevicesAlone ==
    ASSUME VInv, NEW t \in Threads, ~Owns(t), ~Owns(t)',
           DOMAIN call' = Threads, \A u \in Threads : u # t => call'[u] = call[u],
           UNCHANGED <<devices, table, game, overlay, copies, producer>>
    PROVE  CallShape' /\ OneHolder' /\ Entered' /\ OverlayExact' /\ CopiesExact' /\ ProducerExact'
<1>1. CallShape'
  BY DEF VInv, CallShape, Owns
<1>2. OneHolder'
  BY DEF VInv, OneHolder, Owns
<1>3. Entered'
  BY DEF VInv, Entered, EntryTrue, Owns, Making
<1>4. OverlayExact'
  BY DEF VInv, OverlayExact, Owns, Making
<1>5. CopiesExact'
  BY DEF VInv, CopiesExact, Owns, Making
<1>6. ProducerExact'
  <2>1. \A u \in Threads : (Counts(u)' <=> Counts(u)) /\ (Counts(u) => call'[u] = call[u])
    BY DEF Counts, Owns, Making
  <2>2. Counted' = Counted
    BY <2>1 DEF Counted
  <2> QED
    BY <2>2 DEF VInv, ProducerExact
<1> QED
  BY <1>1, <1>2, <1>3, <1>4, <1>5, <1>6

LEMMA CreateInstanceKeeps ==
    ASSUME VInv, NEW t \in Threads, NEW i, NEW version, NEW supported,
           CreateInstance(t, i, version, supported)
    PROVE  VInv'
<1>0. /\ CallShape /\ KnownTrue /\ OneTaker /\ InUse /\ Asked /\ RequestKept
      /\ DOMAIN copies \subseteq DOMAIN devices
  BY DEF VInv, InstanceHeld, CopiesExact
<1>1. /\ call[t].at = "none" /\ i \notin DOMAIN instances
      /\ call'[t].at = "insert_instance" /\ call'[t].key = i
      /\ DOMAIN call' = Threads /\ \A u \in Threads : u # t => call'[u] = call[u]
  BY CallFacts, IdleFacts DEF VInv, CreateInstance
<1>2. /\ DOMAIN instances' = DOMAIN instances \cup {i}
      /\ \A j \in DOMAIN instances : instances'[j] = instances[j]
  <2>1. instances' = Put(instances, i, [version |-> version, supported |-> supported])
    BY DEF CreateInstance
  <2> QED
    BY <1>1, <2>1 DEF Put
<1>3. UNCHANGED <<known, devices, table, game, overlay, copies, producer>>
  BY DEF CreateInstance
<1>4. CallShape' /\ OneHolder' /\ Entered' /\ OverlayExact' /\ CopiesExact' /\ ProducerExact'
  BY <1>1, <1>3, DevicesAlone DEF Owns, Making
<1>5. InstanceHeld'
  <2>1. KnownTrue'
    BY <1>1, <1>2, <1>3, <1>0 DEF KnownTrue, OneTaker
  <2>2. OneTaker'
    BY <1>1, <1>2, <1>3, <1>0 DEF KnownTrue, OneTaker, OwnsInstance
  <2>3. InUse'
    BY <1>1, <1>2, <1>3, <1>0 DEF InUse
  <2> QED
    BY <2>1, <2>2, <2>3 DEF InstanceHeld
<1>6. Asked'
  BY <1>1, <1>2, <1>3, <1>0 DEF Asked, InUse, KnownTrue
<1>7. RequestKept'
  BY <1>2, <1>3, <1>0 DEF RequestKept, InUse, KnownTrue
<1> QED
  BY <1>4, <1>5, <1>6, <1>7 DEF VInv

LEMMA InsertInstanceKeeps ==
    ASSUME VInv, NEW t \in Threads, InsertInstance(t)
    PROVE  VInv'
<1> DEFINE i == call[t].key
<1>0. /\ CallShape /\ KnownTrue /\ OneTaker /\ InUse /\ Asked /\ RequestKept
      /\ DOMAIN copies \subseteq DOMAIN devices
  BY DEF VInv, InstanceHeld, CopiesExact
<1>1. /\ call[t].at = "insert_instance" /\ call'[t].at = "none"
      /\ DOMAIN call' = Threads /\ \A u \in Threads : u # t => call'[u] = call[u]
  BY CallFacts, IdleFacts DEF VInv, InsertInstance, Returns
<1>2. /\ DOMAIN known' = DOMAIN known \cup {i}
      /\ known'[i].version = instances[i].version
      /\ \A j \in DOMAIN known : j # i => known'[j] = known[j]
  <2>1. known' = Put(known, i, [version |-> instances[i].version])
    BY DEF InsertInstance
  <2> QED
    BY <2>1 DEF Put
<1>3. UNCHANGED <<instances, devices, table, game, overlay, copies, producer>>
  BY DEF InsertInstance
<1>4. CallShape' /\ OneHolder' /\ Entered' /\ OverlayExact' /\ CopiesExact' /\ ProducerExact'
  BY <1>1, <1>3, DevicesAlone DEF Owns, Making
<1>5. InstanceHeld'
  <2>1. KnownTrue'
    BY <1>1, <1>2, <1>3, <1>0 DEF KnownTrue, OneTaker, OwnsInstance
  <2>2. OneTaker'
    BY <1>1, <1>2, <1>3, <1>0 DEF KnownTrue, OneTaker, OwnsInstance
  <2>3. InUse'
    BY <1>1, <1>2, <1>3, <1>0 DEF InUse
  <2> QED
    BY <2>1, <2>2, <2>3 DEF InstanceHeld
<1>6. Asked'
  BY <1>1, <1>3, <1>0 DEF Asked
<1>7. RequestKept'
  BY <1>3, <1>0 DEF RequestKept
<1> QED
  BY <1>4, <1>5, <1>6, <1>7 DEF VInv

LEMMA DestroyInstanceKeeps ==
    ASSUME VInv, NEW t \in Threads, NEW i, DestroyInstance(t, i)
    PROVE  VInv'
<1>0. /\ CallShape /\ KnownTrue /\ OneTaker /\ InUse /\ Asked /\ RequestKept
      /\ DOMAIN copies \subseteq DOMAIN devices
  BY DEF VInv, InstanceHeld, CopiesExact
<1>1. /\ call[t].at = "none" /\ call'[t].at = "next_instance" /\ call'[t].key = i
      /\ DOMAIN call' = Threads /\ \A u \in Threads : u # t => call'[u] = call[u]
  BY CallFacts, IdleFacts DEF VInv, DestroyInstance
<1>2. /\ i \in DOMAIN known /\ DOMAIN known' = DOMAIN known \ {i}
      /\ \A j \in DOMAIN known : j # i => known'[j] = known[j]
      /\ \A d \in DOMAIN devices : devices[d].instance # i
      /\ \A u \in Threads : call[u].at = "create" => call[u].instance # i
  BY DEF DestroyInstance, Without, Restrict
<1>3. UNCHANGED <<instances, devices, table, game, overlay, copies, producer>>
  BY DEF DestroyInstance
<1>4. CallShape' /\ OneHolder' /\ Entered' /\ OverlayExact' /\ CopiesExact' /\ ProducerExact'
  BY <1>1, <1>3, DevicesAlone DEF Owns, Making
<1>5. InstanceHeld'
  <2>1. KnownTrue'
    BY <1>1, <1>2, <1>3, <1>0 DEF KnownTrue, OneTaker
  <2>2. OneTaker'
    BY <1>1, <1>2, <1>3, <1>0 DEF KnownTrue, OneTaker, OwnsInstance
  <2>3. InUse'
    BY <1>1, <1>2, <1>3, <1>0 DEF InUse
  <2> QED
    BY <2>1, <2>2, <2>3 DEF InstanceHeld
<1>6. Asked'
  BY <1>1, <1>3, <1>0 DEF Asked
<1>7. RequestKept'
  BY <1>3, <1>0 DEF RequestKept
<1> QED
  BY <1>4, <1>5, <1>6, <1>7 DEF VInv

LEMMA NextDestroyInstanceKeeps ==
    ASSUME VInv, NEW t \in Threads, NextDestroyInstance(t)
    PROVE  VInv'
<1> DEFINE i == call[t].key
<1>0. /\ CallShape /\ KnownTrue /\ OneTaker /\ InUse /\ Asked /\ RequestKept
      /\ DOMAIN copies \subseteq DOMAIN devices
  BY DEF VInv, InstanceHeld, CopiesExact
<1>1. /\ call[t].at = "next_instance" /\ call'[t].at = "none"
      /\ DOMAIN call' = Threads /\ \A u \in Threads : u # t => call'[u] = call[u]
  BY CallFacts, IdleFacts DEF VInv, NextDestroyInstance, Returns
<1>2. /\ DOMAIN instances' = DOMAIN instances \ {i}
      /\ \A j \in DOMAIN instances : j # i => instances'[j] = instances[j]
  <2>1. instances' = Without(instances, i)
    BY DEF NextDestroyInstance
  <2> QED
    BY <2>1 DEF Without, Restrict
<1>3. UNCHANGED <<known, devices, table, game, overlay, copies, producer>>
  BY DEF NextDestroyInstance
<1>4. CallShape' /\ OneHolder' /\ Entered' /\ OverlayExact' /\ CopiesExact' /\ ProducerExact'
  BY <1>1, <1>3, DevicesAlone DEF Owns, Making
<1>5. i \notin DOMAIN known
  BY <1>0, <1>1 DEF OneTaker, OwnsInstance
<1>6. InstanceHeld'
  <2>1. KnownTrue'
    BY <1>1, <1>2, <1>3, <1>5, <1>0 DEF KnownTrue, OneTaker
  <2>2. OneTaker'
    BY <1>1, <1>2, <1>3, <1>5, <1>0 DEF KnownTrue, OneTaker, OwnsInstance
  <2>3. InUse'
    BY <1>1, <1>2, <1>3, <1>5, <1>0 DEF InUse
  <2> QED
    BY <2>1, <2>2, <2>3 DEF InstanceHeld
<1>7. Asked'
  BY <1>1, <1>2, <1>3, <1>5, <1>0 DEF Asked, InUse, KnownTrue
<1>8. RequestKept'
  BY <1>2, <1>3, <1>5, <1>0 DEF RequestKept, InUse, KnownTrue
<1> QED
  BY <1>4, <1>6, <1>7, <1>8 DEF VInv

LEMMA CreateDeviceKeeps ==
    ASSUME VInv, NEW t \in Threads, NEW i, NEW asked, CreateDevice(t, i, asked)
    PROVE  VInv'
<1>0. /\ CallShape /\ KnownTrue /\ OneTaker /\ InUse /\ Asked /\ RequestKept
      /\ DOMAIN copies \subseteq DOMAIN devices
  BY DEF VInv, InstanceHeld, CopiesExact
<1>1. /\ call[t].at = "none" /\ call'[t].at = "create" /\ call'[t].instance = i
      /\ call'[t].asked = asked /\ call'[t].enabled = Forwarded(i, asked)
      /\ DOMAIN call' = Threads /\ \A u \in Threads : u # t => call'[u] = call[u]
  BY CallFacts, IdleFacts DEF VInv, CreateDevice
<1>2. i \in DOMAIN known /\ UNCHANGED <<instances, known, devices, table, game, overlay, copies, producer>>
  BY DEF CreateDevice
<1>3. CallShape' /\ OneHolder' /\ Entered' /\ OverlayExact' /\ CopiesExact' /\ ProducerExact'
  BY <1>1, <1>2, DevicesAlone DEF Owns, Making
<1>4. InstanceHeld'
  <2>1. KnownTrue'
    BY <1>1, <1>2, <1>0 DEF KnownTrue, OneTaker
  <2>2. OneTaker'
    BY <1>1, <1>2, <1>0 DEF KnownTrue, OneTaker, OwnsInstance
  <2>3. InUse'
    BY <1>1, <1>2, <1>0 DEF InUse
  <2> QED
    BY <2>1, <2>2, <2>3 DEF InstanceHeld
<1>5. Forwarded(i, asked) # asked =>
        Requested /\ Presents(asked) /\ instances[i].version >= 11
  BY <1>2, <1>0 DEF Forwarded, CoreReady, KnownTrue
<1>6. Asked'
  BY <1>1, <1>2, <1>5, <1>0 DEF Asked
<1>7. RequestKept'
  BY <1>2, <1>0 DEF RequestKept
<1> QED
  BY <1>3, <1>4, <1>6, <1>7 DEF VInv

-----------------------------------------------------------------------------
(* A step that makes or destroys a device leaves the instances alone. *)
LEMMA InstancesAlone ==
    ASSUME VInv, NEW t \in Threads, ~OwnsInstance(t), ~OwnsInstance(t)', call'[t].at # "create",
           DOMAIN call' = Threads, \A u \in Threads : u # t => call'[u] = call[u],
           UNCHANGED <<instances, known>>,
           \A d \in DOMAIN devices' : devices'[d].instance \in DOMAIN known
    PROVE  InstanceHeld' /\ Asked'
<1>0. KnownTrue /\ OneTaker /\ InUse /\ Asked
  BY DEF VInv, InstanceHeld
<1>1. KnownTrue'
  BY <1>0 DEF KnownTrue
<1>2. OneTaker'
  BY <1>0 DEF OneTaker, OwnsInstance
<1>3. InUse'
  BY <1>0 DEF InUse
<1>4. Asked'
  BY <1>0 DEF Asked
<1> QED
  BY <1>1, <1>2, <1>3, <1>4 DEF InstanceHeld

LEMMA NextCreateDeviceKeeps ==
    ASSUME VInv, NEW t \in Threads, NextCreateDevice(t)
    PROVE  VInv'
<1>0. /\ CallShape /\ OneHolder /\ Entered /\ InUse /\ OverlayExact /\ CopiesExact
      /\ ProducerExact /\ Asked /\ RequestKept
  BY DEF VInv, InstanceHeld
<1>1. call[t].at = "create" /\ UNCHANGED <<instances, known, table, game, overlay, copies, producer>>
  BY DEF NextCreateDevice
<1>2. CASE Returns(t) /\ UNCHANGED devices
  <2>1. /\ call'[t].at = "none" /\ DOMAIN call' = Threads
        /\ \A u \in Threads : u # t => call'[u] = call[u]
    BY <1>0, <1>2, CallFacts, IdleFacts DEF Returns
  <2>2. CallShape' /\ OneHolder' /\ Entered' /\ OverlayExact' /\ CopiesExact' /\ ProducerExact'
    BY <1>1, <1>2, <2>1, DevicesAlone DEF Owns, Making
  <2>3. InstanceHeld' /\ Asked'
    BY <1>0, <1>1, <1>2, <2>1, InstancesAlone DEF OwnsInstance, InUse
  <2>4. RequestKept'
    BY <1>0, <1>1, <1>2 DEF RequestKept
  <2> QED
    BY <2>2, <2>3, <2>4 DEF VInv
<1>3. ASSUME NEW d, d \notin DOMAIN devices,
             devices' = Put(devices, d, [instance |-> call[t].instance, asked |-> call[t].asked,
                                         enabled |-> call[t].enabled]),
             call' = [call EXCEPT ![t] = [at |-> "insert", key |-> d]]
      PROVE  VInv'
  <2>1. /\ call'[t].at = "insert" /\ call'[t].key = d /\ DOMAIN call' = Threads
        /\ \A u \in Threads : u # t => call'[u] = call[u]
    BY <1>0, <1>3, CallFacts
  <2>2. /\ DOMAIN devices' = DOMAIN devices \cup {d}
        /\ \A x \in DOMAIN devices : devices'[x] = devices[x]
        /\ devices'[d].instance = call[t].instance
        /\ devices'[d].asked = call[t].asked /\ devices'[d].enabled = call[t].enabled
    BY <1>3 DEF Put
  <2>3. CallShape'
    BY <1>0, <2>1 DEF CallShape
  <2>4. OneHolder'
    BY <1>0, <1>1, <1>3, <2>1, <2>2 DEF OneHolder, Owns, Making
  <2>5. Entered'
    BY <1>0, <1>1, <1>3, <2>1, <2>2 DEF Entered, EntryTrue, OneHolder, Owns, Making
  <2>6. InstanceHeld' /\ Asked'
    BY <1>0, <1>1, <2>1, <2>2, InstancesAlone DEF OwnsInstance, InUse
  <2>7. OverlayExact'
    BY <1>0, <1>1, <1>3, <2>1, <2>2 DEF OverlayExact, OneHolder
  <2>8. CopiesExact'
    BY <1>0, <1>1, <1>3, <2>1, <2>2 DEF CopiesExact, OneHolder, Making
  <2>9. Counted' = Counted
    <3>1. d \notin game /\ \A u \in Threads : Counts(u) => call[u].key # d
      BY <1>0, <1>3 DEF OneHolder, Counts, Owns, Making
    <3>2. \A u \in Threads : (Counts(u)' <=> Counts(u)) /\ (Counts(u) => call'[u] = call[u])
      BY <1>1, <2>1 DEF Counts
    <3>3. \A x : (\E u \in Threads : Counts(u)' /\ call'[u].key = x)
                <=> (\E u \in Threads : Counts(u) /\ call[u].key = x)
      BY <3>2
    <3>4. \A x \in DOMAIN devices : x \in Counted' <=> x \in Counted
      BY <1>1, <2>2, <3>3 DEF Counted
    <3>5. d \notin Counted' /\ Counted' \subseteq DOMAIN devices' /\ Counted \subseteq DOMAIN devices
      BY <1>1, <3>1, <3>3 DEF Counted
    <3> QED
      BY <2>2, <3>4, <3>5
  <2>10. ProducerExact'
    BY <1>0, <1>1, <2>9 DEF ProducerExact
  <2>11. RequestKept'
    BY <1>0, <1>1, <1>3, <2>2 DEF RequestKept, Asked, CopiesExact
  <2> QED
    BY <2>3, <2>4, <2>5, <2>6, <2>7, <2>8, <2>10, <2>11 DEF VInv
<1> QED
  BY <1>2, <1>3 DEF NextCreateDevice

LEMMA InsertDeviceKeeps ==
    ASSUME VInv, NEW t \in Threads, InsertDevice(t)
    PROVE  VInv'
<1> DEFINE d == call[t].key
<1>0. /\ CallShape /\ OneHolder /\ Entered /\ InUse /\ OverlayExact /\ CopiesExact
      /\ ProducerExact /\ Asked /\ RequestKept
  BY DEF VInv, InstanceHeld
<1>1. /\ call[t].at = "insert"
      /\ UNCHANGED <<instances, known, devices, overlay, copies, producer>>
  BY DEF InsertDevice
<1>2. /\ DOMAIN table' = DOMAIN table \cup {d}
      /\ table'[d].presentation_enabled = Presents(devices[d].asked)
      /\ \A x \in DOMAIN table : x # d => table'[x] = table[x]
  BY DEF InsertDevice, Put
<1>3. DOMAIN call' = Threads /\ \A u \in Threads : u # t => call'[u] = call[u]
  BY <1>0, CallFacts DEF InsertDevice, Goes, Returns
<1>4. \/ /\ Presents(devices[d].asked) /\ game' = game
         /\ call'[t].at = "producer" /\ call'[t].key = d
      \/ /\ ~Presents(devices[d].asked) /\ game' = game \cup {d}
         /\ call'[t].at = "none"
  BY <1>0, CallFacts, IdleFacts DEF InsertDevice, Goes, Returns
<1>5. d \in DOMAIN devices /\ d \notin game /\ \A u \in Threads : u # t /\ Owns(u) => call[u].key # d
  BY <1>0, <1>1 DEF OneHolder, Owns, Making
<1>6. CallShape'
  BY <1>0, <1>3, <1>4 DEF CallShape
<1>7. OneHolder'
  BY <1>0, <1>1, <1>3, <1>4, <1>5 DEF OneHolder, Owns, Making
<1>8. Entered'
  BY <1>0, <1>1, <1>2, <1>3, <1>4, <1>5 DEF Entered, EntryTrue, Owns, Making
<1>9. InstanceHeld' /\ Asked'
  BY <1>0, <1>1, <1>3, <1>4, InstancesAlone DEF OwnsInstance, InUse
<1>10. OverlayExact'
  BY <1>0, <1>1, <1>3, <1>4 DEF OverlayExact
<1>11. CopiesExact'
  BY <1>0, <1>1, <1>3, <1>4 DEF CopiesExact, Making
<1>12. Counted' = Counted
  <2>1. \A u \in Threads : (Counts(u)' <=> Counts(u)) /\ (Counts(u) => call'[u] = call[u])
    BY <1>1, <1>3, <1>4 DEF Counts
  <2>2. \A x : x \in game' /\ Presents(devices[x].asked) <=> x \in game /\ Presents(devices[x].asked)
    BY <1>4
  <2> QED
    BY <1>1, <2>1, <2>2 DEF Counted
<1>13. ProducerExact'
  BY <1>0, <1>1, <1>12 DEF ProducerExact
<1>14. RequestKept'
  BY <1>0, <1>1 DEF RequestKept
<1> QED
  BY <1>6, <1>7, <1>8, <1>9, <1>10, <1>11, <1>13, <1>14 DEF VInv

LEMMA ProducerCreatedKeeps ==
    ASSUME VInv, NEW t \in Threads, ProducerCreated(t)
    PROVE  VInv'
<1> DEFINE d == call[t].key
<1>0. /\ CallShape /\ OneHolder /\ Entered /\ InUse /\ OverlayExact /\ CopiesExact
      /\ ProducerExact /\ Asked /\ RequestKept
  BY DEF VInv, InstanceHeld
<1>1. /\ call[t].at = "producer" /\ producer' = [active |-> producer.active + 1, initialized |-> TRUE]
      /\ UNCHANGED <<instances, known, devices, table, game, overlay, copies>>
  BY DEF ProducerCreated
<1>2. /\ call'[t].at = "overlay" /\ call'[t].key = d /\ DOMAIN call' = Threads
      /\ \A u \in Threads : u # t => call'[u] = call[u]
  BY <1>0, CallFacts DEF ProducerCreated, Goes
<1>3. d \in DOMAIN devices /\ d \notin game /\ \A u \in Threads : u # t /\ Owns(u) => call[u].key # d
  BY <1>0, <1>1 DEF OneHolder, Owns, Making
<1>4. CallShape'
  BY <1>0, <1>2 DEF CallShape
<1>5. OneHolder'
  BY <1>0, <1>1, <1>2 DEF OneHolder, Owns, Making
<1>6. Entered'
  BY <1>0, <1>1, <1>2 DEF Entered, EntryTrue
<1>7. InstanceHeld' /\ Asked'
  BY <1>0, <1>1, <1>2, InstancesAlone DEF OwnsInstance, InUse
<1>8. OverlayExact'
  BY <1>0, <1>1, <1>2 DEF OverlayExact
<1>9. CopiesExact'
  BY <1>0, <1>1, <1>2 DEF CopiesExact, Making
<1>10. ProducerExact'
  <2>1. \A u \in Threads : u # t => (Counts(u)' <=> Counts(u)) /\ (Counts(u) => Owns(u))
    BY <1>2 DEF Counts, Owns, Making
  <2>2. ~Counts(t) /\ Counts(t)'
    BY <1>1, <1>2 DEF Counts
  <2>3. d \notin Counted
    BY <1>3, <2>1, <2>2 DEF Counted
  <2>4. d \in Counted'
    BY <1>1, <1>2, <1>3, <2>2 DEF Counted
  <2>5. \A x : x # d => (x \in Counted' <=> x \in Counted)
    BY <1>1, <1>2, <2>1, <2>2 DEF Counted
  <2>6. Counted' = Counted \cup {d}
    BY <2>4, <2>5
  <2>7. IsFiniteSet(Counted') /\ Cardinality(Counted') = Cardinality(Counted) + 1
    BY <1>0, <2>3, <2>6, FS_AddElement DEF ProducerExact
  <2> QED
    BY <1>0, <1>1, <2>4, <2>7 DEF ProducerExact
<1>11. RequestKept'
  BY <1>0, <1>1 DEF RequestKept
<1> QED
  BY <1>4, <1>5, <1>6, <1>7, <1>8, <1>9, <1>10, <1>11 DEF VInv

LEMMA OverlayCreatedKeeps ==
    ASSUME VInv, NEW t \in Threads, OverlayCreated(t)
    PROVE  VInv'
<1> DEFINE d == call[t].key
<1>0. /\ CallShape /\ OneHolder /\ Entered /\ InUse /\ OverlayExact /\ CopiesExact
      /\ ProducerExact /\ Asked /\ RequestKept
  BY DEF VInv, InstanceHeld
<1>1. /\ call[t].at = "overlay" /\ overlay' = overlay \cup {d}
      /\ UNCHANGED <<instances, known, devices, table, game, copies, producer>>
  BY DEF OverlayCreated
<1>2. /\ call'[t].at = "copies" /\ call'[t].key = d /\ DOMAIN call' = Threads
      /\ \A u \in Threads : u # t => call'[u] = call[u]
  BY <1>0, CallFacts DEF OverlayCreated, Goes
<1>3. d \in DOMAIN devices /\ d \notin game /\ \A u \in Threads : u # t /\ Owns(u) => call[u].key # d
  BY <1>0, <1>1 DEF OneHolder, Owns, Making
<1>4. CallShape'
  BY <1>0, <1>2 DEF CallShape
<1>5. OneHolder'
  BY <1>0, <1>1, <1>2 DEF OneHolder, Owns, Making
<1>6. Entered'
  BY <1>0, <1>1, <1>2 DEF Entered, EntryTrue
<1>7. InstanceHeld' /\ Asked'
  BY <1>0, <1>1, <1>2, InstancesAlone DEF OwnsInstance, InUse
<1>8. OverlayExact'
  BY <1>0, <1>1, <1>2, <1>3 DEF OverlayExact, Owns, Making
<1>9. CopiesExact'
  BY <1>0, <1>1, <1>2 DEF CopiesExact, Making
<1>10. ProducerExact'
  <2>1. \A u \in Threads : (Counts(u)' <=> Counts(u)) /\ call'[u].key = call[u].key
    BY <1>1, <1>2 DEF Counts
  <2>2. Counted' = Counted
    BY <1>1, <2>1 DEF Counted
  <2> QED
    BY <1>0, <1>1, <2>2 DEF ProducerExact
<1>11. RequestKept'
  BY <1>0, <1>1 DEF RequestKept
<1> QED
  BY <1>4, <1>5, <1>6, <1>7, <1>8, <1>9, <1>10, <1>11 DEF VInv

LEMMA CopiesCreatedKeeps ==
    ASSUME VInv, NEW t \in Threads, CopiesCreated(t)
    PROVE  VInv'
<1> DEFINE d == call[t].key
<1>0. /\ CallShape /\ OneHolder /\ Entered /\ InUse /\ OverlayExact /\ CopiesExact
      /\ ProducerExact /\ Asked /\ RequestKept /\ KnownTrue
  BY DEF VInv, InstanceHeld
<1>1. /\ call[t].at = "copies" /\ game' = game \cup {d}
      /\ UNCHANGED <<instances, known, devices, table, overlay, producer>>
  BY DEF CopiesCreated
<1>2. /\ call'[t].at = "none" /\ DOMAIN call' = Threads
      /\ \A u \in Threads : u # t => call'[u] = call[u]
  BY <1>0, CallFacts, IdleFacts DEF CopiesCreated, Returns
<1>3. d \in DOMAIN devices /\ d \notin game /\ \A u \in Threads : u # t /\ Owns(u) => call[u].key # d
  BY <1>0, <1>1 DEF OneHolder, Owns, Making
<1>4. Presents(devices[d].asked) /\ EntryTrue(d) /\ d \in overlay
  BY <1>0, <1>1 DEF Entered, OverlayExact
<1>5. PICK export \in {FALSE, ExportSupport(devices[d].instance, devices[d].enabled)} :
        copies' = Put(copies, d, [export |-> export])
  BY DEF CopiesCreated
<1>6. /\ DOMAIN copies' = DOMAIN copies \cup {d} /\ copies'[d].export = export
      /\ \A x \in DOMAIN copies : x # d => copies'[x] = copies[x]
  BY <1>5 DEF Put
<1>7. CallShape'
  BY <1>0, <1>2 DEF CallShape
<1>8. OneHolder'
  BY <1>0, <1>1, <1>2, <1>3 DEF OneHolder, Owns, Making
<1>9. Entered'
  BY <1>0, <1>1, <1>2, <1>4 DEF Entered, EntryTrue
<1>10. InstanceHeld' /\ Asked'
  BY <1>0, <1>1, <1>2, InstancesAlone DEF OwnsInstance, InUse
<1>11. OverlayExact'
  BY <1>0, <1>1, <1>2, <1>4 DEF OverlayExact
<1>12. CopiesExact'
  BY <1>0, <1>1, <1>2, <1>3, <1>4, <1>6 DEF CopiesExact, Owns, Making
<1>13. ProducerExact'
  <2>1. \A u \in Threads : u # t => (Counts(u)' <=> Counts(u)) /\ call'[u].key = call[u].key
    BY <1>2 DEF Counts
  <2>2. Counts(t) /\ ~Counts(t)'
    BY <1>1, <1>2 DEF Counts
  <2>3. d \in Counted /\ d \in Counted'
    BY <1>1, <1>3, <1>4, <2>2 DEF Counted
  <2>4. \A x : x # d => (x \in Counted' <=> x \in Counted)
    BY <1>1, <2>1, <2>2 DEF Counted
  <2>5. Counted' = Counted
    BY <2>3, <2>4
  <2> QED
    BY <1>0, <1>1, <2>5 DEF ProducerExact
<1>14. RequestKept'
  <2>1. export => /\ ExportExtensions \subseteq devices[d].enabled
                  /\ instances[devices[d].instance].version >= 11
    BY <1>0, <1>3, <1>5 DEF ExportSupport, CoreReady, KnownTrue
  <2> QED
    BY <1>0, <1>1, <1>6, <2>1 DEF RequestKept
<1> QED
  BY <1>7, <1>8, <1>9, <1>10, <1>11, <1>12, <1>13, <1>14 DEF VInv

LEMMA DestroyDeviceKeeps ==
    ASSUME VInv, NEW t \in Threads, NEW d, DestroyDevice(t, d)
    PROVE  VInv'
<1>0. /\ CallShape /\ OneHolder /\ Entered /\ InUse /\ OverlayExact /\ CopiesExact
      /\ ProducerExact /\ Asked /\ RequestKept
  BY DEF VInv, InstanceHeld
<1>1. /\ call[t].at = "none" /\ d \in game /\ game' = game \ {d}
      /\ UNCHANGED <<instances, known, devices, table, overlay, copies, producer>>
  BY IdleFacts DEF DestroyDevice
<1>2. /\ call'[t].at = "destroy" /\ call'[t].key = d /\ call'[t].todo = Teardown(table[d])
      /\ DOMAIN call' = Threads /\ \A u \in Threads : u # t => call'[u] = call[u]
  BY <1>0, CallFacts DEF DestroyDevice
<1>3. d \in DOMAIN devices /\ \A u \in Threads : Owns(u) => call[u].key # d
  BY <1>0, <1>1 DEF OneHolder
<1>4. IF Presents(devices[d].asked) THEN call'[t].todo = All ELSE call'[t].todo = Plain
  BY <1>0, <1>1, <1>2 DEF Entered, EntryTrue, Teardown, All, Plain
<1>5. CallShape'
  BY <1>0, <1>2, <1>4 DEF CallShape, Todos
<1>6. OneHolder'
  BY <1>0, <1>1, <1>2, <1>3 DEF OneHolder, Owns, Making
<1>7. Entered'
  BY <1>0, <1>1, <1>2 DEF Entered, EntryTrue
<1>8. InstanceHeld' /\ Asked'
  BY <1>0, <1>1, <1>2, InstancesAlone DEF OwnsInstance, InUse
<1>9. OverlayExact'
  BY <1>0, <1>1, <1>2, <1>4, TodoDistinct DEF OverlayExact
<1>10. CopiesExact'
  BY <1>0, <1>1, <1>2, <1>4, TodoDistinct DEF CopiesExact, Making
<1>11. ProducerExact'
  <2>1. \A u \in Threads : u # t => (Counts(u)' <=> Counts(u)) /\ call'[u].key = call[u].key
    BY <1>2 DEF Counts
  <2>2. ~Counts(t) /\ (Counts(t)' <=> Presents(devices[d].asked))
    BY <1>1, <1>2, <1>4, TodoDistinct DEF Counts
  <2>3. \A u \in Threads : Counts(u) => call[u].key # d
    BY <1>3 DEF Counts, Owns, Making
  <2>4. d \in Counted <=> d \in Counted'
    BY <1>1, <1>2, <1>3, <2>1, <2>2, <2>3 DEF Counted
  <2>5. \A x : x # d => (x \in Counted' <=> x \in Counted)
    BY <1>1, <1>2, <2>1, <2>2 DEF Counted
  <2>6. Counted' = Counted
    BY <2>4, <2>5
  <2> QED
    BY <1>0, <1>1, <2>6 DEF ProducerExact
<1>12. RequestKept'
  BY <1>0, <1>1 DEF RequestKept
<1> QED
  BY <1>5, <1>6, <1>7, <1>8, <1>9, <1>10, <1>11, <1>12 DEF VInv

(* A step of a destruction before the last: the device stays with its thread. *)
LEMMA DestroyStep ==
    ASSUME VInv, NEW t \in Threads, NEW step, Does(t, step), step # "next",
           UNCHANGED <<instances, known, devices, game>>
    PROVE  /\ call[t].at = "destroy" /\ call[t].todo \in Todos /\ Head(call[t].todo) = step
           /\ call'[t].at = "destroy" /\ call'[t].key = call[t].key
           /\ call'[t].todo = Tail(call[t].todo)
           /\ DOMAIN call' = Threads /\ \A u \in Threads : u # t => call'[u] = call[u]
           /\ call[t].key \in DOMAIN devices \ game
           /\ \A u \in Threads : u # t /\ Owns(u) => call[u].key # call[t].key
           /\ CallShape' /\ OneHolder' /\ InstanceHeld' /\ Asked'
<1>0. CallShape /\ OneHolder /\ InUse
  BY DEF VInv, InstanceHeld
<1>1. /\ call[t].at = "destroy" /\ call[t].todo \in Todos /\ Head(call[t].todo) = step
      /\ call'[t].at = "destroy" /\ call'[t].key = call[t].key
      /\ call'[t].todo = Tail(call[t].todo)
      /\ DOMAIN call' = Threads /\ \A u \in Threads : u # t => call'[u] = call[u]
  <2>1. /\ call[t].at = "destroy" /\ call[t].todo \in Todos /\ Head(call[t].todo) = step
        /\ DOMAIN call' = Threads /\ \A u \in Threads : u # t => call'[u] = call[u]
    BY <1>0, DoesFacts
  <2>2. /\ call'[t].at = "destroy" /\ call'[t].key = call[t].key
        /\ call'[t].todo = Tail(call[t].todo)
    <3>1. \/ call[t].todo = Last /\ step = "next" /\ call'[t] = Idle
          \/ /\ call[t].todo # Last
             /\ call'[t].at = "destroy" /\ call'[t].key = call[t].key
             /\ call'[t].todo = Tail(call[t].todo)
      BY <1>0, DoesFacts
    <3> QED
      BY <3>1
  <2> QED
    BY <2>1, <2>2
<1>2. /\ call[t].key \in DOMAIN devices \ game
      /\ \A u \in Threads : u # t /\ Owns(u) => call[u].key # call[t].key
  BY <1>0, <1>1 DEF OneHolder, Owns
<1>3. CallShape'
  <2>1. call[t].todo # Last
    BY <1>1, TodoFacts
  <2>2. Tail(call[t].todo) \in Todos
    BY <1>1, <2>1, TodoFacts DEF Todos
  <2> QED
    BY <1>0, <1>1, <2>2 DEF CallShape
<1>4. OneHolder'
  BY <1>0, <1>1 DEF OneHolder, Owns
<1>5. InstanceHeld' /\ Asked'
  BY <1>0, <1>1, InstancesAlone DEF OwnsInstance, InUse
<1> QED
  BY <1>1, <1>2, <1>3, <1>4, <1>5

LEMMA RemoveDeviceKeeps ==
    ASSUME VInv, NEW t \in Threads, RemoveDevice(t)
    PROVE  VInv'
<1>0. /\ CallShape /\ OneHolder /\ Entered /\ InUse /\ OverlayExact /\ CopiesExact
      /\ ProducerExact /\ Asked /\ RequestKept
  BY DEF VInv, InstanceHeld
<1>1. /\ Does(t, "remove") /\ table' = Without(table, call[t].key)
      /\ UNCHANGED <<instances, known, devices, game, overlay, copies, producer>>
  BY DEF RemoveDevice
<1>2. /\ call[t].at = "destroy" /\ call'[t].at = "destroy" /\ call'[t].key = call[t].key
      /\ \/ call[t].todo = All /\ call'[t].todo = FromCopies
         \/ call[t].todo = Plain /\ call'[t].todo = Last
      /\ \A u \in Threads : u # t => call'[u] = call[u]
  BY <1>1, DestroyStep, TodoSteps, TodoFacts
<1>3. /\ call[t].key \notin game
      /\ \A u \in Threads : u # t /\ Owns(u) => call[u].key # call[t].key
      /\ CallShape' /\ OneHolder' /\ InstanceHeld' /\ Asked'
  BY <1>1, DestroyStep
<1>4. Entered'
  <2>1. /\ DOMAIN table' = DOMAIN table \ {call[t].key}
        /\ \A x \in DOMAIN table : x # call[t].key => table'[x] = table[x]
    BY <1>1 DEF Without, Restrict
  <2> QED
    BY <1>0, <1>1, <1>2, <1>3, <2>1 DEF Entered, EntryTrue, Owns, Making
<1>5. OverlayExact'
  BY <1>0, <1>1, <1>2, TodoDistinct DEF OverlayExact
<1>6. CopiesExact'
  BY <1>0, <1>1, <1>2, TodoDistinct DEF CopiesExact, Making
<1>7. ProducerExact'
  <2>1. \A u \in Threads : (Counts(u)' <=> Counts(u)) /\ call'[u].key = call[u].key
    BY <1>2, TodoDistinct DEF Counts
  <2>2. Counted' = Counted
    BY <1>1, <2>1 DEF Counted
  <2> QED
    BY <1>0, <1>1, <2>2 DEF ProducerExact
<1>8. RequestKept'
  BY <1>0, <1>1 DEF RequestKept
<1> QED
  BY <1>3, <1>4, <1>5, <1>6, <1>7, <1>8 DEF VInv

LEMMA CopiesDestroyedKeeps ==
    ASSUME VInv, NEW t \in Threads, CopiesDestroyed(t)
    PROVE  VInv'
<1>0. /\ CallShape /\ OneHolder /\ Entered /\ InUse /\ OverlayExact /\ CopiesExact
      /\ ProducerExact /\ Asked /\ RequestKept
  BY DEF VInv, InstanceHeld
<1>1. /\ Does(t, "uncopy") /\ copies' = Without(copies, call[t].key)
      /\ UNCHANGED <<instances, known, devices, table, game, overlay, producer>>
  BY DEF CopiesDestroyed
<1>2. /\ call[t].at = "destroy" /\ call'[t].at = "destroy" /\ call'[t].key = call[t].key
      /\ call[t].todo = FromCopies /\ call'[t].todo = FromOverlay
      /\ \A u \in Threads : u # t => call'[u] = call[u]
  BY <1>1, DestroyStep, TodoSteps, TodoFacts
<1>3. /\ call[t].key \notin game
      /\ \A u \in Threads : u # t /\ Owns(u) => call[u].key # call[t].key
      /\ CallShape' /\ OneHolder' /\ InstanceHeld' /\ Asked'
  BY <1>1, DestroyStep
<1>4. Entered'
  BY <1>0, <1>1, <1>2 DEF Entered, EntryTrue
<1>5. OverlayExact'
  BY <1>0, <1>1, <1>2 DEF OverlayExact
<1>6. /\ DOMAIN copies' = DOMAIN copies \ {call[t].key}
      /\ \A x \in DOMAIN copies : x # call[t].key => copies'[x] = copies[x]
  BY <1>1 DEF Without, Restrict
<1>7. CopiesExact'
  BY <1>0, <1>1, <1>2, <1>3, <1>6, TodoDistinct DEF CopiesExact, Owns, Making
<1>8. ProducerExact'
  <2>1. \A u \in Threads : (Counts(u)' <=> Counts(u)) /\ call'[u].key = call[u].key
    BY <1>2 DEF Counts
  <2>2. Counted' = Counted
    BY <1>1, <2>1 DEF Counted
  <2> QED
    BY <1>0, <1>1, <2>2 DEF ProducerExact
<1>9. RequestKept'
  BY <1>0, <1>1, <1>6 DEF RequestKept
<1> QED
  BY <1>3, <1>4, <1>5, <1>7, <1>8, <1>9 DEF VInv

LEMMA OverlayDestroyedKeeps ==
    ASSUME VInv, NEW t \in Threads, OverlayDestroyed(t)
    PROVE  VInv'
<1>0. /\ CallShape /\ OneHolder /\ Entered /\ InUse /\ OverlayExact /\ CopiesExact
      /\ ProducerExact /\ Asked /\ RequestKept
  BY DEF VInv, InstanceHeld
<1>1. /\ Does(t, "unoverlay") /\ overlay' = overlay \ {call[t].key}
      /\ UNCHANGED <<instances, known, devices, table, game, copies, producer>>
  BY DEF OverlayDestroyed
<1>2. /\ call[t].at = "destroy" /\ call'[t].at = "destroy" /\ call'[t].key = call[t].key
      /\ call[t].todo = FromOverlay /\ call'[t].todo = FromProducer
      /\ \A u \in Threads : u # t => call'[u] = call[u]
  BY <1>1, DestroyStep, TodoSteps, TodoFacts
<1>3. /\ call[t].key \notin game
      /\ \A u \in Threads : u # t /\ Owns(u) => call[u].key # call[t].key
      /\ CallShape' /\ OneHolder' /\ InstanceHeld' /\ Asked'
  BY <1>1, DestroyStep
<1>4. Entered'
  BY <1>0, <1>1, <1>2 DEF Entered, EntryTrue
<1>5. OverlayExact'
  BY <1>0, <1>1, <1>2, <1>3, TodoDistinct DEF OverlayExact, Owns, Making
<1>6. CopiesExact'
  BY <1>0, <1>1, <1>2, TodoDistinct DEF CopiesExact, Making
<1>7. ProducerExact'
  <2>1. \A u \in Threads : (Counts(u)' <=> Counts(u)) /\ call'[u].key = call[u].key
    BY <1>2 DEF Counts
  <2>2. Counted' = Counted
    BY <1>1, <2>1 DEF Counted
  <2> QED
    BY <1>0, <1>1, <2>2 DEF ProducerExact
<1>8. RequestKept'
  BY <1>0, <1>1 DEF RequestKept
<1> QED
  BY <1>3, <1>4, <1>5, <1>6, <1>7, <1>8 DEF VInv

LEMMA ProducerDestroyedKeeps ==
    ASSUME VInv, NEW t \in Threads, ProducerDestroyed(t)
    PROVE  VInv'
<1> DEFINE d == call[t].key
<1>0. /\ CallShape /\ OneHolder /\ Entered /\ InUse /\ OverlayExact /\ CopiesExact
      /\ ProducerExact /\ Asked /\ RequestKept
  BY DEF VInv, InstanceHeld
<1>1. /\ Does(t, "unproducer")
      /\ producer' = [active |-> producer.active - 1, initialized |-> producer.active - 1 # 0]
      /\ UNCHANGED <<instances, known, devices, table, game, overlay, copies>>
  BY DEF ProducerDestroyed, Remaining
<1>2. /\ call[t].at = "destroy" /\ call'[t].at = "destroy" /\ call'[t].key = d
      /\ call[t].todo = FromProducer /\ call'[t].todo = Last
      /\ \A u \in Threads : u # t => call'[u] = call[u]
  BY <1>1, DestroyStep, TodoSteps, TodoFacts
<1>3. /\ d \in DOMAIN devices /\ d \notin game
      /\ \A u \in Threads : u # t /\ Owns(u) => call[u].key # d
      /\ CallShape' /\ OneHolder' /\ InstanceHeld' /\ Asked'
  BY <1>1, DestroyStep
<1>4. Entered'
  BY <1>0, <1>1, <1>2 DEF Entered, EntryTrue
<1>5. OverlayExact'
  BY <1>0, <1>1, <1>2, TodoDistinct DEF OverlayExact
<1>6. CopiesExact'
  BY <1>0, <1>1, <1>2, TodoDistinct DEF CopiesExact, Making
<1>7. ProducerExact'
  <2>1. \A u \in Threads : u # t => /\ (Counts(u)' <=> Counts(u)) /\ (Counts(u) => Owns(u))
                                    /\ call'[u].key = call[u].key
    BY <1>2 DEF Counts, Owns, Making
  <2>2. Counts(t) /\ ~Counts(t)'
    BY <1>2, TodoDistinct DEF Counts
  <2>3. d \in Counted
    BY <1>3, <2>2 DEF Counted
  <2>4. d \notin Counted'
    BY <1>1, <1>3, <2>1, <2>2 DEF Counted
  <2>5. \A x : x # d => (x \in Counted' <=> x \in Counted)
    BY <1>1, <2>1, <2>2 DEF Counted
  <2>6. Counted' = Counted \ {d}
    BY <2>4, <2>5
  <2>7. IsFiniteSet(Counted') /\ Cardinality(Counted') = Cardinality(Counted) - 1
    BY <1>0, <2>3, <2>6, FS_RemoveElement DEF ProducerExact
  <2>8. Counted' # {} <=> Cardinality(Counted') # 0
    BY <2>7, FS_EmptySet
  <2>9. producer' = [active |-> Cardinality(Counted'), initialized |-> Cardinality(Counted') # 0]
    BY <1>0, <1>1, <2>7 DEF ProducerExact
  <2> QED
    BY <2>7, <2>8, <2>9 DEF ProducerExact
<1>8. RequestKept'
  BY <1>0, <1>1 DEF RequestKept
<1> QED
  BY <1>3, <1>4, <1>5, <1>6, <1>7, <1>8 DEF VInv

LEMMA NextDestroyDeviceKeeps ==
    ASSUME VInv, NEW t \in Threads, NextDestroyDevice(t)
    PROVE  VInv'
<1> DEFINE d == call[t].key
<1>0. /\ CallShape /\ OneHolder /\ Entered /\ InUse /\ OverlayExact /\ CopiesExact
      /\ ProducerExact /\ Asked /\ RequestKept
  BY DEF VInv, InstanceHeld
<1>1. /\ Does(t, "next") /\ devices' = Without(devices, d)
      /\ UNCHANGED <<instances, known, table, game, overlay, copies, producer>>
  BY DEF NextDestroyDevice
<1>2. /\ call[t].at = "destroy" /\ call[t].todo = Last /\ call'[t].at = "none"
      /\ DOMAIN call' = Threads /\ \A u \in Threads : u # t => call'[u] = call[u]
  BY <1>0, <1>1, DoesFacts, TodoSteps, IdleFacts
<1>3. /\ d \in DOMAIN devices /\ d \notin game
      /\ \A u \in Threads : u # t /\ Owns(u) => call[u].key # d
  BY <1>0, <1>2 DEF OneHolder, Owns
<1>4. /\ DOMAIN devices' = DOMAIN devices \ {d}
      /\ \A x \in DOMAIN devices : x # d => devices'[x] = devices[x]
  BY <1>1 DEF Without, Restrict
<1>5. d \notin overlay /\ d \notin DOMAIN copies
  BY <1>0, <1>2, TodoDistinct DEF OverlayExact, CopiesExact
<1>6. CallShape'
  BY <1>0, <1>2 DEF CallShape
<1>7. OneHolder'
  BY <1>0, <1>1, <1>2, <1>3, <1>4 DEF OneHolder, Owns, Making
<1>8. Entered'
  BY <1>0, <1>1, <1>2, <1>3, <1>4 DEF Entered, EntryTrue, OneHolder, Owns, Making
<1>9. InstanceHeld' /\ Asked'
  BY <1>0, <1>1, <1>2, <1>4, InstancesAlone DEF OwnsInstance, InUse
<1>10. OverlayExact'
  BY <1>0, <1>1, <1>2, <1>3, <1>4, <1>5 DEF OverlayExact, OneHolder
<1>11. CopiesExact'
  BY <1>0, <1>1, <1>2, <1>3, <1>4, <1>5 DEF CopiesExact, OneHolder, Making
<1>12. ProducerExact'
  <2>1. \A u \in Threads : u # t => /\ (Counts(u)' <=> Counts(u)) /\ (Counts(u) => Owns(u))
                                    /\ call'[u].key = call[u].key
    BY <1>2 DEF Counts, Owns, Making
  <2>2. ~Counts(t) /\ ~Counts(t)'
    BY <1>2, TodoDistinct DEF Counts
  <2>3. d \notin Counted /\ d \notin Counted'
    BY <1>1, <1>3, <1>4, <2>1, <2>2 DEF Counted
  <2>4. \A x : x # d => (x \in Counted' <=> x \in Counted)
    BY <1>1, <1>4, <2>1, <2>2 DEF Counted
  <2>5. Counted' = Counted
    BY <2>3, <2>4
  <2> QED
    BY <1>0, <1>1, <2>5 DEF ProducerExact
<1>13. RequestKept'
  BY <1>0, <1>1, <1>4, <1>5 DEF RequestKept, CopiesExact
<1> QED
  BY <1>6, <1>7, <1>8, <1>9, <1>10, <1>11, <1>12, <1>13 DEF VInv

-----------------------------------------------------------------------------
(* The inductive invariant holds always. *)
LEMMA VInvAlways == Spec => []VInv
<1>1. Init => VInv
  <2> SUFFICES ASSUME Init PROVE VInv
    OBVIOUS
  <2>1. DOMAIN Nothing = {}
    BY DEF Nothing
  <2>2. DOMAIN call = Threads /\ \A t \in Threads : call[t].at = "none"
    BY IdleFacts DEF Init
  <2>3. /\ DOMAIN instances = {} /\ DOMAIN known = {} /\ DOMAIN devices = {} /\ DOMAIN copies = {}
        /\ game = {} /\ overlay = {} /\ producer = [active |-> 0, initialized |-> FALSE]
    BY <2>1 DEF Init
  <2>4. CallShape /\ OneHolder /\ Entered
    BY <2>2, <2>3 DEF CallShape, OneHolder, Owns, Making, Entered
  <2>5. InstanceHeld /\ OverlayExact /\ CopiesExact
    BY <2>2, <2>3 DEF InstanceHeld, KnownTrue, OneTaker, OwnsInstance, InUse, OverlayExact, CopiesExact, Making
  <2>6. ProducerExact
    <3>1. Counted = {}
      BY <2>3 DEF Counted
    <3> QED
      BY <2>3, <3>1, FS_EmptySet DEF ProducerExact
  <2>7. Asked /\ RequestKept
    BY <2>2, <2>3 DEF Asked, RequestKept
  <2> QED
    BY <2>4, <2>5, <2>6, <2>7 DEF VInv
<1>2. VInv /\ [Next]_vars => VInv'
  <2> SUFFICES ASSUME VInv, [Next]_vars PROVE VInv'
    OBVIOUS
  <2>1. CASE UNCHANGED vars
    <3>1. Counted' = Counted
      BY <2>1 DEF vars, Counted, Counts
    <3> QED
      BY <2>1, <3>1 DEF vars, VInv, CallShape, OneHolder, Owns, Entered, EntryTrue, InstanceHeld,
         KnownTrue, OneTaker, OwnsInstance, InUse, OverlayExact, CopiesExact, ProducerExact, Asked,
         RequestKept
  <2>2. ASSUME NEW t \in Threads, Step(t)
        PROVE  VInv'
    BY <2>2, InsertInstanceKeeps, NextDestroyInstanceKeeps, NextCreateDeviceKeeps,
       InsertDeviceKeeps, ProducerCreatedKeeps, OverlayCreatedKeeps, CopiesCreatedKeeps,
       RemoveDeviceKeeps, CopiesDestroyedKeeps, OverlayDestroyedKeeps, ProducerDestroyedKeeps,
       NextDestroyDeviceKeeps DEF Step
  <2> QED
    BY <2>1, <2>2, CreateInstanceKeeps, DestroyInstanceKeeps, CreateDeviceKeeps, DestroyDeviceKeeps
       DEF Next
<1> QED
  BY <1>1, <1>2, PTL DEF Spec

(* The layer's entry of a device the game holds is there and describes that device,
   for any number of threads that create and destroy and any reuse of addresses:
   create_device, destroy_device and the tables of dispatch.rs. *)
THEOREM TableTrueCorrect == Spec => []TableTrue
<1>1. VInv => TableTrue
  BY DEF VInv, OneHolder, Entered, EntryTrue, TableTrue
<1> QED
  BY <1>1, VInvAlways, PTL

(* What the layer makes on a device is gone when the driver's device is, and a device
   gets more than the game asked for only to export what it presents:
   replay_device_extensions, producer_export_core_ready, destroy_device. *)
THEOREM DevicesKeptCorrect == Spec => []DevicesKept
<1>1. VInv => DevicesKept
  BY DEF VInv, OverlayExact, CopiesExact, WithinDevice, DevicesKept
<1> QED
  BY <1>1, VInvAlways, PTL

(* With no call under way the producer's count, the overlay and the copies are
   exactly the presenting devices the game holds: device_created and device_destroyed
   of the producer, the overlay and the replay copies. *)
THEOREM BalancedCorrect == Spec => []Balanced
<1>1. VInv => Balanced
  <2> SUFFICES ASSUME VInv, Quiet
               PROVE  /\ producer = [active |-> Cardinality(Presenting), initialized |-> Presenting # {}]
                      /\ overlay = Presenting /\ DOMAIN copies = Presenting
    BY DEF Balanced
  <2>1. \A t \in Threads : call[t].at = "none"
    BY IdleFacts DEF Quiet
  <2>2. game = DOMAIN devices
    BY <2>1 DEF VInv, OneHolder, Owns, Making
  <2>3. overlay = Presenting /\ DOMAIN copies = Presenting
    BY <2>2 DEF VInv, OverlayExact, CopiesExact, Presenting
  <2>4. Counted = Presenting
    BY <2>1, <2>2 DEF Counted, Counts, Presenting
  <2> QED
    BY <2>3, <2>4 DEF VInv, ProducerExact
<1> QED
  BY <1>1, VInvAlways, PTL
=============================================================================
