---------------------------- MODULE ReplayRoutes ----------------------------
(***************************************************************************)
(* The capture routes of the Vulkan layer (replay_copy.rs), between the    *)
(* game, its GPU and presentation engine, and the daemon.  A route copies  *)
(* the images of one swapchain into exported buffers.  It may be destroyed *)
(* only when three independent owners have let go of it: the GPU (copy     *)
(* fences), the presentation engine (which waits on the route's binary     *)
(* semaphores) and the daemon (which holds the exported buffers).          *)
(*                                                                         *)
(* The whole of the layer's State is one record, s, under its mutex; the   *)
(* operations are functions of it.  What the owners really do is kept      *)
(* apart, in gpu, sem and held: the code never reads those directly.       *)
(***************************************************************************)
EXTENDS Integers, FiniteSets, FiniteSetsExt

CONSTANTS Device, Handle, Image, Context,
          MaxRoutes,   \* bound: routes a behaviour creates
          MaxTime,     \* bound on the clock
          Interval,    \* length of a frame interval
          Rates,       \* launch modes: TRUE variable rate, FALSE fixed rate
          MaxExports,  \* bound: export sequence numbers
          Reuse,       \* may the driver give a destroyed handle out again
          Faults       \* what may fail: "alloc", "send", "record", "present",
                       \* "lock" (another thread holds the state's mutex)

VARIABLES s,      \* the layer's State
          swap,   \* swapchains of the game: device and images
          sem,    \* presentation semaphores: 0 unsignaled, 1 a present waits,
                  \* 2 signaled and nobody waits, 3 signaled twice
          gpu,    \* copies executing: <<route, context>>
          held,   \* buffers the daemon holds: <<route, context, sequence>>
          now

vars == <<s, swap, sem, gpu, held, now>>

Route == 1 .. MaxRoutes
Rejected == 0    \* a verdict is a route, a rejection or none
NoVerdict == -1

\* The outcomes of something that succeeds unless f happens.
Unless(f) == IF f \in Faults THEN BOOLEAN ELSE {TRUE}

-----------------------------------------------------------------------------
(* The state and its operations. *)

\* create_context: a fence created signaled and a buffer nobody holds.
FreshContext == [usable |-> TRUE, pending |-> FALSE, at |-> 0, seq |-> 0, released |-> TRUE]

Fresh(p) == [dev |-> p.dev, swap |-> p.swap, next |-> 0, idle |-> FALSE,
             usable |-> [i \in Image |-> TRUE],
             waiting |-> [i \in Image |-> FALSE],
             ctx |-> [c \in Context |-> FreshContext]]

Init ==
    /\ \E rate \in Rates :
       s = [dev |-> [d \in Device |-> "absent"], variable |-> rate,
            where |-> [r \in Route |-> "new"],
            route |-> [r \in Route |-> Fresh([dev |-> CHOOSE d \in Device : TRUE,
                                              swap |-> 0])],
            pend |-> {}, disabled |-> FALSE, rejected |-> FALSE, latch |-> FALSE,
            verdict |-> NoVerdict, told |-> NoVerdict, last |-> 0, seq |-> 1]
    /\ swap = [h \in Handle |-> [dev |-> "unused", img |-> [i \in Image |-> "free"]]]
    /\ sem = [r \in Route |-> [i \in Image |-> 0]]
    /\ gpu = {} /\ held = {} /\ now = 1

In(t, places) == {r \in Route : t.where[r] \in places}
Active(t) == In(t, {"active"})

CanCreate(t) ==
    /\ ~t.disabled
    /\ In(t, {"active", "abandoned", "quarantined"}) = {}

\* Only the selected source, or what replaces it, is considered.
IsSource(t, d, old) ==
    IF Active(t) # {}
    THEN \E r \in Active(t) : /\ t.route[r].dev = d
                              /\ \/ t.route[r].swap = old
                                 \/ \E p \in t.pend : p.dev = d /\ p.swap = old
    ELSE \A p \in t.pend : p.dev = d /\ old \in {p.swap, p.replaces}

Flushed(t, sent) ==
    IF t.verdict = NoVerdict \/ ~sent THEN t
    ELSE [t EXCEPT !.told = t.verdict, !.verdict = NoVerdict]

Assess(t, v, sent) ==
    Flushed([t EXCEPT !.rejected = (v = Rejected), !.verdict = v], sent)

\* create_route: allocation of every object, or nothing.  made = 0 is a failure.
Install(t, p, made, sent) ==
    IF ~CanCreate(t) \/ t.dev[p.dev] # "queue" THEN t
    ELSE IF made = 0 THEN Assess(t, Rejected, sent)
    ELSE Assess([t EXCEPT !.pend = {}, !.latch = FALSE, !.where[made] = "active",
                          !.route[made] = Fresh(p)], made, sent)

\* The next route to be created, or a failed allocation.
Made == LET new == In(s, {"new"})
        IN (IF new = {} \/ "alloc" \in Faults THEN {0} ELSE {})
               \cup (IF new = {} THEN {} ELSE {Min(new)})

\* retain_retired_route: two are kept, a third pauses capture.
Retain(t, r, sent) ==
    IF Cardinality(In(t, {"retired"})) < 2 THEN [t EXCEPT !.where[r] = "retired"]
    ELSE Assess([t EXCEPT !.disabled = TRUE,
                          !.where[r] = IF In(t, {"abandoned"}) = {} THEN "abandoned"
                                       ELSE IF In(t, {"quarantined"}) = {}
                                       THEN "quarantined" ELSE "forgotten"],
                Rejected, sent)

\* retired_route_reclaimable: the three proofs.
Reclaimable(t, r) ==
    /\ t.route[r].idle
    /\ \A i \in Image : ~t.route[r].waiting[i]
    /\ \A c \in Context : LET x == t.route[r].ctx[c] IN x.seq = 0 \/ x.released

\* reclaim_idle_released.
Reclaim(t) ==
    LET gone == {r \in In(t, {"retired", "abandoned"}) : Reclaimable(t, r)}
        u == [t EXCEPT !.where = [r \in Route |-> IF r \in gone THEN "freed" ELSE @[r]],
                       !.route = [r \in Route |-> IF r \in gone THEN Fresh(@[r]) ELSE @[r]]]
    IN [u EXCEPT !.disabled = In(u, {"abandoned", "quarantined"}) # {}]

\* resume_pending_route for the queue of device d.
Resume(t, d, made, sent) ==
    IF CanCreate(t) /\ \E p \in t.pend : p.dev = d
    THEN Install(t, CHOOSE p \in t.pend : TRUE, made, sent)
    ELSE t

\* The routes a release or a reacquisition is applied to.
Owned(t) == In(t, {"active", "retired", "abandoned"})

Released(t, places, q) ==
    [t EXCEPT !.route = [r \in Route |->
        IF t.where[r] \notin places THEN @[r]
        ELSE [@[r] EXCEPT !.ctx = [c \in Context |->
                IF @[c].seq = q THEN [@[c] EXCEPT !.released = TRUE] ELSE @[c]]]]]

-----------------------------------------------------------------------------
(* Devices and swapchains. *)

\* A device is "gone" once destroyed: the next one has a key of its own.
Known(t, d) == t.dev[d] \in {"new", "queue"}

DeviceCreated(d) ==
    /\ s.dev[d] = "absent"
    /\ Cardinality({x \in Device : Known(s, x)}) < 2
    /\ s' = [s EXCEPT !.dev[d] = "new"]
    /\ UNCHANGED <<swap, sem, gpu, held, now>>

\* observe_queue: a pending swapchain that replaces nothing is installed.
Observed(t, d, made, sent) ==
    LET u == [t EXCEPT !.dev[d] = "queue"]
        ps == {p \in u.pend : p.dev = d /\ p.replaces = 0}
    IN IF ps = {} THEN u ELSE Install(u, CHOOSE p \in ps : TRUE, made, sent)

QueueObserved(d) ==
    /\ Known(s, d)
    /\ \E made \in Made, sent \in Unless("send") : s' = Observed(s, d, made, sent)
    /\ UNCHANGED <<swap, sem, gpu, held, now>>

\* A handle the driver gives to a new swapchain; the game keeps at most two.
Available(h) ==
    /\ Cardinality({x \in Handle : swap[x].dev \in Device}) < 2
    /\ \/ /\ swap[h].dev = "unused"
          /\ \A x \in Handle : swap[x].dev = "unused" => h <= x
       \/ Reuse /\ swap[h].dev = "dead"

\* A created swapchain as the layer sees it.  ok: its format, size, present
\* mode and memory export are ones a route can copy.
Considered(t, d, h, old, ok, made, sent) ==
    LET p == [dev |-> d, replaces |-> 0, swap |-> h]
    IN IF ~IsSource(t, d, old) THEN t
       ELSE IF ~ok THEN Assess(t, Rejected, sent)
       ELSE IF ~CanCreate(t) /\ Active(t) = {} THEN [t EXCEPT !.pend = {p}]
       ELSE IF Active(t) # {}
       THEN LET r == CHOOSE r \in Active(t) : TRUE
            IN [t EXCEPT !.pend = {[p EXCEPT !.replaces = t.route[r].swap]}]
       ELSE IF t.dev[d] = "new" THEN [t EXCEPT !.pend = {p}]
       ELSE Install(t, p, made, sent)

SwapchainCreated(d, h) ==
    /\ Available(h)
    /\ Known(s, d)
    /\ \E old \in {0} \cup {x \in Handle : swap[x].dev = d}, ok \in BOOLEAN,
          made \in Made, sent \in Unless("send") :
        s' = Considered(s, d, h, old, ok, made, sent)
    /\ swap' = [swap EXCEPT ![h] = [dev |-> d, img |-> [i \in Image |-> "free"]]]
    /\ UNCHANGED <<sem, gpu, held, now>>

SwapchainDestroyed(h) ==
    LET d == swap[h].dev IN
    /\ d \in Device
    /\ \E made \in Made, sent \in Unless("send") :
        LET t == [s EXCEPT !.pend = {p \in @ : p.swap # h}]
            rs == {r \in Active(t) : t.route[r].dev = d /\ t.route[r].swap = h}
            u == Retain([t EXCEPT !.where[CHOOSE r \in rs : TRUE] = "new"],
                        CHOOSE r \in rs : TRUE, sent)
            ps == {p \in u.pend : p.dev = d /\ p.replaces = h}
            v == IF ps = {} THEN u ELSE Install(u, CHOOSE p \in ps : TRUE, made, sent)
        IN s' = IF rs = {} THEN t
                ELSE IF Active(v) = {} THEN Assess(v, Rejected, sent) ELSE v
    /\ swap' = [swap EXCEPT ![h] = [dev |-> "dead", img |-> [i \in Image |-> "free"]]]
    /\ UNCHANGED <<sem, gpu, held, now>>

\* vkDestroyDevice: the game has destroyed the swapchains and its queues idle.
DeviceDestroyed(d) ==
    /\ Known(s, d)
    /\ \A h \in Handle : swap[h].dev # d
    /\ \A x \in gpu : s.route[x[1]].dev # d
    /\ LET t == [s EXCEPT
                 !.where = [r \in Route |->
                    IF s.route[r].dev = d
                        /\ @[r] \in {"active", "retired", "abandoned", "quarantined"}
                    THEN "destroyed" ELSE @[r]],
                 !.dev[d] = "gone",
                 !.pend = {p \in @ : p.dev # d}]
       IN s' = IF \E x \in Device : Known(t, x) THEN t
               ELSE [t EXCEPT !.disabled = FALSE, !.rejected = FALSE,
                              !.verdict = NoVerdict, !.latch = FALSE]
    /\ UNCHANGED <<swap, sem, gpu, held, now>>

-----------------------------------------------------------------------------
(* Presents and acquisitions. *)

Due(t, r) ==
    LET n == t.route[r].next
    IN IF t.variable THEN now + Interval >= n ELSE n = 0 \/ now >= n

\* capture_timing and advance_capture_deadline.
Stamp(n) == IF s.variable \/ n = 0 \/ now - n >= Interval THEN now ELSE n
Later(x, y) == IF x > y THEN x ELSE y
NextDeadline(n) ==
    IF s.variable THEN Later(n, now) + Interval
    ELSE LET scheduled == (IF n = 0 THEN now ELSE n) + Interval
         IN IF scheduled <= now THEN now + Interval ELSE scheduled

\* Variant of ExportStamp: the route's own time stamp.
ExportStampAsIs(t, at) == at

\* monotonic_export_timestamp.
ExportStamp(t, at) == IF at > t.last THEN at ELSE t.last + 1

\* The context of the oldest pending copy, if that copy is complete.
Completed(t, r) ==
    LET cs == {c \in Context : t.route[r].ctx[c].usable /\ t.route[r].ctx[c].pending}
        old == {c \in cs : \A x \in cs :
                    \/ t.route[r].ctx[c].at < t.route[r].ctx[x].at
                    \/ t.route[r].ctx[c].at = t.route[r].ctx[x].at /\ c <= x}
    IN {c \in old : <<r, c>> \notin gpu}

\* Variant of FreeContext: the copy fence is enough to reuse a buffer.
FreeContextFence(t, r) ==
    {c \in Context : /\ t.route[r].ctx[c].usable /\ ~t.route[r].ctx[c].pending
                     /\ <<r, c>> \notin gpu}

FreeContext(t, r) ==
    {c \in Context : /\ t.route[r].ctx[c].usable /\ ~t.route[r].ctx[c].pending
                     /\ t.route[r].ctx[c].released
                     /\ <<r, c>> \notin gpu}

\* take_completed_copy: the copy becomes an export with a new sequence number.
Taken(t, r, c) ==
    [t EXCEPT !.seq = @ + 1,
              !.route[r].ctx[c] = [@ EXCEPT !.pending = FALSE, !.released = FALSE,
                                            !.seq = t.seq]]

\* submit_next_copy of image i, with the outcome of the Vulkan calls.
Submitted(t, r, i, outcome) ==
    LET free == FreeContext(t, r)
        c == Min(free)
    IN IF ~t.route[r].usable[i] \/ free = {} THEN t
       ELSE CASE outcome = "unrecorded" ->
                    [t EXCEPT !.route[r].ctx[c].usable = FALSE]
              [] outcome = "refused" ->
                    [t EXCEPT !.route[r].ctx[c].usable = FALSE,
                              !.route[r].usable[i] = FALSE,
                              !.route[r].waiting[i] = TRUE, !.route[r].idle = FALSE]
              [] outcome = "submitted" ->
                    [t EXCEPT !.route[r].ctx[c].pending = TRUE,
                              !.route[r].ctx[c].at = Stamp(t.route[r].next),
                              !.route[r].waiting[i] = TRUE, !.route[r].idle = FALSE,
                              !.route[r].next = NextDeadline(@)]

\* complete_copy_handoff: a buffer that was not delivered is restored.
HandedOff(t, r, done, sent) ==
    IF done = {} THEN t
    ELSE LET c == CHOOSE c \in done : TRUE
             x == t.route[r].ctx[c]
         IN IF sent THEN [t EXCEPT !.last = ExportStamp(t, x.at)]
            ELSE Released(t, {"active", "retired", "abandoned"}, x.seq)

\* prepare_present up to the choice of a route: nothing is captured.
Prepared(t, sent) ==
    Flushed(IF t.latch /\ t.verdict = NoVerdict THEN [t EXCEPT !.verdict = Rejected] ELSE t,
            sent)

Captures(t, h) ==
    IF t.latch \/ t.verdict # NoVerdict \/ t.disabled \/ t.rejected THEN {}
    ELSE {r \in Active(t) : /\ t.route[r].dev = swap[h].dev /\ t.route[r].swap = h
                            /\ Due(t, r)}

\* presentation_failed, which may find the lock taken.
Failed(t, r, i, locked) ==
    [t EXCEPT !.latch = TRUE,
              !.route[r].usable[i] = IF locked THEN FALSE ELSE @]

\* submit_copy and the handoff, then the outcome of the forwarded present.
Capture(t, r, i, shown) ==
    LET done == Completed(t, r)
        u == IF done = {} THEN t ELSE Taken(t, r, CHOOSE c \in done : TRUE)
    IN /\ done # {} => t.seq <= MaxExports
       /\ \E outcome \in {"submitted"} \cup
                    (IF "record" \in Faults THEN {"unrecorded", "refused"} ELSE {}),
             sent \in IF done = {} THEN {TRUE} ELSE Unless("send") :
            LET v == Submitted(u, r, i, outcome)
                w == HandedOff(v, r, done, sent)
                ran == {c \in Context : v.route[r].ctx[c].pending
                                        /\ ~u.route[r].ctx[c].pending}
            IN /\ gpu' = gpu \cup {<<r, c>> : c \in ran}
               /\ held' = held \cup {<<r, c, u.route[r].ctx[c].seq>> :
                                     c \in IF sent THEN done ELSE {}}
               /\ IF ran = {} \/ shown
                  THEN /\ s' = w
                       /\ sem' = [sem EXCEPT ![r][i] = IF ran = {} THEN @
                                                       ELSE IF @ # 0 THEN 3 ELSE 1]
                  ELSE \E locked \in Unless("lock"), consumed \in BOOLEAN :
                       /\ s' = Failed(w, r, i, locked)
                       /\ sem' = [sem EXCEPT ![r][i] = IF @ # 0 THEN 3
                                                       ELSE IF consumed THEN 0 ELSE 2]

\* vkQueuePresentKHR of image i: capture, then the forwarded present.
Present(h, i) ==
    /\ swap[h].dev \in Device
    /\ swap[h].img[i] = "app"
    /\ \E tried \in Unless("lock"), told \in Unless("send"), shown \in Unless("present") :
        LET t == IF tried THEN Prepared(s, told) ELSE s
            rs == IF tried THEN Captures(t, h) ELSE {}
        IN /\ IF rs = {} THEN s' = t /\ UNCHANGED <<sem, gpu, held>>
              ELSE Capture(t, CHOOSE r \in rs : TRUE, i, shown)
           /\ swap' = [swap EXCEPT ![h].img[i] = IF shown THEN "shown" ELSE "app"]
    /\ UNCHANGED now

\* An acquire: it may return before the engine has let go of the image, and
\* then its fence is not signaled.
Reacquired(t, h, i) ==
    [t EXCEPT !.route = [r \in Route |->
        IF /\ r \in Owned(t)
           /\ @[r].dev = swap[h].dev /\ @[r].swap = h /\ @[r].usable[i]
        THEN [@[r] EXCEPT !.waiting[i] = FALSE] ELSE @[r]]]

\* The fence of an acquire, where it has one, is signaled when it returns.
Confirms(h, i) == swap[h].img[i] = "free"

ImageAcquired(h, i) ==
    /\ swap[h].dev \in Device
    /\ swap[h].img[i] \in {"free", "shown"}
    /\ \E fenced \in BOOLEAN :
        s' = IF fenced /\ Confirms(h, i) THEN Reclaim(Reacquired(s, h, i)) ELSE s
    /\ swap' = [swap EXCEPT ![h].img[i] = IF @ = "free" THEN "app" ELSE "early"]
    /\ UNCHANGED <<sem, gpu, held, now>>

-----------------------------------------------------------------------------
(* The owners of what a route uses. *)

CopyDone ==
    /\ \E x \in gpu : gpu' = gpu \ {x}
    /\ UNCHANGED <<s, swap, sem, held, now>>

\* The presentation engine consumes the wait of an image it shows.
EngineDone(h, i) ==
    /\ swap[h].dev \in Device
    /\ swap[h].img[i] \in {"shown", "early"}
    /\ swap' = [swap EXCEPT ![h].img[i] = IF @ = "shown" THEN "free" ELSE "app"]
    /\ sem' = [r \in Route |-> [j \in Image |->
                 IF /\ r \in Active(s) /\ s.route[r].swap = h
                    /\ j = i /\ sem[r][j] = 1 THEN 0 ELSE sem[r][j]]]
    /\ UNCHANGED <<s, gpu, held, now>>

\* ... also after the swapchain, and the route, are gone.
EngineDoneLate(r, i) ==
    /\ r \notin Active(s)
    /\ sem[r][i] = 1
    /\ sem' = [sem EXCEPT ![r][i] = 0]
    /\ UNCHANGED <<s, swap, gpu, held, now>>

\* reclaim_after_idle: the copies of the retired routes have executed.
AfterIdle(t, d, made, sent) ==
    Resume(Reclaim([t EXCEPT !.route = [r \in Route |->
                        IF t.where[r] \in {"retired", "abandoned"} /\ @[r].dev = d
                        THEN [@[r] EXCEPT !.idle = TRUE] ELSE @[r]]]),
           d, made, sent)

\* vkQueueWaitIdle or vkDeviceWaitIdle of the game has returned.
QueueIdle(d) ==
    /\ s.dev[d] = "queue"
    /\ \A x \in gpu : s.route[x[1]].dev # d
    /\ \E made \in Made, sent \in Unless("send") : s' = AfterIdle(s, d, made, sent)
    /\ UNCHANGED <<swap, sem, gpu, held, now>>

\* The daemon acknowledges a buffer: release_sequence, retried until it has
\* the lock.
Acknowledge ==
    \E x \in held, made \in Made, sent \in Unless("send") :
        LET t == Reclaim(Released(s, {"active", "retired", "abandoned", "quarantined"}, x[3]))
        IN /\ s' = IF t.pend = {} THEN t
                   ELSE Resume(t, (CHOOSE p \in t.pend : TRUE).dev, made, sent)
           /\ held' = held \ {x}
           /\ UNCHANGED <<swap, sem, gpu, now>>

TimePasses ==
    /\ now < MaxTime /\ now' = now + 1
    /\ UNCHANGED <<s, swap, sem, gpu, held>>

Next ==
    \/ \E d \in Device : DeviceCreated(d) \/ QueueObserved(d) \/ DeviceDestroyed(d) \/ QueueIdle(d)
    \/ \E d \in Device, h \in Handle : SwapchainCreated(d, h)
    \/ \E h \in Handle : SwapchainDestroyed(h)
    \/ \E h \in Handle, i \in Image : Present(h, i) \/ ImageAcquired(h, i) \/ EngineDone(h, i)
    \/ \E r \in Route, i \in Image : EngineDoneLate(r, i)
    \/ CopyDone \/ Acknowledge \/ TimePasses

Spec == Init /\ [][Next]_vars

-----------------------------------------------------------------------------
(* Properties. *)

\* The type of the state.
TypeOK ==
    /\ s.where \in [Route -> {"new", "active", "retired", "abandoned", "quarantined",
                              "forgotten", "freed", "destroyed"}]
    /\ Cardinality(Active(s)) <= 1 /\ Cardinality(s.pend) <= 1
    /\ s.dev \in [Device -> {"absent", "new", "queue", "gone"}]
    /\ gpu \subseteq Route \X Context
    /\ sem \in [Route -> [Image -> 0 .. 3]]

\* A route that was reclaimed while its device lives had been let go of by the
\* GPU, by every present that waits on one of its semaphores, and by the
\* daemon (reclaim_idle_released: "both local execution and every tracked
\* presentation wait are complete, and exported ownership has been released").
ReclaimedUnused ==
    \A r \in In(s, {"freed"}) :
        /\ \A c \in Context : <<r, c>> \notin gpu
        /\ \A i \in Image : sem[r][i] # 1
        /\ \A x \in held : x[1] # r

\* A binary semaphore is never signaled again while a signal is outstanding,
\* also when a present failed and its report found the lock taken.
SignaledOnce == \A r \in Route, i \in Image : sem[r][i] # 3

\* No copy writes to a buffer that the daemon holds.
BufferExclusive == \A x \in held : <<x[1], x[2]>> \notin gpu

\* Overflow of the retirement budget never reaches the quarantine, so at most
\* four sets of resources exist.
Bounded == In(s, {"quarantined", "forgotten"}) = {}
=============================================================================
