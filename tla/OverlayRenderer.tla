--------------------------- MODULE OverlayRenderer ---------------------------
(***************************************************************************)
(* The overlay of the Vulkan layer (overlay.rs) on one device: the render  *)
(* resources of each swapchain, the frame contexts of the present queue    *)
(* with their cached command buffers, and the submission in front of every *)
(* present.  A context is tied to the image it drew last; its semaphore    *)
(* may be signaled again only after that image's present has waited for    *)
(* it, which the code concludes from the image being presented again.      *)
(*                                                                         *)
(* The driver may give the handle of a destroyed swapchain out again.  A   *)
(* frame buffer is named by handle, image and generation of the handle;    *)
(* the code sees the handle and the image only.                            *)
(***************************************************************************)
EXTENDS Integers, FiniteSets, TLAPS

CONSTANTS Handle, Image,
          Context,         \* contexts of the queue, in the order they are tried
          MaxSwapchains,   \* MAX_SWAPCHAINS_PER_DEVICE
          MaxGeneration,   \* bound: swapchains made per handle
          MaxRevision,     \* bound: plan revisions
          Faults           \* "create", "record", "submit", "lock", "present"

VARIABLES known,   \* the device is registered, and its queue
          res,     \* generation of the handle with render resources, 0 if none
          ctx,     \* the FrameContexts
          plan,    \* plan revision, and whether there is anything to draw
          gen,     \* swapchains made so far per handle
          img,     \* images: "none", "free", "app" or "shown"
          sem,     \* 0 unsignaled, 1 a present waits, 2 signaled, 3 signaled twice
          owner,   \* context whose semaphore the shown image's present waits for
          busy     \* contexts whose commands execute (fence not signaled)

vars == <<known, res, ctx, plan, gen, img, sem, owner, busy>>

Unless(f) == IF f \in Faults THEN BOOLEAN ELSE {TRUE}
Live == {h \in Handle : \A i \in Image : img[h][i] # "none"}

FreshContexts == [c \in Context |-> [usable |-> TRUE, assigned |-> FALSE, primary |-> <<0, 0>>,
                                     refs |-> {}, revision |-> 0, drawn |-> {}]]

Init ==
    /\ known = "none"
    /\ res = [h \in Handle |-> 0]
    /\ ctx = FreshContexts
    /\ plan = [revision |-> 1, empty |-> FALSE]
    /\ gen = [h \in Handle |-> 0]
    /\ img = [h \in Handle |-> [i \in Image |-> "none"]]
    /\ sem = [c \in Context |-> 0]
    /\ owner = [h \in Handle |-> [i \in Image |-> 0]]
    /\ busy = {}

-----------------------------------------------------------------------------
DeviceCreated ==
    /\ known = "none"
    /\ known' = "device"
    /\ UNCHANGED <<res, ctx, plan, gen, img, sem, owner, busy>>

\* queue_observed: contexts are made once per queue, all of them or none.
QueueObserved ==
    /\ known = "device"
    /\ \E made \in Unless("create") :
        /\ known' = IF made THEN "queue" ELSE "device"
        /\ ctx' = IF made THEN FreshContexts ELSE ctx
    /\ UNCHANGED <<res, plan, gen, img, sem, owner, busy>>

\* The resources of a swapchain, where its format and size admit an overlay.
Resources(h) ==
    IF known = "none" \/ Cardinality({x \in Handle : res[x] # 0}) >= MaxSwapchains
    THEN {0}
    ELSE {gen'[h]} \cup IF "create" \in Faults THEN {0} ELSE {}

SwapchainCreated(h) ==
    /\ h \notin Live /\ gen[h] < MaxGeneration
    /\ gen' = [gen EXCEPT ![h] = @ + 1]
    /\ img' = [img EXCEPT ![h] = [i \in Image |-> "free"]]
    /\ \E g \in Resources(h) : res' = [res EXCEPT ![h] = IF g = 0 THEN @ ELSE g]
    /\ UNCHANGED <<known, ctx, plan, sem, owner, busy>>

\* A context that refers to a destroyed swapchain is free again.
Forget(c, h) ==
    IF \E t \in c.refs : t[1] = h THEN [c EXCEPT !.assigned = FALSE, !.refs = {}] ELSE c

\* destroy_swapchain_resources.
WithoutResources(h) == [res EXCEPT ![h] = 0]

\* The game has finished with the images it presented.
SwapchainDestroyed(h) ==
    /\ h \in Live
    /\ \A i \in Image : img[h][i] # "shown"
    /\ \A c \in busy : \A t \in ctx[c].drawn : t[1] # h
    /\ ctx' = [c \in Context |-> Forget(ctx[c], h)]
    /\ res' = WithoutResources(h)
    /\ img' = [img EXCEPT ![h] = [i \in Image |-> "none"]]
    /\ owner' = [owner EXCEPT ![h] = [i \in Image |-> 0]]
    /\ UNCHANGED <<known, plan, gen, sem, busy>>

DeviceDestroyed ==
    /\ known # "none" /\ Live = {} /\ busy = {}
    /\ known' = "none"
    /\ res' = [h \in Handle |-> 0]
    /\ ctx' = FreshContexts
    /\ sem' = [c \in Context |-> 0]
    /\ UNCHANGED <<plan, gen, img, owner, busy>>

-----------------------------------------------------------------------------
\* The targets of a present: the presented images that have render resources.
Targets(p) == {<<h, p[h]>> : h \in {x \in DOMAIN p : res[x] # 0}}

\* The first target, in the order of the present's arrays, if there is one.
Primary(ts) == {t \in ts : \A u \in ts : t[1] <= u[1]}

\* The context for primary target t: the first one that is unassigned or has
\* drawn this image; if its fence is not signaled nothing is drawn.
Chosen(t) ==
    LET cs == {c \in Context : ctx[c].usable /\ (~ctx[c].assigned \/ ctx[c].primary = t)}
    IN {c \in cs \ busy : \A d \in cs : c <= d}

\* Variant of Matches: the plan may have changed since the recording.
MatchesAnyPlan(c, ts) == ctx[c].assigned /\ ctx[c].refs = ts

\* The cached command buffer can be submitted again as it is.
Matches(c, ts) == ctx[c].assigned /\ ctx[c].revision = plan.revision /\ ctx[c].refs = ts

\* The frame buffers of targets ts, with the resources in r.
Buffers(ts, r) == {<<t[1], t[2], r[t[1]]>> : t \in ts}

\* Recording or submission may fail.
Outcomes == {"submitted"} \cup {f \in {"record", "submit"} : f \in Faults}

\* submit_overlay with context c for primary target t.  A failure before the
\* submission leaves the context unusable for good.
Submitted(c, t, ts, outcome) ==
    IF outcome # "submitted" THEN [ctx[c] EXCEPT !.usable = FALSE]
    ELSE [ctx[c] EXCEPT
            !.assigned = TRUE, !.primary = t, !.refs = ts,
            !.revision = IF Matches(c, ts) THEN @ ELSE plan.revision,
            !.drawn = IF Matches(c, ts) THEN @ ELSE Buffers(ts, res)]

\* Present without an overlay: hidden, contended, unknown queue, no target or
\* no context that is ready.
Skipped(p) ==
    \/ known # "queue" \/ plan.empty
    \/ "lock" \in Faults
    \/ \A t \in Primary(Targets(p)) : Chosen(t) = {}

Shown(p, c, ok) ==
    /\ img' = [h \in Handle |-> [i \in Image |->
                 IF ok /\ h \in DOMAIN p /\ p[h] = i THEN "shown" ELSE img[h][i]]]
    /\ owner' = [h \in Handle |-> [i \in Image |->
                 IF ok /\ h \in DOMAIN p /\ p[h] = i THEN c ELSE owner[h][i]]]

\* Present with the overlay drawn by context c, or without if that fails.
Drawn(p, ok, t, c, outcome) ==
    /\ ctx' = [ctx EXCEPT ![c] = Submitted(c, t, Targets(p), outcome)]
    /\ IF outcome = "submitted"
       THEN /\ busy' = busy \cup {c}
            /\ sem' = [sem EXCEPT ![c] = IF @ # 0 THEN 3 ELSE IF ok THEN 1 ELSE 2]
            /\ Shown(p, c, ok)
       ELSE Shown(p, 0, ok) /\ UNCHANGED <<sem, busy>>

\* vkQueuePresentKHR of one image of each swapchain in the domain of p.
Present(p) ==
    /\ DOMAIN p # {} /\ DOMAIN p \subseteq Live
    /\ \A h \in DOMAIN p : img[h][p[h]] = "app"
    /\ \E ok \in Unless("present") :
        \/ /\ Skipped(p)
           /\ Shown(p, 0, ok)
           /\ UNCHANGED <<ctx, sem, busy>>
        \/ /\ known = "queue" /\ ~plan.empty
           /\ \E t \in Primary(Targets(p)) : \E c \in Chosen(t), outcome \in Outcomes :
                Drawn(p, ok, t, c, outcome)
    /\ UNCHANGED <<known, res, plan, gen>>

\* presentation_finished of some present: telemetry, notice, menu or metrics
\* changed what is to be drawn.
PlanChanged ==
    /\ known # "none" /\ plan.revision < MaxRevision
    /\ \E e \in BOOLEAN : plan' = [revision |-> plan.revision + 1, empty |-> e]
    /\ UNCHANGED <<known, res, ctx, gen, img, sem, owner, busy>>

\* The GPU executes the commands, the engine waits and releases the image.
Executed ==
    /\ \E c \in busy : busy' = busy \ {c}
    /\ UNCHANGED <<known, res, ctx, plan, gen, img, sem, owner>>

EngineDone(h, i) ==
    /\ img[h][i] = "shown"
    /\ owner[h][i] \notin busy
    /\ img' = [img EXCEPT ![h][i] = "free"]
    /\ owner' = [owner EXCEPT ![h][i] = 0]
    /\ sem' = [c \in Context |-> IF c = owner[h][i] /\ sem[c] = 1 THEN 0 ELSE sem[c]]
    /\ UNCHANGED <<known, res, ctx, plan, gen, busy>>

Acquire(h, i) ==
    /\ img[h][i] = "free"
    /\ img' = [img EXCEPT ![h][i] = "app"]
    /\ UNCHANGED <<known, res, ctx, plan, gen, sem, owner, busy>>

Next ==
    \/ DeviceCreated \/ QueueObserved \/ DeviceDestroyed \/ PlanChanged \/ Executed
    \/ \E h \in Handle : SwapchainCreated(h) \/ SwapchainDestroyed(h)
    \/ \E hs \in SUBSET Handle : \E p \in [hs -> Image] : Present(p)
    \/ \E h \in Handle, i \in Image : EngineDone(h, i) \/ Acquire(h, i)

Spec == Init /\ [][Next]_vars

-----------------------------------------------------------------------------
(* Properties. *)

\* The type of the state.
TypeOK ==
    /\ known \in {"none", "device", "queue"}
    /\ res \in [Handle -> 0 .. MaxGeneration]
    /\ Cardinality({h \in Handle : res[h] # 0}) <= MaxSwapchains
    /\ sem \in [Context -> 0 .. 3] /\ busy \subseteq Context
    /\ \A c \in Context : ctx[c].assigned => ctx[c].refs # {}

\* A semaphore is not signaled again before a present has waited for its last
\* signal (submit_overlay: matching the context to a reacquired image
\* "guarantees the prior binary semaphore was consumed by presentation before
\* it is signaled again").
SignaledOnce == \A c \in Context : sem[c] # 3

\* Commands that execute draw into frame buffers that exist, of the images
\* they were submitted for: a cached command buffer never outlives the
\* resources it was recorded with, also when a handle returns.
DrawsIntoLive ==
    \A c \in busy :
        /\ ctx[c].drawn = Buffers(ctx[c].refs, res)
        /\ \A t \in ctx[c].drawn : t[3] # 0

\* What is submitted shows the current plan: a cached command buffer is not
\* submitted again after the plan has changed (submit_overlay).
ShowsCurrentPlan == [][\A c \in busy' \ busy : ctx'[c].revision = plan.revision]_vars

-----------------------------------------------------------------------------
(* The inductive invariant. *)

ImageRef == Handle \X Image
FrameContext == [usable : BOOLEAN, assigned : BOOLEAN,
                 primary : (Handle \cup {0}) \X (Image \cup {0}),
                 refs : SUBSET ImageRef, revision : Nat, drawn : SUBSET (Handle \X Image \X Nat)]

\* Every variable has its shape, with no bound on the counters.
Shape ==
    /\ known \in {"none", "device", "queue"}
    /\ res \in [Handle -> Nat] /\ gen \in [Handle -> Nat]
    /\ ctx \in [Context -> FrameContext]
    /\ plan \in [revision : Nat, empty : BOOLEAN]
    /\ img \in [Handle -> [Image -> {"none", "free", "app", "shown"}]]
    /\ owner \in [Handle -> [Image -> Context \cup {0}]]
    /\ sem \in [Context -> 0 .. 3] /\ busy \subseteq Context

\* Render resources belong to a swapchain that exists.
Backed == \A h \in Handle : res[h] # 0 => h \in Live

\* An assigned context has recorded the frame buffers its targets have now,
\* and only an assigned context has commands that execute.
RecordedIn(c) ==
    ctx[c].assigned => /\ ctx[c].drawn = Buffers(ctx[c].refs, res)
                       /\ \A t \in ctx[c].refs : res[t[1]] # 0
Recorded == \A c \in Context : RecordedIn(c) /\ (c \in busy => ctx[c].assigned)

\* Contexts are in use only when the device knows its queue.
Idle == known # "queue" => busy = {} /\ \A c \in Context : sem[c] = 0

\* A signaled semaphore has a present of each of its targets to wait for it.
WaitsFor(c) ==
    sem[c] # 0 => /\ sem[c] = 1 /\ ctx[c].assigned /\ ctx[c].primary \in ctx[c].refs
                  /\ \A t \in ctx[c].refs : img[t[1]][t[2]] = "shown" /\ owner[t[1]][t[2]] = c
Waits == \A c \in Context : WaitsFor(c)

Sound == Shape /\ Backed /\ Recorded
IInv == Sound /\ Idle /\ Waits

-----------------------------------------------------------------------------
(* Lemmas. *)

\* What frame buffers a set of targets has depends on the resources of the
\* swapchains it names and of no other.
LEMMA BuffersLocal ==
    ASSUME NEW ts \in SUBSET ImageRef, NEW r, NEW q, \A t \in ts : r[t[1]] = q[t[1]]
    PROVE  Buffers(ts, r) = Buffers(ts, q)
<1> DEFINE F(t) == <<t[1], t[2], r[t[1]]>>
           G(t) == <<t[1], t[2], q[t[1]]>>
<1>1. \A t \in ts : F(t) = G(t)
  OBVIOUS
<1>2. Buffers(ts, r) = {F(t) : t \in ts} /\ Buffers(ts, q) = {G(t) : t \in ts}
  BY DEF Buffers
<1> HIDE DEF F, G
<1> QED BY <1>1, <1>2

\* Frame buffers name a handle, an image and a generation.
LEMMA BuffersType ==
    ASSUME NEW ts \in SUBSET ImageRef, NEW r \in [Handle -> Nat]
    PROVE  Buffers(ts, r) \in SUBSET (Handle \X Image \X Nat)
BY DEF Buffers, ImageRef

\* Fresh contexts are frame contexts, none of them assigned.
LEMMA FreshType ==
    /\ FreshContexts \in [Context -> FrameContext]
    /\ \A c \in Context : FreshContexts[c].assigned = FALSE
<1>1. \A c \in Context : FreshContexts[c] = [usable |-> TRUE, assigned |-> FALSE,
         primary |-> <<0, 0>>, refs |-> {}, revision |-> 0, drawn |-> {}]
  BY DEF FreshContexts
<1>2. [usable |-> TRUE, assigned |-> FALSE, primary |-> <<0, 0>>, refs |-> {},
       revision |-> 0, drawn |-> {}] \in FrameContext
  BY DEF FrameContext
<1>3. FreshContexts = [c \in Context |-> FreshContexts[c]]
  BY DEF FreshContexts
<1>4. \A c \in Context : FreshContexts[c] \in FrameContext
  BY <1>1, <1>2
<1>5. FreshContexts \in [Context -> FrameContext]
  BY ONLY <1>3, <1>4
<1>6. \A c \in Context : FreshContexts[c].assigned = FALSE
  BY <1>1
<1> QED BY <1>5, <1>6

\* The targets of a present have resources, and are the images it presents.
LEMMA TargetsType ==
    ASSUME NEW hs \in SUBSET Handle, NEW p \in [hs -> Image]
    PROVE  /\ Targets(p) \in SUBSET ImageRef
           /\ \A t \in Targets(p) : res[t[1]] # 0 /\ t[1] \in hs /\ t[2] = p[t[1]]
BY DEF Targets, ImageRef

\* A context forgets a destroyed swapchain and keeps its form.
LEMMA ForgetType ==
    ASSUME NEW c \in FrameContext, NEW h
    PROVE  /\ Forget(c, h) \in FrameContext
           /\ \/ Forget(c, h) = c /\ \A t \in c.refs : t[1] # h
              \/ Forget(c, h).assigned = FALSE /\ \E t \in c.refs : t[1] = h
BY DEF Forget, FrameContext

\* What a submission makes of its context.
Becomes(n, c, t, ts, outcome) ==
    /\ n \in FrameContext
    /\ outcome # "submitted" =>
         /\ n.assigned = ctx[c].assigned
         /\ n.primary = ctx[c].primary
         /\ n.refs = ctx[c].refs
         /\ n.drawn = ctx[c].drawn
    /\ outcome = "submitted" =>
         /\ n.assigned = TRUE
         /\ n.primary = t
         /\ n.refs = ts
         /\ n.revision = plan.revision
         /\ Matches(c, ts) => n.drawn = ctx[c].drawn
         /\ ~Matches(c, ts) => n.drawn = Buffers(ts, res)

\* submit_overlay leaves its context in one of those forms.
LEMMA SubmittedType ==
    ASSUME Shape, NEW c \in Context, NEW t \in ImageRef, NEW ts \in SUBSET ImageRef, NEW outcome
    PROVE  Becomes(Submitted(c, t, ts, outcome), c, t, ts, outcome)
<1>1. ctx[c] \in FrameContext /\ plan.revision \in Nat /\ res \in [Handle -> Nat]
  BY DEF Shape
<1>2. Buffers(ts, res) \in SUBSET (Handle \X Image \X Nat)
  BY <1>1, BuffersType
<1>3. CASE outcome # "submitted"
  BY <1>1, <1>3 DEF Becomes, Submitted, FrameContext
<1>4. CASE outcome = "submitted" /\ Matches(c, ts)
  <2>1. ctx[c].revision = plan.revision
    BY <1>4 DEF Matches
  <2>2. Submitted(c, t, ts, outcome) =
          [ctx[c] EXCEPT !.assigned = TRUE, !.primary = t, !.refs = ts,
                         !.revision = ctx[c].revision, !.drawn = ctx[c].drawn]
    BY <1>4 DEF Submitted
  <2> QED BY <1>1, <1>4, <2>1, <2>2 DEF Becomes, FrameContext, ImageRef
<1>5. CASE outcome = "submitted" /\ ~Matches(c, ts)
  <2>1. Submitted(c, t, ts, outcome) =
          [ctx[c] EXCEPT !.assigned = TRUE, !.primary = t, !.refs = ts,
                         !.revision = plan.revision, !.drawn = Buffers(ts, res)]
    BY <1>5 DEF Submitted
  <2> QED BY <1>1, <1>2, <1>5, <2>1 DEF Becomes, FrameContext, ImageRef
<1> QED BY <1>3, <1>4, <1>5

\* What a present makes of the images and of their owners.
Marked(hs, p, c, ok) ==
    /\ img' \in [Handle -> [Image -> {"none", "free", "app", "shown"}]]
    /\ owner' \in [Handle -> [Image -> Context \cup {0}]]
    /\ \A h \in Handle, i \in Image :
         /\ img[h][i] # "none" => img'[h][i] # "none"
         /\ ok /\ h \in hs /\ p[h] = i => img'[h][i] = "shown" /\ owner'[h][i] = c
         /\ ~(h \in hs /\ p[h] = i) => img'[h][i] = img[h][i] /\ owner'[h][i] = owner[h][i]

\* A present leaves the images of existing swapchains existing, and marks
\* what it presented.
LEMMA ShownMarks ==
    ASSUME Shape, NEW hs \in SUBSET Handle, NEW p \in [hs -> Image],
           NEW c \in Context \cup {0}, NEW ok \in BOOLEAN, Shown(p, c, ok)
    PROVE  Marked(hs, p, c, ok)
BY DEF Shown, Shape, Marked

-----------------------------------------------------------------------------
(* The frame buffers that are drawn into. *)

\* What the steps that leave contexts and resources alone must keep.
LEMMA SoundSame ==
    ASSUME Sound, Idle, Shape',
           \A h \in Handle : h \in Live => (h \in Live)',
           UNCHANGED <<res, ctx>>,
           \A c \in busy' : c \in busy, Idle'
    PROVE  (Sound /\ Idle)'
<1>1. Backed'
  BY DEF Sound, Backed
<1>2. Recorded'
  <2> SUFFICES ASSUME NEW c \in Context
               PROVE  (RecordedIn(c) /\ (c \in busy => ctx[c].assigned))'
    BY DEF Recorded
  <2>1. RecordedIn(c) /\ (c \in busy => ctx[c].assigned)
    BY DEF Sound, Recorded
  <2>2. RecordedIn(c)' <=> RecordedIn(c)
    BY DEF RecordedIn, Buffers
  <2> QED BY <2>1, <2>2
<1> QED BY <1>1, <1>2 DEF Sound

\* Making a swapchain, possibly under the handle of a destroyed one.
LEMMA CreatedSound ==
    ASSUME Sound, Idle, NEW h \in Handle, SwapchainCreated(h)
    PROVE  (Sound /\ Idle)'
<1> USE DEF Sound
<1>1. PICK g \in Resources(h) : res' = [res EXCEPT ![h] = IF g = 0 THEN res[h] ELSE g]
  BY DEF SwapchainCreated
<1>2. gen' \in [Handle -> Nat] /\ img' \in [Handle -> [Image -> {"none", "free", "app", "shown"}]]
  BY DEF SwapchainCreated, Shape
<1>3. g \in Nat
  BY <1>2 DEF Resources
<1>4. Shape'
  BY <1>1, <1>2, <1>3 DEF SwapchainCreated, Shape
<1>5. res[h] = 0 /\ \A x \in Handle : x # h => res'[x] = res[x]
  BY <1>1 DEF SwapchainCreated, Backed, Shape
<1>6. (h \in Live)' /\ \A x \in Handle : x # h => img'[x] = img[x]
  BY DEF SwapchainCreated, Shape, Live
<1>7. Backed'
  BY <1>5, <1>6 DEF Backed, Live
<1>8. Recorded'
  <2> SUFFICES ASSUME NEW c \in Context
               PROVE  (RecordedIn(c) /\ (c \in busy => ctx[c].assigned))'
    BY DEF Recorded
  <2>1. RecordedIn(c) /\ (c \in busy => ctx[c].assigned)
    BY DEF Recorded
  <2>2. ctx' = ctx /\ busy' = busy
    BY DEF SwapchainCreated
  <2>3. ASSUME ctx[c].assigned
        PROVE  RecordedIn(c)'
    <3>1. ctx[c].refs \in SUBSET ImageRef
      BY DEF Shape, FrameContext
    <3>2. \A t \in ctx[c].refs : res[t[1]] # 0
      BY <2>1, <2>3 DEF RecordedIn
    <3>3. \A t \in ctx[c].refs : res[t[1]] = res'[t[1]]
      BY <3>1, <3>2, <1>5 DEF ImageRef
    <3>4. Buffers(ctx[c].refs, res) = Buffers(ctx[c].refs, res')
      <4>1. PICK q : q = res'
        OBVIOUS
      <4>2. \A t \in ctx[c].refs : res[t[1]] = q[t[1]]
        BY <3>3, <4>1
      <4>3. Buffers(ctx[c].refs, res) = Buffers(ctx[c].refs, q)
        BY ONLY <3>1, <4>2, BuffersLocal
      <4> QED BY <4>1, <4>3
    <3> QED BY <2>1, <2>2, <2>3, <3>2, <3>3, <3>4 DEF RecordedIn
  <2>4. CASE ~ctx[c].assigned
    BY <2>1, <2>2, <2>4 DEF RecordedIn
  <2> QED BY <2>1, <2>2, <2>3, <2>4
<1> QED BY <1>4, <1>7, <1>8 DEF SwapchainCreated, Idle

\* Destroying a swapchain takes its resources and every context that refers
\* to it.
LEMMA DestroyedSound ==
    ASSUME Sound, Idle, NEW h \in Handle, SwapchainDestroyed(h)
    PROVE  (Sound /\ Idle)'
<1> USE DEF Sound
<1>1. \A c \in Context : ctx'[c] = Forget(ctx[c], h)
  BY DEF SwapchainDestroyed
<1>2. \A c \in Context : ctx[c] \in FrameContext
  BY DEF Shape
<1>3. ASSUME NEW c \in Context
      PROVE  /\ ctx'[c] \in FrameContext
             /\ \/ ctx'[c] = ctx[c] /\ \A t \in ctx[c].refs : t[1] # h
                \/ ctx'[c].assigned = FALSE /\ \E t \in ctx[c].refs : t[1] = h
  <2>1. PICK k \in FrameContext : k = ctx[c]
    BY <1>2
  <2>2. /\ Forget(k, h) \in FrameContext
        /\ \/ Forget(k, h) = k /\ \A t \in k.refs : t[1] # h
           \/ Forget(k, h).assigned = FALSE /\ \E t \in k.refs : t[1] = h
    BY ONLY ForgetType, k \in FrameContext
  <2>3. ctx'[c] = Forget(k, h)
    BY <1>1, <2>1
  <2> QED BY <2>1, <2>2, <2>3
<1>4. ctx' \in [Context -> FrameContext]
  <2>1. ctx' = [c \in Context |-> ctx'[c]]
    BY DEF SwapchainDestroyed
  <2> QED BY ONLY <2>1, <1>3
<1>5. res' \in [Handle -> Nat] /\ res'[h] = 0 /\ \A x \in Handle : x # h => res'[x] = res[x]
  BY DEF SwapchainDestroyed, WithoutResources, Shape
<1>6. /\ img' \in [Handle -> [Image -> {"none", "free", "app", "shown"}]]
      /\ owner' \in [Handle -> [Image -> Context \cup {0}]]
  BY DEF SwapchainDestroyed, Shape
<1>7. Shape'
  BY <1>4, <1>5, <1>6 DEF SwapchainDestroyed, Shape
<1>8. \A x \in Handle : x # h => img'[x] = img[x]
  BY DEF SwapchainDestroyed, Shape
<1>9. Backed'
  BY <1>5, <1>8 DEF Backed, Live
<1>10. Recorded'
  <2> SUFFICES ASSUME NEW c \in Context
               PROVE  (RecordedIn(c) /\ (c \in busy => ctx[c].assigned))'
    BY DEF Recorded
  <2>1. RecordedIn(c) /\ (c \in busy => ctx[c].assigned)
    BY DEF Recorded
  <2>2. busy' = busy
    BY DEF SwapchainDestroyed
  <2>3. ctx[c].refs \in SUBSET ImageRef
    BY <1>2 DEF FrameContext
  <2>4. \/ ctx'[c] = ctx[c] /\ \A t \in ctx[c].refs : t[1] # h
        \/ ctx'[c].assigned = FALSE /\ \E t \in ctx[c].refs : t[1] = h
    BY <1>3
  <2>5. CASE ~ctx[c].assigned
    <3>1. c \notin busy
      BY <2>1, <2>5
    <3>2. ~ctx'[c].assigned
      BY <2>4, <2>5
    <3> QED BY <2>2, <3>1, <3>2 DEF RecordedIn
  <2>6. CASE ctx[c].assigned /\ ctx'[c] = ctx[c] /\ \A t \in ctx[c].refs : t[1] # h
    <3>1. \A t \in ctx[c].refs : res[t[1]] = res'[t[1]]
      BY <2>3, <2>6, <1>5 DEF ImageRef
    <3>2. Buffers(ctx[c].refs, res) = Buffers(ctx[c].refs, res')
      <4>1. PICK q : q = res'
        OBVIOUS
      <4>2. \A t \in ctx[c].refs : res[t[1]] = q[t[1]]
        BY <3>1, <4>1
      <4>3. Buffers(ctx[c].refs, res) = Buffers(ctx[c].refs, q)
        BY ONLY <2>3, <4>2, BuffersLocal
      <4> QED BY <4>1, <4>3
    <3> QED BY <2>1, <2>2, <2>6, <3>1, <3>2 DEF RecordedIn
  <2>7. CASE ctx[c].assigned /\ ctx'[c].assigned = FALSE /\ \E t \in ctx[c].refs : t[1] = h
    \* Its commands do not execute: they would draw into h.
    <3>1. PICK t \in ctx[c].refs : t[1] = h
      BY <2>7
    <3>2. <<t[1], t[2], res[t[1]]>> \in Buffers(ctx[c].refs, res)
      BY DEF Buffers
    <3>3. c \in busy => \A u \in ctx[c].drawn : u[1] # h
      BY DEF SwapchainDestroyed
    <3>4. ctx[c].drawn = Buffers(ctx[c].refs, res)
      BY <2>1, <2>7 DEF RecordedIn
    <3>5. <<t[1], t[2], res[t[1]]>>[1] = h
      BY <3>1
    <3>6. c \notin busy
      BY <3>2, <3>3, <3>4, <3>5
    <3> QED BY <2>2, <2>7, <3>6 DEF RecordedIn
  <2> QED BY <2>4, <2>5, <2>6, <2>7
<1> QED BY <1>7, <1>9, <1>10 DEF SwapchainDestroyed, Idle

\* A present that draws: what it submits is recorded with the resources its
\* targets have, and what it shows of the plan is current.
LEMMA DrawnSound ==
    ASSUME Sound, Idle, NEW hs \in SUBSET Handle, NEW p \in [hs -> Image], NEW ok \in BOOLEAN,
           NEW t \in Primary(Targets(p)), NEW c \in Chosen(t), NEW outcome,
           known = "queue", Drawn(p, ok, t, c, outcome),
           UNCHANGED <<known, res, plan, gen>>
    PROVE  /\ (Sound /\ Idle)'
           /\ \A d \in busy' \ busy : ctx'[d].revision = plan.revision
<1> USE DEF Sound
<1> DEFINE ts == Targets(p)
           new == Submitted(c, t, ts, outcome)
<1>1. /\ ts \in SUBSET ImageRef
      /\ \A u \in ts : res[u[1]] # 0 /\ u[1] \in hs /\ u[2] = p[u[1]]
  BY TargetsType
<1>2. t \in ts /\ t \in ImageRef
  BY <1>1 DEF Primary
<1>3. c \in Context /\ c \notin busy
  BY DEF Chosen
<1>4. Becomes(new, c, t, ts, outcome)
  <2>1. PICK us \in SUBSET ImageRef : us = ts
    BY <1>1
  <2>2. Becomes(Submitted(c, t, us, outcome), c, t, us, outcome)
    <3>1. Shape
      OBVIOUS
    <3> QED BY ONLY <3>1, <1>2, <1>3, us \in SUBSET ImageRef, SubmittedType
  <2> HIDE DEF ts
  <2> QED BY <2>1, <2>2
<1>5. PICK k \in Context \cup {0} : Shown(p, k, ok)
  <2>1. c \in Context \cup {0} /\ 0 \in Context \cup {0}
    BY <1>3
  <2>2. Shown(p, c, ok) \/ Shown(p, 0, ok)
    BY DEF Drawn
  <2> QED BY <2>1, <2>2
<1>5a. Marked(hs, p, k, ok)
  <2>1. Shape
    OBVIOUS
  <2> QED BY ONLY <2>1, <1>5, k \in Context \cup {0}, hs \in SUBSET Handle, p \in [hs -> Image],
                  ok \in BOOLEAN, ShownMarks
<1>6. /\ img' \in [Handle -> [Image -> {"none", "free", "app", "shown"}]]
      /\ owner' \in [Handle -> [Image -> Context \cup {0}]]
      /\ \A h \in Handle, i \in Image : img[h][i] # "none" => img'[h][i] # "none"
  BY <1>5a DEF Marked
<1> HIDE DEF ts, new
<1>7. ctx' = [ctx EXCEPT ![c] = new]
  BY DEF Drawn, new, ts
<1>8. ctx'[c] = new /\ \A d \in Context : d # c => ctx'[d] = ctx[d]
  BY <1>3, <1>7 DEF Shape
<1>9. Shape'
  <2>1. ctx' \in [Context -> FrameContext]
    BY <1>4, <1>7 DEF Becomes, Shape
  <2>2. sem' \in [Context -> 0 .. 3] /\ busy' \subseteq Context
    BY <1>3 DEF Drawn, Shape
  <2> QED BY <1>6, <2>1, <2>2 DEF Shape
<1>10. Backed'
  BY <1>6 DEF Backed, Live
<1>11. Recorded'
  <2> SUFFICES ASSUME NEW d \in Context
               PROVE  (RecordedIn(d) /\ (d \in busy => ctx[d].assigned))'
    BY DEF Recorded
  <2>1. RecordedIn(d) /\ (d \in busy => ctx[d].assigned)
    BY DEF Recorded
  <2>2. res' = res
    OBVIOUS
  <2>3. CASE d # c
    <3>1. ctx'[d] = ctx[d] /\ (d \in busy' => d \in busy)
      BY <1>8, <2>3 DEF Drawn
    <3> QED BY <2>1, <2>2, <3>1 DEF RecordedIn
  <2>4. CASE d = c /\ outcome # "submitted"
    <3>1. /\ ctx'[d].assigned = ctx[d].assigned /\ ctx'[d].refs = ctx[d].refs
          /\ ctx'[d].drawn = ctx[d].drawn
      BY <1>4, <1>8, <2>4 DEF Becomes
    <3>2. busy' = busy
      BY <2>4 DEF Drawn
    <3>3. RecordedIn(d)'
      BY <2>1, <2>2, <3>1 DEF RecordedIn
    <3>4. d \notin busy'
      BY <1>3, <2>4, <3>2
    <3> QED BY <3>3, <3>4
  <2>5. CASE d = c /\ outcome = "submitted"
    <3>1. ctx'[d].refs = ts /\ ctx'[d].drawn = new.drawn
      BY <1>4, <1>8, <2>5 DEF Becomes
    <3>2. ctx'[d].assigned
      BY <1>4, <1>8, <2>5 DEF Becomes
    <3>3. new.drawn = Buffers(ts, res)
      <4>1. CASE Matches(c, ts)
        <5>1. ctx[c].assigned /\ ctx[c].refs = ts
          BY <4>1 DEF Matches
        <5>2. ctx[c].drawn = Buffers(ts, res)
          BY <2>1, <2>5, <5>1 DEF RecordedIn
        <5> QED BY <1>4, <2>5, <4>1, <5>2 DEF Becomes
      <4>2. CASE ~Matches(c, ts)
        BY <1>4, <2>5, <4>2 DEF Becomes
      <4> QED BY <4>1, <4>2
    <3>4. \A u \in ts : res[u[1]] # 0
      BY <1>1 DEF ts
    <3> QED BY <2>2, <3>1, <3>2, <3>3, <3>4 DEF RecordedIn
  <2> QED BY <2>3, <2>4, <2>5
<1>12. Idle'
  BY DEF Idle
<1>13. \A d \in busy' \ busy : ctx'[d].revision = plan.revision
  <2>1. CASE outcome = "submitted"
    BY <1>4, <1>8, <2>1 DEF Becomes, Drawn
  <2>2. CASE outcome # "submitted"
    BY <2>2 DEF Drawn
  <2> QED BY <2>1, <2>2
<1> QED BY <1>9, <1>10, <1>11, <1>12, <1>13

\* One case per action.
LEMMA SoundStep ==
    ASSUME Sound, Idle, [Next]_vars
    PROVE  (Sound /\ Idle)'
<1>1. CASE DeviceCreated
  <2>1. Shape'
    BY <1>1 DEF DeviceCreated, Sound, Shape
  <2>2. Idle' /\ UNCHANGED <<res, ctx, img, busy>>
    BY <1>1 DEF DeviceCreated, Idle
  <2> QED BY <2>1, <2>2, SoundSame DEF Live
<1>2. CASE QueueObserved
  <2>1. known = "device" /\ busy = {} /\ \A c \in Context : sem[c] = 0
    BY <1>2 DEF QueueObserved, Idle
  <2>2. UNCHANGED <<res, plan, gen, img, sem, owner, busy>>
    BY <1>2 DEF QueueObserved
  <2>3. /\ known' \in {"queue", "device"}
        /\ ctx' = FreshContexts \/ ctx' = ctx
    BY <1>2 DEF QueueObserved
  <2>4. Shape'
    BY <2>2, <2>3, FreshType DEF Sound, Shape
  <2>5. Idle'
    BY <2>1, <2>2 DEF Idle
  <2>6. CASE ctx' = ctx
    BY <2>2, <2>4, <2>5, <2>6, SoundSame DEF Live
  <2>7. CASE ctx' = FreshContexts
    <3>1. Recorded'
      BY <2>1, <2>2, <2>7, FreshType DEF Recorded, RecordedIn
    <3>2. Backed'
      BY <2>2 DEF Sound, Backed, Live
    <3> QED BY <2>4, <2>5, <3>1, <3>2 DEF Sound
  <2> QED BY <2>3, <2>6, <2>7
<1>3. CASE DeviceDestroyed
  <2>1. /\ known' = "none" /\ res' = [h \in Handle |-> 0] /\ ctx' = FreshContexts
        /\ sem' = [c \in Context |-> 0] /\ busy = {}
        /\ UNCHANGED <<plan, gen, img, owner, busy>>
    BY <1>3 DEF DeviceDestroyed
  <2>2. Shape'
    BY <2>1, FreshType DEF Sound, Shape
  <2>3. Recorded'
    BY <2>1, FreshType DEF Recorded, RecordedIn
  <2> QED BY <2>1, <2>2, <2>3 DEF Sound, Backed, Idle
<1>4. CASE PlanChanged
  <2>1. Shape'
    BY <1>4 DEF PlanChanged, Sound, Shape
  <2>2. Idle' /\ UNCHANGED <<res, ctx, img, busy>>
    BY <1>4 DEF PlanChanged, Idle
  <2> QED BY <2>1, <2>2, SoundSame DEF Live
<1>5. CASE Executed
  <2>1. /\ Idle' /\ UNCHANGED <<res, ctx, img>>
        /\ \A c \in busy' : c \in busy
    BY <1>5 DEF Executed, Idle
  <2>2. Shape'
    BY <1>5, <2>1 DEF Executed, Sound, Shape
  <2> QED BY <2>1, <2>2, SoundSame DEF Live
<1>6. CASE \E h \in Handle : SwapchainCreated(h)
  BY <1>6, CreatedSound
<1>7. CASE \E h \in Handle : SwapchainDestroyed(h)
  BY <1>7, DestroyedSound
<1>8. ASSUME NEW hs \in SUBSET Handle, NEW p \in [hs -> Image], Present(p)
      PROVE  (Sound /\ Idle)'
  <2>1. PICK ok \in Unless("present") :
          \/ /\ Skipped(p)
             /\ Shown(p, 0, ok)
             /\ UNCHANGED <<ctx, sem, busy>>
          \/ /\ known = "queue" /\ ~plan.empty
             /\ \E t \in Primary(Targets(p)) : \E c \in Chosen(t), outcome \in Outcomes :
                  Drawn(p, ok, t, c, outcome)
    BY <1>8 DEF Present
  <2>2. UNCHANGED <<known, res, plan, gen>> /\ ok \in BOOLEAN
    BY <1>8, <2>1 DEF Present, Unless
  <2>3. CASE Shown(p, 0, ok) /\ UNCHANGED <<ctx, sem, busy>>
    <3>1. /\ img' \in [Handle -> [Image -> {"none", "free", "app", "shown"}]]
          /\ owner' \in [Handle -> [Image -> Context \cup {0}]]
          /\ \A h \in Handle, i \in Image : img[h][i] # "none" => img'[h][i] # "none"
      <4>1. PICK k \in Context \cup {0} : k = 0
        OBVIOUS
      <4>2. Shape /\ Shown(p, k, ok)
        BY <2>3, <4>1 DEF Sound
      <4>3. ok \in BOOLEAN
        BY <2>2
      <4>4. Marked(hs, p, k, ok)
        BY ONLY <4>2, <4>3, k \in Context \cup {0}, hs \in SUBSET Handle,
                p \in [hs -> Image], ShownMarks
      <4> QED BY <4>4 DEF Marked
    <3>2. Shape' /\ Idle'
      BY <2>2, <2>3, <3>1 DEF Sound, Shape, Idle
    <3>3. \A h \in Handle : h \in Live => (h \in Live)'
      BY <3>1 DEF Live
    <3> QED BY <2>2, <2>3, <3>2, <3>3, SoundSame
  <2>4. CASE /\ known = "queue"
             /\ \E t \in Primary(Targets(p)) : \E c \in Chosen(t), outcome \in Outcomes :
                  Drawn(p, ok, t, c, outcome)
    <3>1. PICK t \in Primary(Targets(p)), outcome \in Outcomes :
            \E c \in Chosen(t) : Drawn(p, ok, t, c, outcome)
      BY <2>4
    <3>2. PICK c \in Chosen(t) : Drawn(p, ok, t, c, outcome)
      BY <3>1
    <3>3. known = "queue" /\ ok \in BOOLEAN /\ UNCHANGED <<known, res, plan, gen>>
      BY <2>2, <2>4
    <3> QED BY ONLY Sound, Idle, hs \in SUBSET Handle, p \in [hs -> Image],
                    t \in Primary(Targets(p)), c \in Chosen(t), <3>2, <3>3, DrawnSound
  <2> QED BY <2>1, <2>3, <2>4
<1>9. ASSUME NEW h \in Handle, NEW i \in Image, EngineDone(h, i) \/ Acquire(h, i)
      PROVE  (Sound /\ Idle)'
  <2>1. /\ img' \in [Handle -> [Image -> {"none", "free", "app", "shown"}]]
        /\ \A x \in Handle, j \in Image : img[x][j] # "none" => img'[x][j] # "none"
    <3>1. PICK s \in {"free", "app"} : img' = [img EXCEPT ![h][i] = s]
      BY <1>9 DEF EngineDone, Acquire
    <3>2. img \in [Handle -> [Image -> {"none", "free", "app", "shown"}]]
      BY DEF Sound, Shape
    <3> QED BY <3>1, <3>2
  <2>2. owner' \in [Handle -> [Image -> Context \cup {0}]]
    <3>1. CASE EngineDone(h, i)
      <4>1. owner' = [owner EXCEPT ![h][i] = 0]
        BY <3>1 DEF EngineDone
      <4>2. [owner[h] EXCEPT ![i] = 0] \in [Image -> Context \cup {0}]
        BY DEF Sound, Shape
      <4> QED BY <4>1, <4>2 DEF Sound, Shape
    <3>2. CASE Acquire(h, i)
      BY <3>2 DEF Acquire, Sound, Shape
    <3> QED BY <1>9, <3>1, <3>2
  <2>3. sem' \in [Context -> 0 .. 3] /\ \A c \in Context : sem[c] = 0 => sem'[c] = 0
    <3>1. CASE EngineDone(h, i)
      BY <3>1 DEF EngineDone, Sound, Shape
    <3>2. CASE Acquire(h, i)
      BY <3>2 DEF Acquire, Sound, Shape
    <3> QED BY <1>9, <3>1, <3>2
  <2>4. UNCHANGED <<known, res, ctx, plan, gen, busy>>
    BY <1>9 DEF EngineDone, Acquire
  <2>5. Shape' /\ Idle'
    BY <2>1, <2>2, <2>3, <2>4 DEF Sound, Shape, Idle
  <2>6. \A x \in Handle : x \in Live => (x \in Live)'
    BY <2>1 DEF Live
  <2> QED BY <2>4, <2>5, <2>6, SoundSame
<1>10. CASE UNCHANGED vars
  <2>1. Shape' /\ Idle' /\ UNCHANGED <<res, ctx, img, busy>>
    BY <1>10 DEF vars, Sound, Shape, Idle
  <2> QED BY <2>1, SoundSame DEF Live
<1> QED BY <1>1, <1>2, <1>3, <1>4, <1>5, <1>6, <1>7, <1>8, <1>9, <1>10 DEF Next

-----------------------------------------------------------------------------
(* The semaphores. *)

\* A context whose semaphore, targets and presents are left alone goes on
\* waiting for them.
LEMMA WaitsSame ==
    ASSUME Sound, Waits, NEW c \in Context, ctx'[c] = ctx[c], sem'[c] = sem[c],
           sem[c] # 0 => \A t \in ctx[c].refs :
               img'[t[1]][t[2]] = img[t[1]][t[2]] /\ owner'[t[1]][t[2]] = owner[t[1]][t[2]]
    PROVE  WaitsFor(c)'
<1>1. WaitsFor(c)
  BY DEF Waits
<1> QED BY <1>1 DEF WaitsFor

\* The targets of a context that waits: swapchains that exist, whose images
\* are shown and owned by it.
LEMMA WaitingTargets ==
    ASSUME Sound, Waits, NEW c \in Context, sem[c] # 0, NEW t \in ctx[c].refs
    PROVE  /\ t[1] \in Live /\ t \in ImageRef /\ t[1] \in Handle /\ t[2] \in Image
           /\ img[t[1]][t[2]] = "shown" /\ owner[t[1]][t[2]] = c
<1>1. ctx[c].refs \in SUBSET ImageRef
  BY DEF Sound, Shape, FrameContext
<1>2. t \in ImageRef /\ t[1] \in Handle /\ t[2] \in Image
  BY <1>1 DEF ImageRef
<1>3. WaitsFor(c) /\ RecordedIn(c)
  BY DEF Sound, Recorded, Waits
<1>4. ctx[c].assigned /\ img[t[1]][t[2]] = "shown" /\ owner[t[1]][t[2]] = c
  BY <1>3 DEF WaitsFor
<1>5. res[t[1]] # 0
  BY <1>3, <1>4 DEF RecordedIn
<1> QED BY <1>2, <1>4, <1>5 DEF Sound, Backed

\* A present marks images the game held, and none that a context waits for.
LEMMA OthersWait ==
    ASSUME Sound, Waits, NEW hs \in SUBSET Handle, NEW p \in [hs -> Image],
           \A h \in hs : img[h][p[h]] = "app", NEW k, NEW ok \in BOOLEAN, Marked(hs, p, k, ok),
           NEW d \in Context, sem[d] # 0
    PROVE  \A t \in ctx[d].refs :
               img'[t[1]][t[2]] = img[t[1]][t[2]] /\ owner'[t[1]][t[2]] = owner[t[1]][t[2]]
<1> SUFFICES ASSUME NEW t \in ctx[d].refs
             PROVE  img'[t[1]][t[2]] = img[t[1]][t[2]] /\ owner'[t[1]][t[2]] = owner[t[1]][t[2]]
  OBVIOUS
<1>1. t[1] \in Handle /\ t[2] \in Image /\ img[t[1]][t[2]] = "shown"
  BY WaitingTargets
<1>2. ~(t[1] \in hs /\ p[t[1]] = t[2])
  BY <1>1
<1> QED BY <1>1, <1>2 DEF Marked

\* A present that draws, and that the driver accepts: the context it signals
\* was waited for.
LEMMA DrawnWaits ==
    ASSUME Sound, Idle, Waits, NEW hs \in SUBSET Handle, NEW p \in [hs -> Image],
           \A h \in hs : img[h][p[h]] = "app",
           NEW t \in Primary(Targets(p)), NEW c \in Chosen(t), NEW outcome,
           Drawn(p, TRUE, t, c, outcome)
    PROVE  Waits'
<1> DEFINE ts == Targets(p)
           new == Submitted(c, t, ts, outcome)
<1>0. Shape
  BY DEF Sound
<1>1. /\ ts \in SUBSET ImageRef
      /\ \A u \in ts : res[u[1]] # 0 /\ u[1] \in hs /\ u[2] = p[u[1]]
  BY TargetsType
<1>2. t \in ts /\ t \in ImageRef
  BY <1>1 DEF Primary
<1>3. c \in Context /\ (~ctx[c].assigned \/ ctx[c].primary = t)
  BY DEF Chosen
<1>4. Becomes(new, c, t, ts, outcome)
  <2>1. PICK us \in SUBSET ImageRef : us = ts
    BY <1>1
  <2>2. Becomes(Submitted(c, t, us, outcome), c, t, us, outcome)
    BY ONLY <1>0, <1>2, <1>3, us \in SUBSET ImageRef, SubmittedType
  <2> HIDE DEF ts
  <2> QED BY <2>1, <2>2
<1>5. PICK k \in Context \cup {0} : Shown(p, k, TRUE) /\ (outcome = "submitted" => k = c)
  <2>1. c \in Context \cup {0} /\ 0 \in Context \cup {0}
    BY <1>3
  <2>2. IF outcome = "submitted" THEN Shown(p, c, TRUE) ELSE Shown(p, 0, TRUE)
    BY DEF Drawn
  <2> QED BY <2>1, <2>2
<1>6. Marked(hs, p, k, TRUE)
  <2>1. PICK ok \in BOOLEAN : ok = TRUE
    OBVIOUS
  <2>2. Shown(p, k, ok)
    BY <1>5, <2>1
  <2>3. Marked(hs, p, k, ok)
    BY ONLY <1>0, <2>2, k \in Context \cup {0}, hs \in SUBSET Handle, p \in [hs -> Image],
            ok \in BOOLEAN, ShownMarks
  <2> QED BY <2>1, <2>3
<1> HIDE DEF ts, new
<1>7. ctx'[c] = new /\ \A d \in Context : d # c => ctx'[d] = ctx[d]
  <2>1. ctx' = [ctx EXCEPT ![c] = new]
    BY DEF Drawn, new, ts
  <2> QED BY <1>0, <1>3, <2>1 DEF Shape
<1>8. ASSUME NEW d \in Context, sem[d] # 0
      PROVE  \A u \in ctx[d].refs :
               img'[u[1]][u[2]] = img[u[1]][u[2]] /\ owner'[u[1]][u[2]] = owner[u[1]][u[2]]
  <2>1. PICK ok \in BOOLEAN : ok = TRUE
    OBVIOUS
  <2>2. Marked(hs, p, k, ok)
    BY <1>6, <2>1
  <2>3. \A h \in hs : img[h][p[h]] = "app"
    OBVIOUS
  <2> QED BY ONLY Sound, Waits, <1>8, <2>2, <2>3, hs \in SUBSET Handle, p \in [hs -> Image],
                  ok \in BOOLEAN, OthersWait
\* A context that waits shows its primary target, which the game holds.
<1>9. sem[c] = 0 \/ ctx[c].primary # t
  <2> SUFFICES ASSUME sem[c] # 0, ctx[c].primary = t PROVE FALSE
    OBVIOUS
  <2>1. t \in ctx[c].refs
    BY <1>3 DEF Waits, WaitsFor
  <2>2. img[t[1]][t[2]] = "shown"
    BY <1>3, <2>1 DEF Waits, WaitsFor
  <2>3. t[1] \in hs /\ t[2] = p[t[1]]
    BY <1>1, <1>2
  <2> QED BY <2>2, <2>3
<1>10. sem[c] = 0 \/ ctx[c].assigned
  BY <1>3 DEF Waits, WaitsFor
<1>11. sem[c] = 0
  BY <1>3, <1>9, <1>10
<1> SUFFICES ASSUME NEW d \in Context PROVE WaitsFor(d)'
  BY DEF Waits
<1>12. CASE d # c
  <2>1. ctx'[d] = ctx[d]
    BY <1>7, <1>12
  <2>2. sem'[d] = sem[d]
    <3>1. CASE outcome = "submitted"
      BY <3>1, <1>12, <1>0 DEF Drawn, Shape
    <3>2. CASE outcome # "submitted"
      BY <3>2 DEF Drawn
    <3> QED BY <3>1, <3>2
  <2>3. sem[d] # 0 => \A u \in ctx[d].refs :
          img'[u[1]][u[2]] = img[u[1]][u[2]] /\ owner'[u[1]][u[2]] = owner[u[1]][u[2]]
    BY <1>8
  <2> QED BY <2>1, <2>2, <2>3, WaitsSame
<1>13. CASE d = c /\ outcome # "submitted"
  <2>1. sem'[d] = 0
    BY <1>11, <1>13 DEF Drawn
  <2> QED BY <2>1 DEF WaitsFor
<1>14. CASE d = c /\ outcome = "submitted"
  <2>1. sem'[d] = 1
    BY <1>0, <1>3, <1>11, <1>14 DEF Drawn, Shape
  <2>2. ctx'[d].primary = t /\ ctx'[d].refs = ts
    BY <1>4, <1>7, <1>14 DEF Becomes
  <2>3. ctx'[d].assigned
    BY <1>4, <1>7, <1>14 DEF Becomes
  <2>4. ASSUME NEW u \in ts
        PROVE  img'[u[1]][u[2]] = "shown" /\ owner'[u[1]][u[2]] = d
    <3>1. u[1] \in Handle /\ u[2] \in Image /\ u[1] \in hs /\ p[u[1]] = u[2]
      BY <1>1 DEF ts, ImageRef
    <3> QED BY <1>5, <1>6, <1>14, <3>1 DEF Marked
  <2>5. t \in ts
    BY <1>2
  <2> QED BY <2>1, <2>2, <2>3, <2>4, <2>5 DEF WaitsFor
<1> QED BY <1>12, <1>13, <1>14

\* The engine waits for the semaphore of the image's present, and no other
\* context waits for that image.
LEMMA EngineWaits ==
    ASSUME Sound, Idle, Waits, NEW h \in Handle, NEW i \in Image, EngineDone(h, i)
    PROVE  Waits'
<1> SUFFICES ASSUME NEW c \in Context PROVE WaitsFor(c)'
  BY DEF Waits
<1>0. Shape
  BY DEF Sound
<1>1. /\ sem'[c] = IF c = owner[h][i] /\ sem[c] = 1 THEN 0 ELSE sem[c]
      /\ ctx' = ctx /\ img' = [img EXCEPT ![h][i] = "free"]
      /\ owner' = [owner EXCEPT ![h][i] = 0]
  BY DEF EngineDone
<1>2. CASE sem'[c] = 0
  BY <1>2 DEF WaitsFor
<1>3. CASE sem'[c] # 0
  <2>1. sem'[c] = sem[c] /\ ~(c = owner[h][i] /\ sem[c] = 1)
    BY <1>1, <1>3
  <2>2. WaitsFor(c) /\ sem[c] # 0
    BY <1>3, <2>1 DEF Waits
  <2>3. c # owner[h][i]
    BY <2>1, <2>2 DEF WaitsFor
  <2>4. ASSUME NEW t \in ctx[c].refs
        PROVE  img'[t[1]][t[2]] = img[t[1]][t[2]] /\ owner'[t[1]][t[2]] = owner[t[1]][t[2]]
    <3>1. t[1] \in Handle /\ t[2] \in Image /\ owner[t[1]][t[2]] = c
      BY <2>2, WaitingTargets
    <3>2. ~(t[1] = h /\ t[2] = i)
      BY <2>3, <3>1
    <3> QED BY <1>0, <1>1, <3>1, <3>2 DEF Shape
  <2>5. ctx'[c] = ctx[c]
    BY <1>1
  <2> QED BY <2>1, <2>4, <2>5, WaitsSame
<1> QED BY <1>2, <1>3

\* One case per action, when the driver refuses no present.
LEMMA WaitsStep ==
    ASSUME "present" \notin Faults, Sound, Idle, Waits, [Next]_vars
    PROVE  Waits'
<1>0. Shape
  BY DEF Sound
<1>1. CASE DeviceCreated \/ PlanChanged \/ Executed \/ UNCHANGED vars
  <2>1. ctx' = ctx /\ sem' = sem /\ img' = img /\ owner' = owner
    BY <1>1 DEF DeviceCreated, PlanChanged, Executed, vars
  <2> QED BY <2>1, WaitsSame DEF Waits
<1>2. CASE QueueObserved
  <2>1. \A c \in Context : sem'[c] = 0
    BY <1>2 DEF QueueObserved, Idle
  <2> QED BY <2>1 DEF Waits, WaitsFor
<1>3. CASE DeviceDestroyed
  <2>1. \A c \in Context : sem'[c] = 0
    BY <1>3 DEF DeviceDestroyed
  <2> QED BY <2>1 DEF Waits, WaitsFor
<1>4. ASSUME NEW h \in Handle, SwapchainCreated(h)
      PROVE  Waits'
  <2> SUFFICES ASSUME NEW c \in Context PROVE WaitsFor(c)'
    BY DEF Waits
  <2>1. h \notin Live /\ ctx' = ctx /\ sem' = sem /\ owner' = owner
    BY <1>4 DEF SwapchainCreated
  <2>2. \A x \in Handle : x # h => img'[x] = img[x]
    BY <1>0, <1>4 DEF SwapchainCreated, Shape
  <2>3. ASSUME sem[c] # 0, NEW t \in ctx[c].refs
        PROVE  img'[t[1]][t[2]] = img[t[1]][t[2]] /\ owner'[t[1]][t[2]] = owner[t[1]][t[2]]
    <3>1. t[1] \in Live /\ t[1] \in Handle
      BY <2>3, WaitingTargets
    <3>2. t[1] # h
      BY <2>1, <3>1
    <3> QED BY <2>1, <2>2, <3>1, <3>2
  <2> QED BY <2>1, <2>3, WaitsSame
<1>5. ASSUME NEW h \in Handle, SwapchainDestroyed(h)
      PROVE  Waits'
  <2> SUFFICES ASSUME NEW c \in Context PROVE WaitsFor(c)'
    BY DEF Waits
  <2>1. sem' = sem /\ \A i \in Image : img[h][i] # "shown"
    BY <1>5 DEF SwapchainDestroyed
  <2>2. \A x \in Handle : x # h => img'[x] = img[x] /\ owner'[x] = owner[x]
    BY <1>0, <1>5 DEF SwapchainDestroyed, Shape
  <2>3. CASE sem[c] = 0
    BY <2>1, <2>3 DEF WaitsFor
  <2>4. CASE sem[c] # 0
    <3>1. ASSUME NEW t \in ctx[c].refs
          PROVE  t[1] \in Handle /\ t[1] # h
      <4>1. t[1] \in Handle /\ t[2] \in Image /\ img[t[1]][t[2]] = "shown"
        BY <2>4, WaitingTargets
      <4> QED BY <2>1, <4>1
    <3>2. ctx'[c] = ctx[c]
      <4>1. ctx'[c] = Forget(ctx[c], h)
        BY <1>5 DEF SwapchainDestroyed
      <4> QED BY <3>1, <4>1 DEF Forget
    <3>3. \A t \in ctx[c].refs :
            img'[t[1]][t[2]] = img[t[1]][t[2]] /\ owner'[t[1]][t[2]] = owner[t[1]][t[2]]
      BY <2>2, <3>1
    <3> QED BY <2>1, <3>2, <3>3, WaitsSame
  <2> QED BY <2>3, <2>4
<1>6. ASSUME NEW hs \in SUBSET Handle, NEW p \in [hs -> Image], Present(p)
      PROVE  Waits'
  <2>1. \A h \in hs : img[h][p[h]] = "app"
    BY <1>6 DEF Present
  <2>2. \/ Shown(p, 0, TRUE) /\ UNCHANGED <<ctx, sem, busy>>
        \/ \E t \in Primary(Targets(p)) : \E c \in Chosen(t), outcome \in Outcomes :
             Drawn(p, TRUE, t, c, outcome)
    BY <1>6 DEF Present, Unless
  <2>3. CASE Shown(p, 0, TRUE) /\ UNCHANGED <<ctx, sem, busy>>
    <3>1. PICK k \in Context \cup {0}, ok \in BOOLEAN : k = 0 /\ ok = TRUE
      OBVIOUS
    <3>2. Shown(p, k, ok)
      BY <2>3, <3>1
    <3>3. Marked(hs, p, k, ok)
      BY ONLY <1>0, <3>2, k \in Context \cup {0}, hs \in SUBSET Handle, p \in [hs -> Image],
              ok \in BOOLEAN, ShownMarks
    <3>4. ctx' = ctx /\ sem' = sem
      BY <2>3
    <3> SUFFICES ASSUME NEW d \in Context PROVE WaitsFor(d)'
      BY DEF Waits
    <3>5. sem[d] # 0 => \A t \in ctx[d].refs :
            img'[t[1]][t[2]] = img[t[1]][t[2]] /\ owner'[t[1]][t[2]] = owner[t[1]][t[2]]
      BY ONLY Sound, Waits, d \in Context, <2>1, <3>3, hs \in SUBSET Handle,
              p \in [hs -> Image], ok \in BOOLEAN, OthersWait
    <3> QED BY <3>4, <3>5, WaitsSame
  <2>4. ASSUME NEW t \in Primary(Targets(p)), NEW c \in Chosen(t), NEW outcome,
               Drawn(p, TRUE, t, c, outcome)
        PROVE  Waits'
    BY ONLY Sound, Idle, Waits, <2>1, <2>4, hs \in SUBSET Handle, p \in [hs -> Image], DrawnWaits
  <2> QED BY <2>2, <2>3, <2>4
<1>7. ASSUME NEW h \in Handle, NEW i \in Image, EngineDone(h, i)
      PROVE  Waits'
  BY <1>7, EngineWaits
<1>8. ASSUME NEW h \in Handle, NEW i \in Image, Acquire(h, i)
      PROVE  Waits'
  <2> SUFFICES ASSUME NEW c \in Context PROVE WaitsFor(c)'
    BY DEF Waits
  <2>1. img[h][i] = "free" /\ img' = [img EXCEPT ![h][i] = "app"]
    BY <1>8 DEF Acquire
  <2>2. ctx' = ctx /\ sem' = sem /\ owner' = owner
    BY <1>8 DEF Acquire
  <2>3. ASSUME sem[c] # 0, NEW t \in ctx[c].refs
        PROVE  img'[t[1]][t[2]] = img[t[1]][t[2]] /\ owner'[t[1]][t[2]] = owner[t[1]][t[2]]
    <3>1. t[1] \in Handle /\ t[2] \in Image /\ img[t[1]][t[2]] = "shown"
      BY <2>3, WaitingTargets
    <3>2. ~(t[1] = h /\ t[2] = i)
      BY <2>1, <3>1
    <3> QED BY <1>0, <2>1, <2>2, <3>1, <3>2 DEF Shape
  <2> QED BY <2>2, <2>3, WaitsSame
<1> QED BY <1>1, <1>2, <1>3, <1>4, <1>5, <1>6, <1>7, <1>8 DEF Next

-----------------------------------------------------------------------------
(* The theorems. *)

\* Nothing is drawn, signaled or shown before the device is known.
LEMMA Initially == Init => Sound /\ Idle /\ Waits
<1> SUFFICES ASSUME Init PROVE Sound /\ Idle /\ Waits
  OBVIOUS
<1>1. Shape
  BY FreshType DEF Init, Shape
<1>2. Backed
  BY DEF Init, Backed
<1>3. Recorded
  BY FreshType DEF Init, Recorded, RecordedIn
<1>4. Idle /\ Waits
  BY DEF Init, Idle, Waits, WaitsFor
<1> QED BY <1>1, <1>2, <1>3, <1>4 DEF Sound

\* Whatever fails, commands that execute draw into the frame buffers of the
\* images they were submitted for, and those exist (destroy_swapchain_resources
\* takes every cached recording that refers to a swapchain with it).
THEOREM DrawsIntoLiveCorrect == Spec => []DrawsIntoLive
<1>1. Init => Sound /\ Idle
  BY Initially
<1>2. (Sound /\ Idle) /\ [Next]_vars => (Sound /\ Idle)'
  BY SoundStep
<1>3. Sound /\ Idle => DrawsIntoLive
  <2> SUFFICES ASSUME Sound, NEW c \in busy
               PROVE  /\ ctx[c].drawn = Buffers(ctx[c].refs, res)
                      /\ \A b \in ctx[c].drawn : b[3] # 0
    BY DEF DrawsIntoLive
  <2>1. c \in Context
    BY DEF Sound, Shape
  <2>2. RecordedIn(c) /\ ctx[c].assigned
    BY <2>1 DEF Sound, Recorded
  <2>3. ctx[c].drawn = Buffers(ctx[c].refs, res) /\ \A t \in ctx[c].refs : res[t[1]] # 0
    BY <2>2 DEF RecordedIn
  <2>4. ASSUME NEW b \in ctx[c].drawn
        PROVE  b[3] # 0
    <3>1. PICK t \in ctx[c].refs : b = <<t[1], t[2], res[t[1]]>>
      BY <2>3 DEF Buffers
    <3>2. b[3] = res[t[1]]
      BY <3>1
    <3> QED BY <2>3, <3>2
  <2> QED BY <2>3, <2>4
<1> QED BY <1>1, <1>2, <1>3, PTL DEF Spec

\* While the driver accepts every present, no semaphore is signaled a second
\* time before a present has waited for it (submit_overlay).
THEOREM SignaledOnceCorrect == ASSUME "present" \notin Faults PROVE Spec => []SignaledOnce
<1>1. Init => IInv
  BY Initially DEF IInv
<1>2. IInv /\ [Next]_vars => IInv'
  BY SoundStep, WaitsStep DEF IInv
<1>3. IInv => SignaledOnce
  BY DEF IInv, Waits, WaitsFor, SignaledOnce
<1> QED BY <1>1, <1>2, <1>3, PTL DEF Spec

\* A step of the renderer starts only commands that show the current plan.
LEMMA CurrentStep ==
    ASSUME Sound, Idle, [Next]_vars
    PROVE  \A c \in busy' \ busy : ctx'[c].revision = plan.revision
<1>1. CASE \E hs \in SUBSET Handle : \E p \in [hs -> Image] : Present(p)
  <2>0. PICK hs \in SUBSET Handle : \E p \in [hs -> Image] : Present(p)
    BY <1>1
  <2>1. PICK p \in [hs -> Image] : Present(p)
    BY <2>0
  <2>2. CASE UNCHANGED <<ctx, sem, busy>>
    BY <2>2
  <2>3. CASE known = "queue" /\ \E ok \in BOOLEAN : \E t \in Primary(Targets(p)) :
               \E c \in Chosen(t), outcome \in Outcomes : Drawn(p, ok, t, c, outcome)
    <3>1. PICK ok \in BOOLEAN, t \in Primary(Targets(p)) :
            \E c \in Chosen(t), outcome \in Outcomes : Drawn(p, ok, t, c, outcome)
      BY <2>3
    <3>2. PICK c \in Chosen(t), outcome \in Outcomes : Drawn(p, ok, t, c, outcome)
      BY <3>1
    <3>3. known = "queue" /\ UNCHANGED <<known, res, plan, gen>>
      BY <2>1, <2>3 DEF Present
    <3> QED BY ONLY Sound, Idle, hs \in SUBSET Handle, p \in [hs -> Image], ok \in BOOLEAN,
                    t \in Primary(Targets(p)), c \in Chosen(t), <3>2, <3>3, DrawnSound
  <2> QED BY <2>1, <2>2, <2>3 DEF Present, Unless
<1>2. CASE busy' \subseteq busy
  BY <1>2
<1>3. CASE DeviceCreated \/ QueueObserved \/ DeviceDestroyed \/ PlanChanged \/ Executed
  BY <1>2, <1>3 DEF DeviceCreated, QueueObserved, DeviceDestroyed, PlanChanged, Executed
<1>4. CASE \E h \in Handle : SwapchainCreated(h) \/ SwapchainDestroyed(h)
  BY <1>2, <1>4 DEF SwapchainCreated, SwapchainDestroyed
<1>5. CASE \E h \in Handle, i \in Image : EngineDone(h, i) \/ Acquire(h, i)
  BY <1>2, <1>5 DEF EngineDone, Acquire
<1>6. CASE UNCHANGED vars
  BY <1>2, <1>6 DEF vars
<1> QED BY <1>1, <1>3, <1>4, <1>5, <1>6 DEF Next

\* What is submitted shows the current plan, also when a cached command
\* buffer is submitted again (submit_overlay).
THEOREM ShowsCurrentPlanCorrect == Spec => ShowsCurrentPlan
<1>1. Init => Sound /\ Idle
  BY Initially
<1>2. (Sound /\ Idle) /\ [Next]_vars => (Sound /\ Idle)'
  BY SoundStep
<1>3. (Sound /\ Idle) /\ [Next]_vars =>
        [\A c \in busy' \ busy : ctx'[c].revision = plan.revision]_vars
  BY CurrentStep
<1> QED BY <1>1, <1>2, <1>3, PTL DEF Spec, ShowsCurrentPlan
=============================================================================
