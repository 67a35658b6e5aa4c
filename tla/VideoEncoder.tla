---------------------------- MODULE VideoEncoder ----------------------------
(***************************************************************************)
(* The Vulkan Video encoder at work (replay_vulkan_video.rs of the daemon, *)
(* conversion.rs, execution.rs, encode.rs and import_cache.rs of the       *)
(* capture layer).  One thread submits a frame to the next of a ring of    *)
(* slots: a conversion on the compute queue reads the game's buffer, an    *)
(* encode on the video queue waits for it, reads the previous picture and  *)
(* writes its own.  The GPU runs on its own and may never finish.  A frame *)
(* is given back to the game only when its fences have signalled, or the   *)
(* whole encoder was torn down after they did; otherwise everything native *)
(* is kept until the process exits and no encoder is opened again.         *)
(***************************************************************************)
EXTENDS Integers, Sequences, FiniteSets, SequencesExt

CONSTANTS SlotCount,   \* CONVERSION_SLOT_COUNT
          DpbCount,    \* DPB_SLOT_COUNT
          GopLength,   \* frames between keyframes
          MaxImports,  \* MAX_IMPORTS
          Inodes,      \* buffer identities the producer's pool uses
          MaxFrames,   \* bound: frames sent
          MaxOpens,    \* bound: encoders opened
          MaxReallocs, \* bound: reallocations of the producer's buffers
          Faults       \* what may fail

VARIABLES state,      \* none, open, gone, retained
          enc,        \* [poisoned, next, index, gop, ref]
          pending,    \* slot -> frame in flight
          submitted,  \* slot -> [c, e], the submitted flags
          fence,      \* slot -> [c, e], signalled
          compute,    \* compute queue
          video,      \* encode queue
          dpb,        \* reference picture -> frame it holds
          idle,       \* import_cache
          backend,    \* [failed, inputs, error]
          pool,       \* inode -> [gen, user]: the producer's buffer and the frame using it
          sent,       \* frames sent so far
          released,   \* frames given back to the producer
          units,      \* access units delivered
          wrong,      \* ghost: what went wrong with memory or pictures
          opens, reallocs

vars == <<state, enc, pending, submitted, fence, compute, video, dpb, idle, backend, pool, sent, released, units, wrong, opens, reallocs>>

Slots == 0 .. SlotCount - 1
NoFrame == [seq |-> 0, buf |-> 0, gen |-> 0, key |-> FALSE, known |-> FALSE, pinned |-> FALSE]
NoSlot == -1
Off == [c |-> FALSE, e |-> FALSE]
On == [c |-> TRUE, e |-> TRUE]
Fails(f) == f \in Faults
MaxInFlight == 4

Fresh == [poisoned |-> FALSE, next |-> 0, index |-> 0, gop |-> 0, ref |-> NoSlot]
Emptied == [failed |-> FALSE, inputs |-> <<>>, error |-> FALSE]

Init ==
    /\ state = "none" /\ enc = Fresh
    /\ pending = [s \in Slots |-> NoFrame] /\ submitted = [s \in Slots |-> Off] /\ fence = [s \in Slots |-> On]
    /\ compute = <<>> /\ video = <<>> /\ dpb = [d \in 0 .. DpbCount - 1 |-> 0]
    /\ idle = <<>> /\ backend = Emptied
    /\ pool = [b \in Inodes |-> [gen |-> 1, user |-> 0]]
    /\ sent = 0 /\ released = {} /\ units = <<>> /\ wrong = {} /\ opens = 0 /\ reallocs = 0

-----------------------------------------------------------------------------
(* The GPU. *)

\* A conversion ends: the game's buffer has been read.
Convert ==
    /\ compute # <<>>
    /\ compute' = Tail(compute)
    /\ fence' = [fence EXCEPT ![Head(compute).slot].c = TRUE]
    /\ UNCHANGED <<state, enc, pending, submitted, video, dpb, idle, backend, pool, sent, released, units, wrong, opens, reallocs>>

\* An encode ends, after its conversion: it has read the reference and
\* written its own picture.
EncodeDone ==
    /\ video # <<>> /\ Head(video).seq \notin {compute[i].seq : i \in DOMAIN compute}
    /\ LET job == Head(video) IN
       /\ video' = Tail(video)
       /\ fence' = [fence EXCEPT ![job.slot].e = TRUE]
       /\ dpb' = [dpb EXCEPT ![job.own] = job.seq]
       /\ wrong' = IF job.ref # NoSlot /\ (job.ref = job.own \/ dpb[job.ref] # job.expects)
                   THEN wrong \cup {"reference"} ELSE wrong
    /\ UNCHANGED <<state, enc, pending, submitted, compute, idle, backend, pool, sent, released, units, opens, reallocs>>

-----------------------------------------------------------------------------
(* The encoder. *)

Incomplete == state = "retained"

\* An encoder is opened for the first frame of an epoch.
Open ==
    /\ state \in {"none", "gone", "retained"} /\ ~Incomplete /\ opens < MaxOpens
    /\ state' = "open" /\ enc' = Fresh /\ backend' = Emptied /\ opens' = opens + 1
    /\ pending' = [s \in Slots |-> NoFrame] /\ submitted' = [s \in Slots |-> Off] /\ fence' = [s \in Slots |-> On]
    /\ dpb' = [d \in DOMAIN dpb |-> 0] /\ idle' = <<>> /\ units' = <<>>
    /\ UNCHANGED <<compute, video, pool, sent, released, wrong, reallocs>>

\* completed(): an import with a pinned identity is kept for reuse.
Kept(list, f) == IF f.known THEN Append(list, [buf |-> f.buf, gen |-> f.gen, pinned |-> f.pinned]) ELSE list

\* make_room: idle imports go, oldest first, until one more fits beside the
\* pending ones.
\* Variant of Room: the imports in flight are not counted.
RoomIdleOnly(list, inFlight) ==
    IF Len(list) < MaxImports THEN list ELSE SubSeq(list, Len(list) - MaxImports + 2, Len(list))
Room(list, inFlight) ==
    LET keep == IF MaxImports - 1 - inFlight > 0 THEN MaxImports - 1 - inFlight ELSE 0 IN
    IF Len(list) <= keep THEN list ELSE SubSeq(list, Len(list) - keep + 1, Len(list))

\* A cached import of the same file is used again.
Cached(list, b) == SelectInSeq(list, LAMBDA i : i.buf = b)

Remembered(pinned) == pinned

\* What import_dma_buf and import_drm_image hold when a step is tried ...
ImportSteps == <<"properties", "buffer", "requirements", "type", "allocate", "bind", "view">>
Held(k) == (IF k <= 5 THEN {"fd"} ELSE {}) \cup (IF k >= 3 THEN {"buffer"} ELSE {}) \cup (IF k >= 6 THEN {"memory"} ELSE {})
Undone(k) ==
    CASE k \in {1, 2} -> {"fd"}
      [] k \in {3, 4, 5} -> {"buffer", "fd"}
      [] k \in {6, 7} -> {"buffer", "memory"}

DpbSlot(s) == s % DpbCount

Keyframe(force) == force \/ enc.index = 0 \/ enc.gop >= GopLength

\* collect_slot: both fences of the slot have signalled.
Waited(s) == fence[s].c /\ fence[s].e

\* What the completed slot leaves behind: its frame, collected.
Finished(s) == pending[s]
Collected(s) == [pending EXCEPT ![s] = NoFrame]
Cleared(s) == [submitted EXCEPT ![s] = Off]

\* A call that fails: the encoder takes no more frames if it is poisoned, the
\* backend in any case.
Failed(poisoned) ==
    /\ enc' = [enc EXCEPT !.poisoned = @ \/ poisoned]
    /\ backend' = [backend EXCEPT !.failed = TRUE]

\* The producer sends a frame in a free buffer of its pool.
Sends(b) ==
    /\ pool[b].user = 0 \/ pool[b].user \in released
    /\ sent < MaxFrames
    /\ sent' = sent + 1
    /\ pool' = [pool EXCEPT ![b].user = sent + 1]
    /\ UNCHANGED <<opens, reallocs>>

\* The frame a call would submit, and where its pixels come from.
Frame(b, force, pinned) ==
    LET hit == Cached(Kept(idle, Finished(enc.next)), b)
        list == Kept(idle, Finished(enc.next)) IN
    [seq |-> sent + 1, buf |-> b, key |-> Keyframe(force),
     gen |-> IF hit > 0 THEN list[hit].gen ELSE pool[b].gen,
     known |-> hit > 0 \/ Remembered(pinned),
     pinned |-> IF hit > 0 THEN list[hit].pinned ELSE pinned]
Imported(b) ==
    LET list == Kept(idle, Finished(enc.next))
        hit == Cached(list, b)
        inFlight == Cardinality({s \in Slots \ {enc.next} : pending[s] # NoFrame}) IN
    IF hit > 0 THEN RemoveAt(list, hit) ELSE Room(list, inFlight)

Busy == state = "open" /\ ~backend.failed

\* The frame is from another GPU, or in a form the encoder has no path for.
EncodeRefused(b) ==
    /\ Busy /\ Fails("source") /\ Sends(b)
    /\ backend' = [backend EXCEPT !.failed = TRUE]
    /\ UNCHANGED <<state, enc, pending, submitted, fence, compute, video, dpb, idle, released, units, wrong>>

\* The slot is still busy after two seconds.
EncodeTimesOut(b) ==
    /\ Busy /\ Fails("hang") /\ Sends(b)
    /\ pending[enc.next] # NoFrame /\ ~Waited(enc.next)
    /\ Failed(TRUE)
    /\ UNCHANGED <<state, pending, submitted, fence, compute, video, dpb, idle, released, units, wrong>>

\* Its feedback or its command buffers fail: the finished frame is lost.
EncodeUnread(b, fault) ==
    /\ Busy /\ fault \in {"query", "reset"} /\ Fails(fault) /\ Sends(b)
    /\ Waited(enc.next) /\ (fault = "query" => pending[enc.next] # NoFrame)
    /\ pending' = Collected(enc.next) /\ submitted' = Cleared(enc.next)
    /\ idle' = IF fault = "query" THEN idle ELSE Kept(idle, Finished(enc.next))
    /\ Failed(TRUE)
    /\ UNCHANGED <<state, fence, compute, video, dpb, released, units, wrong>>

\* The import fails at some step; the encoder itself is untouched.
EncodeNotImported(b, k) ==
    /\ Busy /\ Fails("import") /\ Sends(b) /\ Waited(enc.next)
    /\ Cached(Kept(idle, Finished(enc.next)), b) = 0
    /\ pending' = Collected(enc.next) /\ submitted' = Cleared(enc.next)
    /\ idle' = Imported(b)
    /\ wrong' = IF Held(k) = Undone(k) THEN wrong ELSE wrong \cup {"import"}
    /\ Failed(FALSE)
    /\ UNCHANGED <<state, fence, compute, video, dpb, released, units>>

\* Recording fails: nothing was submitted, the import is dropped.
EncodeNotRecorded(b) ==
    /\ Busy /\ Fails("record") /\ Sends(b) /\ Waited(enc.next)
    /\ pending' = Collected(enc.next) /\ submitted' = Cleared(enc.next)
    /\ idle' = Imported(b)
    /\ Failed(TRUE)
    /\ UNCHANGED <<state, fence, compute, video, dpb, released, units, wrong>>

\* The two jobs of a frame.
ComputeJob(f) == [slot |-> enc.next, seq |-> f.seq]
VideoJob(f) ==
    LET ref == IF f.key THEN NoSlot ELSE enc.ref IN
    [slot |-> enc.next, seq |-> f.seq, own |-> DpbSlot(enc.next),
     ref |-> IF ref = NoSlot THEN NoSlot ELSE DpbSlot(ref), expects |-> f.seq - 1]

Flagged(stage) == [c |-> stage \in {"compute", "encode", "ok"}, e |-> stage \in {"encode", "ok"}]
Submits(f, stage, runs) ==
    /\ pending' = [pending EXCEPT ![enc.next] = f]
    /\ submitted' = [submitted EXCEPT ![enc.next] = Flagged(stage)]
    /\ fence' = IF stage = "fences" THEN fence ELSE [fence EXCEPT ![enc.next] = Off]
    /\ compute' = IF stage = "ok" \/ stage = "encode" \/ (stage = "compute" /\ runs)
                  THEN Append(compute, ComputeJob(f)) ELSE compute
    /\ video' = IF stage = "ok" \/ (stage = "encode" /\ runs) THEN Append(video, VideoJob(f)) ELSE video

\* A submission fails: the frame stays with the slot until the teardown.
EncodeNotSubmitted(b, force, pinned, stage, runs) ==
    /\ Busy /\ stage \in {"fences", "compute", "encode"} /\ Fails(stage) /\ Sends(b) /\ Waited(enc.next)
    /\ runs => stage # "fences"
    /\ Submits(Frame(b, force, pinned), stage, runs)
    /\ idle' = Imported(b)
    /\ Failed(TRUE)
    /\ UNCHANGED <<state, dpb, released, units, wrong>>

\* The frame is in flight; the frame the slot held before is complete: its
\* packet is delivered and its buffer given back, unless the packet is bad.
EncodeFrame(b, force, pinned, good) ==
    /\ Busy /\ Sends(b) /\ Waited(enc.next)
    /\ (~pinned => Fails("pin")) /\ (~good => Fails("packet"))
    /\ LET f == Frame(b, force, pinned)
           done == Finished(enc.next).seq
           inputs == Append(SelectSeq(backend.inputs, LAMBDA i : i # done), f.seq)
           valid == good /\ (done = 0 \/ done \in ToSet(backend.inputs)) /\ Len(inputs) <= MaxInFlight IN
       /\ Submits(f, "ok", TRUE)
       /\ idle' = Imported(b)
       /\ enc' = [enc EXCEPT !.next = (enc.next + 1) % SlotCount, !.index = 1, !.ref = enc.next,
                             !.gop = (IF f.key THEN 0 ELSE enc.gop) + 1]
       /\ backend' = [backend EXCEPT !.inputs = inputs, !.failed = ~valid]
       /\ released' = IF valid /\ done # 0 THEN released \cup {done} ELSE released
       /\ units' = IF valid /\ done # 0 THEN Append(units, done) ELSE units
       /\ wrong' = IF f.gen = pool[b].gen THEN wrong ELSE wrong \cup {"stale import"}
    /\ UNCHANGED <<state, dpb>>

-----------------------------------------------------------------------------
(* Draining and teardown. *)

\* wait_submitted: the fences of everything that was flagged.
AllDone == \A s \in Slots : (submitted[s].c => fence[s].c) /\ (submitted[s].e => fence[s].e)

InFlight == {s \in Slots : pending[s] # NoFrame}
Drained == SetToSortSeq({pending[s].seq : s \in InFlight}, <)

KeptAll == LET slots == SelectSeq([i \in 1 .. SlotCount |-> i - 1], LAMBDA s : s \in InFlight /\ pending[s].known)
           IN idle \o [i \in 1 .. Len(slots) |-> [buf |-> pending[slots[i]].buf, gen |-> pending[slots[i]].gen, pinned |-> pending[slots[i]].pinned]]

\* Every frame in flight is collected in one wait; a bad packet, or an input
\* no packet answers, fails the backend.
Drain(good) ==
    /\ Busy /\ AllDone /\ (~good => Fails("packet"))
    /\ LET valid == good /\ Range(Drained) = ToSet(backend.inputs) IN
       /\ backend' = [backend EXCEPT !.inputs = IF valid THEN <<>> ELSE @, !.failed = ~valid]
       /\ released' = IF valid THEN released \cup Range(Drained) ELSE released
       /\ units' = IF valid THEN units \o Drained ELSE units
    /\ pending' = [s \in Slots |-> NoFrame] /\ submitted' = [s \in Slots |-> Off]
    /\ idle' = KeptAll
    /\ UNCHANGED <<state, enc, fence, compute, video, dpb, pool, sent, wrong, opens, reallocs>>

DrainFails ==
    /\ Busy
    /\ \/ Fails("hang") /\ ~AllDone /\ UNCHANGED <<pending, submitted>>
       \/ Fails("query") /\ AllDone /\ \E s \in InFlight :
             /\ pending' = [t \in Slots |-> IF t <= s THEN NoFrame ELSE pending[t]]
             /\ submitted' = [t \in Slots |-> IF t <= s THEN Off ELSE submitted[t]]
    /\ Failed(TRUE)
    /\ UNCHANGED <<state, fence, compute, video, dpb, idle, pool, sent, released, units, wrong, opens, reallocs>>

\* Shutdown after the flagged work has finished: a backend that has not failed
\* drains first, and every input goes back when that succeeded.
Shutdown(drains) ==
    /\ state = "open" /\ AllDone
    /\ ~drains => (~backend.failed /\ Fails("packet"))
    /\ state' = "gone"
    /\ backend' = [backend EXCEPT !.error = ~drains, !.failed = @ \/ ~drains]
    /\ released' = IF drains THEN 1 .. sent ELSE released
    /\ pending' = [s \in Slots |-> NoFrame] /\ submitted' = [s \in Slots |-> Off] /\ idle' = <<>>
    /\ UNCHANGED <<enc, fence, compute, video, dpb, pool, sent, units, wrong, opens, reallocs>>

\* The bounded wait fails: everything stays as it is until the process exits.
ShutdownTimesOut ==
    /\ state = "open" /\ ~AllDone
    /\ Fails("hang") \/ (backend.failed /\ \E s \in Slots : submitted[s].c /\ ~fence[s].c /\ s \notin {compute[i].slot : i \in DOMAIN compute})
                     \/ (backend.failed /\ \E s \in Slots : submitted[s].e /\ ~fence[s].e /\ s \notin {video[i].slot : i \in DOMAIN video})
    /\ state' = "retained"
    /\ backend' = [backend EXCEPT !.error = TRUE, !.failed = TRUE]
    /\ UNCHANGED <<enc, pending, submitted, fence, compute, video, dpb, idle, pool, sent, released, units, wrong, opens, reallocs>>

\* The game replaces a buffer of its pool; the kernel gives the inode out
\* again only when nobody holds the file.
Reallocate(b) ==
    /\ reallocs < MaxReallocs
    /\ pool[b].user = 0 \/ pool[b].user \in released
    /\ \A i \in DOMAIN idle : ~(idle[i].buf = b /\ idle[i].pinned)
    /\ \A s \in Slots : ~(pending[s].buf = b /\ pending[s].pinned)
    /\ pool' = [pool EXCEPT ![b].gen = @ + 1]
    /\ reallocs' = reallocs + 1
    /\ UNCHANGED <<state, enc, pending, submitted, fence, compute, video, dpb, idle, backend, sent, released, units, wrong, opens>>

Next ==
    \/ Convert \/ EncodeDone \/ Open
    \/ \E b \in Inodes : EncodeRefused(b) \/ EncodeTimesOut(b) \/ EncodeNotRecorded(b)
    \/ \E b \in Inodes, fault \in {"query", "reset"} : EncodeUnread(b, fault)
    \/ \E b \in Inodes, k \in DOMAIN ImportSteps : EncodeNotImported(b, k)
    \/ \E b \in Inodes, force, runs \in BOOLEAN, stage \in {"fences", "compute", "encode"} :
          EncodeNotSubmitted(b, force, TRUE, stage, runs)
    \/ \E b \in Inodes, force, pinned, good \in BOOLEAN : EncodeFrame(b, force, pinned, good)
    \/ \E good \in BOOLEAN : Drain(good)
    \/ DrainFails
    \/ \E drains \in BOOLEAN : Shutdown(drains)
    \/ ShutdownTimesOut
    \/ \E b \in Inodes : Reallocate(b)

Spec == Init /\ [][Next]_vars

-----------------------------------------------------------------------------
(* Properties. *)

TypeOK ==
    /\ state \in {"none", "open", "gone", "retained"}
    /\ enc.next \in Slots /\ enc.ref \in Slots \cup {NoSlot} /\ enc.gop \in 0 .. GopLength
    /\ released \subseteq 1 .. sent
    /\ Len(backend.inputs) <= MaxInFlight

\* The game's buffer is given back only when no conversion may still read it.
ReleasedNotRead == \A i \in DOMAIN compute : compute[i].seq \notin released

\* While GPU work is outstanding the objects it uses exist: the encoder that
\* submitted it is open or kept until exit, no other was opened beside it, and
\* the slot still holds the frame.
LiveWhileUsed ==
    \A job \in ToSet(compute) \cup ToSet(video) :
        state \in {"open", "retained"} /\ pending[job.slot].seq = job.seq

\* A picture predicted from another finds exactly the picture submitted
\* before it, and never overwrites what it reads.
ReferencesIntact == "reference" \notin wrong

\* Access units come out in the order of their frames, each once.
InOrder == \A i, j \in DOMAIN units : i < j => units[i] < units[j]

\* Imports held, idle and in flight, stay within the bound.
ImportsBounded == state = "open" => Len(idle) + Cardinality(InFlight) <= MaxImports

\* A cached import is the buffer the frame names, not an earlier one that had
\* its inode.
FreshImport == "stale import" \notin wrong

\* Whatever step of an import fails, the descriptor, the buffer and the
\* memory are returned exactly once.
ImportsBalanced == "import" \notin wrong
=============================================================================
