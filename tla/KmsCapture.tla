----------------------------- MODULE KmsCapture -----------------------------
(***************************************************************************)
(* Frames taken from the screen: the search for an output and the export   *)
(* of its framebuffer (redunar-capture-kms discovery.rs, plan.rs, drm.rs), *)
(* the paced source over it and the bounded diagnostic that encodes what   *)
(* it delivers (redunar-daemon kms_replay_source.rs). The display changes  *)
(* at any moment; nothing of it is locked.                                 *)
(***************************************************************************)
EXTENDS Naturals, Sequences, FiniteSets, SequencesExt

CONSTANTS
    Outputs, Crtcs, Planes,
    Sizes, Supported,  \* sizes, and those the frame rate supports
    Duration,          \* frame_duration
    Minimum, Maximum,  \* DIAGNOSTIC_MINIMUM_FRAMES, DIAGNOSTIC_MAXIMUM_FRAMES
    Patience,          \* until overall_deadline
    MaxTime, MaxChanges \* bounds

None == "none"
NoFramebuffer == [size |-> None, packed |-> FALSE]
Framebuffers == {NoFramebuffer} \cup [size : Sizes, packed : BOOLEAN]

VARIABLES
    clock, changes,
    output,     \* each output: whether connected, its first mode, its CRTC
    crtc,       \* each CRTC: the size of its mode
    plane,      \* each primary plane: its CRTC and its framebuffer
    source,     \* KmsSourceState and ActiveKmsSource
    diagnostic, \* the run of the diagnostic
    encoder,    \* the hardware encoder: whether it is there and what it holds
    frames,     \* frames delivered: when, from where
    handles     \* GEM handles open at the device

vars == <<clock, changes, output, crtc, plane, source, diagnostic, encoder, frames, handles>>

Uninitialized == [state |-> "uninitialized", output |-> None, crtc |-> None, plane |-> None, size |-> None,
                  started |-> 0, next |-> 0, sequence |-> 0]
Unstarted == [at |-> "idle", requested |-> 0, begun |-> 0, plan |-> None, submitted |-> 0, completed |-> <<>>,
              keyframe |-> FALSE, result |-> None]

(* Each output is lit by a CRTC of its own, or it is not there. *)
Init ==
    /\ clock = 0 /\ changes = 0 /\ frames = <<>> /\ handles = 0
    /\ \E lit \in SUBSET Outputs, own \in [Outputs -> Crtcs], size \in [Outputs -> Sizes] :
        /\ IsInjective(own)
        /\ output = [o \in Outputs |-> [connected |-> o \in lit, modes |-> IF o \in lit THEN <<size[o]>> ELSE <<>>,
                                        crtc |-> IF o \in lit THEN own[o] ELSE None]]
        /\ crtc = [c \in Crtcs |-> IF \E o \in lit : own[o] = c THEN size[CHOOSE o \in lit : own[o] = c] ELSE None]
        /\ \E shows \in [Planes -> Crtcs] :
            /\ IsInjective(shows)
            /\ plane = [p \in Planes |-> [crtc |-> shows[p], fb |-> IF crtc[shows[p]] = None THEN NoFramebuffer
                                                                     ELSE [size |-> crtc[shows[p]], packed |-> TRUE]]]
    /\ source = Uninitialized /\ diagnostic = Unstarted
    /\ encoder = [state |-> None, holds |-> {}]

----------------------------------------------------------------------------
Running == diagnostic.at \notin {"idle", "cleanup", "ended"}

(* The kernel's side, external: a mode is set, a cable is pulled, a frame  *)
(* is flipped to, an overlay takes over.                                   *)
Change ==
    /\ Running /\ changes < MaxChanges /\ changes' = changes + 1
    /\ \/ \E o \in Outputs : \/ output' = [output EXCEPT ![o] = [connected |-> FALSE, modes |-> <<>>, crtc |-> None]]
                             \/ \E c \in Crtcs, s \in Sizes :
                                    output' = [output EXCEPT ![o] = [connected |-> TRUE, modes |-> <<s>>, crtc |-> c]]
          /\ UNCHANGED <<crtc, plane>>
       \/ \E c \in Crtcs, s \in Sizes \cup {None} : crtc' = [crtc EXCEPT ![c] = s] /\ UNCHANGED <<output, plane>>
       \/ \E p \in Planes, c \in Crtcs, f \in Framebuffers :
            plane' = [plane EXCEPT ![p] = [crtc |-> c, fb |-> f]] /\ UNCHANGED <<output, crtc>>
    /\ UNCHANGED <<clock, source, diagnostic, encoder, frames, handles>>

Tick ==
    /\ Running /\ clock < MaxTime /\ clock' = clock + 1
    /\ UNCHANGED <<changes, output, crtc, plane, source, diagnostic, encoder, frames, handles>>

----------------------------------------------------------------------------
(* discover_outputs_at: outputs connected and not disabled;                *)
(* KmsCapturePlan::new: those whose first mode the frame rate supports.    *)
Discovered == {o \in Outputs : output[o].connected}
Plans == {o \in Discovered : output[o].modes # <<>> /\ Head(output[o].modes) \in Supported}

(* select_output, find_primary_plane: the output has to be driven by a     *)
(* CRTC with a mode, and a primary plane of it has to show a framebuffer.  *)
Selection(o) ==
    {[crtc |-> output[o].crtc, plane |-> p, size |-> crtc[output[o].crtc]] :
        p \in {q \in Planes : /\ output[o].connected /\ output[o].crtc # None
                              /\ crtc[output[o].crtc] # None
                              /\ plane[q].crtc = output[o].crtc /\ plane[q].fb # NoFramebuffer}}

(* acquire_frame: the plane still shows a packed framebuffer of the same   *)
(* size on the same CRTC.                                                  *)
Exportable(p) ==
    /\ plane[p].crtc = source.crtc /\ plane[p].fb # NoFramebuffer
    /\ plane[p].fb.packed /\ plane[p].fb.size = source.size

\* Variant of Advanced: missed points are made up for.
AdvancedBy(next) == next + Duration
(* advance_deadline_values: missed points are skipped. *)
Advanced(next) == IF next + Duration < clock THEN clock + Duration ELSE next + Duration

----------------------------------------------------------------------------
Goes(step) == diagnostic' = [diagnostic EXCEPT !.at = step]
Fails(why) == diagnostic' = [diagnostic EXCEPT !.at = "cleanup", !.result = why]

InBounds(requested) == requested \in Minimum..Maximum

(* run_live_diagnostic refuses work out of bounds before it opens anything. *)
Begin ==
    /\ diagnostic.at = "idle"
    /\ \E requested \in Minimum - 1..Maximum + 1 :
        diagnostic' = IF InBounds(requested)
                      THEN [diagnostic EXCEPT !.at = "loop", !.requested = requested, !.begun = clock]
                      ELSE [diagnostic EXCEPT !.at = "ended", !.requested = requested, !.result = "bounds"]
    /\ UNCHANGED <<clock, changes, output, crtc, plane, source, encoder, frames, handles>>

(* The head of the loop, and the first part of wait_next. *)
Loop ==
    /\ diagnostic.at = "loop"
    /\ IF diagnostic.submitted = diagnostic.requested THEN Goes("drain")
       ELSE IF clock >= diagnostic.begun + Patience THEN Fails("timeout")
       ELSE Goes(IF source.state = "uninitialized" THEN "discover" ELSE "wait")
    /\ UNCHANGED <<clock, changes, output, crtc, plane, source, encoder, frames, handles>>

(* start_capture: exactly one plan; metadata that cannot be read is an     *)
(* error.                                                                  *)
Discover ==
    /\ diagnostic.at = "discover"
    /\ \/ /\ Cardinality(Plans) = 1
          /\ \E o \in Plans : diagnostic' = [diagnostic EXCEPT !.at = "open", !.plan = o]
       \/ Cardinality(Plans) # 1 /\ Fails("outputs")
       \/ Fails("metadata")
    /\ UNCHANGED <<clock, changes, output, crtc, plane, source, encoder, frames, handles>>

(* KmsDrmCapture::open, ensure_active: the output is looked up again; the  *)
(* size that is really shown has to be supported.                          *)
Open ==
    /\ diagnostic.at = "open"
    /\ \/ \E s \in Selection(diagnostic.plan) :
            /\ s.size \in Supported /\ Goes("wait")
            /\ source' = [state |-> "active", output |-> diagnostic.plan, crtc |-> s.crtc, plane |-> s.plane,
                          size |-> s.size, started |-> clock, next |-> clock, sequence |-> 0]
       \/ Fails("unavailable") /\ UNCHANGED source
    /\ UNCHANGED <<clock, changes, output, crtc, plane, encoder, frames, handles>>

(* wait_next: not before its time; then the framebuffer is exported. The   *)
(* wait is longer than a frame, so it does not end early. (The kernel      *)
(* makes a new handle for each framebuffer asked for.)                     *)
Acquire ==
    /\ diagnostic.at = "wait" /\ clock >= source.next
    /\ handles' = IF plane[source.plane].crtc = source.crtc /\ plane[source.plane].fb # NoFramebuffer THEN handles + 1 ELSE handles
    /\ \/ /\ Exportable(source.plane) /\ plane[source.plane].fb.size \in Supported
          /\ source' = [source EXCEPT !.sequence = @ + 1, !.next = Advanced(@)]
          /\ frames' = Append(frames, [at |-> clock, size |-> plane[source.plane].fb.size,
                                       shown |-> output[source.output].crtc = source.crtc])
          /\ Goes("encode")
       \/ /\ Fails("export") /\ UNCHANGED <<source, frames>>
    /\ UNCHANGED <<clock, changes, output, crtc, plane, encoder>>

(* accumulate_output of what the encoder (external) says it completed, and *)
(* whether a packet of a key frame, the first frame's, came of it.         *)
Accumulated(d, completed, keyframe) ==
    [d EXCEPT !.completed = @ \o completed, !.keyframe = @ \/ keyframe]

(* vulkan_replay_backend at the first frame, then encode. It may fail, keep *)
(* its input, or complete what it has.                                     *)
Encode ==
    /\ diagnostic.at = "encode"
    /\ LET held == encoder.holds \cup {source.sequence}
       IN  \/ \E done \in {{}, held}, keyframe \in {FALSE, ~diagnostic.keyframe} :
                /\ encoder' = [state |-> "on", holds |-> held \ done]
                /\ diagnostic' = [Accumulated(diagnostic, SetToSeq(done), keyframe)
                                    EXCEPT !.at = "loop", !.submitted = @ + 1]
           \/ Fails("encoder") /\ encoder' \in {[encoder EXCEPT !.holds = held], encoder}
    /\ UNCHANGED <<clock, changes, output, crtc, plane, source, frames, handles>>

(* Every input exactly once, in any order. *)
AllCompleted(d) == Len(d.completed) = d.requested /\ ToSet(d.completed) = 1..d.requested

(* The last outputs, then the verdict. The encoder's account is checked,   *)
(* not trusted: it may name an input twice, or forget one.                 *)
Drain ==
    /\ diagnostic.at = "drain"
    /\ \/ \E again \in {{}, {1}}, keyframe \in BOOLEAN :
            LET d == Accumulated(diagnostic, SetToSeq(encoder.holds) \o SetToSeq(again), keyframe)
            IN  /\ encoder' = [encoder EXCEPT !.holds = {}]
                /\ diagnostic' = [d EXCEPT !.at = "cleanup",
                                    !.result = IF ~AllCompleted(d) THEN "completions"
                                               ELSE IF ~d.keyframe THEN "undecodable" ELSE "verified"]
       \/ Fails("encoder") /\ UNCHANGED encoder
    /\ UNCHANGED <<clock, changes, output, crtc, plane, source, frames, handles>>

(* On every path: the encoder is shut down, the source is stopped, and the *)
(* device is closed with it.                                               *)
Released ==
    /\ encoder' = [state |-> None, holds |-> {}]
    /\ source' = [source EXCEPT !.state = "stopped"] /\ handles' = 0

Cleanup ==
    /\ diagnostic.at = "cleanup" /\ Goes("ended") /\ Released
    /\ UNCHANGED <<clock, changes, output, crtc, plane, frames>>

Next ==
    \/ Tick \/ Change \/ Begin \/ Loop \/ Discover \/ Open \/ Acquire \/ Encode \/ Drain \/ Cleanup

Spec == Init /\ [][Next]_vars

----------------------------------------------------------------------------
(* A frame that was delivered is in the encoder, completed, or just being  *)
(* handed over; nothing is opened for a run that is out of bounds.         *)
TypeOK ==
    /\ source.state \in {"uninitialized", "active", "stopped"}
    /\ source.sequence = Len(frames)
    /\ diagnostic.submitted \in {Len(frames), Len(frames) - 1}
    /\ encoder.holds \subseteq 1..Len(frames)
    /\ source.state = "active" => diagnostic.requested \in Minimum..Maximum

(* However late the frames come ("Skip missed sample points instead of     *)
(* bursting"), three of them never fall within the time of one.            *)
NoBurst == \A i \in 1..Len(frames) - 2 : frames[i + 2].at >= frames[i].at + Duration

(* Whatever the display does, the encoder that was set up for the first    *)
(* frame gets frames of that size only, and one the rate supports.         *)
OneSize == \A i \in 1..Len(frames) : frames[i].size = frames[1].size /\ frames[i].size \in Supported

(* A run that says it verified the path had every frame completed exactly  *)
(* once, and ended or not it holds nothing afterwards.                     *)
VerdictTrue ==
    /\ diagnostic.result = "verified" =>
        \A i \in 1..diagnostic.requested : Cardinality({k \in DOMAIN diagnostic.completed : diagnostic.completed[k] = i}) = 1
    /\ diagnostic.at = "ended" => encoder.holds = {} /\ source.state # "active"
=============================================================================
