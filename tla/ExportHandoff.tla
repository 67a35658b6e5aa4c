--------------------------- MODULE ExportHandoff ---------------------------
(***************************************************************************)
(* The lease of an exported frame.  A capture layer in the game (producer) *)
(* exports a frame from a small pool of buffers and must not touch the     *)
(* buffer until the daemon acknowledges it.  In the daemon the frame has a *)
(* session-unique token with a reply route (capture_session.rs,            *)
(* capture_session/replay_release.rs).  It waits in a bounded queue, is    *)
(* taken by the export pump (game_session.rs), read by the encoder         *)
(* (replay_pipeline.rs) and handed back over the runtime's completion      *)
(* queue (replay_runtime.rs).  Acknowledgements that cannot be sent are    *)
(* kept and tried again.                                                   *)
(*                                                                         *)
(* Threads: the receiver (one action per message), the pump (one action    *)
(* per critical section), and a user's save, which drains the encoder      *)
(* under the runtime's mutex.  A datagram is received when it is sent: the *)
(* socket is first in, first out, and an acknowledgement cannot overtake   *)
(* the export it answers.  Frames waiting to be taken or to be finished    *)
(* are in order; those on their way back are sets, since any of their      *)
(* acknowledgements may be the one that cannot be sent.                    *)
(***************************************************************************)
EXTENDS Naturals, Sequences, FiniteSets, SequencesExt

CONSTANTS
    Producers,          \* reply socket paths of the processes of the game
    NoProducer,
    MaxWire,            \* bound: wire sequences per device of a producer
    MaxDevices,         \* bound: devices a session sees (Goodbye, then Hello)
    Slots,              \* buffers in a producer's pool
    QueueCapacity,      \* REPLAY_EXPORT_QUEUE_CAPACITY
    RouteCapacity,      \* REPLAY_RELEASE_TARGET_CAPACITY
    Confirmations,      \* REPLAY_PRODUCER_CONFIRMATION_EXPORTS
    CandidateCapacity,  \* REPLAY_PRODUCER_CANDIDATE_CAPACITY
    MaxInFlight,        \* MAX_HARDWARE_INPUTS_IN_FLIGHT
    MaxCompleted,       \* MAX_COMPLETED_EXPORTS and MAX_COMPLETED_INPUTS
    MaxFaults,          \* bound: source rejections and recorder failures
    SaveFails           \* whether a save may fail in the encoder

ASSUME HandoffAssumption ==
    /\ IsFiniteSet(Producers) /\ NoProducer \notin Producers
    /\ {MaxWire, MaxDevices, Slots, QueueCapacity, RouteCapacity,
        Confirmations, CandidateCapacity, MaxInFlight, MaxCompleted} \subseteq Nat \ {0}
    /\ MaxFaults \in Nat
    /\ SaveFails \in BOOLEAN

VARIABLES
    wire,       \* producer: last wire sequence, never reset in a process
    owed,       \* producer: sequences whose acknowledgement it waits for
    lost,       \* producer: sequences whose descriptor did not arrive
    life,       \* producer: "none" (no device), "up" (socket bound), "dead"
    device,     \* producer: how many devices it created; each has its socket
    capture,    \* the receiver's CaptureSessionModel: phase and owning process
    selector,   \* ReplayProducerSelector
    routes,     \* ReplayReleaseTransport: token -> origin, for leased tokens
    nextToken,
    queue,      \* ReplayExportQueue
    pump,       \* place of the pump, the frame it holds, failed releases
    recorder,   \* the runtime's pipeline, its inputs, completed exports
    faults      \* counter for the bound

vars == <<wire, owed, lost, life, device, capture, selector, routes,
          nextToken, queue, pump, recorder, faults>>
producerVars == <<wire, lost, life, device>>

NoToken == 0
Tokens == 1 .. (nextToken - 1)

(* Every device of a process has a reply socket of its own. *)
Sockets == Producers \X (1 .. MaxDevices)
NoSocket == <<NoProducer, 0>>
SocketOf(p) == <<p, device[p]>>

NoSelection == [selected |-> NoSocket, last |-> 0,
                exports |-> [k \in Sockets |-> 0],
                seen |-> [k \in Sockets |-> 0]]

Init ==
    /\ wire = [p \in Producers |-> 0]
    /\ owed = [p \in Producers |-> {}]
    /\ lost = [p \in Producers |-> {}]
    /\ life = [p \in Producers |-> "none"]
    /\ device = [p \in Producers |-> 0]
    /\ capture = [phase |-> "armed", owner |-> NoProducer]
    /\ selector = NoSelection
    /\ routes = <<>>
    /\ nextToken = 1
    /\ queue = [frames |-> <<>>, releaseOnly |-> 0, rejected |-> {},
                rejection |-> FALSE]
    /\ pump = [pc |-> "top", hand |-> NoToken, pending |-> {},
               armed |-> FALSE, cooling |-> FALSE]
    /\ recorder = [pipeline |-> "none", inputs |-> <<>>, completed |-> {}]
    /\ faults = 0

-----------------------------------------------------------------------------
(* Release routes.                                                         *)

Drop(f, ts) == [t \in DOMAIN f \ ts |-> f[t]]

(* The reply socket of a route is gone: its device was destroyed, or the    *)
(* process died (ConnectionRefused, NotFound).                               *)
Gone(origin) == life[origin.path] # "up" \/ device[origin.path] # origin.device

(* ReplayReleaseTransport::release on each token of ts: the ones in sent    *)
(* reach their producer or find it gone, and lose their route; the others   *)
(* fail, because the producer's socket is full, and keep it.                *)
CanSend(sent, ts, known) ==
    /\ sent \subseteq ts \cap DOMAIN known
    /\ \A t \in ts \cap DOMAIN known : Gone(known[t]) => t \in sent

(* The buffers of p that the acknowledgements in sent free *)
Freed(p, sent, known) ==
    {known[t].wire : t \in {u \in sent : known[u].path = p /\ ~Gone(known[u])}}

(* Variant of Acknowledge: the route is dropped before the message is sent. *)
AcknowledgeUnsent(sent, known, waiting) ==
    routes' = Drop(known, sent) /\ owed' = waiting

Acknowledge(sent, known, waiting) ==
    /\ routes' = Drop(known, sent)
    /\ owed' = [p \in Producers |-> waiting[p] \ Freed(p, sent, known)]

Origin(p, w) == [path |-> p, device |-> device[p], wire |-> w]

(* register: a zero or reused sequence, or a full table, is an error *)
Registers(p, w) ==
    /\ w > 0
    /\ \A t \in DOMAIN routes : routes[t] # Origin(p, w)
    /\ Cardinality(DOMAIN routes) < RouteCapacity

\* The counter that numbers frames.  A variant that advances it twice.
SecondNext(token) == token + 2
NextOf(token) == token + 1

WithRoute(p, w) ==
    [t \in DOMAIN routes \union {nextToken} |->
        IF t = nextToken THEN Origin(p, w) ELSE routes[t]]

-----------------------------------------------------------------------------
(* ReplayProducerSelector::accepts.  idle says that the selected process    *)
(* has not presented for REPLAY_PRODUCER_STALE_NS.                          *)

Select(k, w, idle) ==
    LET s    == IF selector.selected \notin {k, NoSocket} /\ idle
                THEN NoSelection ELSE selector
        more == s.exports[k] + 1
        full == /\ s.exports[k] = 0
                /\ Cardinality({q \in Sockets : s.exports[q] > 0}) = CandidateCapacity
    IN CASE s.selected = k ->
              [ok |-> w > s.last, state |-> IF w > s.last THEN [s EXCEPT !.last = w] ELSE s]
         [] s.selected \notin {k, NoSocket} -> [ok |-> FALSE, state |-> s]
         [] s.selected = NoSocket /\ (full \/ w <= s.seen[k]) -> [ok |-> FALSE, state |-> s]
         [] s.selected = NoSocket /\ ~full /\ w > s.seen[k] /\ more < Confirmations ->
              [ok |-> FALSE, state |-> [s EXCEPT !.exports[k] = more, !.seen[k] = w]]
         [] OTHER -> [ok |-> TRUE,
                      state |-> [NoSelection EXCEPT !.selected = k, !.last = w]]

OwnsAssessment(p) == selector.selected \in {SocketOf(p), NoSocket}

-----------------------------------------------------------------------------
(* The receiver.                                                            *)

(* receiver_loop takes no message while every route is leased *)
TakesMessages == Cardinality(DOMAIN routes) < RouteCapacity /\ pump.pc # "stopped"

(* A device is created: a fresh reply socket is bound and Hello sent.  If   *)
(* the session model accepts it, the receiver forgets the selection and     *)
(* returns the queued frames; a failed return goes to the retry queue.      *)
AcceptsHello(p) ==
    capture.phase \in {"armed", "completed"} /\ capture.owner \in {p, NoProducer}

Hello(p) ==
    /\ TakesMessages /\ life[p] = "none" /\ device[p] < MaxDevices
    /\ life' = [life EXCEPT ![p] = "up"]
    /\ device' = [device EXCEPT ![p] = @ + 1]
    /\ \/ /\ AcceptsHello(p)
          /\ capture' = [phase |-> "capturing", owner |-> p]
          /\ selector' = NoSelection
          /\ LET stale == ToSet(queue.frames)
             IN \E sent \in SUBSET stale :
                  /\ CanSend(sent, stale, routes)
                  /\ Acknowledge(sent, routes, owed)
                  /\ queue' = [queue EXCEPT !.frames = <<>>,
                                            !.rejected = @ \union (stale \ sent)]
       \/ /\ ~AcceptsHello(p)
          /\ UNCHANGED <<capture, selector, routes, owed, queue>>
    /\ UNCHANGED <<wire, lost, nextToken, pump, recorder, faults>>

(* The device is destroyed, its buffers and its socket with it; Goodbye     *)
(* ends the capture of the owning process.  With dies, the process ends     *)
(* without a word.                                                          *)
Goodbye(p, dies) ==
    /\ TakesMessages /\ life[p] = "up"
    /\ life' = [life EXCEPT ![p] = IF dies THEN "dead" ELSE "none"]
    /\ owed' = [owed EXCEPT ![p] = {}] /\ lost' = [lost EXCEPT ![p] = {}]
    /\ capture' = IF ~dies /\ capture = [phase |-> "capturing", owner |-> p]
                  THEN [capture EXCEPT !.phase = "completed"] ELSE capture
    /\ UNCHANGED <<wire, device, selector, routes, nextToken, queue, pump,
                   recorder, faults>>

(* ReplayFrameExported.  The frame is registered, shown to the selector and *)
(* to the session model, and queued; a full queue gives up its oldest       *)
(* frame.  Whatever is not queued is returned at once.                      *)
Export(p, idle, valid) ==
    LET w      == wire[p] + 1
        token  == nextToken
        choice == Select(SocketOf(p), w, idle)
        full   == Len(queue.frames) = QueueCapacity
        queued == choice.ok /\ valid /\ capture.phase = "capturing"
        back   == IF queued THEN IF full THEN {Head(queue.frames)} ELSE {} ELSE {token}
        frames == IF queued
                  THEN Append(IF full THEN Tail(queue.frames) ELSE queue.frames, token)
                  ELSE queue.frames
    IN /\ TakesMessages /\ life[p] = "up"
       /\ w <= MaxWire /\ Cardinality(owed[p]) < Slots
       /\ Registers(p, w)
       /\ wire' = [wire EXCEPT ![p] = w]
       /\ nextToken' = NextOf(token)
       /\ selector' = choice.state
       /\ \E sent \in SUBSET back :
            /\ CanSend(sent, back, WithRoute(p, w))
            /\ Acknowledge(sent, WithRoute(p, w), [owed EXCEPT ![p] = @ \union {w}])
            /\ queue' = [queue EXCEPT
                           !.frames = frames,
                           !.releaseOnly = IF queued /\ full /\ @ > 0 THEN @ - 1 ELSE @,
                           !.rejected = @ \union (back \ sent)]
       /\ UNCHANGED <<lost, life, device, capture, pump, recorder, faults>>

(* The message arrives without its descriptor: it is counted as rejected    *)
(* and nothing is sent back.  (register could refuse too; RegisterAccepts   *)
(* shows that it does not.)                                                 *)
ExportRefused(p) ==
    LET w == wire[p] + 1
    IN /\ TakesMessages /\ life[p] = "up"
       /\ w <= MaxWire /\ Cardinality(owed[p]) < Slots
       /\ faults < MaxFaults /\ faults' = faults + 1
       /\ lost' = [lost EXCEPT ![p] = @ \union {w}]
       /\ wire' = [wire EXCEPT ![p] = w]
       /\ owed' = [owed EXCEPT ![p] = @ \union {w}]
       /\ UNCHANGED <<life, device, capture, selector, routes, nextToken, queue,
                      pump, recorder>>

(* ReplaySourceRejected: queued leases move to the retry queue *)
SourceRejected(p) ==
    /\ TakesMessages /\ life[p] = "up" /\ faults < MaxFaults
    /\ OwnsAssessment(p) /\ capture.phase = "capturing"
    /\ faults' = faults + 1
    /\ LET kept  == Cardinality(queue.rejected)
           room  == IF kept < RouteCapacity THEN RouteCapacity - kept ELSE 0
           moved == IF Len(queue.frames) < room THEN Len(queue.frames) ELSE room
       IN queue' = [frames |-> SubSeq(queue.frames, moved + 1, Len(queue.frames)),
                    releaseOnly |-> Len(queue.frames) - moved,
                    rejected |-> queue.rejected \union ToSet(SubSeq(queue.frames, 1, moved)),
                    rejection |-> TRUE]
    /\ UNCHANGED <<producerVars, owed, capture, selector, routes, nextToken,
                   pump, recorder>>

-----------------------------------------------------------------------------
(* The runtime and its pipeline.                                            *)

(* enqueue_completed: more than the bound is refused as a whole *)
Completed(r, done) ==
    IF Cardinality(r.completed) + Len(done) > MaxCompleted THEN r.completed
    ELSE r.completed \union ToSet(done)

(* Variant of TornDown: inputs that are not proved idle are returned too.   *)
TornDownUnproved(r, proved) ==
    IF r.pipeline # "recording" THEN r
    ELSE [pipeline |-> IF proved THEN "none" ELSE "stuck",
          inputs |-> IF proved THEN <<>> ELSE r.inputs, completed |-> Completed(r, r.inputs)]

(* shutdown_backend, and the runtime taking what it completed.  A backend   *)
(* that cannot prove its inputs idle keeps them for good.                   *)
TornDown(r, proved) ==
    IF r.pipeline # "recording" THEN r
    ELSE IF proved
         THEN [pipeline |-> "none", inputs |-> <<>>,
               completed |-> Completed(r, SubSeq(r.inputs, 1,
                   IF Len(r.inputs) < MaxCompleted THEN Len(r.inputs) ELSE MaxCompleted))]
         ELSE [r EXCEPT !.pipeline = "stuck"]

(* One submit_frame on token t: the encoder finishes the oldest n inputs.   *)
(* Too many unfinished inputs, or completions without room, are failures.   *)
Encoded(r, t, n) ==
    LET inputs == Append(r.inputs, t)
    IN [r EXCEPT !.inputs = SubSeq(inputs, n + 1, Len(inputs)),
                 !.completed = Completed(r, SubSeq(inputs, 1, n))]
EncodeFits(r, n) ==
    /\ Len(r.inputs) + 1 - n <= MaxInFlight
    /\ Cardinality(r.completed) + n <= MaxCompleted

(* A save drains the encoder; in memory of a broken encoder it fails. *)
Save ==
    /\ recorder.pipeline = "recording"
    /\ \/ recorder' = [recorder EXCEPT !.inputs = <<>>,
                         !.completed = Completed(recorder, recorder.inputs)]
          /\ UNCHANGED faults
       \/ /\ SaveFails /\ faults < MaxFaults
          /\ faults' = faults + 1
          /\ \E proved \in BOOLEAN : recorder' = TornDown(recorder, proved)
    /\ UNCHANGED <<producerVars, owed, capture, selector, routes, nextToken,
                   queue, pump>>

-----------------------------------------------------------------------------
(* The pump: run_replay_export_pump.                                        *)

RestOfPump == <<producerVars, capture, selector, nextToken>>

(* release_sequences on the pending releases and the given ones *)
ReleaseAll(more, next) ==
    LET all == pump.pending \union more
    IN \E sent \in SUBSET all :
         /\ CanSend(sent, all, routes)
         /\ Acknowledge(sent, routes, owed)
         /\ pump' = [next EXCEPT !.pending = all \ sent]

(* enter_replay_recovery *)
Recovering(next) == [next EXCEPT !.armed = FALSE, !.cooling = TRUE]
Recover(next) ==
    /\ faults' = faults + 1
    /\ pump' = Recovering(next)
    /\ \E proved \in BOOLEAN : recorder' = TornDown(recorder, proved)

To(pc) == [pump EXCEPT !.pc = pc]
Done == [pump EXCEPT !.pc = "top", !.hand = NoToken]

(* take_rejected_exports and their release *)
PumpRejected ==
    /\ pump.pc = "top"
    /\ LET n == IF queue.releaseOnly < Len(queue.frames)
                THEN queue.releaseOnly ELSE Len(queue.frames)
       IN /\ ReleaseAll(queue.rejected \union ToSet(SubSeq(queue.frames, 1, n)), To("fault"))
          /\ queue' = [queue EXCEPT !.rejected = {}, !.releaseOnly = 0,
                         !.frames = SubSeq(@, n + 1, Len(@))]
    /\ UNCHANGED <<RestOfPump, recorder, faults>>

(* take_source_rejection at the top of a turn *)
PumpFault ==
    /\ pump.pc = "fault"
    /\ queue' = [queue EXCEPT !.rejection = FALSE]
    /\ \/ /\ queue.rejection
          /\ \E proved \in BOOLEAN : recorder' = TornDown(recorder, proved)
          /\ pump' = Recovering(To("completions"))
       \/ ~queue.rejection /\ pump' = To("completions") /\ UNCHANGED recorder
    /\ UNCHANGED <<RestOfPump, routes, owed, faults>>

(* release_runtime_completions *)
PumpCompletions ==
    /\ pump.pc = "completions"
    /\ recorder' = [recorder EXCEPT !.completed = {}]
    /\ ReleaseAll(recorder.completed, To("wait"))
    /\ UNCHANGED <<RestOfPump, queue, faults>>

(* teardown_incomplete ends the pump; otherwise wait_next takes a frame     *)
(* unless a rejection is to be seen first, and imports it.  A frame that    *)
(* cannot be imported is returned.                                          *)
PumpWait ==
    /\ pump.pc = "wait" /\ recorder.pipeline # "stuck"
    /\ \/ /\ queue.frames = <<>> \/ queue.rejection \/ queue.releaseOnly # 0
          /\ pump' = To("top") /\ UNCHANGED <<routes, owed, queue>>
       \/ /\ queue.frames # <<>> /\ ~queue.rejection /\ queue.releaseOnly = 0
          /\ pump' = [To("taken") EXCEPT !.hand = Head(queue.frames)]
          /\ queue' = [queue EXCEPT !.frames = Tail(@)]
          /\ UNCHANGED <<routes, owed>>
    /\ UNCHANGED <<RestOfPump, recorder, faults>>

PumpImportFails ==
    /\ pump.pc = "taken" /\ faults < MaxFaults
    /\ \E sent \in SUBSET {pump.hand} :
         /\ CanSend(sent, {pump.hand}, routes)
         /\ Acknowledge(sent, routes, owed)
         /\ queue' = [queue EXCEPT !.rejected = @ \union ({pump.hand} \ sent)]
    /\ \/ Recover(Done)
       \/ pump' = Done /\ faults' = faults + 1 /\ UNCHANGED recorder
    /\ UNCHANGED RestOfPump

(* take_source_rejection after the frame was taken: it belongs to an epoch  *)
(* that is over.  Then the backoff: the frame is returned while it runs.    *)
PumpTaken ==
    /\ pump.pc = "taken"
    /\ queue' = [queue EXCEPT !.rejection = FALSE]
    /\ \/ /\ queue.rejection
          /\ ReleaseAll({pump.hand}, Recovering(Done))
          /\ \E proved \in BOOLEAN : recorder' = TornDown(recorder, proved)
       \/ /\ ~queue.rejection /\ pump.cooling
          /\ ReleaseAll({pump.hand}, Done) /\ UNCHANGED recorder
       \/ /\ ~queue.rejection /\ pump.cooling
          /\ ReleaseAll(recorder.completed, [To("record") EXCEPT !.cooling = FALSE])
          /\ recorder' = [recorder EXCEPT !.completed = {}]
       \/ /\ ~queue.rejection /\ ~pump.cooling
          /\ pump' = To("record") /\ UNCHANGED <<routes, owed, recorder>>
    /\ UNCHANGED <<RestOfPump, faults>>

(* Without dimensions a pipeline is created and started; a frame of another *)
(* size resets the backend and returns what it had read.  A start is        *)
(* refused while a pipeline exists.                                         *)
PumpRecord ==
    /\ pump.pc = "record"
    /\ \/ /\ ~pump.armed /\ recorder.pipeline = "none"
          /\ recorder' = [recorder EXCEPT !.pipeline = "recording"]
          /\ pump' = [To("submit") EXCEPT !.armed = TRUE]
          /\ UNCHANGED <<routes, owed, faults>>
       \/ /\ pump.armed /\ pump' = To("submit")
          /\ UNCHANGED <<routes, owed, recorder, faults>>
       \/ /\ pump.armed /\ recorder.pipeline = "recording"     \* reset_backend
          /\ recorder' = [recorder EXCEPT !.inputs = <<>>, !.completed = {}]
          /\ ReleaseAll(TornDown(recorder, TRUE).completed, To("submit"))
          /\ UNCHANGED faults
       \/ /\ \/ pump.armed # (recorder.pipeline = "recording") /\ UNCHANGED faults
             \/ faults < MaxFaults /\ faults' = faults + 1   \* creation, start or reset fails
          /\ ReleaseAll({pump.hand}, Recovering(Done))
          /\ \E proved \in BOOLEAN : recorder' = TornDown(recorder, proved)
    /\ UNCHANGED <<RestOfPump, queue>>

(* submit_frame.  An error leaves the frame to the pipeline's teardown,     *)
(* which knows it only if the pipeline was there to track it.               *)
PumpSubmit ==
    /\ pump.pc = "submit"
    /\ \/ /\ recorder.pipeline = "recording"
          /\ \E n \in 0 .. Len(recorder.inputs) + 1, proved \in BOOLEAN :
               LET r == Encoded(recorder, pump.hand, n)
               IN IF EncodeFits(recorder, n)
                  THEN /\ recorder' = r
                       /\ pump' = [To("return") EXCEPT !.hand = NoToken]
                  ELSE /\ recorder' = TornDown(r, proved)
                       /\ pump' = Recovering(Done)
          /\ UNCHANGED faults
       \/ /\ recorder.pipeline = "recording" /\ faults < MaxFaults
          /\ faults' = faults + 1
          /\ pump' = Recovering(Done)
          /\ \E proved \in BOOLEAN :
               recorder' = TornDown([recorder EXCEPT !.inputs = Append(@, pump.hand)], proved)
       \/ /\ recorder.pipeline # "recording"
          /\ pump' = Recovering(Done)
          /\ UNCHANGED <<recorder, faults>>
    /\ UNCHANGED <<RestOfPump, routes, owed, queue>>

(* release_runtime_completions after a submission: an acknowledgement that  *)
(* cannot be sent now also sends the recorder into recovery.                *)
PumpReturn ==
    LET all == pump.pending \union recorder.completed
        r   == [recorder EXCEPT !.completed = {}]
    IN /\ pump.pc = "return"
       /\ \E sent \in SUBSET all, proved \in BOOLEAN :
            /\ CanSend(sent, all, routes)
            /\ Acknowledge(sent, routes, owed)
            /\ IF all \subseteq sent
               THEN recorder' = r /\ pump' = [Done EXCEPT !.pending = {}]
               ELSE /\ recorder' = TornDown(r, proved)
                    /\ pump' = [Recovering(Done) EXCEPT !.pending = all \ sent]
       /\ UNCHANGED <<RestOfPump, queue, faults>>

(* An early frame, captured before the encoder was ready, is returned. *)
PumpEarly ==
    /\ pump.pc = "submit"
    /\ ReleaseAll({pump.hand}, Done)
    /\ UNCHANGED <<RestOfPump, queue, recorder, faults>>

(* The stop flag, or an incomplete teardown: runtime shutdown, release of   *)
(* its completions, drain_and_release of the queue.                         *)
PumpStop ==
    /\ pump.pc = "top" \/ (pump.pc = "wait" /\ recorder.pipeline = "stuck")
    /\ \E proved \in BOOLEAN :
         LET r    == TornDown(recorder, proved)
             all  == pump.pending \union r.completed
             rest == queue.rejected \union ToSet(queue.frames)
         IN \E sent \in SUBSET (all \union rest) :
              /\ CanSend(sent, all \union rest, routes)
              /\ Acknowledge(sent, routes, owed)
              /\ recorder' = [r EXCEPT !.completed = {}]
              /\ pump' = [To("stopped") EXCEPT !.pending = all \ sent]
              /\ queue' = [queue EXCEPT !.frames = <<>>, !.rejected = rest \ sent]
    /\ UNCHANGED <<RestOfPump, faults>>

Pump ==
    \/ PumpRejected \/ PumpFault \/ PumpCompletions \/ PumpWait
    \/ PumpImportFails \/ PumpTaken \/ PumpRecord \/ PumpSubmit \/ PumpReturn
    \/ PumpEarly

Next ==
    \/ \E p \in Producers : Hello(p) \/ SourceRejected(p) \/ ExportRefused(p)
    \/ \E p \in Producers, dies \in BOOLEAN : Goodbye(p, dies)
    \/ \E p \in Producers, idle, valid \in BOOLEAN : Export(p, idle, valid)
    \/ Save \/ Pump \/ PumpStop

Spec == Init /\ [][Next]_vars

-----------------------------------------------------------------------------
(* Properties.                                                              *)

TypeOK ==
    /\ wire \in [Producers -> 0 .. MaxWire]
    /\ owed \in [Producers -> SUBSET (1 .. MaxWire)]
    /\ lost \in [Producers -> SUBSET (1 .. MaxWire)]
    /\ life \in [Producers -> {"none", "up", "dead"}]
    /\ device \in [Producers -> 0 .. MaxDevices]
    /\ capture.phase \in {"armed", "capturing", "completed"}
    /\ selector.selected \in Sockets \union {NoSocket}
    /\ DOMAIN routes \subseteq Tokens /\ Cardinality(DOMAIN routes) <= RouteCapacity
    /\ Len(queue.frames) <= QueueCapacity
    /\ recorder.pipeline \in {"none", "recording", "stuck"}
    /\ Len(recorder.inputs) <= MaxInFlight + 1
    /\ Cardinality(recorder.completed) <= MaxCompleted
    /\ pump.pc \in {"top", "fault", "completions", "wait", "taken", "record",
                    "submit", "return", "stopped"}

(* The places in which a frame can be on its way back *)
Hand == IF pump.hand = NoToken THEN {} ELSE {pump.hand}
Places == <<ToSet(queue.frames), queue.rejected, pump.pending, Hand,
            ToSet(recorder.inputs), recorder.completed>>
Held == UNION ToSet(Places)

(* While the encoder may read a frame, the producer that lives on still      *)
(* waits for that very buffer: it has not been told that it may overwrite    *)
(* it, not through another frame's acknowledgement, a retried one, a full    *)
(* table or a device created meanwhile (replay_release.rs, register and      *)
(* release; "a delayed old ACK cannot release a new device's equal-numbered  *)
(* buffer").                                                                 *)
EncoderOwnsInputs ==
    \A i \in DOMAIN recorder.inputs :
        LET t == recorder.inputs[i]
        IN /\ t \in DOMAIN routes
           /\ ~Gone(routes[t]) => routes[t].wire \in owed[routes[t].path]

(* A producer waits only for acknowledgements the daemon knows it owes: the  *)
(* buffers it counts as lent out are the leased ones and those whose message *)
(* lost its descriptor ("dropping an already-received export here would      *)
(* strand its owner", receiver_loop).                                        *)
NoSlotStranded ==
    \A p \in Producers :
        owed[p] = lost[p] \union {routes[t].wire : t \in
                    {u \in DOMAIN routes : routes[u].path = p /\ ~Gone(routes[u])}}

(* The handoff implements the abstract lease: a frame is lent once, read      *)
(* only while it is lent, and its return (the loss of its reply route) never  *)
(* precedes the end of the encoder's read, in whatever order the receiver,    *)
(* the pump and a save drop, drain and retry (replay_release.rs, register and *)
(* release; replay_pipeline.rs, shutdown_backend).                            *)
Lease == INSTANCE FrameLease WITH
    issued  <- nextToken - 1,
    lent    <- DOMAIN routes,
    reading <- ToSet(recorder.inputs)
ImplementsLease == Lease!Spec

(* Every frame that is somewhere has its route, and none is in two places or  *)
(* twice in one: nothing is acknowledged twice and nothing waits for an       *)
(* acknowledgement that cannot come (release_sequences, rejected_exports).    *)
AtMostOneHolder ==
    /\ Held \subseteq DOMAIN routes
    /\ IsInjective(queue.frames) /\ IsInjective(recorder.inputs)
    /\ \A i, j \in DOMAIN Places : i # j => Places[i] \cap Places[j] = {}

(* "the pump reports the failure, releases producer ownership of every        *)
(* in-flight export" (game_session.rs): while the pump runs, every leased     *)
(* token is somewhere.                                                        *)
NoLeaseLost == pump.pc # "stopped" => DOMAIN routes \subseteq Held

(* register never refuses an export of a live producer: the receiver only    *)
(* takes a message while a route is free, and no leased frame has the same   *)
(* socket and sequence.                                                      *)
RegisterAccepts ==
    \A p \in Producers :
        TakesMessages /\ life[p] = "up" => Registers(p, wire[p] + 1)

(* Frames are never left in the queue marked for release only: the retry      *)
(* queue has room for every leased token, so the loop of the rejection        *)
(* handler always empties the queue (accept_capture_message).                 *)
RetryQueueSuffices == queue.releaseOnly = 0

(* No frame is held twice or without its reply route, while the encoder may    *)
(* read one its producer is not told that it may overwrite it, and nothing is  *)
(* left for release only (the pump, accept_capture_message, register, release).*)
LeasesKept == AtMostOneHolder /\ EncoderOwnsInputs /\ RetryQueueSuffices
=============================================================================
