---------------------------- MODULE FrameStream ----------------------------
(***************************************************************************)
(* Frame measurements of one capture session: the producers in the game's  *)
(* processes (producer.rs) batch present intervals and send them, with     *)
(* hello, goodbye, overlay and Replay source messages, over one datagram   *)
(* socket; the receiver thread (capture_session.rs) applies them to the    *)
(* session model (capture.rs), and the supervisor ends the session.        *)
(*                                                                         *)
(* Sends never block: a full socket loses the message.  Exports are        *)
(* reduced to their effect on the session model; their leases are in       *)
(* ExportHandoff.                                                          *)
(***************************************************************************)
EXTENDS Integers, Sequences, FiniteSets, SequencesExt

CONSTANTS Process,     \* the game first; others are its launchers and helpers
          Threads,     \* threads that present in one process
          Capacity,    \* datagrams the socket holds
          Batch,       \* BATCH_INTERVALS
          MaxSources,  \* REPLAY_SOURCE_HISTORY_CAPACITY
          MaxFrames,   \* bound: frames of one device
          MaxDevices,  \* bound: devices created by one process
          MaxNotices,  \* bound: overlay and Replay messages of one device
          Supervised   \* whether the supervisor may end the session

None == 0
Source == 1..2                \* Replay sources, by area
Empty == -1                   \* no sequence number yet

VARIABLES
  prod,       \* per process: the producer behind its lock
  taken,      \* per process: sequence numbers taken by presents that have not pushed them
  socket,     \* datagrams not received yet
  model,      \* CaptureSessionModel, as published
  counted,    \* frames counted as received, by process, device and sequence number
  receiver,   \* "running" | "done"
  stop,       \* the stop flag
  ending,     \* the supervisor: "no" | "joining" | "ended"
  waiting     \* a goodbye was in the socket when the supervisor stopped the receiver

vars == <<prod, taken, socket, model, counted, receiver, stop, ending, waiting>>

Producer0 == [on |-> FALSE, device |-> 0, connected |-> FALSE, next |-> 0, first |-> 0,
              count |-> 0, previous |-> Empty, overlay |-> "none", notices |-> 0]

Model0 == [phase |-> "armed", process |-> None, device |-> 0, next |-> Empty,
           received |-> 0, dropped |-> 0, rejected |-> 0,
           candidate |-> None, announced |-> <<>>, refused |-> FALSE,
           export |-> None, overlay |-> "none"]

Init ==
    /\ prod = [p \in Process |-> Producer0]
    /\ taken = [p \in Process |-> {}]
    /\ socket = <<>> /\ model = Model0 /\ counted = {}
    /\ receiver = "running" /\ stop = FALSE /\ ending = "no" /\ waiting = FALSE

-----------------------------------------------------------------------------
(* The producer.  A send fails when the socket is full. *)

Room(queue) == Len(queue) < Capacity
Sent(queue, msg) == IF Room(queue) THEN Append(queue, msg) ELSE queue

HelloMsg(p) == [kind |-> "hello", by |-> p, device |-> prod[p].device + 1]

\* device_created: the first device connects and says hello; without room it stays silent.
DeviceCreated(p) ==
    /\ ~prod[p].on /\ prod[p].device < MaxDevices
    /\ prod' = [prod EXCEPT ![p] = [Producer0 EXCEPT !.on = TRUE, !.device = prod[p].device + 1,
                                                    !.connected = Room(socket)]]
    /\ socket' = Sent(socket, HelloMsg(p))
    /\ UNCHANGED <<taken, model, counted, receiver, stop, ending, waiting>>

BatchMsg(p, q) == [kind |-> "frames", by |-> p, device |-> q.device, first |-> q.first, n |-> q.count]

\* The queue and the producer after a flush.
FlushedQueue(p, q) == IF q.count > 0 /\ q.connected THEN Sent(socket, BatchMsg(p, q)) ELSE socket
FlushedBatch(q) == [q EXCEPT !.count = 0]

\* A present takes its sequence number before it tries the producer's lock.
TakeSequence(p) ==
    /\ prod[p].on /\ prod[p].next < MaxFrames /\ Cardinality(taken[p]) < Threads
    /\ taken' = [taken EXCEPT ![p] = @ \cup {prod[p].next}]
    /\ prod' = [prod EXCEPT ![p].next = @ + 1]
    /\ UNCHANGED <<socket, model, counted, receiver, stop, ending, waiting>>

\* Variant of Gap: a batch takes whatever comes.
GapNever(q, s) == FALSE

\* A number that does not follow the last one closes the batch.
Gap(q, s) == q.previous # Empty /\ s # q.previous + 1

\* Under the lock: a full batch, too, is sent at once.
Push(p, s) ==
    LET q == prod[p]
        open == IF Gap(q, s) THEN FlushedBatch(q) ELSE q
        filled == [open EXCEPT !.first = IF open.count = 0 THEN s ELSE @,
                               !.count = @ + 1, !.previous = s]
    IN  /\ s \in taken[p]
        /\ taken' = [taken EXCEPT ![p] = @ \ {s}]
        /\ IF ~q.connected THEN UNCHANGED <<prod, socket>>
           ELSE IF filled.count = Batch
                THEN /\ prod' = [prod EXCEPT ![p] = FlushedBatch(filled)]
                     /\ socket' = LET before == IF Gap(q, s) THEN FlushedQueue(p, q) ELSE socket
                                  IN  Sent(before, BatchMsg(p, filled))
                ELSE /\ prod' = [prod EXCEPT ![p] = filled]
                     /\ socket' = IF Gap(q, s) THEN FlushedQueue(p, q) ELSE socket
        /\ UNCHANGED <<model, counted, receiver, stop, ending, waiting>>

\* The lock is busy: the frame is not measured.
PushContended(p, s) ==
    /\ s \in taken[p] /\ Cardinality(taken[p]) > 1
    /\ taken' = [taken EXCEPT ![p] = @ \ {s}]
    /\ UNCHANGED <<prod, socket, model, counted, receiver, stop, ending, waiting>>

Notice(p) == prod[p].connected /\ prod[p].notices < MaxNotices

\* send_overlay_status: "requested" goes first; only a status that was sent is remembered.
SendOverlay(p, status) ==
    LET q == prod[p]
        asked == q.overlay # "none"
        queue == IF asked THEN socket ELSE Sent(socket, [kind |-> "overlay", by |-> p, status |-> "requested"])
    IN  /\ Notice(p) /\ q.overlay # status
        /\ LET heard == asked \/ Room(socket)
               told == heard /\ Room(queue)
           IN  /\ socket' = IF heard THEN Sent(queue, [kind |-> "overlay", by |-> p, status |-> status]) ELSE socket
               /\ prod' = [prod EXCEPT ![p].notices = @ + 1,
                             ![p].overlay = IF told THEN status ELSE IF heard /\ ~asked THEN "requested" ELSE @]
        /\ UNCHANGED <<taken, model, counted, receiver, stop, ending, waiting>>

\* Replay assessments and exports, each one message.
SendReplay(p, msg) ==
    /\ Notice(p)
    /\ socket' = Sent(socket, msg)
    /\ prod' = [prod EXCEPT ![p].notices = @ + 1]
    /\ UNCHANGED <<taken, model, counted, receiver, stop, ending, waiting>>

Assess(p) ==
    \/ \E s \in Source : SendReplay(p, [kind |-> "candidate", by |-> p, source |-> s])
    \/ SendReplay(p, [kind |-> "refusal", by |-> p])
Export(p) == \E s \in Source : SendReplay(p, [kind |-> "export", by |-> p, source |-> s])

LastSequence(q) == IF q.previous = Empty THEN 0 ELSE q.previous

\* device_destroyed: flush, goodbye, and every field starts over.
DeviceDestroyed(p) ==
    LET q == prod[p]
        goodbye == [kind |-> "goodbye", by |-> p, device |-> q.device, last |-> LastSequence(q)]
    IN  /\ q.on /\ taken[p] = {}
        /\ socket' = IF q.connected THEN Sent(FlushedQueue(p, q), goodbye) ELSE socket
        /\ prod' = [prod EXCEPT ![p] = [Producer0 EXCEPT !.device = q.device, !.next = q.next,
                                                        !.previous = q.previous]]
        /\ UNCHANGED <<taken, model, counted, receiver, stop, ending, waiting>>

-----------------------------------------------------------------------------
(* The session model. *)

Reject(m) == [m EXCEPT !.rejected = @ + 1]

\* Only the totals survive a new hello.
HelloState(m, msg) ==
    [Model0 EXCEPT !.phase = "capturing", !.process = msg.by, !.device = msg.device,
                   !.received = m.received, !.dropped = m.dropped, !.rejected = m.rejected]

AcceptHello(m, msg) ==
    IF m.phase \in {"armed", "completed"} /\ m.process \in {None, msg.by}
    THEN HelloState(m, msg) ELSE Reject(m)

FramesAccepted(m, msg) == m.phase = "capturing" /\ (m.next = Empty \/ msg.first >= m.next)

\* A batch that starts late reports the frames before it as dropped.
AcceptFrames(m, msg) ==
    IF FramesAccepted(m, msg)
    THEN [m EXCEPT !.dropped = @ + msg.first - (IF m.next = Empty THEN 0 ELSE m.next),
                   !.received = @ + msg.n, !.next = msg.first + msg.n]
    ELSE Reject(m)

GoodbyeDrops(m, last) ==
    IF m.next # Empty THEN last - (m.next - 1) ELSE IF last > 0 THEN last + 1 ELSE 0

AcceptGoodbye(m, msg) ==
    IF m.phase # "capturing" \/ (m.next # Empty /\ msg.last < m.next - 1) THEN Reject(m)
    ELSE [m EXCEPT !.dropped = @ + GoodbyeDrops(m, msg.last), !.phase = "completed"]

Announced(list, s) ==
    IF s \in Range(list) THEN list
    ELSE Append(IF Len(list) = MaxSources THEN Tail(list) ELSE list, s)

\* The largest source wins; it also ends a refusal.
AcceptCandidate(m, s) ==
    IF m.phase # "capturing" THEN Reject(m)
    ELSE LET known == [m EXCEPT !.announced = Announced(@, s)]
         IN  IF s > m.candidate THEN [known EXCEPT !.candidate = s, !.refused = FALSE] ELSE known

RefusalState(m) == [m EXCEPT !.candidate = None, !.announced = <<>>, !.export = None, !.refused = TRUE]

AcceptRefusal(m) ==
    IF m.phase # "capturing" THEN Reject(m)
    ELSE IF m.candidate # None \/ ~m.refused THEN RefusalState(m) ELSE m

\* A confirmed export becomes the source Replay is ready for.
AcceptExport(m, s) ==
    IF m.phase # "capturing" \/ s \notin Range(m.announced) THEN Reject(m)
    ELSE [m EXCEPT !.export = s, !.candidate = s, !.refused = FALSE]

OverlayStep(old, new) ==
    CASE old = "none" -> new = "requested"
      [] old = "active" -> new # "requested"
      [] OTHER -> TRUE

AcceptOverlay(m, status) ==
    IF m.phase # "capturing" \/ ~OverlayStep(m.overlay, status) THEN Reject(m)
    ELSE [m EXCEPT !.overlay = status]

\* accept_capture_message and accept_frame_batch.
Applied(m, msg) ==
    CASE msg.kind = "hello" -> AcceptHello(m, msg)
      [] msg.kind = "frames" -> AcceptFrames(m, msg)
      [] msg.kind = "goodbye" -> AcceptGoodbye(m, msg)
      [] msg.kind = "candidate" -> AcceptCandidate(m, msg.source)
      [] msg.kind = "refusal" -> AcceptRefusal(m)
      [] msg.kind = "export" -> AcceptExport(m, msg.source)
      [] msg.kind = "overlay" -> AcceptOverlay(m, msg.status)

\* One turn of receiver_loop: the message is applied and the snapshot published, unless
\* the session was stopped before it was received.
Receive ==
    LET msg == Head(socket)
    IN  /\ receiver = "running" /\ ~stop /\ socket # <<>>
        /\ socket' = Tail(socket)
        /\ model' = Applied(model, msg)
        /\ counted' = IF msg.kind = "frames" /\ FramesAccepted(model, msg)
                      THEN counted \cup {<<msg.by, msg.device, s>> : s \in msg.first..(msg.first + msg.n - 1)}
                      ELSE counted
        /\ UNCHANGED <<prod, taken, receiver, stop, ending, waiting>>

\* The stop flag is read before and after each receive; an empty datagram wakes a
\* receiver that waits.
ReceiverStops ==
    /\ receiver = "running" /\ stop
    /\ receiver' = "done"
    /\ UNCHANGED <<prod, taken, socket, model, counted, stop, ending, waiting>>

-----------------------------------------------------------------------------
(* The supervisor: fail_if_active. *)

Over == {"completed", "failed"}

FailIfActive ==
    /\ Supervised /\ ending = "no"
    /\ IF model.phase \in Over THEN ending' = "ended" /\ UNCHANGED <<stop, waiting>>
       ELSE /\ ending' = "joining" /\ stop' = TRUE
            /\ waiting' = \E i \in 1..Len(socket) : socket[i].kind = "goodbye"
    /\ UNCHANGED <<prod, taken, socket, model, counted, receiver>>

\* After the join the phase is looked at again.
Joined ==
    /\ ending = "joining" /\ receiver = "done"
    /\ ending' = "ended"
    /\ model' = IF model.phase \in Over THEN model ELSE [model EXCEPT !.phase = "failed"]
    /\ UNCHANGED <<prod, taken, socket, counted, receiver, stop, waiting>>

ProducerStep(p) ==
    \/ DeviceCreated(p) \/ DeviceDestroyed(p) \/ TakeSequence(p)
    \/ \E s \in taken[p] : Push(p, s) \/ PushContended(p, s)
    \/ \E status \in {"active", "error"} : SendOverlay(p, status)
    \/ Assess(p) \/ Export(p)

Next == (\E p \in Process : ProducerStep(p)) \/ Receive \/ ReceiverStops \/ FailIfActive \/ Joined

Spec == Init /\ [][Next]_vars /\ WF_vars(Receive) /\ WF_vars(ReceiverStops) /\ WF_vars(Joined)

-----------------------------------------------------------------------------
(* Properties. *)

\* Types and bounds.
TypeOK ==
    /\ Len(socket) <= Capacity
    /\ model.phase \in {"armed", "capturing", "completed", "failed"}
    /\ model.next \in {Empty} \cup 1..MaxFrames
    /\ model.received \in Nat /\ model.dropped \in Nat
    /\ Len(model.announced) <= MaxSources
    /\ \A p \in Process : prod[p].count \in 0..(Batch - 1)

\* Every frame counted was presented, and is counted once, whatever batches are lost, cut
\* by a gap or sent out of order by a second thread.
FramesReal ==
    /\ model.received = Cardinality(counted)
    /\ \A f \in counted : prod[f[1]].device = f[2] => f[3] < prod[f[1]].next

\* With one device, received and dropped frames together are the frames the producer has
\* measured, once its goodbye was taken: no lost batch goes unnoticed.  The code cannot
\* tell one lost frame from none when frame 0 is all there was.
CountsComplete ==
    \A p \in Process :
        model.phase = "completed" /\ model.process = p /\ prod[p].device = 1 /\ ~prod[p].on =>
            \/ model.received + model.dropped = prod[p].previous + 1
            \/ prod[p].previous = 0 /\ model.received + model.dropped = 0

\* A producer with a live device that has been heard to the end is the one the session
\* measures: a recreated device is picked up again, with its sequence from 0 and its
\* overlay status ("A same-process device recreation can reset the wire sequence").
RecreationHeard ==
    \A p \in Process :
        prod[p].connected /\ socket = <<>> /\ ~stop =>
            /\ model.phase = "capturing" /\ model.process = p /\ model.device = prod[p].device
            /\ model.overlay = prod[p].overlay
            /\ Cardinality({f \in counted : f[1] = p /\ f[2] = prod[p].device})
                 = prod[p].previous + 1 - prod[p].count

\* Replay readiness comes from exports of the current epoch: with an export on record the
\* session has a source and no refusal ("Stale exports cannot establish readiness").
ReadinessCurrent == model.export # None => model.candidate # None /\ ~model.refused
=============================================================================
