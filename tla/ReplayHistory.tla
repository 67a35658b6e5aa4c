----------------------------- MODULE ReplayHistory -----------------------------
(***************************************************************************)
(* The replay history end to end: ReplayHardwarePipeline                   *)
(* (crates/redunar-daemon/src/replay_pipeline.rs) feeds every encoded      *)
(* packet to the in-memory ring and to the disk spool (replay_spool.rs),   *)
(* whose worker writes keyframe-aligned segments, and saves clips from     *)
(* either.  A full command queue is repaired later from the ring, a        *)
(* storage failure leaves the ring alone, a reset starts a new codec       *)
(* epoch, and a crash leaves segments on disk that the next session finds. *)
(*                                                                         *)
(* Packets are those of ReplayRing plus the epoch they belong to.  The     *)
(* atomics of try_submit are the subject of SpoolAdmission; here it is one *)
(* step, so that a call interleaves with the worker between packets.       *)
(***************************************************************************)
EXTENDS ReplayRing

CONSTANTS Capacity,        \* COMMAND_CAPACITY
          KeyInterval,     \* KEYFRAME_REQUEST_INTERVAL_NS
          TargetSegment,   \* TARGET_SEGMENT_NS
          MaxSegment,      \* MAX_SEGMENT_NS
          Retained,        \* SpoolLimits.duration_ns
          MaxSegments,     \* MAX_SEGMENTS
          MinSavable,      \* MIN_SAVABLE_HISTORY_NS
          Requests,        \* durations a save may ask for
          Durations,       \* packet durations
          MaxInFlight,     \* frames the encoder may hold back
          Ticks,           \* bound: timestamps of one epoch
          MaxEpochs,       \* bound: codec epochs, over all sessions
          MaxSaves,        \* bound: saves
          MaxFaults        \* bound: storage errors

ASSUME HistoryAssumption ==
  /\ Capacity \in Nat \ {0}
  /\ Ticks \subseteq Nat
  /\ KeyInterval <= TargetSegment /\ TargetSegment <= MaxSegment

VARIABLES phase,           \* ReplayPipelinePhase, or "Closed" without a pipeline
          epoch,           \* history: number of the codec epoch
          encoded,         \* history: every packet of this epoch
          encoder,         \* frames inside the hardware encoder
          clock,           \* last_frame_timestamp and last_keyframe_request
          ring,
          degraded,        \* spool_degraded
          pendingFrom,     \* spool_pending_from_ns
          owner,           \* what the pipeline's caller is in the middle of
          spoolPhase,
          queue,           \* the worker's commands
          worker,          \* "run", "closing" or "gone"
          current,         \* packets of the segment being written
          index,           \* SpoolIndex.segments
          disk,            \* the segment files
          jobs,            \* the assembly jobs
          faults           \* storage errors so far

pipeVars  == <<phase, epoch, encoded, encoder, clock, ring, degraded, pendingFrom, owner>>
spoolVars == <<queue, worker, spoolPhase, current, index, disk, faults>>
vars      == <<pipeVars, spoolVars, jobs>>

Idle == [at |-> "idle", todo |-> <<>>, save |-> 0]

NoClock == [frame |-> NoTimestamp, request |-> NoTimestamp]

NoJob == [at |-> "none", cancel |-> FALSE, request |-> 0, ram |-> FALSE,
          data |-> <<>>, wanted |-> <<>>]

PacketCommand(p)   == [kind |-> "packet", packet |-> p]
ResetCommand       == [kind |-> "reset"]
SnapshotCommand(j) == [kind |-> "snapshot", job |-> j]
ShutdownCommand    == [kind |-> "shutdown"]

\* A session opens with the old segments and a queued reset (Open, below).
Init ==
  /\ phase = "Closed"
  /\ epoch = 0
  /\ encoded = <<>>
  /\ encoder = <<>>
  /\ clock = NoClock
  /\ ring = EmptyRing
  /\ degraded = FALSE
  /\ pendingFrom = NoTimestamp
  /\ owner = Idle
  /\ spoolPhase = "Shutdown"
  /\ queue = <<>>
  /\ worker = "gone"
  /\ current = <<>>
  /\ index = <<>>
  /\ disk = {}
  /\ jobs = [j \in 1..MaxSaves |-> NoJob]
  /\ faults = 0

-------------------------------------------------------------------------------
(* The pipeline: encoder output goes to the ring, then packet by packet to   *)
(* the spool.                                                                *)

DiskAvailable == ~degraded /\ spoolPhase = "Running"

\* degrade_spool.
Degrade == degraded' = TRUE /\ pendingFrom' = NoTimestamp

\* The ring's packets from the first one the spool has not got; empty when
\* that one has been evicted ("exceeded the in-memory repair window").
Backlog(r) ==
  LET rest == SelectSeq(r.packets, LAMBDA p : p.ts >= pendingFrom)
  IN  IF rest # <<>> /\ Head(rest).ts = pendingFrom THEN rest ELSE <<>>

\* push_encoded up to the first try_submit; save is the requested duration of
\* the save that drained the encoder, or 0.
PushEncoded(out, save) ==
  LET result == PushBatch(ring, out)
      stored == SelectSeq(out, LAMBDA p :
                  \E i \in 1..Len(out) : out[i] = p /\ result.outcomes[i] = "stored")
      repair == pendingFrom # NoTimestamp
  IN  /\ ring' = result.ring
      /\ encoded' = encoded \o out
      /\ IF repair /\ Backlog(result.ring) = <<>>
           THEN Degrade
           ELSE UNCHANGED <<degraded, pendingFrom>>
      /\ owner' = [at   |-> IF degraded THEN "flush" ELSE "submit",
                   todo |-> CASE degraded -> <<>>
                              [] repair   -> Backlog(result.ring)
                              [] OTHER    -> stored,
                   save |-> save]

\* submit_frame.  Presentation time decides when a keyframe is due.
SubmitFrame(ts, dur) ==
  LET force == clock.request = NoTimestamp \/ ts - clock.request >= KeyInterval
      frame == [ts |-> ts, dur |-> dur, key |-> force, size |-> 1, epoch |-> epoch]
      held  == Append(encoder, frame)
  IN  /\ phase = "Buffering"
      /\ owner = Idle
      /\ ts > clock.frame
      /\ clock' = [frame   |-> ts,
                   request |-> IF force THEN ts ELSE clock.request]
      /\ \E n \in 0..Len(held) :
           /\ Len(held) - n <= MaxInFlight
           /\ encoder' = SubSeq(held, n + 1, Len(held))
           /\ PushEncoded(SubSeq(held, 1, n), 0)
      /\ UNCHANGED <<phase, epoch, spoolVars, jobs>>

\* A rejected frame or a backend error: fail_closed, and the runtime shuts the
\* pipeline down.
FailClosed ==
  /\ phase = "Buffering"
  /\ owner = Idle
  /\ phase' = "Failed"
  /\ ring' = ResetEpoch(ring)
  /\ encoder' = <<>>
  /\ owner' = [Idle EXCEPT !.at = "stop"]
  /\ UNCHANGED <<epoch, encoded, clock, degraded, pendingFrom, spoolVars, jobs>>

\* One try_submit of push_encoded or of a repair: accepted, QueueFull, or
\* NotRunning.
TrySubmit ==
  /\ owner.at \in {"submit", "repair"}
  /\ owner.todo # <<>>
  /\ \/ /\ spoolPhase = "Running"
        /\ Len(queue) < Capacity
        /\ queue' = Append(queue, PacketCommand(Head(owner.todo)))
        /\ owner' = [owner EXCEPT !.todo = Tail(@)]
        /\ pendingFrom' = NoTimestamp
        /\ UNCHANGED degraded
     \/ /\ spoolPhase = "Running"
        /\ Len(queue) >= Capacity
        /\ pendingFrom' = Head(owner.todo).ts
        /\ owner' = IF owner.at = "repair" THEN Idle    \* "still catching up"
                    ELSE [owner EXCEPT !.todo = <<>>]
        /\ UNCHANGED <<queue, degraded>>
     \/ /\ spoolPhase # "Running"
        /\ IF owner.at = "repair"
             THEN UNCHANGED <<degraded, pendingFrom>>
             ELSE Degrade
        /\ owner' = [owner EXCEPT !.at = "flush", !.todo = <<>>]
        /\ UNCHANGED queue
  /\ UNCHANGED <<phase, epoch, encoded, encoder, clock, ring, spoolPhase, worker,
                 current, index, disk, faults, jobs>>

\* The phase check at the end of push_encoded.
CheckSpool ==
  /\ owner.at = "submit"
  /\ owner.todo = <<>>
  /\ IF spoolPhase # "Running" THEN Degrade ELSE UNCHANGED <<degraded, pendingFrom>>
  /\ owner' = [owner EXCEPT !.at = "flush"]
  /\ UNCHANGED <<phase, epoch, encoded, encoder, clock, ring, spoolVars, jobs>>

FrameDone ==
  /\ owner.at = "flush"
  /\ owner.save = 0
  /\ owner' = Idle
  /\ UNCHANGED <<phase, epoch, encoded, encoder, clock, ring, degraded, pendingFrom,
                 spoolVars, jobs>>

-------------------------------------------------------------------------------
(* Saves.  The runtime admits one at a time.                                 *)

Active(j) == jobs[j].at \in {"waiting", "pinned"}

NextJob == Min({j \in 1..MaxSaves : jobs[j].at = "none"})

\* save_spooled_replay_as_with_audio_tracks, save_recent_...: drain the encoder.
BeginSave(d) ==
  /\ phase = "Buffering"
  /\ owner = Idle
  /\ \A j \in 1..MaxSaves : ~Active(j)
  /\ \E j \in 1..MaxSaves : jobs[j].at = "none"
  /\ encoder' = <<>>
  /\ PushEncoded(encoder, d)
  /\ UNCHANGED <<phase, epoch, clock, spoolVars, jobs>>

StartJob(j, at, data, ram) ==
  jobs' = [jobs EXCEPT ![j] = [at |-> at, cancel |-> FALSE, request |-> owner.save,
                               ram |-> ram, data |-> data, wanted |-> encoded]]

\* flush_spool_backlog_before_save.
FlushBeforeSave ==
  /\ owner.at = "flush"
  /\ owner.save # 0
  /\ DiskAvailable
  /\ owner' = CASE pendingFrom = NoTimestamp -> [owner EXCEPT !.at = "send"]
                [] Backlog(ring) # <<>>      -> [owner EXCEPT !.at = "repair",
                                                              !.todo = Backlog(ring)]
                [] OTHER                     -> Idle
  /\ UNCHANGED <<phase, epoch, encoded, encoder, clock, ring, degraded, pendingFrom,
                 spoolVars, jobs>>

RepairDone ==
  /\ owner.at = "repair"
  /\ owner.todo = <<>>
  /\ owner' = [owner EXCEPT !.at = "send"]
  /\ UNCHANGED <<phase, epoch, encoded, encoder, clock, ring, degraded, pendingFrom,
                 spoolVars, jobs>>

\* Without disk history the clip comes from the ring; an empty ring is an error
\* for which the runtime stops the pipeline.
SaveFromRing ==
  LET clip == SnapshotForDuration(ring, owner.save)
  IN  /\ owner.at = "flush"
      /\ owner.save # 0
      /\ ~DiskAvailable
      /\ IF clip = <<>>
           THEN owner' = [Idle EXCEPT !.at = "stop"] /\ UNCHANGED jobs
           ELSE owner' = Idle /\ StartJob(NextJob, "pinned", clip, TRUE)
      /\ UNCHANGED <<phase, epoch, encoded, encoder, clock, ring, degraded, pendingFrom,
                     spoolVars>>

\* save_async_tracks_with_audio.  Whether or not the request is queued, the
\* next frame will be a keyframe.
SendSnapshot ==
  /\ owner.at = "send"
  /\ owner' = Idle
  /\ clock' = [clock EXCEPT !.request = NoTimestamp]
  /\ IF spoolPhase = "Running" /\ Len(queue) < Capacity
       THEN /\ queue' = Append(queue, SnapshotCommand(NextJob))
            /\ StartJob(NextJob, "waiting", <<>>, FALSE)
       ELSE UNCHANGED <<queue, jobs>>
  /\ UNCHANGED <<phase, epoch, encoded, encoder, ring, degraded, pendingFrom, spoolPhase,
                 worker, current, index, disk, faults>>

\* The reader's suffix policy: from the earliest keyframe that leaves at most d.
Suffix(s, d) ==
  LET from == {i \in 1..Len(s) : s[i].key /\ SpanOf(SubSeq(s, i, Len(s))) <= d}
  IN  IF from = {} THEN <<>> ELSE SubSeq(s, Min(from), Len(s))

\* SpoolPackets::scan over the pinned files, record by record; timestamps must
\* increase.
ScanValid(s) == \A i \in 1..Len(s) - 1 : s[i].ts < s[i + 1].ts

Scan(s, d) ==
  FoldLeft(LAMBDA records, p :
             IF records = <<>> /\ ~p.key THEN records ELSE Suffix(Append(records, p), d),
           <<>>, s)

Finish(j, at, clip) == jobs' = [jobs EXCEPT ![j].at = at, ![j].data = clip]

\* assemble_snapshot, or the commit of the ring's packets.
Assemble(j) ==
  LET clip == IF jobs[j].ram THEN jobs[j].data ELSE Scan(jobs[j].data, jobs[j].request)
  IN  /\ jobs[j].at = "pinned"
      /\ ~jobs[j].cancel
      /\ IF clip # <<>> /\ (jobs[j].ram \/ ScanValid(jobs[j].data))
           THEN Finish(j, "done", clip)
           ELSE jobs' = [jobs EXCEPT ![j] = [NoJob EXCEPT !.at = "failed"]]
      /\ UNCHANGED <<pipeVars, spoolVars>>

\* The job is cancelled, times out or finds the worker gone, or its storage
\* fails.  The request may still be queued: the flag makes the worker skip it.
GiveUp(j) ==
  /\ Active(j)
  /\ jobs' = [jobs EXCEPT ![j] = [NoJob EXCEPT !.at = "failed", !.cancel = TRUE]]
  /\ UNCHANGED <<pipeVars, spoolVars>>

-------------------------------------------------------------------------------
(* The spool worker.  A storage error may strike at any of its file          *)
(* operations; it leaves the loop, and the directory as it then is.          *)

Segment(packets) == [start |-> Head(packets).ts, end |-> EndOf(Last(packets)),
                     packets |-> packets]

Store(i, d, c, ok) == [index |-> i, disk |-> d, current |-> c, ok |-> ok]

\* enforce_limits keeps a suffix of the index.
WithinLimits(i) ==
  \/ i = <<>>
  \/ Len(i) <= MaxSegments /\ Last(i).end - Head(i).start <= Retained

Expired(i) == Min({n \in 0..Len(i) : WithinLimits(SubSeq(i, n + 1, Len(i)))})

\* The outcomes of removing the first n files of the index: all of them, or an
\* error at one, which has left the index but not the disk.
RemoveFront(i, d, n) ==
  {Store(SubSeq(i, n + 1, Len(i)), d \ {i[m] : m \in 1..n}, <<>>, TRUE)}
    \cup {Store(SubSeq(i, k + 1, Len(i)), d \ {i[m] : m \in 1..k - 1}, <<>>, FALSE) : k \in 1..n}

\* commit_segment: an error before the rename, or between the rename and the
\* index, or in the retention that follows.
Commit ==
  LET segment == Segment(current)
      grown   == Append(index, segment)
  IN  {Store(index, disk, <<>>, FALSE), Store(index, disk \cup {segment}, <<>>, FALSE)}
        \cup RemoveFront(grown, disk \cup {segment}, Expired(grown))

\* Variant of Clear that keeps the newest segment.
ClearAllButLast == RemoveFront(index, disk, IF index = <<>> THEN 0 ELSE Len(index) - 1)

\* clear_completed_segments.
Clear == RemoveFront(index, disk, Len(index))

Rotates(p) == current # <<>> /\ p.key /\ p.ts - Head(current).ts >= TargetSegment

\* The rest of process_packet once the segment in s has been rotated or not.
Write(s, p) ==
  CASE ~s.ok                         -> {s}
    [] s.current = <<>> /\ ~p.key    -> {s}
    [] s.current # <<>> /\ EndOf(p) - Head(s.current).ts > MaxSegment
                                     -> {[s EXCEPT !.current = <<>>]}
    [] OTHER                         -> {[s EXCEPT !.current = Append(@, p)],
                                         [s EXCEPT !.current = <<>>, !.ok = FALSE]}

ProcessPacket(p) ==
  UNION {Write(s, p) : s \in IF Rotates(p) THEN Commit
                             ELSE {Store(index, disk, current, TRUE)}}

\* Take an outcome; an error is one of the storage faults.
Apply(s) ==
  /\ s.ok \/ faults < MaxFaults
  /\ faults' = IF s.ok THEN faults ELSE faults + 1
  /\ index' = s.index
  /\ disk' = s.disk
  /\ current' = s.current
  /\ worker' = IF s.ok THEN "run" ELSE "closing"

Take(kind) ==
  /\ worker = "run"
  /\ queue # <<>>
  /\ Head(queue).kind = kind
  /\ queue' = Tail(queue)
  /\ UNCHANGED <<spoolPhase, pipeVars>>

WorkerPacket ==
  /\ Take("packet")
  /\ \E s \in ProcessPacket(Head(queue).packet) : Apply(s)
  /\ UNCHANGED jobs

WorkerReset ==
  /\ Take("reset")
  /\ \E s \in Clear : Apply(s)
  /\ UNCHANGED jobs

\* plan_snapshot: the segments that reach into the last d of the index.
Planned(i, d) ==
  LET cutoff == IF Last(i).end > d THEN Last(i).end - d ELSE 0
  IN  SelectSeq(i, LAMBDA s : s.end > cutoff)

\* pin_snapshot and its answer.  A request its job gave up is skipped; the
\* answer to a job that gives up later goes nowhere.
Pin(j, i) ==
  LET plan == Planned(i, jobs[j].request)
  IN  IF i # <<>> /\ Last(i).end - Head(plan).start >= MinSavable
        THEN [jobs[j] EXCEPT !.at = "pinned",
                             !.data = FlattenSeq([n \in 1..Len(plan) |-> plan[n].packets])]
        ELSE [NoJob EXCEPT !.at = "failed"]

WorkerSnapshot ==
  LET j == Head(queue).job
  IN  /\ Take("snapshot")
      /\ IF jobs[j].cancel
           THEN UNCHANGED <<worker, current, index, disk, faults, jobs>>
           ELSE \E s \in IF current = <<>> THEN {Store(index, disk, <<>>, TRUE)} ELSE Commit :
                  /\ Apply(s)
                  /\ jobs' = [jobs EXCEPT ![j] = IF s.ok THEN Pin(j, s.index)
                                                 ELSE [NoJob EXCEPT !.at = "failed"]]

\* close_admission(Failed) and the drain.
WorkerClose ==
  /\ worker = "closing"
  /\ worker' = "gone"
  /\ spoolPhase' = "Failed"
  /\ current' = <<>>
  /\ queue' = <<>>
  /\ UNCHANGED <<pipeVars, index, disk, faults, jobs>>

WorkerShutdown ==
  /\ Take("shutdown")
  /\ worker' = "gone"
  /\ current' = <<>>
  /\ UNCHANGED <<index, disk, faults, jobs>>

-------------------------------------------------------------------------------
(* Epochs and sessions.                                                      *)

\* The encoder's replacement takes over; its clock starts anew.
NewEpoch ==
  /\ epoch' = epoch + 1
  /\ encoded' = <<>>
  /\ encoder' = <<>>
  /\ clock' = NoClock

\* reset, after the runtime has cancelled the save under way.  The request to
\* the spool waits for room in the queue.
BeginReset ==
  /\ phase = "Buffering"
  /\ owner = Idle
  /\ epoch < MaxEpochs
  /\ jobs' = [j \in 1..MaxSaves |->
                IF Active(j) THEN [jobs[j] EXCEPT !.cancel = TRUE] ELSE jobs[j]]
  /\ ring' = ResetEpoch(ring)
  /\ owner' = [Idle EXCEPT !.at = IF DiskAvailable THEN "reset" ELSE "replace"]
  /\ degraded' = (degraded \/ spoolPhase # "Running")
  /\ pendingFrom' = NoTimestamp
  /\ UNCHANGED <<phase, epoch, encoded, encoder, clock, spoolVars>>

SendReset ==
  /\ owner.at = "reset"
  /\ owner' = [Idle EXCEPT !.at = "replace"]
  /\ \/ worker # "gone" /\ Len(queue) < Capacity
        /\ queue' = Append(queue, ResetCommand) /\ UNCHANGED degraded
     \/ worker = "gone" /\ degraded' = TRUE /\ UNCHANGED queue
  /\ UNCHANGED <<phase, epoch, encoded, encoder, clock, ring, pendingFrom, spoolPhase,
                 worker, current, index, disk, faults, jobs>>

\* The old backend may fail to shut down, or the new stream not match.
ReplaceEncoder ==
  /\ owner.at = "replace"
  /\ NewEpoch
  /\ \/ owner' = Idle /\ UNCHANGED phase
     \/ owner' = [Idle EXCEPT !.at = "stop"] /\ phase' = "Failed"
  /\ UNCHANGED <<ring, degraded, pendingFrom, spoolVars, jobs>>

BeginStop ==
  /\ phase = "Buffering"
  /\ owner = Idle
  /\ owner' = [Idle EXCEPT !.at = "stop"]
  /\ UNCHANGED <<phase, epoch, encoded, encoder, clock, ring, degraded, pendingFrom,
                 spoolVars, jobs>>

\* shutdown of the pipeline, then of the spool: close admission, queue the
\* last command, join the worker.
StopSpool ==
  /\ owner.at = "stop"
  /\ spoolPhase' = "Shutdown"
  /\ ring' = ResetEpoch(ring)
  /\ encoder' = <<>>
  /\ pendingFrom' = NoTimestamp
  /\ phase' = "Shutdown"
  /\ owner' = [Idle EXCEPT !.at = "last"]
  /\ UNCHANGED <<epoch, encoded, clock, degraded, queue, worker, current, index, disk,
                 faults, jobs>>

SendShutdown ==
  /\ owner.at = "last"
  /\ owner' = [Idle EXCEPT !.at = "join"]
  /\ \/ worker # "gone" /\ Len(queue) < Capacity /\ queue' = Append(queue, ShutdownCommand)
     \/ worker = "gone" /\ UNCHANGED queue
  /\ UNCHANGED <<phase, epoch, encoded, encoder, clock, ring, degraded, pendingFrom,
                 spoolPhase, worker, current, index, disk, faults, jobs>>

\* Everything but the segment files is gone.
Vanish ==
  /\ phase' = "Closed"
  /\ encoded' = <<>>
  /\ encoder' = <<>>
  /\ clock' = NoClock
  /\ ring' = EmptyRing
  /\ degraded' = FALSE
  /\ pendingFrom' = NoTimestamp
  /\ owner' = Idle
  /\ spoolPhase' = "Shutdown"
  /\ queue' = <<>>
  /\ worker' = "gone"
  /\ current' = <<>>
  /\ index' = <<>>
  /\ UNCHANGED <<epoch, disk, faults>>

Join ==
  /\ owner.at = "join"
  /\ worker = "gone"
  /\ Vanish
  /\ UNCHANGED jobs

\* The daemon dies, with the jobs it runs; finished clips are durable.
Crash ==
  /\ phase # "Closed"
  /\ Vanish
  /\ jobs' = [j \in 1..MaxSaves |->
                IF Active(j) THEN [NoJob EXCEPT !.at = "failed"] ELSE jobs[j]]

\* ReplaySegmentSpool::open recovers whatever segments it finds, ordered by
\* their start, and the pipeline factory queues a reset before any packet.
Recovered == SetToSortSeq(disk, LAMBDA a, b : a.start < b.start)

Open ==
  /\ phase = "Closed"
  /\ epoch < MaxEpochs
  /\ \E s \in RemoveFront(Recovered, disk, Expired(Recovered)) :
       /\ s.ok \/ faults < MaxFaults
       /\ faults' = IF s.ok THEN faults ELSE faults + 1
       /\ disk' = s.disk
       /\ IF s.ok
            THEN /\ index' = s.index
                 /\ phase' = "Buffering"
                 /\ spoolPhase' = "Running"
                 /\ worker' = "run"
                 /\ queue' = <<ResetCommand>>
                 /\ NewEpoch
            ELSE UNCHANGED <<index, phase, spoolPhase, worker, queue, epoch, encoded,
                             encoder, clock>>
  /\ UNCHANGED <<ring, degraded, pendingFrom, owner, current, jobs>>

Next ==
  \/ \E ts \in Ticks, dur \in Durations : SubmitFrame(ts, dur)
  \/ FailClosed
  \/ TrySubmit
  \/ CheckSpool
  \/ FrameDone
  \/ \E d \in Requests : BeginSave(d)
  \/ FlushBeforeSave
  \/ RepairDone
  \/ SaveFromRing
  \/ SendSnapshot
  \/ \E j \in 1..MaxSaves : Assemble(j) \/ GiveUp(j)
  \/ WorkerPacket
  \/ WorkerReset
  \/ WorkerSnapshot
  \/ WorkerClose
  \/ WorkerShutdown
  \/ BeginReset
  \/ SendReset
  \/ ReplaceEncoder
  \/ BeginStop
  \/ StopSpool
  \/ SendShutdown
  \/ Join
  \/ Crash
  \/ Open

Spec == Init /\ [][Next]_vars

-------------------------------------------------------------------------------
Published == {j \in 1..MaxSaves : jobs[j].at = "done"}

\* State shape.
TypeOK ==
  /\ phase \in {"Closed", "Buffering", "Failed", "Shutdown"}
  /\ owner.at \in {"idle", "submit", "flush", "repair", "send", "reset", "replace",
                   "stop", "last", "join"}
  /\ spoolPhase \in {"Running", "Failed", "Shutdown"}
  /\ worker \in {"run", "closing", "gone"}
  /\ Len(queue) <= Capacity
  /\ pendingFrom \in {NoTimestamp} \cup Ticks
  /\ faults \in 0..MaxFaults

(* A published clip, from disk or from memory, is an unbroken run of the epoch
   that was being recorded when the save was requested, begins at a keyframe
   and ends with the newest packet of that moment: no gap after queue pressure
   or a storage failure, no packet of another epoch or session, nothing that
   arrived later (save_async: "seals and pins the selected files at the ordered
   command boundary"). *)
ClipsContiguous ==
  \A j \in Published :
    LET clip == jobs[j].data
        all  == jobs[j].wanted
    IN  /\ clip # <<>>
        /\ clip[1].key
        /\ Len(clip) <= Len(all)
        /\ clip = SubSeq(all, Len(all) - Len(clip) + 1, Len(all))

(* A clip from disk holds everything the requested interval can: it starts at
   the earliest keyframe of the epoch within it, as long as retention keeps a
   whole segment more than the interval. *)
DiskClipsComplete ==
  \A j \in Published :
    ~jobs[j].ram /\ jobs[j].request + MaxSegment <= Retained
      => jobs[j].data = Suffix(jobs[j].wanted, jobs[j].request)

\* What the disk history amounts to when no call is under way: the segments and
\* the packets behind them in the queue, from the last reset on, and what the
\* ring still holds for repair.
InQueue(q) ==
  LET resets  == {i \in 1..Len(q) : q[i].kind = "reset"}
      newest  == SelectSeq(SubSeq(q, IF resets = {} THEN 1 ELSE Max(resets), Len(q)),
                           LAMBDA c : c.kind = "packet")
      written == FlattenSeq([n \in 1..Len(index) |-> index[n].packets]) \o current
  IN  (IF resets = {} THEN written ELSE <<>>)
        \o [n \in 1..Len(newest) |-> newest[n].packet]

(* As long as disk history is offered, it is an unbroken run of the current
   epoch up to its newest packet, across segments, queue and repair backlog,
   whatever the queue refused meanwhile; only a backlog that the ring has lost
   is missing at the end, and then no save reaches the disk. *)
HistoryUnbroken ==
  LET history == InQueue(queue)
                   \o (IF pendingFrom = NoTimestamp THEN <<>> ELSE Backlog(ring))
      lost    == pendingFrom # NoTimestamp /\ Backlog(ring) = <<>>
  IN  owner = Idle /\ DiskAvailable /\ worker = "run" /\ ~lost
        => /\ Len(history) <= Len(encoded)
           /\ history = SubSeq(encoded, Len(encoded) - Len(history) + 1, Len(encoded))

(* While the worker runs, the index and the directory agree: no file escapes the
   retention accounting, none is planned that does not exist. *)
IndexMatchesDisk == worker = "run" => Range(index) = disk
===============================================================================
