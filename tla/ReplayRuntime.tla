----------------------------- MODULE ReplayRuntime -----------------------------
(***************************************************************************)
(* ProductionReplayRuntime (crates/redunar-daemon/src/replay_runtime.rs):  *)
(* the lifecycle of the recorder and of the one save it allows at a time.  *)
(* Four kinds of threads share its mutex: the export pump of a game        *)
(* session (game_session.rs) starts, feeds, resets and stops the recorder; *)
(* a user's save request; the status worker that waits for the clip and    *)
(* may fall back from disk to memory; and the supervisor that collects the *)
(* names of saved clips.  Each action is one critical section.             *)
(*                                                                         *)
(* The pipeline is reduced to what the runtime asks of it: whether disk    *)
(* history is available, whether the ring holds anything, and the codec    *)
(* epoch (ReplayHistory has the rest).                                     *)
(***************************************************************************)
EXTENDS Integers, Sequences, FiniteSets

CONSTANTS MaxNames,        \* MAX_COMMITTED_CLIP_NAMES
          MaxSaves,        \* bound: saves
          MaxEpochs        \* bound: codec epochs

ASSUME RuntimeAssumption ==
  MaxNames \in Nat \ {0} /\ MaxSaves \in Nat /\ MaxEpochs \in Nat

VARIABLES phase,           \* status.phase
          pipeline,        \* "none", "active", or "stuck": its backend would not stop
          disk,            \* disk history: "gone", "empty", "buffered" (a second or
                           \* more), or "stale": buffered, with a reset queued
          buffered,        \* the ring holds a decodable packet
          epoch,           \* history: number of the codec epoch
          stopping,
          handle,          \* save_worker: the save it tracks, or 0
          cancelFlag,      \* save_cancel: the job it belongs to
          cancelled,       \* the jobs whose flag is set
          threads,         \* the status workers
          pump,            \* where the export pump is
          joining,         \* the save the pump's shutdown waits for
          revision,        \* completed_save_revision
          names,           \* committed_clips
          saver,           \* history: the save that set the phase to Saving
          clips,           \* history: epoch of each durable clip, or 0
          announced,       \* history: saves counted by the revision
          discarded        \* history: a healthy recorder that a save discarded

recorder == <<pipeline, disk, buffered, epoch>>
saves    == <<handle, cancelFlag, cancelled, threads, saver, clips>>
news     == <<revision, names, announced>>
vars     == <<phase, recorder, stopping, saves, pump, joining, news, discarded>>

Saves == 1..MaxSaves

\* A worker waits for a job over packets of some epoch; the save asked for the
\* epoch of its request.
NoThread == [at |-> "none", asked |-> 0, epoch |-> 0, ok |-> FALSE]

Init ==
  /\ phase = "Inactive"
  /\ pipeline = "none"
  /\ disk = "gone"
  /\ buffered = FALSE
  /\ epoch = 0
  /\ stopping = FALSE
  /\ handle = 0
  /\ cancelFlag = <<0, "disk">>
  /\ cancelled = {}
  /\ threads = [s \in Saves |-> NoThread]
  /\ pump = "run"
  /\ joining = 0
  /\ revision = 0
  /\ names = <<>>
  /\ saver = 0
  /\ clips = [s \in Saves |-> 0]
  /\ announced = {}
  /\ discarded = FALSE

\* Variant of Finished that goes by the job instead of its worker.
JobFinished(s) == s # 0 => threads[s].at \in {"result", "done"}

\* A worker that has run is finished; none was started for 0.
Finished(s) == s # 0 => threads[s].at = "done"

\* mark_failed: the pipeline is shut down, and kept if its backend would not.
MarkFailed ==
  /\ phase' = "Failed"
  /\ IF pipeline = "none" THEN UNCHANGED pipeline ELSE pipeline' \in {"none", "stuck"}
  /\ disk' = "gone"
  /\ buffered' = FALSE
  /\ UNCHANGED epoch

-------------------------------------------------------------------------------
(* The export pump.                                                          *)

\* start_validated_pipeline, after reap_finished_save.
Start ==
  /\ pump = "run"
  /\ pipeline = "none"
  /\ phase # "Saving"
  /\ Finished(handle)
  /\ epoch < MaxEpochs
  /\ handle' = 0
  /\ phase' = "Buffering"
  /\ pipeline' = "active"
  /\ disk' = "empty"
  /\ buffered' = FALSE
  /\ epoch' = epoch + 1
  /\ stopping' = FALSE
  /\ UNCHANGED <<cancelFlag, cancelled, threads, saver, clips, pump, joining, news, discarded>>

\* A refused start, a lost source or a failed encoder: enter_replay_recovery.
EnterRecovery ==
  /\ pump = "run"
  /\ phase # "Failed"
  /\ MarkFailed
  /\ UNCHANGED <<stopping, saves, pump, joining, news, discarded>>

\* submit_frame; the spool's count follows the ring's at some distance.
SubmitFrame ==
  /\ pump = "run"
  /\ pipeline = "active"
  /\ buffered' = TRUE
  /\ disk' \in IF disk = "empty" THEN {"empty", "buffered"} ELSE {disk}
  /\ UNCHANGED <<phase, pipeline, epoch, stopping, saves, pump, joining, news, discarded>>

\* The spool fails under the pipeline, at any time.
StorageFails ==
  /\ pipeline = "active"
  /\ disk # "gone"
  /\ disk' = "gone"
  /\ UNCHANGED <<phase, pipeline, buffered, epoch, stopping, saves, pump, joining, news,
                 discarded>>

\* The spool's worker gets to the queued reset.
SpoolResets ==
  /\ pipeline = "active"
  /\ disk = "stale"
  /\ disk' = "empty"
  /\ UNCHANGED <<phase, pipeline, buffered, epoch, stopping, saves, pump, joining, news,
                 discarded>>

\* reset_backend: cancel the save, then replace the encoder.
ResetBackend ==
  /\ pump = "run"
  /\ pipeline = "active"
  /\ epoch < MaxEpochs
  /\ cancelled' = cancelled \cup {cancelFlag}
  /\ \/ /\ buffered' = FALSE
        /\ epoch' = epoch + 1
        /\ disk' = IF disk = "buffered" THEN "stale" ELSE disk
        /\ UNCHANGED <<phase, pipeline>>
     \/ MarkFailed
  /\ UNCHANGED <<stopping, handle, cancelFlag, threads, saver, clips, pump, joining, news,
                 discarded>>

\* shutdown, first section: no more saves, cancel the one under way.
BeginShutdown ==
  /\ pump = "run"
  /\ stopping' = TRUE
  /\ cancelled' = cancelled \cup {cancelFlag}
  /\ joining' = handle
  /\ handle' = 0
  /\ pump' = "join"
  /\ UNCHANGED <<phase, recorder, cancelFlag, threads, saver, clips, news, discarded>>

\* Join the worker without the lock, then stop the pipeline.
FinishShutdown ==
  /\ pump = "join"
  /\ Finished(joining)
  /\ joining' = 0
  /\ pump' = "ended"
  /\ disk' = "gone"
  /\ buffered' = FALSE
  /\ \/ pipeline # "stuck" /\ pipeline' = "none" /\ phase' = "Inactive"
     \/ pipeline # "none" /\ pipeline' = "stuck" /\ phase' = "Failed"
  /\ UNCHANGED <<epoch, stopping, saves, news, discarded>>

\* The next game session; configure_unavailable or configure_validation_candidate
\* renews the status of an idle runtime and keeps its revision.
NextSession ==
  /\ pump = "ended"
  /\ epoch < MaxEpochs
  /\ pump' = "run"
  /\ phase' = IF pipeline = "none" THEN "Inactive" ELSE phase
  /\ UNCHANGED <<recorder, stopping, saves, joining, news, discarded>>

-------------------------------------------------------------------------------
(* A save request and its status worker.                                     *)

\* Saves are numbered in the order they are made.
NextSave(s) ==
  threads[s].at = "none" /\ \A t \in Saves : t < s => threads[t].at # "none"

\* save: prepare_save hands the request to the disk or to the ring, and a
\* worker is started.  An encoder error while draining stops the recorder; the
\* spool's own refusals leave everything as it was.
Save ==
  \E s \in Saves :
      /\ NextSave(s)
      /\ ~stopping
      /\ Finished(handle)
      /\ phase = "Buffering"
      /\ pipeline = "active"
      /\ IF disk = "gone" THEN buffered ELSE disk # "empty"
      /\ \/ /\ phase' = "Saving"
            /\ handle' = s
            /\ cancelFlag' = <<s, "disk">>
            /\ threads' = [threads EXCEPT ![s] = [at |-> "first", asked |-> epoch,
                                                     epoch |-> epoch, ok |-> FALSE]]
            /\ saver' = s
            /\ UNCHANGED recorder
         \/ /\ MarkFailed
            /\ handle' = 0
            /\ UNCHANGED <<cancelFlag, threads, saver>>
      /\ UNCHANGED <<stopping, cancelled, clips, pump, joining, news, discarded>>

\* The job that s waits for ends: with a durable clip, or with an error.
JobEnds(s) ==
  /\ \/ threads[s].at = "first" /\ threads' = [threads EXCEPT ![s].at = "joined", ![s].ok = TRUE]
        /\ <<s, "disk">> \notin cancelled
        /\ clips' = [clips EXCEPT ![s] = threads[s].epoch]
     \/ threads[s].at = "first" /\ threads' = [threads EXCEPT ![s].at = "joined"]
        /\ UNCHANGED clips
     \/ threads[s].at = "fallback" /\ threads' = [threads EXCEPT ![s].at = "result", ![s].ok = TRUE]
        /\ <<s, "ram">> \notin cancelled
        /\ clips' = [clips EXCEPT ![s] = threads[s].epoch]
     \/ threads[s].at = "fallback" /\ threads' = [threads EXCEPT ![s].at = "result"]
        /\ UNCHANGED clips
  /\ UNCHANGED <<phase, recorder, stopping, handle, cancelFlag, cancelled, saver, pump,
                 joining, news, discarded>>

WantsFallback(s) ==
  /\ ~threads[s].ok
  /\ pipeline # "none"
  /\ disk = "gone"
  /\ phase = "Saving"
  /\ ~stopping

\* The worker's first section: prepare_ram_save when disk history is gone.  An
\* empty ring (NoEncodedFrames) is treated like an encoder that fails while it
\* is drained; a job that cannot be started leaves the recorder alone.
Fallback(s) ==
  /\ threads[s].at = "joined"
  /\ \/ /\ threads' = [threads EXCEPT ![s].at = "result"]
        /\ UNCHANGED <<phase, recorder, cancelFlag, discarded>>
     \/ /\ WantsFallback(s)
        /\ buffered
        /\ threads' = [threads EXCEPT ![s].at = "fallback", ![s].epoch = epoch]
        /\ cancelFlag' = <<s, "ram">>
        /\ UNCHANGED <<phase, recorder, discarded>>
     \/ /\ WantsFallback(s)
        /\ MarkFailed
        /\ threads' = [threads EXCEPT ![s].at = "result"]
        /\ discarded' = (discarded \/ ~buffered)
        /\ UNCHANGED cancelFlag
  /\ UNCHANGED <<stopping, handle, cancelled, saver, clips, pump, joining, news>>

\* Variant of PushName that drops the newest name when there is no room.
PushNameIfRoom(s) == names' = IF Len(names) >= MaxNames THEN names ELSE Append(names, s)

PushName(s) ==
  LET kept == IF Len(names) >= MaxNames THEN Tail(names) ELSE names
  IN  names' = Append(kept, s)

\* The worker's last section: only a save that is still the runtime's counts.
Complete(s) ==
  /\ threads[s].at = "result"
  /\ threads' = [threads EXCEPT ![s].at = "done"]
  /\ phase' = IF phase = "Saving" THEN "Buffering" ELSE phase
  /\ IF phase = "Saving" /\ threads[s].ok
       THEN /\ PushName(s)
            /\ revision' = revision + 1
            /\ announced' = announced \cup {s}
       ELSE UNCHANGED news
  /\ UNCHANGED <<recorder, stopping, handle, cancelFlag, cancelled, saver, clips, pump,
                 joining, discarded>>

\* take_committed_clip_names.
TakeNames ==
  /\ names # <<>>
  /\ names' = <<>>
  /\ UNCHANGED <<phase, recorder, stopping, saves, pump, joining, revision, announced,
                 discarded>>

\* Variant of SaveWorker under a shutdown that joins with the mutex held.
SaveWorkerLocked(s) == JobEnds(s) \/ (pump # "join" /\ (Fallback(s) \/ Complete(s)))

SaveWorker(s) == JobEnds(s) \/ Fallback(s) \/ Complete(s)

Next ==
  \/ Start
  \/ EnterRecovery
  \/ SubmitFrame
  \/ StorageFails
  \/ SpoolResets
  \/ ResetBackend
  \/ BeginShutdown
  \/ FinishShutdown
  \/ NextSession
  \/ Save
  \/ \E s \in Saves : SaveWorker(s)
  \/ TakeNames

Spec == Init /\ [][Next]_vars

(* A started worker runs to its end: its job checks its cancel flag and its  *)
(* five-second deadline between bounded operations.  A pump that began to    *)
(* shut down continues.  Nothing else has to happen.                         *)
Fairness ==
  /\ \A s \in Saves : WF_vars(SaveWorker(s))
  /\ WF_vars(FinishShutdown)

FairSpec == Spec /\ Fairness

-------------------------------------------------------------------------------
Live == {s \in Saves : threads[s].at \notin {"none", "done"}}

\* State shape.
TypeOK ==
  /\ phase \in {"Inactive", "Buffering", "Saving", "Failed"}
  /\ pipeline \in {"none", "active", "stuck"}
  /\ disk \in {"gone", "empty", "buffered", "stale"}
  /\ buffered \in BOOLEAN /\ stopping \in BOOLEAN /\ discarded \in BOOLEAN
  /\ epoch \in 0..MaxEpochs
  /\ handle \in 0..MaxSaves
  /\ joining \in 0..MaxSaves
  /\ saver \in 0..MaxSaves
  /\ threads \in [Saves -> [at : {"none", "first", "joined", "fallback", "result", "done"},
                            asked : 0..MaxEpochs, epoch : 0..MaxEpochs, ok : BOOLEAN]]
  /\ pump \in {"run", "join", "ended"}
  /\ revision \in Nat
  /\ names \in Seq(Saves) /\ Len(names) <= MaxNames
  /\ clips \in [Saves -> 0..MaxEpochs]
  /\ announced \subseteq Saves

(* At most one save is under way, and a runtime that shows Saving has a worker,
   the one of the save that set the phase, that will end it: no late completion
   of an earlier save, across failure, re-arm, reset and shutdown, can end a
   newer one ("replacing the pipeline would let a second save race the pending
   completion worker", start_validated_pipeline). *)
SavingOwned ==
  /\ Cardinality(Live) <= 1
  /\ Live \subseteq {handle, joining}
  /\ phase = "Saving" => saver \in Live /\ pipeline = "active"

(* Revision and names move together: each counted save has a durable clip, is
   counted once, and the names waiting for collection are the newest of them
   ("The save worker pushes under the same mutex that bumps the completed-save
   revision, so the two always move together", RuntimeState). *)
ClipsAnnounced ==
  /\ revision = Cardinality(announced)
  /\ \A s \in announced : clips[s] # 0
  /\ \A i \in 1..Len(names) :
       /\ names[i] \in announced
       /\ Cardinality({s \in announced : s >= names[i]}) = Len(names) - i + 1

(* A save ends: Saving is left, whatever the pump does meanwhile, and a shutdown
   that waits for it completes. *)
SaveEnds ==
  /\ phase = "Saving" ~> phase # "Saving"
  /\ pump = "join" ~> pump = "ended"

(* "A storage failure must not discard otherwise healthy rolling history or
   force the counter to zero" (the status worker in save). *)
SaveKeepsRecorder == ~discarded
===============================================================================
