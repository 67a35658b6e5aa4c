---------------------------- MODULE GameSession ----------------------------
(***************************************************************************)
(* One game session from launch to release: the session engine of the      *)
(* desktop shell (sessions.rs), the daemon's session coordinator            *)
(* (game_session.rs), the reconciliation of the launched process with the   *)
(* capture producer (capture_lifecycle.rs) and the attribution of clips.    *)
(*                                                                         *)
(* Every engine operation holds the engine mutex from start to end, but the *)
(* coordinator's own mutex is given up between its parts, so the status     *)
(* poll, the clip list, the save worker and the export pump run between     *)
(* them.  `eng' is the operation in progress and the part it has reached.   *)
(***************************************************************************)
EXTENDS Integers, Sequences, FiniteSets

CONSTANTS
  MaxSessions,  \* bound: launches in one run of the application
  MaxSaves,     \* bound: clips committed in one run
  MaxFaults,    \* bound: failures of the environment (spawn, scan, I/O, encoder)
  Owners,       \* kinds of launch: a child of the shell, one forwarded by a
                \* Steam helper, or a Steam process that asked to be attached
  Statuspoll,   \* the desktop polls the runtime status concurrently
  Cliplist      \* the desktop lists clips (and flushes attribution) concurrently

VARIABLES
  phase,     \* GameSessionStatus::phase
  game,      \* the published game: the number of its session, 0 for none
  comp,      \* the state of the capture components (metrics, overlay)
  cap,       \* the capture attached to the session, or "none"
  pump,      \* a replay export pump is attached
  rt,        \* ReplayPhase of the runtime
  pipeline,  \* "none", "live" or "stuck": an encoder whose shutdown failed is kept
  saving,    \* session whose clip a save worker is committing, 0 for none
  names,     \* committed clips not yet taken for attribution, with their session
  completed, \* completed_save_revision
  recorded,  \* recorded_save_revision
  noticed,   \* noticed_save_revision
  ledger,    \* <<session that recorded a clip, session it is attributed to>>
  active,    \* ActiveLaunch, or NoLaunch
  eng,       \* the engine operation in progress
  flush,     \* the attribution pass of the clip list
  poll,      \* a status poll that has read the runtime and not yet the capture
  world,     \* launched process, capture producer, game seen by the scanner, and
             \* whether the grace period and Steam's start-up window still run
  history,   \* number of history records of each session
  proven,    \* sessions whose game was confirmed to have run when they were stopped
  faults     \* environment failures so far

coordinator == <<phase, game, comp, cap, pump>>
clips == <<saving, names, completed, recorded, noticed, ledger>>
vars == <<coordinator, rt, pipeline, clips, active, eng, flush, poll, world,
          history, proven, faults>>

Sessions == 1 .. MaxSessions
NoLaunch == [session |-> 0]
Launch(n, own, capture) ==
  [session |-> n, own |-> own, capture |-> capture, seen |-> FALSE,
   confirmed |-> own = "direct", stopped |-> FALSE, completed |-> FALSE,
   written |-> FALSE, cleaned |-> FALSE]
Free == [op |-> "none", at |-> "free", rev |-> 0, name |-> 0, ok |-> TRUE]
NoFlush == [at |-> "off", rev |-> 0, name |-> 0]

Init ==
  /\ phase = "Idle" /\ game = 0 /\ comp = "Disabled" /\ cap = "none" /\ pump = FALSE
  /\ rt = "Unavailable" /\ pipeline = "none"
  /\ saving = 0 /\ names = <<>> /\ completed = 0 /\ recorded = 0 /\ noticed = 0 /\ ledger = {}
  /\ active = NoLaunch /\ eng = Free /\ flush = NoFlush /\ poll = FALSE
  /\ world = [proc |-> "none", producer |-> "none", visible |-> "never", grace |-> FALSE,
              window |-> FALSE]
  /\ history = [n \in Sessions |-> 0] /\ proven = {} /\ faults = 0

Fault == faults < MaxFaults /\ faults' = faults + 1
Goto(op, at) == eng' = [eng EXCEPT !.op = op, !.at = at]

----------------------------------------------------------------------------
(* Attribution.  One pass reads the revision, claims it together with the  *)
(* game's name under the coordinator's mutex, and takes the names after.   *)

FlushRead == eng.at = "flush" /\ eng' = [eng EXCEPT !.at = "claim", !.rev = completed]
             /\ UNCHANGED <<coordinator, rt, pipeline, clips, active, flush, poll, world, history, proven, faults>>

\* Where the engine continues after its attribution pass.
AfterFlush == CASE eng.op = "launch" -> "configure" [] eng.op = "tick" -> "observe"
                [] OTHER -> "mark"

Attributed(as) == ledger \cup {<<names[i], as>> : i \in {j \in 1 .. Len(names) : as # 0}}

FlushClaim ==
  /\ eng.at = "claim"
  /\ IF recorded >= eng.rev
     THEN eng' = [eng EXCEPT !.at = AfterFlush] /\ UNCHANGED recorded
     ELSE eng' = [eng EXCEPT !.at = "take", !.name = game] /\ recorded' = eng.rev
  /\ UNCHANGED <<coordinator, rt, pipeline, saving, names, completed, noticed, ledger, active,
                 flush, poll, world, history, proven, faults>>

FlushTake ==
  /\ eng.at = "take"
  /\ ledger' = Attributed(eng.name) /\ names' = <<>>
  /\ eng' = [eng EXCEPT !.at = AfterFlush]
  /\ UNCHANGED <<coordinator, rt, pipeline, saving, completed, recorded, noticed, active, flush,
                 poll, world, history, proven, faults>>

\* The clip list runs the same pass on its own thread.
ListClips ==
  /\ Cliplist
  /\ \/ /\ flush.at = "off" /\ completed > recorded
        /\ flush' = [at |-> "claim", rev |-> completed, name |-> 0]
        /\ UNCHANGED <<recorded, ledger, names>>
     \/ /\ flush.at = "claim" /\ recorded >= flush.rev
        /\ flush' = NoFlush /\ UNCHANGED <<recorded, ledger, names>>
     \/ /\ flush.at = "claim" /\ recorded < flush.rev
        /\ flush' = [flush EXCEPT !.at = "take", !.name = game] /\ recorded' = flush.rev
        /\ UNCHANGED <<ledger, names>>
     \/ /\ flush.at = "take" /\ flush' = NoFlush
        /\ ledger' = Attributed(flush.name) /\ names' = <<>> /\ UNCHANGED recorded
  /\ UNCHANGED <<coordinator, rt, pipeline, saving, completed, noticed, active, eng, poll, world,
                 history, proven, faults>>

----------------------------------------------------------------------------
(* Launch: the coordinator accepts the session before the game is spawned. *)

Idle == phase \in {"Idle", "Ended"}

\* ensure_idle.
StartLaunch ==
  /\ eng.at = "free" /\ active = NoLaunch /\ Idle /\ game < MaxSessions
  /\ Goto("launch", "flush")
  /\ UNCHANGED <<coordinator, rt, pipeline, clips, active, flush, poll, world, history, proven, faults>>

\* configure_*: an encoder that is still there keeps its status.
Configure ==
  /\ eng.at = "configure"
  /\ \E ready \in BOOLEAN : rt' = IF pipeline # "none" THEN rt
                                  ELSE IF ready THEN "Inactive" ELSE "Unavailable"
  /\ eng' = [eng EXCEPT !.at = "publish", !.rev = completed]
  /\ UNCHANGED <<coordinator, pipeline, clips, active, flush, poll, world, history, proven, faults>>

Publish ==
  /\ eng.at = "publish" /\ Idle
  /\ \E capture \in BOOLEAN :
       /\ cap' = IF capture THEN "Armed" ELSE "none"
       /\ comp' = IF capture THEN "Pending" ELSE "Unavailable"
  /\ recorded' = eng.rev /\ noticed' = eng.rev
  /\ game' = game + 1 /\ phase' = "Launching"
  /\ Goto("launch", "spawn")
  /\ UNCHANGED <<pump, rt, pipeline, saving, names, completed, ledger, active, flush, poll, world,
                 history, proven, faults>>

\* The game is spawned (or attached); recording is requested for a captured game.
Spawn ==
  /\ eng.at = "spawn"
  /\ \E own \in Owners : active' = Launch(game, own, cap # "none")
  /\ phase' = IF cap = "none" /\ active'.own = "direct" THEN "Running" ELSE phase
  /\ world' = [proc |-> "running", producer |-> "none", visible |-> "never", grace |-> TRUE,
               window |-> TRUE]
  /\ \/ pump' = (cap # "none" /\ rt # "Unavailable") /\ UNCHANGED <<rt, faults>>
     \/ cap # "none" /\ rt # "Unavailable" /\ Fault /\ rt' = "Failed" /\ pump' = FALSE
  /\ eng' = Free
  /\ UNCHANGED <<game, comp, cap, pipeline, clips, flush, poll, history, proven>>

SpawnFails ==
  /\ eng.at = "spawn" /\ Fault
  /\ Goto("abort", "flush")
  /\ UNCHANGED <<coordinator, rt, pipeline, clips, active, flush, poll, world, history, proven>>

----------------------------------------------------------------------------
(* Ending: mark, stop the pump without the mutex, release the capture.     *)

StopOptional(c) == IF c \in {"Pending", "Active"} THEN "Stopped" ELSE c

\* A snapshot decides the phase and the components, whatever they were.
Applied(c) ==
  /\ phase' = IF c = "Armed" THEN "Launching" ELSE "Running"
  /\ comp' = CASE c = "Armed" -> "Pending" [] c = "Capturing" -> "Active"
               [] c = "Completed" -> "Stopped" [] c = "Failed" -> "Failed"

\* finish() freezes a launch once, with a last snapshot; cleanup then always runs.
Freeze(a) ==
  /\ active' = IF a = NoLaunch THEN a ELSE [a EXCEPT !.stopped = TRUE]
  /\ proven' = IF a # NoLaunch /\ ~a.stopped /\ a.confirmed THEN proven \cup {a.session} ELSE proven
  /\ IF a # NoLaunch /\ ~a.stopped /\ a.capture /\ cap # "none"
     THEN Applied(cap) ELSE UNCHANGED <<phase, comp>>

\* can_end: what the End button asks.
CanEnd == active # NoLaunch /\ (~active.stopped \/ ~active.cleaned \/ ~active.written)

End ==
  /\ eng.at = "free" /\ CanEnd
  /\ Freeze(active) /\ Goto("end", "flush")
  /\ UNCHANGED <<game, cap, pump, rt, pipeline, clips, flush, poll, world, history, faults>>

\* end(): an ended session has nothing left to stop.
EndMark ==
  /\ eng.at = "mark"
  /\ IF Idle
     THEN /\ eng' = [eng EXCEPT !.at = IF eng.op = "abort" THEN "free" ELSE "record", !.ok = TRUE]
          /\ UNCHANGED <<phase, comp, pump>>
     ELSE /\ phase' = "Ending" /\ comp' = StopOptional(comp) /\ pump' = FALSE
          /\ Goto(eng.op, "join")
  /\ UNCHANGED <<game, cap, rt, pipeline, clips, active, flush, poll, world, history, proven, faults>>

\* ReplayRuntime::shutdown waits for the save worker; a failed encoder is kept.
Torn(ok) ==
  /\ saving = 0
  /\ pipeline' = IF pipeline = "none" THEN "none" ELSE IF ok THEN "none" ELSE "stuck"
  /\ rt' = IF pipeline' = "stuck" THEN "Failed"
           ELSE IF rt = "Unavailable" THEN rt ELSE "Inactive"

EndJoin ==
  /\ eng.at = "join"
  /\ \/ pipeline # "stuck" /\ Torn(TRUE) /\ UNCHANGED faults
        /\ eng' = [eng EXCEPT !.at = "release", !.ok = TRUE]
     \/ pipeline = "live" /\ Fault /\ Torn(FALSE) /\ eng' = [eng EXCEPT !.at = "release", !.ok = FALSE]
     \/ pipeline = "stuck" /\ Torn(FALSE) /\ UNCHANGED faults
        /\ eng' = [eng EXCEPT !.at = "release", !.ok = FALSE]
  /\ UNCHANGED <<coordinator, clips, active, flush, poll, world, history, proven>>

\* Variant of EndRelease: the capture is left attached.
EndReleaseNothing ==
  /\ eng.at = "release"
  /\ Goto(eng.op, "done")
  /\ UNCHANGED <<coordinator, rt, pipeline, clips, active, flush, poll, world, history, proven, faults>>

EndRelease ==
  /\ eng.at = "release"
  /\ cap' = "none" /\ Goto(eng.op, "done")
  /\ UNCHANGED <<phase, game, comp, pump, rt, pipeline, clips, active, flush, poll, world, history,
                 proven, faults>>

EndDone ==
  /\ eng.at = "done"
  /\ phase' = "Ended"
  /\ eng' = IF eng.op = "abort" THEN Free ELSE [eng EXCEPT !.at = "record"]
  /\ UNCHANGED <<game, comp, cap, pump, rt, pipeline, clips, active, flush, poll, world, history,
                 proven, faults>>

\* Whether the history of this launch needs no (further) record.
Written(a) == ~a.confirmed \/ a.written

\* The end of finish(): cleanup result, history record, release of a completed launch.
Settled(a) == IF a.cleaned /\ a.written /\ a.completed THEN NoLaunch ELSE a

Record ==
  /\ eng.at = "record" /\ eng' = Free
  /\ IF active = NoLaunch
     THEN UNCHANGED <<active, history, faults>>
     ELSE \/ /\ Written(active)
             /\ active' = Settled([active EXCEPT !.cleaned = eng.ok, !.written = TRUE])
             /\ UNCHANGED <<history, faults>>
          \/ /\ ~Written(active)
             /\ active' = Settled([active EXCEPT !.cleaned = eng.ok, !.written = TRUE])
             /\ history' = [history EXCEPT ![active.session] = @ + 1]
             /\ UNCHANGED faults
          \/ /\ ~Written(active) /\ Fault
             /\ active' = Settled([active EXCEPT !.cleaned = eng.ok])
             /\ UNCHANGED history
  /\ UNCHANGED <<coordinator, rt, pipeline, clips, flush, poll, world, proven>>

----------------------------------------------------------------------------
(* The supervisor's tick, once a second while a launch is active.          *)

Waiting(a) == a.stopped /\ (~a.cleaned \/ ~a.written)

Tick ==
  /\ eng.at = "free" /\ active # NoLaunch /\ ~Waiting(active)
  /\ IF active.capture /\ ~active.stopped
     THEN /\ Goto("tick", "flush")
          \* publish_replay_saved_notice: the notice of a committed save is shown once.
          /\ noticed' = IF cap # "none" /\ completed > noticed THEN completed ELSE noticed
     ELSE Goto("tick", "decide") /\ UNCHANGED noticed
  /\ UNCHANGED <<coordinator, rt, pipeline, saving, names, completed, recorded, ledger, active,
                 flush, poll, world, history, proven, faults>>

\* CaptureLaunchLifecycle::evaluate and the Steam activation clocks: whether the
\* capture is failed, and whether the launch may be released.
Evaluate(exited) ==
  LET late == world.producer # "alive" /\ cap # "Completed" /\ ~world.grace
      kept == world.producer = "alive" \/ (world.producer = "none" /\ cap # "Failed")
  IN [cap |-> IF cap # "Failed" /\ late THEN "Failed" ELSE cap,
      release |-> exited /\ (late \/ (~kept /\ cap \in {"Failed", "Completed"}))]

\* A Steam launch is decided by its activation, not by the forwarding helper.
HasExited == active.own # "direct" \/ world.proc = "exited"

Observe ==
  /\ eng.at = "observe"
  /\ LET d == Evaluate(HasExited)
     IN /\ cap' = d.cap /\ Applied(d.cap)
        /\ active' = [active EXCEPT !.confirmed = @ \/ world.producer # "none"]
        /\ eng' = [eng EXCEPT !.ok = d.release,
                     !.at = IF d.release /\ active.own # "direct" THEN "stop" ELSE "decide"]
  /\ UNCHANGED <<game, pump, rt, pipeline, clips, flush, poll, world, history, proven, faults>>

\* A direct child that cannot be waited for fails its capture and keeps the launch.
ObserveBlind ==
  /\ eng.at = "observe" /\ active.own = "direct" /\ Fault
  /\ cap' = (IF cap = "Completed" THEN cap ELSE "Failed") /\ Applied(cap')
  /\ active' = [active EXCEPT !.confirmed = @ \/ world.producer # "none"]
  /\ eng' = Free
  /\ UNCHANGED <<game, pump, rt, pipeline, clips, flush, poll, world, history, proven>>

\* stop_capture for a Steam game that outlives its capture: the pump is joined,
\* then the capture released.
StopCapture ==
  /\ \/ /\ eng.at = "stop" /\ pump' = FALSE /\ Goto("tick", "stopped")
        /\ UNCHANGED <<comp, cap, rt, pipeline, active, faults>>
     \/ /\ eng.at = "stopped" /\ cap' = "none" /\ comp' = StopOptional(comp)
        /\ \/ pipeline # "stuck" /\ Torn(TRUE) /\ UNCHANGED faults
           \/ pipeline = "live" /\ Fault /\ Torn(FALSE)
           \/ pipeline = "stuck" /\ Torn(FALSE) /\ UNCHANGED faults
        /\ active' = [active EXCEPT !.capture = FALSE]
        /\ Goto("tick", "decide") /\ UNCHANGED pump
  /\ UNCHANGED <<phase, game, clips, flush, poll, world, history, proven>>

\* forwarded_finished: a scan that sees the game confirms it; one that does not
\* ends the session once the game was seen or the start-up window is over, unless
\* the attached process still runs.
Seen(a) == IF a.own # "direct" /\ world.visible = "yes"
           THEN [a EXCEPT !.seen = TRUE, !.confirmed = TRUE] ELSE a
Finished(a) ==
  IF a.own = "direct"
  THEN IF a.capture /\ ~a.stopped THEN eng.ok ELSE world.proc = "exited"
  ELSE /\ world.visible # "yes" /\ ~(a.own = "attached" /\ world.proc = "running")
       /\ a.seen \/ ~world.window

\* mark_running, for a Steam game that was seen.
Marked(a) == IF a.seen /\ ~a.stopped /\ phase = "Launching" THEN "Running" ELSE phase

Decide ==
  /\ eng.at = "decide"
  /\ LET a == Seen(active)
     IN IF ~Finished(a)
        THEN active' = a /\ eng' = Free /\ phase' = Marked(a) /\ UNCHANGED <<comp, proven>>
        ELSE IF a.stopped
        THEN active' = NoLaunch /\ eng' = Free /\ UNCHANGED <<phase, comp, proven>>
        ELSE Freeze([a EXCEPT !.completed = TRUE]) /\ Goto("finish", "flush")
  /\ UNCHANGED <<game, cap, pump, rt, pipeline, clips, flush, poll, world, history, faults>>

\* The scan failed, or the process could not be read: nothing is concluded.
DecideBlind ==
  /\ eng.at = "decide" /\ Fault
  /\ eng' = Free /\ phase' \in {phase, Marked(active)}
  /\ UNCHANGED <<game, comp, cap, pump, rt, pipeline, clips, active, flush, poll, world, history,
                 proven>>

----------------------------------------------------------------------------
(* The other threads.                                                      *)

\* replay_runtime_status: reads the runtime, then refreshes from the capture.
PollStatus ==
  /\ Statuspoll
  /\ \/ ~poll /\ rt \in {"Unavailable", "Inactive"} /\ cap # "none" /\ poll' = TRUE
        /\ UNCHANGED <<phase, comp>>
     \/ poll /\ poll' = FALSE
        /\ IF cap = "none" THEN UNCHANGED <<phase, comp>> ELSE Applied(cap)
  /\ UNCHANGED <<game, cap, pump, rt, pipeline, clips, active, eng, flush, world, history, proven, faults>>

\* The export pump starts the recorder on the first frame and may lose it.
PumpRecords ==
  /\ pump /\ cap = "Capturing" /\ pipeline = "none" /\ rt \in {"Inactive", "Failed"}
  /\ pipeline' = "live" /\ rt' = "Buffering"
  /\ UNCHANGED <<coordinator, clips, active, eng, flush, poll, world, history, proven, faults>>

PumpFails ==
  /\ pipeline = "live" /\ rt = "Buffering" /\ Fault
  /\ pipeline' = "none" /\ rt' = "Failed"
  /\ UNCHANGED <<coordinator, clips, active, eng, flush, poll, world, history, proven>>

\* A runtime that is being shut down accepts no new save.
Save ==
  /\ rt = "Buffering" /\ saving = 0 /\ completed < MaxSaves
  /\ eng.at \notin {"join", "stopped"}
  /\ rt' = "Saving" /\ saving' = game
  /\ UNCHANGED <<coordinator, pipeline, names, completed, recorded, noticed, ledger, active, eng,
                 flush, poll, world, history, proven, faults>>

\* The worker commits the clip with its name and the revision in one step, or is cancelled.
SaveEnds ==
  /\ saving # 0 /\ saving' = 0 /\ rt' = "Buffering"
  /\ \/ completed' = completed + 1 /\ names' = Append(names, saving)
     \/ UNCHANGED <<completed, names>>
  /\ UNCHANGED <<coordinator, pipeline, recorded, noticed, ledger, active, eng, flush, poll, world,
                 history, proven, faults>>

\* The game: its launcher, the process that captures, and what a scan can see.
World ==
  /\ \/ world.proc = "running" /\ world' = [world EXCEPT !.proc = "exited"] /\ UNCHANGED cap
     \/ /\ world.producer = "none" /\ cap = "Armed"
        /\ world' = [world EXCEPT !.producer = "alive"] /\ cap' = "Capturing"
     \/ /\ world.producer = "alive"
        /\ world' = [world EXCEPT !.producer = "dead", !.grace = TRUE]
        /\ cap' \in (IF cap = "Capturing" THEN {"Capturing", "Completed"} ELSE {cap})
     \/ /\ active # NoLaunch /\ active.own # "direct"
        /\ \E v \in {<<"never", "yes">>, <<"yes", "gone">>} :
             world.visible = v[1] /\ world' = [world EXCEPT !.visible = v[2]]
        /\ UNCHANGED cap
  /\ UNCHANGED <<phase, game, comp, pump, rt, pipeline, clips, active, eng, flush, poll, history,
                 proven, faults>>

\* ARMED_STARTUP_GRACE, PRODUCER_EXIT_GRACE, the activation's lifetime; STEAM_START_TIMEOUT.
TimePasses ==
  /\ \/ world.grace /\ world' = [world EXCEPT !.grace = FALSE]
     \/ world.window /\ ~world.grace /\ world' = [world EXCEPT !.window = FALSE]
  /\ UNCHANGED <<coordinator, rt, pipeline, clips, active, eng, flush, poll, history, proven, faults>>

Engine == \/ FlushRead \/ FlushClaim \/ FlushTake \/ Configure \/ Publish \/ Spawn
          \/ EndMark \/ EndJoin \/ EndRelease \/ EndDone \/ Record \/ Observe \/ StopCapture
          \/ Decide
Next == \/ Engine \/ StartLaunch \/ End \/ Tick \/ SpawnFails \/ ObserveBlind
        \/ DecideBlind \/ TimePasses \/ ListClips
        \/ PollStatus \/ PumpRecords \/ PumpFails \/ Save \/ SaveEnds \/ World

\* The supervisor wakes every second, each engine operation runs to its end, a save
\* worker finishes and clocks advance.  Nothing makes the game exit.
Spec == /\ Init /\ [][Next]_vars
        /\ WF_vars(Engine) /\ WF_vars(Tick) /\ WF_vars(SaveEnds) /\ WF_vars(TimePasses)

----------------------------------------------------------------------------
Phases == {"Idle", "Launching", "Running", "Ending", "Ended"}

\* Every variable has its type; a launch is active only for the published session.
TypeOK ==
  /\ phase \in Phases /\ game \in 0 .. MaxSessions /\ pump \in BOOLEAN
  /\ comp \in {"Disabled", "Pending", "Active", "Stopped", "Failed", "Unavailable"}
  /\ cap \in {"none", "Armed", "Capturing", "Completed", "Failed"}
  /\ rt \in {"Unavailable", "Inactive", "Buffering", "Saving", "Failed"}
  /\ pipeline \in {"none", "live", "stuck"} /\ saving \in 0 .. MaxSessions
  /\ completed \in 0 .. MaxSaves /\ recorded \in 0 .. completed /\ noticed \in 0 .. completed
  /\ active.session \in {0, game} /\ faults \in 0 .. MaxFaults

\* A session whose game was confirmed is written to the history exactly once before it
\* is released, over failed writes, failed cleanups and repeated End requests, and one
\* whose game was never confirmed is not written (finish, record_session).
HistoryOnce ==
  \A n \in Sessions :
    /\ history[n] = 1 => n \in proven
    /\ history[n] \in {0, 1}
    /\ n \in proven /\ active.session # n => history[n] = 1

\* Every clip is attributed to the game that recorded it, also one that a save commits
\* while its session is being shut down (flush_completed_clip_attribution, begin).
ClipsOfTheirGame == \A p \in ledger : p[1] = p[2]

\* When an engine operation leaves the session ended, nothing of it still runs: no pump,
\* no attached capture, no save worker, no live encoder (end, stop_capture).
EndedClean ==
  eng.at = "free" /\ Idle => cap = "none" /\ ~pump /\ saving = 0 /\ pipeline # "live"
=============================================================================
