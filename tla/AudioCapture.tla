---------------------------- MODULE AudioCapture ----------------------------
(***************************************************************************)
(* The two audio workers of a game session (game_session.rs,               *)
(* game_session/microphone.rs) over the recorders of the sound server      *)
(* (redunar-capture-audio): a worker discovers the routes, runs one        *)
(* recorder at a time, takes the next backend after a transport failure    *)
(* and follows the default device through the listings a watcher thread    *)
(* leaves in a channel of one.                                             *)
(*                                                                         *)
(* A route is a backend and a device.  A listing maps the backends that    *)
(* answered to the default device of that moment.  Only the parity of      *)
(* backend_attempt is ever used: there are two backends.                   *)
(***************************************************************************)
EXTENDS Integers, FiniteSets

CONSTANTS
    Kind,         \* "game" or "microphone": which of the two workers
    Devices,
    None,
    MayOmit,      \* whether a discovery may miss a backend that is there
    MaxSwitches,  \* bound: changes of the default device
    MaxFaults     \* bound: failures of the sound server and its recorders

Backends == {"PipeWire", "PulseAudio"}
Routes == [backend : Backends, device : Devices]
Listings == UNION {[B -> Devices] : B \in SUBSET Backends}

VARIABLES
    at,        \* the worker: "discover", "start", "run", "pause", "join", "ended"
    attempt,   \* backend_attempt % 2
    source,    \* the route chosen, or None
    received,  \* received_packet
    recorders, \* running recorders: [backend, device, ok]
    why,       \* why the last capture ended: "none", "route", "failed", "submit"
    routes,    \* the channel of one: a listing, or None
    watcher,   \* "wait", "send", "ended"
    seen,      \* the listing the watcher is about to send, or None
    stop,      \* the session's stop flag
    recorder,  \* the replay is Buffering or Saving
    default,   \* the default device
    broken,    \* backends whose recorder starts and delivers nothing
    switches, faults

worker == <<at, attempt, source, received, recorders, why>>
watch == <<watcher, seen>>
env == <<stop, recorder, default, broken, switches, faults>>
vars == <<at, attempt, source, received, recorders, why, routes, watcher, seen,
          stop, recorder, default, broken, switches, faults>>

Init ==
    /\ at = "discover" /\ attempt = 0 /\ source = None /\ received = FALSE
    /\ recorders = {} /\ why = "none" /\ routes = None /\ watcher = "wait"
    /\ seen = None /\ stop = FALSE /\ recorder = TRUE
    /\ default \in Devices /\ broken = {} /\ switches = 0 /\ faults = 0

Fault == faults < MaxFaults /\ faults' = faults + 1

-----------------------------------------------------------------------------
(* The sound server.                                                       *)

\* discover_output_monitor_node, discover_microphone_node: the named node, or the
\* only one; it never guesses between several.
NodeFor(name) ==
    CASE name # None -> name
      [] Cardinality(Devices) = 1 -> CHOOSE d \in Devices : TRUE
      [] OTHER -> None
\* A PulseAudio route needs the name alone.
RouteFor(b, name) == IF b = "PipeWire" THEN NodeFor(name) ELSE name

\* discover_system_audio_sources, discover_microphone_audio_sources_for: each
\* backend is asked for the name of the default device, and may not answer.
Listed(listing) ==
    \E name \in [Backends -> {default, None}] :
        /\ listing = [b \in {c \in Backends : RouteFor(c, name[c]) # None} |-> RouteFor(b, name[b])]
        /\ IF \E b \in Backends : name[b] = None THEN MayOmit /\ Fault ELSE UNCHANGED faults

SwitchDefault ==
    /\ switches < MaxSwitches /\ switches' = switches + 1
    /\ default' \in Devices \ {default}
    /\ UNCHANGED <<worker, routes, watch, stop, recorder, broken, faults>>

\* A backend that advertises a route but delivers nothing; the other still works.
Break(b) ==
    /\ broken = {} /\ Fault /\ broken' = {b}
    /\ UNCHANGED <<worker, routes, watch, stop, recorder, default, switches>>

RecorderExits ==
    /\ \E r \in recorders : r.ok /\ recorders' = (recorders \ {r}) \cup {[r EXCEPT !.ok = FALSE]}
    /\ Fault
    /\ UNCHANGED <<at, attempt, source, received, why, routes, watch, stop, recorder,
                   default, broken, switches>>

-----------------------------------------------------------------------------
(* The worker.                                                             *)

SeesStop == stop

\* sources[attempt % len], PipeWire first.
ChooseBackend(listing) ==
    CASE Cardinality(DOMAIN listing) = 1 -> CHOOSE b \in DOMAIN listing : TRUE
      [] attempt = 0 -> "PipeWire"
      [] OTHER -> "PulseAudio"

\* Nothing listed: it sleeps and asks again.
Discover ==
    /\ at = "discover" /\ ~SeesStop
    /\ \E listing \in Listings :
        /\ Listed(listing)
        /\ IF DOMAIN listing = {}
           THEN UNCHANGED <<at, source>>
           ELSE /\ source' = LET b == ChooseBackend(listing)
                             IN [backend |-> b, device |-> listing[b]]
                /\ at' = "start"
    /\ UNCHANGED <<attempt, received, recorders, why, routes, watch, stop, recorder,
                   default, broken, switches>>

\* AudioCaptureStream::start_command.
Start ==
    /\ at = "start"
    /\ at' = "run" /\ received' = FALSE
    /\ recorders' = recorders \cup {[backend |-> source.backend, device |-> source.device, ok |-> TRUE]}
    /\ UNCHANGED <<attempt, source, why, routes, watch, env>>
StartFails ==
    /\ at = "start" /\ Fault
    /\ attempt' = 1 - attempt /\ at' = "discover" /\ source' = None
    /\ UNCHANGED <<received, recorders, why, routes, watch, stop, recorder, default, broken, switches>>

\* game_audio_route_changed: the same backend names another device.  A variant
\* that never looks.
NoRouteSeen == FALSE
RouteChanged ==
    /\ routes # None /\ source.backend \in DOMAIN routes
    /\ routes[source.backend] # source.device

\* The capture of the loop's iteration ends.  The microphone drops its recorder
\* here, the game's worker when the iteration's scope ends, after the sleep.
HeldWhilePaused == IF Kind = "microphone" THEN {} ELSE recorders
Ends(reason) == at' = "pause" /\ why' = reason /\ recorders' = HeldWhilePaused
Goes == UNCHANGED <<at, why, recorders>>

Delivers == \E r \in recorders : r.ok /\ r.backend \notin broken

AttemptAfterPacket == IF Kind = "game" /\ ~received THEN 0 ELSE attempt

\* One packet: submitted, and the channel looked at.  A refused packet ends the
\* capture while the replay records, and is dropped while it does not.
Packet ==
    /\ at = "run" /\ ~SeesStop /\ Delivers
    /\ received' = TRUE
    /\ attempt' = AttemptAfterPacket
    /\ \/ /\ Kind = "game" /\ recorder /\ Fault
          /\ Ends("submit") /\ UNCHANGED routes
       \/ /\ UNCHANGED faults
          /\ routes' = None
          /\ IF RouteChanged THEN Ends("route") ELSE Goes
    /\ UNCHANGED <<source, watch, stop, recorder, default, broken, switches>>

\* Nothing within 100 ms; the channel is looked at all the same.
Quiet ==
    /\ at = "run" /\ ~SeesStop /\ routes # None
    /\ routes' = None
    /\ IF RouteChanged THEN Ends("route") ELSE Goes
    /\ UNCHANGED <<attempt, source, received, watch, env>>

NextAttempt == 1 - attempt
Failed ==
    /\ at = "run" /\ ~SeesStop /\ ~Delivers
    /\ Ends("failed") /\ attempt' = NextAttempt
    /\ UNCHANGED <<source, received, routes, watch, env>>

\* The iteration ends: Drop kills and reaps the recorder.  A variant that leaves it.
Leaked == recorders
Reaped == {}
Resume ==
    /\ at = "pause"
    /\ recorders' = Reaped /\ at' = "discover" /\ source' = None
    /\ UNCHANGED <<attempt, received, why, routes, watch, env>>

\* The loops see the stop flag; the watcher is joined.
Leave ==
    /\ SeesStop /\ at \in {"discover", "run"}
    /\ at' = "join" /\ recorders' = Reaped /\ source' = None
    /\ UNCHANGED <<attempt, received, why, routes, watch, env>>
Join ==
    /\ at = "join" /\ watcher = "ended" /\ at' = "ended"
    /\ UNCHANGED <<attempt, source, received, recorders, why, routes, watch, env>>

-----------------------------------------------------------------------------
(* The watcher: watch_game_audio_route, watch_route.                       *)

Look ==
    /\ watcher = "wait" /\ ~stop
    /\ \E listing \in Listings : Listed(listing) /\ seen' = listing
    /\ watcher' = "send"
    /\ UNCHANGED <<worker, routes, stop, recorder, default, broken, switches>>
Send ==
    /\ watcher = "send"
    /\ routes' = IF routes # None \/ (Kind = "game" /\ DOMAIN seen = {}) THEN routes ELSE seen
    /\ watcher' = "wait" /\ seen' = None
    /\ UNCHANGED <<worker, env>>
WatcherEnds ==
    /\ watcher = "wait" /\ stop /\ watcher' = "ended"
    /\ UNCHANGED <<worker, routes, seen, env>>

-----------------------------------------------------------------------------
(* The session.                                                            *)

StopSession ==
    /\ ~stop /\ stop' = TRUE
    /\ UNCHANGED <<worker, routes, watch, recorder, default, broken, switches, faults>>

\* The recorder fails, re-arms or is inactive meanwhile.
RecorderTurns ==
    /\ Fault /\ recorder' = ~recorder
    /\ UNCHANGED <<worker, routes, watch, stop, default, broken, switches>>

Done == at = "ended" /\ UNCHANGED vars

WorkerStep == Discover \/ Start \/ Packet \/ Quiet \/ Failed \/ Resume \/ Leave \/ Join
WatcherStep == Look \/ Send \/ WatcherEnds
Next ==
    \/ WorkerStep \/ WatcherStep \/ StartFails
    \/ SwitchDefault \/ (\E b \in Backends : Break(b)) \/ RecorderExits
    \/ StopSession \/ RecorderTurns \/ Done

\* Both threads are scheduled; a stall ends by its timeout.
Spec ==
    /\ Init /\ [][Next]_vars
    /\ WF_vars(Discover \/ Start \/ Resume \/ Leave \/ Join) /\ WF_vars(Packet \/ Failed)
    /\ WF_vars(WatcherStep)

-----------------------------------------------------------------------------
TypeOK ==
    /\ at \in {"discover", "start", "run", "pause", "join", "ended"} /\ attempt \in 0..1
    /\ source \in Routes \cup {None} /\ received \in BOOLEAN
    /\ recorders \subseteq [backend : Backends, device : Devices, ok : BOOLEAN]
    /\ why \in {"none", "route", "failed", "submit"}
    /\ routes \in Listings \cup {None} /\ seen \in Listings \cup {None}
    /\ watcher \in {"wait", "send", "ended"} /\ stop \in BOOLEAN /\ recorder \in BOOLEAN
    /\ default \in Devices /\ broken \subseteq Backends
    /\ switches \in 0..MaxSwitches /\ faults \in 0..MaxFaults

\* Two recorders never run at once, and none survives the worker: game_session.rs
\* drops a capture before it starts another ("Kill and reap the old helper before
\* starting any replacement").
OneRecorder ==
    /\ Cardinality(recorders) <= 1
    /\ at \in {"discover", "start", "join", "ended"} => recorders = {}

\* However routes change and backends fail, while one backend works the session
\* ends up recording the default device through it, unless it is stopped.
FollowsDefault ==
    []<>(stop \/ \E r \in recorders : r.ok /\ r.backend \notin broken /\ r.device = default)

\* A stopped session ends both threads.
StopEnds == stop ~> (at = "ended" /\ recorders = {})
=============================================================================
