-------------------------- MODULE DesktopLifecycle --------------------------
(***************************************************************************)
(* When the desktop application's window may be hidden and when the        *)
(* process may end by itself.                                              *)
(*                                                                         *)
(*   background_start.rs    who owns the foreground: an application that   *)
(*                          Steam started, or whose window was closed      *)
(*                          during a game, leaves when the game has ended; *)
(*                          any use of the window retains it               *)
(*   window_lifecycle.rs    a close during a game parks the window in the  *)
(*                          tray under a ticket                            *)
(*   session_lifecycle.rs   completion events of the session engine        *)
(*   tray.rs                the tray item, temporary or by preference      *)
(*   update_restart.rs      a restart after an update                      *)
(*   main.rs                close requests, exit requests, the exit        *)
(*                                                                         *)
(* Everything of the window runs on GTK's main thread, one task at a time; *)
(* the supervisor and the Steam broker change the engine, under its lock,  *)
(* between any two reads a task makes.  Whether the item is listed is      *)
(* TrayWatcher's subject: here it may come and go, and its loss queues a   *)
(* Recover.                                                                *)
(***************************************************************************)
EXTENDS Integers, FiniteSets, TLAPS

CONSTANTS
    MaxGames,     \* bound: games started
    MaxRequests,  \* bound: what the user does
    MaxFaults,    \* bound: failures
    Faults,       \* which: "tray", "lost", "cleanup", "input", "prefs"
    Prefs         \* initial values of Close to tray

ASSUME DesktopLifecycleAssumption ==
    /\ {MaxGames, MaxRequests, MaxFaults} \subseteq Nat
    /\ Faults \subseteq {"tray", "lost", "cleanup", "input", "prefs"}
    /\ Prefs \subseteq BOOLEAN /\ Prefs # {}

VARIABLES
    app,      \* "starting", "running", "exited"
    own,      \* background_start::Ownership
    win,      \* the main window: "shown", "hidden", "gone"
    pref,     \* Close to tray
    tray,     \* [item, reg]: the item runs, it is listed
    engine,   \* [game, gen, finished, event, shutdown]
    main,     \* the task the main thread is in
    tasks,    \* tasks queued for it
    timers,   \* timeouts it will run: tickets of closes, 0 for the start
    restart,  \* UpdateRestart's flag
    count     \* [requests, faults]

vars == <<app, own, win, pref, tray, engine, main, tasks, timers, restart, count>>

\* main.at: "idle", or the next part of begin_close and finish_close
Idle == [at |-> "idle", ticket |-> 0, gen |-> 0, call |-> "none"]

\* Tasks.  Completion events carry their generation.
Show == [k |-> "show", gen |-> 0]
Close == [k |-> "close", gen |-> 0]
Exit(why) == [k |-> why, gen |-> 0]
Exits == {"auto", "update", "quit"}

Init ==
    /\ app = "starting"
    /\ \E background \in BOOLEAN :
        /\ own = [auto |-> background, retained |-> FALSE, next |-> 0, pending |-> 0]
        /\ win = IF background THEN "hidden" ELSE "shown"
    /\ pref \in Prefs
    /\ tray = [item |-> FALSE, reg |-> FALSE]
    /\ engine = [game |-> "none", gen |-> 0, finished |-> FALSE,
                 event |-> "none", shutdown |-> FALSE]
    /\ main = Idle
    /\ tasks = {} /\ timers = {}
    /\ restart = FALSE
    /\ count = [requests |-> 0, faults |-> 0]

-----------------------------------------------------------------------------
(* Operators.                                                              *)

MayAutoExit(o) == o.auto /\ ~o.retained

\* State::retain.
Retained(o) == [o EXCEPT !.retained = TRUE, !.pending = 0]

\* has_live_game: a session whose cleanup failed before the game's end
\* ("stuck") still has one; only a retry goes on with it.
HasLiveGame == engine.game \in {"live", "stuck"}
NoTray == [item |-> FALSE, reg |-> FALSE]

\* A failure of kind f may happen; spent is the count when it does.
MayFail(f) == f \in Faults /\ count.faults < MaxFaults
Spent == [count EXCEPT !.faults = @ + 1]
Asked == [count EXCEPT !.requests = @ + 1]
MayAsk == app = "running" /\ count.requests < MaxRequests

\* remove_if_disabled and the map observer: with a window on the screen the
\* preference owns the item again, unless a close is pending.
KeptTray(t, o, w) ==
    IF ~pref /\ o.pending = 0 /\ w = "shown" THEN NoTray ELSE t

\* tray::show_window; a window that was destroyed cannot be shown.
ShowWindow ==
    /\ own' = Retained(own)
    /\ win' = IF win = "gone" THEN "gone" ELSE "shown"
    /\ tray' = KeptTray(tray, own', win')

\* tray::set_enabled(true).
Enabled(t) == IF t.item THEN t ELSE [item |-> TRUE, reg |-> FALSE]

-----------------------------------------------------------------------------
(* Startup.                                                                *)

\* tray::setup and prepare_window or track_window_input, in main's setup.
\* trayFails: no item can be made; inputFails: input cannot be observed.
Setup(trayFails, inputFails) ==
    /\ app = "starting"
    /\ trayFails => MayFail("tray") /\ (pref \/ win = "hidden")
    /\ inputFails => MayFail("input")
    /\ ~(trayFails /\ inputFails)
    /\ count' = IF trayFails \/ inputFails THEN Spent ELSE count
    /\ app' = "running"
    /\ LET hiding == win = "hidden"
           first == IF inputFails \/ (trayFails /\ pref /\ ~MayAutoExit(own))
                    THEN Retained(own) ELSE own
       IN  /\ own' = first
           /\ tray' = IF (pref \/ hiding) /\ ~trayFails THEN Enabled(tray)
                      ELSE tray
           /\ win' = IF trayFails THEN "shown" ELSE win
           /\ timers' = IF hiding /\ ~trayFails THEN {0} ELSE {}
    /\ UNCHANGED <<pref, engine, main, tasks, restart>>

\* The check one second after a hidden start.
StartTimer ==
    /\ main = Idle /\ 0 \in timers /\ app = "running"
    /\ timers' = timers \ {0}
    /\ IF ~tray.reg /\ win = "hidden"
       THEN win' = "shown" /\ tray' = KeptTray(tray, own, "shown")
       ELSE UNCHANGED <<win, tray>>
    /\ UNCHANGED <<app, own, pref, engine, main, tasks, restart, count>>

-----------------------------------------------------------------------------
(* The session engine.                                                     *)

StartGame ==
    /\ app = "running" /\ engine.game = "none" /\ ~engine.shutdown
    /\ engine.gen < MaxGames
    /\ engine' = [engine EXCEPT !.game = "live", !.gen = @ + 1,
                                !.finished = FALSE, !.event = "none"]
    /\ UNCHANGED <<app, own, win, pref, tray, main, tasks, timers, restart, count>>

\* tick sees the game's end: it is cleaned up, or the cleanup fails.
GameEnds(fails) ==
    /\ engine.game = "live" /\ ~engine.shutdown
    /\ fails => MayFail("cleanup")
    /\ count' = IF fails THEN Spent ELSE count
    /\ engine' = IF fails
                 THEN [engine EXCEPT !.game = "failed", !.finished = FALSE,
                                     !.event = "attention"]
                 ELSE [engine EXCEPT !.game = "none", !.finished = TRUE,
                                     !.event = "finished"]
    /\ UNCHANGED <<app, own, win, pref, tray, main, tasks, timers, restart>>

\* The user retries a failed cleanup.
EndSession ==
    /\ MayAsk /\ win = "shown" /\ engine.game \in {"failed", "stuck"}
    /\ engine' = IF engine.game = "stuck" THEN [engine EXCEPT !.game = "live"]
                 ELSE [engine EXCEPT !.game = "none", !.finished = TRUE,
                                     !.event = "finished"]
    /\ own' = Retained(own) /\ count' = Asked
    /\ UNCHANGED <<app, win, pref, tray, main, tasks, timers, restart>>

\* The supervisor hands its event to the main thread, without waiting.
Notify ==
    /\ app = "running" /\ engine.event # "none" /\ ~engine.shutdown
    /\ tasks' = tasks \cup {[k |-> engine.event, gen |-> engine.gen]}
    /\ engine' = [engine EXCEPT !.event = "none"]
    /\ UNCHANGED <<app, own, win, pref, tray, main, timers, restart, count>>

-----------------------------------------------------------------------------
(* Tasks of the main thread.                                               *)

Take(t) == main = Idle /\ app = "running" /\ t \in tasks

RunShow ==
    /\ Take(Show)
    /\ ShowWindow
    /\ tasks' = tasks \ {Show}
    /\ UNCHANGED <<app, pref, engine, main, timers, restart, count>>

\* prepare_background_exit.  A variant that does not claim the shutdown.
PreparedUnclaimed(gen) ==
    [yes |-> engine.game = "none" /\ ~engine.shutdown /\ engine.finished
             /\ engine.gen = gen /\ ~pref,
     engine |-> engine]
Prepared(gen) ==
    LET yes == engine.game = "none" /\ ~engine.shutdown /\ engine.finished
               /\ engine.gen = gen /\ ~pref
    IN  [yes |-> yes, engine |-> [engine EXCEPT !.shutdown = @ \/ yes]]

\* handle_event: a first read of the engine ...
RunEvent(t) ==
    /\ Take(t) /\ t.k \in {"finished", "attention"}
    /\ tasks' = tasks \ {t}
    /\ main' = IF MayAutoExit(own) /\ engine.gen = t.gen
               THEN [Idle EXCEPT !.at = t.k, !.gen = t.gen] ELSE Idle
    /\ UNCHANGED <<app, own, win, pref, tray, engine, timers, restart, count>>

Attention ==
    /\ main.at = "attention"
    /\ IF engine.gen = main.gen /\ engine.game \in {"failed", "stuck"}
       THEN ShowWindow ELSE UNCHANGED <<own, win, tray>>
    /\ main' = Idle
    /\ UNCHANGED <<app, pref, engine, tasks, timers, restart, count>>

\* prepare_background_exit and its outcome; prefsFail: the preference cannot
\* be read.  Inside settle_closed_game the task goes on.
Finished(prefsFail) ==
    /\ main.at = "finished"
    /\ prefsFail => MayFail("prefs") /\ engine.game = "none" /\ ~engine.shutdown
                    /\ engine.finished /\ engine.gen = main.gen
    /\ count' = IF prefsFail THEN Spent ELSE count
    /\ LET ready == Prepared(main.gen)
       IN  IF prefsFail
           THEN ShowWindow /\ UNCHANGED <<engine, tasks>>
           ELSE /\ engine' = ready.engine
                /\ tasks' = IF ready.yes THEN tasks \cup {Exit("auto")} ELSE tasks
                /\ UNCHANGED <<own, win, tray>>
    /\ main' = IF main.call = "none" THEN Idle ELSE [main EXCEPT !.at = "settled"]
    /\ UNCHANGED <<app, pref, timers, restart>>

\* begin_close takes a ticket ...
RunClose ==
    /\ Take(Close)
    /\ tasks' = tasks \ {Close}
    /\ own' = [own EXCEPT !.auto = TRUE, !.retained = FALSE, !.next = @ + 1,
                          !.pending = own.next + 1]
    /\ main' = [Idle EXCEPT !.at = "settle", !.ticket = own.next + 1,
                            !.call = "begin"]
    /\ UNCHANGED <<app, win, pref, tray, engine, timers, restart, count>>

\* ... and finish_close is run by its timer.
CloseTimer(t) ==
    /\ main = Idle /\ app = "running" /\ t \in timers \ {0}
    /\ timers' = timers \ {t}
    /\ main' = IF own.pending = t
               THEN [Idle EXCEPT !.at = "settle", !.ticket = t, !.call = "finish"]
               ELSE Idle
    /\ UNCHANGED <<app, own, win, pref, tray, engine, tasks, restart, count>>

\* settle_closed_game: the engine is read, then the preference.
Settle(prefsFail) ==
    /\ main.at = "settle"
    /\ prefsFail => MayFail("prefs") /\ engine.game = "none"
    /\ count' = IF prefsFail THEN Spent ELSE count
    /\ IF engine.game = "failed" \/ prefsFail
          \/ (engine.game = "none" /\ ~pref /\ ~engine.finished)
       THEN ShowWindow /\ main' = Idle
       ELSE /\ UNCHANGED <<own, win, tray>>
            /\ main' = IF HasLiveGame \/ pref
                       THEN [main EXCEPT !.at = main.call]
                       ELSE [main EXCEPT !.at = "decide", !.gen = engine.gen]
    /\ UNCHANGED <<app, pref, engine, tasks, timers, restart>>

\* handle_event inside it, and the last look for a newer game.  A variant that
\* leaves a game that ended before its ticket to the event it missed.
DecideNever ==
    /\ main.at = "decide" /\ main' = [main EXCEPT !.at = "settled"]
    /\ UNCHANGED <<app, own, win, pref, tray, engine, tasks, timers, restart, count>>
Decide ==
    /\ main.at = "decide"
    /\ main' = IF MayAutoExit(own) /\ engine.gen = main.gen
               THEN [main EXCEPT !.at = "finished"]
               ELSE [main EXCEPT !.at = "settled"]
    /\ UNCHANGED <<app, own, win, pref, tray, engine, tasks, timers, restart, count>>
Settled ==
    /\ main.at = "settled"
    /\ main' = IF HasLiveGame THEN [main EXCEPT !.at = main.call] ELSE Idle
    /\ UNCHANGED <<app, own, win, pref, tray, engine, tasks, timers, restart, count>>

\* The rest of begin_close: a tray item, and a second for it to be listed.
BeginClose(trayFails) ==
    /\ main.at = "begin"
    /\ trayFails => MayFail("tray") /\ ~tray.item
    /\ count' = IF trayFails THEN Spent ELSE count
    /\ IF trayFails
       THEN ShowWindow /\ main' = Idle /\ UNCHANGED timers
       ELSE /\ UNCHANGED <<own, win>>
            /\ tray' = Enabled(tray)
            /\ IF tray'.reg
               THEN main' = [main EXCEPT !.at = "settle", !.call = "finish"]
                    /\ UNCHANGED timers
               ELSE main' = Idle /\ timers' = timers \cup {main.ticket}
    /\ UNCHANGED <<app, pref, engine, tasks, restart>>

FinishClose ==
    /\ main.at = "finish"
    /\ IF tray.reg
       THEN win' = "hidden" /\ own' = [own EXCEPT !.pending = 0] /\ UNCHANGED tray
       ELSE ShowWindow
    /\ main' = Idle
    /\ UNCHANGED <<app, pref, engine, tasks, timers, restart, count>>

Released(e) == [e EXCEPT !.shutdown = FALSE]
RunExit(why, fails) ==
    /\ Take(Exit(why))
    /\ fails => MayFail("cleanup") /\ engine.game # "none"
    /\ count' = IF fails THEN Spent ELSE count
    /\ tasks' = tasks \ {Exit(why)}
    /\ IF fails
       THEN /\ engine' = Released([engine EXCEPT !.shutdown = TRUE,
                  !.event = "attention", !.finished = FALSE,
                  !.game = IF HasLiveGame THEN "stuck" ELSE "failed"])
            /\ ShowWindow
            /\ restart' = FALSE
            /\ UNCHANGED app
       ELSE /\ engine' = [engine EXCEPT !.shutdown = TRUE]
            /\ app' = "exited"
            /\ UNCHANGED <<own, win, tray, restart>>
    /\ UNCHANGED <<pref, main, timers>>

-----------------------------------------------------------------------------
(* The user and the desktop.                                               *)

\* A click or a key in the window.
Input ==
    /\ MayAsk /\ main = Idle /\ win = "shown"
    /\ own' = Retained(own) /\ count' = Asked
    /\ UNCHANGED <<app, win, pref, tray, engine, main, tasks, timers, restart>>

\* Open of the tray's item, or a second start of Redunar.
Open ==
    /\ MayAsk
    /\ tasks' = tasks \cup {Show} /\ count' = Asked
    /\ UNCHANGED <<app, own, win, pref, tray, engine, main, timers, restart>>

Quit ==
    /\ MayAsk /\ tray.reg
    /\ tasks' = tasks \cup {Exit("quit")} /\ count' = Asked
    /\ UNCHANGED <<app, own, win, pref, tray, engine, main, timers, restart>>

\* restart_redunar, after an installed update: claim_update_restart needs an
\* idle engine.
RestartUpdate ==
    /\ MayAsk /\ win = "shown" /\ engine.game = "none" /\ ~engine.shutdown
    /\ engine' = [engine EXCEPT !.shutdown = TRUE]
    /\ restart' = TRUE /\ own' = Retained(own)
    /\ tasks' = tasks \cup {Exit("update")} /\ count' = Asked
    /\ UNCHANGED <<app, win, pref, tray, main, timers>>

\* set_close_to_tray: clicked in the window; the item comes first.
SetCloseToTray(trayFails) ==
    /\ MayAsk /\ main = Idle /\ win = "shown"
    /\ trayFails => MayFail("tray") /\ ~pref /\ ~tray.item
    /\ count' = [Asked EXCEPT !.faults = IF trayFails THEN @ + 1 ELSE @]
    /\ own' = Retained(own)
    /\ pref' = IF trayFails THEN pref ELSE ~pref
    /\ tray' = IF trayFails THEN tray ELSE IF pref THEN NoTray ELSE Enabled(tray)
    /\ UNCHANGED <<app, win, engine, main, tasks, timers, restart>>

\* CloseRequested: during a game the window is parked by a later task; with
\* Close to tray it is hidden; otherwise it is destroyed, which requests the
\* exit.
CloseRequested ==
    /\ MayAsk /\ main = Idle /\ win = "shown"
    /\ count' = Asked
    /\ IF HasLiveGame
       THEN tasks' = tasks \cup {Close} /\ UNCHANGED win
       ELSE IF pref /\ tray.reg THEN win' = "hidden" /\ UNCHANGED tasks
       ELSE win' = "gone" /\ tasks' = tasks \cup {Exit("quit")}
    /\ UNCHANGED <<app, own, pref, tray, engine, main, timers, restart>>

\* The desktop lists the item, or drops it; the tray then asks for the window.
TrayListed ==
    /\ app = "running" /\ tray.item /\ ~tray.reg
    /\ tray' = [tray EXCEPT !.reg = TRUE]
    /\ UNCHANGED <<app, own, win, pref, engine, main, tasks, timers, restart, count>>
TrayLost ==
    /\ app = "running" /\ tray.reg /\ MayFail("lost")
    /\ tray' = [tray EXCEPT !.reg = FALSE]
    /\ tasks' = tasks \cup {Show} /\ count' = Spent
    /\ UNCHANGED <<app, own, win, pref, engine, main, timers, restart>>

Task ==
    \/ RunShow \/ RunClose \/ Attention \/ Decide \/ Settled \/ FinishClose
    \/ \E t \in tasks : RunEvent(t)
    \/ \E t \in timers : CloseTimer(t)
    \/ \E b \in BOOLEAN : Finished(b) \/ Settle(b) \/ BeginClose(b)
    \/ \E b \in BOOLEAN, why \in Exits : RunExit(why, b)
    \/ StartTimer

Next ==
    \/ \E a, b \in BOOLEAN : Setup(a, b)
    \/ StartGame \/ EndSession \/ Notify \/ Task
    \/ \E b \in BOOLEAN : GameEnds(b) \/ SetCloseToTray(b)
    \/ Input \/ Open \/ Quit \/ RestartUpdate \/ CloseRequested
    \/ TrayListed \/ TrayLost

\* The main loop runs what is queued and due, the supervisor delivers.
Spec == Init /\ [][Next]_vars /\ WF_vars(Task) /\ WF_vars(Notify)

-----------------------------------------------------------------------------
(* Properties.                                                             *)

TypeOK ==
    /\ app \in {"starting", "running", "exited"}
    /\ win \in {"shown", "hidden", "gone"}
    /\ pref \in BOOLEAN /\ restart \in BOOLEAN
    /\ tray.reg => tray.item
    /\ own.pending \in 0..own.next
    /\ engine.game \in {"none", "live", "stuck", "failed"}
    /\ engine.event = "finished" => engine.finished
    /\ timers \subseteq 0..own.next

\* A hidden window has a way back: a listed item, or a queued task or timer
\* that shows it (tray.rs: "Recover the user's way back before removing the
\* connection/icon").
Reachable ==
    app = "running" /\ win = "hidden" =>
        tray.reg \/ Show \in tasks \/ 0 \in timers

\* An exit nobody asked for never ends a game: the claim of the shutdown and
\* the launch of a newer game take the same lock (sessions.rs,
\* prepare_background_exit).
AutoExitIdle ==
    (tasks \cap {Exit("auto"), Exit("update")} # {}) => engine.game = "none"

\* A claim of the shutdown ends with the exit it was made for, or is taken
\* back: it never leaves an application that starts no game.
ClaimReleased ==
    engine.shutdown /\ app = "running" =>
        tasks \cap {Exit("auto"), Exit("update"), Exit("quit")} # {}

\* The four together: the application can always be reached, and it ends by
\* itself only when no game needs it (session_lifecycle.rs, tray.rs).
ApplicationReachable == TypeOK /\ Reachable /\ AutoExitIdle /\ ClaimReleased

\* An application that only waited for its game leaves once the game is over,
\* unless its window is used again or a newer game starts (DESIGN.md: "an
\* automatically started instance exits after game exit").
Waits ==
    /\ app = "running" /\ MayAutoExit(own) /\ ~pref
    /\ engine.game = "none" /\ engine.finished
OwnerLeaves == Waits ~> ~Waits

-----------------------------------------------------------------------------
(* Proofs: ApplicationReachable for any number of games, requests and      *)
(* faults.  Reachable and ClaimReleased are inductive given the types;     *)
(* AutoExitIdle needs to know that the exits it speaks of hold the claim   *)
(* of the shutdown, which is what keeps a newer game from starting.        *)

Ownerships == [auto : BOOLEAN, retained : BOOLEAN, next : Nat, pending : Nat]
Trays == [item : BOOLEAN, reg : BOOLEAN]
Engines ==
    [game : {"none", "live", "stuck", "failed"}, gen : Nat, finished : BOOLEAN,
     event : {"none", "finished", "attention"}, shutdown : BOOLEAN]
Places == {"idle", "attention", "finished", "settle", "decide", "settled", "begin",
           "finish", "none"}
Mains == [at : Places, ticket : Nat, gen : Nat, call : Places]

Typed ==
    /\ app \in {"starting", "running", "exited"}
    /\ win \in {"shown", "hidden", "gone"}
    /\ pref \in BOOLEAN /\ restart \in BOOLEAN
    /\ own \in Ownerships /\ tray \in Trays /\ engine \in Engines /\ main \in Mains
Tickets ==
    /\ own.pending <= own.next /\ main.ticket <= own.next
    /\ timers \subseteq 0..own.next
Listed == tray.reg => tray.item
EventTrue == engine.event = "finished" => engine.finished
Starting == app = "starting" => main = Idle /\ ~engine.shutdown
Claiming ==
    tasks \cap {Exit("auto"), Exit("update")} # {} => engine.game = "none" /\ engine.shutdown

DInv ==
    Typed /\ Tickets /\ Listed /\ EventTrue /\ Starting /\ Reachable /\ Claiming /\ ClaimReleased

(* What a step may do to the ownership: nothing, retain it, take a ticket for a
   close, or end the close that was pending. *)
LEMMA OwnSteps ==
    ASSUME Next
    PROVE  \/ own' = own
           \/ own' = Retained(own)
           \/ RunClose
           \/ own' = [own EXCEPT !.pending = 0]
<1>1. CASE \E a, b \in BOOLEAN : Setup(a, b)
  BY <1>1 DEF Setup
<1>2. CASE StartGame \/ EndSession \/ Notify \/ StartTimer
  BY <1>2 DEF StartGame, EndSession, Notify, StartTimer
<1>3. CASE RunShow \/ Attention \/ Decide \/ Settled \/ FinishClose
  BY <1>3 DEF RunShow, Attention, Decide, Settled, FinishClose, ShowWindow
<1>4. CASE (\E t \in tasks : RunEvent(t)) \/ \E t \in timers : CloseTimer(t)
  BY <1>4 DEF RunEvent, CloseTimer
<1>5. CASE \E b \in BOOLEAN : Finished(b) \/ Settle(b) \/ BeginClose(b)
  BY <1>5 DEF Finished, Settle, BeginClose, ShowWindow
<1>6. CASE \E b \in BOOLEAN, why \in Exits : RunExit(why, b)
  BY <1>6 DEF RunExit, ShowWindow
<1>7. CASE \E b \in BOOLEAN : GameEnds(b) \/ SetCloseToTray(b)
  BY <1>7 DEF GameEnds, SetCloseToTray
<1>8. CASE Input \/ Open \/ Quit \/ RestartUpdate \/ CloseRequested
  BY <1>8 DEF Input, Open, Quit, RestartUpdate, CloseRequested
<1>9. CASE TrayListed \/ TrayLost
  BY <1>9 DEF TrayListed, TrayLost
<1> QED
  BY <1>1, <1>2, <1>3, <1>4, <1>5, <1>6, <1>7, <1>8, <1>9 DEF Next, Task

(* What a step may do to the tray's item: nothing, remove it, make it, list it
   or lose its listing. *)
LEMMA TraySteps ==
    ASSUME Next
    PROVE  \/ tray' = tray
           \/ tray' = NoTray
           \/ tray' = Enabled(tray)
           \/ tray.item /\ tray' = [tray EXCEPT !.reg = TRUE]
           \/ tray' = [tray EXCEPT !.reg = FALSE]
<1>1. CASE \E a, b \in BOOLEAN : Setup(a, b)
  BY <1>1 DEF Setup
<1>2. CASE StartGame \/ EndSession \/ Notify \/ StartTimer
  BY <1>2 DEF StartGame, EndSession, Notify, StartTimer, KeptTray
<1>3. CASE RunShow \/ RunClose \/ Attention \/ Decide \/ Settled \/ FinishClose
  BY <1>3 DEF RunShow, RunClose, Attention, Decide, Settled, FinishClose, ShowWindow, KeptTray
<1>4. CASE (\E t \in tasks : RunEvent(t)) \/ \E t \in timers : CloseTimer(t)
  BY <1>4 DEF RunEvent, CloseTimer
<1>5. CASE \E b \in BOOLEAN : Finished(b) \/ Settle(b) \/ BeginClose(b)
  BY <1>5 DEF Finished, Settle, BeginClose, ShowWindow, KeptTray
<1>6. CASE \E b \in BOOLEAN, why \in Exits : RunExit(why, b)
  BY <1>6 DEF RunExit, ShowWindow, KeptTray
<1>7. CASE \E b \in BOOLEAN : GameEnds(b) \/ SetCloseToTray(b)
  BY <1>7 DEF GameEnds, SetCloseToTray
<1>8. CASE Input \/ Open \/ Quit \/ RestartUpdate \/ CloseRequested
  BY <1>8 DEF Input, Open, Quit, RestartUpdate, CloseRequested
<1>9. CASE TrayListed \/ TrayLost
  BY <1>9 DEF TrayListed, TrayLost
<1> QED
  BY <1>1, <1>2, <1>3, <1>4, <1>5, <1>6, <1>7, <1>8, <1>9 DEF Next, Task

(* What a step may do to the engine. *)
LEMMA EngineSteps ==
    ASSUME Next
    PROVE  \/ engine' = engine
           \/ StartGame
           \/ engine' = [engine EXCEPT !.game = "failed", !.finished = FALSE,
                                       !.event = "attention"]
           \/ engine' = [engine EXCEPT !.game = "none", !.finished = TRUE,
                                       !.event = "finished"]
           \/ engine' = [engine EXCEPT !.game = "live"]
           \/ engine' = [engine EXCEPT !.event = "none"]
           \/ \E gen : engine' = Prepared(gen).engine
           \/ engine' = [engine EXCEPT !.shutdown = TRUE]
           \/ \E game \in {"stuck", "failed"} :
                engine' = Released([engine EXCEPT !.shutdown = TRUE, !.event = "attention",
                                                  !.finished = FALSE, !.game = game])
<1>1. CASE \E a, b \in BOOLEAN : Setup(a, b)
  BY <1>1 DEF Setup
<1>2. CASE StartGame \/ EndSession \/ Notify \/ StartTimer
  BY <1>2 DEF StartGame, EndSession, Notify, StartTimer
<1>3. CASE RunShow \/ RunClose \/ Attention \/ Decide \/ Settled \/ FinishClose
  BY <1>3 DEF RunShow, RunClose, Attention, Decide, Settled, FinishClose, ShowWindow
<1>4. CASE (\E t \in tasks : RunEvent(t)) \/ \E t \in timers : CloseTimer(t)
  BY <1>4 DEF RunEvent, CloseTimer
<1>5. CASE \E b \in BOOLEAN : Finished(b) \/ Settle(b) \/ BeginClose(b)
  BY <1>5 DEF Finished, Settle, BeginClose, ShowWindow
<1>6. CASE \E b \in BOOLEAN, why \in Exits : RunExit(why, b)
  BY <1>6 DEF RunExit, ShowWindow, HasLiveGame
<1>7. CASE \E b \in BOOLEAN : GameEnds(b) \/ SetCloseToTray(b)
  BY <1>7 DEF GameEnds, SetCloseToTray
<1>8. CASE Input \/ Open \/ Quit \/ RestartUpdate \/ CloseRequested
  BY <1>8 DEF Input, Open, Quit, RestartUpdate, CloseRequested
<1>9. CASE TrayListed \/ TrayLost
  BY <1>9 DEF TrayListed, TrayLost
<1> QED
  BY <1>1, <1>2, <1>3, <1>4, <1>5, <1>6, <1>7, <1>8, <1>9 DEF Next, Task

(* The timers are those of the tickets and of the start. *)
LEMMA TimerSteps ==
    ASSUME Next
    PROVE  timers' \subseteq timers \cup {0, main.ticket}
<1>1. CASE \E a, b \in BOOLEAN : Setup(a, b)
  BY <1>1 DEF Setup
<1>2. CASE StartGame \/ EndSession \/ Notify \/ StartTimer
  BY <1>2 DEF StartGame, EndSession, Notify, StartTimer
<1>3. CASE RunShow \/ RunClose \/ Attention \/ Decide \/ Settled \/ FinishClose
  BY <1>3 DEF RunShow, RunClose, Attention, Decide, Settled, FinishClose, ShowWindow
<1>4. CASE (\E t \in tasks : RunEvent(t)) \/ \E t \in timers : CloseTimer(t)
  BY <1>4 DEF RunEvent, CloseTimer
<1>5. CASE \E b \in BOOLEAN : Finished(b) \/ Settle(b) \/ BeginClose(b)
  BY <1>5 DEF Finished, Settle, BeginClose, ShowWindow
<1>6. CASE \E b \in BOOLEAN, why \in Exits : RunExit(why, b)
  BY <1>6 DEF RunExit, ShowWindow
<1>7. CASE \E b \in BOOLEAN : GameEnds(b) \/ SetCloseToTray(b)
  BY <1>7 DEF GameEnds, SetCloseToTray
<1>8. CASE Input \/ Open \/ Quit \/ RestartUpdate \/ CloseRequested
  BY <1>8 DEF Input, Open, Quit, RestartUpdate, CloseRequested
<1>9. CASE TrayListed \/ TrayLost
  BY <1>9 DEF TrayListed, TrayLost
<1> QED
  BY <1>1, <1>2, <1>3, <1>4, <1>5, <1>6, <1>7, <1>8, <1>9 DEF Next, Task

(* The task the main thread is in changes to another part with the same ticket,
   or to one with a ticket that is pending or just taken. *)
LEMMA MainSteps ==
    ASSUME Typed, Tickets, Next
    PROVE  main' \in Mains /\ (main'.ticket <= own.next \/ RunClose)
<1> USE DEF Idle, Places, Mains
<1>1. CASE main' = main \/ main' = Idle
  BY <1>1 DEF Typed, Tickets, Ownerships
<1>2. ASSUME NEW t \in tasks, RunEvent(t), main' # Idle
      PROVE  main' \in Mains /\ main'.ticket <= own.next
  <2>1. main' = [Idle EXCEPT !.at = t.k, !.gen = t.gen]
    BY <1>2 DEF RunEvent
  <2>2. t.k \in {"finished", "attention"} /\ t.gen = engine.gen /\ engine.gen \in Nat
    BY <1>2 DEF RunEvent, Typed, Engines
  <2>3. main' \in Mains /\ main'.ticket = 0
    BY <2>1, <2>2
  <2> QED
    BY <2>3 DEF Typed, Ownerships
<1>3. ASSUME RunClose
      PROVE  main' \in Mains
  <2>1. own.next + 1 \in Nat
    BY DEF Typed, Ownerships
  <2> QED
    BY <1>3, <2>1 DEF RunClose
<1>4. ASSUME NEW t \in timers, CloseTimer(t), main' # Idle
      PROVE  main' \in Mains /\ main'.ticket <= own.next
  <2>1. main' = [Idle EXCEPT !.at = "settle", !.ticket = t, !.call = "finish"]
    BY <1>4 DEF CloseTimer
  <2>2. t \in Nat /\ t <= own.next
    BY <1>4 DEF Tickets, Typed, Ownerships
  <2>3. main' \in Mains /\ main'.ticket = t
    BY <2>1, <2>2
  <2> QED
    BY <2>2, <2>3
<1>5. ASSUME \/ \E at \in Places : main' = [main EXCEPT !.at = at]
             \/ \E gen \in Nat : main' = [main EXCEPT !.at = "decide", !.gen = gen]
             \/ main' = [main EXCEPT !.at = "settle", !.call = "finish"]
      PROVE  main' \in Mains /\ main'.ticket <= own.next
  <2>1. main' \in Mains
    BY <1>5 DEF Typed
  <2>2. main'.ticket = main.ticket
    BY <1>5 DEF Typed
  <2> QED
    BY <2>1, <2>2 DEF Tickets
<1>6. CASE Decide \/ Settled
  <2>1. main.call \in Places
    BY DEF Typed
  <2> QED
    BY <1>1, <1>5, <1>6, <2>1 DEF Decide, Settled
<1>7. CASE \E b \in BOOLEAN : Finished(b) \/ Settle(b) \/ BeginClose(b)
  <2>1. main.call \in Places /\ engine.gen \in Nat
    BY DEF Typed, Engines
  <2>2. CASE \E b \in BOOLEAN : Finished(b)
    BY <1>1, <1>5, <2>2 DEF Finished
  <2>3. CASE \E b \in BOOLEAN : Settle(b)
    BY <1>1, <1>5, <2>1, <2>3 DEF Settle
  <2>4. CASE \E b \in BOOLEAN : BeginClose(b)
    BY <1>1, <1>5, <2>4 DEF BeginClose
  <2> QED
    BY <1>7, <2>2, <2>3, <2>4
<1>8. CASE main' # main /\ main' # Idle
  <2>1. \/ \E t \in tasks : RunEvent(t)
        \/ \E t \in timers : CloseTimer(t)
        \/ RunClose \/ Decide \/ Settled
        \/ \E b \in BOOLEAN : Finished(b) \/ Settle(b) \/ BeginClose(b)
    BY <1>8 DEF Next, Task, Setup, StartGame, EndSession, Notify, RunShow, Attention,
        FinishClose, RunExit, StartTimer, GameEnds, SetCloseToTray, Input, Open, Quit,
        RestartUpdate, CloseRequested, TrayListed, TrayLost
  <2> QED
    BY <1>2, <1>3, <1>4, <1>6, <1>7, <1>8, <2>1
<1> QED
  BY <1>1, <1>8

LEMMA DInit == Init => DInv
<1> SUFFICES ASSUME Init PROVE DInv
  OBVIOUS
<1>1. app = "starting" /\ win \in {"shown", "hidden"} /\ pref \in BOOLEAN /\ restart = FALSE
  BY DesktopLifecycleAssumption DEF Init
<1>2. own \in Ownerships /\ own.next = 0 /\ own.pending = 0
  BY DEF Init, Ownerships
<1>3. tray \in Trays /\ ~tray.reg
  BY DEF Init, Trays
<1>4. engine \in Engines /\ engine.event = "none" /\ ~engine.shutdown
  BY DEF Init, Engines
<1>5. main \in Mains /\ main.ticket = 0
  BY DEF Init, Idle, Mains, Places
<1>6. tasks = {} /\ timers = {}
  BY DEF Init
<1>7. Typed
  BY <1>1, <1>2, <1>3, <1>4, <1>5 DEF Typed
<1>8. Tickets
  BY <1>2, <1>5, <1>6 DEF Tickets
<1>9. Listed /\ EventTrue /\ Starting /\ Reachable /\ Claiming /\ ClaimReleased
  BY <1>1, <1>3, <1>4, <1>6 DEF Init, Listed, EventTrue, Starting, Reachable, Claiming, ClaimReleased
<1> QED
  BY <1>7, <1>8, <1>9 DEF DInv

(* Each variable keeps its type. *)
LEMMA TypedStep ==
    ASSUME Typed, Tickets, Next
    PROVE  Typed'
<1>1. own' \in Ownerships
  <2>1. own \in Ownerships
    BY DEF Typed
  <2>2. CASE RunClose
    <3>1. PICK n \in Nat : n = own.next + 1
      BY <2>1 DEF Ownerships
    <3>2. own' = [own EXCEPT !.auto = TRUE, !.retained = FALSE, !.next = n, !.pending = n]
      BY <2>2, <3>1 DEF RunClose
    <3> QED
      BY <2>1, <3>2 DEF Ownerships
  <2>3. CASE own' = Retained(own)
    BY <2>1, <2>3 DEF Retained, Ownerships
  <2>4. CASE own' = [own EXCEPT !.pending = 0]
    BY <2>1, <2>4 DEF Ownerships
  <2> QED
    BY <2>1, <2>2, <2>3, <2>4, OwnSteps
<1>2. tray' \in Trays
  <2>1. tray \in Trays
    BY DEF Typed
  <2>2. NoTray \in Trays /\ Enabled(tray) \in Trays
    BY <2>1 DEF NoTray, Enabled, Trays
  <2>3. \A b \in BOOLEAN : [tray EXCEPT !.reg = b] \in Trays
    BY <2>1 DEF Trays
  <2> QED
    BY <2>1, <2>2, <2>3, TraySteps
<1>3. engine' \in Engines
  <2>1. engine \in Engines
    BY DEF Typed
  <2>2. CASE StartGame
    <3>1. PICK n \in Nat : n = engine.gen + 1
      BY <2>1 DEF Engines
    <3>2. engine' = [engine EXCEPT !.game = "live", !.gen = n, !.finished = FALSE,
                                   !.event = "none"]
      BY <2>2, <3>1 DEF StartGame
    <3> QED
      BY <2>1, <3>2 DEF Engines
  <2>3. CASE \E gen : engine' = Prepared(gen).engine
    <3>1. PICK yes \in BOOLEAN : engine' = [engine EXCEPT !.shutdown = engine.shutdown \/ yes]
      BY <2>3 DEF Prepared
    <3> QED
      BY <2>1, <3>1 DEF Engines
  <2> QED
    BY <2>1, <2>2, <2>3, EngineSteps DEF Engines, Released
<1>4. main' \in Mains
  BY MainSteps
<1>5. app' \in {"starting", "running", "exited"}
  BY DEF Typed, Next, Task, Setup, StartGame, EndSession, Notify, RunShow, RunClose,
      Attention, Decide, Settled, FinishClose, RunEvent, CloseTimer, Finished, Settle,
      BeginClose, RunExit, StartTimer, GameEnds, SetCloseToTray, Input, Open, Quit,
      RestartUpdate, CloseRequested, TrayListed, TrayLost
<1>6. win' \in {"shown", "hidden", "gone"}
  BY DEF Typed, Next, Task, Setup, StartGame, EndSession, Notify, RunShow, RunClose,
      Attention, Decide, Settled, FinishClose, RunEvent, CloseTimer, Finished, Settle,
      BeginClose, RunExit, StartTimer, GameEnds, SetCloseToTray, Input, Open, Quit,
      RestartUpdate, CloseRequested, TrayListed, TrayLost, ShowWindow
<1>7. pref' \in BOOLEAN /\ restart' \in BOOLEAN
  BY DEF Typed, Next, Task, Setup, StartGame, EndSession, Notify, RunShow, RunClose,
      Attention, Decide, Settled, FinishClose, RunEvent, CloseTimer, Finished, Settle,
      BeginClose, RunExit, StartTimer, GameEnds, SetCloseToTray, Input, Open, Quit,
      RestartUpdate, CloseRequested, TrayListed, TrayLost
<1> QED
  BY <1>1, <1>2, <1>3, <1>4, <1>5, <1>6, <1>7 DEF Typed

(* Tickets only grow, and every one that is held was given out. *)
LEMMA TicketsStep ==
    ASSUME Typed, Tickets, Next
    PROVE  Tickets'
<1>1. own \in Ownerships /\ own' \in Ownerships /\ main' \in Mains
  BY TypedStep DEF Typed
<1>2. own.next \in Nat /\ own.next <= own'.next /\ own'.pending <= own'.next
  <2>1. own.next \in Nat /\ own.pending \in Nat /\ own.pending <= own.next
    BY <1>1 DEF Ownerships, Tickets
  <2>2. CASE RunClose
    <3>1. own'.next = own.next + 1 /\ own'.pending = own.next + 1
      BY <1>1, <2>2 DEF RunClose, Ownerships
    <3> QED
      BY <2>1, <3>1
  <2>3. CASE own' = Retained(own) \/ own' = [own EXCEPT !.pending = 0]
    <3>1. own'.next = own.next /\ own'.pending = 0
      BY <1>1, <2>3 DEF Retained, Ownerships
    <3> QED
      BY <2>1, <3>1
  <2> QED
    BY <2>1, <2>2, <2>3, OwnSteps
<1>3. main'.ticket <= own'.next
  <2>1. main'.ticket \in Nat /\ own'.next \in Nat
    BY <1>1 DEF Mains, Ownerships
  <2>2. CASE RunClose
    <3>1. main'.ticket = own.next + 1
      BY <2>2 DEF RunClose, Idle
    <3>2. own'.next = own.next + 1
      BY <1>1, <2>2 DEF RunClose, Ownerships
    <3> QED
      BY <2>1, <3>1, <3>2
  <2> QED
    BY <1>2, <2>1, <2>2, MainSteps
<1>4. timers' \subseteq 0..own'.next
  <2>1. own'.next \in Nat /\ main.ticket \in Nat /\ main.ticket <= own.next
    BY <1>1 DEF Ownerships, Typed, Mains, Tickets
  <2>2. timers' \subseteq 0..own.next
    <3>1. 0 \in 0..own.next /\ main.ticket \in 0..own.next
      BY <1>2, <2>1
    <3>2. timers \subseteq 0..own.next
      BY DEF Tickets
    <3> QED
      BY <3>1, <3>2, TimerSteps
  <2>3. \A m, n \in Nat : m <= n => 0..m \subseteq 0..n
    OBVIOUS
  <2> QED
    BY <1>2, <2>1, <2>2, <2>3
<1> QED
  BY <1>2, <1>3, <1>4 DEF Tickets

(* Only an item that runs is listed. *)
LEMMA ListedStep ==
    ASSUME Typed, Listed, Next
    PROVE  Listed'
<1>1. tray \in Trays
  BY DEF Typed
<1> QED
  BY <1>1, TraySteps DEF Listed, NoTray, Enabled, Trays

(* A completion event is of a game that finished. *)
LEMMA EventStep ==
    ASSUME Typed, EventTrue, Next
    PROVE  EventTrue'
<1>1. engine \in Engines
  BY DEF Typed
<1>2. CASE StartGame
  BY <1>1, <1>2 DEF StartGame, Engines, EventTrue
<1>3. CASE \E gen : engine' = Prepared(gen).engine
  BY <1>1, <1>3 DEF Prepared, Engines, EventTrue
<1> QED
  BY <1>1, <1>2, <1>3, EngineSteps DEF Engines, Released, EventTrue

(* A window that is hidden keeps a way back.  Nothing unlists the item of a hidden
   window but its loss, which queues a Show; a queued Show is run, and the timer of
   the start expires, only by showing the window. *)
LEMMA ReachableStep ==
    ASSUME Typed, Listed, Reachable, Next
    PROVE  Reachable'
<1> SUFFICES ASSUME app' = "running", win' = "hidden"
             PROVE  tray'.reg \/ Show \in tasks' \/ 0 \in timers'
  BY DEF Reachable
<1> USE DEF Reachable
<1>1. CASE \E a, b \in BOOLEAN : Setup(a, b)
  BY <1>1 DEF Setup
<1>2. CASE StartGame \/ EndSession \/ Notify \/ StartTimer
  BY <1>2 DEF StartGame, EndSession, Notify, StartTimer
<1>3. CASE RunShow \/ RunClose \/ Attention \/ Decide \/ Settled \/ FinishClose
  BY <1>3 DEF RunShow, RunClose, Attention, Decide, Settled, FinishClose, ShowWindow,
      Show, Close, Take
<1>4. CASE (\E t \in tasks : RunEvent(t)) \/ \E t \in timers : CloseTimer(t)
  <2>1. \A t : t.k \in {"finished", "attention"} => t # Show
    BY DEF Show
  <2>2. CASE \E t \in tasks : RunEvent(t)
    BY <2>1, <2>2 DEF RunEvent
  <2>3. CASE \E t \in timers : CloseTimer(t)
    BY <2>3 DEF CloseTimer
  <2> QED
    BY <1>4, <2>2, <2>3
<1>5. CASE \E b \in BOOLEAN : Finished(b) \/ Settle(b) \/ BeginClose(b)
  BY <1>5 DEF Finished, Settle, BeginClose, ShowWindow, Enabled, Listed
<1>6. CASE \E b \in BOOLEAN, why \in Exits : RunExit(why, b)
  BY <1>6 DEF RunExit, ShowWindow, Exits, Exit, Show
<1>7. CASE \E b \in BOOLEAN : GameEnds(b) \/ SetCloseToTray(b)
  BY <1>7 DEF GameEnds, SetCloseToTray
<1>8. CASE Input \/ Open \/ Quit \/ RestartUpdate \/ CloseRequested
  BY <1>8 DEF Input, Open, Quit, RestartUpdate, CloseRequested, MayAsk
<1>9. CASE TrayListed \/ TrayLost
  BY <1>9 DEF TrayListed, TrayLost, Typed, Trays
<1> QED
  BY <1>1, <1>2, <1>3, <1>4, <1>5, <1>6, <1>7, <1>8, <1>9 DEF Next, Task

(* An exit that nobody asked for holds the claim of the shutdown, under which no
   game starts, until it is run. *)
LEMMA ClaimingStep ==
    ASSUME Typed, Claiming, Next
    PROVE  Claiming'
<1> SUFFICES ASSUME tasks' \cap {Exit("auto"), Exit("update")} # {}
             PROVE  engine'.game = "none" /\ engine'.shutdown
  BY DEF Claiming
<1>1. engine \in Engines
  BY DEF Typed
<1>2. \A t : t \in {Exit("auto"), Exit("update")} =>
        /\ t # Show /\ t # Close /\ t # Exit("quit")
        /\ t.k \notin {"finished", "attention"}
  BY DEF Exit, Show, Close
<1>3. CASE tasks \cap {Exit("auto"), Exit("update")} = {}
  <2>1. (\E b \in BOOLEAN : Finished(b)) \/ RestartUpdate
    <3>1. PICK t \in tasks' : t \in {Exit("auto"), Exit("update")} /\ t \notin tasks
      BY <1>3
    <3>2. CASE Notify
      <4>1. t = [k |-> engine.event, gen |-> engine.gen]
        BY <3>1, <3>2 DEF Notify
      <4>2. t.k \in {"finished", "attention"}
        BY <1>1, <3>2, <4>1 DEF Notify, Engines
      <4> QED
        BY <1>2, <3>1, <4>2
    <3> QED
      BY <1>2, <3>1, <3>2 DEF Next, Task, Setup, StartGame, EndSession, RunShow, RunClose,
        Attention, Decide, Settled, FinishClose, RunEvent, CloseTimer, Settle,
        BeginClose, RunExit, StartTimer, GameEnds, SetCloseToTray, Input, Open, Quit,
        CloseRequested, TrayListed, TrayLost
  <2>2. CASE RestartUpdate
    BY <1>1, <2>2 DEF RestartUpdate, Engines
  <2>3. CASE \E b \in BOOLEAN : Finished(b)
    BY <1>1, <1>3, <2>3 DEF Finished, Prepared, Engines
  <2> QED
    BY <2>1, <2>2, <2>3
<1>4. CASE tasks \cap {Exit("auto"), Exit("update")} # {}
  <2>1. engine.game = "none" /\ engine.shutdown
    BY <1>4 DEF Claiming
  <2>2. CASE \E b \in BOOLEAN, why \in Exits : RunExit(why, b)
    BY <1>1, <2>1, <2>2 DEF RunExit, Engines
  <2>3. CASE \E b \in BOOLEAN : Finished(b)
    BY <1>1, <2>1, <2>3 DEF Finished, Prepared, Engines
  <2>4. CASE Notify
    BY <1>1, <2>1, <2>4 DEF Notify, Engines
  <2>5. CASE ~(Notify \/ (\E b \in BOOLEAN : Finished(b))
               \/ \E b \in BOOLEAN, why \in Exits : RunExit(why, b))
    <3>1. engine' = engine
      BY <1>1, <2>1, <2>5 DEF Next, Task, Setup, StartGame, EndSession, RunShow, RunClose,
        Attention, Decide, Settled, FinishClose, RunEvent, CloseTimer, Settle,
        BeginClose, StartTimer, GameEnds, SetCloseToTray, Input, Open, Quit,
        RestartUpdate, CloseRequested, TrayListed, TrayLost, Engines
    <3> QED
      BY <2>1, <3>1
  <2> QED
    BY <2>2, <2>3, <2>4, <2>5
<1> QED
  BY <1>3, <1>4

(* Nothing has claimed the shutdown before the application runs. *)
LEMMA StartingStep ==
    ASSUME Typed, Starting, Next
    PROVE  Starting'
<1> SUFFICES ASSUME app' = "starting" PROVE main' = Idle /\ ~engine'.shutdown
  BY DEF Starting
<1>1. engine \in Engines
  BY DEF Typed
<1>2. app = "starting"
  BY DEF Next, Task, Setup, StartGame, EndSession, Notify, RunShow, RunClose,
      Attention, Decide, Settled, FinishClose, RunEvent, CloseTimer, Finished, Settle,
      BeginClose, RunExit, StartTimer, GameEnds, SetCloseToTray, Input, Open, Quit,
      RestartUpdate, CloseRequested, TrayListed, TrayLost
<1>3. main = Idle /\ main.at = "idle" /\ ~engine.shutdown
  BY <1>2 DEF Starting, Idle
<1>4. \E b \in BOOLEAN : GameEnds(b)
  BY <1>2, <1>3 DEF Next, Task, Setup, StartGame, EndSession, Notify, RunShow, RunClose,
      Attention, Decide, Settled, FinishClose, RunEvent, CloseTimer, Finished, Settle,
      BeginClose, RunExit, StartTimer, SetCloseToTray, Input, Open, Quit,
      RestartUpdate, CloseRequested, TrayListed, TrayLost, MayAsk, Take
<1> QED
  BY <1>1, <1>3, <1>4 DEF GameEnds, Engines

(* The claim ends with the exit it was made for: a failed exit releases it, and
   no other task takes an exit from the queue. *)
LEMMA ClaimReleasedStep ==
    ASSUME Typed, Starting, ClaimReleased, Next
    PROVE  ClaimReleased'
<1> DEFINE Some == {Exit("auto"), Exit("update"), Exit("quit")}
<1>1. engine \in Engines
  BY DEF Typed
<1>2. CASE \E b \in BOOLEAN, why \in Exits : RunExit(why, b)
  <2>1. app' = "exited" \/ ~engine'.shutdown
    BY <1>1, <1>2 DEF RunExit, Released, Engines
  <2> QED
    BY <2>1 DEF ClaimReleased
<1>3. CASE RestartUpdate
  BY <1>3 DEF RestartUpdate, ClaimReleased
<1>4. CASE \E b \in BOOLEAN : Finished(b)
  BY <1>1, <1>4 DEF Finished, Prepared, ClaimReleased, Engines
<1>5. CASE \E a, b \in BOOLEAN : Setup(a, b)
  BY <1>5 DEF Setup, ClaimReleased, Starting
<1>6. CASE ~((\E b \in BOOLEAN, why \in Exits : RunExit(why, b)) \/ RestartUpdate
             \/ (\E b \in BOOLEAN : Finished(b)) \/ \E a, b \in BOOLEAN : Setup(a, b))
  <2>1. engine'.shutdown = engine.shutdown
    BY <1>1, <1>6 DEF Next, Task, StartGame, EndSession, Notify, RunShow, RunClose,
        Attention, Decide, Settled, FinishClose, RunEvent, CloseTimer, Settle,
        BeginClose, StartTimer, GameEnds, SetCloseToTray, Input, Open, Quit,
        CloseRequested, TrayListed, TrayLost, Engines
  <2>2. app' = app
    BY <1>6 DEF Next, Task, StartGame, EndSession, Notify, RunShow, RunClose,
        Attention, Decide, Settled, FinishClose, RunEvent, CloseTimer, Settle,
        BeginClose, StartTimer, GameEnds, SetCloseToTray, Input, Open, Quit,
        CloseRequested, TrayListed, TrayLost
  <2>3. \A t \in Some : t # Show /\ t # Close /\ t.k \notin {"finished", "attention"}
    BY DEF Exit, Show, Close
  <2>4. tasks \cap Some \subseteq tasks'
    BY <1>6, <2>3 DEF Next, Task, StartGame, EndSession, Notify, RunShow, RunClose,
        Attention, Decide, Settled, FinishClose, RunEvent, CloseTimer, Settle,
        BeginClose, StartTimer, GameEnds, SetCloseToTray, Input, Open, Quit,
        CloseRequested, TrayListed, TrayLost
  <2> QED
    BY <2>1, <2>2, <2>4 DEF ClaimReleased
<1> QED
  BY <1>2, <1>3, <1>4, <1>5, <1>6

(* The application can always be reached and ends by itself only when no game needs
   it: background_start.rs, window_lifecycle.rs, session_lifecycle.rs, tray.rs and
   update_restart.rs, for any number of games, requests and failures. *)
THEOREM ApplicationReachableCorrect == Spec => []ApplicationReachable
<1>1. DInv /\ [Next]_vars => DInv'
  <2> SUFFICES ASSUME DInv, [Next]_vars PROVE DInv'
    OBVIOUS
  <2>1. CASE Next
    BY <2>1, TypedStep, TicketsStep, ListedStep, EventStep, StartingStep, ReachableStep,
        ClaimingStep, ClaimReleasedStep DEF DInv
  <2>2. CASE UNCHANGED vars
    BY <2>2 DEF vars, DInv, Typed, Tickets, Listed, EventTrue, Starting, Reachable, Claiming,
        ClaimReleased
  <2> QED
    BY <2>1, <2>2
<1>2. DInv => ApplicationReachable
  <2> SUFFICES ASSUME DInv PROVE ApplicationReachable
    BY DEF DInv
  <2>1. own.pending \in 0..own.next
    BY DEF DInv, Typed, Ownerships, Tickets
  <2>2. engine.game \in {"none", "live", "stuck", "failed"}
    BY DEF DInv, Typed, Engines
  <2>3. TypeOK
    BY <2>1, <2>2 DEF DInv, Typed, Tickets, Listed, EventTrue, TypeOK
  <2>4. Reachable /\ AutoExitIdle /\ ClaimReleased
    BY DEF DInv, Claiming, AutoExitIdle
  <2> QED
    BY <2>3, <2>4 DEF ApplicationReachable
<1> QED
  BY <1>1, <1>2, DInit, PTL DEF Spec
=============================================================================
