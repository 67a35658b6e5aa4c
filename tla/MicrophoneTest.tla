--------------------------- MODULE MicrophoneTest ---------------------------
(***************************************************************************)
(* The six-second microphone check: the page's client                      *)
(* (ui/microphone-controls.mjs), the desktop commands and the window's     *)
(* focus (tauri microphone.rs, main.rs, backend.rs), the one test slot of  *)
(* the session coordinator (game_session.rs) and the worker that records   *)
(* (microphone_test.rs).                                                   *)
(*                                                                         *)
(* A click's number is the identity of the test it may open.  A stop       *)
(* command carries the identity, so pending stops are a set.               *)
(***************************************************************************)
EXTENDS Integers

CONSTANTS
    MaxClicks,    \* bound: presses of "Test microphone"
    MaxEvents,    \* bound: other presses, views, focus and session changes
    MaxFaults     \* bound: recordings that fail

Clicks == 1..MaxClicks
NoTest == 0

VARIABLES
    gen,      \* generation of the page's client
    pageId,   \* its id, or NoTest
    shown,    \* the test whose recording the page plays, or NoTest
    view,     \* view of the controls
    co,       \* co[c]: the start of click c: [at, cur, view, epoch, prev]
    stops,    \* stop_microphone_test calls in flight: identities
    focused,  \* WINDOW_FOCUSED
    epoch,    \* TEST_EPOCH
    ui,       \* the window's event handler: "idle", "bump", "read"
    slot,     \* state.microphone_test: [id, phase, wav]; id NoTest when empty
    testId,   \* microphone_test_id, read without the lock
    session,  \* a game session is launching or running
    events, faults

page == <<gen, pageId, shown, view>>
window == <<focused, epoch, ui>>
vars == <<gen, pageId, shown, view, co, stops, focused, epoch, ui, slot, testId,
          session, events, faults>>

Off == [at |-> "off", cur |-> 0, view |-> 0, epoch |-> 0, prev |-> NoTest]
Over == [Off EXCEPT !.at = "done"]
Empty == [id |-> NoTest, phase |-> "none", wav |-> FALSE]

Init ==
    /\ gen = 0 /\ pageId = NoTest /\ shown = NoTest /\ view = 0
    /\ co = [c \in Clicks |-> Off] /\ stops = {}
    /\ focused = TRUE /\ epoch = 0 /\ ui = "idle"
    /\ slot = Empty /\ testId = NoTest /\ session = FALSE /\ events = 0 /\ faults = 0

Event == events < MaxEvents /\ events' = events + 1
\* A start that was created holds the coordinator's lock until it is published.
Unlocked == \A c \in Clicks : co[c].at # "created"

-----------------------------------------------------------------------------
(* The page.                                                               *)

Forgotten == IF pageId = NoTest THEN stops ELSE stops \cup {pageId}
Cancelled == gen' = gen + 1 /\ pageId' = NoTest /\ stops' = Forgotten /\ shown' = NoTest

\* starting or testing: the button is disabled.
Busy ==
    \E c \in Clicks :
        \/ co[c].at = "cancel" /\ co[c].view = view
        \/ co[c].cur = gen /\ co[c].at \in {"call", "task", "created", "check", "ok", "wait", "status"}

Click(c) ==
    /\ co[c].at = "off" /\ \A d \in Clicks : d < c => co[d].at # "off"
    /\ ~Busy /\ ~session
    /\ Cancelled
    /\ co' = [co EXCEPT ![c] = [Off EXCEPT !.at = "cancel", !.view = view, !.prev = pageId]]
    /\ UNCHANGED <<view, window, slot, testId, session, events, faults>>

\* The stop was answered: start's own cancel and, with no turn of the event loop
\* between, the command.
Begin(c) ==
    /\ co[c].at = "cancel" /\ co[c].prev \notin stops
    /\ IF co[c].view # view
       THEN co' = [co EXCEPT ![c] = Over] /\ UNCHANGED <<page, stops>>
       ELSE /\ Cancelled /\ UNCHANGED view
            /\ co' = [co EXCEPT ![c] = [Off EXCEPT !.at = "call", !.cur = gen']]
    /\ UNCHANGED <<window, slot, testId, session, events, faults>>

\* Stop, Clear, or another view of the page.
Stop ==
    /\ Event /\ Cancelled /\ UNCHANGED view
    /\ UNCHANGED <<co, window, slot, testId, session, faults>>
Suspend ==
    /\ Event /\ Cancelled /\ view' = view + 1
    /\ UNCHANGED <<co, window, slot, testId, session, faults>>

Current(c) == co[c].cur = gen
Started(c) ==
    /\ co[c].at = "ok"
    /\ IF Current(c)
       THEN /\ pageId' = c /\ co' = [co EXCEPT ![c].at = "wait"] /\ UNCHANGED stops
       ELSE /\ stops' = stops \cup {c} /\ co' = [co EXCEPT ![c] = Over] /\ UNCHANGED pageId
    /\ UNCHANGED <<gen, shown, view, window, slot, testId, session, events, faults>>
StartRefused(c) ==
    /\ co[c].at = "refused" /\ co' = [co EXCEPT ![c] = Over]
    /\ UNCHANGED <<page, stops, window, slot, testId, session, events, faults>>

\* The timer of 150 ms (unscheduled by a cancel) and the status it asks for.
Poll(c) ==
    /\ co[c].at = "wait"
    /\ co' = [co EXCEPT ![c] = IF Current(c) THEN [@ EXCEPT !.at = "status"] ELSE Over]
    /\ UNCHANGED <<page, stops, window, slot, testId, session, events, faults>>

Settled(c) ==
    ~Current(c) \/ slot.id # c \/ slot.phase \notin {"starting", "recording", "ready"}
Polled(c) ==
    /\ co[c].at = "status" /\ Unlocked
    /\ co' = [co EXCEPT ![c] =
                IF Settled(c)
                THEN Over ELSE [@ EXCEPT !.at = IF slot.phase = "ready" THEN "audio" ELSE "wait"]]
    /\ UNCHANGED <<page, stops, window, slot, testId, session, events, faults>>

\* microphone_test_audio, and its late answer.
SameTest(c) == slot.id = c
TakeAudio(c) ==
    /\ co[c].at = "audio" /\ Unlocked
    /\ IF SameTest(c) /\ slot.wav
       THEN slot' = [slot EXCEPT !.wav = FALSE] /\ co' = [co EXCEPT ![c].at = "taken"]
       ELSE UNCHANGED slot /\ co' = [co EXCEPT ![c] = Over]
    /\ UNCHANGED <<page, stops, window, testId, session, events, faults>>
Show(c) ==
    /\ co[c].at = "taken"
    /\ shown' = IF Current(c) THEN c ELSE shown
    /\ co' = [co EXCEPT ![c] = Over]
    /\ UNCHANGED <<gen, pageId, view, stops, window, slot, testId, session, events, faults>>

-----------------------------------------------------------------------------
(* The desktop commands.                                                   *)

\* test_is_current.
TestIsCurrent(c) == focused /\ co[c].epoch = epoch

Command(c) ==
    /\ co[c].at = "call" /\ co' = [co EXCEPT ![c].at = "task", ![c].epoch = epoch]
    /\ UNCHANGED <<page, stops, window, slot, testId, session, events, faults>>

\* GameSessionCoordinator::start_microphone_test.
Create(c) ==
    /\ co[c].at = "task" /\ Unlocked
    /\ IF TestIsCurrent(c) /\ ~session /\ slot = Empty
       THEN /\ slot' = [id |-> c, phase |-> "starting", wav |-> FALSE]
            /\ co' = [co EXCEPT ![c].at = "created"]
       ELSE co' = [co EXCEPT ![c].at = "refused"] /\ UNCHANGED slot
    /\ UNCHANGED <<page, stops, window, testId, session, events, faults>>
Publish(c) ==
    /\ co[c].at = "created" /\ testId' = c
    /\ co' = [co EXCEPT ![c].at = "check"]
    /\ UNCHANGED <<page, stops, window, slot, session, events, faults>>

LostFocus(c) == ~TestIsCurrent(c)
Check(c) ==
    /\ co[c].at = "check" /\ Unlocked
    /\ IF LostFocus(c)
       THEN /\ slot' = (IF slot.id = c THEN Empty ELSE slot)
            /\ testId' = (IF slot.id = c THEN NoTest ELSE testId)
            /\ co' = [co EXCEPT ![c].at = "refused"]
       ELSE co' = [co EXCEPT ![c].at = "ok"] /\ UNCHANGED <<slot, testId>>
    /\ UNCHANGED <<page, stops, window, session, events, faults>>

\* stop_microphone_test: the drop joins the worker under the lock.
StopsThis(i) == slot.id = i
StopTest(i) ==
    /\ i \in stops /\ Unlocked /\ stops' = stops \ {i}
    /\ IF StopsThis(i) THEN slot' = Empty /\ testId' = NoTest ELSE UNCHANGED <<slot, testId>>
    /\ UNCHANGED <<page, co, window, session, events, faults>>

\* on_window_event: Focused(false) stores, invalidates, then reads the identity
\* without the lock; CloseRequested only the last two.
Unfocus ==
    /\ ui = "idle" /\ focused /\ Event /\ focused' = FALSE /\ ui' = "bump"
    /\ UNCHANGED <<page, co, stops, epoch, slot, testId, session, faults>>
CloseRequested ==
    /\ ui = "idle" /\ Event /\ ui' = "bump"
    /\ UNCHANGED <<page, co, stops, focused, epoch, slot, testId, session, faults>>
Refocus ==
    /\ ui = "idle" /\ ~focused /\ focused' = TRUE
    /\ UNCHANGED <<page, co, stops, epoch, ui, slot, testId, session, events, faults>>
Invalidate ==
    /\ ui = "bump" /\ epoch' = epoch + 1 /\ ui' = "read"
    /\ UNCHANGED <<page, co, stops, focused, slot, testId, session, events, faults>>
CancelTest ==
    /\ ui = "read" /\ ui' = "idle"
    /\ stops' = IF testId = NoTest THEN stops ELSE stops \cup {testId}
    /\ UNCHANGED <<page, co, focused, epoch, slot, testId, session, events, faults>>

-----------------------------------------------------------------------------
(* The coordinator and the worker.                                         *)

\* Preparing a session, or another microphone setting, drops the test.
DropTest(next) ==
    /\ Unlocked /\ Event /\ ~session /\ session' = next
    /\ slot' = Empty /\ testId' = NoTest
    /\ UNCHANGED <<page, co, stops, window, faults>>
EndSession ==
    /\ Unlocked /\ session /\ session' = FALSE
    /\ UNCHANGED <<page, co, stops, window, slot, testId, events, faults>>

Record ==
    /\ slot.phase = "starting" /\ slot' = [slot EXCEPT !.phase = "recording"]
    /\ UNCHANGED <<page, co, stops, window, testId, session, events, faults>>
Finish ==
    /\ slot.phase = "recording" /\ slot' = [slot EXCEPT !.phase = "ready", !.wav = TRUE]
    /\ UNCHANGED <<page, co, stops, window, testId, session, events, faults>>
Fail ==
    /\ slot.phase \in {"starting", "recording"} /\ faults < MaxFaults /\ faults' = faults + 1
    /\ slot' = [slot EXCEPT !.phase = "failed"]
    /\ UNCHANGED <<page, co, stops, window, testId, session, events>>
Expired == [slot EXCEPT !.phase = "expired", !.wav = FALSE]
Expire ==
    /\ slot.phase \in {"ready", "failed"} /\ Event
    /\ slot' = Expired
    /\ UNCHANGED <<page, co, stops, window, testId, session, faults>>

Coroutine(c) ==
    \/ Begin(c) \/ Started(c) \/ StartRefused(c) \/ Poll(c) \/ Polled(c) \/ TakeAudio(c)
    \/ Show(c) \/ Command(c) \/ Create(c) \/ Publish(c) \/ Check(c) \/ StopTest(c)
Next ==
    \/ \E c \in Clicks : Click(c) \/ Coroutine(c)
    \/ Stop \/ Suspend \/ Unfocus \/ CloseRequested \/ Refocus \/ Invalidate \/ CancelTest
    \/ (\E next \in BOOLEAN : DropTest(next)) \/ EndSession
    \/ Record \/ Finish \/ Fail \/ Expire

\* The page's turns, the command's tasks, the worker and the window's handler run.
Spec ==
    /\ Init /\ [][Next]_vars
    /\ \A c \in Clicks : WF_vars(Coroutine(c))
    /\ WF_vars(Record \/ Finish) /\ WF_vars(Invalidate \/ CancelTest)

-----------------------------------------------------------------------------
TypeOK ==
    /\ gen \in Nat /\ view \in Nat /\ epoch \in Nat
    /\ {pageId, shown, testId, slot.id} \subseteq Clicks \cup {NoTest} /\ stops \subseteq Clicks
    /\ focused \in BOOLEAN /\ session \in BOOLEAN /\ ui \in {"idle", "bump", "read"}
    /\ slot.phase \in {"none", "starting", "recording", "ready", "failed", "expired"}
    /\ slot.wav => slot.phase = "ready"

\* An unfocused window leaves no test behind: once its event was handled, the
\* test is gone or its stop is on the way, whatever start was queued meanwhile
\* (main.rs, start_microphone_test's second look).
QuietUnfocused ==
    ~focused /\ ui = "idle" /\ slot.id # NoTest
        => slot.id \in stops \/ co[slot.id].at \in {"created", "check"}

\* No test is left that nobody will stop: the page holds its identity, or its
\* start is still being answered, or a stop is pending (microphone-controls.mjs).
TestOwned ==
    slot.id # NoTest =>
        \/ slot.id \in stops \/ pageId = slot.id
        \/ co[slot.id].at \in {"created", "check", "ok"}

\* The recording the page plays is that of the test it holds.
ShownIsHeld == shown # NoTest => shown = pageId
=============================================================================
