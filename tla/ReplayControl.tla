--------------------------- MODULE ReplayControl ---------------------------
(***************************************************************************)
(* The in-game Replay menu from the key press to the picture: the shortcut *)
(* helper process (redunar-hotkeys), the control socket served by one      *)
(* thread of the daemon (replay_control.rs), the menu state                *)
(* (replay_menu.rs) and its publication (game_session.rs), the telemetry   *)
(* file, and the overlay inside the game that polls it.                    *)
(*                                                                         *)
(* The helper waits for one answer at a time and gives up after 500 ms     *)
(* (fault "slow"); what it sent before is still read by the server.  A     *)
(* publication takes its snapshot of the menu first and the session lock   *)
(* afterwards, and so do publications of the desktop application (actor    *)
(* ui).  The file is written under an odd revision; a failed write leaves  *)
(* it odd and readers keep what they had.                                  *)
(***************************************************************************)
EXTENDS Integers, Sequences, FiniteSets, FiniteSetsExt, TLAPS

CONSTANTS Conn,        \* connections open or unread at a time (bound)
          Target,      \* what the cursor can be over; "save", "format" and "out" act
          AnimSteps,   \* presentations the menu takes to fade in or out
          Faults       \* "slow", "grab", "save", "write", "kill", "ui", "target"

ASSUME ControlBounds ==
    /\ Conn \subseteq Nat \ {0} /\ AnimSteps \in Nat \ {0}
    /\ Target \subseteq {"save", "format", "out", "time"}
    /\ Faults \subseteq {"slow", "grab", "save", "write", "kill", "ui", "target"}

VARIABLES helper,    \* MenuCapture and the request the helper waits for
          conn,      \* connections: stage, unread requests, answer, client end
          backlog,   \* connections not accepted yet, oldest first
          server,    \* the control thread
          ui,        \* a publication of the application
          menu,      \* ReplayMenuState
          target,    \* "none", "capture" (no render target) or "live"
          file,      \* menu block of the telemetry file
          overlay    \* the overlay's copy, animation and plan

vars == <<helper, conn, backlog, server, ui, menu, target, file, overlay>>

Unless(f) == IF f \in Faults THEN BOOLEAN ELSE {TRUE}
FreeConn == [stage |-> "free", req |-> <<>>, resp |-> "none", client |-> FALSE]
Resting == [alive |-> TRUE, open |-> FALSE, grabbed |-> FALSE, stream |-> 0,
            wait |-> "none", on |-> 0, cmd |-> "none", then |-> "none"]
Waiting == [pc |-> "accept", on |-> 0, cmd |-> "none", result |-> "none", snap |-> FALSE]
ClosedMenu == [visible |-> FALSE, pressed |-> "none", cursor |-> "out", stale |-> FALSE]

Init ==
    /\ helper = Resting
    /\ conn = [c \in Conn |-> FreeConn]
    /\ backlog = <<>>
    /\ server = Waiting
    /\ ui = "idle"
    /\ menu = ClosedMenu
    /\ target \in {"live"} \cup IF "target" \in Faults THEN {"none"} ELSE {}
    /\ file = [visible |-> FALSE, odd |-> FALSE]
    /\ overlay = [visible |-> FALSE, progress |-> 0, plan |-> FALSE]

-----------------------------------------------------------------------------
(* The menu: what each operation does to the state under its lock. *)

Closed(m) == [m EXCEPT !.visible = FALSE, !.pressed = "none", !.stale = FALSE]
Toggled(m) == [m EXCEPT !.visible = ~@, !.pressed = "none", !.stale = FALSE]
Moved(m, t) == IF m.visible THEN [m EXCEPT !.cursor = t, !.stale = FALSE] ELSE m
Heartbeat(m) == [m EXCEPT !.stale = FALSE]

\* button(false): a release activates only what was pressed.
Activates(m) == m.visible /\ m.pressed = m.cursor
Pressed(m) == IF m.visible THEN [m EXCEPT !.pressed = m.cursor, !.stale = FALSE] ELSE m
Released(m, ready) ==
    IF Activates(m) /\ (m.cursor = "out" \/ (m.cursor = "save" /\ ready))
    THEN Closed(m)
    ELSE [m EXCEPT !.pressed = "none", !.stale = FALSE]

\* close_if_stale, and the loss of the render target.
Abandoned(m) == m.visible /\ (m.stale \/ target # "live")

-----------------------------------------------------------------------------
(* Sockets. *)

Dropped(cs, dropped) ==
    [c \in Conn |-> IF c \notin dropped THEN cs[c]
                    ELSE IF cs[c].stage = "done" THEN FreeConn
                    ELSE [cs[c] EXCEPT !.client = FALSE, !.resp = "none"]]

Finished(cs, c) == [cs EXCEPT ![c] = IF @.client THEN [@ EXCEPT !.stage = "done", !.req = <<>>]
                                     ELSE FreeConn]

\* A write after the server hung up fails, whatever it had answered before.
Sent(cs, c, cmd) ==
    [cs EXCEPT ![c] = IF @.stage = "done" THEN [@ EXCEPT !.resp = "none"]
                      ELSE [@ EXCEPT !.req = Append(cs[c].req, cmd)]]

Unused == {c \in Conn : conn[c].stage = "free"}
Fresh == CHOOSE c \in Unused : TRUE
Connected(cs, c, cmd) ==
    [cs EXCEPT ![c] = [stage |-> "open", req |-> <<cmd>>, resp |-> "none", client |-> TRUE]]

Waits(goal, c, cmd) == [helper EXCEPT !.wait = goal, !.on = c, !.cmd = cmd]

\* request_control and the first request of toggle_menu: a connection of its own.
RequestAnew(goal, cmd) ==
    /\ Unused # {}
    /\ conn' = Connected(conn, Fresh, cmd)
    /\ backlog' = Append(backlog, Fresh)
    /\ helper' = Waits(goal, Fresh, cmd)

\* MenuCapture.request, on the stream of the open menu.
Request(goal, cmd, then) ==
    /\ conn' = Sent(conn, helper.stream, cmd)
    /\ helper' = [Waits(goal, helper.stream, cmd) EXCEPT !.then = then]
    /\ UNCHANGED backlog

-----------------------------------------------------------------------------
(* The helper. *)

Ready == helper.alive /\ helper.wait = "none" /\ helper.then = "none"

KeyToggle ==
    /\ Ready
    /\ IF helper.open THEN Request("close", "toggle", "none") ELSE RequestAnew("open", "toggle")
    /\ UNCHANGED <<server, ui, menu, target, file, overlay>>

\* Escape, an unrelated key, a removed keyboard, 30 s without input, or a
\* pointer that cannot be read: each closes the menu through its owner.
KeyClose ==
    /\ Ready /\ helper.open
    /\ Request("close", "escape", "none")
    /\ UNCHANGED <<server, ui, menu, target, file, overlay>>

\* A save shortcut is an unrelated key to the menu: it closes it first.
KeySave ==
    /\ Ready
    /\ IF helper.open THEN Request("close", "escape", "save") ELSE RequestAnew("save", "shortcut")
    /\ UNCHANGED <<server, ui, menu, target, file, overlay>>

SaveAfterClose ==
    /\ helper.alive /\ helper.wait = "none" /\ helper.then = "save"
    /\ RequestAnew("save", "shortcut")
    /\ UNCHANGED <<server, ui, menu, target, file, overlay>>

\* process_pointer_input: only a helper that owns the mice forwards them.
Pointer ==
    /\ Ready /\ helper.grabbed
    /\ \E cmd \in {"press", "release"} \cup Target : Request("pointer", cmd, "none")
    /\ UNCHANGED <<server, ui, menu, target, file, overlay>>

Ping ==
    /\ Ready /\ helper.open
    /\ Request("pointer", "ping", "none")
    /\ UNCHANGED <<server, ui, menu, target, file, overlay>>

ClosedByRelease == [Resting EXCEPT !.then = helper.then]

\* toggle_menu: only GRAB opens; without the mice the menu is view only.
Opened(r) ==
    /\ \E grabbed \in IF r = "grab" THEN Unless("grab") \cup {TRUE} ELSE {FALSE} :
        /\ helper' = IF r = "grab"
                     THEN [Resting EXCEPT !.open = TRUE, !.grabbed = grabbed, !.stream = helper.on]
                     ELSE Resting
        /\ conn' = IF r = "grab" THEN [conn EXCEPT ![helper.on].resp = "none"]
                   ELSE Dropped(conn, {helper.on})
    /\ UNCHANGED backlog

\* Variant of Forwarded: a failed pointer request clears the helper's state only.
ForwardedLocally(r) ==
    /\ IF r = "ok"
       THEN /\ helper' = [helper EXCEPT !.wait = "none", !.on = 0, !.cmd = "none"]
            /\ conn' = [conn EXCEPT ![helper.on].resp = "none"]
       ELSE /\ helper' = ClosedByRelease
            /\ conn' = Dropped(conn, {helper.stream})
    /\ UNCHANGED backlog

\* Variant of Forwarded: the answer is ignored.
ForwardedAnyway(r) ==
    /\ helper' = [helper EXCEPT !.wait = "none", !.on = 0, !.cmd = "none"]
    /\ conn' = [conn EXCEPT ![helper.on].resp = "none"]
    /\ UNCHANGED backlog

\* request_keeps_menu_open: RELEASE or any error closes through the owner.
Forwarded(r) ==
    /\ IF r = "ok"
       THEN /\ helper' = [helper EXCEPT !.wait = "none", !.on = 0, !.cmd = "none"]
            /\ conn' = [conn EXCEPT ![helper.on].resp = "none"]
       ELSE /\ helper' = Waits("close", helper.stream, "escape")
            /\ conn' = Sent([conn EXCEPT ![helper.stream].resp = "none"], helper.stream, "escape")
    /\ UNCHANGED backlog

\* close_menu: once on the stream, once on a new connection, then release.
CloseAnswered(r) ==
    IF r \in {"ok", "grab", "release"} \/ helper.wait = "closeAnew"
    THEN /\ helper' = ClosedByRelease
         /\ conn' = Dropped(conn, {helper.stream, helper.on})
         /\ UNCHANGED backlog
    ELSE RequestAnew("closeAnew", helper.cmd)

\* request_on_stream: the answer, the end of the stream, or the timeout, which
\* is certain only while the server stays with another connection.
Answers == LET c == conn[helper.on] IN
    IF c.resp # "none" THEN {c.resp}
    ELSE IF c.stage = "done" \/ "slow" \in Faults \/ server.on \notin {0, helper.on}
    THEN {"failed"} ELSE {}

HelperAnswered ==
    /\ helper.wait # "none"
    /\ \E r \in Answers :
        CASE helper.wait = "open"    -> Opened(r)
          [] helper.wait = "pointer" -> Forwarded(r)
          [] helper.wait = "save"    -> /\ helper' = Resting
                                        /\ conn' = Dropped(conn, {helper.on})
                                        /\ UNCHANGED backlog
          [] OTHER                   -> CloseAnswered(r)
    /\ UNCHANGED <<server, ui, menu, target, file, overlay>>

\* stop_locked kills the helper; the kernel closes its descriptors and grabs.
HelperKilled ==
    /\ "kill" \in Faults /\ helper.alive
    /\ helper' = [Resting EXCEPT !.alive = FALSE]
    /\ conn' = Dropped(conn, {c \in Conn : conn[c].client})
    /\ UNCHANGED <<backlog, server, ui, menu, target, file, overlay>>

HelperStarted ==
    /\ ~helper.alive
    /\ helper' = Resting
    /\ UNCHANGED <<conn, backlog, server, ui, menu, target, file, overlay>>

-----------------------------------------------------------------------------
(* The control thread. *)

Accept ==
    /\ server.pc = "accept" /\ backlog # <<>>
    /\ server' = [Waiting EXCEPT !.pc = "read", !.on = Head(backlog)]
    /\ backlog' = Tail(backlog)
    /\ UNCHANGED <<helper, conn, ui, menu, target, file, overlay>>

\* read_command: the next command, the end of the stream, or one second without either.
Read == LET c == conn[server.on] IN
    /\ server.pc = "read"
    /\ \/ /\ c.req # <<>>
          /\ server' = [server EXCEPT !.pc = "watch", !.cmd = Head(c.req)]
          /\ conn' = [conn EXCEPT ![server.on].req = Tail(@)]
       \/ /\ c.req = <<>> /\ ~c.client
          /\ server' = Waiting
          /\ conn' = Finished(conn, server.on)
       \/ /\ c.req = <<>> /\ c.client /\ ("slow" \in Faults \/ helper.on # server.on)
          /\ server' = Waiting
          /\ conn' = Finished([conn EXCEPT ![server.on].resp = "error"], server.on)
    /\ UNCHANGED <<helper, backlog, ui, menu, target, file, overlay>>

\* replay_menu_watchdog in front of every command, and toggle_replay_menu's
\* first look at the render target and at the menu.
Watch ==
    /\ server.pc = "watch"
    /\ IF Abandoned(menu)
       THEN /\ menu' = Closed(menu)
            /\ server' = [server EXCEPT !.pc = "snap", !.result = "release"]
       ELSE /\ UNCHANGED menu
            /\ server' = IF server.cmd = "toggle" /\ ~menu.visible /\ target # "live"
                         THEN [server EXCEPT !.pc = "reply", !.result = "error"]
                         ELSE [server EXCEPT !.pc = "apply"]
    /\ UNCHANGED <<helper, conn, backlog, ui, target, file, overlay>>

Does(m, pc, result) ==
    /\ menu' = m
    /\ server' = [server EXCEPT !.pc = pc, !.result = result]

\* replay_menu_button(false): a failed save or format returns before it publishes.
ButtonReleased ==
    \E ready \in BOOLEAN, done \in Unless("save") : LET m == Released(menu, ready) IN
        IF ~done /\ Activates(menu) /\ (menu.cursor = "format" \/ (menu.cursor = "save" /\ ready))
        THEN Does(m, "reply", "error")
        ELSE Does(m, "snap", IF m.visible THEN "ok" ELSE "release")

Apply ==
    /\ server.pc = "apply"
    /\ CASE server.cmd = "toggle"  -> Does(Toggled(menu), "snap", IF menu.visible THEN "release" ELSE "grab")
         [] server.cmd = "escape"  -> Does(Closed(menu), "snap", "release")
         [] server.cmd = "ping"    -> Does(Heartbeat(menu), "snap", "ask")
         [] server.cmd \in Target  -> Does(Moved(menu, server.cmd), "snap", "ask")
         [] server.cmd = "press"   -> Does(Pressed(menu), "snap", IF menu.visible THEN "ok" ELSE "release")
         [] server.cmd = "release" -> ButtonReleased
         [] server.cmd = "shortcut" -> \E done \in Unless("save") :
                                          Does(menu, "reply", IF done THEN "ok" ELSE "error")
    /\ UNCHANGED <<helper, conn, backlog, ui, target, file, overlay>>

Snapshot ==
    /\ server.pc = "snap"
    /\ server' = [server EXCEPT !.pc = "write", !.snap = menu.visible]
    /\ UNCHANGED <<helper, conn, backlog, ui, menu, target, file, overlay>>

\* update_replay_menu under the session lock; a failed write leaves it odd.
Written(visible, ok) == IF target = "none" THEN file
                        ELSE IF ok THEN [visible |-> visible, odd |-> FALSE]
                        ELSE [file EXCEPT !.odd = TRUE]

Write ==
    /\ server.pc = "write"
    /\ \E ok \in Unless("write") :
        LET failed == target = "none" \/ ~ok
            undo == failed /\ server.cmd = "toggle" /\ server.result = "grab" IN
        /\ file' = Written(server.snap, ok)
        /\ menu' = IF undo THEN Closed(menu) ELSE menu
        /\ server' = [server EXCEPT !.pc = "reply", !.result = IF undo THEN "error" ELSE @]
    /\ UNCHANGED <<helper, conn, backlog, ui, target, overlay>>

Answer ==
    IF server.result = "ask" THEN (IF menu.visible THEN "ok" ELSE "release") ELSE server.result

\* The connection ends with RELEASE, or when the answer cannot be delivered.
Reply ==
    /\ server.pc = "reply"
    /\ LET c == server.on
           answered == IF conn[c].client THEN [conn EXCEPT ![c].resp = Answer] ELSE conn IN
        IF Answer = "release" \/ ~conn[c].client
        THEN /\ server' = Waiting
             /\ conn' = Finished(answered, c)
        ELSE /\ server' = [Waiting EXCEPT !.pc = "read", !.on = c]
             /\ conn' = answered
    /\ UNCHANGED <<helper, backlog, ui, menu, target, file, overlay>>

-----------------------------------------------------------------------------
(* The application, the game and the clock. *)

\* hide_replay_menu, stop_capture and end close the menu; preferences publish it as it is.
UiBegins ==
    /\ "ui" \in Faults /\ ui = "idle"
    /\ ui' = "snap"
    /\ \E closes \in BOOLEAN : menu' = IF closes THEN Closed(menu) ELSE menu
    /\ UNCHANGED <<helper, conn, backlog, server, target, file, overlay>>

UiSnapshot ==
    /\ ui = "snap"
    /\ ui' = IF menu.visible THEN "shown" ELSE "hidden"
    /\ UNCHANGED <<helper, conn, backlog, server, menu, target, file, overlay>>

UiWrites ==
    /\ ui \in {"shown", "hidden"}
    /\ \E ok \in Unless("write") : file' = Written(ui = "shown", ok)
    /\ ui' = "idle"
    /\ UNCHANGED <<helper, conn, backlog, server, menu, target, overlay>>

\* The game stops or starts to present, or its capture ends and another begins.
TargetChanges ==
    /\ "target" \in Faults
    /\ \E t \in {"none", "capture", "live"} \ {target} :
        /\ target' = t
        /\ IF t = "none"
           THEN /\ file' = [visible |-> FALSE, odd |-> FALSE]
                /\ overlay' = [visible |-> FALSE, progress |-> 0, plan |-> FALSE]
           ELSE UNCHANGED <<file, overlay>>
    /\ UNCHANGED <<helper, conn, backlog, server, ui, menu>>

\* Two seconds without input (WATCHDOG_TIMEOUT).
InputAges ==
    /\ menu.visible /\ ~menu.stale
    /\ \/ "slow" \in Faults
       \/ ~helper.alive
    /\ menu' = [menu EXCEPT !.stale = TRUE]
    /\ UNCHANGED <<helper, conn, backlog, server, ui, target, file, overlay>>

\* Variant of Advanced: the exit animation never ends.
AdvancedOneWay(o) == IF o.visible THEN [o EXCEPT !.progress = Min({@ + 1, AnimSteps})] ELSE o
\* presentation_finished: poll the block, then advance the animation.
Advanced(o) ==
    IF o.visible THEN [o EXCEPT !.progress = Min({@ + 1, AnimSteps})]
    ELSE [o EXCEPT !.progress = Max({@ - 1, 0})]
Presented ==
    /\ target # "none"
    /\ LET seen == IF file.odd THEN overlay ELSE [overlay EXCEPT !.visible = file.visible]
           next == Advanced(seen) IN
        overlay' = [next EXCEPT !.plan = next.visible \/ next.progress > 0]
    /\ UNCHANGED <<helper, conn, backlog, server, ui, menu, target, file>>

-----------------------------------------------------------------------------
Next ==
    \/ KeyToggle \/ KeyClose \/ KeySave \/ SaveAfterClose \/ Pointer \/ Ping
    \/ HelperAnswered \/ HelperKilled \/ HelperStarted
    \/ Accept \/ Read \/ Watch \/ Apply \/ Snapshot \/ Write \/ Reply
    \/ UiBegins \/ UiSnapshot \/ UiWrites \/ TargetChanges \/ InputAges \/ Presented

\* The helper's loop pings and takes answers, the control thread and the
\* application finish what they began, the game presents.
Fairness ==
    /\ WF_vars(Ping) /\ WF_vars(SaveAfterClose) /\ WF_vars(HelperAnswered)
    /\ WF_vars(Accept \/ Read \/ Watch \/ Apply \/ Snapshot \/ Write \/ Reply)
    /\ WF_vars(UiSnapshot \/ UiWrites) /\ WF_vars(Presented)

Spec == Init /\ [][Next]_vars /\ Fairness

-----------------------------------------------------------------------------
Cmd == {"toggle", "escape", "ping", "press", "release", "shortcut"} \cup Target

TypeOK ==
    /\ helper.open <=> helper.stream # 0
    /\ helper.grabbed => helper.open
    /\ helper.wait # "none" <=> helper.on # 0
    /\ \A c \in Conn : /\ conn[c].stage \in {"free", "open", "done"}
                       /\ conn[c].req \in UNION {[1..n -> Cmd] : n \in 0..2}
                       /\ conn[c].resp \in {"none", "ok", "grab", "release", "error"}
    /\ menu.pressed \in Target \cup {"none"} /\ (menu.pressed # "none" => menu.visible)
    /\ overlay.progress \in 0..AnimSteps

\* Nothing is under way: no request, no connection, no publication.
Quiet == /\ helper.wait = "none" /\ ~helper.open /\ helper.then = "none"
         /\ server.pc = "accept" /\ backlog = <<>> /\ ui = "idle"

\* Once nothing is under way the file shows the menu as the daemon has it: the
\* helper's own close on an error repairs the answer that returned before its
\* publication (replay_menu_button, close_menu).
PublishedWhenQuiet == Quiet /\ target # "none" /\ ~file.odd => file.visible = menu.visible

\* A menu closed for good disappears from the game (update_replay_menu of the
\* overlay), whatever ended it: a click, a key, a failed save, a late answer.
MenuGoesAway == <>[](~menu.visible) => <>[](~overlay.plan)

\* The helper does not keep the mice for a menu that is closed: the next
\* ping is answered with RELEASE (watchdog_action, request_keeps_menu_open).
GrabReleased == (helper.grabbed /\ ~menu.visible) ~> (~helper.grabbed \/ menu.visible)
-----------------------------------------------------------------------------
(* The inductive invariant of PublishedWhenQuiet. *)

\* What may fail in this theorem: everything but publications of the application,
\* changes of the render target, and a kill together with a failing save. Each of
\* those three breaks PublishedWhenQuiet, as TLC shows.
Calm ==
    /\ "ui" \notin Faults /\ "target" \notin Faults
    /\ ~("kill" \in Faults /\ "save" \in Faults)

\* The control thread's places; Busy: it has a command.
Pcs == {"accept", "read", "watch", "apply", "snap", "write", "reply"}
Busy == {"watch", "apply", "snap", "write", "reply"}
\* Commands by which the helper closes the menu.
Closers == {"toggle", "escape"}
ConnRec ==
    [stage : {"free", "open", "done"}, req : Seq(Cmd),
     resp : {"none", "ok", "grab", "release", "error"}, client : BOOLEAN]
\* What the variables hold in a calm system.
Types ==
    /\ helper \in [alive : BOOLEAN, open : BOOLEAN, grabbed : BOOLEAN, stream : Conn \cup {0},
                   wait : {"none", "open", "pointer", "save", "close", "closeAnew"},
                   on : Conn \cup {0}, cmd : Cmd \cup {"none"}, then : {"none", "save"}]
    /\ conn \in [Conn -> ConnRec]
    /\ backlog \in Seq(Conn)
    /\ server \in [pc : Pcs, on : Conn \cup {0}, cmd : Cmd \cup {"none"},
                   result : {"none", "ok", "grab", "release", "error", "ask"}, snap : BOOLEAN]
    /\ menu.visible \in BOOLEAN
    /\ DOMAIN menu = {"visible", "pressed", "cursor", "stale"}
    /\ file \in [visible : BOOLEAN, odd : BOOLEAN]
    /\ ui = "idle" /\ target = "live"

\* Connection c is not accepted yet.
Waited(c) == \E i \in 1..Len(backlog) : backlog[i] = c

\* What the two ends of a connection still hold.
Ends ==
    \A c \in Conn :
        /\ conn[c].stage = "free" => conn[c] = FreeConn
        /\ conn[c].stage = "done" => conn[c].client /\ conn[c].req = <<>>
        /\ conn[c].stage = "open" => c = server.on \/ Waited(c)
        /\ conn[c].client => c = helper.stream \/ c = helper.on

\* The control thread and the connection it is with.
Served ==
    /\ server.pc = "accept" <=> server.on = 0
    /\ server.on # 0 => conn[server.on].stage = "open"
    /\ server.pc \in Busy => server.cmd \in Cmd
    /\ server.pc \in {"snap", "write", "reply"} => server.result # "none"

\* The backlog: whole first requests, each on a connection of its own.
Unread ==
    /\ \A i \in 1..Len(backlog) :
        /\ conn[backlog[i]].stage = "open" /\ conn[backlog[i]].resp = "none"
        /\ backlog[i] # server.on /\ backlog[i] # helper.stream
        /\ \E cmd \in Closers \cup {"shortcut"} : conn[backlog[i]].req = <<cmd>>
    /\ \A i, j \in 1..Len(backlog) : backlog[i] = backlog[j] => i = j

Sockets == Ends /\ Served /\ Unread

\* What the helper waits for on which connection.
Modes ==
    /\ helper.open <=> helper.stream # 0
    /\ helper.wait # "none" <=> helper.on # 0
    /\ helper.stream # 0 => conn[helper.stream].client /\ conn[helper.stream].stage # "free"
    /\ helper.on # 0 => conn[helper.on].client /\ conn[helper.on].stage # "free"
    /\ helper.wait \in {"open", "save"} => ~helper.open
    /\ helper.wait \in {"pointer", "close"} => helper.open /\ helper.on = helper.stream
    /\ helper.wait = "closeAnew" => helper.open /\ helper.on # helper.stream
    /\ helper.wait \in {"close", "closeAnew"} => helper.cmd \in Closers
    /\ helper.open /\ helper.then = "save" => helper.wait \in {"close", "closeAnew"}
    /\ helper.grabbed => helper.open

\* The one request on connection c is unread, being served, or answered.
Single(c) ==
    /\ server.on = c
    /\ \/ server.pc = "read" /\ conn[c].req = <<helper.cmd>> /\ conn[c].resp = "none"
       \/ server.pc \in Busy /\ conn[c].req = <<>> /\ conn[c].resp = "none"
       \/ server.pc = "read" /\ conn[c].req = <<>> /\ conn[c].resp # "none"

\* Between two requests nothing is on the stream; a request is on it once.
InFlight ==
    /\ helper.open /\ helper.wait = "none" =>
        LET c == helper.stream IN
        \/ conn[c].stage = "done"
        \/ server.on = c /\ server.pc = "read" /\ conn[c].req = <<>> /\ conn[c].resp = "none"
    /\ helper.wait = "pointer" => conn[helper.on].stage = "done" \/ Single(helper.on)
    /\ helper.wait = "open" =>
        \/ conn[helper.on].stage = "done"
        \/ Single(helper.on)
        \/ Waited(helper.on) /\ conn[helper.on].req = <<helper.cmd>>

\* A request that publishes the menu waits to be accepted.
HasPub == \E i \in 1..Len(backlog) : \E cmd \in Closers : conn[backlog[i]].req = <<cmd>>

\* A button release is not read yet, or read and not applied yet.
ReleaseUnread(c) == \E i \in 1..Len(conn[c].req) : conn[c].req[i] = "release"
ReleaseTaken == server.pc \in {"watch", "apply"} /\ server.cmd = "release"

\* Whoever released the button still waits, or will close.
Answerable ==
    "kill" \notin Faults =>
    /\ \A c \in Conn : ReleaseUnread(c) =>
        /\ server.on = c
        /\ \/ helper.wait = "pointer" /\ helper.on = c
           \/ /\ helper.wait = "close" /\ helper.on = c /\ conn[c].resp = "none"
              /\ server.pc = "read" /\ conn[c].req = <<"release", helper.cmd>>
           \/ HasPub
    /\ ReleaseTaken =>
        \/ helper.wait = "pointer" /\ helper.on = server.on
        \/ /\ helper.wait = "close" /\ helper.on = server.on /\ conn[server.on].resp = "none"
           /\ conn[server.on].req = <<helper.cmd>>
        \/ HasPub

\* The file can be read and shows another menu.
Differ == ~file.odd /\ file.visible # menu.visible
Publishing == server.pc \in {"snap", "write"}
Publishes(cmd) == cmd \notin {"release", "shortcut"}
Failing == server.pc = "reply" /\ server.result = "error"
\* What will publish the menu after a failed release did not: a command under way,
\* or the helper, which will see the error and close.
Repairs ==
    \/ server.pc \in {"watch", "apply"} /\ Publishes(server.cmd)
    \/ server.pc = "read" /\ conn[server.on].req # <<>> /\ Publishes(Head(conn[server.on].req))
    \/ HasPub
    \/ /\ helper.wait = "pointer"
       /\ conn[helper.on].resp = "error" \/ (Failing /\ server.on = helper.on)
    \/ helper.wait = "close" /\ conn[helper.on].resp \in {"none", "error"} /\
       \/ conn[helper.on].stage = "done"
       \/ Failing /\ server.on = helper.on /\ conn[helper.on].req = <<helper.cmd>>

\* The snapshot is current, and a difference is being published or will be.
Publication ==
    /\ server.pc = "write" => server.snap = menu.visible
    /\ Differ => Publishing \/ ("save" \in Faults /\ Repairs)

\* A dead helper owns nothing.
Living == helper.wait # "none" \/ helper.open => helper.alive

\* The inductive invariant.
IInv == Types /\ Sockets /\ Modes /\ InFlight /\ Answerable /\ Publication

-----------------------------------------------------------------------------
(* Its proof. *)

\* A daemon and a helper that have just started satisfy the invariant.
LEMMA InitHolds == Calm /\ Init => IInv
  <1> SUFFICES ASSUME Calm, Init PROVE IInv OBVIOUS
  <1> USE ControlBounds
  <1>1. Types
    BY DEF Calm, Init, Types, ConnRec, FreeConn, Resting, Waiting, ClosedMenu, Pcs, Cmd
  <1>2. Sockets
    BY DEF Init, Sockets, Ends, Served, Unread, FreeConn, Resting, Waiting, Waited, Busy
  <1>3. Modes
    BY DEF Init, Modes, Resting
  <1>4. InFlight
    BY DEF Init, InFlight, Resting
  <1>5. Answerable
    BY DEF Init, Answerable, FreeConn, Waiting, ReleaseUnread, ReleaseTaken
  <1>6. Publication
    BY DEF Init, Publication, Differ, Waiting, ClosedMenu
  <1> QED BY <1>1, <1>2, <1>3, <1>4, <1>5, <1>6 DEF IInv

\* A new connection takes a descriptor that no end holds.
LEMMA FreshIsUnused == Unused # {} => Fresh \in Conn /\ conn[Fresh].stage = "free"
  BY DEF Unused, Fresh

\* Sent appends the command to one connection, unless the server hung up on it;
\* every other connection is left alone.
LEMMA SentOne ==
  ASSUME NEW b \in [Conn -> ConnRec], NEW s \in Conn, NEW cmd \in Cmd, NEW d, d = Sent(b, s, cmd)
  PROVE  /\ d \in [Conn -> ConnRec]
         /\ \A c \in Conn : c # s => d[c] = b[c]
         /\ d[s].stage = b[s].stage /\ d[s].client = b[s].client
         /\ b[s].stage = "done" => d[s].req = b[s].req /\ d[s].resp = "none"
         /\ b[s].stage # "done" => d[s].req = Append(b[s].req, cmd) /\ d[s].resp = b[s].resp
  <1> PICK r : r = b[s] OBVIOUS
  <1>1. r \in ConnRec OBVIOUS
  <1>2. d[s] = IF r.stage = "done" THEN [r EXCEPT !.resp = "none"] ELSE [r EXCEPT !.req = Append(r.req, cmd)]
    <2>1. d[s] = IF b[s].stage = "done" THEN [b[s] EXCEPT !.resp = "none"]
                 ELSE [b[s] EXCEPT !.req = Append(b[s].req, cmd)]
      BY DEF Sent
    <2> QED BY <2>1
  <1>3. \A c \in Conn : c # s => d[c] = b[c] BY DEF Sent
  <1>4. d[s] \in ConnRec
    <2>1. [r EXCEPT !.resp = "none"] \in ConnRec BY <1>1 DEF ConnRec
    <2>2. r.req \in Seq(Cmd) BY <1>1 DEF ConnRec
    <2>3. Append(r.req, cmd) \in Seq(Cmd) BY <2>2
    <2>4. PICK q \in Seq(Cmd) : q = Append(r.req, cmd) BY <2>3
    <2>5. [r EXCEPT !.req = q] \in ConnRec BY <1>1 DEF ConnRec
    <2> QED BY <1>2, <2>1, <2>4, <2>5
  <1>5. d \in [Conn -> ConnRec] BY <1>3, <1>4 DEF Sent
  <1>6. d[s].stage = r.stage BY <1>1, <1>2 DEF ConnRec
  <1>7. d[s].client = r.client BY <1>1, <1>2, Zenon DEF ConnRec
  <1>8. r.stage = "done" => d[s].req = r.req /\ d[s].resp = "none" BY <1>1, <1>2 DEF ConnRec
  <1>9. r.stage # "done" => d[s].req = Append(r.req, cmd) /\ d[s].resp = r.resp BY <1>1, <1>2 DEF ConnRec
  <1> QED BY <1>3, <1>5, <1>6, <1>7, <1>8, <1>9

\* Connected makes one connection with one unread command and no answer.
LEMMA ConnectedOne ==
  ASSUME Types, NEW s \in Conn, NEW cmd \in Cmd, NEW d, d = Connected(conn, s, cmd)
  PROVE  /\ d \in [Conn -> ConnRec]
         /\ \A c \in Conn : c # s => d[c] = conn[c]
         /\ d[s].stage = "open" /\ d[s].client /\ d[s].req = <<cmd>> /\ d[s].resp = "none"
  BY DEF Types, ConnRec, Connected

\* Dropped closes the client end of exactly the given connections; what the
\* client had sent on them stays readable, a finished one is freed.
LEMMA DroppedOnes ==
  ASSUME Types, NEW S, NEW d, d = Dropped(conn, S)
  PROVE  /\ d \in [Conn -> ConnRec]
         /\ \A c \in Conn : c \notin S => d[c] = conn[c]
         /\ \A c \in Conn : c \in S => /\ ~d[c].client
                                       /\ d[c].resp = "none"
         /\ \A c \in Conn : c \in S /\ conn[c].stage = "done" => d[c] = FreeConn
         /\ \A c \in Conn : c \in S /\ conn[c].stage # "done" => d[c].stage = conn[c].stage /\ d[c].req = conn[c].req
  <1>1. \A c \in Conn : c \notin S => d[c] = conn[c] BY DEF Dropped
  <1>2. ASSUME NEW c \in Conn, c \in S
        PROVE  /\ d[c] \in ConnRec
               /\ ~d[c].client /\ d[c].resp = "none"
               /\ conn[c].stage = "done" => d[c] = FreeConn
               /\ conn[c].stage # "done" => d[c].stage = conn[c].stage /\ d[c].req = conn[c].req
    <2> PICK r : r = conn[c] OBVIOUS
    <2>1. r \in ConnRec BY DEF Types
    <2>2. d[c] = IF r.stage = "done" THEN FreeConn ELSE [r EXCEPT !.client = FALSE, !.resp = "none"]
      BY <1>2 DEF Dropped
    <2>3. FreeConn \in ConnRec BY DEF FreeConn, ConnRec
    <2>4. d[c] \in ConnRec BY <2>1, <2>2, <2>3 DEF ConnRec
    <2>5. ~d[c].client BY <2>1, <2>2 DEF ConnRec, FreeConn
    <2>6. d[c].resp = "none" BY <2>1, <2>2 DEF ConnRec, FreeConn
    <2>7. r.stage # "done" => d[c].stage = r.stage /\ d[c].req = r.req BY <2>1, <2>2 DEF ConnRec
    <2> QED BY <2>2, <2>4, <2>5, <2>6, <2>7
  <1>3. d \in [Conn -> ConnRec]
    <2>1. \A c \in Conn : d[c] \in ConnRec BY <1>1, <1>2 DEF Types
    <2> QED BY <2>1 DEF Dropped
  <1> QED BY <1>1, <1>2, <1>3

\* Finished ends one connection on the server side: freed when the client has
\* closed its end too, otherwise kept with its last answer.
LEMMA FinishedOne ==
  ASSUME NEW b \in [Conn -> ConnRec], NEW s \in Conn, NEW d, d = Finished(b, s)
  PROVE  /\ d \in [Conn -> ConnRec]
         /\ \A c \in Conn : c # s => d[c] = b[c]
         /\ b[s].client => d[s].stage = "done" /\ d[s].client /\ d[s].req = <<>> /\ d[s].resp = b[s].resp
         /\ ~b[s].client => d[s] = FreeConn
  <1> PICK r : r = b[s] OBVIOUS
  <1>1. r \in ConnRec OBVIOUS
  <1>2. d[s] = IF r.client THEN [r EXCEPT !.stage = "done", !.req = <<>>] ELSE FreeConn BY DEF Finished
  <1>3. \A c \in Conn : c # s => d[c] = b[c] BY DEF Finished
  <1>4. FreeConn \in ConnRec BY DEF FreeConn, ConnRec
  <1>5. d[s] \in ConnRec
    <2>0. <<>> \in Seq(Cmd) OBVIOUS
    <2>1. PICK q \in Seq(Cmd) : q = <<>> BY <2>0
    <2>2. [r EXCEPT !.stage = "done", !.req = q] \in ConnRec BY <1>1 DEF ConnRec
    <2> QED BY <1>2, <1>4, <2>1, <2>2
  <1>6. d \in [Conn -> ConnRec] BY <1>3, <1>5 DEF Finished
  <1>7. r.client => d[s].stage = "done" /\ d[s].req = <<>> /\ d[s].resp = r.resp BY <1>1, <1>2 DEF ConnRec
  <1>8. r.client => d[s].client BY <1>1, <1>2 DEF ConnRec
  <1> QED BY <1>2, <1>3, <1>6, <1>7, <1>8

\* Connection s with answer r.
Reset(s, r) == [conn EXCEPT ![s].resp = r]

\* Setting or clearing an answer changes nothing else.
LEMMA RespOne ==
  ASSUME Types, NEW s \in Conn, NEW r \in {"none", "ok", "grab", "release", "error"}, NEW d,
         d = Reset(s, r)
  PROVE  /\ d \in [Conn -> ConnRec]
         /\ \A c \in Conn : c # s => d[c] = conn[c]
         /\ d[s].stage = conn[s].stage /\ d[s].client = conn[s].client
         /\ d[s].req = conn[s].req /\ d[s].resp = r
  <1> PICK x : x = conn[s] OBVIOUS
  <1>1. x \in ConnRec BY DEF Types
  <1>2. d[s] = [x EXCEPT !.resp = r] BY DEF Types, Reset
  <1>3. \A c \in Conn : c # s => d[c] = conn[c] BY DEF Types, Reset
  <1>4. d[s] \in ConnRec BY <1>1, <1>2 DEF ConnRec
  <1>5. d \in [Conn -> ConnRec] BY <1>3, <1>4 DEF Types, Reset
  <1>6. d[s].stage = x.stage /\ d[s].req = x.req /\ d[s].resp = r BY <1>1, <1>2 DEF ConnRec
  <1>7. d[s].client = x.client BY <1>1, <1>2 DEF ConnRec
  <1> QED BY <1>3, <1>5, <1>6, <1>7

\* The fields of the helper.
HelperRec ==
    [alive : BOOLEAN, open : BOOLEAN, grabbed : BOOLEAN, stream : Conn \cup {0},
     wait : {"none", "open", "pointer", "save", "close", "closeAnew"},
     on : Conn \cup {0}, cmd : Cmd \cup {"none"}, then : {"none", "save"}]

\* Waits keeps the menu, the grab and the stream of the helper.
LEMMA WaitsRec ==
  ASSUME Types, NEW goal \in {"none", "open", "pointer", "save", "close", "closeAnew"},
         NEW c \in Conn, NEW cmd \in Cmd, NEW h, h = Waits(goal, c, cmd)
  PROVE  /\ h \in HelperRec
         /\ h.wait = goal /\ h.on = c /\ h.cmd = cmd /\ h.stream = helper.stream /\ h.then = helper.then
         /\ h.open = helper.open
         /\ h.grabbed = helper.grabbed
  <1> PICK g : g = helper OBVIOUS
  <1>1. g \in HelperRec BY DEF Types, HelperRec
  <1>2. h = [g EXCEPT !.wait = goal, !.on = c, !.cmd = cmd] BY DEF Waits
  <1>3. h \in HelperRec BY <1>1, <1>2 DEF HelperRec
  <1>4. h.wait = goal /\ h.on = c /\ h.cmd = cmd /\ h.stream = g.stream /\ h.then = g.then
    BY <1>1, <1>2 DEF HelperRec
  <1>5. h.open = g.open BY <1>1, <1>2 DEF HelperRec
  <1>6. h.grabbed = g.grabbed BY <1>1, <1>2 DEF HelperRec
  <1> QED BY <1>3, <1>4, <1>5, <1>6

\* Noting the save that follows a close keeps everything else of the helper.
LEMMA ThenRec ==
  ASSUME NEW h \in HelperRec, NEW then \in {"none", "save"}, NEW k, k = [h EXCEPT !.then = then]
  PROVE  /\ k \in HelperRec
         /\ k.wait = h.wait /\ k.on = h.on /\ k.cmd = h.cmd /\ k.stream = h.stream /\ k.then = then
         /\ k.open = h.open
         /\ k.grabbed = h.grabbed
  <1>1. k \in HelperRec BY DEF HelperRec
  <1>2. k.wait = h.wait /\ k.on = h.on /\ k.cmd = h.cmd /\ k.stream = h.stream /\ k.then = then
    BY DEF HelperRec
  <1>3. k.open = h.open BY DEF HelperRec
  <1>4. k.grabbed = h.grabbed BY DEF HelperRec
  <1> QED BY <1>1, <1>2, <1>3, <1>4

\* A request on the stream of the open menu (MenuCapture.request) keeps the
\* invariant: a press or a ping waits for its answer, a close waits as one.
LEMMA SendKeeps ==
  ASSUME IInv, NEW goal \in {"pointer", "close"}, NEW cmd \in Cmd, NEW then \in {"none", "save"},
         helper.open, helper.wait = "none", helper.then = "none",
         goal = "close" => cmd \in Closers, then = "save" => goal = "close",
         Request(goal, cmd, then), UNCHANGED <<server, ui, menu, target, file>>
  PROVE  IInv'
  <1> USE ControlBounds
  <1>0. Types BY DEF IInv
  <1> PICK s : s = helper.stream OBVIOUS
  <1>1. s \in Conn /\ conn[s].stage \in {"open", "done"} /\ helper.on = 0 BY DEF IInv, Modes, Types, ConnRec
  <1>2. /\ conn' \in [Conn -> ConnRec]
        /\ \A c \in Conn : c # s => conn'[c] = conn[c]
        /\ conn'[s].stage = conn[s].stage /\ conn'[s].client = conn[s].client
        /\ conn[s].stage = "done" => conn'[s].req = conn[s].req /\ conn'[s].resp = "none"
        /\ conn[s].stage # "done" => conn'[s].req = Append(conn[s].req, cmd) /\ conn'[s].resp = conn[s].resp
    <2>1. conn' = Sent(conn, s, cmd) BY DEF Request
    <2>2. PICK d : d = conn' OBVIOUS
    <2>3. d = Sent(conn, s, cmd) BY <2>1, <2>2
    <2>4. s \in Conn /\ cmd \in Cmd /\ conn \in [Conn -> ConnRec] BY <1>1 DEF IInv, Types
    <2>5. /\ d \in [Conn -> ConnRec]
          /\ \A c \in Conn : c # s => d[c] = conn[c]
          /\ d[s].stage = conn[s].stage /\ d[s].client = conn[s].client
          /\ conn[s].stage = "done" => d[s].req = conn[s].req /\ d[s].resp = "none"
          /\ conn[s].stage # "done" => d[s].req = Append(conn[s].req, cmd) /\ d[s].resp = conn[s].resp
      BY ONLY <2>3, <2>4, SentOne
    <2> QED BY <2>2, <2>5
  <1>3. /\ helper' \in HelperRec
        /\ helper'.wait = goal /\ helper'.on = s /\ helper'.cmd = cmd /\ helper'.stream = s /\ helper'.then = then
        /\ helper'.open = helper.open
        /\ helper'.grabbed = helper.grabbed
    <2>1. PICK h : h = Waits(goal, s, cmd) OBVIOUS
    <2>2. helper' = [h EXCEPT !.then = then] BY <2>1 DEF Request
    <2>a. goal \in {"none", "open", "pointer", "save", "close", "closeAnew"} /\ s \in Conn /\ cmd \in Cmd
      BY <1>1
    <2>3. h \in HelperRec /\ h.wait = goal /\ h.on = s /\ h.cmd = cmd /\ h.stream = helper.stream
      BY ONLY <1>0, <2>a, <2>1, WaitsRec
    <2>4. h.open = helper.open /\ h.grabbed = helper.grabbed BY ONLY <1>0, <2>a, <2>1, WaitsRec
    <2>5. PICK k : k = helper' OBVIOUS
    <2>6. k = [h EXCEPT !.then = then] BY <2>2, <2>5
    <2>7. then \in {"none", "save"} OBVIOUS
    <2>8. /\ k \in HelperRec
          /\ k.wait = h.wait /\ k.on = h.on /\ k.cmd = h.cmd /\ k.stream = h.stream /\ k.then = then
      BY ONLY <2>3, <2>6, <2>7, ThenRec
    <2>9. k.open = h.open /\ k.grabbed = h.grabbed BY ONLY <2>3, <2>6, <2>7, ThenRec
    <2> QED BY <2>3, <2>4, <2>5, <2>8, <2>9
  <1>4. backlog' = backlog BY DEF Request
  <1>5. \/ conn[s].stage = "done"
        \/ /\ server.on = s /\ server.pc = "read" /\ conn[s].req = <<>> /\ conn[s].resp = "none"
           /\ conn'[s].req = <<cmd>>
    BY <1>1, <1>2 DEF IInv, InFlight
  <1>6. Types' BY <1>2, <1>3, <1>4 DEF IInv, Types, HelperRec
  <1>7. \A i \in 1..Len(backlog) : backlog[i] \in Conn /\ backlog[i] # s BY DEF IInv, Types, Sockets, Unread
  <1>8. Sockets'
    <2>1. \A c \in Conn : conn'[c].stage = conn[c].stage /\ (conn'[c].client <=> conn[c].client) BY <1>2
    <2>2. \A c \in Conn : Waited(c)' <=> Waited(c) BY <1>4 DEF Waited
    <2>3. \A c \in Conn : conn'[c].stage = "free" => conn'[c] = FreeConn BY <1>1, <1>2 DEF IInv, Sockets, Ends
    <2>4. \A c \in Conn : conn'[c].stage = "done" => conn'[c].client /\ conn'[c].req = <<>>
      BY <1>1, <1>2 DEF IInv, Sockets, Ends
    <2>5. \A c \in Conn : conn'[c].client => c = helper'.stream \/ c = helper'.on
      BY <2>1, <1>1, <1>3 DEF IInv, Sockets, Ends
    <2>6. Ends' BY <2>1, <2>2, <2>3, <2>4, <2>5 DEF IInv, Sockets, Ends
    <2>7. Served' BY <2>1 DEF IInv, Sockets, Served, Types
    <2>8. \A i \in 1..Len(backlog) : conn'[backlog[i]] = conn[backlog[i]] BY <1>2, <1>7
    <2>9. Unread' BY <1>3, <1>4, <1>7, <2>8 DEF IInv, Sockets, Unread
    <2> QED BY <2>6, <2>7, <2>9 DEF Sockets
  <1>9. Modes' BY <1>1, <1>2, <1>3 DEF IInv, Modes, Closers
  <1>10. InFlight' BY <1>1, <1>2, <1>3, <1>5 DEF IInv, InFlight, Single
  <1>11. HasPub' <=> HasPub
    <2>1. \A i \in 1..Len(backlog) : conn'[backlog[i]] = conn[backlog[i]] BY <1>2, <1>7
    <2> QED BY <1>4, <2>1 DEF HasPub
  <1>12. Answerable'
    <2>1. \A c \in Conn : c # s => (ReleaseUnread(c)' <=> ReleaseUnread(c)) BY <1>2 DEF ReleaseUnread
    <2>2. ReleaseUnread(s)' => server.on = s /\ goal = "pointer"
      BY <1>1, <1>2, <1>5 DEF ReleaseUnread, Closers, IInv, Sockets, Ends
    <2>3. ReleaseTaken' <=> ReleaseTaken BY DEF ReleaseTaken
    <2> QED BY <1>1, <1>3, <1>11, <2>1, <2>2, <2>3 DEF IInv, Answerable
  <1>13. Publication'
    <2>1. Differ' <=> Differ BY DEF Differ
    <2>2. Publishing' <=> Publishing BY DEF Publishing
    <2>3. Repairs => Repairs'
      <3>1. server.pc = "read" => server.on \in Conn BY DEF IInv, Types, Sockets, Served
      <3>2. server.pc = "read" /\ conn[server.on].req # <<>> => conn'[server.on] = conn[server.on]
        BY <1>2, <1>5, <3>1 DEF IInv, Sockets, Ends
      <3> QED BY <1>11, <3>2 DEF Repairs
    <2> QED BY <2>1, <2>2, <2>3 DEF IInv, Publication
  <1> QED BY <1>6, <1>8, <1>9, <1>10, <1>12, <1>13 DEF IInv

\* A request on a connection of its own keeps the invariant; the second attempt
\* of close_menu puts a publishing command into the backlog.
LEMMA AnewKeeps ==
  ASSUME IInv, NEW goal \in {"open", "save", "closeAnew"}, NEW cmd \in Cmd,
         \/ goal = "open" /\ cmd = "toggle" /\ ~helper.open /\ helper.wait = "none"
         \/ goal = "save" /\ cmd = "shortcut" /\ ~helper.open /\ helper.wait = "none"
         \/ goal = "closeAnew" /\ cmd = helper.cmd /\ helper.wait = "close",
         RequestAnew(goal, cmd), UNCHANGED <<server, ui, menu, target, file>>
  PROVE  IInv'
  <1> USE ControlBounds
  <1>0. Types BY DEF IInv
  <1> PICK s : s = Fresh OBVIOUS
  <1>1. s \in Conn /\ conn[s].stage = "free" BY FreshIsUnused DEF RequestAnew
  <1>2. /\ conn' \in [Conn -> ConnRec]
        /\ \A c \in Conn : c # s => conn'[c] = conn[c]
        /\ conn'[s].stage = "open" /\ conn'[s].client /\ conn'[s].req = <<cmd>> /\ conn'[s].resp = "none"
    <2>1. PICK d : d = conn' OBVIOUS
    <2>2. d = Connected(conn, s, cmd) BY <2>1 DEF RequestAnew
    <2>3. cmd \in Cmd OBVIOUS
    <2>4. /\ d \in [Conn -> ConnRec]
          /\ \A c \in Conn : c # s => d[c] = conn[c]
          /\ d[s].stage = "open" /\ d[s].client /\ d[s].req = <<cmd>> /\ d[s].resp = "none"
      BY ONLY <1>0, <1>1, <2>2, <2>3, ConnectedOne
    <2> QED BY <2>1, <2>4
  <1>3. /\ helper' \in HelperRec
        /\ helper'.wait = goal /\ helper'.on = s /\ helper'.cmd = cmd
        /\ helper'.stream = helper.stream /\ helper'.then = helper.then
        /\ helper'.open = helper.open
        /\ helper'.grabbed = helper.grabbed
    <2>1. PICK h : h = helper' OBVIOUS
    <2>2. h = Waits(goal, s, cmd) BY <2>1 DEF RequestAnew
    <2>3. goal \in {"none", "open", "pointer", "save", "close", "closeAnew"} /\ cmd \in Cmd OBVIOUS
    <2>4. /\ h \in HelperRec
          /\ h.wait = goal /\ h.on = s /\ h.cmd = cmd /\ h.stream = helper.stream /\ h.then = helper.then
      BY ONLY <1>0, <1>1, <2>2, <2>3, WaitsRec
    <2>5. h.open = helper.open /\ h.grabbed = helper.grabbed BY ONLY <1>0, <1>1, <2>2, <2>3, WaitsRec
    <2> QED BY <2>1, <2>4, <2>5
  <1>4. /\ Len(backlog) \in Nat /\ Len(backlog') = Len(backlog) + 1 /\ backlog' \in Seq(Conn)
        /\ \A i \in 1..Len(backlog) : backlog'[i] = backlog[i]
        /\ backlog'[Len(backlog) + 1] = s
    BY <1>0, <1>1 DEF Types, RequestAnew
  <1>5. /\ s # server.on /\ s # helper.stream /\ s # helper.on
        /\ \A i \in 1..Len(backlog) : backlog[i] \in Conn /\ backlog[i] # s
    BY <1>1 DEF IInv, Types, Sockets, Served, Unread, Modes
  <1>6. cmd \in Closers \cup {"shortcut"} BY DEF IInv, Modes, Closers
  <1>7. Types' BY <1>2, <1>3, <1>4 DEF IInv, Types, HelperRec
  <1>8. \A i \in 1..Len(backlog) : conn'[backlog[i]] = conn[backlog[i]] BY <1>2, <1>5
  <1>9. \A c \in Conn : Waited(c)' <=> c = s \/ Waited(c) BY <1>4 DEF Waited
  <1>10. Sockets'
    <2>1. \A c \in Conn : c # s => (conn'[c].client => c = helper'.stream)
      BY <1>2, <1>3 DEF IInv, Sockets, Ends, Modes
    <2>2. ASSUME NEW c \in Conn, c # s
          PROVE  /\ conn'[c].stage = "free" => conn'[c] = FreeConn
                 /\ conn'[c].stage = "done" => conn'[c].client /\ conn'[c].req = <<>>
                 /\ conn'[c].stage = "open" => c = server'.on \/ Waited(c)'
      BY <1>2, <1>9, <2>2 DEF IInv, Sockets, Ends
    <2>3. conn'[s].stage = "open" /\ Waited(s)' /\ helper'.on = s BY <1>1, <1>2, <1>3, <1>9
    <2>4. Ends' BY <2>1, <2>2, <2>3 DEF Ends
    <2>5. Served' BY <1>2, <1>5 DEF IInv, Sockets, Served, Types
    <2>6. Unread'
      <3>1. ASSUME NEW i \in 1..Len(backlog')
            PROVE  /\ conn'[backlog'[i]].stage = "open" /\ conn'[backlog'[i]].resp = "none"
                   /\ backlog'[i] # server'.on /\ backlog'[i] # helper'.stream
                   /\ \E x \in Closers \cup {"shortcut"} : conn'[backlog'[i]].req = <<x>>
        <4>1. CASE i = Len(backlog) + 1 BY <1>2, <1>3, <1>4, <1>5, <1>6, <4>1
        <4>2. CASE i \in 1..Len(backlog) 
          <5>1. backlog'[i] = backlog[i] /\ conn'[backlog'[i]] = conn[backlog[i]] BY <1>4, <1>8, <4>2
          <5>2. /\ conn[backlog[i]].stage = "open" /\ conn[backlog[i]].resp = "none"
                /\ backlog[i] # server.on /\ backlog[i] # helper.stream
                /\ \E x \in Closers \cup {"shortcut"} : conn[backlog[i]].req = <<x>>
            BY <4>2 DEF IInv, Sockets, Unread
          <5> QED BY <1>3, <5>1, <5>2
        <4> QED BY <1>4, <4>1, <4>2
      <3>2. ASSUME NEW i \in 1..Len(backlog'), NEW j \in 1..Len(backlog'), backlog'[i] = backlog'[j]
            PROVE  i = j
        BY <1>4, <1>5, <3>2 DEF IInv, Sockets, Unread
      <3> QED BY <3>1, <3>2 DEF Unread
    <2> QED BY <2>4, <2>5, <2>6 DEF Sockets
  <1>11. Modes' BY <1>1, <1>2, <1>3, <1>5 DEF IInv, Modes, Closers, Types
  <1>12. InFlight' BY <1>1, <1>2, <1>3, <1>9 DEF InFlight
  <1>13. HasPub => HasPub' BY <1>4, <1>8 DEF HasPub
  <1>14. goal = "closeAnew" => HasPub'
    <2>1. goal = "closeAnew" => cmd \in Closers BY DEF IInv, Modes
    <2>2. Len(backlog) + 1 \in 1..Len(backlog') BY <1>4
    <2> QED BY <1>2, <1>4, <2>1, <2>2 DEF HasPub
  <1>15. Answerable'
    <2>1. \A c \in Conn : c # s => (ReleaseUnread(c)' <=> ReleaseUnread(c)) BY <1>2 DEF ReleaseUnread
    <2>2. ~ReleaseUnread(s)' BY <1>2, <1>6 DEF ReleaseUnread, Closers
    <2>3. ReleaseTaken' <=> ReleaseTaken BY DEF ReleaseTaken
    <2> QED BY <1>3, <1>13, <1>14, <2>1, <2>2, <2>3 DEF IInv, Answerable
  <1>16. Publication'
    <2>1. Differ' <=> Differ BY DEF Differ
    <2>2. Publishing' <=> Publishing BY DEF Publishing
    <2>3. Repairs => Repairs'
      <3>1. server.pc = "read" => server.on \in Conn BY DEF IInv, Types, Sockets, Served
      <3>2. server.pc = "read" => conn'[server.on] = conn[server.on] BY <1>2, <1>5, <3>1
      <3> QED BY <1>13, <1>14, <3>2 DEF Repairs
    <2> QED BY <2>1, <2>2, <2>3 DEF IInv, Publication
  <1> QED BY <1>7, <1>10, <1>11, <1>12, <1>15, <1>16 DEF IInv

\* request_keeps_menu_open keeps the invariant: an answer other than OK is
\* followed by a close, which publishes what a failed release left unpublished.
LEMMA ForwardKeeps ==
  ASSUME IInv, helper.wait = "pointer",
         NEW r \in {"none", "ok", "grab", "release", "error", "failed"}, r = "ok" => conn[helper.on].resp = "ok",
         r # "ok" => conn[helper.on].resp # "ok",
         Forwarded(r), UNCHANGED <<server, ui, menu, target, file>>
  PROVE  IInv'
  <1> USE ControlBounds
  <1>0. Types BY DEF IInv
  <1> PICK s : s = helper.stream OBVIOUS
  <1>1. /\ s \in Conn /\ helper.on = s /\ conn[s].stage \in {"open", "done"} /\ helper.open
        /\ helper.then = "none" /\ conn[s].client
    BY DEF IInv, Modes, Types, ConnRec
  <1>2. backlog' = backlog BY DEF Forwarded
  <1>3. \A i \in 1..Len(backlog) : backlog[i] \in Conn /\ backlog[i] # s BY DEF IInv, Types, Sockets, Unread
  <1>4. conn[s].stage = "done" \/ (conn[s].stage = "open" /\ Single(s)) BY <1>1 DEF IInv, InFlight
  <1>5. conn[s].stage = "done" => conn[s].req = <<>> /\ server.on # s
    BY <1>1 DEF IInv, Sockets, Ends, Served
  <1>6. \A c \in Conn : Waited(c)' <=> Waited(c) BY <1>2 DEF Waited
  <1>7. server.pc # "accept" => server.on \in Conn BY DEF IInv, Types, Sockets, Served
  <1>8. CASE r = "ok"
    <2>1. conn[s].resp = "ok" BY <1>1, <1>8
    <2>2. /\ conn' \in [Conn -> ConnRec]
          /\ \A c \in Conn : c # s => conn'[c] = conn[c]
          /\ conn'[s].stage = conn[s].stage /\ conn'[s].client = conn[s].client
          /\ conn'[s].req = conn[s].req /\ conn'[s].resp = "none"
      <3>1. PICK d : d = conn' OBVIOUS
      <3>2. PICK x \in {"none", "ok", "grab", "release", "error"} : x = "none" OBVIOUS
      <3>3. d = Reset(s, x) BY <1>1, <1>8, <3>1, <3>2 DEF Forwarded, Reset
      <3>4. /\ d \in [Conn -> ConnRec]
            /\ \A c \in Conn : c # s => d[c] = conn[c]
            /\ d[s].stage = conn[s].stage /\ d[s].client = conn[s].client
            /\ d[s].req = conn[s].req /\ d[s].resp = x
        <4>1. s \in Conn /\ x \in {"none", "ok", "grab", "release", "error"} BY <1>1
        <4> QED BY ONLY <1>0, <4>1, <3>3, RespOne
      <3> QED BY <3>1, <3>2, <3>4
    <2>3. /\ helper' \in HelperRec
          /\ helper'.wait = "none" /\ helper'.on = 0 /\ helper'.stream = s /\ helper'.then = "none"
          /\ helper'.open = helper.open
          /\ helper'.grabbed = helper.grabbed
      <3> PICK g : g = helper OBVIOUS
      <3>1. g \in HelperRec BY DEF IInv, Types, HelperRec
      <3>2. helper' = [g EXCEPT !.wait = "none", !.on = 0, !.cmd = "none"] BY <1>8 DEF Forwarded
      <3>3. helper' \in HelperRec BY <3>1, <3>2 DEF HelperRec
      <3>4. helper'.wait = "none" /\ helper'.on = 0 /\ helper'.stream = g.stream /\ helper'.then = g.then
        BY <3>1, <3>2 DEF HelperRec
      <3>5. helper'.open = g.open BY <3>1, <3>2 DEF HelperRec
      <3>6. helper'.grabbed = g.grabbed BY <3>1, <3>2 DEF HelperRec
      <3> QED BY <1>1, <3>3, <3>4, <3>5, <3>6
    <2>4. conn[s].stage = "done" \/ (server.on = s /\ server.pc = "read" /\ conn[s].req = <<>>)
      BY <1>4, <2>1 DEF Single
    <2>5. \A c \in Conn : conn'[c].stage = conn[c].stage /\ conn'[c].req = conn[c].req BY <2>2
    <2>6. \A c \in Conn : conn'[c].client <=> conn[c].client BY <2>2
    <2>7. Types' BY <1>2, <2>2, <2>3 DEF IInv, Types, HelperRec
    <2>8. Sockets'
      <3>1. \A c \in Conn : conn'[c].stage = "free" => conn'[c] = FreeConn BY <1>1, <2>2 DEF IInv, Sockets, Ends
      <3>2. Ends' BY <1>1, <1>6, <2>3, <2>5, <2>6, <3>1 DEF IInv, Sockets, Ends
      <3>3. Served' BY <2>5 DEF IInv, Sockets, Served, Types
      <3>4. \A i \in 1..Len(backlog) : conn'[backlog[i]] = conn[backlog[i]] BY <1>3, <2>2
      <3>5. Unread' BY <1>2, <1>3, <2>3, <3>4 DEF IInv, Sockets, Unread
      <3> QED BY <3>2, <3>3, <3>5 DEF Sockets
    <2>9. Modes' BY <1>1, <2>2, <2>3 DEF IInv, Modes
    <2>10. InFlight' BY <2>2, <2>3, <2>4 DEF InFlight
    <2>11. HasPub' <=> HasPub
      <3>1. \A i \in 1..Len(backlog) : conn'[backlog[i]] = conn[backlog[i]] BY <1>3, <2>2
      <3> QED BY <1>2, <3>1 DEF HasPub
    <2>12. Answerable'
      <3>1. \A c \in Conn : ReleaseUnread(c)' => ReleaseUnread(c) /\ c # s
        BY <1>5, <2>4, <2>5 DEF ReleaseUnread
      <3>2. ReleaseTaken' => ReleaseTaken /\ server.on # s BY <1>5, <2>4 DEF ReleaseTaken
      <3> QED BY <1>1, <2>11, <3>1, <3>2 DEF IInv, Answerable
    <2>13. Publication'
      <3>1. Differ' <=> Differ BY DEF Differ
      <3>2. Publishing' <=> Publishing BY DEF Publishing
      <3>3. Repairs => Repairs'
        <4>1. ~(conn[helper.on].resp = "error" \/ (Failing /\ server.on = helper.on))
          BY <1>1, <1>5, <2>1, <2>4 DEF Failing
        <4>2. server.pc = "read" => conn'[server.on].req = conn[server.on].req BY <1>7, <2>5
        <4> QED BY <2>11, <4>1, <4>2 DEF Repairs
      <3> QED BY <3>1, <3>2, <3>3 DEF IInv, Publication
    <2> QED BY <2>7, <2>8, <2>9, <2>10, <2>12, <2>13 DEF IInv
  <1>9. CASE r # "ok"
    <2>2. /\ conn' \in [Conn -> ConnRec]
          /\ \A c \in Conn : c # s => conn'[c] = conn[c]
          /\ conn'[s].stage = conn[s].stage /\ conn'[s].client = conn[s].client /\ conn'[s].resp = "none"
          /\ conn[s].stage = "done" => conn'[s].req = conn[s].req
          /\ conn[s].stage # "done" => conn'[s].req = Append(conn[s].req, "escape")
      <3>1. PICK b : b = [conn EXCEPT ![s].resp = "none"] OBVIOUS
      <3>2. PICK x \in {"none", "ok", "grab", "release", "error"} : x = "none" OBVIOUS
      <3>3. b = Reset(s, x) BY <3>1, <3>2 DEF Reset
      <3>4. /\ b \in [Conn -> ConnRec]
            /\ \A c \in Conn : c # s => b[c] = conn[c]
            /\ b[s].stage = conn[s].stage /\ b[s].client = conn[s].client
            /\ b[s].req = conn[s].req /\ b[s].resp = x
        <4>1. s \in Conn /\ x \in {"none", "ok", "grab", "release", "error"} BY <1>1
        <4> QED BY ONLY <1>0, <4>1, <3>3, RespOne
      <3>5. PICK d : d = conn' OBVIOUS
      <3>6. PICK cmd \in Cmd : cmd = "escape" BY DEF Cmd
      <3>7. d = Sent(b, s, cmd) BY <1>9, <3>1, <3>5, <3>6 DEF Forwarded
      <3>8. /\ d \in [Conn -> ConnRec]
            /\ \A c \in Conn : c # s => d[c] = b[c]
            /\ d[s].stage = b[s].stage /\ d[s].client = b[s].client
            /\ b[s].stage = "done" => d[s].req = b[s].req /\ d[s].resp = "none"
            /\ b[s].stage # "done" => d[s].req = Append(b[s].req, cmd) /\ d[s].resp = b[s].resp
        <4>1. s \in Conn /\ cmd \in Cmd BY <1>1
        <4> QED BY ONLY <4>1, <3>4, <3>7, SentOne
      <3> QED BY <3>2, <3>4, <3>5, <3>6, <3>8
    <2>3. /\ helper' \in HelperRec
          /\ helper'.wait = "close" /\ helper'.on = s /\ helper'.cmd = "escape"
          /\ helper'.stream = s /\ helper'.then = "none"
          /\ helper'.open = helper.open
          /\ helper'.grabbed = helper.grabbed
      <3>1. PICK h : h = helper' OBVIOUS
      <3>2. PICK goal \in {"none", "open", "pointer", "save", "close", "closeAnew"} : goal = "close" OBVIOUS
      <3>3. PICK cmd \in Cmd : cmd = "escape" BY DEF Cmd
      <3>a. /\ s \in Conn /\ cmd \in Cmd
            /\ goal \in {"none", "open", "pointer", "save", "close", "closeAnew"} BY <1>1
      <3>4. h = Waits(goal, s, cmd) BY <1>9, <3>1, <3>2, <3>3 DEF Forwarded
      <3>5. /\ h \in HelperRec
            /\ h.wait = goal /\ h.on = s /\ h.cmd = cmd /\ h.stream = helper.stream /\ h.then = helper.then
        BY ONLY <1>0, <3>a, <3>4, WaitsRec
      <3>6. h.open = helper.open /\ h.grabbed = helper.grabbed BY ONLY <1>0, <3>a, <3>4, WaitsRec
      <3> QED BY <1>1, <3>1, <3>2, <3>3, <3>5, <3>6
    <2>4. \/ conn[s].stage = "done" /\ conn'[s].req = <<>> /\ server.on # s
          \/ /\ conn[s].stage = "open" /\ server.on = s /\ server.pc = "read" /\ conn[s].resp = "none"
             /\ conn[s].req = <<helper.cmd>> /\ conn'[s].req = <<helper.cmd, "escape">>
          \/ /\ conn[s].stage = "open" /\ server.on = s /\ server.pc \in Busy /\ conn[s].resp = "none"
             /\ conn[s].req = <<>> /\ conn'[s].req = <<"escape">>
          \/ /\ conn[s].stage = "open" /\ server.on = s /\ server.pc = "read"
             /\ conn[s].req = <<>> /\ conn'[s].req = <<"escape">>
      BY <1>4, <1>5, <2>2 DEF Single
    <2>5. \A c \in Conn : conn'[c].stage = conn[c].stage BY <2>2
    <2>6. \A c \in Conn : conn'[c].client <=> conn[c].client BY <2>2
    <2>7. Types' BY <1>2, <2>2, <2>3 DEF IInv, Types, HelperRec
    <2>8. Sockets'
      <3>1. \A c \in Conn : conn'[c].stage = "free" => conn'[c] = FreeConn BY <1>1, <2>2 DEF IInv, Sockets, Ends
      <3>2. \A c \in Conn : conn'[c].stage = "done" => conn'[c].req = <<>>
        BY <1>1, <2>2, <2>4 DEF IInv, Sockets, Ends
      <3>3. Ends' BY <1>1, <1>6, <2>3, <2>5, <2>6, <3>1, <3>2 DEF IInv, Sockets, Ends
      <3>4. Served' BY <2>5 DEF IInv, Sockets, Served, Types
      <3>5. \A i \in 1..Len(backlog) : conn'[backlog[i]] = conn[backlog[i]] BY <1>3, <2>2
      <3>6. Unread' BY <1>2, <1>3, <2>3, <3>5 DEF IInv, Sockets, Unread
      <3> QED BY <3>3, <3>4, <3>6 DEF Sockets
    <2>9. Modes' BY <1>1, <2>2, <2>3 DEF IInv, Modes, Closers
    <2>10. InFlight' BY <2>3 DEF InFlight
    <2>11. HasPub' <=> HasPub
      <3>1. \A i \in 1..Len(backlog) : conn'[backlog[i]] = conn[backlog[i]] BY <1>3, <2>2
      <3> QED BY <1>2, <3>1 DEF HasPub
    <2>12. Answerable'
      <3>1. \A c \in Conn : c # s => (ReleaseUnread(c)' <=> ReleaseUnread(c)) BY <2>2 DEF ReleaseUnread
      <3>2. ReleaseUnread(s)' => server.on = s /\ server.pc = "read" /\ conn'[s].req = <<"release", "escape">>
        BY <2>4 DEF ReleaseUnread
      <3>3. ReleaseTaken' <=> ReleaseTaken BY DEF ReleaseTaken
      <3>4. ReleaseTaken /\ server.on = s => conn'[s].req = <<"escape">> BY <2>4 DEF ReleaseTaken
      <3> QED BY <1>1, <2>2, <2>3, <2>11, <3>1, <3>2, <3>3, <3>4 DEF IInv, Answerable
    <2>13. Publication'
      <3>1. Differ' <=> Differ BY DEF Differ
      <3>2. Publishing' <=> Publishing BY DEF Publishing
      <3>3. Repairs => Repairs'
        <4>1. server.pc = "read" /\ conn[server.on].req # <<>> =>
                conn'[server.on].req # <<>> /\ Head(conn'[server.on].req) = Head(conn[server.on].req)
          <5>1. CASE server.on = s BY <2>4, <5>1
          <5>2. CASE server.on # s BY <1>7, <2>2, <5>2
          <5> QED BY <5>1, <5>2
        <4>2. conn[s].resp = "error" => \/ conn'[s].stage = "done"
                                        \/ server.on = s /\ server.pc = "read" /\ conn'[s].req = <<"escape">>
          BY <2>2, <2>4
        <4>3. Failing /\ server.on = s => conn'[s].req = <<"escape">> BY <2>4 DEF Failing
        <4>4. conn'[s].req = <<"escape">> => Publishes(Head(conn'[s].req)) /\ conn'[s].req # <<>> BY DEF Publishes
        <4> QED BY <1>1, <2>2, <2>3, <2>11, <4>1, <4>2, <4>3, <4>4 DEF Repairs, Failing
      <3> QED BY <3>1, <3>2, <3>3 DEF IInv, Publication
    <2> QED BY <2>7, <2>8, <2>9, <2>10, <2>12, <2>13 DEF IInv
  <1> QED BY <1>8, <1>9

\* A helper that lets go of its connections keeps the invariant, provided what it
\* waited for was answered, was no release, or the helper may be killed.
LEMMA DropKeeps ==
  ASSUME IInv, Calm, NEW S, conn' = Dropped(conn, S),
         helper.on \in S \cup {0}, helper.stream \in S \cup {0},
         \A c \in Conn : c \in S => conn[c].stage # "free",
         helper' \in HelperRec, ~helper'.open, ~helper'.grabbed,
         helper'.wait = "none" /\ helper'.on = 0 /\ helper'.stream = 0,
         \/ "kill" \in Faults
         \/ helper.wait \in {"open", "save", "closeAnew"}
         \/ helper.wait = "close" /\ conn[helper.on].resp \notin {"none", "error"},
         UNCHANGED <<backlog, server, ui, menu, target, file>>
  PROVE  IInv'
  <1> USE ControlBounds
  <1>0. Types BY DEF IInv
  <1>1. /\ conn' \in [Conn -> ConnRec]
        /\ \A c \in Conn : c \notin S => conn'[c] = conn[c]
        /\ \A c \in Conn : c \in S => ~conn'[c].client /\ conn'[c].resp = "none"
        /\ \A c \in Conn : c \in S /\ conn[c].stage = "done" => conn'[c] = FreeConn
        /\ \A c \in Conn : c \in S /\ conn[c].stage # "done" =>
             conn'[c].stage = conn[c].stage /\ conn'[c].req = conn[c].req
    <2>1. PICK d : d = conn' OBVIOUS
    <2>2. d = Dropped(conn, S) BY <2>1
    <2>3. /\ d \in [Conn -> ConnRec]
          /\ \A c \in Conn : c \notin S => d[c] = conn[c]
          /\ \A c \in Conn : c \in S => ~d[c].client /\ d[c].resp = "none"
          /\ \A c \in Conn : c \in S /\ conn[c].stage = "done" => d[c] = FreeConn
          /\ \A c \in Conn : c \in S /\ conn[c].stage # "done" =>
               d[c].stage = conn[c].stage /\ d[c].req = conn[c].req
      BY ONLY <1>0, <2>2, DroppedOnes
    <2> QED BY <2>1, <2>3
  <1>2. \A c \in Conn : ~conn'[c].client
    <2>1. \A c \in Conn : conn[c].client => c \in S BY DEF IInv, Sockets, Ends
    <2> QED BY <1>1, <2>1
  <1>3. \A c \in Conn : conn[c].stage # "done" => conn'[c].stage = conn[c].stage /\ conn'[c].req = conn[c].req
    BY <1>1
  <1>4. \A c \in Conn : conn[c].stage = "done" => conn'[c] = FreeConn
    BY <1>1, <1>2 DEF IInv, Sockets, Ends
  <1>5. \A i \in 1..Len(backlog) : backlog[i] \in Conn /\ conn[backlog[i]].stage = "open"
    BY DEF IInv, Types, Sockets, Unread
  <1>a. \A i \in 1..Len(backlog) : conn'[backlog[i]].stage = "open" /\ conn'[backlog[i]].req = conn[backlog[i]].req
    BY <1>3, <1>5
  <1>6. Types' BY <1>1 DEF IInv, Types, HelperRec
  <1>7. Sockets'
    <2>1. \A c \in Conn : Waited(c)' <=> Waited(c) BY DEF Waited
    <2>2. \A c \in Conn : conn'[c].stage = "free" => conn'[c] = FreeConn
      BY <1>1, <1>3, <1>4 DEF IInv, Sockets, Ends
    <2>3. \A c \in Conn : conn'[c].stage # "done" BY <1>3, <1>4 DEF FreeConn
    <2>4. \A c \in Conn : conn'[c].stage = "open" => conn[c].stage = "open" BY <1>3, <1>4 DEF FreeConn
    <2>5. Ends' BY <1>2, <2>1, <2>2, <2>3, <2>4 DEF IInv, Sockets, Ends
    <2>6. Served' BY <1>3 DEF IInv, Sockets, Served, Types
    <2>7. \A i \in 1..Len(backlog) : conn'[backlog[i]].resp = "none"
      BY <1>1, <1>5 DEF IInv, Sockets, Unread
    <2>8. Unread' BY <1>5, <1>a, <2>7 DEF IInv, Sockets, Unread
    <2> QED BY <2>5, <2>6, <2>8 DEF Sockets
  <1>8. Modes' BY DEF Modes
  <1>9. InFlight' BY DEF InFlight
  <1>10. HasPub => HasPub' BY <1>a DEF HasPub
  <1>11. Answerable'
    <2>1. \A c \in Conn : ReleaseUnread(c)' => ReleaseUnread(c)
      BY <1>3, <1>4 DEF ReleaseUnread, FreeConn
    <2>2. ReleaseTaken' <=> ReleaseTaken BY DEF ReleaseTaken
    <2>3. server.on # 0 => server.on \in Conn BY <1>0 DEF Types
    <2> QED BY <1>10, <2>1, <2>2 DEF IInv, Answerable
  <1>12. Publication'
    <2>1. Differ' <=> Differ BY DEF Differ
    <2>2. Publishing' <=> Publishing BY DEF Publishing
    <2>3. "save" \in Faults /\ Repairs => Repairs'
      <3>1. server.pc = "read" => conn'[server.on].req = conn[server.on].req
        BY <1>0, <1>3 DEF IInv, Types, Sockets, Served
      <3> QED BY <1>10, <3>1 DEF Repairs, Calm
    <2> QED BY <2>1, <2>2, <2>3 DEF IInv, Publication
  <1> QED BY <1>6, <1>7, <1>8, <1>9, <1>11, <1>12 DEF IInv

\* A helper without a menu has no stream and waits for nothing.
LEMMA RestingRec ==
  ASSUME NEW then \in {"none", "save"}
  PROVE  LET h == [Resting EXCEPT !.then = then] IN
         /\ h \in HelperRec /\ ~h.open /\ ~h.grabbed /\ h.wait = "none" /\ h.on = 0 /\ h.stream = 0
         /\ h.then = then
  BY DEF Resting, HelperRec

\* GRAB opens the menu on the connection it was asked on; nothing is unread there.
LEMMA OpenKeeps ==
  ASSUME IInv, helper.wait = "open", conn[helper.on].resp = "grab", NEW grabbed \in BOOLEAN,
         helper' = [Resting EXCEPT !.open = TRUE, !.grabbed = grabbed, !.stream = helper.on],
         conn' = [conn EXCEPT ![helper.on].resp = "none"],
         UNCHANGED <<backlog, server, ui, menu, target, file>>
  PROVE  IInv'
  <1> USE ControlBounds
  <1>0. Types BY DEF IInv
  <1> PICK s : s = helper.on OBVIOUS
  <1>1. /\ s \in Conn /\ conn[s].stage \in {"open", "done"} /\ ~helper.open /\ helper.stream = 0
        /\ conn[s].client
    BY DEF IInv, Modes, Types, ConnRec
  <1>2. /\ conn' \in [Conn -> ConnRec]
        /\ \A c \in Conn : c # s => conn'[c] = conn[c]
        /\ conn'[s].stage = conn[s].stage /\ conn'[s].client = conn[s].client
        /\ conn'[s].req = conn[s].req /\ conn'[s].resp = "none"
    <2>1. PICK d : d = conn' OBVIOUS
    <2>2. PICK x \in {"none", "ok", "grab", "release", "error"} : x = "none" OBVIOUS
    <2>3. d = Reset(s, x) BY <2>1, <2>2 DEF Reset
    <2>4. s \in Conn /\ x \in {"none", "ok", "grab", "release", "error"} BY <1>1
    <2>5. /\ d \in [Conn -> ConnRec]
          /\ \A c \in Conn : c # s => d[c] = conn[c]
          /\ d[s].stage = conn[s].stage /\ d[s].client = conn[s].client
          /\ d[s].req = conn[s].req /\ d[s].resp = x
      BY ONLY <1>0, <2>3, <2>4, RespOne
    <2> QED BY <2>1, <2>2, <2>5
  <1>3. /\ helper' \in HelperRec
        /\ helper'.wait = "none" /\ helper'.on = 0 /\ helper'.stream = s /\ helper'.then = "none"
        /\ helper'.open
    <2>1. helper' \in HelperRec BY <1>1 DEF HelperRec, Resting
    <2>2. helper'.wait = "none" /\ helper'.on = 0 /\ helper'.stream = s /\ helper'.then = "none" BY DEF Resting
    <2>3. helper'.open BY DEF Resting
    <2> QED BY <2>1, <2>2, <2>3
  <1>4. \A i \in 1..Len(backlog) : backlog[i] \in Conn /\ backlog[i] # s BY DEF IInv, Types, Sockets, Unread
  <1>5. \A c \in Conn : Waited(c)' <=> Waited(c) BY DEF Waited
  <1>6. conn[s].stage = "done" => conn[s].req = <<>> /\ server.on # s BY <1>1 DEF IInv, Sockets, Ends, Served
  <1>7. conn[s].stage = "done" \/ (server.on = s /\ server.pc = "read" /\ conn[s].req = <<>>)
    <2>1. ~Waited(s) BY <1>4 DEF Waited
    <2> QED BY <2>1 DEF IInv, InFlight, Single
  <1>8. \A c \in Conn : conn'[c].stage = conn[c].stage /\ conn'[c].req = conn[c].req BY <1>2
  <1>9. \A c \in Conn : conn'[c].client <=> conn[c].client BY <1>2
  <1>10. Types' BY <1>2, <1>3 DEF IInv, Types, HelperRec
  <1>11. \A i \in 1..Len(backlog) : conn'[backlog[i]] = conn[backlog[i]] BY <1>2, <1>4
  <1>12. Sockets'
    <2>1. \A c \in Conn : conn'[c].stage = "free" => conn'[c] = FreeConn BY <1>1, <1>2 DEF IInv, Sockets, Ends
    <2>2. \A c \in Conn : conn'[c].client => c = helper'.stream
      BY <1>1, <1>3, <1>9 DEF IInv, Sockets, Ends
    <2>3. Ends' BY <1>5, <1>8, <1>9, <2>1, <2>2 DEF IInv, Sockets, Ends
    <2>4. Served' BY <1>8 DEF IInv, Sockets, Served, Types
    <2>5. Unread' BY <1>3, <1>4, <1>11 DEF IInv, Sockets, Unread
    <2> QED BY <2>3, <2>4, <2>5 DEF Sockets
  <1>13. Modes' BY <1>1, <1>2, <1>3 DEF Modes
  <1>14. InFlight' BY <1>2, <1>3, <1>7 DEF InFlight
  <1>15. HasPub' <=> HasPub BY <1>11 DEF HasPub
  <1>16. Answerable'
    <2>1. \A c \in Conn : ReleaseUnread(c)' => ReleaseUnread(c) BY <1>8 DEF ReleaseUnread
    <2>2. ReleaseTaken' <=> ReleaseTaken BY DEF ReleaseTaken
    <2> QED BY <1>15, <2>1, <2>2 DEF IInv, Answerable
  <1>17. Publication'
    <2>1. Differ' <=> Differ BY DEF Differ
    <2>2. Publishing' <=> Publishing BY DEF Publishing
    <2>3. Repairs => Repairs'
      <3>1. server.pc = "read" => conn'[server.on].req = conn[server.on].req
        BY <1>8 DEF IInv, Types, Sockets, Served
      <3> QED BY <1>15, <3>1 DEF Repairs
    <2> QED BY <2>1, <2>2, <2>3 DEF IInv, Publication
  <1> QED BY <1>10, <1>12, <1>13, <1>14, <1>16, <1>17 DEF IInv

\* Every step by which the helper sends a request keeps the invariant.
LEMMA HelperSends ==
  ASSUME IInv, KeyToggle \/ KeyClose \/ KeySave \/ SaveAfterClose \/ Pointer \/ Ping
  PROVE  IInv'
  <1>0. helper.then \in {"none", "save"} /\ (helper.grabbed => helper.open) BY DEF IInv, Types, Modes
  <1>a. {"toggle", "escape", "ping", "press", "release", "shortcut"} \subseteq Cmd /\ Target \subseteq Cmd
    BY DEF Cmd
  <1>1. ASSUME KeyToggle PROVE IInv'
    <2>1. CASE helper.open
      <3> PICK cmd \in Cmd : cmd = "toggle" BY <1>a
      <3> PICK goal \in {"pointer", "close"} : goal = "close" OBVIOUS
      <3> PICK then \in {"none", "save"} : then = "none" OBVIOUS
      <3>1. Request(goal, cmd, then) /\ UNCHANGED <<server, ui, menu, target, file>> BY <1>1, <2>1 DEF KeyToggle
      <3>2. cmd \in Closers BY DEF Closers
      <3>3. helper.wait = "none" /\ helper.then = "none" BY <1>1 DEF KeyToggle, Ready
      <3> QED BY <2>1, <3>1, <3>2, <3>3, SendKeeps
    <2>2. CASE ~helper.open
      <3> PICK cmd \in Cmd : cmd = "toggle" BY <1>a
      <3> PICK goal \in {"open", "save", "closeAnew"} : goal = "open" OBVIOUS
      <3>1. RequestAnew(goal, cmd) /\ UNCHANGED <<server, ui, menu, target, file>> BY <1>1, <2>2 DEF KeyToggle
      <3>2. helper.wait = "none" BY <1>1 DEF KeyToggle, Ready
      <3> QED BY <2>2, <3>1, <3>2, AnewKeeps
    <2> QED BY <2>1, <2>2
  <1>2. ASSUME KeyClose PROVE IInv'
    <2> PICK cmd \in Cmd : cmd = "escape" BY <1>a
    <2> PICK goal \in {"pointer", "close"} : goal = "close" OBVIOUS
    <2> PICK then \in {"none", "save"} : then = "none" OBVIOUS
    <2>1. Request(goal, cmd, then) /\ UNCHANGED <<server, ui, menu, target, file>> BY <1>2 DEF KeyClose
    <2>2. cmd \in Closers BY DEF Closers
    <2>3. helper.open /\ helper.wait = "none" /\ helper.then = "none" BY <1>2 DEF KeyClose, Ready
    <2> QED BY <2>1, <2>2, <2>3, SendKeeps
  <1>3. ASSUME KeySave PROVE IInv'
    <2>1. CASE helper.open
      <3> PICK cmd \in Cmd : cmd = "escape" BY <1>a
      <3> PICK goal \in {"pointer", "close"} : goal = "close" OBVIOUS
      <3> PICK then \in {"none", "save"} : then = "save" OBVIOUS
      <3>1. Request(goal, cmd, then) /\ UNCHANGED <<server, ui, menu, target, file>> BY <1>3, <2>1 DEF KeySave
      <3>2. cmd \in Closers BY DEF Closers
      <3>3. helper.wait = "none" /\ helper.then = "none" BY <1>3 DEF KeySave, Ready
      <3> QED BY <2>1, <3>1, <3>2, <3>3, SendKeeps
    <2>2. CASE ~helper.open
      <3> PICK cmd \in Cmd : cmd = "shortcut" BY <1>a
      <3> PICK goal \in {"open", "save", "closeAnew"} : goal = "save" OBVIOUS
      <3>1. RequestAnew(goal, cmd) /\ UNCHANGED <<server, ui, menu, target, file>> BY <1>3, <2>2 DEF KeySave
      <3>2. helper.wait = "none" BY <1>3 DEF KeySave, Ready
      <3> QED BY <2>2, <3>1, <3>2, AnewKeeps
    <2> QED BY <2>1, <2>2
  <1>4. ASSUME SaveAfterClose PROVE IInv'
    <2> PICK cmd \in Cmd : cmd = "shortcut" BY <1>a
    <2> PICK goal \in {"open", "save", "closeAnew"} : goal = "save" OBVIOUS
    <2>1. RequestAnew(goal, cmd) /\ UNCHANGED <<server, ui, menu, target, file>> BY <1>4 DEF SaveAfterClose
    <2>2. helper.wait = "none" /\ ~helper.open BY <1>4 DEF SaveAfterClose, IInv, Modes
    <2> QED BY <2>1, <2>2, AnewKeeps
  <1>5. ASSUME Pointer PROVE IInv'
    <2> PICK cmd \in Cmd : Request("pointer", cmd, "none") BY <1>5, <1>a DEF Pointer
    <2> PICK goal \in {"pointer", "close"} : goal = "pointer" OBVIOUS
    <2> PICK then \in {"none", "save"} : then = "none" OBVIOUS
    <2>1. Request(goal, cmd, then) /\ UNCHANGED <<server, ui, menu, target, file>> BY <1>5 DEF Pointer
    <2>2. helper.open /\ helper.wait = "none" /\ helper.then = "none" BY <1>0, <1>5 DEF Pointer, Ready
    <2> QED BY <2>1, <2>2, SendKeeps
  <1>6. ASSUME Ping PROVE IInv'
    <2> PICK cmd \in Cmd : cmd = "ping" BY <1>a
    <2> PICK goal \in {"pointer", "close"} : goal = "pointer" OBVIOUS
    <2> PICK then \in {"none", "save"} : then = "none" OBVIOUS
    <2>1. Request(goal, cmd, then) /\ UNCHANGED <<server, ui, menu, target, file>> BY <1>6 DEF Ping
    <2>2. helper.open /\ helper.wait = "none" /\ helper.then = "none" BY <1>6 DEF Ping, Ready
    <2> QED BY <2>1, <2>2, SendKeeps
  <1> QED BY <1>1, <1>2, <1>3, <1>4, <1>5, <1>6

\* Every answer, end of stream or timeout the helper takes keeps the invariant.
LEMMA HelperTakesAnswer ==
  ASSUME IInv, Calm, HelperAnswered
  PROVE  IInv'
  <1> USE ControlBounds
  <1>0. Types BY DEF IInv
  <1>1. PICK r \in Answers : CASE helper.wait = "open"    -> Opened(r)
                               [] helper.wait = "pointer" -> Forwarded(r)
                               [] helper.wait = "save"    -> /\ helper' = Resting
                                                             /\ conn' = Dropped(conn, {helper.on})
                                                             /\ UNCHANGED backlog
                               [] OTHER                   -> CloseAnswered(r)
    BY DEF HelperAnswered
  <1>2. /\ helper.on \in Conn /\ conn[helper.on].stage # "free"
        /\ helper.wait \in {"open", "pointer", "save", "close", "closeAnew"}
        /\ conn[helper.on].resp \in {"none", "ok", "grab", "release", "error"}
    BY <1>0 DEF IInv, Types, Modes, HelperAnswered, ConnRec
  <1>3. /\ r \in {"none", "ok", "grab", "release", "error", "failed"}
        /\ r # "failed" => r = conn[helper.on].resp
        /\ r = "failed" => conn[helper.on].resp = "none"
    BY <1>2 DEF Answers
  <1>4. UNCHANGED <<server, ui, menu, target, file>> BY DEF HelperAnswered
  <1>5. \A k \in {"none", "save"} : LET h == [Resting EXCEPT !.then = k] IN
          /\ h \in HelperRec /\ ~h.open /\ ~h.grabbed /\ h.wait = "none" /\ h.on = 0 /\ h.stream = 0
    BY RestingRec
  <1>6. ASSUME helper' \in {Resting, ClosedByRelease}
        PROVE  /\ helper' \in HelperRec /\ ~helper'.open /\ ~helper'.grabbed
               /\ helper'.wait = "none" /\ helper'.on = 0 /\ helper'.stream = 0
    <2>1. Resting = [Resting EXCEPT !.then = "none"] BY DEF Resting
    <2>2. PICK k \in {"none", "save"} : helper' = [Resting EXCEPT !.then = k]
      BY <1>0, <1>6, <2>1 DEF Types, ClosedByRelease
    <2> QED BY <1>5, <2>2
  <1>7. CASE helper.wait = "open"
    <2>1. Opened(r) BY <1>1, <1>7
    <2>2. CASE r = "grab"
      <3>1. PICK grabbed \in BOOLEAN :
              helper' = [Resting EXCEPT !.open = TRUE, !.grabbed = grabbed, !.stream = helper.on]
        BY <2>1, <2>2 DEF Opened, Unless
      <3>2. conn' = [conn EXCEPT ![helper.on].resp = "none"] /\ backlog' = backlog BY <2>1, <2>2 DEF Opened
      <3>3. conn[helper.on].resp = "grab" BY <1>3, <2>2
      <3> QED BY <1>4, <1>7, <3>1, <3>2, <3>3, OpenKeeps
    <2>3. CASE r # "grab"
      <3>1. helper' = Resting /\ conn' = Dropped(conn, {helper.on}) /\ backlog' = backlog
        BY <2>1, <2>3 DEF Opened
      <3>2. PICK S : S = {helper.on} OBVIOUS
      <3>3. helper.on \in S /\ helper.stream = 0 BY <1>7, <3>2 DEF IInv, Modes
      <3>4. \A c \in Conn : c \in S => conn[c].stage # "free" BY <1>2, <3>2
      <3>5. conn' = Dropped(conn, S) BY <3>1, <3>2
      <3> QED BY <1>4, <1>6, <1>7, <3>1, <3>3, <3>4, <3>5, DropKeeps
    <2> QED BY <2>2, <2>3
  <1>8. CASE helper.wait = "pointer"
    <2>1. Forwarded(r) BY <1>1, <1>8
    <2>2. (r = "ok" => conn[helper.on].resp = "ok") /\ (r # "ok" => conn[helper.on].resp # "ok") BY <1>3
    <2> QED BY <1>3, <1>4, <1>8, <2>1, <2>2, ForwardKeeps
  <1>9. CASE helper.wait = "save"
    <2>1. helper' = Resting /\ conn' = Dropped(conn, {helper.on}) /\ backlog' = backlog BY <1>1, <1>9
    <2>2. PICK S : S = {helper.on} OBVIOUS
    <2>3. helper.on \in S /\ helper.stream = 0 BY <1>9, <2>2 DEF IInv, Modes
    <2>4. \A c \in Conn : c \in S => conn[c].stage # "free" BY <1>2, <2>2
    <2>5. conn' = Dropped(conn, S) BY <2>1, <2>2
    <2> QED BY <1>4, <1>6, <1>9, <2>1, <2>3, <2>4, <2>5, DropKeeps
  <1>10. CASE helper.wait \in {"close", "closeAnew"}
    <2>1. CloseAnswered(r) BY <1>1, <1>10
    <2>2. CASE r \in {"ok", "grab", "release"} \/ helper.wait = "closeAnew"
      <3>1. helper' = ClosedByRelease /\ conn' = Dropped(conn, {helper.stream, helper.on}) /\ backlog' = backlog
        BY <2>1, <2>2 DEF CloseAnswered
      <3>2. PICK S : S = {helper.stream, helper.on} OBVIOUS
      <3>3. helper.on \in S /\ helper.stream \in S BY <3>2
      <3>4. helper.stream # 0 /\ conn[helper.stream].stage # "free" BY <1>10 DEF IInv, Modes
      <3>5. \A c \in Conn : c \in S => conn[c].stage # "free" BY <1>2, <3>2, <3>4
      <3>6. conn' = Dropped(conn, S) BY <3>1, <3>2
      <3>7. helper.wait = "closeAnew" \/ (helper.wait = "close" /\ conn[helper.on].resp \notin {"none", "error"})
        BY <1>3, <1>10, <2>2
      <3> QED BY <1>4, <1>6, <3>1, <3>3, <3>5, <3>6, <3>7, DropKeeps
    <2>3. CASE ~(r \in {"ok", "grab", "release"} \/ helper.wait = "closeAnew")
      <3> PICK goal \in {"open", "save", "closeAnew"} : goal = "closeAnew" OBVIOUS
      <3>1. RequestAnew(goal, helper.cmd) BY <2>1, <2>3 DEF CloseAnswered
      <3>2. helper.wait = "close" BY <1>10, <2>3
      <3>3. helper.cmd \in Cmd BY <3>2 DEF IInv, Modes, Closers, Cmd
      <3> PICK cmd \in Cmd : cmd = helper.cmd BY <3>3
      <3> QED BY <1>4, <3>1, <3>2, AnewKeeps
    <2> QED BY <2>2, <2>3
  <1> QED BY <1>2, <1>7, <1>8, <1>9, <1>10

\* stop_locked, in the middle of any request, keeps the invariant.
LEMMA HelperDies ==
  ASSUME IInv, Calm, HelperKilled
  PROVE  IInv'
  <1> USE ControlBounds
  <1>1. PICK S : S = {c \in Conn : conn[c].client} OBVIOUS
  <1>2. conn' = Dropped(conn, S) BY <1>1 DEF HelperKilled
  <1>3. helper.on \in S \cup {0} /\ helper.stream \in S \cup {0} BY <1>1 DEF IInv, Types, Modes
  <1>4. \A c \in Conn : c \in S => conn[c].stage # "free" BY <1>1 DEF IInv, Sockets, Ends, FreeConn
  <1>5. /\ helper' \in HelperRec /\ helper'.wait = "none" /\ helper'.on = 0 /\ helper'.stream = 0
    BY DEF HelperKilled, Resting, HelperRec
  <1>6. ~helper'.open /\ ~helper'.grabbed BY DEF HelperKilled, Resting
  <1>7. "kill" \in Faults /\ UNCHANGED <<backlog, server, ui, menu, target, file>> BY DEF HelperKilled
  <1> QED BY <1>2, <1>3, <1>4, <1>5, <1>6, <1>7, DropKeeps

\* A restarted helper, with no descriptor of the one before, keeps the invariant.
LEMMA HelperRestarts ==
  ASSUME IInv, Living, HelperStarted
  PROVE  IInv'
  <1> USE ControlBounds
  <1>1. helper.wait = "none" /\ ~helper.open /\ helper.on = 0 /\ helper.stream = 0
    BY DEF Living, HelperStarted, IInv, Modes
  <1>2. /\ helper' \in HelperRec /\ helper'.wait = "none" /\ helper'.on = 0 /\ helper'.stream = 0
        /\ helper'.then = "none"
    BY DEF HelperStarted, Resting, HelperRec
  <1>3. ~helper'.open /\ ~helper'.grabbed BY DEF HelperStarted, Resting
  <1>4. UNCHANGED <<conn, backlog, server, ui, menu, target, file>> BY DEF HelperStarted
  <1>5. Types' BY <1>2, <1>4 DEF IInv, Types, HelperRec
  <1>6. Sockets' BY <1>1, <1>2, <1>4 DEF IInv, Sockets, Ends, Served, Unread, Waited
  <1>7. Modes' BY <1>2, <1>3 DEF Modes
  <1>8. InFlight' BY <1>2, <1>3 DEF InFlight
  <1>9. HasPub' <=> HasPub BY <1>4 DEF HasPub
  <1>10. Answerable'
    <2>1. \A c \in Conn : ReleaseUnread(c)' <=> ReleaseUnread(c) BY <1>4 DEF ReleaseUnread
    <2>2. ReleaseTaken' <=> ReleaseTaken BY <1>4 DEF ReleaseTaken
    <2> QED BY <1>1, <1>4, <1>9, <2>1, <2>2 DEF IInv, Answerable
  <1>11. Publication'
    <2>1. Differ' <=> Differ BY <1>4 DEF Differ
    <2>2. Publishing' <=> Publishing BY <1>4 DEF Publishing
    <2>3. Repairs => Repairs' BY <1>1, <1>4, <1>9 DEF Repairs
    <2> QED BY <1>4, <2>1, <2>2, <2>3 DEF IInv, Publication
  <1> QED BY <1>5, <1>6, <1>7, <1>8, <1>10, <1>11 DEF IInv

\* A helper that was killed owns no menu and waits for nothing until it restarts.
LEMMA Lives ==
  ASSUME Types, Living, [Next]_vars
  PROVE  Living'
  <1>0. helper \in HelperRec BY DEF Types, HelperRec
  <1>1. \A goal, c, cmd : LET h == Waits(goal, c, cmd) IN
          /\ h.alive = helper.alive
          /\ h.wait = goal
    BY <1>0 DEF Waits, HelperRec
  <1>2. \A goal, cmd, then : Request(goal, cmd, then) => helper'.alive = helper.alive
    BY <1>0 DEF Request, Waits, HelperRec
  <1>3. \A goal, cmd : RequestAnew(goal, cmd) => helper'.alive = helper.alive
    BY <1>1 DEF RequestAnew
  <1>4. Resting.wait = "none" /\ ~Resting.open /\ Resting.alive BY DEF Resting
  <1>5. ClosedByRelease.wait = "none" /\ ~ClosedByRelease.open BY DEF ClosedByRelease, Resting
  <1>6. CASE KeyToggle \/ KeyClose \/ KeySave \/ SaveAfterClose \/ Pointer \/ Ping
    BY <1>2, <1>3, <1>6 DEF KeyToggle, KeyClose, KeySave, SaveAfterClose, Pointer, Ping, Ready, Living
  <1>7. CASE HelperAnswered
    <2>1. helper.alive BY <1>7 DEF HelperAnswered, Living
    <2>2. PICK r \in Answers : CASE helper.wait = "open"    -> Opened(r)
                                 [] helper.wait = "pointer" -> Forwarded(r)
                                 [] helper.wait = "save"    -> /\ helper' = Resting
                                                               /\ conn' = Dropped(conn, {helper.on})
                                                               /\ UNCHANGED backlog
                                 [] OTHER                   -> CloseAnswered(r)
      BY <1>7 DEF HelperAnswered
    <2>3. CASE helper.wait = "open"
      <3>1. Opened(r) BY <2>2, <2>3
      <3> QED BY <3>1 DEF Opened, Resting, Living
    <2>4. CASE helper.wait = "pointer"
      <3>1. Forwarded(r) BY <2>2, <2>4
      <3>2. [helper EXCEPT !.wait = "none", !.on = 0, !.cmd = "none"].alive = helper.alive
        BY <1>0 DEF HelperRec
      <3>3. CASE r = "ok"
        <4>1. helper'.alive = helper.alive BY <3>1, <3>2, <3>3 DEF Forwarded
        <4> QED BY <2>1, <4>1 DEF Living
      <3>4. CASE r # "ok"
        <4>1. helper'.alive = helper.alive BY <1>1, <3>1, <3>4 DEF Forwarded
        <4> QED BY <2>1, <4>1 DEF Living
      <3> QED BY <3>3, <3>4
    <2>5. CASE helper.wait = "save" BY <1>4, <2>2, <2>5 DEF Living
    <2>6. CASE helper.wait \notin {"open", "pointer", "save"}
      <3>1. CloseAnswered(r) BY <2>2, <2>6
      <3> QED BY <1>3, <1>5, <2>1, <3>1 DEF CloseAnswered, Living
    <2> QED BY <2>3, <2>4, <2>5, <2>6
  <1>8. CASE HelperKilled \/ HelperStarted BY <1>8 DEF HelperKilled, HelperStarted, Resting, Living
  <1>9. CASE UNCHANGED helper BY <1>9 DEF Living
  <1>10. \/ KeyToggle \/ KeyClose \/ KeySave \/ SaveAfterClose \/ Pointer \/ Ping
         \/ HelperAnswered \/ HelperKilled \/ HelperStarted \/ UNCHANGED helper
    BY DEF Next, vars, Accept, Read, Watch, Apply, Snapshot, Write, Reply, UiBegins, UiSnapshot, UiWrites,
           TargetChanges, InputAges, Presented
  <1> QED BY <1>6, <1>7, <1>8, <1>9, <1>10

\* The fields of the control thread.
ServerRec ==
    [pc : Pcs, on : Conn \cup {0}, cmd : Cmd \cup {"none"},
     result : {"none", "ok", "grab", "release", "error", "ask"}, snap : BOOLEAN]

\* A step of the control thread between two looks at its sockets keeps the
\* bookkeeping of the sockets and of the helper.
LEMMA ServerKeeps ==
  ASSUME IInv, server.pc \in Busy, server' \in ServerRec, server'.pc \in Busy,
         server'.on = server.on, server'.cmd = server.cmd,
         server'.pc \in {"snap", "write", "reply"} => server'.result # "none",
         server'.pc \in {"watch", "apply"} => server.pc \in {"watch", "apply"},
         menu'.visible \in BOOLEAN, DOMAIN menu' = DOMAIN menu, file' \in [visible : BOOLEAN, odd : BOOLEAN],
         Publication', UNCHANGED <<helper, conn, backlog, ui, target>>
  PROVE  IInv'
  <1> USE ControlBounds
  <1>0. server'.pc # "accept" /\ server.pc # "accept" /\ server'.pc # "read" /\ server.pc # "read" BY DEF Busy
  <1>1. Types' BY DEF IInv, Types, ServerRec
  <1>2. Sockets'
    <2>0. \A c \in Conn : Waited(c)' <=> Waited(c) BY DEF Waited
    <2>1. Ends' BY <2>0 DEF IInv, Sockets, Ends
    <2>2. Served' BY <1>0 DEF IInv, Sockets, Served
    <2>3. Unread' BY DEF IInv, Sockets, Unread
    <2> QED BY <2>1, <2>2, <2>3 DEF Sockets
  <1>3. Modes' BY DEF IInv, Modes
  <1>4. InFlight'
    <2>1. \A c \in Conn : Single(c) => Single(c)' BY <1>0 DEF Single
    <2>2. \A c \in Conn : Waited(c)' <=> Waited(c) BY DEF Waited
    <2>3. helper.wait # "none" => helper.on \in Conn BY DEF IInv, Types, Modes
    <2> QED BY <1>0, <2>1, <2>2, <2>3 DEF IInv, InFlight
  <1>5. Answerable'
    <2>1. \A c \in Conn : ReleaseUnread(c)' <=> ReleaseUnread(c) BY DEF ReleaseUnread
    <2>2. ReleaseTaken' => ReleaseTaken BY DEF ReleaseTaken
    <2>3. HasPub' <=> HasPub BY DEF HasPub
    <2> QED BY <1>0, <2>1, <2>2, <2>3 DEF IInv, Answerable
  <1> QED BY <1>1, <1>2, <1>3, <1>4, <1>5 DEF IInv

\* The operations on the menu return a menu.
LEMMA MenuOps ==
  ASSUME NEW m, m.visible \in BOOLEAN, DOMAIN m = {"visible", "pressed", "cursor", "stale"},
         NEW t, NEW ready \in BOOLEAN
  PROVE  \A n \in {Closed(m), Toggled(m), Moved(m, t), Heartbeat(m), Pressed(m), Released(m, ready)} :
             n.visible \in BOOLEAN /\ DOMAIN n = DOMAIN m
  <1>1. Closed(m).visible \in BOOLEAN /\ DOMAIN Closed(m) = DOMAIN m BY DEF Closed
  <1>2. Toggled(m).visible \in BOOLEAN /\ DOMAIN Toggled(m) = DOMAIN m BY DEF Toggled
  <1>3. Moved(m, t).visible \in BOOLEAN /\ DOMAIN Moved(m, t) = DOMAIN m BY DEF Moved
  <1>4. Heartbeat(m).visible \in BOOLEAN /\ DOMAIN Heartbeat(m) = DOMAIN m BY DEF Heartbeat
  <1>5. Pressed(m).visible \in BOOLEAN /\ DOMAIN Pressed(m) = DOMAIN m BY DEF Pressed
  <1>6. Released(m, ready).visible \in BOOLEAN /\ DOMAIN Released(m, ready) = DOMAIN m
    BY <1>1 DEF Released
  <1> QED BY <1>1, <1>2, <1>3, <1>4, <1>5, <1>6

\* The control thread moves on with a result.
Stepped(pc, result) == [server EXCEPT !.pc = pc, !.result = result]

\* A step of the control thread keeps the connection and the command it serves.
LEMMA ServerMoves ==
  ASSUME Types, NEW pc \in Pcs, NEW result \in {"none", "ok", "grab", "release", "error", "ask"}, NEW v,
         v = Stepped(pc, result)
  PROVE  v \in ServerRec /\ v.pc = pc /\ v.result = result /\ v.on = server.on /\ v.cmd = server.cmd
  <1> PICK g : g = server OBVIOUS
  <1>1. g \in ServerRec BY DEF Types, ServerRec
  <1>2. v = [g EXCEPT !.pc = pc, !.result = result] BY DEF Stepped
  <1>3. v \in ServerRec BY <1>1, <1>2 DEF ServerRec
  <1>4. v.pc = pc /\ v.result = result /\ v.on = g.on /\ v.cmd = g.cmd BY <1>1, <1>2 DEF ServerRec
  <1> QED BY <1>3, <1>4

\* The watchdog in front of every command keeps the invariant.
LEMMA WatchKeeps ==
  ASSUME IInv, Watch PROVE IInv'
  <1> USE ControlBounds
  <1>0. Types /\ server.pc = "watch" /\ target = "live" BY DEF IInv, Types, Watch
  <1>a. server \in ServerRec BY <1>0 DEF Types, ServerRec
  <1>1. UNCHANGED <<helper, conn, backlog, ui, target, file>> BY DEF Watch
  <1>2. CASE Abandoned(menu)
    <2>1. menu' = Closed(menu) /\ server' = [server EXCEPT !.pc = "snap", !.result = "release"]
      BY <1>2 DEF Watch
    <2>2. /\ server' \in ServerRec /\ server'.pc = "snap" /\ server'.result = "release"
          /\ server'.on = server.on /\ server'.cmd = server.cmd
      BY <1>a, <2>1 DEF ServerRec, Pcs
    <2>3. menu'.visible \in BOOLEAN /\ DOMAIN menu' = DOMAIN menu BY <1>0, <2>1 DEF Types, Closed
    <2>4. Publication' BY <2>2 DEF Publication, Publishing
    <2>5. file' \in [visible : BOOLEAN, odd : BOOLEAN] BY <1>0, <1>1 DEF Types
    <2>6. server'.pc \in Busy /\ server.pc \in Busy BY <1>0, <2>2 DEF Busy
    <2> QED BY <1>0, <1>1, <2>2, <2>3, <2>4, <2>5, <2>6, ServerKeeps
  <1>3. CASE ~Abandoned(menu)
    <2>1. menu' = menu /\ server' = [server EXCEPT !.pc = "apply"] BY <1>0, <1>3 DEF Watch
    <2>2. /\ server' \in ServerRec /\ server'.pc = "apply" /\ server'.result = server.result
          /\ server'.on = server.on /\ server'.cmd = server.cmd
      BY <1>a, <2>1 DEF ServerRec, Pcs
    <2>3. menu'.visible \in BOOLEAN /\ DOMAIN menu' = DOMAIN menu BY <1>0, <2>1 DEF Types
    <2>4. Publication'
      <3>1. Differ' <=> Differ BY <1>1, <2>1 DEF Differ
      <3>2. ~Publishing BY <1>0 DEF Publishing
      <3>3. HasPub' <=> HasPub BY <1>1 DEF HasPub
      <3>4. Repairs => Repairs' BY <1>0, <1>1, <2>2, <3>3 DEF Repairs, Failing
      <3> QED BY <2>2, <3>1, <3>2, <3>4 DEF IInv, Publication
    <2>5. file' \in [visible : BOOLEAN, odd : BOOLEAN] BY <1>0, <1>1 DEF Types
    <2>6. server'.pc \in Busy /\ server.pc \in Busy BY <1>0, <2>2 DEF Busy
    <2> QED BY <1>0, <1>1, <2>2, <2>3, <2>4, <2>5, <2>6, ServerKeeps
  <1> QED BY <1>2, <1>3

\* What a command does to the menu is published, or leaves the menu as it was, or is
\* a failed release whose sender is still there to close the menu.
LEMMA DoesKeeps ==
  ASSUME IInv, Calm, server.pc = "apply", NEW m, m.visible \in BOOLEAN, DOMAIN m = DOMAIN menu,
         NEW pc \in {"snap", "reply"}, NEW result \in {"ok", "grab", "release", "error", "ask"},
         Does(m, pc, result), UNCHANGED <<helper, conn, backlog, ui, target, file>>,
         pc = "reply" => \/ server.cmd = "shortcut" /\ m = menu
                         \/ server.cmd = "release" /\ result = "error" /\ "save" \in Faults
  PROVE  IInv'
  <1> USE ControlBounds
  <1>0. Types BY DEF IInv
  <1>1. menu' = m /\ server' = [server EXCEPT !.pc = pc, !.result = result] BY DEF Does
  <1>2. /\ server' \in ServerRec /\ server'.pc = pc /\ server'.result = result
        /\ server'.on = server.on /\ server'.cmd = server.cmd
    <2>1. PICK v : v = server' OBVIOUS
    <2>2. v = Stepped(pc, result) BY <1>1, <2>1 DEF Stepped
    <2>3. pc \in Pcs /\ result \in {"none", "ok", "grab", "release", "error", "ask"} BY DEF Pcs
    <2>4. v \in ServerRec /\ v.pc = pc /\ v.result = result /\ v.on = server.on /\ v.cmd = server.cmd
      BY ONLY <1>0, <2>2, <2>3, ServerMoves
    <2> QED BY <2>1, <2>4
  <1>3. HasPub' <=> HasPub BY DEF HasPub
  <1>4. Publication'
    <2>1. CASE pc = "snap" BY <1>2, <2>1 DEF Publication, Publishing
    <2>2. CASE pc = "reply" /\ server.cmd = "shortcut" /\ m = menu
      <3>1. Differ' <=> Differ BY <1>1, <2>2 DEF Differ
      <3>2. ~Publishing BY DEF Publishing
      <3>3. Repairs => Repairs' BY <1>2, <1>3, <2>2 DEF Repairs, Failing, Publishes
      <3> QED BY <1>2, <2>2, <3>1, <3>2, <3>3 DEF IInv, Publication
    <2>3. CASE pc = "reply" /\ server.cmd = "release" /\ result = "error" /\ "save" \in Faults
      <3>1. "kill" \notin Faults BY <2>3 DEF Calm
      <3>2. ReleaseTaken BY <2>3 DEF ReleaseTaken
      <3>3. \/ helper.wait = "pointer" /\ helper.on = server.on
            \/ /\ helper.wait = "close" /\ helper.on = server.on /\ conn[server.on].resp = "none"
               /\ conn[server.on].req = <<helper.cmd>>
            \/ HasPub
        BY <3>1, <3>2 DEF IInv, Answerable
      <3>4. Failing' BY <1>2, <2>3 DEF Failing
      <3>5. Repairs' BY <1>2, <1>3, <3>3, <3>4 DEF Repairs
      <3> QED BY <1>2, <2>3, <3>5 DEF Publication
    <2> QED BY <2>1, <2>2, <2>3
  <1>5. menu'.visible \in BOOLEAN /\ DOMAIN menu' = DOMAIN menu BY <1>1
  <1>6. file' \in [visible : BOOLEAN, odd : BOOLEAN] BY <1>0 DEF Types
  <1>7. server'.pc \in Busy /\ server.pc \in Busy BY <1>2 DEF Busy
  <1> QED BY <1>2, <1>4, <1>5, <1>6, <1>7, ServerKeeps

\* Every command keeps the invariant.
LEMMA ApplyKeeps ==
  ASSUME IInv, Calm, Apply PROVE IInv'
  <1> USE ControlBounds
  <1>0. Types /\ server.pc = "apply" BY DEF IInv, Apply
  <1>1. UNCHANGED <<helper, conn, backlog, ui, target, file>> BY DEF Apply
  <1>2. menu.visible \in BOOLEAN /\ DOMAIN menu = {"visible", "pressed", "cursor", "stale"}
    BY <1>0 DEF Types
  <1>3. server.cmd \in Cmd BY <1>0 DEF IInv, Sockets, Served, Busy
  <1>4. \A t : \A ready \in BOOLEAN :
          \A n \in {Closed(menu), Toggled(menu), Moved(menu, t), Heartbeat(menu), Pressed(menu),
                    Released(menu, ready)} :
             n.visible \in BOOLEAN /\ DOMAIN n = DOMAIN menu
    <2> TAKE t
    <2> TAKE ready \in BOOLEAN
    <2> PICK m : m = menu OBVIOUS
    <2>1. \A n \in {Closed(m), Toggled(m), Moved(m, t), Heartbeat(m), Pressed(m), Released(m, ready)} :
             n.visible \in BOOLEAN /\ DOMAIN n = DOMAIN m
      BY <1>2, MenuOps
    <2> QED BY <2>1
  <1>5. ASSUME NEW m, m.visible \in BOOLEAN, DOMAIN m = DOMAIN menu,
               NEW result \in {"ok", "grab", "release", "error", "ask"}, Does(m, "snap", result)
        PROVE  IInv'
    <2> PICK pc \in {"snap", "reply"} : pc = "snap" OBVIOUS
    <2>1. Does(m, pc, result) BY <1>5
    <2> QED BY <1>0, <1>1, <1>5, <2>1, DoesKeeps
  <1>6. CASE server.cmd = "toggle"
    <2>1. PICK result \in {"release", "grab"} : Does(Toggled(menu), "snap", result) BY <1>6 DEF Apply
    <2> PICK m : m = Toggled(menu) OBVIOUS
    <2>2. m.visible \in BOOLEAN /\ DOMAIN m = DOMAIN menu BY <1>4
    <2>3. Does(m, "snap", result) BY <2>1
    <2> QED BY <1>5, <2>2, <2>3
  <1>7. CASE server.cmd = "escape"
    <2>1. Does(Closed(menu), "snap", "release") BY <1>7 DEF Apply
    <2> PICK m : m = Closed(menu) OBVIOUS
    <2>2. m.visible \in BOOLEAN /\ DOMAIN m = DOMAIN menu BY <1>4
    <2>3. Does(m, "snap", "release") BY <2>1
    <2> QED BY <1>5, <2>2, <2>3
  <1>8. CASE server.cmd = "ping"
    <2>1. Does(Heartbeat(menu), "snap", "ask") BY <1>8 DEF Apply
    <2> PICK m : m = Heartbeat(menu) OBVIOUS
    <2>2. m.visible \in BOOLEAN /\ DOMAIN m = DOMAIN menu BY <1>4
    <2>3. Does(m, "snap", "ask") BY <2>1
    <2> QED BY <1>5, <2>2, <2>3
  <1>9. CASE server.cmd \in Target
    <2>1. Does(Moved(menu, server.cmd), "snap", "ask") BY <1>9 DEF Apply
    <2> PICK m : m = Moved(menu, server.cmd) OBVIOUS
    <2>2. m.visible \in BOOLEAN /\ DOMAIN m = DOMAIN menu BY <1>4
    <2>3. Does(m, "snap", "ask") BY <2>1
    <2> QED BY <1>5, <2>2, <2>3
  <1>10. CASE server.cmd = "press"
    <2>1. PICK result \in {"ok", "release"} : Does(Pressed(menu), "snap", result) BY <1>10 DEF Apply
    <2> PICK m : m = Pressed(menu) OBVIOUS
    <2>2. m.visible \in BOOLEAN /\ DOMAIN m = DOMAIN menu BY <1>4
    <2>3. Does(m, "snap", result) BY <2>1
    <2> QED BY <1>5, <2>2, <2>3
  <1>11. CASE server.cmd = "release"
    <2>1. ButtonReleased BY <1>11 DEF Apply
    <2>2. PICK ready \in BOOLEAN, done \in Unless("save") :
            \/ ~done /\ Does(Released(menu, ready), "reply", "error")
            \/ Does(Released(menu, ready), "snap", IF Released(menu, ready).visible THEN "ok" ELSE "release")
      BY <2>1 DEF ButtonReleased
    <2>3. CASE ~done /\ Does(Released(menu, ready), "reply", "error")
      <3>1. "save" \in Faults BY <2>3 DEF Unless
      <3> PICK m : m = Released(menu, ready) OBVIOUS
      <3> PICK pc \in {"snap", "reply"} : pc = "reply" OBVIOUS
      <3> PICK result \in {"ok", "grab", "release", "error", "ask"} : result = "error" OBVIOUS
      <3>2. Does(m, pc, result) BY <2>3
      <3>3. m.visible \in BOOLEAN /\ DOMAIN m = DOMAIN menu BY <1>4
      <3> QED BY <1>0, <1>1, <1>11, <3>1, <3>2, <3>3, DoesKeeps
    <2>4. CASE Does(Released(menu, ready), "snap", IF Released(menu, ready).visible THEN "ok" ELSE "release")
      <3> PICK m : m = Released(menu, ready) OBVIOUS
      <3> PICK result \in {"ok", "release"} : Does(m, "snap", result) BY <2>4
      <3> QED BY <1>4, <1>5
    <2> QED BY <2>2, <2>3, <2>4
  <1>12. CASE server.cmd = "shortcut"
    <2>1. PICK done \in Unless("save") : Does(menu, "reply", IF done THEN "ok" ELSE "error") BY <1>12 DEF Apply
    <2> PICK m : m = menu OBVIOUS
    <2> PICK pc \in {"snap", "reply"} : pc = "reply" OBVIOUS
    <2> PICK result \in {"ok", "error"} : Does(m, pc, result) BY <2>1
    <2> QED BY <1>0, <1>1, <1>2, <1>12, DoesKeeps
  <1> QED BY <1>3, <1>6, <1>7, <1>8, <1>9, <1>10, <1>11, <1>12 DEF Cmd

\* The snapshot taken for the file is the menu as it is until the file is written.
LEMMA SnapshotKeeps ==
  ASSUME IInv, Snapshot PROVE IInv'
  <1> USE ControlBounds
  <1>0. Types /\ server.pc = "snap" BY DEF IInv, Snapshot
  <1>a. server \in ServerRec /\ menu.visible \in BOOLEAN BY <1>0 DEF Types, ServerRec
  <1>1. UNCHANGED <<helper, conn, backlog, ui, menu, target, file>> BY DEF Snapshot
  <1>2. server' = [server EXCEPT !.pc = "write", !.snap = menu.visible] BY DEF Snapshot
  <1>3. /\ server' \in ServerRec /\ server'.pc = "write" /\ server'.result = server.result
        /\ server'.on = server.on /\ server'.cmd = server.cmd
    BY <1>a, <1>2 DEF ServerRec, Pcs
  <1>4. server'.snap = menu.visible BY <1>a, <1>2 DEF ServerRec
  <1>5. Publication' BY <1>1, <1>3, <1>4 DEF Publication, Publishing
  <1>6. server'.pc \in Busy /\ server.pc \in Busy /\ server'.result # "none"
    BY <1>0, <1>3 DEF Busy, IInv, Sockets, Served
  <1>7. /\ menu'.visible \in BOOLEAN /\ DOMAIN menu' = DOMAIN menu
        /\ file' \in [visible : BOOLEAN, odd : BOOLEAN]
    BY <1>0, <1>1 DEF Types
  <1> QED BY <1>0, <1>1, <1>3, <1>5, <1>6, <1>7, ServerKeeps

\* The write publishes the menu or leaves the revision odd; with the undo of an
\* opening that could not be shown.
LEMMA WriteKeeps ==
  ASSUME IInv, Write PROVE IInv'
  <1> USE ControlBounds
  <1>0. Types /\ server.pc = "write" /\ target = "live" BY DEF IInv, Types, Write
  <1>a. server \in ServerRec /\ menu.visible \in BOOLEAN BY <1>0 DEF Types, ServerRec
  <1>1. UNCHANGED <<helper, conn, backlog, ui, target>> BY DEF Write
  <1>2. PICK ok \in BOOLEAN :
          /\ file' = Written(server.snap, ok)
          /\ menu' = IF ~ok /\ server.cmd = "toggle" /\ server.result = "grab" THEN Closed(menu) ELSE menu
          /\ server' = [server EXCEPT !.pc = "reply",
                          !.result = IF ~ok /\ server.cmd = "toggle" /\ server.result = "grab"
                                     THEN "error" ELSE @]
    BY <1>0 DEF Write, Unless
  <1>3. /\ server' \in ServerRec /\ server'.pc = "reply" /\ server'.result \in {server.result, "error"}
        /\ server'.on = server.on /\ server'.cmd = server.cmd
    BY <1>a, <1>2 DEF ServerRec, Pcs
  <1>4. menu'.visible \in BOOLEAN /\ DOMAIN menu' = DOMAIN menu BY <1>0, <1>2 DEF Types, Closed
  <1>5. /\ file' \in [visible : BOOLEAN, odd : BOOLEAN]
        /\ ok => file'.visible = server.snap
        /\ ok => ~file'.odd
        /\ ~ok => file'.odd
    <2>1. CASE ok
      <3>1. file' = [visible |-> server.snap, odd |-> FALSE] BY <1>0, <1>2, <2>1 DEF Written
      <3>2. server.snap \in BOOLEAN BY <1>a DEF ServerRec
      <3> QED BY <2>1, <3>1, <3>2
    <2>2. CASE ~ok
      <3>1. file' = [file EXCEPT !.odd = TRUE] BY <1>0, <1>2, <2>2 DEF Written
      <3>2. file \in [visible : BOOLEAN, odd : BOOLEAN] BY <1>0 DEF Types
      <3> QED BY <2>2, <3>1, <3>2
    <2> QED BY <2>1, <2>2
  <1>6. ~Differ'
    <2>1. CASE ok
      <3>1. menu' = menu /\ server.snap = menu.visible BY <1>0, <1>2, <2>1 DEF IInv, Publication
      <3> QED BY <1>5, <2>1, <3>1 DEF Differ
    <2>2. CASE ~ok BY <1>5, <2>2 DEF Differ
    <2> QED BY <2>1, <2>2
  <1>7. Publication' BY <1>3, <1>6 DEF Publication
  <1>8. server'.pc \in Busy /\ server.pc \in Busy /\ server'.result # "none"
    BY <1>0, <1>3 DEF Busy, IInv, Sockets, Served
  <1> QED BY <1>0, <1>1, <1>3, <1>4, <1>5, <1>7, <1>8, ServerKeeps

\* Accepting the oldest connection keeps the invariant.
LEMMA AcceptKeeps ==
  ASSUME IInv, Accept PROVE IInv'
  <1> USE ControlBounds
  <1>0. Types /\ server.pc = "accept" /\ server.on = 0 BY DEF IInv, Sockets, Served, Accept
  <1> PICK s : s = Head(backlog) OBVIOUS
  <1>1. /\ Len(backlog) \in Nat /\ Len(backlog) > 0 /\ s = backlog[1] /\ s \in Conn
        /\ backlog' \in Seq(Conn) /\ Len(backlog') = Len(backlog) - 1
        /\ \A i \in 1..Len(backlog') : i + 1 \in 1..Len(backlog) /\ backlog'[i] = backlog[i + 1]
    BY <1>0 DEF Accept, Types
  <1>2. /\ server' \in ServerRec /\ server'.pc = "read" /\ server'.on = s
    BY <1>1 DEF Accept, Waiting, ServerRec, Pcs
  <1>3. UNCHANGED <<helper, conn, ui, menu, target, file>> BY DEF Accept
  <1>4. \A c \in Conn : Waited(c) => c = s \/ Waited(c)'
    <2> SUFFICES ASSUME NEW i \in 1..Len(backlog), backlog[i] # s
                 PROVE  \E j \in 1..Len(backlog') : backlog'[j] = backlog[i]
      BY DEF Waited
    <2>1. i # 1 BY <1>1
    <2>2. i - 1 \in 1..Len(backlog') /\ (i - 1) + 1 = i BY <1>1, <2>1
    <2> QED BY <1>1, <2>2
  <1>5. conn[s].stage = "open" /\ conn[s].resp = "none" BY <1>1 DEF IInv, Sockets, Unread
  <1>6. Types' BY <1>1, <1>2, <1>3 DEF IInv, Types, ServerRec
  <1>7. Sockets'
    <2>1. Ends'
      <3>1. \A c \in Conn : conn[c].stage = "open" => c = server'.on \/ Waited(c)'
        BY <1>0, <1>2, <1>4 DEF IInv, Sockets, Ends
      <3> QED BY <1>3, <3>1 DEF IInv, Sockets, Ends
    <2>2. Served' BY <1>1, <1>2, <1>3, <1>5 DEF Served, Busy
    <2>3. ASSUME NEW i \in 1..Len(backlog')
          PROVE  /\ conn'[backlog'[i]].stage = "open" /\ conn'[backlog'[i]].resp = "none"
                 /\ backlog'[i] # server'.on /\ backlog'[i] # helper'.stream
                 /\ \E cmd \in Closers \cup {"shortcut"} : conn'[backlog'[i]].req = <<cmd>>
      <3>1. i + 1 \in 1..Len(backlog) /\ 1 \in 1..Len(backlog) /\ i + 1 # 1 BY <1>1
      <3>2. backlog'[i] = backlog[i + 1] /\ backlog[i + 1] # backlog[1]
        BY <1>1, <3>1 DEF IInv, Sockets, Unread
      <3> PICK k : k = backlog[i + 1] OBVIOUS
      <3>3. /\ conn[k].stage = "open" /\ conn[k].resp = "none" /\ k # helper.stream
            /\ \E cmd \in Closers \cup {"shortcut"} : conn[k].req = <<cmd>>
        BY <3>1 DEF IInv, Sockets, Unread
      <3> QED BY <1>1, <1>2, <1>3, <3>2, <3>3
    <2>4. ASSUME NEW i \in 1..Len(backlog'), NEW j \in 1..Len(backlog'), backlog'[i] = backlog'[j]
          PROVE  i = j
      <3>1. PICK a \in 1..Len(backlog) : a = i + 1 BY <1>1
      <3>2. PICK b \in 1..Len(backlog) : b = j + 1 BY <1>1
      <3>3. backlog[a] = backlog[b] BY <1>1, <2>4, <3>1, <3>2
      <3>4. a = b BY <3>3 DEF IInv, Sockets, Unread
      <3> QED BY <1>1, <3>1, <3>2, <3>4
    <2> QED BY <2>1, <2>2, <2>3, <2>4 DEF Sockets, Unread
  <1>8. Modes' BY <1>3 DEF IInv, Modes
  <1>9. InFlight'
    <2>1. \A c \in Conn : ~Single(c) BY <1>0 DEF Single
    <2>2. helper.wait # "none" => helper.on \in Conn BY DEF IInv, Types, Modes
    <2>3. helper.wait = "pointer" => conn'[helper'.on].stage = "done" BY <1>3, <2>1, <2>2 DEF IInv, InFlight
    <2>4. helper.open /\ helper.wait = "none" => conn'[helper'.stream].stage = "done"
      BY <1>0, <1>3 DEF IInv, InFlight
    <2>5. ASSUME helper.wait = "open"
          PROVE  \/ conn'[helper'.on].stage = "done"
                 \/ Single(helper.on)'
                 \/ Waited(helper.on)' /\ conn'[helper'.on].req = <<helper'.cmd>>
      <3>1. CASE conn[helper.on].stage = "done" BY <1>3, <3>1
      <3>2. CASE Waited(helper.on) /\ conn[helper.on].req = <<helper.cmd>>
        <4>1. CASE helper.on = s
          <5>1. /\ server'.on = helper'.on /\ server'.pc = "read"
                /\ conn'[helper'.on].req = <<helper'.cmd>> /\ conn'[helper'.on].resp = "none"
            BY <1>2, <1>3, <1>5, <3>2, <4>1
          <5> QED BY <5>1 DEF Single
        <4>2. CASE helper.on # s
          <5> PICK c : c = helper.on OBVIOUS
          <5>1. c = helper'.on /\ c \in Conn /\ Waited(c) BY <1>3, <2>2, <2>5, <3>2
          <5>2. Waited(c)' BY <1>4, <4>2, <5>1
          <5>3. \E i \in 1..Len(backlog') : backlog'[i] = c BY <5>2 DEF Waited
          <5>4. Waited(helper.on)' BY <5>1, <5>3 DEF Waited
          <5> QED BY <1>3, <3>2, <5>4
        <4> QED BY <4>1, <4>2
      <3> QED BY <2>1, <2>2, <2>5, <3>1, <3>2 DEF IInv, InFlight
    <2> QED BY <1>3, <2>3, <2>4, <2>5 DEF InFlight
  <1>10. Answerable'
    <2>1. \A c \in Conn : ReleaseUnread(c)' <=> ReleaseUnread(c) BY <1>3 DEF ReleaseUnread
    <2>2. "kill" \notin Faults => \A c \in Conn : ~ReleaseUnread(c) BY <1>0 DEF IInv, Answerable
    <2>3. ~ReleaseTaken' BY <1>2 DEF ReleaseTaken
    <2> QED BY <2>1, <2>2, <2>3 DEF Answerable
  <1>11. Publication'
    <2>1. Differ' <=> Differ BY <1>3 DEF Differ
    <2>2. ~Publishing BY <1>0 DEF Publishing
    <2>3. HasPub => Repairs'
      <3> SUFFICES ASSUME NEW i \in 1..Len(backlog), NEW cmd \in Closers, conn[backlog[i]].req = <<cmd>>
                   PROVE  Repairs'
        BY DEF HasPub
      <3>1. CASE backlog[i] = s
        <4>1. conn'[server'.on].req = <<cmd>> BY <1>2, <1>3, <3>1
        <4>2. conn'[server'.on].req # <<>> /\ Head(conn'[server'.on].req) = cmd /\ Publishes(cmd)
          BY <4>1 DEF Publishes, Closers
        <4> QED BY <1>2, <4>2 DEF Repairs
      <3>2. CASE backlog[i] # s
        <4>1. i # 1 BY <1>1, <3>2
        <4>2. i - 1 \in 1..Len(backlog') /\ (i - 1) + 1 = i BY <1>1, <4>1
        <4>3. backlog'[i - 1] = backlog[i] BY <1>1, <4>2
        <4>4. HasPub' BY <1>3, <4>2, <4>3 DEF HasPub
        <4> QED BY <4>4 DEF Repairs
      <3> QED BY <3>1, <3>2
    <2>4. Repairs => Repairs' BY <1>0, <1>3, <2>3 DEF Repairs, Failing
    <2> QED BY <1>2, <2>1, <2>2, <2>4 DEF IInv, Publication
  <1> QED BY <1>6, <1>7, <1>8, <1>9, <1>10, <1>11 DEF IInv

\* The control thread takes the next command off its connection.
TakesCommand ==
    /\ server.pc = "read" /\ conn[server.on].req # <<>>
    /\ server' = [server EXCEPT !.pc = "watch", !.cmd = Head(conn[server.on].req)]
    /\ conn' = [conn EXCEPT ![server.on].req = Tail(conn[server.on].req)]
    /\ UNCHANGED <<helper, backlog, ui, menu, target, file>>

\* Reading the next command keeps the invariant.
LEMMA CommandKeeps ==
  ASSUME IInv, TakesCommand PROVE IInv'
  <1> USE ControlBounds
  <1> PICK s : s = server.on OBVIOUS
  <1>0. Types /\ server.pc = "read" /\ s \in Conn /\ conn[s].stage = "open"
    BY DEF IInv, Types, Sockets, Served, TakesCommand
  <1>1. UNCHANGED <<helper, backlog, ui, menu, target, file>> BY DEF TakesCommand
  <1>2. PICK q \in Seq(Cmd) : q = conn[s].req BY <1>0 DEF Types, ConnRec
  <1>3. q # <<>> /\ Head(q) \in Cmd /\ Tail(q) \in Seq(Cmd) BY <1>2 DEF TakesCommand
  <1>4. /\ conn' \in [Conn -> ConnRec]
        /\ \A c \in Conn : c # s => conn'[c] = conn[c]
        /\ conn'[s].stage = conn[s].stage /\ conn'[s].client = conn[s].client
        /\ conn'[s].req = Tail(q) /\ conn'[s].resp = conn[s].resp
    <2> PICK x : x = conn[s] OBVIOUS
    <2> PICK t : t = Tail(q) OBVIOUS
    <2>1. x \in ConnRec BY <1>0 DEF Types
    <2>2. conn' = [conn EXCEPT ![s].req = t] BY <1>2 DEF TakesCommand
    <2>3. conn'[s] = [x EXCEPT !.req = t] BY <1>0, <2>2 DEF Types
    <2>4. \A c \in Conn : c # s => conn'[c] = conn[c] BY <1>0, <2>2 DEF Types
    <2>5. t \in Seq(Cmd) BY <1>3
    <2>6. conn'[s] \in ConnRec BY <2>1, <2>3, <2>5 DEF ConnRec
    <2>7. conn' \in [Conn -> ConnRec] BY <1>0, <2>2, <2>4, <2>6 DEF Types
    <2>8. conn'[s].stage = x.stage /\ conn'[s].req = t /\ conn'[s].resp = x.resp BY <2>1, <2>3 DEF ConnRec
    <2>9. conn'[s].client = x.client BY <2>1, <2>3 DEF ConnRec
    <2> QED BY <2>4, <2>7, <2>8, <2>9
  <1>5. /\ server' \in ServerRec /\ server'.pc = "watch" /\ server'.on = s /\ server'.cmd = Head(q)
    <2>1. server \in ServerRec BY <1>0 DEF Types, ServerRec
    <2> PICK h : h = Head(q) OBVIOUS
    <2>2. server' = [server EXCEPT !.pc = "watch", !.cmd = h] BY <1>2 DEF TakesCommand
    <2> QED BY <1>3, <2>1, <2>2 DEF ServerRec, Pcs
  <1>6. \A c \in Conn : conn'[c].stage = conn[c].stage BY <1>4
  <1>7. \A c \in Conn : conn'[c].client <=> conn[c].client BY <1>4
  <1>a. \A i \in 1..Len(backlog) : backlog[i] \in Conn BY <1>0 DEF Types
  <1>b. \A i \in 1..Len(backlog) : backlog[i] # s BY DEF IInv, Sockets, Unread
  <1>8. \A i \in 1..Len(backlog) : conn'[backlog[i]] = conn[backlog[i]] BY <1>4, <1>a, <1>b
  <1>9. Types' BY <1>1, <1>4, <1>5 DEF IInv, Types, ServerRec
  <1>10. Sockets'
    <2>0. \A c \in Conn : Waited(c)' <=> Waited(c) BY <1>1 DEF Waited
    <2>1. \A c \in Conn : conn'[c].stage = "free" => conn'[c] = FreeConn BY <1>0, <1>4 DEF IInv, Sockets, Ends
    <2>2. \A c \in Conn : conn'[c].stage = "done" => conn'[c].req = <<>> BY <1>0, <1>4 DEF IInv, Sockets, Ends
    <2>3. Ends' BY <1>1, <1>5, <1>6, <1>7, <2>0, <2>1, <2>2 DEF IInv, Sockets, Ends
    <2>4. Served' BY <1>0, <1>3, <1>5, <1>6 DEF Served
    <2>5. ASSUME NEW i \in 1..Len(backlog)
          PROVE  /\ conn'[backlog[i]].stage = "open" /\ conn'[backlog[i]].resp = "none"
                 /\ backlog[i] # helper.stream
                 /\ \E cmd \in Closers \cup {"shortcut"} : conn'[backlog[i]].req = <<cmd>>
      <3> PICK k : k = backlog[i] OBVIOUS
      <3>1. /\ conn[k].stage = "open" /\ conn[k].resp = "none" /\ k # helper.stream
            /\ \E cmd \in Closers \cup {"shortcut"} : conn[k].req = <<cmd>>
        BY DEF IInv, Sockets, Unread
      <3> QED BY <1>8, <3>1
    <2>6. \A i, j \in 1..Len(backlog) : backlog[i] = backlog[j] => i = j BY DEF IInv, Sockets, Unread
    <2>a. helper'.stream = helper.stream /\ backlog' = backlog /\ server'.on = s BY <1>1, <1>5
    <2>7. Unread' BY ONLY <1>b, <2>a, <2>5, <2>6 DEF Unread
    <2> QED BY <2>3, <2>4, <2>7 DEF Sockets
  <1>11. Modes' BY <1>1, <1>6, <1>7 DEF IInv, Modes, Types
  <1>12. helper.on = s /\ helper.wait \in {"pointer", "open"} =>
           q = <<helper.cmd>> /\ conn[s].resp = "none" /\ Tail(q) = <<>>
    <2>1. ~Waited(s) BY DEF IInv, Sockets, Unread, Waited
    <2>2. \A x : q = <<x>> => Tail(q) = <<>> OBVIOUS
    <2>3. helper.on = s /\ helper.wait \in {"pointer", "open"} => Single(s)
      BY <1>0, <2>1 DEF IInv, InFlight
    <2>4. Single(s) => conn[s].req = <<helper.cmd>> /\ conn[s].resp = "none"
      BY <1>0, <1>2, <1>3 DEF Single, Busy
    <2> QED BY <1>2, <2>2, <2>3, <2>4
  <1>13. InFlight'
    <2>1. helper.wait # "none" => helper.on \in Conn BY DEF IInv, Types, Modes
    <2>2. helper.open => helper.stream \in Conn BY DEF IInv, Types, Modes
    <2>3. \A c \in Conn : c # s => ~Single(c) BY DEF Single
    <2>4. \A c \in Conn : Waited(c)' <=> Waited(c) BY <1>1 DEF Waited
    <2>5. helper.on = s /\ helper.wait \in {"pointer", "open"} => Single(helper.on)'
      BY <1>1, <1>4, <1>5, <1>12 DEF Single, Busy
    <2>6. helper.open /\ helper.wait = "none" => conn[helper.stream].stage = "done"
      BY <1>2, <1>3 DEF IInv, InFlight
    <2>7. helper.wait = "pointer" => conn'[helper'.on].stage = "done" \/ Single(helper.on)'
      BY <1>1, <1>6, <2>1, <2>3, <2>5 DEF IInv, InFlight
    <2>8. helper.wait = "open" => \/ conn'[helper'.on].stage = "done" \/ Single(helper.on)'
                                  \/ Waited(helper.on)' /\ conn'[helper'.on].req = <<helper'.cmd>>
      BY <1>1, <1>4, <2>1, <2>3, <2>4, <2>5 DEF IInv, InFlight
    <2> QED BY <1>1, <1>6, <2>2, <2>6, <2>7, <2>8 DEF InFlight
  <1>14. HasPub' <=> HasPub BY <1>1, <1>8 DEF HasPub
  <1>15. Answerable'
    <2>1. \A c \in Conn : c # s => (ReleaseUnread(c)' <=> ReleaseUnread(c)) BY <1>4 DEF ReleaseUnread
    <2>2. ReleaseUnread(s)' => ReleaseUnread(s) /\ Tail(q) # <<>>
      <3> SUFFICES ASSUME NEW i \in 1..Len(Tail(q)), Tail(q)[i] = "release"
                   PROVE  (\E j \in 1..Len(q) : q[j] = "release") /\ Tail(q) # <<>>
        BY <1>2, <1>4 DEF ReleaseUnread
      <3>1. Len(q) \in Nat /\ Len(q) > 0 BY <1>3
      <3>2. Len(Tail(q)) = Len(q) - 1 /\ i + 1 \in 1..Len(q) /\ Tail(q)[i] = q[i + 1] BY <1>3, <3>1
      <3>3. Len(Tail(q)) # 0 BY <3>1, <3>2
      <3>a. Len(<<>>) = 0 OBVIOUS
      <3>4. Tail(q) # <<>> BY ONLY <3>3, <3>a
      <3> QED BY <3>2, <3>4
    <2>3. ReleaseTaken' => ReleaseUnread(s) /\ Head(q) = "release"
      BY <1>2, <1>3, <1>5 DEF ReleaseUnread, ReleaseTaken
    <2>4. conn[s].req = <<"release", helper.cmd>> => Tail(q) = <<helper.cmd>> BY <1>2
    <2>5. helper.wait = "close" /\ helper.on = s /\ Tail(q) = <<helper.cmd>> => ~ReleaseUnread(s)'
      <3>1. \A x : x # "release" => ~\E i \in 1..Len(<<x>>) : <<x>>[i] = "release" OBVIOUS
      <3>2. helper.wait = "close" => helper.cmd # "release" BY DEF IInv, Modes, Closers
      <3> SUFFICES ASSUME helper.wait = "close", Tail(q) = <<helper.cmd>> PROVE ~ReleaseUnread(s)' OBVIOUS
      <3> PICK x : x = helper.cmd OBVIOUS
      <3>3. conn'[s].req = <<x>> /\ x # "release" BY <1>4, <3>2
      <3> QED BY <3>1, <3>3 DEF ReleaseUnread
    <2>6. "kill" \notin Faults /\ ReleaseUnread(s)' => HasPub
      BY <1>0, <1>12, <2>2, <2>4, <2>5 DEF IInv, Answerable
    <2>7. "kill" \notin Faults => \A c \in Conn : ReleaseUnread(c)' => c = s BY <2>1 DEF IInv, Answerable
    <2>8. "kill" \notin Faults /\ ReleaseTaken' =>
            \/ helper.wait = "pointer" /\ helper.on = s
            \/ helper.wait = "close" /\ helper.on = s /\ conn'[s].resp = "none" /\ conn'[s].req = <<helper.cmd>>
            \/ HasPub
      BY <1>0, <1>4, <2>3, <2>4 DEF IInv, Answerable
    <2> QED BY <1>1, <1>5, <1>14, <2>6, <2>7, <2>8 DEF Answerable
  <1>16. Publication'
    <2>1. Differ' <=> Differ BY <1>1 DEF Differ
    <2>2. ~Publishing BY <1>0 DEF Publishing
    <2>3. Repairs => Repairs'
      <3>1. helper.wait # "none" => helper.on \in Conn BY DEF IInv, Types, Modes
      <3>2. \A c \in Conn : conn'[c].resp = conn[c].resp BY <1>4
      <3> QED BY <1>0, <1>1, <1>2, <1>5, <1>6, <1>14, <3>1, <3>2 DEF Repairs, Failing
    <2> QED BY <1>5, <2>1, <2>2, <2>3 DEF IInv, Publication
  <1> QED BY <1>9, <1>10, <1>11, <1>13, <1>15, <1>16 DEF IInv

\* Leaving a connection, after its end, its timeout or RELEASE, keeps the invariant.
LEMMA HangUpKeeps ==
  ASSUME IInv, NEW s \in Conn, s = server.on, server.pc \in {"read", "reply"}, server' = Waiting,
         conn' \in [Conn -> ConnRec], \A c \in Conn : c # s => conn'[c] = conn[c],
         conn[s].client => conn'[s].stage = "done" /\ conn'[s].client /\ conn'[s].req = <<>>,
         ~conn[s].client => conn'[s] = FreeConn,
         server.pc = "read" => conn[s].req = <<>> /\ (conn[s].client => conn'[s].resp = "error"),
         server.pc = "reply" => ~conn[s].client \/ server.result # "error",
         UNCHANGED <<helper, backlog, ui, menu, target, file>>
  PROVE  IInv'
  <1> USE ControlBounds
  <1>0. Types /\ conn[s].stage = "open" BY DEF IInv, Types, Sockets, Served
  <1>1. server' \in ServerRec /\ server'.pc = "accept" /\ server'.on = 0 BY DEF Waiting, ServerRec, Pcs
  <1>2. FreeConn.stage = "free" /\ ~FreeConn.client /\ FreeConn.req = <<>> BY DEF FreeConn
  <1>3. \A i \in 1..Len(backlog) : backlog[i] \in Conn BY <1>0 DEF Types
  <1>4. \A i \in 1..Len(backlog) : backlog[i] # s BY DEF IInv, Sockets, Unread
  <1>5. \A i \in 1..Len(backlog) : conn'[backlog[i]] = conn[backlog[i]] BY <1>3, <1>4
  <1>6. \A c \in Conn : Waited(c)' <=> Waited(c) BY DEF Waited
  <1>7. conn'[s].req = <<>> /\ conn'[s].stage # "open" /\ (conn'[s].client <=> conn[s].client)
    BY <1>2
  <1>8. helper' = helper /\ backlog' = backlog OBVIOUS
  <1>9. /\ helper.on # 0 => helper.on \in Conn /\ conn[helper.on].client
        /\ helper.stream # 0 => helper.stream \in Conn /\ conn[helper.stream].client
    BY <1>0 DEF IInv, Types, Modes
  <1>10. Types' BY <1>1 DEF IInv, Types, ServerRec
  <1>11. Sockets'
    <2>1. ASSUME NEW c \in Conn
          PROVE  /\ conn'[c].stage = "free" => conn'[c] = FreeConn
                 /\ conn'[c].stage = "done" => conn'[c].client /\ conn'[c].req = <<>>
                 /\ conn'[c].stage = "open" => Waited(c)'
                 /\ conn'[c].client => c = helper.stream \/ c = helper.on
      <3>1. CASE c = s BY <1>2, <1>7, <3>1 DEF IInv, Sockets, Ends
      <3>2. CASE c # s BY <1>6, <3>2 DEF IInv, Sockets, Ends
      <3> QED BY <3>1, <3>2
    <2>2. Ends' BY <1>8, <2>1 DEF Ends
    <2>3. Served' BY <1>1 DEF Served, Busy
    <2>4. ASSUME NEW i \in 1..Len(backlog)
          PROVE  /\ conn'[backlog[i]].stage = "open" /\ conn'[backlog[i]].resp = "none"
                 /\ backlog[i] # helper.stream /\ backlog[i] # 0
                 /\ \E cmd \in Closers \cup {"shortcut"} : conn'[backlog[i]].req = <<cmd>>
      <3> PICK k : k = backlog[i] OBVIOUS
      <3>1. /\ conn[k].stage = "open" /\ conn[k].resp = "none" /\ k # helper.stream
            /\ \E cmd \in Closers \cup {"shortcut"} : conn[k].req = <<cmd>>
        BY DEF IInv, Sockets, Unread
      <3> QED BY <1>3, <1>5, <3>1
    <2>5. \A i, j \in 1..Len(backlog) : backlog[i] = backlog[j] => i = j BY DEF IInv, Sockets, Unread
    <2>6. Unread' BY ONLY <1>1, <1>8, <2>4, <2>5 DEF Unread
    <2> QED BY <2>2, <2>3, <2>6 DEF Sockets
  <1>12. Modes'
    <2>1. /\ helper.on # 0 => conn'[helper.on].client /\ conn'[helper.on].stage # "free"
          /\ helper.stream # 0 => conn'[helper.stream].client /\ conn'[helper.stream].stage # "free"
      BY <1>9 DEF IInv, Modes
    <2> QED BY <1>8, <2>1 DEF IInv, Modes
  <1>13. InFlight'
    <2>1. \A c \in Conn : c # s => ~Single(c) BY DEF Single
    <2>2. helper.on = s => conn'[helper.on].stage = "done" BY <1>9
    <2>3. helper.stream = s => conn'[helper.stream].stage = "done" BY <1>9
    <2>4. helper.wait # "none" => helper.on # 0 BY DEF IInv, Modes
    <2>5. helper.open => helper.stream # 0 BY DEF IInv, Modes
    <2>6. helper.open /\ helper.wait = "none" => conn'[helper.stream].stage = "done"
      BY <1>9, <2>3, <2>5 DEF IInv, InFlight
    <2>7. helper.wait = "pointer" => conn'[helper.on].stage = "done"
      BY <1>9, <2>1, <2>2, <2>4 DEF IInv, InFlight
    <2>8. helper.wait = "open" => \/ conn'[helper.on].stage = "done"
                                  \/ Waited(helper.on) /\ conn'[helper.on].req = <<helper.cmd>>
      BY <1>9, <2>1, <2>2, <2>4 DEF IInv, InFlight
    <2>9. Waited(helper.on)' <=> Waited(helper.on) BY <1>8 DEF Waited
    <2> QED BY <1>8, <2>6, <2>7, <2>8, <2>9 DEF InFlight
  <1>14. HasPub' <=> HasPub BY <1>5 DEF HasPub
  <1>15. Answerable'
    <2>1. \A c \in Conn : c # s => (ReleaseUnread(c)' <=> ReleaseUnread(c)) BY DEF ReleaseUnread
    <2>2. ~ReleaseUnread(s)' BY <1>7 DEF ReleaseUnread
    <2>3. "kill" \notin Faults => \A c \in Conn : ~ReleaseUnread(c)' BY <2>1, <2>2 DEF IInv, Answerable
    <2>4. ~ReleaseTaken' BY <1>1 DEF ReleaseTaken
    <2> QED BY <2>3, <2>4 DEF Answerable
  <1>16. Publication'
    <2>1. Differ' <=> Differ BY DEF Differ
    <2>2. ~Publishing BY DEF Publishing
    <2>3. Repairs => Repairs'
      <3>1. helper.wait # "none" => helper.on # 0 BY DEF IInv, Modes
      <3>2. ~(Failing /\ server.on = helper.on /\ helper.wait # "none") BY <1>9, <3>1 DEF Failing
      <3>3. helper.wait = "pointer" /\ conn[helper.on].resp = "error" => conn'[helper.on].resp = "error"
        <4>1. helper.wait = "pointer" /\ helper.on = s => Single(s) BY <1>0 DEF IInv, InFlight
        <4>2. Single(s) /\ server.pc = "reply" => conn[s].resp = "none" BY DEF Single
        <4> QED BY <1>9, <3>1, <4>1, <4>2
      <3>4. helper.wait = "close" /\ conn[helper.on].stage = "done" => conn'[helper.on] = conn[helper.on]
        BY <1>0, <1>9, <3>1
      <3> QED BY <1>8, <1>14, <3>2, <3>3, <3>4 DEF Repairs
    <2> QED BY <1>1, <2>1, <2>2, <2>3 DEF IInv, Publication
  <1> QED BY <1>10, <1>11, <1>12, <1>13, <1>15, <1>16 DEF IInv

\* Answering and staying with the connection keeps the invariant.
LEMMA AnswerKeeps ==
  ASSUME IInv, NEW s \in Conn, s = server.on, server.pc = "reply", conn[s].client,
         NEW r \in {"ok", "grab", "error"}, server.result = "error" => r = "error",
         server' = [Waiting EXCEPT !.pc = "read", !.on = s], conn' = Reset(s, r),
         UNCHANGED <<helper, backlog, ui, menu, target, file>>
  PROVE  IInv'
  <1> USE ControlBounds
  <1>0. Types /\ conn[s].stage = "open" BY DEF IInv, Types, Sockets, Served
  <1>1. server' \in ServerRec /\ server'.pc = "read" /\ server'.on = s BY DEF Waiting, ServerRec, Pcs
  <1>2. /\ conn' \in [Conn -> ConnRec]
        /\ \A c \in Conn : c # s => conn'[c] = conn[c]
        /\ conn'[s].stage = conn[s].stage /\ conn'[s].client = conn[s].client
        /\ conn'[s].req = conn[s].req /\ conn'[s].resp = r
    <2>1. PICK d : d = conn' OBVIOUS
    <2>2. d = Reset(s, r) BY <2>1
    <2>3. s \in Conn /\ r \in {"none", "ok", "grab", "release", "error"} OBVIOUS
    <2>4. /\ d \in [Conn -> ConnRec]
          /\ \A c \in Conn : c # s => d[c] = conn[c]
          /\ d[s].stage = conn[s].stage /\ d[s].client = conn[s].client
          /\ d[s].req = conn[s].req /\ d[s].resp = r
      BY ONLY <1>0, <2>2, <2>3, RespOne
    <2> QED BY <2>1, <2>4
  <1>3. \A i \in 1..Len(backlog) : backlog[i] \in Conn BY <1>0 DEF Types
  <1>4. \A i \in 1..Len(backlog) : backlog[i] # s BY DEF IInv, Sockets, Unread
  <1>5. \A i \in 1..Len(backlog) : conn'[backlog[i]] = conn[backlog[i]] BY <1>2, <1>3, <1>4
  <1>6. \A c \in Conn : Waited(c)' <=> Waited(c) BY DEF Waited
  <1>7. \A c \in Conn : conn'[c].stage = conn[c].stage /\ conn'[c].req = conn[c].req BY <1>2
  <1>8. \A c \in Conn : conn'[c].client <=> conn[c].client BY <1>2
  <1>9. helper' = helper /\ backlog' = backlog OBVIOUS
  <1>10. Types' BY <1>1, <1>2 DEF IInv, Types, ServerRec
  <1>11. Sockets'
    <2>1. \A c \in Conn : conn'[c].stage = "free" => conn'[c] = FreeConn
      BY <1>0, <1>2 DEF IInv, Sockets, Ends
    <2>2. Ends' BY <1>1, <1>6, <1>7, <1>8, <1>9, <2>1 DEF IInv, Sockets, Ends
    <2>3. Served' BY <1>0, <1>1, <1>7 DEF Served, Busy
    <2>4. ASSUME NEW i \in 1..Len(backlog)
          PROVE  /\ conn'[backlog[i]].stage = "open" /\ conn'[backlog[i]].resp = "none"
                 /\ backlog[i] # helper.stream
                 /\ \E cmd \in Closers \cup {"shortcut"} : conn'[backlog[i]].req = <<cmd>>
      <3> PICK k : k = backlog[i] OBVIOUS
      <3>1. /\ conn[k].stage = "open" /\ conn[k].resp = "none" /\ k # helper.stream
            /\ \E cmd \in Closers \cup {"shortcut"} : conn[k].req = <<cmd>>
        BY DEF IInv, Sockets, Unread
      <3> QED BY <1>5, <3>1
    <2>5. \A i, j \in 1..Len(backlog) : backlog[i] = backlog[j] => i = j BY DEF IInv, Sockets, Unread
    <2>6. Unread' BY ONLY <1>1, <1>4, <1>9, <2>4, <2>5 DEF Unread
    <2> QED BY <2>2, <2>3, <2>6 DEF Sockets
  <1>12. helper.on # 0 => helper.on \in Conn BY <1>0 DEF Types
  <1>13. helper.stream # 0 => helper.stream \in Conn BY <1>0 DEF Types
  <1>14. helper.wait # "none" => helper.on # 0 BY DEF IInv, Modes
  <1>15. Modes' BY <1>7, <1>8, <1>9, <1>12, <1>13 DEF IInv, Modes
  <1>16. ~Waited(s) BY <1>4 DEF Waited
  <1>17. helper.wait \in {"pointer", "open"} /\ helper.on = s => Single(s)
    BY <1>0, <1>16 DEF IInv, InFlight
  <1>18. Single(s) => conn[s].req = <<>> /\ conn[s].resp = "none" BY DEF Single
  <1>19. InFlight'
    <2>1. \A c \in Conn : c # s => ~Single(c) BY DEF Single
    <2>2. helper.wait \in {"pointer", "open"} /\ helper.on = s => Single(helper.on)'
      BY <1>1, <1>2, <1>9, <1>17, <1>18 DEF Single
    <2>3. helper.open => helper.stream # 0 BY DEF IInv, Modes
    <2>4. helper.open /\ helper.wait = "none" => conn'[helper.stream].stage = "done"
      BY <1>7, <1>13, <2>3 DEF IInv, InFlight
    <2>5. helper.wait = "pointer" => conn'[helper.on].stage = "done" \/ Single(helper.on)'
      BY <1>7, <1>12, <1>14, <2>1, <2>2 DEF IInv, InFlight
    <2>6. helper.wait = "open" => \/ conn'[helper.on].stage = "done" \/ Single(helper.on)'
                                  \/ Waited(helper.on) /\ conn'[helper.on].req = <<helper.cmd>>
      BY <1>7, <1>12, <1>14, <2>1, <2>2 DEF IInv, InFlight
    <2>7. Waited(helper.on)' <=> Waited(helper.on) BY <1>9 DEF Waited
    <2> QED BY <1>9, <2>4, <2>5, <2>6, <2>7 DEF InFlight
  <1>20. HasPub' <=> HasPub BY <1>5 DEF HasPub
  <1>21. Answerable'
    <2>1. \A c \in Conn : ReleaseUnread(c)' <=> ReleaseUnread(c) BY <1>7 DEF ReleaseUnread
    <2>2. ~ReleaseTaken' BY <1>1 DEF ReleaseTaken
    <2>3. "kill" \notin Faults => \A c \in Conn : ReleaseUnread(c) =>
            server.on = c /\ ((helper.wait = "pointer" /\ helper.on = c) \/ HasPub)
      BY DEF IInv, Answerable
    <2> QED BY <1>1, <1>9, <1>20, <2>1, <2>2, <2>3 DEF Answerable
  <1>22. Publication'
    <2>1. Differ' <=> Differ BY DEF Differ
    <2>2. ~Publishing BY DEF Publishing
    <2>3. Repairs => Repairs'
      <3>1. helper.wait = "pointer" /\ conn[helper.on].resp = "error" => conn'[helper.on].resp = "error"
        BY <1>2, <1>12, <1>14, <1>17, <1>18
      <3>2. Failing /\ helper.on = s => conn'[helper.on].resp = "error" BY <1>2 DEF Failing
      <3>3. helper.wait = "close" /\ conn[helper.on].stage = "done" => conn'[helper.on] = conn[helper.on]
        BY <1>0, <1>2, <1>12, <1>14
      <3>4. helper.wait = "close" /\ conn[s].req = <<helper.cmd>> =>
              conn'[s].req # <<>> /\ Publishes(Head(conn'[s].req))
        <4> SUFFICES ASSUME helper.wait = "close", conn[s].req = <<helper.cmd>>
                     PROVE  conn'[s].req # <<>> /\ Publishes(Head(conn'[s].req))
          OBVIOUS
        <4> PICK x : x = helper.cmd OBVIOUS
        <4>1. x \in Closers /\ conn'[s].req = <<x>> BY <1>2 DEF IInv, Modes
        <4>2. <<x>> # <<>> /\ Head(<<x>>) = x OBVIOUS
        <4> QED BY <4>1, <4>2 DEF Closers, Publishes
      <3> QED BY <1>1, <1>9, <1>20, <3>1, <3>2, <3>3, <3>4 DEF Repairs
    <2> QED BY <1>1, <2>1, <2>2, <2>3 DEF IInv, Publication
  <1> QED BY <1>10, <1>11, <1>15, <1>19, <1>21, <1>22 DEF IInv

\* read_command keeps the invariant.
LEMMA ReadKeeps ==
  ASSUME IInv, Read PROVE IInv'
  <1> USE ControlBounds
  <1> PICK s : s = server.on OBVIOUS
  <1>0. Types /\ server.pc = "read" /\ s \in Conn BY DEF IInv, Types, Sockets, Served, Read
  <1>1. UNCHANGED <<helper, backlog, ui, menu, target, file>> BY DEF Read
  <1>2. CASE conn[s].req # <<>>
    <2>1. TakesCommand BY <1>1, <1>2 DEF Read, TakesCommand
    <2> QED BY <2>1, CommandKeeps
  <1>3. CASE conn[s].req = <<>> /\ ~conn[s].client
    <2>1. server' = Waiting /\ conn' = Finished(conn, s) BY <1>3 DEF Read
    <2>2. PICK d : d = conn' OBVIOUS
    <2>3. d = Finished(conn, s) /\ s \in Conn /\ conn \in [Conn -> ConnRec] BY <1>0, <2>1, <2>2 DEF Types
    <2>4. /\ d \in [Conn -> ConnRec]
          /\ \A c \in Conn : c # s => d[c] = conn[c]
          /\ ~conn[s].client => d[s] = FreeConn
      BY ONLY <2>3, FinishedOne
    <2> QED BY <1>0, <1>1, <1>3, <2>1, <2>2, <2>4, HangUpKeeps
  <1>4. CASE conn[s].req = <<>> /\ conn[s].client
    <2>1. server' = Waiting /\ conn' = Finished([conn EXCEPT ![s].resp = "error"], s) BY <1>4 DEF Read
    <2>2. PICK x \in {"none", "ok", "grab", "release", "error"} : x = "error" OBVIOUS
    <2>3. PICK b : b = Reset(s, x) OBVIOUS
    <2>4. s \in Conn /\ x \in {"none", "ok", "grab", "release", "error"} BY <1>0
    <2>5. /\ b \in [Conn -> ConnRec]
          /\ \A c \in Conn : c # s => b[c] = conn[c]
          /\ b[s].stage = conn[s].stage /\ b[s].client = conn[s].client
          /\ b[s].req = conn[s].req /\ b[s].resp = x
      BY ONLY <1>0, <2>3, <2>4, RespOne
    <2>6. PICK d : d = conn' OBVIOUS
    <2>7. d = Finished(b, s) BY <2>1, <2>2, <2>3, <2>6 DEF Reset
    <2>8. /\ d \in [Conn -> ConnRec]
          /\ \A c \in Conn : c # s => d[c] = b[c]
          /\ b[s].client => d[s].stage = "done" /\ d[s].client /\ d[s].req = <<>> /\ d[s].resp = b[s].resp
      BY ONLY <2>4, <2>5, <2>7, FinishedOne
    <2>9. b[s].client BY <1>4, <2>5
    <2>10. /\ conn' \in [Conn -> ConnRec]
           /\ \A c \in Conn : c # s => conn'[c] = conn[c]
           /\ conn'[s].stage = "done" /\ conn'[s].client /\ conn'[s].req = <<>> /\ conn'[s].resp = "error"
      BY <2>2, <2>5, <2>6, <2>8, <2>9
    <2> QED BY <1>0, <1>1, <1>4, <2>1, <2>10, HangUpKeeps
  <1> QED BY <1>2, <1>3, <1>4

\* The answer to a command keeps the invariant.
LEMMA ReplyKeeps ==
  ASSUME IInv, Reply PROVE IInv'
  <1> USE ControlBounds
  <1> PICK s : s = server.on OBVIOUS
  <1>0. Types /\ server.pc = "reply" /\ s \in Conn BY DEF IInv, Types, Sockets, Served, Reply
  <1>1. UNCHANGED <<helper, backlog, ui, menu, target, file>> BY DEF Reply
  <1>2. server.result \in {"ok", "grab", "release", "error", "ask"}
    BY <1>0 DEF IInv, Types, Sockets, Served
  <1>3. /\ Answer \in {"ok", "grab", "release", "error"}
        /\ server.result = "error" => Answer = "error"
    BY <1>2 DEF Answer
  <1>4. PICK r \in {"ok", "grab", "release", "error"} : r = Answer BY <1>3
  <1>5. r \in {"none", "ok", "grab", "release", "error"} OBVIOUS
  <1>6. PICK b : b = Reset(s, r) OBVIOUS
  <1>7. /\ b \in [Conn -> ConnRec]
        /\ \A c \in Conn : c # s => b[c] = conn[c]
        /\ b[s].stage = conn[s].stage /\ b[s].client = conn[s].client
        /\ b[s].req = conn[s].req /\ b[s].resp = r
    BY ONLY <1>0, <1>5, <1>6, RespOne
  <1>8. CASE ~conn[s].client
    <2>1. server' = Waiting /\ conn' = Finished(conn, s) BY <1>8 DEF Reply
    <2>2. PICK d : d = conn' OBVIOUS
    <2>3. d = Finished(conn, s) /\ s \in Conn /\ conn \in [Conn -> ConnRec] BY <1>0, <2>1, <2>2 DEF Types
    <2>4. /\ d \in [Conn -> ConnRec]
          /\ \A c \in Conn : c # s => d[c] = conn[c]
          /\ ~conn[s].client => d[s] = FreeConn
      BY ONLY <2>3, FinishedOne
    <2> QED BY <1>0, <1>1, <1>8, <2>1, <2>2, <2>4, HangUpKeeps
  <1>9. CASE conn[s].client /\ r = "release"
    <2>1. server' = Waiting /\ conn' = Finished([conn EXCEPT ![s].resp = Answer], s)
      BY <1>4, <1>9 DEF Reply
    <2>2. PICK d : d = conn' OBVIOUS
    <2>3. d = Finished(b, s) BY <1>4, <1>6, <2>1, <2>2 DEF Reset
    <2>4. s \in Conn BY <1>0
    <2>5. /\ d \in [Conn -> ConnRec]
          /\ \A c \in Conn : c # s => d[c] = b[c]
          /\ b[s].client => d[s].stage = "done" /\ d[s].client /\ d[s].req = <<>> /\ d[s].resp = b[s].resp
      BY ONLY <1>7, <2>3, <2>4, FinishedOne
    <2>6. b[s].client BY <1>7, <1>9
    <2>7. /\ conn' \in [Conn -> ConnRec]
          /\ \A c \in Conn : c # s => conn'[c] = conn[c]
          /\ conn'[s].stage = "done" /\ conn'[s].client /\ conn'[s].req = <<>>
      BY <1>7, <2>2, <2>5, <2>6
    <2>8. server.result # "error" BY <1>3, <1>4, <1>9
    <2> QED BY <1>0, <1>1, <1>9, <2>1, <2>7, <2>8, HangUpKeeps
  <1>10. CASE conn[s].client /\ r # "release"
    <2>1. server' = [Waiting EXCEPT !.pc = "read", !.on = s] /\ conn' = [conn EXCEPT ![s].resp = Answer]
      BY <1>4, <1>10 DEF Reply
    <2>2. conn' = Reset(s, r) BY <1>4, <2>1 DEF Reset
    <2>3. PICK a \in {"ok", "grab", "error"} : a = r BY <1>10
    <2>4. server.result = "error" => a = "error" BY <1>3, <1>4, <2>3
    <2> QED BY <1>0, <1>1, <1>10, <2>1, <2>2, <2>3, <2>4, AnswerKeeps
  <1> QED BY <1>8, <1>9, <1>10

\* The clock, the game and a stuttering step leave the bookkeeping alone.
LEMMA OthersKeep ==
  ASSUME IInv, menu'.visible = menu.visible, DOMAIN menu' = DOMAIN menu,
         UNCHANGED <<helper, conn, backlog, server, ui, target, file>>
  PROVE  IInv'
  <1>1. Types' BY DEF IInv, Types
  <1>2. Sockets'
    <2>1. \A c \in Conn : Waited(c)' <=> Waited(c) BY DEF Waited
    <2>2. Ends' BY <2>1 DEF IInv, Sockets, Ends
    <2> QED BY <2>2 DEF IInv, Sockets, Served, Unread
  <1>3. Modes' BY DEF IInv, Modes
  <1>4. InFlight' BY DEF IInv, InFlight, Single, Waited
  <1>5. Answerable' BY DEF IInv, Answerable, ReleaseUnread, ReleaseTaken, HasPub
  <1>6. Publication'
    <2>1. Differ' <=> Differ BY DEF Differ
    <2>2. Publishing' <=> Publishing BY DEF Publishing
    <2>3. Repairs' <=> Repairs BY DEF Repairs, HasPub, Failing
    <2> QED BY <2>1, <2>2, <2>3 DEF IInv, Publication
  <1> QED BY <1>1, <1>2, <1>3, <1>4, <1>5, <1>6 DEF IInv

\* Every step keeps the invariant.
LEMMA StepKeeps ==
  ASSUME Calm, IInv, Living, [Next]_vars
  PROVE  IInv'
  <1>0. ui = "idle" /\ "ui" \notin Faults /\ "target" \notin Faults BY DEF IInv, Types, Calm
  <1>1. CASE KeyToggle \/ KeyClose \/ KeySave \/ SaveAfterClose \/ Pointer \/ Ping BY <1>1, HelperSends
  <1>2. CASE HelperAnswered BY <1>2, HelperTakesAnswer
  <1>3. CASE HelperKilled BY <1>3, HelperDies
  <1>4. CASE HelperStarted BY <1>4, HelperRestarts
  <1>5. CASE Accept BY <1>5, AcceptKeeps
  <1>6. CASE Read BY <1>6, ReadKeeps
  <1>7. CASE Watch BY <1>7, WatchKeeps
  <1>8. CASE Apply BY <1>8, ApplyKeeps
  <1>9. CASE Snapshot BY <1>9, SnapshotKeeps
  <1>10. CASE Write BY <1>10, WriteKeeps
  <1>11. CASE Reply BY <1>11, ReplyKeeps
  <1>12. CASE InputAges
    <2>1. DOMAIN menu = {"visible", "pressed", "cursor", "stale"} BY DEF IInv, Types
    <2>2. menu'.visible = menu.visible /\ DOMAIN menu' = DOMAIN menu BY <1>12, <2>1 DEF InputAges
    <2>3. UNCHANGED <<helper, conn, backlog, server, ui, target, file>> BY <1>12 DEF InputAges
    <2> QED BY <2>2, <2>3, OthersKeep
  <1>13. CASE Presented
    <2>1. menu' = menu /\ UNCHANGED <<helper, conn, backlog, server, ui, target, file>> BY <1>13 DEF Presented
    <2>2. menu'.visible = menu.visible /\ DOMAIN menu' = DOMAIN menu BY <2>1
    <2> QED BY <2>1, <2>2, OthersKeep
  <1>14. CASE UNCHANGED vars
    <2>1. menu' = menu /\ UNCHANGED <<helper, conn, backlog, server, ui, target, file>> BY <1>14 DEF vars
    <2>2. menu'.visible = menu.visible /\ DOMAIN menu' = DOMAIN menu BY <2>1
    <2> QED BY <2>1, <2>2, OthersKeep
  <1>15. ~UiBegins /\ ~UiSnapshot /\ ~UiWrites /\ ~TargetChanges
    BY <1>0 DEF UiBegins, UiSnapshot, UiWrites, TargetChanges
  <1> QED BY <1>1, <1>2, <1>3, <1>4, <1>5, <1>6, <1>7, <1>8, <1>9, <1>10, <1>11, <1>12, <1>13, <1>14, <1>15
          DEF Next

\* For any number of connections and targets: once nothing is under way, a readable
\* menu block shows the menu as the daemon has it, whatever was lost, late or failed
\* before (update_replay_menu, replay_menu_button, close_menu).
THEOREM PublishedCorrect == ASSUME Calm PROVE Spec => []PublishedWhenQuiet
  <1>1. Init => IInv /\ Living
    <2>1. Init => Living BY DEF Init, Living, Resting
    <2> QED BY <2>1, InitHolds
  <1>2. IInv /\ Living /\ [Next]_vars => (IInv /\ Living)'
    <2> SUFFICES ASSUME IInv, Living, [Next]_vars PROVE IInv' /\ Living' OBVIOUS
    <2>1. Living' BY Lives DEF IInv
    <2> QED BY <2>1, StepKeeps
  <1>3. IInv /\ Living => PublishedWhenQuiet
    <2> SUFFICES ASSUME IInv, Quiet, ~file.odd, file.visible # menu.visible PROVE FALSE
      BY DEF PublishedWhenQuiet, IInv, Types
    <2>1. server.pc = "accept" /\ helper.wait = "none" /\ backlog = <<>> BY DEF Quiet
    <2>2. ~HasPub BY <2>1 DEF HasPub
    <2> QED BY <2>1, <2>2 DEF IInv, Publication, Differ, Publishing, Repairs
  <1> QED BY <1>1, <1>2, <1>3, PTL DEF Spec
=============================================================================
