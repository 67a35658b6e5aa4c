----------------------------- MODULE GlOverlay -----------------------------
(***************************************************************************)
(* The overlay in an OpenGL game: redunar-capture-opengl overlay.rs and    *)
(* overlay/texture_renderer.rs, called from the presentation hooks of      *)
(* lib.rs. Telemetry and the pictures of the four surfaces are kept once   *)
(* for the process; textures and what was uploaded to them are kept for    *)
(* each context. Every lock is only tried, so a frame goes without.        *)
(*                                                                         *)
(* A context is presented by a thread of its own. A picture is what it was *)
(* made from: settings or menu, size and time. How GL's state is saved and *)
(* restored around a draw is GlDraw's.                                     *)
(***************************************************************************)
EXTENDS Naturals, FiniteSets, Sequences

CONSTANTS
    Contexts,       \* addresses of contexts
    Egl,            \* whether contexts are EGL's, which forgets after it destroyed
    MaxContexts,    \* MAX_CONTEXTS
    HardwareEvery,  \* TELEMETRY_INTERVAL_NS
    MenuEvery,      \* MENU_TELEMETRY_INTERVAL_NS
    NoticeFor,      \* REPLAY_SAVED_NOTICE_NS
    MaxTime, MaxWrites, MaxFrames, MaxGenerations, MaxFaults  \* bounds

Surfaces == {"metrics", "menu", "cursor", "notice"}
Sizes == 1..3
Tiny == 1  \* nothing fits: the scale of every surface is 0

VARIABLES
    clock, writes, frames, faults,
    file,      \* what the daemon has written: settings, saved clips, menu
    state,     \* OVERLAY
    view,      \* the viewport of each context
    target,    \* PRESENTATION_TARGET
    gen,       \* which context has the address; 0: none ever
    alive,     \* "yes", "no", "forgotten" before it is destroyed, "gone" before EGL forgets it, "again" when a new one has its address by then
    frame,     \* the presentation of each context
    cache,     \* the picture of each surface, and who has its lock
    entries,   \* RESOURCES: for each context its objects
    drawing,   \* who has the lock of RESOURCES; 0: nobody
    last,      \* what was drawn last
    activeReported, errorReported, status, \* what was told, and what the daemon knows
    ended      \* how the last frame with anything to show ended

vars == <<clock, writes, frames, faults, file, state, view, target, gen, alive, frame, cache, entries,
          drawing, last, activeReported, errorReported, status, ended>>
told == <<activeReported, errorReported, status, ended>>
world == <<clock, writes, file, view, gen, alive>>

NoMenu == [visible |-> FALSE, item |-> 0]
Idle == [at |-> "idle", todo |-> <<>>, now |-> 0, config |-> 0, menu |-> NoMenu, saved |-> 0, ok |-> TRUE, drawn |-> FALSE]
NoPicture == [of |-> 0, size |-> 0, time |-> 0]

Init ==
    /\ clock = 1 /\ writes = 0 /\ frames = 0 /\ faults = 0
    /\ file = [rev |-> 0, visible |-> TRUE, config |-> 0, saved |-> 0, menuRev |-> 0, menu |-> NoMenu]
    /\ state = [hardwareRead |-> 0, menuRead |-> 0, rev |-> 0, menuRev |-> 0, visible |-> TRUE, config |-> 0,
                menu |-> NoMenu, saved |-> 0, until |-> 0]
    /\ view = [c \in Contexts |-> 2]
    /\ target = [context |-> 0, pixels |-> 0]
    /\ gen = [c \in Contexts |-> 1] /\ alive = [c \in Contexts |-> "yes"]
    /\ frame = [c \in Contexts |-> Idle]
    /\ cache = [s \in Surfaces |-> [by |-> 0, revision |-> 0, picture |-> NoPicture]]
    /\ entries = <<>> /\ drawing = 0
    /\ last = [context |-> 0, surface |-> "", picture |-> NoPicture, want |-> NoPicture, gen |-> 0]
    /\ activeReported = FALSE /\ errorReported = FALSE /\ status = "requested" /\ ended = "none"

----------------------------------------------------------------------------
(* Around the overlay: time, the daemon and the game's windows. *)

Tick ==
    /\ clock < MaxTime /\ clock' = clock + 1
    /\ UNCHANGED <<writes, frames, faults, file, state, view, target, gen, alive, frame, cache, entries, drawing, last, told>>

Write ==
    /\ writes < MaxWrites /\ writes' = writes + 1
    /\ \/ \E v \in BOOLEAN : file' = [file EXCEPT !.rev = @ + 1, !.visible = v, !.config = 1 - @]
       \/ file' = [file EXCEPT !.rev = @ + 1, !.saved = @ + 1]
       \/ \E v \in BOOLEAN, i \in 0..1 : file' = [file EXCEPT !.menuRev = @ + 1, !.menu = [visible |-> v, item |-> i]]
    /\ UNCHANGED <<clock, frames, faults, state, view, target, gen, alive, frame, cache, entries, drawing, last, told>>

Resize(c) ==
    /\ frame[c] = Idle /\ writes < MaxWrites /\ writes' = writes + 1
    /\ \E size \in Sizes \ {view[c]} : view' = [view EXCEPT ![c] = size]
    /\ UNCHANGED <<clock, frames, faults, file, state, target, gen, alive, frame, cache, entries, drawing, last, told>>

----------------------------------------------------------------------------
(* refresh *)

Due(read, every) == read = 0 \/ clock - read >= every

RefreshHardware(s) ==
    IF ~Due(s.hardwareRead, HardwareEvery) THEN s
    ELSE IF file.rev = s.rev THEN [s EXCEPT !.hardwareRead = clock]
    ELSE [s EXCEPT !.hardwareRead = clock, !.rev = file.rev, !.visible = file.visible, !.config = file.config,
                   !.saved = file.saved,
                   !.until = IF file.saved # s.saved /\ file.saved # 0 THEN clock + NoticeFor ELSE @]

RefreshMenu(s) ==
    IF ~Due(s.menuRead, IF s.menu.visible THEN MenuEvery ELSE HardwareEvery) THEN s
    ELSE IF file.menuRev = s.menuRev THEN [s EXCEPT !.menuRead = clock]
    ELSE [s EXCEPT !.menuRead = clock, !.menuRev = file.menuRev, !.menu = file.menu]

Refresh(s) == RefreshMenu(RefreshHardware(s))

----------------------------------------------------------------------------
(* PresentationTarget::select *)
Selected(c) == target.context \in {0, c} \/ view[c] > target.pixels

(* render, up to the first surface. A lock that is busy is a frame without.*)
Begin(c) ==
    /\ frame[c] = Idle /\ alive[c] \in {"yes", "again"} /\ frames < MaxFrames /\ frames' = frames + 1
    /\ Selected(c) /\ target' = [context |-> c, pixels |-> view[c]]
    /\ state' = Refresh(state)
    /\ LET s == state'
           todo == (IF s.visible THEN <<"metrics">> ELSE <<>>)
                   \o (IF s.menu.visible THEN <<"menu">> ELSE <<>>)
                   \o (IF s.until > clock THEN <<"notice">> ELSE <<>>)
       IN  frame' = [frame EXCEPT ![c] =
               IF todo = <<>> THEN Idle
               ELSE [Idle EXCEPT !.at = "surface", !.todo = todo, !.now = clock, !.config = s.config,
                                 !.menu = s.menu, !.saved = s.saved]]
    /\ UNCHANGED <<world, faults, cache, entries, drawing, last, told>>

(* What a surface is made from. *)
Source(f, s) == CASE s = "metrics" -> f.config [] s = "menu" -> f.menu.item [] s = "notice" -> f.saved [] s = "cursor" -> 1
Want(c, s) == [of |-> Source(frame[c], s), size |-> view[c], time |-> frame[c].now]

(* The keys of the caches. *)
Stale(s, want) ==
    \/ cache[s].revision = 0
    \/ cache[s].picture.of # want.of \/ cache[s].picture.size # want.size
    \/ s = "metrics" /\ want.time - cache[s].picture.time >= HardwareEvery

(* render_plan, render_replay_menu, render_pointer, render_saved_notice *)
Redrawn(s, want) == [revision |-> cache[s].revision + 1, picture |-> want]

(* The frame after a surface. *)
GoOn(f, todo) == [f EXCEPT !.at = IF todo = <<>> THEN "end" ELSE "surface", !.todo = todo]
Failed(f) == [GoOn(f, Tail(f.todo)) EXCEPT !.ok = FALSE]
(* The cursor follows a menu that was drawn. *)
Drawn(f) ==
    [GoOn(f, (IF Head(f.todo) = "menu" THEN <<"cursor">> ELSE <<>>) \o Tail(f.todo)) EXCEPT !.drawn = TRUE]

(* render_metrics_surface, render_menu_surface, render_menu_cursor and     *)
(* render_saved_notice_surface up to the draw. No room and a busy cache    *)
(* are a success.                                                          *)
Surface(c) ==
    LET f == frame[c]
        s == Head(f.todo)
        want == Want(c, s)
    IN  /\ f.at = "surface"
        /\ IF view[c] = Tiny \/ cache[s].by # 0
           THEN frame' = [frame EXCEPT ![c] = GoOn(f, Tail(f.todo))] /\ UNCHANGED cache
           ELSE /\ frame' = [frame EXCEPT ![c].at = "draw"]
                /\ LET r == IF Stale(s, want) THEN Redrawn(s, want) ELSE cache[s]
                   IN  cache' = [cache EXCEPT ![s] = [by |-> c, revision |-> r.revision, picture |-> r.picture]]
        /\ UNCHANGED <<world, frames, faults, state, target, entries, drawing, last, told>>

Fits == Cardinality(DOMAIN entries) < MaxContexts

NewEntry(c) == [gen |-> gen[c], uploaded |-> [s \in Surfaces |-> 0], image |-> [s \in Surfaces |-> NoPicture]]

(* draw and draw_clipped up to draw_with: another thread is drawing, the   *)
(* table is full or create_resources fails.                                *)
Enter(c) ==
    LET f == frame[c]
        s == Head(f.todo)
        Refused == /\ frame' = [frame EXCEPT ![c] = Failed(f)] /\ cache' = [cache EXCEPT ![s].by = 0]
                   /\ UNCHANGED <<entries, drawing>>
    IN  /\ f.at = "draw"
        /\ \/ (drawing # 0 \/ (c \notin DOMAIN entries /\ ~Fits)) /\ Refused /\ UNCHANGED faults
           \/ drawing = 0 /\ c \notin DOMAIN entries /\ Fits /\ faults < MaxFaults /\ faults' = faults + 1 /\ Refused
           \/ /\ drawing = 0 /\ (c \in DOMAIN entries \/ Fits)
              /\ entries' = [d \in DOMAIN entries \cup {c} |-> IF d \in DOMAIN entries THEN entries[d] ELSE NewEntry(c)]
              /\ drawing' = c /\ frame' = [frame EXCEPT ![c].at = "drawing"] /\ UNCHANGED <<cache, faults>>
        /\ UNCHANGED <<world, frames, state, target, last, told>>

(* draw_with: the picture is uploaded when its revision is another. *)
Uploaded(e, s) ==
    IF e.uploaded[s] = cache[s].revision THEN e
    ELSE [e EXCEPT !.uploaded[s] = cache[s].revision, !.image[s] = cache[s].picture]

DrawWith(c) ==
    LET f == frame[c]
        s == Head(f.todo)
        e == Uploaded(entries[c], s)
    IN  /\ f.at = "drawing"
        /\ entries' = [entries EXCEPT ![c] = e]
        /\ last' = [context |-> c, surface |-> s, picture |-> e.image[s], want |-> Want(c, s), gen |-> e.gen]
        /\ drawing' = 0 /\ cache' = [cache EXCEPT ![s].by = 0]
        /\ frame' = [frame EXCEPT ![c] = Drawn(f)]
        /\ UNCHANGED <<world, frames, faults, state, target, told>>

(* The end of render: each report is made once, and lost when the producer *)
(* is busy or its socket is full.                                          *)
Report(c) ==
    LET f == frame[c]
        Told(s) == \/ status' = s /\ UNCHANGED faults
                   \/ faults < MaxFaults /\ faults' = faults + 1 /\ UNCHANGED status
    IN  /\ f.at = "end" /\ frame' = [frame EXCEPT ![c] = Idle]
        /\ ended' = IF ~f.ok THEN "failed" ELSE IF f.drawn THEN "whole" ELSE "nothing"
        /\ \/ f.ok /\ ~activeReported /\ activeReported' = TRUE /\ Told("active") /\ UNCHANGED errorReported
           \/ ~f.ok /\ ~errorReported /\ errorReported' = TRUE /\ Told("error") /\ UNCHANGED activeReported
           \/ /\ (IF f.ok THEN activeReported ELSE errorReported)
              /\ UNCHANGED <<activeReported, errorReported, status, faults>>
        /\ UNCHANGED <<world, frames, state, target, cache, entries, drawing, last>>

----------------------------------------------------------------------------
(* The life of a context. *)

Forgotten(c) == [d \in DOMAIN entries \ {c} |-> entries[d]]

Removed(c) == IF target.context = c THEN [context |-> 0, pixels |-> 0] ELSE target
NowIs(c, what) == alive' = [alive EXCEPT ![c] = what]

(* glXDestroyContext and SDL_GL_DeleteContext forget the context, then     *)
(* destroy it; eglDestroyContext destroys it, then forgets it.             *)
ForgetIt(c) == drawing = 0 /\ entries' = Forgotten(c) /\ target' = Removed(c)
Destroy(c) ==
    /\ alive[c] = "yes" /\ frame[c] = Idle /\ gen[c] < MaxGenerations
    /\ IF Egl THEN NowIs(c, "gone") /\ UNCHANGED <<entries, target>> ELSE NowIs(c, "forgotten") /\ ForgetIt(c)
    /\ UNCHANGED <<clock, writes, frames, faults, file, state, view, gen, frame, cache, drawing, last, told>>
Destroyed(c) ==
    /\ alive[c] \in {"forgotten", "gone", "again"}
    /\ IF Egl THEN ForgetIt(c) ELSE UNCHANGED <<entries, target>>
    /\ NowIs(c, IF alive[c] = "again" THEN "yes" ELSE "no")
    /\ UNCHANGED <<clock, writes, frames, faults, file, state, view, gen, frame, cache, drawing, last, told>>

(* The driver gives the address to a new context; another thread may ask   *)
(* for it before the one that destroyed the old has returned.              *)
Create(c) ==
    /\ alive[c] \in {"no", "gone"} /\ gen' = [gen EXCEPT ![c] = @ + 1]
    /\ NowIs(c, IF alive[c] = "gone" THEN "again" ELSE "yes")
    /\ UNCHANGED <<clock, writes, frames, faults, file, state, view, target, frame, cache, entries, drawing, last, told>>

Next ==
    \/ Tick \/ Write
    \/ \E c \in Contexts :
        Resize(c) \/ Begin(c) \/ Surface(c) \/ Enter(c) \/ DrawWith(c) \/ Report(c) \/ Destroy(c) \/ Destroyed(c) \/ Create(c)

Spec == Init /\ [][Next]_vars

----------------------------------------------------------------------------
(* A lock has one owner, which is inside its part of a frame, and the table*)
(* of contexts is bounded.                                                 *)
TypeOK ==
    /\ Cardinality(DOMAIN entries) <= MaxContexts
    /\ drawing # 0 => frame[drawing].at = "drawing"
    /\ \A s \in Surfaces : cache[s].by # 0 =>
        frame[cache[s].by].at \in {"draw", "drawing"} /\ Head(frame[cache[s].by].todo) = s

(* Whatever context draws, and whichever has drawn before it: the picture  *)
(* on the screen is of the settings or the menu of this frame and of the   *)
(* size of this window, and the metrics in it are less than an interval    *)
(* old, though the pictures are shared and the textures are not.           *)
PictureCurrent ==
    last.context # 0 =>
        /\ last.picture.of = last.want.of /\ last.picture.size = last.want.size
        /\ last.surface = "metrics" => last.want.time < last.picture.time + HardwareEvery

(* "Forget renderer bookkeeping immediately before a GL context is         *)
(* destroyed": a new context at an old address is never drawn into with    *)
(* the names of objects that went with the old one.                        *)
NoStaleObjects == \A c \in Contexts : drawing = c => entries[c].gen = gen[c]
============================================================================
