------------------------- MODULE ReplayPreferences -------------------------
(***************************************************************************)
(* The replay preferences: the file of redunar-daemon/replay_preferences.rs*)
(* in its eight versions, the setters of RedunarService and of the session *)
(* coordinator, the copies they publish, and the settings page's save of a *)
(* profile and an output format together (lib.rs, tauri profiles.rs).      *)
(*                                                                         *)
(* Three callers: the window's own thread, which runs one command at a     *)
(* time; a worker that sets the microphone; and the thread that serves the *)
(* menu in the game.  A setter loads, changes and replaces the file under  *)
(* one lock, and publishes what it saved after it has let the lock go.     *)
(***************************************************************************)
EXTENDS Naturals, FiniteSets

CONSTANTS
    Parents,      \* lengths of the chosen directory's path; 0 is the default directory
    MaxPath,      \* MAX_PATH_BYTES
    MaxFile,      \* MAX_PREFERENCES_BYTES
    MaxShortcuts, \* MAX_REPLAY_SHORTCUTS
    FixedBytes,   \* what the other lines of the file take, at least
    MaxOps,       \* bound: setters that save
    MaxFaults,    \* bound: writes that fail
    MenuPresses,  \* bound: presses of the format button of the menu in the game
    MaxSessions   \* bound: games launched

VARIABLES
    stored,   \* the file, with its version; version 0 is no file
    disk,     \* the files a stop of the machine may leave
    live,     \* the coordinator's copy
    menuInitial, \* the duration the menu in the game opens with
    runtime,  \* the format the replay runtime saves in
    profile,  \* the recording profile of the game catalog
    page,     \* the settings page's save, as it goes
    pending,  \* for each caller, what it saved and has yet to publish
    phase,    \* the game session
    ops, faults, presses, sessions,
    promised  \* for each field, what the replies allow it to be

vars == <<stored, disk, live, menuInitial, runtime, profile, page, pending, phase,
          ops, faults, presses, sessions, promised>>

Callers == {"window", "worker", "menu"}
Keys == {"shift_tab", "alt_z", "f9"}
NoKey == "none"

Values ==
    [parent |-> Parents, format |-> {"mkv", "mp4"}, overlay |-> Keys \cup {NoKey},
     saves |-> SUBSET Keys, close |-> BOOLEAN, initial |-> {"s30", "s60"},
     microphone |-> {"off", "default"}, gain |-> {0, 12}]
Fields == DOMAIN Values

Default ==
    [parent |-> 0, format |-> "mkv", overlay |-> "alt_z", saves |-> {}, close |-> TRUE,
     initial |-> "s30", microphone |-> "default", gain |-> 0]

(* The version that first stored each field, and what a file without it    *)
(* means: the behaviour of the time, not a new install's default.          *)
Since ==
    [parent |-> 1, saves |-> 1, format |-> 3, overlay |-> 4, close |-> 5, initial |-> 6,
     microphone |-> 7, gain |-> 8]

Legacy == [Default EXCEPT !.overlay = "shift_tab", !.microphone = "off"]

(* validate_hotkeys: no two actions share a chord. *)
HotkeysValid(overlay, saves) == overlay \notin saves /\ Cardinality(saves) <= MaxShortcuts

(* load_unlocked and parse. *)
Parse(file) ==
    IF file.version = 0 THEN Default
    ELSE [f \in Fields |-> IF file.version >= Since[f] THEN file.fields[f] ELSE Legacy[f]]

Bytes(fields) == FixedBytes + IF fields.parent = 0 THEN 7 ELSE 2 * fields.parent

Loads(file) ==
    \/ file.version = 0
    \/ /\ Bytes(Parse(file)) <= MaxFile
       /\ HotkeysValid(Parse(file).overlay, Parse(file).saves)

(* serialize: always the current version. *)
Serialize(fields) == [version |-> 8, fields |-> fields]

(* A file of each version, or none. *)
OldFiles ==
    {[version |-> v, fields |-> [Default EXCEPT !.format = "mp4", !.initial = "s60", !.close = FALSE,
                                    !.gain = 12, !.overlay = "f9", !.saves = {"alt_z"}]] : v \in 1..8}

Init ==
    /\ stored \in {[version |-> 0, fields |-> Default]}
                  \cup OldFiles
    /\ disk = {stored}
    /\ live = Parse(stored) /\ menuInitial = live.initial /\ runtime = live.format
    /\ profile = "old"
    /\ page = [at |-> "idle"]
    /\ pending = [c \in Callers |-> {}]
    /\ phase = "idle"
    /\ ops = 0 /\ faults = 0 /\ presses = 0 /\ sessions = 0
    /\ promised = [f \in Fields |-> {Parse(stored)[f]}]

----------------------------------------------------------------------------
(* What a reply allows of one field. *)
Allowed(f, new, success) ==
    IF new[f] = Parse(stored)[f] THEN promised[f]
    ELSE IF success THEN {new[f]} ELSE promised[f] \cup {new[f]}

(* save_unlocked and atomic_replace, with every way they end.              *)
Replaced(new) ==
    /\ stored' = Serialize(new) /\ disk' = {Serialize(new)}
    /\ promised' = [f \in Fields |-> Allowed(f, new, TRUE)]
    /\ UNCHANGED faults

NotReplaced(new) ==
    /\ faults < MaxFaults /\ faults' = faults + 1
    /\ \/ UNCHANGED <<stored, disk>>
       \/ stored' = Serialize(new) /\ disk' = disk \cup {Serialize(new)}
    /\ promised' = [f \in Fields |-> Allowed(f, new, FALSE)]

Ready(caller) == pending[caller] = {} /\ ops < MaxOps /\ Loads(stored)

(* A setter of the window: saved and about to publish, or refused.         *)
Set(new) ==
    /\ Ready("window") /\ page.at = "idle"
    /\ ops' = ops + 1
    /\ \/ Replaced(new) /\ pending' = [pending EXCEPT !["window"] = {new}]
       \/ NotReplaced(new) /\ UNCHANGED pending
    /\ UNCHANGED <<live, menuInitial, runtime, profile, page, phase, presses, sessions>>

Current == Parse(stored)

(* set_save_parent: nothing is published. *)
SetSaveParent ==
    /\ Ready("window") /\ page.at = "idle"
    /\ \E parent \in Parents :
        /\ parent <= MaxPath
        /\ LET new == [Current EXCEPT !.parent = parent]
           IN  Replaced(new) \/ NotReplaced(new)
    /\ ops' = ops + 1
    /\ UNCHANGED <<live, menuInitial, runtime, profile, page, pending, phase, presses, sessions>>

(* set_save_shortcuts *)
SetSaveShortcuts ==
    \E saves \in SUBSET Keys :
        HotkeysValid(Current.overlay, saves) /\ Set([Current EXCEPT !.saves = saves])

(* set_hotkeys *)
SetHotkeys ==
    \E saves \in SUBSET Keys, overlay \in Keys \cup {NoKey} :
        HotkeysValid(overlay, saves) /\ Set([Current EXCEPT !.overlay = overlay, !.saves = saves])

Distinct(overlay) == HotkeysValid(overlay, Current.saves)

(* set_overlay_behavior *)
SetOverlayBehavior ==
    \E overlay \in Keys \cup {NoKey}, close \in BOOLEAN :
        Distinct(overlay) /\ Set([Current EXCEPT !.overlay = overlay, !.close = close])

(* set_outside_click: its own field and no other. *)
SetOutsideClick == \E close \in BOOLEAN : Set([Current EXCEPT !.close = close])

(* set_initial_save_duration *)
SetInitialDuration == \E initial \in Values.initial : Set([Current EXCEPT !.initial = initial])

(* update_replay_preferences: the microphone fields belong to their own    *)
(* setters, and an older copy must not roll them back.                     *)
KeepMicrophone(new) == [new EXCEPT !.microphone = live.microphone, !.gain = live.gain]

Publish ==
    /\ page.at = "idle"
    /\ \E new \in pending["window"] :
        live' = KeepMicrophone(new) /\ menuInitial' = new.initial
    /\ pending' = [pending EXCEPT !["window"] = {}]
    /\ UNCHANGED <<stored, disk, runtime, profile, page, phase, ops, faults, presses, sessions, promised>>

----------------------------------------------------------------------------
(* save_global_workspace: the profile and the format, after both have been *)
(* compared with what the page loaded and the session does not lock them.  *)
PageCheck ==
    /\ Ready("window") /\ page.at = "idle"
    /\ \E format \in Values.format, requested \in {"old", "new"} :
        /\ phase = "idle" \/ requested = profile
        /\ page' = [at |-> "profile", was |-> profile, format |-> format, asked |-> requested,
                    from |-> Current.format]
    /\ ops' = ops + 1
    /\ UNCHANGED <<stored, disk, live, menuInitial, runtime, profile, pending, phase, faults,
                   presses, sessions, promised>>

(* update_global_game_profile saves the profile, or the page is refused.   *)
PageProfile ==
    /\ page.at = "profile"
    /\ \/ /\ profile' = page.asked
          /\ page' = IF page.format = page.from THEN [at |-> "idle"] ELSE [page EXCEPT !.at = "format"]
          /\ UNCHANGED faults
       \/ /\ faults < MaxFaults /\ faults' = faults + 1
          /\ page' = [at |-> "idle"]
          /\ UNCHANGED profile
    /\ UNCHANGED <<stored, disk, live, menuInitial, runtime, pending, phase, ops, presses, sessions, promised>>

(* When the format is refused the profile is put back. *)
AfterRefusal == [page EXCEPT !.at = "rollback"]

PageFormat ==
    /\ page.at = "format" /\ pending["window"] = {}
    /\ LET new == [Current EXCEPT !.format = page.format] IN
       \/ /\ Replaced(new) /\ page' = [page EXCEPT !.at = "runtime"]
          /\ pending' = [pending EXCEPT !["window"] = {new}]
       \/ NotReplaced(new) /\ page' = AfterRefusal /\ UNCHANGED pending
    /\ UNCHANGED <<live, menuInitial, runtime, profile, phase, ops, presses, sessions>>

(* set_replay_output_format goes on to the runtime, and then publishes.    *)
PageRuntime ==
    /\ page.at = "runtime"
    /\ runtime' = page.format
    /\ page' = [at |-> "idle"]
    /\ UNCHANGED <<stored, disk, live, menuInitial, profile, pending, phase, ops, faults, presses,
                   sessions, promised>>

PageRollback ==
    /\ page.at = "rollback"
    /\ \/ profile' = page.was /\ page' = [at |-> "idle"] /\ UNCHANGED faults
       \/ /\ faults < MaxFaults /\ faults' = faults + 1
          /\ page' = [at |-> "idle"] /\ UNCHANGED profile
    /\ UNCHANGED <<stored, disk, live, menuInitial, runtime, pending, phase, ops, presses, sessions, promised>>

----------------------------------------------------------------------------
(* The session's lock: held by a microphone setter from its check to the   *)
(* copy.                                                                   *)
StateLocked == pending["worker"] # {}

(* set_microphone_mode and set_microphone_gain: refused while a game runs. *)
SetMicrophone(new) ==
    /\ Ready("worker") /\ phase = "idle"
    /\ ops' = ops + 1
    /\ \/ Replaced(new) /\ pending' = [pending EXCEPT !["worker"] = {new}]
       \/ NotReplaced(new) /\ UNCHANGED pending
    /\ UNCHANGED <<live, menuInitial, runtime, profile, page, phase, presses, sessions>>

SetMicrophoneMode == \E mode \in Values.microphone : SetMicrophone([Current EXCEPT !.microphone = mode])
SetMicrophoneGain == \E gain \in Values.gain : SetMicrophone([Current EXCEPT !.gain = gain])

PublishMicrophone ==
    /\ live' \in pending["worker"]
    /\ pending' = [pending EXCEPT !["worker"] = {}]
    /\ UNCHANGED <<stored, disk, menuInitial, runtime, profile, page, phase, ops, faults, presses, sessions, promised>>

(* replay_menu_button: the format button of the menu in a running game.    *)
PressFormat ==
    /\ Ready("menu") /\ phase = "running" /\ presses < MenuPresses
    /\ presses' = presses + 1
    /\ LET new == [Current EXCEPT !.format = IF runtime = "mkv" THEN "mp4" ELSE "mkv"] IN
       \/ Replaced(new) /\ pending' = [pending EXCEPT !["menu"] = {new}]
       \/ NotReplaced(new) /\ UNCHANGED pending
    /\ UNCHANGED <<live, menuInitial, runtime, profile, page, phase, ops, sessions>>

(* The runtime is told, and the whole copy replaces the coordinator's. *)
PublishFormat ==
    /\ live' \in pending["menu"]
    /\ runtime' = live'.format
    /\ pending' = [pending EXCEPT !["menu"] = {}]
    /\ UNCHANGED <<stored, disk, menuInitial, profile, page, phase, ops, faults, presses, sessions, promised>>

(* The session starts and ends on a thread of its own, under its lock. *)
Launch ==
    /\ phase = "idle" /\ ~StateLocked /\ sessions < MaxSessions
    /\ phase' = "running" /\ sessions' = sessions + 1
    /\ UNCHANGED <<stored, disk, live, menuInitial, runtime, profile, page, pending, ops, faults, presses, promised>>

End ==
    /\ phase = "running" /\ phase' = "idle"
    /\ UNCHANGED <<stored, disk, live, menuInitial, runtime, profile, page, pending, ops, faults, presses,
                   sessions, promised>>

(* The machine stops: the program starts again with what is on the disk.   *)
Crash ==
    /\ disk # {stored}
    /\ \E left \in disk :
        /\ stored' = left /\ disk' = {left}
        /\ live' = IF Loads(left) THEN Parse(left) ELSE Default
    /\ menuInitial' = live'.initial /\ runtime' = live'.format
    /\ pending' = [c \in Callers |-> {}]
    /\ page' = [at |-> "idle"] /\ phase' = "idle"
    /\ UNCHANGED <<profile, ops, faults, presses, sessions, promised>>

Next ==
    \/ SetSaveParent \/ SetSaveShortcuts \/ SetHotkeys \/ SetOverlayBehavior \/ SetOutsideClick
    \/ SetInitialDuration \/ Publish
    \/ PageCheck \/ PageProfile \/ PageFormat \/ PageRuntime \/ PageRollback
    \/ SetMicrophoneMode \/ SetMicrophoneGain \/ PublishMicrophone
    \/ PressFormat \/ PublishFormat
    \/ Launch \/ End \/ Crash

Spec == Init /\ [][Next]_vars

----------------------------------------------------------------------------
FieldsOK(fields) == \A f \in Fields : fields[f] \in Values[f]

TypeOK ==
    /\ stored \in disk /\ \A s \in disk : s.version \in 0..8 /\ FieldsOK(s.fields)
    /\ FieldsOK(live) /\ menuInitial \in Values.initial /\ runtime \in Values.format
    /\ \A c \in Callers : Cardinality(pending[c]) <= 1 /\ \A new \in pending[c] : FieldsOK(new)

(* What every caller was told is what the next start finds, field by field:*)
(* a setter never takes back another's field, the first save of an older   *)
(* file changes nothing of what that file meant, and an error leaves the   *)
(* old value or the new one.                                               *)
Acknowledged ==
    \A s \in disk, f \in Fields : Parse(s)[f] \in promised[f]

(* "No two actions may share a chord", through any order of the three      *)
(* setters that write shortcuts, and from any older file.                  *)
ChordsApart == \A s \in disk : HotkeysValid(Parse(s).overlay, Parse(s).saves)

(* "Only the session-serialized microphone setters own these fields;       *)
(* unrelated publication must not roll them back": when no microphone      *)
(* setter is under way the next session records what the file says.        *)
MicrophoneOwned ==
    ~StateLocked => /\ live.microphone = Current.microphone
                    /\ live.gain = Current.gain
============================================================================
