--------------------------- MODULE AppPreferences ---------------------------
(***************************************************************************)
(* The application's own preferences (redunar-daemon/app_preferences.rs) in*)
(* their nine versions, and the window that is restored from them and saved*)
(* to them (tauri main.rs). Older versions saved the window in physical    *)
(* pixels; the window is measured in logical ones.  A size stands for the  *)
(* width and the height; the scale of the desktop does not change.         *)
(***************************************************************************)
EXTENDS Naturals, FiniteSets

CONSTANTS
    Scale,        \* physical pixels per logical one
    Sizes,        \* logical sizes the user gives the window
    OldSizes,     \* sizes in files of older versions
    MinSize, MaxSize, DefaultSize,
    MaxOps, MaxFaults  \* bounds

VARIABLES
    stored,   \* the file, with its version; version 0 is no file
    disk,     \* the files a stop of the machine may leave
    window,   \* the window: its logical size, 0 while it is closed
    maximized,
    opened,   \* the size the window was opened with last
    ops, faults,
    allowed,  \* the sizes the user may expect the window to open with
    promised  \* for each switch, what the replies allow it to be

vars == <<stored, disk, window, maximized, opened, ops, faults, allowed, promised>>

Switches == {"tray", "updates", "log"}

Default ==
    [tray |-> FALSE, updates |-> TRUE, log |-> FALSE, size |-> DefaultSize, maximized |-> FALSE,
     physical |-> FALSE]

(* parse: version 1 has the tray switch alone; versions 2 to 5 mean        *)
(* physical pixels; 5 added updates, 6 the units, 7 the log. The switches  *)
(* that versions 3 and 8 carried besides are read and dropped.             *)
Parse(file) ==
    CASE file.version = 0 -> Default
      [] file.version = 1 -> [Default EXCEPT !.tray = file.fields.tray]
      [] OTHER -> [file.fields EXCEPT
            !.updates = IF file.version >= 5 THEN @ ELSE TRUE,
            !.physical = IF file.version >= 6 THEN @ ELSE TRUE,
            !.log = IF file.version >= 7 THEN @ ELSE FALSE]

\* Variant of Serialize: every file is taken for a new one.
LogicalOnly(fields) == [version |-> 9, fields |-> [fields EXCEPT !.physical = FALSE]]

Serialize(fields) == [version |-> 9, fields |-> fields]

(* persistable_window_state: Tauri reports physical pixels. *)
Persistable(physical) == physical \div Scale

(* restorable_window_size: an old size is converted, and replaced when it  *)
(* would be too small to use.                                              *)
Restorable(fields) ==
    LET logical == fields.size \div Scale
    IN  CASE ~fields.physical -> fields.size
          [] fields.physical /\ logical < MinSize -> DefaultSize
          [] OTHER -> logical

OldFiles ==
    {[version |-> v, fields |-> [tray |-> TRUE, updates |-> FALSE, log |-> TRUE, size |-> size,
                                  maximized |-> max, physical |-> physical]] :
        v \in 1..9, size \in OldSizes, max \in BOOLEAN, physical \in BOOLEAN}

Init ==
    /\ stored \in {[version |-> 0, fields |-> Default]} \cup OldFiles
    /\ disk = {stored}
    /\ window = 0 /\ maximized = FALSE /\ opened = 0
    /\ ops = 0 /\ faults = 0
    /\ allowed = {Restorable(Parse(stored))}
    /\ promised = [s \in Switches |-> {Parse(stored)[s]}]

----------------------------------------------------------------------------
Current == Parse(stored)

Allowed(s, new, success) ==
    IF new[s] = Current[s] THEN promised[s]
    ELSE IF success THEN {new[s]} ELSE promised[s] \cup {new[s]}

(* save_unlocked, and what it means for the next start. *)
Replaced(new, sizes) ==
    /\ stored' = Serialize(new) /\ disk' = {Serialize(new)}
    /\ promised' = [s \in Switches |-> Allowed(s, new, TRUE)]
    /\ allowed' = sizes
    /\ UNCHANGED faults

NotReplaced(new, sizes) ==
    /\ faults < MaxFaults /\ faults' = faults + 1
    /\ \/ UNCHANGED <<stored, disk>>
       \/ stored' = Serialize(new) /\ disk' = disk \cup {Serialize(new)}
    /\ promised' = [s \in Switches |-> Allowed(s, new, FALSE)]
    /\ allowed' = allowed \cup sizes

Set(new) ==
    /\ ops < MaxOps /\ ops' = ops + 1
    /\ Replaced(new, allowed) \/ NotReplaced(new, allowed)
    /\ UNCHANGED <<window, maximized, opened>>

SetCloseToTray == Set([Current EXCEPT !.tray = ~@])
SetAutomaticUpdates == Set([Current EXCEPT !.updates = ~@])
SetDiagnosticLog == Set([Current EXCEPT !.log = ~@])

(* The setup of main: a maximized window takes no size. *)
Open ==
    /\ window = 0
    /\ maximized' = Current.maximized
    /\ window' = IF Current.maximized THEN DefaultSize ELSE Restorable(Current)
    /\ opened' = IF Current.maximized THEN 0 ELSE window'
    /\ UNCHANGED <<stored, disk, ops, faults, allowed, promised>>

(* The user resizes or maximizes it. *)
Resize ==
    /\ window # 0 /\ ops < MaxOps /\ ops' = ops + 1
    /\ window' \in Sizes /\ maximized' \in BOOLEAN
    /\ UNCHANGED <<stored, disk, opened, faults, allowed, promised>>

(* set_window_state: a size out of bounds is refused and the last one      *)
(* stays.                                                                  *)
WindowState(size) ==
    LET new == [Current EXCEPT !.size = size, !.maximized = maximized, !.physical = FALSE]
    IN  IF size \in MinSize..MaxSize THEN Replaced(new, {size}) \/ NotReplaced(new, {size})
        ELSE UNCHANGED <<stored, disk, faults, allowed, promised>>

(* persist_window_state *)
Close ==
    /\ window # 0 /\ window' = 0
    /\ WindowState(Persistable(window * Scale))
    /\ UNCHANGED <<maximized, opened, ops>>

Crash ==
    /\ disk # {stored}
    /\ stored' \in disk /\ disk' = {stored'}
    /\ window' = 0
    /\ UNCHANGED <<maximized, opened, ops, faults, allowed, promised>>

Next == SetCloseToTray \/ SetAutomaticUpdates \/ SetDiagnosticLog \/ Open \/ Resize \/ Close \/ Crash

Spec == Init /\ [][Next]_vars

----------------------------------------------------------------------------
TypeOK ==
    /\ stored \in disk /\ \A s \in disk : s.version \in 0..9
    /\ \A s \in disk : Parse(s).size \in MinSize..MaxSize
    /\ window \in Nat /\ maximized \in BOOLEAN

(* A switch is what its last setter said and what an older file meant,     *)
(* whatever else was saved since: versions have their switches at other    *)
(* places and some that no longer exist.                                   *)
SwitchesKept == \A f \in disk, s \in Switches : Parse(f)[s] \in promised[s]
=============================================================================
