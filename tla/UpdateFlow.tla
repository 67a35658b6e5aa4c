----------------------------- MODULE UpdateFlow -----------------------------
(***************************************************************************)
(* The in-app updater (updates.rs), its root helper                        *)
(* (bin/redunar-update-helper.rs) and the restart that follows             *)
(* (update_restart.rs, ensure_restart_ready).                              *)
(*                                                                         *)
(* A check replaces the retained package by a newer signed one; an install *)
(* records the attempt and runs the helper, which copies the cached files  *)
(* before it verifies them and outlives an application that dies.  One     *)
(* mutex serialises the operations of a process; the cache itself is only  *)
(* protected by the order of its renames.                                  *)
(*                                                                         *)
(* A release is its version: its package, digest, manifest and signature   *)
(* are the files of that version.  A signature or checksum that does not   *)
(* fit is a download that fails.                                           *)
(***************************************************************************)
EXTENDS Integers, FiniteSets

CONSTANTS
    Threads,     \* command threads of the application
    MaxVersion,  \* newest release there will be
    None,
    MaxCrashes,  \* bound: the application dies
    MaxOps,      \* bound: checks and installs
    MaxFaults    \* bound: failing writes, refused authorisations, ...

Versions == 1..MaxVersion

VARIABLES
    running,    \* version of the application
    installed,  \* version in the system's package database
    latest,     \* newest published release
    pend,       \* pending-update.txt: [v, state], or None
    pkgs,       \* versions whose package is in the cache
    metas,      \* versions whose signed metadata is in the cache
    lock,       \* UPDATE_OPERATION
    th,         \* th[t]: the operation of thread t
    helpers,    \* helpers that run: [v, at, by]
    told,       \* the last answer to an install was "restart-needed"
    count       \* [ops, crashes, faults]

vars == <<running, installed, latest, pend, pkgs, metas, lock, th, helpers,
          told, count>>
cache == <<pend, pkgs, metas>>
world == <<running, installed, latest>>

Resting == [at |-> "idle", v |-> 0, old |-> 0, pre |-> FALSE]

Init ==
    /\ running = 1 /\ installed = 1 /\ latest = 1
    /\ pend = None /\ pkgs = {} /\ metas = {}
    /\ lock = None
    /\ th = [t \in Threads |-> Resting]
    /\ helpers = {} /\ told = FALSE
    /\ count = [ops |-> 0, crashes |-> 0, faults |-> 0]

Fault == count.faults < MaxFaults
Spent == [count EXCEPT !.faults = @ + 1]

Goto(t, at) == th' = [th EXCEPT ![t].at = at]
Done(t) == lock' = None /\ th' = [th EXCEPT ![t] = Resting]

-----------------------------------------------------------------------------
(* reconcile_pending_update.                                               *)

\* What the retained update is worth to a process of version v.
Retained == pend # None /\ pend.v > running /\ pend.v \in pkgs
RestartNeeded == Retained /\ pend.state = "handoff" /\ installed >= pend.v

\* ensure_restart_ready.
Ready == RestartNeeded

Take(t) == lock = None /\ lock' = t
Begin(t, op) ==
    /\ th[t].at = "idle" /\ count.ops < MaxOps
    /\ Take(t)
    /\ th' = [th EXCEPT ![t] = [Resting EXCEPT !.at = op]]
    /\ count' = [count EXCEPT !.ops = @ + 1]
    /\ told' = FALSE
    /\ UNCHANGED <<world, cache, helpers>>

\* A retained update that is installed by now, or damaged, is removed: the
\* package, its metadata, and last the record.
Reconcile(t) ==
    /\ th[t].at = "check"
    /\ IF pend # None /\ ~Retained
       THEN th' = [th EXCEPT ![t].at = "drop", ![t].v = pend.v]
       ELSE Goto(t, "hold")
    /\ UNCHANGED <<world, cache, lock, helpers, told, count>>
DropFiles(t) ==
    /\ th[t].at = "drop"
    /\ pkgs' = pkgs \ {th[t].v} /\ metas' = metas \ {th[t].v}
    /\ Goto(t, "dropRecord")
    /\ UNCHANGED <<world, pend, lock, helpers, told, count>>
DropRecord(t) ==
    /\ th[t].at = "dropRecord"
    /\ pend' = None
    /\ Goto(t, "hold")
    /\ UNCHANGED <<world, pkgs, metas, lock, helpers, told, count>>

\* hold_pending: an update waiting for its restart, or for its installer,
\* ends the check; the latter unless a refresh is asked for.
Hold(t, refresh) ==
    /\ th[t].at = "hold"
    /\ IF RestartNeeded \/ (Retained /\ pend.state = "handoff" /\ ~refresh)
       THEN Done(t)
       ELSE /\ th' = [th EXCEPT ![t].at = "fetch",
                                ![t].old = IF Retained THEN pend.v ELSE 0]
            /\ UNCHANGED lock
    /\ UNCHANGED <<world, cache, helpers, told, count>>

-----------------------------------------------------------------------------
(* check_source: the server's answer may be that of a mirror behind.       *)

\* retain_if_latest_not_newer and is_newer_version.  A variant that forgets the
\* retained update.
NewerThanBuild(v, t) == v > running
Newer(v, t) == v > th[t].old /\ v > running
Fetch(t, v) ==
    /\ th[t].at = "fetch" /\ v <= latest
    /\ IF Newer(v, t) THEN th' = [th EXCEPT ![t].at = "metas", ![t].v = v]
                           /\ UNCHANGED lock
       ELSE Done(t)
    /\ UNCHANGED <<world, cache, helpers, told, count>>

\* A download, a signature, a checksum or a copy fails: nothing changes but
\* the metadata that was already copied.
CheckFails(t) ==
    /\ th[t].at \in {"fetch", "metas", "package"} /\ Fault
    /\ Done(t) /\ count' = Spent
    /\ UNCHANGED <<world, cache, helpers, told>>

\* persist_verified_release, one rename after the other.
StoreMetas(t) ==
    /\ th[t].at = "metas"
    /\ metas' = metas \cup {th[t].v}
    /\ Goto(t, "package")
    /\ UNCHANGED <<world, pend, pkgs, lock, helpers, told, count>>
StorePackage(t) ==
    /\ th[t].at = "package"
    /\ pkgs' = pkgs \cup {th[t].v}
    /\ th' = [th EXCEPT ![t].at = "record", ![t].pre = th[t].v \in pkgs,
                        ![t].old = IF pend = None THEN 0 ELSE pend.v]
    /\ UNCHANGED <<world, pend, metas, lock, helpers, told, count>>
Record(t) ==
    /\ th[t].at = "record"
    /\ pend' = [v |-> th[t].v, state |-> "downloaded"]
    /\ Goto(t, "dropOld")
    /\ UNCHANGED <<world, pkgs, metas, lock, helpers, told, count>>

\* The record cannot be written: a package that was not there before goes.
RecordFails(t) ==
    /\ th[t].at = "record" /\ Fault
    /\ pkgs' = IF th[t].pre THEN pkgs ELSE pkgs \ {th[t].v}
    /\ Done(t) /\ count' = Spent
    /\ UNCHANGED <<world, pend, metas, helpers, told>>

\* The package and the metadata of the record before.
Dropped(t) == {th[t].old} \ {th[t].v}
DropOld(t) ==
    /\ th[t].at = "dropOld"
    /\ pkgs' = pkgs \ Dropped(t) /\ metas' = metas \ Dropped(t)
    /\ Done(t)
    /\ UNCHANGED <<world, pend, helpers, told, count>>

-----------------------------------------------------------------------------
(* install_verified_update.                                                *)

\* Its checks; an update that is already installed needs only the restart.
Install(t) ==
    /\ th[t].at = "install"
    /\ LET usable == pend # None /\ pend.v > running /\ pend.v \in pkgs
       IN  IF usable /\ installed < pend.v /\ pend.v \in metas
           THEN /\ th' = [th EXCEPT ![t].at = "attempt", ![t].v = pend.v]
                /\ UNCHANGED <<lock, told>>
           ELSE Done(t) /\ told' = (usable /\ installed >= pend.v)
    /\ UNCHANGED <<world, cache, helpers, count>>

\* The attempt is recorded before pkexec runs.
Attempt(t) ==
    /\ th[t].at = "attempt"
    /\ pend' = [v |-> th[t].v, state |-> "handoff"]
    /\ helpers' = helpers \cup {[by |-> t, at |-> "asked", v |-> 0]}
    /\ Goto(t, "wait")
    /\ UNCHANGED <<world, pkgs, metas, lock, told, count>>

\* pkexec ended with success: the package database decides.
Confirm(t, h) ==
    /\ th[t].at = "wait" /\ h \in helpers /\ h.by = t /\ h.at = "ok"
    /\ helpers' = helpers \ {h}
    /\ told' = (installed >= th[t].v)
    /\ Done(t)
    /\ UNCHANGED <<world, cache, count>>

\* It failed or was refused: the package is still ready.
Restore(t, h) ==
    /\ th[t].at = "wait" /\ h \in helpers /\ h.by = t /\ h.at = "failed"
    /\ helpers' = helpers \ {h}
    /\ pend' = [v |-> th[t].v, state |-> "downloaded"]
    /\ Done(t)
    /\ UNCHANGED <<world, pkgs, metas, told, count>>

-----------------------------------------------------------------------------
(* The helper.                                                             *)

Moves(h, at, v) == helpers' = (helpers \ {h}) \cup {[h EXCEPT !.at = at, !.v = v]}
HelperUnchanged == UNCHANGED <<running, latest, cache, lock, th, told>>

\* The user refuses the authorisation.
Refuse(h) ==
    /\ h.at = "asked" /\ Fault
    /\ Moves(h, "failed", 0) /\ count' = Spent
    /\ UNCHANGED installed /\ HelperUnchanged

\* It reads the record, ...
ReadRecord(h) ==
    /\ h.at = "asked"
    /\ IF pend = None THEN Moves(h, "failed", 0) ELSE Moves(h, "copy", pend.v)
    /\ UNCHANGED <<installed, count>> /\ HelperUnchanged

\* ... copies and verifies what the record names, ...
CopyFiles(h) ==
    /\ h.at = "copy"
    /\ Moves(h, IF h.v \in pkgs /\ h.v \in metas /\ h.v > installed
                THEN "manager" ELSE "failed", h.v)
    /\ UNCHANGED <<installed, count>> /\ HelperUnchanged

\* ... and runs the package manager, which does not downgrade.
RunManager(h) ==
    /\ h.at = "manager"
    /\ IF h.v > installed THEN installed' = h.v /\ Moves(h, "ok", h.v)
       ELSE UNCHANGED installed /\ Moves(h, "failed", h.v)
    /\ UNCHANGED count /\ HelperUnchanged
ManagerFails(h) ==
    /\ h.at = "manager" /\ Fault
    /\ installed' \in {installed, IF h.v > installed THEN h.v ELSE installed}
    /\ Moves(h, "failed", h.v) /\ count' = Spent
    /\ HelperUnchanged

\* Nobody waits for the helper of an application that died.
Reaped(h) ==
    /\ h.by = None /\ h.at \in {"ok", "failed"}
    /\ helpers' = helpers \ {h}
    /\ UNCHANGED <<installed, count>> /\ HelperUnchanged

-----------------------------------------------------------------------------
(* The world.                                                              *)

Publish ==
    /\ latest < MaxVersion
    /\ latest' = latest + 1
    /\ UNCHANGED <<running, installed, cache, lock, th, helpers, told, count>>

\* The system's own updater installs the newest release.
SystemUpdate ==
    /\ installed < latest /\ Fault
    /\ installed' = latest /\ count' = Spent
    /\ UNCHANGED <<running, latest, cache, lock, th, helpers, told>>

Orphaned == {[h EXCEPT !.by = None] : h \in helpers}

\* The application dies at any step; what runs next is what is installed.
Crash ==
    /\ count.crashes < MaxCrashes
    /\ count' = [count EXCEPT !.crashes = @ + 1]
    /\ running' = installed /\ lock' = None /\ told' = FALSE
    /\ th' = [t \in Threads |-> Resting] /\ helpers' = Orphaned
    /\ UNCHANGED <<installed, latest, cache>>

\* restart_redunar, once ensure_restart_ready agrees.
Restart ==
    /\ lock = None /\ Ready
    /\ running' = installed /\ told' = FALSE
    /\ UNCHANGED <<installed, latest, cache, lock, th, helpers, count>>

Next ==
    \/ \E t \in Threads :
        \/ \E op \in {"check", "install"} : Begin(t, op)
        \/ Reconcile(t) \/ DropFiles(t) \/ DropRecord(t)
        \/ \E refresh \in BOOLEAN : Hold(t, refresh)
        \/ \E v \in Versions : Fetch(t, v)
        \/ CheckFails(t) \/ StoreMetas(t) \/ StorePackage(t)
        \/ Record(t) \/ RecordFails(t) \/ DropOld(t)
        \/ Install(t) \/ Attempt(t)
        \/ \E h \in helpers : Confirm(t, h) \/ Restore(t, h)
    \/ \E h \in helpers :
        \/ Refuse(h) \/ ReadRecord(h) \/ CopyFiles(h) \/ RunManager(h)
        \/ ManagerFails(h) \/ Reaped(h)
    \/ Publish \/ SystemUpdate \/ Crash \/ Restart

Spec == Init /\ [][Next]_vars

-----------------------------------------------------------------------------
(* Properties.                                                             *)

TypeOK ==
    /\ {running, installed, latest} \subseteq Versions
    /\ running <= installed /\ installed <= latest
    /\ pkgs \subseteq Versions /\ metas \subseteq Versions
    /\ pend = None \/ pend.v \in Versions
    /\ \A h \in helpers : h.by # None => th[h.by].at = "wait"

\* A record of a newer version names a package and metadata that are in the
\* cache, wherever an operation stopped (persist_verified_package_in_directory
\* renames the record last).
PendingComplete ==
    pend # None /\ pend.v > running =>
        \/ pend.v \in pkgs /\ pend.v \in metas
        \/ \E t \in Threads : th[t].at = "dropRecord"
=============================================================================
