------------------------- MODULE MCDesktopLifecycle -------------------------
(***************************************************************************)
(* DesktopLifecycle for TLC, with the other parts of the desktop           *)
(* application: the tray item (TrayWatcher), updates (UpdateFlow), the     *)
(* player (Playback), exports of clips (ClipExport), the microphone test   *)
(* (MicrophoneTest) and the bridge through which Steam starts games        *)
(* (SteamBridge: one game and crashing applications in the part "steam",   *)
(* two games in "games"). A behaviour runs one part; the others keep their *)
(* initial state.                                                          *)
(***************************************************************************)
EXTENDS DesktopLifecycle, Sequences

CONSTANTS Parts, None, t1, t2, c1, c2, a1, a2, w1, w2, g1, g2

VARIABLES part, twSt, twBus, twCalls, twInbox, twSync, twMain, twHidden, twCount, upRunning,
          upInstalled, upLatest, upPend, upPkgs, upMetas, upLock, upTh, upHelpers, upTold,
          upCount, pbRun, pbClosed, pbGen, pbActive, pbPrepared, pbReq, pbServer,
          pbSelected, pbUrl, pbConn, pbCopies, pbFaults, exActive, exRestart, exClips,
          exJob, exTemp, exSaved, exUi, exIpc, exApp, mtGen, mtPageId, mtShown, mtView,
          mtCo, mtStops, mtFocused, mtEpoch, mtUi, mtSlot, mtTestId, mtSession, mtEvents,
          mtFaults, sbApp, sbLease, sbFile, sbListener, sbSess, sbAct, sbPhase, sbEngine,
          sbPc, sbManaged, sbConn, sbGrant, sbGaveUp, sbCount

twVars ==
    <<twSt, twBus, twCalls, twInbox, twSync, twMain, twHidden, twCount>>
upVars ==
    <<upRunning, upInstalled, upLatest, upPend, upPkgs, upMetas, upLock, upTh, upHelpers,
      upTold, upCount>>
pbVars ==
    <<pbRun, pbClosed, pbGen, pbActive, pbPrepared, pbReq, pbServer, pbSelected, pbUrl,
      pbConn, pbCopies, pbFaults>>
exVars ==
    <<exActive, exRestart, exClips, exJob, exTemp, exSaved, exUi, exIpc, exApp>>
mtVars ==
    <<mtGen, mtPageId, mtShown, mtView, mtCo, mtStops, mtFocused, mtEpoch, mtUi, mtSlot,
      mtTestId, mtSession, mtEvents, mtFaults>>
sbVars ==
    <<sbApp, sbLease, sbFile, sbListener, sbSess, sbAct, sbPhase, sbEngine, sbPc, sbManaged,
      sbConn, sbGrant, sbGaveUp, sbCount>>

Tray ==
    INSTANCE TrayWatcher WITH
        MaxOwners <- 2, MaxChanges <- 1, MaxChecks <- 1, MaxFaults <- 1,
        Faults <- {"query", "sync"},
        st <- twSt, bus <- twBus, calls <- twCalls, inbox <- twInbox, sync <- twSync,
        main <- twMain, hidden <- twHidden, count <- twCount

Updates ==
    INSTANCE UpdateFlow WITH
        Threads <- {t1, t2}, MaxVersion <- 3, MaxCrashes <- 1, MaxOps <- 4, MaxFaults <- 1,
        running <- upRunning, installed <- upInstalled, latest <- upLatest, pend <- upPend,
        pkgs <- upPkgs, metas <- upMetas, lock <- upLock, th <- upTh, helpers <- upHelpers,
        told <- upTold, count <- upCount

Player ==
    INSTANCE Playback WITH
        Clips <- {c1, c2}, MaxRequests <- 3, MaxConnections <- 1, MaxChunks <- 1,
        MaxRuns <- 2, MaxFaults <- 1,
        run <- pbRun, closed <- pbClosed, gen <- pbGen, active <- pbActive,
        prepared <- pbPrepared, req <- pbReq, server <- pbServer, selected <- pbSelected,
        url <- pbUrl, conn <- pbConn, copies <- pbCopies, faults <- pbFaults

Export ==
    INSTANCE ClipExport WITH
        Clips <- {c1}, MaxJobs <- 2,
        active <- exActive, restart <- exRestart, clips <- exClips, job <- exJob,
        temp <- exTemp, saved <- exSaved, ui <- exUi, ipc <- exIpc, app <- exApp

Microphone ==
    INSTANCE MicrophoneTest WITH
        MaxClicks <- 2, MaxEvents <- 2, MaxFaults <- 1,
        gen <- mtGen, pageId <- mtPageId, shown <- mtShown, view <- mtView, co <- mtCo,
        stops <- mtStops, focused <- mtFocused, epoch <- mtEpoch, ui <- mtUi,
        slot <- mtSlot, testId <- mtTestId, session <- mtSession, events <- mtEvents,
        faults <- mtFaults

Steam ==
    INSTANCE SteamBridge WITH
        Apps <- {a1, a2}, Wrappers <- {w1}, Games <- {g1}, GameOf <- [w \in {w1} |-> g1],
        MaxSessions <- 2, MaxStarts <- 2, MaxCrashes <- 1,
        app <- sbApp, lease <- sbLease, file <- sbFile, listener <- sbListener,
        sess <- sbSess, act <- sbAct, phase <- sbPhase, engine <- sbEngine, pc <- sbPc,
        managed <- sbManaged, conn <- sbConn, grant <- sbGrant, gaveUp <- sbGaveUp,
        count <- sbCount

Games ==
    INSTANCE SteamBridge WITH
        Apps <- {a1}, Wrappers <- {w1, w2}, Games <- {g1, g2},
        GameOf <- [w \in {w1, w2} |-> IF w = w1 THEN g1 ELSE g2], MaxSessions <- 1,
        MaxStarts <- 1, MaxCrashes <- 0,
        app <- sbApp, lease <- sbLease, file <- sbFile, listener <- sbListener,
        sess <- sbSess, act <- sbAct, phase <- sbPhase, engine <- sbEngine, pc <- sbPc,
        managed <- sbManaged, conn <- sbConn, grant <- sbGrant, gaveUp <- sbGaveUp,
        count <- sbCount

MCInit ==
    /\ part \in Parts
    /\ Init
    /\ part # "lifecycle" => own.auto /\ pref = (TRUE \in Prefs)
    /\ \/ part = "tray" /\ Tray!Init
       \/ part # "tray" /\ Tray!Init /\ twBus.host
    /\ Updates!Init
    /\ Player!Init
    /\ Export!Init
    /\ Microphone!Init
    /\ \/ part = "steam" /\ Steam!Init
       \/ part = "games" /\ Games!Init
       \/ part \notin {"steam", "games"} /\ Steam!Init

MCNext ==
    \/ /\ part = "lifecycle" /\ Next
       /\ UNCHANGED <<part, twVars, upVars, pbVars, exVars, mtVars, sbVars>>
    \/ /\ part = "tray" /\ Tray!Next
       /\ UNCHANGED <<part, vars, upVars, pbVars, exVars, mtVars, sbVars>>
    \/ /\ part = "updates" /\ Updates!Next
       /\ UNCHANGED <<part, vars, twVars, pbVars, exVars, mtVars, sbVars>>
    \/ /\ part = "playback" /\ Player!Next
       /\ UNCHANGED <<part, vars, twVars, upVars, exVars, mtVars, sbVars>>
    \/ /\ part = "export" /\ Export!Next
       /\ UNCHANGED <<part, vars, twVars, upVars, pbVars, mtVars, sbVars>>
    \/ /\ part = "microphone" /\ Microphone!Next
       /\ UNCHANGED <<part, vars, twVars, upVars, pbVars, exVars, sbVars>>
    \/ /\ part = "steam" /\ Steam!Next
       /\ UNCHANGED <<part, vars, twVars, upVars, pbVars, exVars, mtVars>>
    \/ /\ part = "games" /\ Games!Next
       /\ UNCHANGED <<part, vars, twVars, upVars, pbVars, exVars, mtVars>>

MCVars == <<part, vars, twVars, upVars, pbVars, exVars, mtVars, sbVars>>
MCSpec == MCInit /\ [][MCNext]_MCVars

(* Fairness of DesktopLifecycle, for the part that runs. *)
MCFairSpec ==
    MCSpec /\ WF_vars(part = "lifecycle" /\ Task) /\ WF_vars(part = "lifecycle" /\ Notify)

-------------------------------------------------------------------------------
(* What the application keeps for the user is whole and has an owner: a hidden
   window's tray item is registered, what Steam starts finds the application that
   owns the bridge, one wrapper per start, a pending update has its package, the
   player owns its copies, a saved export fits, a restart comes only while idle, and
   a microphone test ends with the focus (watcher.rs, steam_session_bridge.rs,
   updates.rs, playback.rs, replay_export.rs). *)
WorkOwned ==
    /\ part = "tray" => Tray!TypeOK /\ Tray!HiddenRegistered
    /\ part = "steam" => Steam!TypeOK /\ Steam!Reachable
    /\ part = "games" => Games!OneClaimant
    /\ part = "updates" => Updates!TypeOK /\ Updates!PendingComplete
    /\ part = "playback" => Player!TypeOK /\ Player!CopiesOwned
    /\ part = "export" =>
         /\ Export!TypeOK /\ Export!RestartIdle /\ Export!SavedFits
         /\ Export!StatusHonest /\ Export!CancelHeard
    /\ part = "microphone" =>
         /\ Microphone!TypeOK /\ Microphone!QuietUnfocused
         /\ Microphone!TestOwned /\ Microphone!ShownIsHeld

(* Late results do not win: no pending update is replaced by an older one, the
   player never goes to a clip after a newer request, the progress of an export
   does not fall, and a cancellation reaches the export it was meant for. *)
LateResultsLose ==
    [][/\ part = "updates" /\ upPend # None /\ upPend' # None => upPend'.v >= upPend.v
       /\ part = "playback" /\ pbUrl' # pbUrl /\ pbUrl' # 0 =>
            \A r \in Player!Requests : r > pbUrl' => pbReq'[r].at = "idle"
       /\ part = "export" =>
            \A j \in Export!Jobs :
                /\ exJob'[j].at # "ended" => exJob'[j].progress >= exJob[j].progress
                /\ exApp' = "up" /\ exJob'[j].cancelled /\ ~exJob[j].cancelled =>
                     Head(exIpc).gen = j]_MCVars
===============================================================================
