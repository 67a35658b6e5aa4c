----------------------------- MODULE MCClipStore -----------------------------
(***************************************************************************)
(* ClipStore for TLC (the part "clips" with faults and restarts, "exports" *)
(* with trims, exports and thumbnails), with the other files the           *)
(* application keeps: the games (GameCatalog: its operations in "catalog", *)
(* the layouts of its file in "format"), the settings (ReplayPreferences:  *)
(* writes that fail in "replay", the menu in the game in "menu";           *)
(* AppPreferences) and what the search for games finds (GameDiscovery). A  *)
(* behaviour runs one part; the others keep their initial state.           *)
(***************************************************************************)
EXTENDS ClipStore

CONSTANTS Parts, g1, g2, a, r, e, p, q, s, steam, none, t1, t2

VARIABLES part, gcFile, gcDisk, gcStaged, gcOps, gcFaults, gcPromised, gcGiven, cfText,
          cfMeant, cfEdits, rpStored, rpDisk, rpLive, rpMenuInitial, rpRuntime, rpProfile,
          rpPage, rpPending, rpPhase, rpOps, rpFaults, rpPresses, rpSessions, rpPromised,
          apStored, apDisk, apWindow, apMaximized, apOpened, apOps, apFaults, apAllowed,
          apPromised, gdPresent, gdFolders, gdManifests, gdClients, gdEntries, gdShown,
          gdImported, gdChanges, gdImports

(* A native Steam client, the same through a second path, and one in a Flatpak. *)
ThreeRoots ==
    <<[dir |-> 1, flatpak |-> FALSE], [dir |-> 1, flatpak |-> FALSE], [dir |-> 2, flatpak |-> TRUE]>>

gcVars ==
    <<gcFile, gcDisk, gcStaged, gcOps, gcFaults, gcPromised, gcGiven>>
cfVars ==
    <<cfText, cfMeant, cfEdits>>
rpVars ==
    <<rpStored, rpDisk, rpLive, rpMenuInitial, rpRuntime, rpProfile, rpPage, rpPending,
      rpPhase, rpOps, rpFaults, rpPresses, rpSessions, rpPromised>>
apVars ==
    <<apStored, apDisk, apWindow, apMaximized, apOpened, apOps, apFaults, apAllowed,
      apPromised>>
gdVars ==
    <<gdPresent, gdFolders, gdManifests, gdClients, gdEntries, gdShown, gdImported,
      gdChanges, gdImports>>

Exports ==
    INSTANCE ClipStore WITH
        Generated <- {g1, g2}, Named <- {a}, Recorder <- {}, Trimmer <- {r},
        Exporter <- {e}, Limit <- 1, MaxClip <- 1, MaxInode <- 3, MaxFaults <- 0,
        MaxRequests <- 2, MaxWrites <- 5, Thumbnails <- TRUE, Reuse <- "store"

Catalog ==
    INSTANCE GameCatalog WITH
        Executables <- {p, q, r}, Launcher <- steam, SteamIds <- {s}, NoSteam <- none,
        Missing <- {r}, OldCatalogs <- TRUE, Threads <- {t1, t2}, MaxGames <- 4, MaxId <- 6,
        MaxBatch <- 2, MaxOps <- 3, MaxFaults <- 1, MaxChanged <- 2, MaxEdits <- 2,
        file <- gcFile, disk <- gcDisk, staged <- gcStaged, ops <- gcOps,
        faults <- gcFaults, promised <- gcPromised, given <- gcGiven,
        text <- cfText, meant <- cfMeant, edits <- cfEdits

Replay ==
    INSTANCE ReplayPreferences WITH
        Parents <- {0, 40}, MaxPath <- 4096, MaxFile <- 8192, MaxShortcuts <- 1,
        FixedBytes <- 184, MaxOps <- 2, MaxFaults <- 1, MenuPresses <- 0, MaxSessions <- 1,
        stored <- rpStored, disk <- rpDisk, live <- rpLive, menuInitial <- rpMenuInitial,
        runtime <- rpRuntime, profile <- rpProfile, page <- rpPage, pending <- rpPending,
        phase <- rpPhase, ops <- rpOps, faults <- rpFaults, presses <- rpPresses,
        sessions <- rpSessions, promised <- rpPromised

Menu ==
    INSTANCE ReplayPreferences WITH
        Parents <- {0, 40}, MaxPath <- 4096, MaxFile <- 8192, MaxShortcuts <- 1,
        FixedBytes <- 184, MaxOps <- 2, MaxFaults <- 0, MenuPresses <- 1, MaxSessions <- 1,
        stored <- rpStored, disk <- rpDisk, live <- rpLive, menuInitial <- rpMenuInitial,
        runtime <- rpRuntime, profile <- rpProfile, page <- rpPage, pending <- rpPending,
        phase <- rpPhase, ops <- rpOps, faults <- rpFaults, presses <- rpPresses,
        sessions <- rpSessions, promised <- rpPromised

Window ==
    INSTANCE AppPreferences WITH
        Scale <- 2, Sizes <- {700, 800, 1280}, OldSizes <- {800, 1280, 2560},
        MinSize <- 800, MaxSize <- 7680, DefaultSize <- 1280, MaxOps <- 3, MaxFaults <- 1,
        stored <- apStored, disk <- apDisk, window <- apWindow, maximized <- apMaximized,
        opened <- apOpened, ops <- apOps, faults <- apFaults, allowed <- apAllowed,
        promised <- apPromised

Search ==
    INSTANCE GameDiscovery WITH
        Libraries <- {1, 2, 3}, Apps <- {1, 2, 3}, SteamRoots <- ThreeRoots,
        Files <- {1, 2}, Programs <- {p, steam}, Launchers <- {steam}, MaxFolders <- 3,
        MaxGames <- 2, MaxChanges <- 3, MaxImports <- 1,
        present <- gdPresent, folders <- gdFolders, manifests <- gdManifests,
        clients <- gdClients, entries <- gdEntries, shown <- gdShown,
        imported <- gdImported, changes <- gdChanges, imports <- gdImports

MCInit ==
    /\ part \in Parts
    /\ Init
    /\ \/ part = "catalog" /\ Catalog!Init
       \/ part # "catalog" /\ Catalog!Init /\ gcFile = Catalog!EmptyCatalog
    /\ \/ part = "format" /\ Catalog!FormatInit
       \/ part # "format" /\ Catalog!FormatInit /\ cfText.version = 12
          /\ cfMeant.game = [f \in Catalog!GameFields |-> 0]
          /\ \A i \in DOMAIN cfText.global : cfText.global[i].value = 0
    /\ \/ part = "replay" /\ Replay!Init
       \/ part = "menu" /\ Menu!Init
       \/ part \notin {"replay", "menu"} /\ Replay!Init /\ rpStored.version = 0
    /\ \/ part = "window" /\ Window!Init
       \/ part # "window" /\ Window!Init /\ apStored.version = 0
    /\ Search!Init

MCNext ==
    \/ part = "clips" /\ Next /\ UNCHANGED <<part, gcVars, cfVars, rpVars, apVars, gdVars>>
    \/ /\ part = "exports" /\ Exports!Next
       /\ UNCHANGED <<part, gcVars, cfVars, rpVars, apVars, gdVars>>
    \/ /\ part = "catalog" /\ Catalog!Next
       /\ UNCHANGED <<part, vars, cfVars, rpVars, apVars, gdVars>>
    \/ /\ part = "format" /\ Catalog!Change
       /\ UNCHANGED <<part, vars, gcVars, rpVars, apVars, gdVars>>
    \/ /\ part = "replay" /\ Replay!Next
       /\ UNCHANGED <<part, vars, gcVars, cfVars, apVars, gdVars>>
    \/ /\ part = "menu" /\ Menu!Next
       /\ UNCHANGED <<part, vars, gcVars, cfVars, apVars, gdVars>>
    \/ /\ part = "window" /\ Window!Next
       /\ UNCHANGED <<part, vars, gcVars, cfVars, rpVars, gdVars>>
    \/ /\ part = "search" /\ Search!Next
       /\ UNCHANGED <<part, vars, gcVars, cfVars, rpVars, apVars>>

MCVars == <<part, vars, gcVars, cfVars, rpVars, apVars, gdVars>>
MCSpec == MCInit /\ [][MCNext]_MCVars

-------------------------------------------------------------------------------
(* The clips: what is listed is whole, a clip the user has survives crashes,
   restarts and making room, the bin holds what the user put there, files of others
   are left alone, and the store stays within its limit (replay_store.rs,
   trash.rs, thumbnails.rs). *)
ClipsKept ==
    /\ part = "clips" =>
         /\ TypeOK /\ ListedAreWhole /\ SavedSurvives /\ FavoriteSurvives
         /\ BinOnlyOnRequest /\ ForeignUntouched /\ WithinLimit
    /\ part = "exports" =>
         Exports!SavedSurvives /\ Exports!WithinLimit /\ Exports!ThumbnailOfClip

(* The other files: what was acknowledged is read back after a crash and by every
   later version, identifiers are given once, shortcuts stay apart, and a search
   finds each game once, with a client that has it (game_catalog.rs,
   replay_preferences.rs, app_preferences.rs, steam_discovery.rs). *)
RecordsKept ==
    /\ part = "catalog" =>
         /\ Catalog!TypeOK /\ Catalog!Acknowledged /\ Catalog!IdsKept
         /\ Catalog!SharedOnlyOfOld /\ Catalog!ExecutableActivates
    /\ part = "format" => Catalog!FormatTypeOK /\ Catalog!ReadBack
    /\ part = "replay" =>
         /\ Replay!TypeOK /\ Replay!Acknowledged /\ Replay!ChordsApart
         /\ rpFaults = 0 => Replay!MicrophoneOwned
    /\ part = "menu" => Menu!TypeOK /\ Menu!Acknowledged /\ Menu!ChordsApart
    /\ part = "window" => Window!TypeOK /\ Window!SwitchesKept
    /\ part = "search" =>
         /\ Search!TypeOK /\ Search!FoundOnce /\ Search!StartedByOwner
         /\ Search!NothingMissed /\ Search!ImportsWhatWasPicked

(* A settings page whose second file cannot be saved puts the first one back, or
   could not because that failed too; and a window opens with a size that was
   stored, in the unit it was stored in. *)
SettingsWhole ==
    [][/\ part = "replay" /\ rpPage.at # "idle" /\ rpPage'.at = "idle" /\ rpDisk' = rpDisk =>
            \/ rpPage.at \notin {"format", "rollback"}
            \/ rpProfile' = rpPage.was
            \/ rpPage.at = "rollback" /\ rpFaults' > rpFaults
       /\ part = "window" /\ apOpened' # apOpened /\ apOpened' # 0 => apOpened' \in apAllowed]_MCVars
===============================================================================
