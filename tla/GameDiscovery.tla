--------------------------- MODULE GameDiscovery ---------------------------
(***************************************************************************)
(* The search for installed games: redunar-platform/steam_discovery.rs and *)
(* desktop_discovery.rs, and the page that shows what was found and imports*)
(* what the user picked (tauri catalog.rs). The page keeps identifiers     *)
(* only: an import searches again, in a world that has changed since.      *)
(*                                                                         *)
(* Libraries, apps and desktop files are numbers in the order of their     *)
(* paths. A Steam client is native or in a Flatpak; each has a root that is*)
(* a library and lists others.                                             *)
(***************************************************************************)
EXTENDS Naturals, FiniteSets, Sequences

SX == INSTANCE SequencesExt

CONSTANTS
    Libraries,   \* canonical paths of libraries
    Apps,        \* Steam app identifiers
    SteamRoots,  \* <<[dir, flatpak]>>: where clients keep their data, native ones first
    Files,       \* names of desktop files
    Programs,    \* what an Exec line may name
    Launchers,   \* the programs many games are started with
    MaxFolders,  \* MAX_LIBRARY_FOLDERS
    MaxGames,    \* MAX_DISCOVERED_GAMES
    MaxChanges,  \* bound: changes of the installed software
    MaxImports   \* bound: imports

VARIABLES
    present,   \* the roots that exist
    folders,   \* the libraries that the roots list
    manifests, \* for each library and app: none, malformed or installed
    clients,   \* the clients that can be run
    entries,   \* for each application directory and file, the desktop entry
    shown,     \* what the page shows: a candidate for each identifier
    imported,  \* what was shown and what was imported for it
    changes, imports

vars == <<present, folders, manifests, clients, entries, shown, imported, changes, imports>>
world == <<present, folders, manifests, clients, entries>>

Ordered(set) == SX!SetToSortSeq(set, LAMBDA a, b : a < b)

NoEntry == [kind |-> "none", program |-> 0]
Entry(kind, program) == [kind |-> kind, program |-> program]
Entries == {NoEntry} \cup {Entry(kind, p) : kind \in {"game", "hidden"}, p \in Programs}
Directories == <<"user", "system">>

----------------------------------------------------------------------------
(* Steam *)

(* The first root that lists a library has it. *)
Claimed(table, library, flatpak) ==
    [l \in DOMAIN table \cup {library} |-> IF l \in DOMAIN table THEN table[l] ELSE flatpak]

(* One root: itself, and what it lists while there is room. *)
AddRoot(table, root) ==
    LET List(t, library) ==
            IF Cardinality(DOMAIN t) = MaxFolders THEN t ELSE Claimed(t, library, root.flatpak)
    IN  IF root.dir \notin present THEN table
        ELSE SX!FoldLeft(List, Claimed(table, root.dir, root.flatpak), Ordered(folders[root.dir]))

KnownLibraries == SX!FoldLeft(AddRoot, <<>>, SteamRoots)

(* launch_config: none when the client is not there. *)
Launch(app, flatpak) ==
    LET client == IF flatpak THEN "flatpak" ELSE "native"
    IN  [by |-> IF client \in clients THEN client ELSE "nothing", what |-> app]

SteamCandidate(app, library, flatpak) ==
    [id |-> <<"steam", app>>, identity |-> <<"app", app>>, launch |-> Launch(app, flatpak),
     from |-> <<"library", library>>]

(* manifest_paths and read_manifest: what cannot be read, is not wholly    *)
(* installed, is a support tool or points elsewhere is skipped.            *)
Manifests(library) == Ordered({a \in Apps : manifests[library][a] = "installed"})

AddGame(games, candidate) ==
    IF Len(games) = MaxGames \/ \E i \in DOMAIN games : games[i].id = candidate.id THEN games
    ELSE Append(games, candidate)

(* SteamGameDiscovery::discover: the games in the order of their numbers. *)
SteamGames ==
    LET known == KnownLibraries
        InLibrary(games, library) ==
            SX!FoldLeft(AddGame, games,
                [i \in DOMAIN Manifests(library) |->
                    SteamCandidate(Manifests(library)[i], library, known[library])])
        found == SX!FoldLeft(InLibrary, <<>>, Ordered(DOMAIN known))
    IN  SX!SetToSortSeq(SX!ToSet(found), LAMBDA a, b : a.launch.what < b.launch.what)

----------------------------------------------------------------------------
(* Desktop entries *)

(* read_candidate: an application of the category Game that is not hidden, *)
(* whose program can be found and is no launcher.                          *)
Readable(entry) == entry.kind = "game" /\ entry.program \notin Launchers

DesktopCandidate(directory, file) ==
    LET program == entries[directory][file].program
    IN  [id |-> <<directory, file>>, identity |-> <<"exe", program>>,
         launch |-> [by |-> "itself", what |-> program], from |-> <<"directory", directory>>]

(* collect_desktop_files *)
DesktopFiles ==
    LET In(directory) == Ordered({f \in Files : entries[directory][f] # NoEntry})
    IN  SX!FlattenSeq([d \in DOMAIN Directories |->
            [i \in DOMAIN In(Directories[d]) |-> <<Directories[d], In(Directories[d])[i]>>]])

AddEntry(games, path) ==
    LET candidate == DesktopCandidate(path[1], path[2]) IN
    IF \/ Len(games) >= MaxGames
       \/ ~Readable(entries[path[1]][path[2]])
       \/ \E i \in DOMAIN games : games[i].identity = candidate.identity
    THEN games ELSE Append(games, candidate)

(* DesktopGameDiscovery::discover, but for the order it returns them in. *)
DesktopGames == SX!FoldLeft(AddEntry, <<>>, DesktopFiles)

(* discover_installed_games *)
Discovered == SteamGames \o DesktopGames

----------------------------------------------------------------------------
Init ==
    /\ present = {SteamRoots[1].dir}
    /\ folders = [d \in Libraries |-> {}]
    /\ manifests = [l \in Libraries |-> [a \in Apps |-> "none"]]
    /\ clients = {"native"}
    /\ entries = [d \in {"user", "system"} |-> [f \in Files |-> NoEntry]]
    /\ shown = <<>> /\ imported = {} /\ changes = 0 /\ imports = 0

Changing == changes < MaxChanges /\ changes' = changes + 1 /\ UNCHANGED <<shown, imported, imports>>

(* The user installs, removes and changes software. *)
ChangeClient ==
    /\ Changing
    /\ \E d \in {SteamRoots[i].dir : i \in DOMAIN SteamRoots} \ present :
        present' = present \cup {d} /\ clients' \in SUBSET {"native", "flatpak"}
    /\ UNCHANGED <<folders, manifests, entries>>
ChangeFolders ==
    /\ Changing
    /\ \E d \in present, l \in Libraries : folders' = [folders EXCEPT ![d] = @ \cup {l}]
    /\ UNCHANGED <<present, manifests, clients, entries>>
ChangeManifest ==
    /\ Changing
    /\ \E l \in Libraries, a \in Apps, state \in {"none", "malformed", "installed"} :
        manifests' = [manifests EXCEPT ![l][a] = state]
    /\ UNCHANGED <<present, folders, clients, entries>>
ChangeEntry ==
    /\ Changing
    /\ \E d \in {"user", "system"}, f \in Files, e \in Entries : entries' = [entries EXCEPT ![d][f] = e]
    /\ UNCHANGED <<present, folders, manifests, clients>>

(* discover_games *)
Show ==
    /\ shown' = Discovered /\ shown' # shown
    /\ UNCHANGED <<world, imported, changes, imports>>

(* What was shown and what is imported for it. *)
Selected(found, picked) ==
    {<<shown[i], found[j]>> : i \in {k \in DOMAIN shown : shown[k].id \in picked},
                              j \in {k \in DOMAIN found : found[k].id \in picked}}
    \cap {<<a, b>> \in SX!ToSet(shown) \X SX!ToSet(found) : a.id = b.id}

(* import_discovered_games and select_discovered_games: a search that finds*)
(* two candidates for an identifier, or none for one that was picked, or   *)
(* one without a launch, refuses the whole import.                         *)
Import ==
    /\ imports < MaxImports /\ imports' = imports + 1
    /\ LET found == Discovered IN
       /\ \A i, j \in DOMAIN found : found[i].id = found[j].id => i = j
       /\ \E picked \in SUBSET {shown[i].id : i \in DOMAIN shown} \ {{}} :
            /\ picked \subseteq {found[i].id : i \in DOMAIN found}
            /\ \A i \in DOMAIN found : found[i].id \in picked => found[i].launch.by # "nothing"
            /\ imported' = imported \cup Selected(found, picked)
    /\ UNCHANGED <<world, shown, changes>>

Next == ChangeClient \/ ChangeFolders \/ ChangeManifest \/ ChangeEntry \/ Show \/ Import

Spec == Init /\ [][Next]_vars

----------------------------------------------------------------------------
(* A search is bounded. *)
TypeOK ==
    /\ Len(SteamGames) <= MaxGames /\ Len(DesktopGames) <= MaxGames
    /\ changes \in 0..MaxChanges /\ imports \in 0..MaxImports

(* No game is found twice, in two libraries, by two clients or in two      *)
(* directories: everything that is shown can be imported together and the  *)
(* catalog finds no duplicate in it.                                       *)
FoundOnce ==
    LET found == Discovered IN
    \A i, j \in DOMAIN found :
        i # j => found[i].id # found[j].id /\ found[i].identity # found[j].identity

(* A game is started by a client that has the library it was found in, and *)
(* by the one in the Flatpak only when no native client has it.            *)
StartedByOwner ==
    \A i \in DOMAIN SteamGames :
        LET game == SteamGames[i]
            Has(flatpak) == \E r \in DOMAIN SteamRoots :
                /\ SteamRoots[r].flatpak = flatpak /\ SteamRoots[r].dir \in present
                /\ game.from[2] \in {SteamRoots[r].dir} \cup folders[SteamRoots[r].dir]
        IN  /\ game.launch.by = "flatpak" => Has(TRUE) /\ ~Has(FALSE)
            /\ game.launch.by = "native" => Has(FALSE)

(* "malformed or racing individual manifests are skipped": a game that is  *)
(* installed in a library of a client is found, whatever lies beside it.   *)
NothingMissed ==
    LET games == SteamGames IN
    Len(games) < MaxGames =>
        \A l \in DOMAIN KnownLibraries, a \in Apps :
            manifests[l][a] = "installed" => \E i \in DOMAIN games : games[i].launch.what = a

(* What is imported is the game whose identifier was shown, though the     *)
(* search that imports it is a later one: never its neighbour in the list. *)
ImportsWhatWasPicked == \A pair \in imported : pair[1].id = pair[2].id
============================================================================
