---------------------------- MODULE GameCatalog ----------------------------
(***************************************************************************)
(* The local game catalog: redunar-daemon/src/game_catalog.rs, and the     *)
(* resolution of a process against it in redunar-core/src/game.rs.         *)
(*                                                                         *)
(* Every operation takes one lock, loads the file, changes it and replaces *)
(* it (temporary file, flush, rename, flush of the directory). A write may *)
(* fail before the rename, or after it; the machine may stop at any time.  *)
(* A game is the record the user knows: `born` is the operation that made  *)
(* it, and tells apart two records that were given one identifier.  An     *)
(* operation that refuses leaves everything as it was and is not a step.   *)
(*                                                                         *)
(* The second half is the text of the file, in the twelve layouts that     *)
(* parse accepts, with variables and a specification of its own.           *)
(***************************************************************************)
EXTENDS Naturals, FiniteSets, Sequences

SX == INSTANCE SequencesExt

CONSTANTS
    Executables,  \* what a game runs; all share one file name, in different directories
    Launcher,     \* the launcher many games are started with
    SteamIds,     \* Steam app identifiers
    NoSteam,      \* no Steam identifier
    Missing,      \* the executables that are no longer installed
    OldCatalogs,  \* TRUE: the program may start with the catalog of an older version
    Threads,      \* who calls the catalog
    MaxGames,     \* MAX_GAMES
    MaxId,        \* the last identifier
    MaxBatch,     \* MAX_IMPORT_GAMES
    MaxOps,       \* bound: operations that are not refused
    MaxFaults,    \* bound: writes that fail
    MaxChanged,   \* bound: fields of the first file that are not 0
    MaxEdits      \* bound: fields the user changes

VARIABLES
    file,    \* the catalog every load sees
    disk,    \* the catalogs a stop of the machine may leave
    staged,  \* what each thread is about to save
    ops, faults,
    promised, \* for each game, what the replies allow it to be
    given    \* the identifiers in replies, with the game they were given to

vars == <<file, disk, staged, ops, faults, promised, given>>

Idle == [idle |-> TRUE]
Absent == [absent |-> TRUE]
GlobalBorn == <<0, 0>>

Exe(e) == <<"exe", e>>
Steam(s) == <<"steam", s>>
Name(e) == <<"name", e = Launcher>>

Launch(e, s) == [exe |-> e, app |-> s]

(* match_rules_for: the executable and its file name. *)
MatchRulesFor(e) == {Exe(e), Name(e)}

SteamOnly(rules) == {r \in rules : r[1] = "steam"}

StrongIdentities(rules) == {r \in rules : r[1] # "name"}

(* The requests: a file the user picked, a Steam candidate, a desktop      *)
(* entry and a running process, as the services build them.                *)
UserRequests ==
    {[launch |-> Launch(e, NoSteam), rules |-> {}, direct |-> TRUE] : e \in Executables}
SteamRequests ==
    {[launch |-> Launch(Launcher, s), rules |-> {Steam(s)}, direct |-> FALSE] : s \in SteamIds}
DesktopRequests ==
    {[launch |-> Launch(e, NoSteam), rules |-> MatchRulesFor(e), direct |-> FALSE] : e \in Executables}
RunningRequests ==
    {[launch |-> Launch(e, NoSteam), rules |-> {Exe(e), Steam(s)}, direct |-> FALSE] :
        e \in Executables, s \in SteamIds}
Discovered == SteamRequests \cup DesktopRequests \cup RunningRequests

Batches(requests) == UNION {[1..n -> requests] : n \in 1..MaxBatch}

(* normalize_request: the launch is added to the rules of a direct game; a *)
(* launch that cannot be inspected refuses the request.                    *)
Normalize(request) ==
    [request EXCEPT !.rules = @ \cup IF request.direct THEN MatchRulesFor(request.launch.exe) ELSE {}]
Inspected(request) == request.launch.exe \notin Missing

(* requests_conflict_with_catalog and requests_have_duplicate_identities. *)
Conflicts(games, requests) ==
    \E g \in games, i \in DOMAIN requests :
        StrongIdentities(g.rules) \cap StrongIdentities(requests[i].rules) # {}
Duplicates(requests) ==
    \E i, j \in DOMAIN requests :
        i < j /\ StrongIdentities(requests[i].rules) \cap StrongIdentities(requests[j].rules) # {}

ExecutablesOf(game) == {r \in game.rules : r[1] = "exe"}

(* validate_stored, at every load and save: an executable belongs to one   *)
(* game; a Steam identifier of an older catalog may belong to several.     *)
Valid(catalog) ==
    /\ Cardinality(catalog.games) <= MaxGames
    /\ \A g \in catalog.games :
        /\ g.rules # {} /\ g.id < catalog.next
        /\ \A h \in catalog.games \ {g} : g.id # h.id /\ ExecutablesOf(g) \cap ExecutablesOf(h) = {}

(* What a catalog says of one game, or of the global profile.              *)
RecordOf(catalog, born) ==
    IF born = GlobalBorn THEN catalog.global
    ELSE LET found == {g \in catalog.games : g.born = born}
         IN  IF found = {} THEN Absent ELSE CHOOSE g \in found : TRUE

Profiles == {"inherit", "custom"}
DefaultGlobal == [other |-> FALSE, replay |-> FALSE]

Game(id, request, born) ==
    [id |-> id, rules |-> request.rules, launch |-> request.launch, profile |-> "inherit", born |-> born]

(* A missing file is an empty catalog. An older one may share a Steam      *)
(* identifier between two games.                                           *)
EmptyCatalog == [next |-> 1, games |-> {}, global |-> DefaultGlobal]
OldCatalog(s) ==
    [EmptyCatalog EXCEPT !.next = 3,
        !.games = {Game(i, [launch |-> Launch(Launcher, s), rules |-> {Steam(s)}], <<0, i>>) : i \in 1..2}]

Init ==
    /\ file \in {EmptyCatalog} \cup IF OldCatalogs THEN {OldCatalog(s) : s \in SteamIds} ELSE {}
    /\ disk = {file}
    /\ staged = [t \in Threads |-> Idle]
    /\ ops = 0 /\ faults = 0
    /\ promised = [b \in {GlobalBorn} \cup {g.born : g \in file.games} |-> {RecordOf(file, b)}]
    /\ given = {<<g.id, g.born>> : g \in file.games}

----------------------------------------------------------------------------
\* Variant of Unlocked: the load is not part of the lock.
AnyTime == TRUE

(* catalog_operation: one operation at a time. *)
Unlocked == \A t \in Threads : staged[t] = Idle

(* An operation loads, decides and is about to save. A change that does    *)
(* not validate is refused before anything is written.                     *)
Stage(t, catalog) ==
    /\ Valid(catalog)
    /\ staged' = [staged EXCEPT ![t] = [from |-> file, to |-> catalog]]
    /\ ops' = ops + 1
    /\ UNCHANGED <<file, disk, faults, promised, given>>

Loads(t) == staged[t] = Idle /\ Unlocked /\ ops < MaxOps

(* add *)
Add(t) ==
    \E picked \in UserRequests :
        LET request == Normalize(picked) IN
        /\ Loads(t)
        /\ Cardinality(file.games) < MaxGames
        /\ Inspected(request)
        /\ ~Conflicts(file.games, <<request>>)
        /\ file.next < MaxId
        /\ Stage(t, [file EXCEPT !.next = @ + 1, !.games = @ \cup {Game(file.next, request, <<ops + 1, 1>>)}])

ImportRefused(games, requests) == Conflicts(games, requests) \/ Duplicates(requests)

(* import: all of the batch or nothing. *)
Import(t) ==
    \E picked \in Batches(Discovered) :
        LET requests == [i \in DOMAIN picked |-> Normalize(picked[i])] IN
        /\ Loads(t)
        /\ Cardinality(file.games) + Len(picked) <= MaxGames
        /\ \A i \in DOMAIN requests : Inspected(requests[i])
        /\ ~ImportRefused(file.games, requests)
        /\ file.next + Len(picked) <= MaxId
        /\ Stage(t, [file EXCEPT !.next = @ + Len(picked),
                !.games = @ \cup {Game(file.next + i - 1, requests[i], <<ops + 1, i>>) : i \in DOMAIN picked}])

(* A game is direct when the executable it launches is one of its rules.   *)
Direct(game) == Exe(game.launch.exe) \in game.rules

(* update_launch *)
UpdateLaunch(t) ==
    \E game \in file.games, e \in Executables :
        LET request == Normalize([launch |-> Launch(e, NoSteam), rules |-> game.rules, direct |-> Direct(game)]) IN
        /\ Loads(t)
        /\ Inspected(request)
        /\ ~Conflicts(file.games \ {game}, <<request>>)
        /\ Stage(t, [file EXCEPT !.games =
                (@ \ {game}) \cup {[game EXCEPT !.launch = request.launch, !.rules = request.rules]}])

(* The one game a discovered launch may change; none when several match.   *)
Refreshable(games, request) ==
    LET found == {g \in games : StrongIdentities(g.rules) \cap StrongIdentities(request.rules) # {}}
    IN  IF Cardinality(found) = 1 THEN found ELSE {}

(* One discovered launch: the rules found are added to the game's own, and *)
(* the launch too when the game was direct.                                *)
RefreshOne(work, request) ==
    LET found == {g \in Refreshable(work.games, request) :
                    g.launch # request.launch /\ g.id \notin work.updated}
        Refreshed(g) == LET new == Normalize([launch |-> request.launch,
                                              rules |-> g.rules \cup request.rules, direct |-> Direct(g)])
                        IN  [g EXCEPT !.launch = new.launch, !.rules = new.rules]
    IN  [games |-> (work.games \ found) \cup {Refreshed(g) : g \in found},
         updated |-> work.updated \cup {g.id : g \in found}]

(* refresh_discovered_launches *)
Refresh(t) ==
    \E requests \in Batches(Discovered) :
        LET work == SX!FoldLeft(RefreshOne, [games |-> file.games, updated |-> {}], requests) IN
        /\ Loads(t)
        /\ \A i \in DOMAIN requests : Inspected(requests[i])
        /\ work.updated # {}
        /\ Stage(t, [file EXCEPT !.games = work.games])

(* update_profile *)
UpdateProfile(t) ==
    \E game \in file.games, profile \in Profiles :
        /\ Loads(t)
        /\ Stage(t, [file EXCEPT !.games = (@ \ {game}) \cup {[game EXCEPT !.profile = profile]}])

(* The next identifier after a removal. *)
Kept(next, game) == next

(* remove *)
Remove(t) ==
    \E game \in file.games :
        /\ Loads(t)
        /\ Stage(t, [file EXCEPT !.games = @ \ {game}, !.next = Kept(@, game)])

(* update_global_profile *)
UpdateGlobalProfile(t) ==
    \E global \in [other : BOOLEAN, replay : BOOLEAN] :
        Loads(t) /\ global # file.global /\ Stage(t, [file EXCEPT !.global = global])

(* update_global_replay_settings *)
UpdateGlobalReplay(t) ==
    Loads(t) /\ Stage(t, [file EXCEPT !.global.replay = ~@])

----------------------------------------------------------------------------
(* The records an operation changed. *)
Borns(catalog) == {GlobalBorn} \cup {g.born : g \in catalog.games}
Changed(work) ==
    {b \in Borns(work.from) \cup Borns(work.to) : RecordOf(work.from, b) # RecordOf(work.to, b)}

(* What a reply allows: a success, only the new value; an error, either.   *)
Promise(work, success) ==
    LET changed == Changed(work)
    IN  [b \in DOMAIN promised \cup changed |->
            IF b \notin changed THEN promised[b]
            ELSE {RecordOf(work.to, b)}
                 \cup IF success THEN {} ELSE IF b \in DOMAIN promised THEN promised[b] ELSE {Absent}]

(* The directory is flushed: only the new file can be found again. *)
Flushed(catalog) == {catalog}

(* save and atomic_write to the end. *)
Saved(t) ==
    LET work == staged[t] IN
    /\ work # Idle
    /\ file' = work.to
    /\ disk' = Flushed(work.to)
    /\ promised' = Promise(work, TRUE)
    /\ given' = given \cup {<<g.id, g.born>> : g \in {h \in work.to.games : h.born \notin Borns(work.from)}}
    /\ staged' = [staged EXCEPT ![t] = Idle]
    /\ UNCHANGED <<ops, faults>>

(* The temporary file cannot be created, written, flushed or renamed: it   *)
(* is removed, and the caller is told.                                     *)
Unwritten(t) ==
    /\ staged[t] # Idle /\ faults < MaxFaults
    /\ faults' = faults + 1
    /\ promised' = Promise(staged[t], FALSE)
    /\ staged' = [staged EXCEPT ![t] = Idle]
    /\ UNCHANGED <<file, disk, ops, given>>

(* The rename took place and the flush of the directory failed: the caller *)
(* is told of an error, and the new file is there.                         *)
Unflushed(t) ==
    /\ staged[t] # Idle /\ faults < MaxFaults
    /\ faults' = faults + 1
    /\ file' = staged[t].to
    /\ disk' = disk \cup {staged[t].to}
    /\ promised' = Promise(staged[t], FALSE)
    /\ staged' = [staged EXCEPT ![t] = Idle]
    /\ UNCHANGED <<ops, given>>

(* The machine stops and starts again. *)
Crash ==
    /\ disk # {file} \/ ~Unlocked
    /\ \E left \in disk : file' = left /\ disk' = {left}
    /\ staged' = [t \in Threads |-> Idle]
    /\ UNCHANGED <<ops, faults, promised, given>>

Next ==
    \/ \E t \in Threads :
        \/ Add(t) \/ Import(t) \/ UpdateLaunch(t) \/ Refresh(t) \/ UpdateProfile(t) \/ Remove(t)
        \/ UpdateGlobalProfile(t) \/ UpdateGlobalReplay(t)
        \/ Saved(t) \/ Unwritten(t) \/ Unflushed(t)
    \/ Crash

Spec == Init /\ [][Next]_vars

----------------------------------------------------------------------------

(* resolve_game *)
MatchScore(rule, process) ==
    CASE rule = Steam(process.app) -> 100
      [] rule = Exe(process.exe) -> 90
      [] rule = Name(process.exe) -> 50
      [] OTHER -> 0

Score(game, process) ==
    LET scores == {MatchScore(r, process) : r \in game.rules}
    IN  CHOOSE best \in scores : \A s \in scores : s <= best

Best(games, process) ==
    {g \in games : /\ Score(g, process) > 0
                   /\ \A h \in games : Score(h, process) <= Score(g, process)}

(* The games a process activates without asking: one, or none. *)
Automatic(games, process) ==
    LET best == Best(games, process)
    IN  IF Cardinality(best) = 1 THEN {g \in best : Score(g, process) >= 80} ELSE {}

----------------------------------------------------------------------------
Catalogs(c) ==
    /\ c.next \in 1..MaxId /\ c.global \in [other : BOOLEAN, replay : BOOLEAN]
    /\ Valid(c)
    /\ \A g \in c.games : g.profile \in Profiles

(* Every catalog that can be found again is one that parse accepts. *)
TypeOK ==
    /\ \A c \in disk \cup {file} : Catalogs(c)
    /\ file \in disk
    /\ ops \in 0..MaxOps /\ faults \in 0..MaxFaults

(* What the callers were told is true of every catalog that the next start *)
(* may find: a success is never lost to another caller or to a stop of the *)
(* machine, and an error leaves the old or the new record, no third.       *)
Acknowledged ==
    \A c \in disk \cup {file}, b \in DOMAIN promised : RecordOf(c, b) \in promised[b]

(* An identifier that was given to a game is never given to another one:   *)
(* clips and sessions are filed under it.                                  *)
IdsKept == \A x, y \in given : x[1] = y[1] => x[2] = y[2]

(* "preserve readable state while preventing new duplicates at import      *)
(* time": only games of an older catalog share a Steam identifier.         *)
SharedOnlyOfOld ==
    \A c \in disk : \A g, h \in c.games :
        g # h /\ SteamOnly(g.rules) \cap SteamOnly(h.rules) # {} => g.born[1] = 0 /\ h.born[1] = 0

(* The executable of a game, run on its own, activates that game and asks  *)
(* nothing, whatever was added, refreshed or edited beside it.             *)
ExecutableActivates ==
    \A c \in disk : \A g \in c.games : \A e \in Executables :
        Exe(e) \in g.rules => Automatic(c.games, [exe |-> e, app |-> NoSteam]) = {g}

----------------------------------------------------------------------------
(* The layouts of the file: parse and serialize.  A line is a sequence of  *)
(* tokens that are told apart by their place alone; a version that added   *)
(* or dropped a field moved the ones behind it. The line of the global     *)
(* profile is read at computed places, and the line of a game likewise.    *)
(* A token is its kind and one of two values. Tokens of one kind can be    *)
(* read for each other; any other mistake is refused by the parser.        *)

Versions == 1..12
Refused == [refused |-> TRUE]

GlobalKind ==
    [capture |-> "bool", overlay |-> "bool", preset |-> "preset", metrics |-> "number",
     corner |-> "corner", opacity |-> "number", scale |-> "number", layout |-> "layout",
     palette |-> "palette", gamescope |-> "bool", gamemode |-> "bool", duration |-> "time",
     rate |-> "time", quality |-> "quality", storage |-> "storage", replay |-> "bool",
     branding |-> "bool"]
GlobalFields == DOMAIN GlobalKind

GameKind ==
    [capture |-> "inherit", overlay |-> "inherit", replay |-> "inherit", rules |-> "rules"]
GameFields == DOMAIN GameKind

(* The first version that stores a field of the global profile. *)
Since ==
    [capture |-> 1, replay |-> 1, overlay |-> 3, preset |-> 4, corner |-> 4, opacity |-> 4,
     metrics |-> 5, duration |-> 6, rate |-> 6, quality |-> 6, storage |-> 6, scale |-> 7,
     gamescope |-> 8, gamemode |-> 9, layout |-> 11, palette |-> 11, branding |-> 12]

(* What a file that does not store a field means: only the branding was    *)
(* shown by the versions that had no switch for it.                        *)
Unstored(field) == IF field = "branding" THEN 1 ELSE 0

----------------------------------------------------------------------------
(* The lines as the versions wrote them. Versions 1 to 9 ended the global  *)
(* line with a switch that no longer exists, and had one in a game's line. *)
FieldOrder ==
    <<"capture", "overlay", "preset", "metrics", "corner", "opacity", "scale", "layout", "palette",
      "gamescope", "gamemode", "duration", "rate", "quality", "storage", "replay">>

GlobalLayout(v) ==
    LET Stored(field) == Since[field] <= v
    IN  SelectSeq(FieldOrder, Stored)
        \o (IF v < 10 THEN <<"retired">> ELSE <<>>)
        \o (IF v >= 12 THEN <<"branding">> ELSE <<>>)

GameLayout(v) ==
    <<"capture">> \o (IF v >= 3 THEN <<"overlay">> ELSE <<>>) \o <<"replay">>
    \o (IF v < 10 THEN <<"retired">> ELSE <<>>) \o (IF v >= 2 THEN <<"rules">> ELSE <<>>)

Written(layout, kinds, retired, values) ==
    [i \in DOMAIN layout |->
        IF layout[i] = "retired" THEN [kind |-> retired, value |-> 1]
        ELSE [kind |-> kinds[layout[i]], value |-> values[layout[i]]]]

(* The tokens: a quota that is no longer applied is read as unlimited.     *)
Normal(field, value) == IF field = "storage" THEN 0 ELSE value

(* serialize: always version 12. *)
Serialize(global, game) ==
    [version |-> 12,
     global |-> Written(FieldOrder \o <<"branding">>, GlobalKind, "bool", global),
     game |-> Written(<<"capture", "overlay", "replay", "rules">>, GameKind, "inherit", game)]

----------------------------------------------------------------------------
From(v, n) == IF v >= n THEN 1 ELSE 0

(* How far the replay settings have moved since version 6. *)
ReplayPlace(v) == From(v, 7) + From(v, 8) + From(v, 9) + 2 * From(v, 11)

(* expected_fields, and the places in the line; the tag is place 0. *)
ExpectedFields(v) ==
    CASE v >= 12 -> 18 [] v = 11 -> 17 [] v = 10 -> 15 [] v = 9 -> 16 [] v = 8 -> 15
      [] v = 7 -> 14 [] v = 6 -> 13 [] v = 5 -> 9 [] v = 4 -> 8 [] OTHER -> 4 + From(v, 3)

InstantReplayPlace(v) ==
    CASE v >= 6 -> 11 + ReplayPlace(v)
      [] v \in 4..5 -> From(v, 5) + 6
      [] OTHER -> 2 + From(v, 3)

GlobalPlace(field, v) ==
    CASE field = "capture" -> 1
      [] field = "overlay" -> 2
      [] field = "preset" -> 3
      [] field = "metrics" -> 4
      [] field = "corner" -> From(v, 5) + 4
      [] field = "opacity" -> From(v, 5) + 5
      [] field = "scale" -> 7
      [] field = "layout" -> 8
      [] field = "palette" -> 9
      [] field = "branding" -> 17
      [] field = "gamescope" -> 8 + 2 * From(v, 11)
      [] field = "gamemode" -> 9 + 2 * From(v, 11)
      [] field = "duration" -> 7 + ReplayPlace(v)
      [] field = "rate" -> 8 + ReplayPlace(v)
      [] field = "quality" -> 9 + ReplayPlace(v)
      [] field = "storage" -> 10 + ReplayPlace(v)
      [] field = "replay" -> InstantReplayPlace(v)

(* parse_global_profile *)
ParseGlobal(line, v) ==
    LET read == {f \in GlobalFields : Since[f] <= v}
    IN  IF /\ Len(line) + 1 = ExpectedFields(v)
           /\ \A f \in read : line[GlobalPlace(f, v)].kind = GlobalKind[f]
        THEN [f \in GlobalFields |-> IF f \in read THEN Normal(f, line[GlobalPlace(f, v)].value) ELSE Unstored(f)]
        ELSE Refused

(* parse_game: version 1 makes the rules from the executable. The first    *)
(* five places, which never moved, are left out.                           *)
GamePlace(field, v) ==
    CASE field = "capture" -> 6
      [] field = "overlay" -> 7
      [] field = "replay" -> 7 + From(v, 3)
      [] field = "rules" -> (IF v >= 10 THEN 8 ELSE 9) + From(v, 3)

ParseGame(line, v) ==
    LET expected == CASE v = 1 -> 9 [] v \in 3..9 -> 11 [] OTHER -> 10
        read == GameFields \ ((IF v < 3 THEN {"overlay"} ELSE {}) \cup (IF v = 1 THEN {"rules"} ELSE {}))
    IN  IF /\ Len(line) + 6 = expected
           /\ \A f \in read : line[GamePlace(f, v) - 5].kind = GameKind[f]
        THEN [f \in GameFields |-> IF f \in read THEN line[GamePlace(f, v) - 5].value ELSE 0]
        ELSE Refused

(* parse *)
Parse(lines) ==
    LET global == ParseGlobal(lines.global, lines.version)
        game == ParseGame(lines.game, lines.version)
    IN  IF Refused \in {global, game} THEN Refused ELSE [global |-> global, game |-> game]

----------------------------------------------------------------------------
VARIABLES
    text,   \* the catalog's file
    meant,  \* what the user set, in the version that wrote it and since
    edits

formatVars == <<text, meant, edits>>

(* A file of any version, in which a few fields are not 0. *)
FormatInit ==
    \E v \in Versions, g \in {s \in SUBSET GlobalFields : Cardinality(s) <= MaxChanged},
       p \in {s \in SUBSET GameFields : Cardinality(s) <= MaxChanged} :
        LET global == [f \in GlobalFields |-> IF f \in g THEN 1 ELSE 0]
            game == [f \in GameFields |-> IF f \in p THEN 1 ELSE 0]
        IN  /\ g = {} \/ p = {}
            /\ text = [version |-> v, global |-> Written(GlobalLayout(v), GlobalKind, "bool", global),
                       game |-> Written(GameLayout(v), GameKind, "inherit", game)]
            /\ meant = [global |-> [f \in GlobalFields |->
                            IF Since[f] <= v THEN Normal(f, global[f]) ELSE Unstored(f)],
                        game |-> [f \in GameFields |->
                            IF (f = "rules" /\ v = 1) \/ (f = "overlay" /\ v < 3) THEN 0 ELSE game[f]]]
            /\ edits = 0

(* An operation loads the catalog, changes one field and saves it. *)
Change ==
    /\ edits < MaxEdits /\ edits' = edits + 1
    /\ LET loaded == Parse(text) IN
       /\ loaded # Refused
       /\ \/ \E f \in GlobalFields \ {"storage"} :
                /\ text' = Serialize([loaded.global EXCEPT ![f] = 1 - @], loaded.game)
                /\ meant' = [meant EXCEPT !.global[f] = 1 - @]
          \/ \E f \in GameFields :
                /\ text' = Serialize(loaded.global, [loaded.game EXCEPT ![f] = 1 - @])
                /\ meant' = [meant EXCEPT !.game[f] = 1 - @]

FormatSpec == FormatInit /\ [][Change]_formatVars

----------------------------------------------------------------------------
(* A catalog that some version wrote is never refused as malformed. *)
FormatTypeOK == edits \in 0..MaxEdits /\ text.version \in Versions /\ Parse(text) # Refused

(* Every field is read back as what was set under its own name, by the     *)
(* version that wrote the file and by this one, and a field that a version *)
(* did not have means what that version did: no field is ever read at the  *)
(* place of another, through any migration and the changes after it.       *)
ReadBack == Parse(text) # Refused => Parse(text) = meant
============================================================================
