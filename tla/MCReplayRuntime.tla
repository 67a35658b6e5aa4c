--------------------------- MODULE MCReplayRuntime ---------------------------
(***************************************************************************)
(* ReplayRuntime for TLC, with enough saves and epochs for a save to       *)
(* outlive its recorder and meet the next one, and the game session that   *)
(* arms and releases it (GameSession: directly launched games in the part  *)
(* "session", Steam and attached ones in "steam"). A behaviour runs one    *)
(* part; the others keep their initial state.                              *)
(***************************************************************************)
EXTENDS ReplayRuntime

CONSTANTS Parts

VARIABLES part, gamePhase, gameGame, gameComp, gameCap, gamePump, gameRt, gamePipeline,
          gameSaving, gameNames, gameCompleted, gameRecorded, gameNoticed, gameLedger,
          gameActive, gameEng, gameFlush, gamePoll, gameWorld, gameHistory, gameProven,
          gameFaults

gameVars ==
    <<gamePhase, gameGame, gameComp, gameCap, gamePump, gameRt, gamePipeline, gameSaving,
      gameNames, gameCompleted, gameRecorded, gameNoticed, gameLedger, gameActive, gameEng,
      gameFlush, gamePoll, gameWorld, gameHistory, gameProven, gameFaults>>

Session ==
    INSTANCE GameSession WITH
        MaxSessions <- 2, MaxSaves <- 2, MaxFaults <- 2, Owners <- {"direct"},
        Statuspoll <- TRUE, Cliplist <- FALSE,
        phase <- gamePhase, game <- gameGame, comp <- gameComp, cap <- gameCap,
        pump <- gamePump, rt <- gameRt, pipeline <- gamePipeline, saving <- gameSaving,
        names <- gameNames, completed <- gameCompleted, recorded <- gameRecorded,
        noticed <- gameNoticed, ledger <- gameLedger, active <- gameActive, eng <- gameEng,
        flush <- gameFlush, poll <- gamePoll, world <- gameWorld, history <- gameHistory,
        proven <- gameProven, faults <- gameFaults

Steam ==
    INSTANCE GameSession WITH
        MaxSessions <- 1, MaxSaves <- 1, MaxFaults <- 1, Owners <- {"steam", "attached"},
        Statuspoll <- FALSE, Cliplist <- TRUE,
        phase <- gamePhase, game <- gameGame, comp <- gameComp, cap <- gameCap,
        pump <- gamePump, rt <- gameRt, pipeline <- gamePipeline, saving <- gameSaving,
        names <- gameNames, completed <- gameCompleted, recorded <- gameRecorded,
        noticed <- gameNoticed, ledger <- gameLedger, active <- gameActive, eng <- gameEng,
        flush <- gameFlush, poll <- gamePoll, world <- gameWorld, history <- gameHistory,
        proven <- gameProven, faults <- gameFaults

MCInit ==
    /\ part \in Parts
    /\ Init
    /\ \/ part = "session" /\ Session!Init
       \/ part = "steam" /\ Steam!Init
       \/ part \notin {"session", "steam"} /\ Session!Init

MCNext ==
    \/ part = "runtime" /\ Next /\ UNCHANGED <<part, gameVars>>
    \/ part = "session" /\ Session!Next /\ UNCHANGED <<part, vars>>
    \/ part = "steam" /\ Steam!Next /\ UNCHANGED <<part, vars>>

MCVars == <<part, vars, gameVars>>
MCSpec == MCInit /\ [][MCNext]_MCVars

(* Fairness of ReplayRuntime, for the part that runs. *)
MCFairSpec ==
    /\ MCSpec
    /\ \A s \in Saves : WF_vars(part = "runtime" /\ SaveWorker(s))
    /\ WF_vars(part = "runtime" /\ FinishShutdown)

-------------------------------------------------------------------------------
(* What a session leaves behind when it ends: at most one record in the history,
   its own clips under its own game, and nothing armed or held (start_launch,
   flush, end and finish of the session engine). *)
SessionsClean ==
    /\ part = "session" =>
         Session!TypeOK /\ Session!HistoryOnce /\ Session!ClipsOfTheirGame /\ Session!EndedClean
    /\ part = "steam" => Steam!TypeOK /\ Steam!HistoryOnce /\ Steam!EndedClean
===============================================================================
