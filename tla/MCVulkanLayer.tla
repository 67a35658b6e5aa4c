---------------------------- MODULE MCVulkanLayer ----------------------------
(***************************************************************************)
(* VulkanLayer and what runs inside it or beside it in the game, for TLC:  *)
(* the routes that copy and export presented images (ReplayRoutes:         *)
(* "routes" with more swapchains than there may be routes, "pair" with     *)
(* calls that fail), the same for OpenGL (GlReplayExport: "gl" with        *)
(* faults, "retire" with resized and destroyed contexts), and the daemon's *)
(* session with the NVIDIA library (NvidiaSession). A behaviour runs one   *)
(* part; the others keep their initial state.                              *)
(***************************************************************************)
EXTENDS VulkanLayer

CONSTANTS Parts

VARIABLES part, rtS, rtSwap, rtSem, rtGpu, rtHeld, rtNow, glPools, glLastTs, glAnnounced,
          glNextSeq, glTarget, glPending, glFinished, glMem, glView, glResizes, glFaults,
          glTold, glHeld, glSent, nvAt, nvTarget, nvSampling, nvSpent, nvSymbols, nvDriver,
          nvSession, nvStale, nvStatus, nvMetrics, nvReadiness, nvFailure, nvAttempts,
          nvRetry, nvCleanup

rtVars ==
    <<rtS, rtSwap, rtSem, rtGpu, rtHeld, rtNow>>
glVars ==
    <<glPools, glLastTs, glAnnounced, glNextSeq, glTarget, glPending, glFinished, glMem,
      glView, glResizes, glFaults, glTold, glHeld, glSent>>
nvVars ==
    <<nvAt, nvTarget, nvSampling, nvSpent, nvSymbols, nvDriver, nvSession, nvStale,
      nvStatus, nvMetrics, nvReadiness, nvFailure, nvAttempts, nvRetry, nvCleanup>>

Routes ==
    INSTANCE ReplayRoutes WITH
        Device <- {"d1"}, Handle <- {1, 2, 3, 4}, Image <- {1}, Context <- {1},
        MaxRoutes <- 4, MaxTime <- 1, Interval <- 1, Rates <- {FALSE}, MaxExports <- 1,
        Reuse <- FALSE, Faults <- {"alloc", "lock"},
        s <- rtS, swap <- rtSwap, sem <- rtSem, gpu <- rtGpu, held <- rtHeld, now <- rtNow

Pair ==
    INSTANCE ReplayRoutes WITH
        Device <- {"d1"}, Handle <- {1, 2}, Image <- {1}, Context <- {1, 2}, MaxRoutes <- 2,
        MaxTime <- 1, Interval <- 1, Rates <- {TRUE}, MaxExports <- 2, Reuse <- FALSE,
        Faults <- {"send", "record", "present"},
        s <- rtS, swap <- rtSwap, sem <- rtSem, gpu <- rtGpu, held <- rtHeld, now <- rtNow

Gl ==
    INSTANCE GlReplayExport WITH
        Contexts <- {1}, Sizes <- {1}, Nvidia <- TRUE, SlotCount <- 2, MaxPools <- 2,
        MaxOwners <- 3, MaxFrames <- 4, MaxResizes <- 0, MaxFaults <- 2,
        Faults <- {"wait", "bridge", "alloc", "send", "error", "fence"},
        pools <- glPools, lastTs <- glLastTs, announced <- glAnnounced,
        nextSeq <- glNextSeq, target <- glTarget, pending <- glPending,
        finished <- glFinished, mem <- glMem, view <- glView, resizes <- glResizes,
        faults <- glFaults, told <- glTold, held <- glHeld, sent <- glSent

Retire ==
    INSTANCE GlReplayExport WITH
        Contexts <- {1}, Sizes <- {1, 2}, Nvidia <- TRUE, SlotCount <- 1, MaxPools <- 2,
        MaxOwners <- 3, MaxFrames <- 2, MaxResizes <- 1, MaxFaults <- 1,
        Faults <- {"wait", "bridge", "alloc", "fence", "destroy"},
        pools <- glPools, lastTs <- glLastTs, announced <- glAnnounced,
        nextSeq <- glNextSeq, target <- glTarget, pending <- glPending,
        finished <- glFinished, mem <- glMem, view <- glView, resizes <- glResizes,
        faults <- glFaults, told <- glTold, held <- glHeld, sent <- glSent

Nvml ==
    INSTANCE NvidiaSession WITH
        MaxAttempts <- 3,
        at <- nvAt, target <- nvTarget, sampling <- nvSampling, spent <- nvSpent,
        symbols <- nvSymbols, driver <- nvDriver, session <- nvSession, stale <- nvStale,
        status <- nvStatus, metrics <- nvMetrics, readiness <- nvReadiness,
        failure <- nvFailure, attempts <- nvAttempts, retry <- nvRetry, cleanup <- nvCleanup

MCInit ==
    /\ part \in Parts
    /\ Init
    /\ \/ part = "routes" /\ Routes!Init
       \/ part = "pair" /\ Pair!Init
       \/ part \notin {"routes", "pair"} /\ Routes!Init
    /\ \/ part = "gl" /\ Gl!Init
       \/ part = "retire" /\ Retire!Init
       \/ part \notin {"gl", "retire"} /\ Gl!Init
    /\ \/ part = "nvml" /\ Nvml!Init
       \/ part # "nvml" /\ Nvml!Init /\ nvTarget

MCNext ==
    \/ part = "layer" /\ Next /\ UNCHANGED <<part, rtVars, glVars, nvVars>>
    \/ part = "routes" /\ Routes!Next /\ UNCHANGED <<part, vars, glVars, nvVars>>
    \/ part = "pair" /\ Pair!Next /\ UNCHANGED <<part, vars, glVars, nvVars>>
    \/ part = "gl" /\ Gl!Next /\ UNCHANGED <<part, vars, rtVars, nvVars>>
    \/ part = "retire" /\ Retire!Next /\ UNCHANGED <<part, vars, rtVars, nvVars>>
    \/ part = "nvml" /\ Nvml!Next /\ UNCHANGED <<part, vars, rtVars, glVars>>

MCVars == <<part, vars, rtVars, glVars, nvVars>>
MCSpec == MCInit /\ [][MCNext]_MCVars

-------------------------------------------------------------------------------
(* A route, its semaphores and its buffers are reused or destroyed only when
   neither the GPU, nor the presentation engine, nor the daemon uses them, there
   are never more routes than allowed (reclaim, create and retire of
   replay_copy.rs); and with sends, recordings and presents that fail, a semaphore
   is signalled and waited for in turns, and a buffer is lent to the daemon or
   written by the GPU, never both. *)
RoutesSound ==
    /\ part = "routes" => Routes!TypeOK /\ Routes!ReclaimedUnused /\ Routes!Bounded
    /\ part = "pair" => Pair!SignaledOnce /\ Pair!BufferExclusive

(* Nothing goes back. Every exported frame is later than the one before, across
   routes, and the daemon has been told of the very source it comes from; and
   after a shutdown no sample loads the NVIDIA library again, nor is a shutdown
   that the driver refused forgotten through any recovery. *)
NeverBack ==
    [][/\ part \in {"routes", "pair"} =>
            \A x \in rtHeld' \ rtHeld : rtS'.last > rtS.last /\ rtS'.told = x[1]
       /\ part = "nvml" =>
            /\ nvReadiness = "Stopped" => nvReadiness' = "Stopped" /\ nvDriver' = nvDriver
            /\ nvCleanup => nvCleanup']_MCVars

(* The daemon sees each OpenGL frame as it was when it was copied, in the order of
   the frames, and every native object has one owner that frees it, once the
   driver has proven that it no longer uses it (replay_export.rs). *)
GlExportSound ==
    /\ part = "gl" =>
         Gl!TypeOK /\ Gl!DaemonSeesFrame /\ Gl!ExportsInOrder /\ Gl!StorageOwned
    /\ part = "retire" => Retire!FreedWhenProven /\ Retire!StorageOwned

(* The NVIDIA library is initialised and shut down in pairs, no call is made with
   a handle of an earlier session, and a published reading is of the session that
   is open (nvidia.rs, nvml.rs). *)
NvidiaSound ==
    part = "nvml" => Nvml!TypeOK /\ Nvml!Paired /\ Nvml!NoStaleCalls /\ Nvml!ReadingsTrue
===============================================================================
