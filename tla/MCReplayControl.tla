--------------------------- MODULE MCReplayControl ---------------------------
(***************************************************************************)
(* ReplayControl for TLC, with the overlays that show its menu in the      *)
(* game: the renderer of the Vulkan overlay (OverlayRenderer), the         *)
(* telemetry block it reads ("telemetry": many revisions, "torn": failing  *)
(* writes), and the OpenGL overlay ("gl": contexts destroyed and           *)
(* returning, "pictures": windows of two sizes). A behaviour runs one      *)
(* part; the others keep their initial state.                              *)
(***************************************************************************)
EXTENDS ReplayControl

CONSTANTS Parts

VARIABLES part, drKnown, drRes, drCtx, drPlan, drGen, drImg, drSem, drOwner, drBusy,
          tmRevision, tmConfig, tmSaved, tmWriter, tmFile, tmReader, tmShown, tmNotices,
          tmLog, tmAgreed, glClock, glWrites, glFrames, glFaults, glFile, glState, glView,
          glTarget, glGen, glAlive, glFrame, glCache, glEntries, glDrawing, glLast,
          glActiveReported, glErrorReported, glStatus, glEnded

drVars ==
    <<drKnown, drRes, drCtx, drPlan, drGen, drImg, drSem, drOwner, drBusy>>
tmVars ==
    <<tmRevision, tmConfig, tmSaved, tmWriter, tmFile, tmReader, tmShown, tmNotices, tmLog,
      tmAgreed>>
glVars ==
    <<glClock, glWrites, glFrames, glFaults, glFile, glState, glView, glTarget, glGen,
      glAlive, glFrame, glCache, glEntries, glDrawing, glLast, glActiveReported,
      glErrorReported, glStatus, glEnded>>

Renderer ==
    INSTANCE OverlayRenderer WITH
        Handle <- {1, 2}, Image <- {1}, Context <- {1, 2}, MaxSwapchains <- 2,
        MaxGeneration <- 2, MaxRevision <- 3,
        Faults <- {"create", "record", "submit", "lock"},
        known <- drKnown, res <- drRes, ctx <- drCtx, plan <- drPlan, gen <- drGen,
        img <- drImg, sem <- drSem, owner <- drOwner, busy <- drBusy

Telemetry ==
    INSTANCE OverlayTelemetry WITH
        MaxRevision <- 6, NoticeRange <- 3, Faults <- {},
        revision <- tmRevision, config <- tmConfig, saved <- tmSaved, writer <- tmWriter,
        file <- tmFile, reader <- tmReader, shown <- tmShown, notices <- tmNotices,
        log <- tmLog, agreed <- tmAgreed

Torn ==
    INSTANCE OverlayTelemetry WITH
        MaxRevision <- 5, NoticeRange <- 4, Faults <- {"write"},
        revision <- tmRevision, config <- tmConfig, saved <- tmSaved, writer <- tmWriter,
        file <- tmFile, reader <- tmReader, shown <- tmShown, notices <- tmNotices,
        log <- tmLog, agreed <- tmAgreed

Gl ==
    INSTANCE GlOverlay WITH
        Contexts <- {1, 2}, Egl <- FALSE, MaxContexts <- 1, HardwareEvery <- 2,
        MenuEvery <- 1, NoticeFor <- 2, MaxTime <- 2, MaxWrites <- 1, MaxFrames <- 3,
        MaxGenerations <- 2, MaxFaults <- 1,
        clock <- glClock, writes <- glWrites, frames <- glFrames, faults <- glFaults,
        file <- glFile, state <- glState, view <- glView, target <- glTarget, gen <- glGen,
        alive <- glAlive, frame <- glFrame, cache <- glCache, entries <- glEntries,
        drawing <- glDrawing, last <- glLast, activeReported <- glActiveReported,
        errorReported <- glErrorReported, status <- glStatus, ended <- glEnded

Pictures ==
    INSTANCE GlOverlay WITH
        Contexts <- {1, 2}, Egl <- FALSE, MaxContexts <- 2, HardwareEvery <- 2,
        MenuEvery <- 1, NoticeFor <- 2, MaxTime <- 3, MaxWrites <- 1, MaxFrames <- 3,
        MaxGenerations <- 1, MaxFaults <- 0,
        clock <- glClock, writes <- glWrites, frames <- glFrames, faults <- glFaults,
        file <- glFile, state <- glState, view <- glView, target <- glTarget, gen <- glGen,
        alive <- glAlive, frame <- glFrame, cache <- glCache, entries <- glEntries,
        drawing <- glDrawing, last <- glLast, activeReported <- glActiveReported,
        errorReported <- glErrorReported, status <- glStatus, ended <- glEnded

MCInit ==
    /\ part \in Parts
    /\ Init
    /\ Renderer!Init
    /\ Telemetry!Init
    /\ Gl!Init

MCNext ==
    \/ part = "control" /\ Next /\ UNCHANGED <<part, drVars, tmVars, glVars>>
    \/ part = "renderer" /\ Renderer!Next /\ UNCHANGED <<part, vars, tmVars, glVars>>
    \/ part = "telemetry" /\ Telemetry!Next /\ UNCHANGED <<part, vars, drVars, glVars>>
    \/ part = "torn" /\ Torn!Next /\ UNCHANGED <<part, vars, drVars, glVars>>
    \/ part = "gl" /\ Gl!Next /\ UNCHANGED <<part, vars, drVars, tmVars>>
    \/ part = "pictures" /\ Pictures!Next /\ UNCHANGED <<part, vars, drVars, tmVars>>

MCVars == <<part, vars, drVars, tmVars, glVars>>
MCSpec == MCInit /\ [][MCNext]_MCVars

(* Fairness of ReplayControl, for the part that runs. *)
MCFairSpec ==
    /\ MCSpec
    /\ WF_vars(part = "control" /\ Ping) /\ WF_vars(part = "control" /\ SaveAfterClose)
    /\ WF_vars(part = "control" /\ HelperAnswered)
    /\ WF_vars(/\ part = "control"
               /\ Accept \/ Read \/ Watch \/ Apply \/ Snapshot \/ Write \/ Reply)
    /\ WF_vars(part = "control" /\ (UiSnapshot \/ UiWrites))
    /\ WF_vars(part = "control" /\ Presented)

-------------------------------------------------------------------------------
(* What the overlays draw in the game is what they were given. Vulkan: a semaphore
   is signalled once per wait, and what executes draws into frame buffers that
   exist, of the images it was submitted for, also when a handle returns.
   The telemetry block: whole states only are accepted, none is rolled back, and
   each save is announced once, across the wrap of the notice counter. OpenGL: the
   objects are those of the current context, and each window gets its own newest
   picture. *)
OverlaysSound ==
    /\ part = "renderer" => Renderer!TypeOK /\ Renderer!SignaledOnce /\ Renderer!DrawsIntoLive
    /\ part = "telemetry" =>
         Telemetry!TypeOK /\ Telemetry!NothingRolledBack /\ Telemetry!AnnouncedOnce
    /\ part = "torn" => Torn!AcceptedWhole
    /\ part = "gl" => Gl!TypeOK /\ Gl!NoStaleObjects
    /\ part = "pictures" => Pictures!PictureCurrent

(* What the Vulkan overlay submits shows the current plan: a cached command buffer
   is not submitted again after the plan has changed. *)
ShowsCurrentPlan == Renderer!ShowsCurrentPlan
===============================================================================
