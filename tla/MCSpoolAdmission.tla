-------------------------- MODULE MCSpoolAdmission --------------------------
(***************************************************************************)
(* SpoolAdmission for TLC, with the encoders and the sound that feed the   *)
(* history: the spool as the configuration sets it ("admission"; one       *)
(* submitter is what the daemon runs today, its pipeline being behind a    *)
(* mutex, more are what the signature of try_submit allows) and with a     *)
(* phase store that may be delayed ("buffered"), the Vulkan video device   *)
(* (EncoderDevice), the frames in it (VideoEncoder, with every fault in    *)
(* "encoder", with reallocated buffers in "cache"), and the capture of     *)
(* sound (AudioCapture, of the game and of the microphone). A behaviour    *)
(* runs one part; the others keep their initial state.                     *)
(***************************************************************************)
EXTENDS SpoolAdmission

CONSTANTS Parts, s1, s2, None, speakers, headset, b1, b2, b3

VARIABLES part, bPhase, bStoreBuffer, bSubmitters, bQueuedPackets, bQueuedBytes, bQueue,
          bConnected, bPc, bSize, bWorker, bOwner, bStranded, devPhase, devRequest,
          devProbed, devIndex, devOpened, devNext, devLive, devDoomed, devLayered, devTwice,
          encState, encEnc, encPending, encSubmitted, encFence, encCompute, encVideo,
          encDpb, encIdle, encBackend, encPool, encSent, encReleased, encUnits, encWrong,
          encOpens, encReallocs, audAt, audAttempt, audSource, audReceived, audRecorders,
          audWhy, audRoutes, audWatcher, audSeen, audStop, audRecorder, audDefault,
          audBroken, audSwitches, audFaults

\* Two usable GPUs that come, go, swap places or report one identity twice.
Gpus == {<<>>, <<"amd">>, <<"amd", "geforce">>, <<"geforce", "amd">>, <<"amd", "amd">>,
         <<"other", "amd2", "amd">>}

bVars ==
    <<bPhase, bStoreBuffer, bSubmitters, bQueuedPackets, bQueuedBytes, bQueue, bConnected,
      bPc, bSize, bWorker, bOwner, bStranded>>
devVars ==
    <<devPhase, devRequest, devProbed, devIndex, devOpened, devNext, devLive, devDoomed,
      devLayered, devTwice>>
encVars ==
    <<encState, encEnc, encPending, encSubmitted, encFence, encCompute, encVideo, encDpb,
      encIdle, encBackend, encPool, encSent, encReleased, encUnits, encWrong, encOpens,
      encReallocs>>
audVars ==
    <<audAt, audAttempt, audSource, audReceived, audRecorders, audWhy, audRoutes,
      audWatcher, audSeen, audStop, audRecorder, audDefault, audBroken, audSwitches,
      audFaults>>

Buffered ==
    INSTANCE SpoolAdmission WITH
        Submitters <- {s1, s2}, MaxQueuedBytes <- 3, Sizes <- {1, 2}, StoreBuffered <- TRUE,
        phase <- bPhase, storeBuffer <- bStoreBuffer, submitters <- bSubmitters,
        queuedPackets <- bQueuedPackets, queuedBytes <- bQueuedBytes, queue <- bQueue,
        connected <- bConnected, pc <- bPc, size <- bSize, worker <- bWorker,
        owner <- bOwner, stranded <- bStranded

Device ==
    INSTANCE EncoderDevice WITH
        Enumerations <- Gpus, Nvidia <- {"geforce"}, Foreign <- {"other"},
        Lacks <- {<<"amd2", "queues">>}, Sources <- {"none", "amd", "geforce", "other"},
        SlotCount <- 3, DpbCount <- 2,
        phase <- devPhase, request <- devRequest, probed <- devProbed, index <- devIndex,
        opened <- devOpened, next <- devNext, live <- devLive, doomed <- devDoomed,
        layered <- devLayered, twice <- devTwice

Encoder ==
    INSTANCE VideoEncoder WITH
        SlotCount <- 2, DpbCount <- 2, GopLength <- 2, MaxImports <- 3,
        Inodes <- {b1, b2, b3}, MaxFrames <- 4, MaxOpens <- 2, MaxReallocs <- 0,
        Faults <- {"hang", "query", "reset", "import", "record", "fences", "compute", "encode", "packet", "source"},
        state <- encState, enc <- encEnc, pending <- encPending, submitted <- encSubmitted,
        fence <- encFence, compute <- encCompute, video <- encVideo, dpb <- encDpb,
        idle <- encIdle, backend <- encBackend, pool <- encPool, sent <- encSent,
        released <- encReleased, units <- encUnits, wrong <- encWrong, opens <- encOpens,
        reallocs <- encReallocs

Cache ==
    INSTANCE VideoEncoder WITH
        SlotCount <- 2, DpbCount <- 2, GopLength <- 2, MaxImports <- 2,
        Inodes <- {b1, b2, b3}, MaxFrames <- 5, MaxOpens <- 1, MaxReallocs <- 1,
        Faults <- {"pin"},
        state <- encState, enc <- encEnc, pending <- encPending, submitted <- encSubmitted,
        fence <- encFence, compute <- encCompute, video <- encVideo, dpb <- encDpb,
        idle <- encIdle, backend <- encBackend, pool <- encPool, sent <- encSent,
        released <- encReleased, units <- encUnits, wrong <- encWrong, opens <- encOpens,
        reallocs <- encReallocs

Sound ==
    INSTANCE AudioCapture WITH
        Kind <- "game", Devices <- {speakers, headset}, MayOmit <- TRUE, MaxSwitches <- 2,
        MaxFaults <- 1,
        at <- audAt, attempt <- audAttempt, source <- audSource, received <- audReceived,
        recorders <- audRecorders, why <- audWhy, routes <- audRoutes,
        watcher <- audWatcher, seen <- audSeen, stop <- audStop, recorder <- audRecorder,
        default <- audDefault, broken <- audBroken, switches <- audSwitches,
        faults <- audFaults

Voice ==
    INSTANCE AudioCapture WITH
        Kind <- "microphone", Devices <- {speakers, headset}, MayOmit <- FALSE,
        MaxSwitches <- 1, MaxFaults <- 2,
        at <- audAt, attempt <- audAttempt, source <- audSource, received <- audReceived,
        recorders <- audRecorders, why <- audWhy, routes <- audRoutes,
        watcher <- audWatcher, seen <- audSeen, stop <- audStop, recorder <- audRecorder,
        default <- audDefault, broken <- audBroken, switches <- audSwitches,
        faults <- audFaults

MCInit ==
    /\ part \in Parts
    /\ Init
    /\ \/ part = "buffered" /\ Buffered!Init
       \/ part # "buffered" /\ Buffered!Init /\ bSize = [s \in {s1, s2} |-> 1]
    /\ Device!Init
    /\ \/ part = "encoder" /\ Encoder!Init
       \/ part = "cache" /\ Cache!Init
       \/ part \notin {"encoder", "cache"} /\ Encoder!Init
    /\ \/ part = "sound" /\ Sound!Init
       \/ part = "voice" /\ Voice!Init
       \/ part \notin {"sound", "voice"} /\ Sound!Init /\ audDefault = speakers

MCNext ==
    \/ part = "admission" /\ Next /\ UNCHANGED <<part, bVars, devVars, encVars, audVars>>
    \/ part = "buffered" /\ Buffered!Next /\ UNCHANGED <<part, vars, devVars, encVars, audVars>>
    \/ part = "device" /\ Device!Next /\ UNCHANGED <<part, vars, bVars, encVars, audVars>>
    \/ part = "encoder" /\ Encoder!Next /\ UNCHANGED <<part, vars, bVars, devVars, audVars>>
    \/ part = "cache" /\ Cache!Next /\ UNCHANGED <<part, vars, bVars, devVars, audVars>>
    \/ part = "sound" /\ Sound!Next /\ UNCHANGED <<part, vars, bVars, devVars, encVars>>
    \/ part = "voice" /\ Voice!Next /\ UNCHANGED <<part, vars, bVars, devVars, encVars>>

MCVars == <<part, vars, bVars, devVars, encVars, audVars>>
MCSpec == MCInit /\ [][MCNext]_MCVars

(* Fairness of SpoolAdmission and of AudioCapture, for the part that runs. *)
MCFairSpec ==
    /\ MCSpec
    /\ WF_vars(part = "admission" /\ Worker)
    /\ WF_vars(part = "admission" /\ PerformStore)
    /\ WF_vars(part = "admission" /\ (SendControl \/ SendShutdown \/ Join))
    /\ \A s \in Submitters :
         /\ WF_vars(part = "admission" /\ pc[s] # "idle" /\ TrySubmit(s))
         /\ SF_vars(part = "admission" /\ CountSubmitter(s) /\ pc'[s] # "cas")
    /\ WF_audVars(part = "sound" /\ (Sound!Discover \/ Sound!Start \/ Sound!Resume
                                     \/ Sound!Leave \/ Sound!Join))
    /\ WF_audVars(part = "sound" /\ (Sound!Packet \/ Sound!Failed))
    /\ WF_audVars(part = "sound" /\ Sound!WatcherStep)

-------------------------------------------------------------------------------
(* With a delayed store the counters stay exact and both bounds of the queue hold
   (try_submit's rollbacks and the worker's releases); what the delay does break
   is another matter, see the run spool_admission_tso. *)
BufferedAccounting ==
    part = "buffered" => Buffered!TypeOK /\ Buffered!PacketAccounting /\ Buffered!QueueBounded

(* Every Vulkan object is destroyed once, and before the one it was made from. *)
DeviceUnwinds ==
    [][\A o \in devLive' : Device!Needs(o) \cap devLive \subseteq devLive']_devVars

(* A video encoder is opened on the GPU that was probed and holds the frames,
   also when GPUs come and go between the two, and a creation that fails leaves no
   object behind. Then a buffer that was given back is not read by the GPU any
   more, imports are live while used, released once, and of the buffer's present
   contents; pictures leave in order and their references are intact (create,
   submit, drain and reset of vulkan_video). *)
EncoderSound ==
    /\ part = "device" => Device!TypeOK /\ Device!RightDevice /\ Device!NothingLeft
    /\ part = "encoder" =>
         /\ Encoder!TypeOK /\ Encoder!ReleasedNotRead /\ Encoder!LiveWhileUsed
         /\ Encoder!ImportsBalanced
    /\ part = "cache" =>
         /\ Cache!ReferencesIntact /\ Cache!InOrder /\ Cache!ImportsBounded
         /\ Cache!FreshImport

(* At most one recorder process per capture runs, and it is reaped before the
   next one starts (run_capture, the recorder's Drop). *)
OneRecorderEach ==
    /\ part = "sound" => Sound!TypeOK /\ Sound!OneRecorder
    /\ part = "voice" => Voice!TypeOK /\ Voice!OneRecorder

(* Sound is captured from the device that is the default, again after every
   switch and failure, until the session stops, and then both threads end
   (run_capture, its route watcher and its retries). *)
SoundFollows == part = "sound" => Sound!FollowsDefault /\ Sound!StopEnds
===============================================================================
