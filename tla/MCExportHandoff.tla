--------------------------- MODULE MCExportHandoff ---------------------------
(***************************************************************************)
(* ExportHandoff and the two other ways frames reach the daemon, for TLC.  *)
(* Three instances share its variables: "lease" is the module as the       *)
(* configuration sets it, two producers, one buffer each and saves that    *)
(* may fail; "export" has two buffers; "restart" has one producer with     *)
(* more frames, buffers and devices. The producers' frame and device       *)
(* messages (FrameStream, with recreated devices in "devices") and the     *)
(* scanout capture (KmsCapture) have variables of their own. A behaviour   *)
(* runs one part; the others keep their initial state.                     *)
(***************************************************************************)
EXTENDS ExportHandoff, TLC

CONSTANTS Parts

VARIABLES part, frmProd, frmTaken, frmSocket, frmModel, frmCounted, frmReceiver, frmStop,
          frmEnding, frmWaiting, kmsClock, kmsChanges, kmsOutput, kmsCrtc, kmsPlane,
          kmsSource, kmsDiagnostic, kmsEncoder, kmsFrames, kmsHandles

frmVars ==
    <<frmProd, frmTaken, frmSocket, frmModel, frmCounted, frmReceiver, frmStop, frmEnding,
      frmWaiting>>
kmsVars ==
    <<kmsClock, kmsChanges, kmsOutput, kmsCrtc, kmsPlane, kmsSource, kmsDiagnostic,
      kmsEncoder, kmsFrames, kmsHandles>>

Restart ==
    INSTANCE ExportHandoff WITH
        Producers <- {"p"}, MaxWire <- 4, MaxDevices <- 2, Slots <- 3, QueueCapacity <- 2,
        RouteCapacity <- 4, Confirmations <- 2

Exports ==
    INSTANCE ExportHandoff WITH
        Slots <- 2, SaveFails <- FALSE, MaxFaults <- 0

Frames ==
    INSTANCE FrameStream WITH
        Process <- {1}, Threads <- 2, Capacity <- 2, Batch <- 2, MaxSources <- 1,
        MaxFrames <- 3, MaxDevices <- 1, MaxNotices <- 2, Supervised <- TRUE,
        prod <- frmProd, taken <- frmTaken, socket <- frmSocket, model <- frmModel,
        counted <- frmCounted, receiver <- frmReceiver, stop <- frmStop,
        ending <- frmEnding, waiting <- frmWaiting

Devices ==
    INSTANCE FrameStream WITH
        Process <- {1}, Threads <- 1, Capacity <- 20, Batch <- 2, MaxSources <- 1,
        MaxFrames <- 3, MaxDevices <- 2, MaxNotices <- 1, Supervised <- FALSE,
        prod <- frmProd, taken <- frmTaken, socket <- frmSocket, model <- frmModel,
        counted <- frmCounted, receiver <- frmReceiver, stop <- frmStop,
        ending <- frmEnding, waiting <- frmWaiting

Kms ==
    INSTANCE KmsCapture WITH
        Outputs <- {"o1", "o2"}, Crtcs <- {"c1", "c2"}, Planes <- {"p1"},
        Sizes <- {"hd", "qhd"}, Supported <- {"hd"}, Duration <- 2, Minimum <- 3,
        Maximum <- 3, Patience <- 4, MaxTime <- 4, MaxChanges <- 1,
        clock <- kmsClock, changes <- kmsChanges, output <- kmsOutput, crtc <- kmsCrtc,
        plane <- kmsPlane, source <- kmsSource, diagnostic <- kmsDiagnostic,
        encoder <- kmsEncoder, frames <- kmsFrames, handles <- kmsHandles

MCInit ==
    /\ part \in Parts
    /\ IF part = "restart" THEN Restart!Init ELSE Init
    /\ Frames!Init
    /\ \/ part = "kms" /\ Kms!Init
       \/ part # "kms" /\ Kms!Init /\ kmsPlane["p1"].crtc = "c1"
          /\ \A o \in DOMAIN kmsOutput : ~kmsOutput[o].connected

MCNext ==
    \/ part = "lease" /\ Next /\ UNCHANGED <<part, frmVars, kmsVars>>
    \/ part = "restart" /\ Restart!Next /\ UNCHANGED <<part, frmVars, kmsVars>>
    \/ part = "export" /\ Exports!Next /\ UNCHANGED <<part, frmVars, kmsVars>>
    \/ part = "frames" /\ Frames!Next /\ UNCHANGED <<part, vars, kmsVars>>
    \/ part = "devices" /\ Devices!Next /\ UNCHANGED <<part, vars, kmsVars>>
    \/ part = "kms" /\ Kms!Next /\ UNCHANGED <<part, vars, frmVars>>

MCVars == <<part, vars, frmVars, kmsVars>>
MCSpec == MCInit /\ [][MCNext]_MCVars

\* Producers are interchangeable.
Symmetric == Permutations(Producers)

-------------------------------------------------------------------------------
(* Without faults no lease is lost while the pump runs; and across recreated
   devices and restarted captures a producer waits only for buffers the daemon
   knows it owes, and its next frame is never refused for want of a route
   (receiver_loop, register). *)
RestartKept ==
    /\ part = "export" => Exports!TypeOK /\ Exports!NoLeaseLost
    /\ part = "restart" => Restart!NoSlotStranded /\ Restart!RegisterAccepts

(* What the daemon says of a producer's frames and devices is true: every frame
   it counts was presented, none that was sent is missing without a gap being
   counted, and readiness is that of the present device. *)
FramesTrue ==
    /\ part = "frames" =>
         /\ Frames!TypeOK /\ Frames!FramesReal /\ Frames!CountsComplete
         /\ Frames!ReadinessCurrent
    /\ part = "devices" => Devices!RecreationHeard

(* Scanout frames never come in a burst after a stall, one recording has one
   size, and the diagnostic's verdict is that of all its samples. *)
KmsSound == part = "kms" => Kms!TypeOK /\ Kms!NoBurst /\ Kms!OneSize /\ Kms!VerdictTrue
===============================================================================
