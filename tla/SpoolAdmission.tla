---------------------------- MODULE SpoolAdmission ----------------------------
(***************************************************************************)
(* Packet admission of the disk spool (crates/redunar-daemon/src/          *)
(* replay_spool.rs) at the grain of its atomics.  Encoder threads submit   *)
(* packets with try_submit, which never blocks; the worker takes commands  *)
(* from a bounded channel and closes admission when storage fails; the     *)
(* owner closes it when the spool shuts down.  What can go wrong is a      *)
(* packet that enters the channel after its last reader has drained it, a  *)
(* reservation nobody returns, and the two spinning parties waiting for    *)
(* each other.                                                             *)
(*                                                                         *)
(* close_admission stores the phase with Release and then loads the        *)
(* submitter count with Acquire.  With StoreBuffered, the store may be     *)
(* performed after that load, as the x86-64 build allows (plain moves,     *)
(* store-load reordering); without it the atomics are sequentially         *)
(* consistent.                                                             *)
(***************************************************************************)
EXTENDS Integers, Sequences, FiniteSets

CONSTANTS Submitters,      \* threads that may be inside try_submit
          Capacity,        \* COMMAND_CAPACITY
          MaxQueuedBytes,  \* MAX_QUEUED_BYTES
          Sizes,           \* payload sizes
          StoreBuffered    \* may a phase store be delayed past the next load?

ASSUME AdmissionAssumption ==
  /\ IsFiniteSet(Submitters)
  /\ Capacity \in Nat \ {0}
  /\ MaxQueuedBytes \in Nat
  /\ Sizes \subseteq Nat
  /\ StoreBuffered \in BOOLEAN

VARIABLES phase,           \* SharedStats.phase, as the other threads see it
          storeBuffer,     \* the worker's phase store not yet performed
          submitters,      \* SharedStats.active_submitters
          queuedPackets,   \* SharedStats.queued_packets
          queuedBytes,     \* SharedStats.queued_bytes
          queue,           \* the sync_channel
          connected,       \* the Receiver still exists
          pc,              \* where each thread is in try_submit
          size,            \* the packet each thread is submitting
          worker,          \* where the worker is
          owner,           \* where the owner is in shutdown
          stranded         \* history: packets lost with the channel

shared == <<submitters, queuedPackets, queuedBytes>>
vars   == <<phase, storeBuffer, shared, queue, connected, pc, size, worker,
            owner, stranded>>

PacketCommand(n) == [kind |-> "packet", size |-> n]
Control          == [kind |-> "control", size |-> 0]
ShutdownCommand  == [kind |-> "shutdown", size |-> 0]

Commands == {PacketCommand(n) : n \in Sizes} \cup {Control, ShutdownCommand}

\* Indices of the packets in the channel.
PacketsIn(q) == {i \in 1..Len(q) : q[i].kind = "packet"}

Init ==
  /\ phase = "Running"
  /\ storeBuffer = "none"
  /\ submitters = 0
  /\ queuedPackets = 0
  /\ queuedBytes = 0
  /\ queue = <<>>
  /\ connected = TRUE
  /\ pc = [s \in Submitters |-> "idle"]
  /\ size \in [Submitters -> Sizes]
  /\ worker = "recv"
  /\ owner = "running"
  /\ stranded = 0

-------------------------------------------------------------------------------
(* try_submit.  It borrows the spool, and shutdown borrows it mutably, so no *)
(* call is under way once the owner shuts the spool down.                    *)

Goto(s, from, to) == pc[s] = from /\ pc' = [pc EXCEPT ![s] = to]

\* begin_submit, first load of the phase.  Any other phase is NotRunning.
CheckPhase(s) ==
  /\ owner \in {"running", "control"}
  /\ phase = "Running"
  /\ Goto(s, "idle", "cas")
  /\ \E n \in Sizes : size' = [size EXCEPT ![s] = n]
  /\ UNCHANGED <<phase, storeBuffer, shared, queue, connected, worker, owner, stranded>>

\* The compare-exchange; a lost or spurious exchange re-reads the phase.
CountSubmitter(s) ==
  /\ \/ /\ Goto(s, "cas", "recheck")
        /\ submitters' = submitters + 1
     \/ /\ Goto(s, "cas", "cas")
        /\ phase = "Running"
        /\ UNCHANGED submitters
     \/ /\ Goto(s, "cas", "idle")
        /\ phase # "Running"
        /\ UNCHANGED submitters
  /\ UNCHANGED <<phase, storeBuffer, queuedPackets, queuedBytes, queue, connected,
                 size, worker, owner, stranded>>

\* Variant of RecheckPhase without the second look.
RecheckNothing(s) ==
  /\ Goto(s, "recheck", "reserve")
  /\ UNCHANGED <<phase, storeBuffer, shared, queue, connected, size, worker, owner,
                 stranded>>

RecheckPhase(s) ==
  /\ Goto(s, "recheck", IF phase = "Running" THEN "reserve" ELSE "leave")
  /\ UNCHANGED <<phase, storeBuffer, shared, queue, connected, size, worker, owner,
                 stranded>>

\* Variant of ReserveBytes that looks at the bound before it adds.
ReserveBytesLate(s) ==
  /\ IF queuedBytes >= MaxQueuedBytes
       THEN Goto(s, "reserve", "leave") /\ UNCHANGED queuedBytes
       ELSE Goto(s, "reserve", "count") /\ queuedBytes' = queuedBytes + size[s]
  /\ UNCHANGED <<phase, storeBuffer, submitters, queuedPackets, queue, connected, size,
                 worker, owner, stranded>>

\* reserve_queued_bytes; without room the packet is returned as QueueFull.
ReserveBytes(s) ==
  /\ IF queuedBytes + size[s] > MaxQueuedBytes
       THEN Goto(s, "reserve", "leave") /\ UNCHANGED queuedBytes
       ELSE Goto(s, "reserve", "count") /\ queuedBytes' = queuedBytes + size[s]
  /\ UNCHANGED <<phase, storeBuffer, submitters, queuedPackets, queue, connected, size,
                 worker, owner, stranded>>

CountPacket(s) ==
  /\ Goto(s, "count", "send")
  /\ queuedPackets' = queuedPackets + 1
  /\ UNCHANGED <<phase, storeBuffer, submitters, queuedBytes, queue, connected, size,
                 worker, owner, stranded>>

\* try_send: Ok, Full or Disconnected.
TrySend(s) ==
  /\ IF connected /\ Len(queue) < Capacity
       THEN Goto(s, "send", "leave") /\ queue' = Append(queue, PacketCommand(size[s]))
       ELSE Goto(s, "send", "rollback") /\ UNCHANGED queue
  /\ UNCHANGED <<phase, storeBuffer, shared, connected, size, worker, owner, stranded>>

\* Variant of UncountPacket that forgets the counter.
UncountNothing(s) ==
  /\ Goto(s, "rollback", "release")
  /\ UNCHANGED <<phase, storeBuffer, shared, queue, connected, size, worker, owner,
                 stranded>>

UncountPacket(s) ==
  /\ Goto(s, "rollback", "release")
  /\ queuedPackets' = queuedPackets - 1
  /\ UNCHANGED <<phase, storeBuffer, submitters, queuedBytes, queue, connected, size,
                 worker, owner, stranded>>

ReleaseBytes(s) ==
  /\ Goto(s, "release", "leave")
  /\ queuedBytes' = queuedBytes - size[s]
  /\ UNCHANGED <<phase, storeBuffer, submitters, queuedPackets, queue, connected, size,
                 worker, owner, stranded>>

Leave(s) ==
  /\ Goto(s, "leave", "idle")
  /\ submitters' = submitters - 1
  /\ UNCHANGED <<phase, storeBuffer, queuedPackets, queuedBytes, queue, connected, size,
                 worker, owner, stranded>>

TrySubmit(s) ==
  \/ CheckPhase(s)   \/ CountSubmitter(s) \/ RecheckPhase(s)
  \/ ReserveBytes(s) \/ CountPacket(s)    \/ TrySend(s)
  \/ UncountPacket(s) \/ ReleaseBytes(s)  \/ Leave(s)

-------------------------------------------------------------------------------
(* The worker.  A command that fails on storage closes admission and ends    *)
(* the loop; whatever is then left in the channel is drained and dropped.    *)

\* Both counters of one packet; nothing reads them together.
ReturnReservation(c) ==
  IF c.kind = "packet"
    THEN /\ queuedPackets' = queuedPackets - 1
         /\ queuedBytes' = queuedBytes - c.size
    ELSE UNCHANGED <<queuedPackets, queuedBytes>>

Receive ==
  /\ worker = "recv"
  /\ queue # <<>>
  /\ queue' = Tail(queue)
  /\ ReturnReservation(Head(queue))
  /\ IF Head(queue).kind = "shutdown"
       THEN worker' = "drain"
       ELSE worker' \in {"recv", "close"}
  /\ UNCHANGED <<phase, storeBuffer, submitters, connected, pc, size, owner, stranded>>

\* close_admission(Failed): the store ...
CloseAdmission ==
  /\ worker = "close"
  /\ worker' = "spin"
  /\ IF StoreBuffered
       THEN storeBuffer' = "Failed" /\ UNCHANGED phase
       ELSE phase' = "Failed" /\ UNCHANGED storeBuffer
  /\ UNCHANGED <<shared, queue, connected, pc, size, owner, stranded>>

PerformStore ==
  /\ storeBuffer # "none"
  /\ phase' = storeBuffer
  /\ storeBuffer' = "none"
  /\ UNCHANGED <<shared, queue, connected, pc, size, worker, owner, stranded>>

\* ... and the loop that waits for the submitters it can see.
AwaitSubmitters ==
  /\ worker = "spin"
  /\ submitters = 0
  /\ worker' = "drain"
  /\ UNCHANGED <<phase, storeBuffer, shared, queue, connected, pc, size, owner, stranded>>

\* drain_pending_packets.  Taking from the channel is a locked operation, so
\* an earlier store of this thread has been performed by then.
Drain ==
  /\ worker = "drain"
  /\ storeBuffer = "none"
  /\ IF queue = <<>>
       THEN worker' = "drained" /\ UNCHANGED <<queue, queuedPackets, queuedBytes>>
       ELSE /\ queue' = Tail(queue)
            /\ ReturnReservation(Head(queue))
            /\ UNCHANGED worker
  /\ UNCHANGED <<phase, storeBuffer, submitters, connected, pc, size, owner, stranded>>

\* The worker returns and its closure drops the Receiver with all it holds.
DropReceiver ==
  /\ worker = "drained"
  /\ worker' = "gone"
  /\ connected' = FALSE
  /\ queue' = <<>>
  /\ stranded' = stranded + Cardinality(PacketsIn(queue))
  /\ UNCHANGED <<phase, storeBuffer, shared, pc, size, owner>>

Worker == Receive \/ CloseAdmission \/ AwaitSubmitters \/ Drain \/ DropReceiver

-------------------------------------------------------------------------------
(* The owner: snapshot and reset requests, which bypass admission, and the   *)
(* shutdown of the spool.                                                    *)

\* reset_epoch and save_async look at the phase first ...
BeginControl ==
  /\ owner = "running"
  /\ phase = "Running"
  /\ owner' = "control"
  /\ UNCHANGED <<phase, storeBuffer, shared, queue, connected, pc, size, worker, stranded>>

\* ... and may meet a worker that stopped meanwhile.  reset_epoch waits for
\* room in the channel, save_async gives up without it.
SendControl ==
  /\ owner = "control"
  /\ \/ connected /\ Len(queue) < Capacity /\ queue' = Append(queue, Control)
     \/ (~connected \/ Len(queue) = Capacity) /\ UNCHANGED queue
  /\ owner' = "running"
  /\ UNCHANGED <<phase, storeBuffer, shared, connected, pc, size, worker, stranded>>

\* shutdown: close_admission(Shutdown).  The exclusive borrow of the spool
\* leaves no submitter that could miss the store.
BeginShutdown ==
  /\ owner = "running"
  /\ \A s \in Submitters : pc[s] = "idle"
  /\ phase' = "Shutdown"
  /\ owner' = "send"
  /\ UNCHANGED <<storeBuffer, shared, queue, connected, pc, size, worker, stranded>>

\* Variant of SendShutdown that keeps trying when the Receiver is gone.
SendShutdownRetrying ==
  /\ owner = "send"
  /\ submitters = 0
  /\ connected /\ Len(queue) < Capacity
  /\ queue' = Append(queue, ShutdownCommand)
  /\ owner' = "join"
  /\ UNCHANGED <<phase, storeBuffer, shared, connected, pc, size, worker, stranded>>

\* Spin on the submitters, then a blocking send: it waits for room, or fails
\* once the Receiver is gone.
SendShutdown ==
  /\ owner = "send"
  /\ submitters = 0
  /\ \/ connected /\ Len(queue) < Capacity /\ queue' = Append(queue, ShutdownCommand)
     \/ ~connected /\ UNCHANGED queue
  /\ owner' = "join"
  /\ UNCHANGED <<phase, storeBuffer, shared, connected, pc, size, worker, stranded>>

Join ==
  /\ owner = "join"
  /\ worker = "gone"
  /\ owner' = "done"
  /\ UNCHANGED <<phase, storeBuffer, shared, queue, connected, pc, size, worker, stranded>>

Next ==
  \/ \E s \in Submitters : TrySubmit(s)
  \/ Receive
  \/ CloseAdmission
  \/ PerformStore
  \/ AwaitSubmitters
  \/ Drain
  \/ DropReceiver
  \/ BeginControl
  \/ SendControl
  \/ BeginShutdown
  \/ SendShutdown
  \/ Join

Spec == Init /\ [][Next]_vars

(* Every thread the code starts keeps running: the worker and the owner once *)
(* shutdown began, the caller of try_submit through to its return, and the   *)
(* store buffer.  Nobody is obliged to submit or to shut down.  A caller in  *)
(* the exchange loop gets through eventually.                                *)
Fairness ==
  /\ WF_vars(Worker)
  /\ WF_vars(PerformStore)
  /\ WF_vars(SendControl \/ SendShutdown \/ Join)
  /\ \A s \in Submitters : /\ WF_vars(pc[s] # "idle" /\ TrySubmit(s))
                           /\ SF_vars(CountSubmitter(s) /\ pc'[s] # "cas")

FairSpec == Spec /\ Fairness

-------------------------------------------------------------------------------
Counted == {"recheck", "reserve", "count", "send", "rollback", "release", "leave"}

\* The threads at one of the places P of try_submit.
At(P) == {s \in Submitters : pc[s] \in P}

TypeOK ==
  /\ phase \in {"Running", "Failed", "Shutdown"}
  /\ storeBuffer \in {"none", "Failed"}
  /\ submitters \in Nat
  /\ queuedPackets \in Nat
  /\ queuedBytes \in Int
  /\ queue \in Seq(Commands)
  /\ connected \in BOOLEAN
  /\ pc \in [Submitters -> Counted \cup {"idle", "cas"}]
  /\ size \in [Submitters -> Sizes]
  /\ worker \in {"recv", "close", "spin", "drain", "drained", "gone"}
  /\ owner \in {"running", "control", "send", "join", "done"}
  /\ stranded \in Nat

(* The packet counter is exact at every moment: each unit is a packet in the
   channel, one a thread counted and has not yet sent or taken back, or one
   lost with the channel (try_submit's rollbacks, the worker's and the drain's
   fetch_sub).  It never wraps below zero, and the submitter counter that
   close_admission spins on counts exactly the threads inside try_submit. *)
PacketAccounting ==
  /\ submitters = Cardinality(At(Counted))
  /\ queuedPackets = Cardinality(PacketsIn(queue))
                       + Cardinality(At({"send", "rollback"})) + stranded

(* "The queue retains at most 64 packet commands and 32 MiB of encoded
   payload" (ReplaySegmentSpool): both bounds hold with any number of threads
   racing for the last slot and the last bytes. *)
QueueBounded ==
  /\ Len(queue) <= Capacity
  /\ queuedBytes \in 0..MaxQueuedBytes

(* "The worker drains any packet left behind the command, while a disconnected
   send releases its own reservation" (ReplaySegmentSpool::shutdown): a stopped
   worker leaves no packet behind that was reported as accepted. *)
NothingStranded == stranded = 0

(* A spool that was asked to stop has joined its worker eventually, and a
   worker that failed ends: the spinning close_admission, the blocking send of
   the terminal command and the submitters never wait for each other. *)
ShutdownCompletes ==
  /\ owner = "send" ~> owner = "done"
  /\ worker = "close" ~> worker = "gone"
===============================================================================
