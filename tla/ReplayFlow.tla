------------------------------ MODULE ReplayFlow ------------------------------
(***************************************************************************)
(* ReplayPacketFlow (crates/redunar-daemon/src/replay_encoder.rs): the     *)
(* bridge from encoder batches into the ring, with the codec-epoch         *)
(* lifecycle around it.  The hazard is the ring at its limits: three       *)
(* budgets, eviction that must stop at a keyframe, batches that overflow   *)
(* half-way, and resets, with counters that must still add up.             *)
(***************************************************************************)
EXTENDS ReplayRing

CONSTANTS MaxTs,        \* bound: timestamps of one epoch
          MaxBatch,     \* bound: packets the encoder returns at once
          MaxPushed,    \* bound: packets offered in the whole behaviour
          Sizes, Durations

VARIABLES phase,        \* ReplayPacketFlowPhase
          ring,
          pushed,       \* history: packets the ring took in this epoch
          offered       \* history: packets of all epochs the ring took, and
                        \* the bytes of those it stored

vars == <<phase, ring, pushed, offered>>

Packets == [ts : 0..MaxTs, dur : Durations, key : BOOLEAN, size : Sizes]

Batches == {b \in UNION {[1..n -> Packets] : n \in 1..MaxBatch} : IsBatch(b)}

Init ==
  /\ phase = "Running"
  /\ ring = EmptyRing
  /\ pushed = <<>>
  /\ offered = [packets |-> 0, bytes |-> 0]

\* fail_closed: the epoch is discarded.
FailClosed(r) ==
  /\ phase' = "Failed"
  /\ ring' = ResetEpoch(r)
  /\ pushed' = <<>>

\* push_batch: a rejected packet ends the epoch; the packets before it were
\* taken and stay in the counters.
PushEncoded(b) ==
  LET result == PushBatch(ring, b)
      taken  == Len(result.outcomes) - (IF result.failed THEN 1 ELSE 0)
  IN  /\ phase = "Running"
      /\ offered.packets + Len(b) <= MaxPushed
      /\ offered' = [packets |-> offered.packets + taken,
                     bytes   |-> offered.bytes
                                   + SumFunction([i \in 1..taken |->
                                       IF result.outcomes[i] = "stored" THEN b[i].size ELSE 0])]
      /\ IF result.failed
           THEN FailClosed(result.ring)
           ELSE /\ ring' = result.ring
                /\ pushed' = pushed \o b
                /\ UNCHANGED phase

\* A packet that fails validate_packet ends the epoch before any push.
PushMalformed ==
  /\ phase = "Running"
  /\ FailClosed(ring)
  /\ UNCHANGED offered

BeginReset ==
  /\ phase = "Running"
  /\ phase' = "ResetRequired"
  /\ ring' = ResetEpoch(ring)
  /\ pushed' = <<>>
  /\ UNCHANGED offered

CompleteReset ==
  /\ phase = "ResetRequired"
  /\ phase' = "Running"
  /\ UNCHANGED <<ring, pushed, offered>>

Fail ==
  /\ phase \in {"Running", "ResetRequired"}
  /\ FailClosed(ring)
  /\ UNCHANGED offered

Shutdown ==
  /\ phase # "Shutdown"
  /\ phase' = "Shutdown"
  /\ ring' = ResetEpoch(ring)
  /\ pushed' = <<>>
  /\ UNCHANGED offered

Next ==
  \/ \E b \in Batches : PushEncoded(b)
  \/ PushMalformed
  \/ BeginReset
  \/ CompleteReset
  \/ Fail
  \/ Shutdown

Spec == Init /\ [][Next]_vars

-------------------------------------------------------------------------------
\* State shape.
TypeOK ==
  /\ phase \in {"Running", "ResetRequired", "Failed", "Shutdown"}
  /\ ring.packets \in Seq(Packets)
  /\ ring.last \in {NoTimestamp} \cup 0..MaxTs
  /\ {ring.bytes, ring.evicted, ring.evictedBytes, ring.awaiting} \subseteq Nat
  /\ pushed \in Seq(Packets)

Fits(s) ==
  /\ Len(s) <= PacketLimit
  /\ BytesOf(s) <= ByteLimit
  /\ SpanOf(s) <= DurationLimit

\* A starting point of the epoch is good when it is a keyframe and the history
\* from there on has kept within all budgets after every single packet.
GoodStarts ==
  {i \in 1..Len(pushed) :
     /\ pushed[i].key
     /\ \A j \in i..Len(pushed) : Fits(SubSeq(pushed, i, j))}

(* The ring retains exactly the packets of the epoch from the earliest good
   starting point on: nothing decodable that fits is lost to eviction, the
   retained run has no hole, starts at a keyframe and is within all three
   budgets (replay_ring.rs push, "every non-empty snapshot begins at a
   decodable boundary"). *)
RetainsLongestRun ==
  ring.packets = IF GoodStarts = {} THEN <<>>
                 ELSE SubSeq(pushed, Min(GoodStarts), Len(pushed))

(* Over all epochs, every packet and every byte the ring took is retained,
   counted as evicted, or counted as dropped awaiting a keyframe, exactly once
   (push, evict_front, reset_epoch: "cumulative eviction diagnostics remain
   accurate"). *)
CountersConserve ==
  /\ ring.evicted + Len(ring.packets) + ring.awaiting = offered.packets
  /\ ring.evictedBytes + ring.bytes = offered.bytes
  /\ ring.bytes = BytesOf(ring.packets)
===============================================================================
