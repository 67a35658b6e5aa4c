------------------------------ MODULE ReplayRing ------------------------------
(***************************************************************************)
(* The fixed-budget history of encoded packets that the daemon keeps in    *)
(* memory (crates/redunar-daemon/src/replay_ring.rs), as operators on a    *)
(* ring record, and the batch entry point through which the encoder feeds  *)
(* it (ReplayPacketFlow::push_batch in replay_encoder.rs).                 *)
(*                                                                         *)
(* A packet is [ts, dur, key, size]: payload bytes are abstracted to their *)
(* number, and times are in model ticks instead of nanoseconds.            *)
(***************************************************************************)
EXTENDS Integers, Sequences, SequencesExt

CONSTANTS PacketLimit,     \* budget.frame_capacity
          ByteLimit,       \* budget.maximum_ring_bytes, capped at 256 MiB
          DurationLimit    \* selected duration

\* ReplayRing::new clamps the packet and the byte budget to at least one.
ASSUME RingLimits == /\ PacketLimit \in Nat \ {0}
                     /\ ByteLimit \in Nat \ {0}
                     /\ DurationLimit \in Nat \ {0}

\* last_timestamp_ns = None.
NoTimestamp == -1

EndOf(p) == p.ts + p.dur

BytesOf(s) == FoldLeft(LAMBDA sum, p : sum + p.size, 0, s)

\* Time covered from the start of the first packet to the end of the last.
SpanOf(s) == IF s = <<>> THEN 0 ELSE EndOf(Last(s)) - Head(s).ts

EmptyRing == [packets |-> <<>>, last |-> NoTimestamp, bytes |-> 0,
              evicted |-> 0, evictedBytes |-> 0, awaiting |-> 0]

-------------------------------------------------------------------------------

\* evict_front, applied until the packet at index i is the front.
EvictTo(r, i) ==
  LET gone == SubSeq(r.packets, 1, i - 1)
  IN  [r EXCEPT !.packets      = SubSeq(@, i, Len(@)),
                !.bytes        = @ - BytesOf(gone),
                !.evicted      = @ + Len(gone),
                !.evictedBytes = @ + BytesOf(gone)]

ExceedsAnyLimit(r) ==
  \/ Len(r.packets) > PacketLimit
  \/ r.bytes > ByteLimit
  \/ SpanOf(r.packets) > DurationLimit

\* Variant of EvictToKeyframe without the second loop.
EvictToLimits(r) ==
  EvictTo(r, Min({i \in 1..Len(r.packets) + 1 : ~ExceedsAnyLimit(EvictTo(r, i))}))

\* The two eviction loops of push: drop from the front until every limit
\* holds, then until the front is a keyframe (or nothing is left).
EvictToKeyframe(r) ==
  LET end   == Len(r.packets) + 1
      fits  == Min({i \in 1..end : ~ExceedsAnyLimit(EvictTo(r, i))})
      front == Min({i \in fits..end : i = end \/ r.packets[i].key})
  IN  EvictTo(r, front)

\* What push answers: an error, DroppedAwaitingKeyframe or Stored.  A packet
\* that its own eviction removes again is still reported as Stored.
PushOutcome(r, p) ==
  CASE p.size > ByteLimit \/ (r.last # NoTimestamp /\ p.ts <= r.last) -> "rejected"
    [] OTHER -> IF r.packets = <<>> /\ ~p.key THEN "dropped" ELSE "stored"

Push(r, p) ==
  LET outcome == PushOutcome(r, p)
  IN  CASE outcome = "rejected" -> r
        [] outcome = "dropped"  -> [r EXCEPT !.last = p.ts, !.awaiting = @ + 1]
        [] outcome = "stored"   ->
             EvictToKeyframe([r EXCEPT !.last    = p.ts,
                                       !.packets = Append(@, p),
                                       !.bytes   = @ + p.size])

\* reset_epoch: forget the epoch, keep the cumulative counters.
ResetEpoch(r) ==
  [r EXCEPT !.packets      = <<>>,
            !.last         = NoTimestamp,
            !.bytes        = 0,
            !.evicted      = @ + Len(r.packets),
            !.evictedBytes = @ + r.bytes]

\* Variant of SnapshotForDuration that evicts single packets.
SnapshotAnyPacket(r, d) ==
  SubSeq(r.packets,
         Min({i \in 1..Len(r.packets) + 1 : SpanOf(SubSeq(r.packets, i, Len(r.packets))) <= d}),
         Len(r.packets))

\* snapshot_for_duration: evict a front and its dependents while the rest
\* still spans more than d.
SnapshotForDuration(r, d) ==
  LET end  == Len(r.packets) + 1
      from == {i \in 1..end : i \in {1, end} \/ r.packets[i].key}
  IN  SubSeq(r.packets,
             Min({i \in from : SpanOf(SubSeq(r.packets, i, Len(r.packets))) <= d}),
             Len(r.packets))

-------------------------------------------------------------------------------
\* EncodedPacketBatch::new admits only strictly increasing timestamps.
IsBatch(b) == \A i \in 1..Len(b) - 1 : b[i].ts < b[i + 1].ts

\* push_batch's loop: the ring after the packets up to the first rejected one,
\* and the outcomes so far.
PushBatch(r, b) ==
  FoldLeft(LAMBDA acc, p :
             LET outcome == PushOutcome(acc.ring, p)
             IN  IF acc.failed THEN acc
                 ELSE [ring     |-> Push(acc.ring, p),
                       outcomes |-> Append(acc.outcomes, outcome),
                       failed   |-> outcome = "rejected"],
           [ring |-> r, outcomes |-> <<>>, failed |-> FALSE],
           b)
===============================================================================
