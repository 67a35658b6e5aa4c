-------------------------- MODULE OverlayTelemetry --------------------------
(***************************************************************************)
(* The hardware block of the telemetry file through which the daemon tells *)
(* the overlay inside the game its configuration, sensor values and save   *)
(* notices (write_overlay_* in capture_session.rs, overlay.rs of           *)
(* redunar-capture, the readers of both capture layers).                   *)
(*                                                                         *)
(* Writers are serialised by the session lock; the reader is another       *)
(* process without one.  A block starts and ends with its revision: the    *)
(* writer first makes both odd, then writes the whole block from front to  *)
(* back; the reader copies it front to back and takes it only if both ends *)
(* carry the same even revision.  Two of the three writers read the block  *)
(* back and change a part of it.                                           *)
(***************************************************************************)
EXTENDS Integers, FiniteSets

CONSTANTS MaxRevision,   \* bound: blocks written
          NoticeRange,   \* values of the u16 save notice, 0 included
          Faults         \* "write": any write may fail

VARIABLES revision,   \* overlay_telemetry_revision
          config,     \* overlay_config
          saved,      \* overlay_replay_saved_revision
          writer,     \* the writer under the lock
          file,       \* [front, config, saved, tail]
          reader,     \* the reader's copy
          shown,      \* last block the overlay took
          notices,    \* save notices the overlay showed
          log,        \* what each revision was meant to say
          agreed      \* configuration last reported as applied

vars == <<revision, config, saved, writer, file, reader, shown, notices, log, agreed>>

Unless(f) == IF f \in Faults THEN BOOLEAN ELSE {TRUE}
Zero == [config |-> 0, saved |-> 0]
Resting == [pc |-> "idle", kind |-> "none", body |-> Zero, revision |-> 0]

Init ==
    /\ revision = 2 /\ config = 0 /\ saved = 0
    /\ writer = Resting
    /\ file = [front |-> 2, config |-> 0, saved |-> 0, tail |-> 2]
    /\ reader = [pc |-> "idle", front |-> 0, config |-> 0]
    /\ shown = [revision |-> 0, body |-> Zero]
    /\ notices = 0
    /\ log = [r \in {2} |-> Zero]
    /\ agreed = 0

-----------------------------------------------------------------------------
(* The writers. *)

\* publish_replay_saved_notice: the next notice, zero left out.
NextNotice(n) == LET next == (n + 1) % NoticeRange IN IF next = 0 THEN 1 ELSE next

\* What a writer puts into the block: the polled hardware with the stored
\* configuration and notice, or the block read back with one part changed.
Body(kind, to) ==
    CASE kind = "hardware" -> [config |-> config, saved |-> saved]
      [] kind = "config"   -> [config |-> to, saved |-> file.saved]
      [] kind = "notice"   -> [config |-> file.config, saved |-> NextNotice(saved)]

Begin(kind, to) ==
    /\ writer.pc = "idle" /\ revision < 2 * MaxRevision
    /\ revision' = revision + 2
    /\ saved' = IF kind = "notice" THEN NextNotice(saved) ELSE saved
    /\ writer' = [pc |-> "odd1", kind |-> kind, body |-> Body(kind, to), revision |-> revision + 2]
    /\ log' = [r \in DOMAIN log \cup {revision + 2} |-> IF r \in DOMAIN log THEN log[r] ELSE Body(kind, to)]
    /\ UNCHANGED <<config, file, reader, shown, notices, agreed>>

\* Variant of AfterFirst: only the front is made odd before the block is written.
AfterFirstHalf == "front"
AfterFirst == "odd2"

\* One write of the sequence, or its failure, which ends the update.
Writes(pc, next, newFile) ==
    /\ writer.pc = pc
    /\ \E ok \in Unless("write") :
        /\ file' = IF ok THEN newFile ELSE file
        /\ writer' = IF ok THEN [writer EXCEPT !.pc = next] ELSE Resting
    /\ UNCHANGED <<revision, config, saved, reader, shown, notices, log, agreed>>

WriteOdd1 == Writes("odd1", AfterFirst, [file EXCEPT !.front = writer.revision - 1])
WriteOdd2 == Writes("odd2", "front", [file EXCEPT !.tail = writer.revision - 1])
\* The block goes out front to back; a reader may see any prefix of it.
WriteFront == Writes("front", "rest", [file EXCEPT !.front = writer.revision,
                                                   !.config = writer.body.config])
WriteRest == Writes("rest", "tail", [file EXCEPT !.saved = writer.body.saved])

\* update_overlay_config keeps what it wrote for the next hardware update.
Stored == IF writer.kind = "config" THEN writer.body.config ELSE config

WriteTail ==
    /\ writer.pc = "tail"
    /\ file' = [file EXCEPT !.tail = writer.revision]
    /\ config' = Stored
    /\ agreed' = IF writer.kind = "config" THEN writer.body.config ELSE agreed
    /\ writer' = Resting
    /\ UNCHANGED <<revision, saved, reader, shown, notices, log>>

-----------------------------------------------------------------------------
(* The reader: TelemetryReader.refresh and what the overlay makes of it. *)

ReadFront ==
    /\ reader.pc = "idle"
    /\ reader' = [pc |-> "front", front |-> file.front, config |-> file.config]
    /\ UNCHANGED <<revision, config, saved, writer, file, shown, notices, log, agreed>>

\* decode: both ends alike and even, and not the block taken last.
Accepts == /\ reader.front = file.tail /\ reader.front % 2 = 0
           /\ reader.front # shown.revision

\* update_saved_notice: a notice that is not zero and not the last one.
Announces(n) == n # 0 /\ n # shown.body.saved

ReadRest ==
    /\ reader.pc = "front"
    /\ reader' = [pc |-> "idle", front |-> 0, config |-> 0]
    /\ shown' = IF Accepts
                THEN [revision |-> reader.front, body |-> [config |-> reader.config, saved |-> file.saved]]
                ELSE shown
    /\ notices' = IF Accepts /\ Announces(file.saved) THEN notices + 1 ELSE notices
    /\ UNCHANGED <<revision, config, saved, writer, file, log, agreed>>

-----------------------------------------------------------------------------
Next ==
    \/ Begin("hardware", 0) \/ Begin("notice", 0)
    \/ \E to \in {0, 1} \ {config} : Begin("config", to)
    \/ WriteOdd1 \/ WriteOdd2 \/ WriteFront \/ WriteRest \/ WriteTail
    \/ ReadFront \/ ReadRest

Spec == Init /\ [][Next]_vars

-----------------------------------------------------------------------------
TypeOK ==
    /\ writer.pc \in {"idle", "odd1", "odd2", "front", "rest", "tail"}
    /\ {saved, file.saved, shown.body.saved} \subseteq 0..(NoticeRange - 1)
    /\ {config, file.config, agreed} \subseteq {0, 1}
    /\ (saved = 0 => \A r \in DOMAIN log : log[r].saved = 0)
    /\ writer.pc = "idle" /\ file.front = file.tail /\ file.front % 2 = 0 => file.front \in DOMAIN log

\* A block the overlay takes is one the daemon wrote, whole: no mixture of two
\* revisions passes the pair of odd marks and the comparison of both ends, not
\* even when an update fails between two writes.
AcceptedWhole == shown.revision # 0 => shown.body = log[shown.revision]

\* The part-wise writers lose nothing: with every update complete, the block
\* carries the applied configuration and the last save notice, whichever
\* writer came last.
NothingRolledBack ==
    writer.pc = "idle" => /\ file.front % 2 = 0
                          /\ file.config = agreed /\ file.saved = saved

\* The overlay never announces more saves than the daemon published, and a save
\* read after the previous one is announced, across the wrap of the counter.
AnnouncedOnce == notices <= Cardinality({r \in DOMAIN log : r > 2 /\ log[r].saved # log[r - 2].saved})
=============================================================================
