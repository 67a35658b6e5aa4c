--------------------------- MODULE GlReplayExport ---------------------------
(***************************************************************************)
(* The OpenGL layer's replay export: the game's render thread copies each  *)
(* presented frame into a DMA-BUF slot of a per-context pool, fences the   *)
(* copy, and on a later presentation announces the finished slot to the    *)
(* daemon, which gives it back by sequence number.                         *)
(*                                                                         *)
(* The pools live behind one mutex that the capture path only tries, so an *)
(* action that takes it is atomic.  The GPU runs beside it: GlDone and     *)
(* VkDone finish the copies.  On an NVIDIA device a slot's storage is a    *)
(* pair of allocations and a second, Vulkan, copy moves the frame from the *)
(* GL-side buffer to the exported one (replay_export/nvidia_memory.c).     *)
(* Time stamps are consecutive numbers: only their order matters.          *)
(***************************************************************************)
EXTENDS Integers, Sequences, FiniteSets, SequencesExt

CONSTANTS
  Contexts,    \* GL contexts that present
  Sizes,       \* viewport areas, positive numbers
  Nvidia,      \* TRUE: the context's device is an NVIDIA one
  SlotCount,   \* SLOT_COUNT or NVIDIA_SLOT_COUNT
  MaxPools,    \* MAX_POOLS
  MaxOwners,   \* the native allocator's owner cap; bounds GBM buffers too
  MaxFrames,   \* bound: frames copied
  MaxResizes,  \* bound: viewport changes
  MaxFaults,   \* bound: failures met
  Faults       \* the failures this instance lets happen

VARIABLES
  pools,      \* State.pools
  lastTs,     \* State.last_export_timestamp_ns
  announced,  \* State.announced, 0 for None
  nextSeq,    \* NEXT_EXPORT_SEQUENCE
  target,     \* PRESENTATION_TARGET
  pending,    \* PENDING_REPLAY_RELEASES and the reply socket behind it
  finished,   \* finish_producer has run
  mem,        \* the buffers and what the GPU has written in them
  view,       \* each context's viewport
  resizes,
  faults,
  told,       \* the daemon: the source last announced to it
  held,       \* the daemon: the exports it has not given back
  sent        \* the time stamps announced, in order

layer == <<pools, lastTs, announced, nextSeq, target, pending, finished>>
vars == <<layer, mem, view, resizes, faults, told, held, sent>>

Buffers == 1 .. MaxOwners

(* What one presentation may meet; at names the buffer or the slot number. *)
NoFault == [kind |-> "none", at |-> 0]

Outcomes ==
  {NoFault}
    \cup [kind : Faults \cap {"wait", "bridge"}, at : {b \in Buffers : mem[b].st # "NONE"}]
    \cup [kind : Faults \cap {"alloc"}, at : 1 .. SlotCount]
    \cup [kind : Faults \cap {"send", "error", "fence", "announce"}, at : {0}]

Failing(f, kind, at) == f = [kind |-> kind, at |-> at]

-----------------------------------------------------------------------------
(* Storage.  gl and fence are the GPU's work in flight, img the frame in   *)
(* the GL-side buffer and dma the one in the exported memory (0: partial). *)

NoBuffer ==
  [st |-> "NONE", unproven |-> FALSE, fence |-> "idle", ctx |-> 0, gl |-> 0, img |-> 0, dma |-> 0]

(* collect_retired: a retired owner goes once its fence has signalled. *)
Collected(m) ==
  [b \in Buffers |->
     IF m[b].st = "RETIRED" /\ (m[b].unproven => m[b].fence = "signaled")
       THEN [m[b] EXCEPT !.st = "NONE", !.unproven = FALSE, !.fence = "idle"]
       ELSE m[b]]

(* redunar_nvidia_memory_free; a GBM buffer has no native owner. *)
NativeFree(m, b) ==
  LET c == Collected(m) IN
  IF c[b].unproven /\ c[b].fence # "signaled"
    THEN [c EXCEPT ![b].st = "RETIRED"]
    ELSE [c EXCEPT ![b].st = "NONE", ![b].unproven = FALSE, ![b].fence = "idle"]

(* The bridge copy is submitted once GL's is done, then polled. *)
NativePoll(m, b, f) ==
  LET c == Collected(m)
      s == IF c[b].st # "GL_OWNED" THEN c
             ELSE [c EXCEPT ![b].st = IF Failing(f, "bridge", b) THEN "FAILED" ELSE "COPY_PENDING",
                            ![b].unproven = TRUE, ![b].fence = "running", ![b].dma = 0]
  IN  IF s[b].st # "COPY_PENDING" THEN s
        ELSE IF Failing(f, "bridge", b) THEN [s EXCEPT ![b].st = "FAILED"]
        ELSE IF s[b].fence = "signaled" THEN [s EXCEPT ![b].st = "READY", ![b].unproven = FALSE]
        ELSE s

NativeRearm(m, b, f) ==
  LET bad == Failing(f, "bridge", b)
      i == IF m[b].st # "INITIALIZING" THEN m
             ELSE IF bad THEN [m EXCEPT ![b].st = "FAILED"]
             ELSE IF m[b].fence = "signaled"
                    THEN [m EXCEPT ![b].st = "READY", ![b].unproven = FALSE] ELSE m
  IN  IF i[b].st # "READY" THEN i
        ELSE IF bad THEN [i EXCEPT ![b].st = "FAILED"]
        ELSE [i EXCEPT ![b].st = "GL_OWNED", ![b].fence = "idle"]

(* A buffer nobody refers to any more: not even the daemon's descriptor. *)
Fresh(m) == {b \in Buffers : m[b].st = "NONE" /\ m[b].gl = 0 /\ \A h \in held : h.buf # b}

Allocated(m, c) ==
  LET b == CHOOSE b \in Fresh(m) : \A o \in Fresh(m) : b <= o IN
  [mem |-> [m EXCEPT ![b] =
              [NoBuffer EXCEPT !.st = IF Nvidia THEN "INITIALIZING" ELSE "GBM",
                               !.unproven = Nvidia, !.ctx = c,
                               !.fence = IF Nvidia THEN "running" ELSE "idle"]],
   buf |-> b]

-----------------------------------------------------------------------------
(* One slot; buf 0 is IDLE, ts 0 no frame, seq 0 no export. *)

Idle == [buf |-> 0, failed |-> FALSE, sync |-> FALSE, pend |-> FALSE, ts |-> 0, seq |-> 0]

(* Variant of IsAvailable: the daemon's lease is not looked at. *)
IsAvailableLeased(s) == s.buf # 0 /\ ~s.failed /\ ~s.sync /\ s.ts = 0

IsAvailable(s) == s.buf # 0 /\ ~s.failed /\ ~s.sync /\ s.ts = 0 /\ s.seq = 0

(* w is a working copy of one pool's slots and of the storage. *)
ReleaseSlot(w, i) ==
  IF w.slots[i].buf = 0 THEN w
    ELSE [w EXCEPT !.mem = NativeFree(w.mem, w.slots[i].buf), !.slots[i] = Idle]

FencePolled(w, i, f) ==
  LET b == w.slots[i].buf IN
  IF ~w.slots[i].sync THEN w
    ELSE IF Failing(f, "wait", b) THEN [w EXCEPT !.slots[i].failed = TRUE, !.slots[i].ts = 0]
    ELSE IF w.mem[b].gl # 0 THEN w
    ELSE [w EXCEPT !.slots[i].sync = FALSE]

BridgePolled(w, i, f) ==
  LET s == w.slots[i]
      m == NativePoll(w.mem, s.buf, f)
  IN  IF s.failed \/ s.sync \/ ~s.pend THEN w
        ELSE IF m[s.buf].st = "FAILED" THEN ReleaseSlot([w EXCEPT !.mem = m], i)
        ELSE [w EXCEPT !.mem = m, !.slots[i].pend = (m[s.buf].st # "READY")]

(* copy_ready; a failed slot is left alone. *)
CopyPolled(w, i, f) ==
  IF w.slots[i].failed THEN w ELSE BridgePolled(FencePolled(w, i, f), i, f)

Ready(s) == s.ts # 0 /\ ~s.failed /\ ~s.sync /\ ~s.pend

-----------------------------------------------------------------------------
(* One pool. *)

RetiredSlot(w, i, f) ==
  LET p == CopyPolled(w, i, f) IN
  IF p.slots[i].sync \/ p.slots[i].pend THEN p ELSE [p EXCEPT !.slots[i].ts = 0]

Retirable(slots) ==
  \A i \in DOMAIN slots :
    LET s == slots[i] IN ~s.failed /\ ~s.sync /\ ~s.pend /\ s.ts = 0 /\ s.seq = 0

ReleasedPool(w) == FoldLeftDomain(ReleaseSlot, w, w.slots)

(* Drain a pool of another viewport; it goes once nothing is outstanding. *)
RetiredPool(acc, p, f) ==
  LET w == FoldLeftDomain(LAMBDA u, i : RetiredSlot(u, i, f),
                          [slots |-> p.slots, mem |-> acc.mem], p.slots)
  IN  IF Retirable(w.slots)
        THEN [acc EXCEPT !.mem = ReleasedPool(w).mem]
        ELSE [pools |-> Append(acc.pools, [p EXCEPT !.slots = w.slots]), mem |-> w.mem]

RetireStalePools(ps, m, c, src, f) ==
  FoldLeft(LAMBDA acc, p : IF p.ctx # c \/ p.src = src
                             THEN [acc EXCEPT !.pools = Append(@, p)]
                             ELSE RetiredPool(acc, p, f),
           [pools |-> <<>>, mem |-> m], ps)

OldestPending(slots) ==
  CHOOSE i \in DOMAIN slots :
    slots[i].ts # 0 /\ \A j \in DOMAIN slots : slots[j].ts # 0 => slots[i].ts <= slots[j].ts

(* Announce one slot, or drop its frame when the message cannot be sent. *)
Announced(w, i, f) ==
  LET s == w.slots[i] IN
  IF f.kind = "send" THEN [w EXCEPT !.slots[i].ts = 0, !.seq = @ + 1]
    ELSE [w EXCEPT !.slots[i].ts = 0, !.slots[i].seq = w.seq, !.seq = @ + 1,
                   !.held = @ \cup {[seq |-> w.seq, buf |-> s.buf, ts |-> s.ts]},
                   !.sent = Append(@, s.ts)]

(* NVIDIA announces the oldest frame first and stops at one that is not    *)
(* ready; the others are visited by index.                                 *)
PublishStep(w, i, f) ==
  IF w.stop \/ (Nvidia /\ \A j \in DOMAIN w.slots : w.slots[j].ts = 0) THEN w
    ELSE LET k == IF Nvidia THEN OldestPending(w.slots) ELSE i
             p == CopyPolled(w, k, f)
         IN  IF Ready(p.slots[k]) THEN Announced(p, k, f) ELSE [p EXCEPT !.stop = Nvidia]

(* An NVIDIA pool first replaces one lost slot and polls every bridge. *)
Replaced(w, c, f) ==
  LET lost == {i \in DOMAIN w.slots : w.slots[i].buf = 0} IN
  IF lost = {} \/ Fresh(w.mem) = {} \/ f.kind = "alloc" THEN w
    ELSE LET i == CHOOSE i \in lost : \A j \in lost : i <= j
             a == Allocated(w.mem, c)
         IN  [w EXCEPT !.mem = a.mem, !.slots[i] = [Idle EXCEPT !.buf = a.buf]]

PublishReadyExports(w, c, f) ==
  LET n == IF Nvidia
             THEN FoldLeftDomain(LAMBDA u, i : CopyPolled(u, i, f), Replaced(w, c, f), w.slots)
             ELSE w
  IN  FoldLeftDomain(LAMBDA u, i : PublishStep(u, i, f), n, n.slots)

(* All of a pool's slots, or none: what was made before a failure goes. *)
AllocateSlots(m, c, f) ==
  LET all == FoldLeft(LAMBDA w, i :
                        IF w.bad \/ Fresh(w.mem) = {} \/ Failing(f, "alloc", i)
                          THEN [w EXCEPT !.bad = TRUE]
                          ELSE LET a == Allocated(w.mem, c)
                               IN  [w EXCEPT !.mem = a.mem,
                                             !.slots = Append(@, [Idle EXCEPT !.buf = a.buf])],
                      [slots |-> <<>>, mem |-> m, bad |-> FALSE], [i \in 1 .. SlotCount |-> i])
  IN  IF all.bad THEN ReleasedPool(all) ELSE all

(* The native release is acquired; from here a GL error quarantines. *)
PrepareCopy(w, i, f) ==
  LET b == w.slots[i].buf
      m == NativeRearm(w.mem, b, f)
  IN  IF ~Nvidia THEN w
        ELSE IF m[b].st = "FAILED" THEN ReleaseSlot([w EXCEPT !.mem = m], i)
        ELSE [w EXCEPT !.mem = m, !.slots[i].failed = (m[b].st = "GL_OWNED")]

(* start_copy: blit, read back into the slot's buffer, fence. *)
StartCopy(u, i, ts, f) ==
  LET w == PrepareCopy(u, i, f)
      b == w.slots[i].buf
      ready == IF Nvidia THEN w.slots[i].failed ELSE TRUE
      copying == [w EXCEPT !.mem[b].gl = ts, !.mem[b].img = 0,
                           !.mem[b].dma = IF Nvidia THEN @ ELSE 0]
  IN  IF ~ready \/ f.kind = "error" THEN w
        ELSE IF f.kind = "fence" THEN copying
        ELSE [copying EXCEPT !.slots[i] =
                [@ EXCEPT !.failed = FALSE, !.sync = TRUE, !.pend = Nvidia, !.ts = ts]]

-----------------------------------------------------------------------------
(* PresentationTarget::select. *)
Selected(c) == target.ctx \in {0, c} \/ view[c] > target.size

(* The stages of capture, each on the working copy the one before left. *)
Published(ret, at, c, f) ==
  LET w == [slots |-> IF at = 0 THEN <<>> ELSE ret.pools[at].slots, mem |-> ret.mem,
            held |-> held, sent |-> sent, seq |-> nextSeq, stop |-> FALSE]
  IN  IF at = 0 THEN w ELSE PublishReadyExports(w, c, f)

(* create_pool for a context without one; stop says there is none. *)
WithPool(ret, pub, at, c, f) ==
  IF at # 0 THEN [pub EXCEPT !.stop = FALSE]
    ELSE IF Len(ret.pools) >= MaxPools THEN [pub EXCEPT !.stop = TRUE]
    ELSE LET a == AllocateSlots(pub.mem, c, f)
         IN  [pub EXCEPT !.slots = a.slots, !.mem = a.mem, !.stop = a.bad]

Copied(w, free, f) == IF free = 0 THEN w ELSE StartCopy(w, free, lastTs + 1, f)

(* capture: retire, publish, find or create the pool, announce, copy. *)
Capture(c, f, due) ==
  /\ due => lastTs < MaxFrames
  /\ \E ret \in {RetireStalePools(pools, mem, c, view[c], f)} :
     \E at \in {SelectInSeq(ret.pools, LAMBDA p : p.ctx = c /\ p.src = view[c])} :
     \E pub \in {Published(ret, at, c, f)} :
     \E new \in {WithPool(ret, pub, at, c, f)} :
     \E free \in {IF due /\ ~new.stop THEN SelectInSeq(new.slots, IsAvailable) ELSE 0} :
     \E copy \in {Copied(new, free, f)} :
     LET pool == [ctx |-> c, src |-> view[c], slots |-> copy.slots] IN
       /\ pools' = IF new.stop THEN ret.pools
                     ELSE IF at # 0 THEN [ret.pools EXCEPT ![at] = pool]
                     ELSE Append(ret.pools, pool)
       /\ mem' = copy.mem
       /\ nextSeq' = copy.seq
       /\ held' = copy.held
       /\ sent' = copy.sent
       /\ lastTs' = IF free # 0 THEN lastTs + 1 ELSE lastTs
       /\ announced' = IF new.stop THEN announced ELSE view[c]
       /\ told' = IF new.stop \/ announced = view[c] \/ f.kind = "announce" THEN told ELSE view[c]
  /\ target' = [ctx |-> c, size |-> view[c]]
  /\ UNCHANGED <<pending, finished, view, resizes>>

(* A presentation of a selected context whose tries for the lock succeed. *)
Present(c) ==
  /\ Selected(c)
  /\ \E f \in IF faults < MaxFaults THEN Outcomes ELSE {NoFault}, due \in BOOLEAN :
       /\ Capture(c, f, due)
       /\ faults' = IF f = NoFault THEN faults ELSE faults + 1

(* poll_replay_releases: a token read while the lock is busy stays queued. *)
ReleaseSequence ==
  /\ pending # <<>>
  /\ pools' = [k \in DOMAIN pools |->
                 [pools[k] EXCEPT !.slots =
                    [i \in DOMAIN @ |->
                       IF @[i].seq = Head(pending) THEN [@[i] EXCEPT !.seq = 0] ELSE @[i]]]]
  /\ pending' = Tail(pending)
  /\ UNCHANGED <<lastTs, announced, nextSeq, target, finished, mem, view, resizes, faults, told, held, sent>>

(* destroy_context: GL deletes the names and its own pending commands. *)
DestroyContext(c) ==
  /\ "destroy" \in Faults
  /\ LET gone(p) == p.ctx = c
         kept == SelectSeq(pools, LAMBDA p : ~gone(p))
         freed == FoldLeft(LAMBDA m, p :
                             IF gone(p) THEN ReleasedPool([slots |-> p.slots, mem |-> m]).mem ELSE m,
                           [b \in Buffers |->
                              IF mem[b].ctx = c THEN [mem[b] EXCEPT !.gl = 0] ELSE mem[b]],
                           pools)
     IN  /\ pools' = kept
         /\ mem' = freed
         /\ pools # kept \/ target.ctx = c
  /\ target' = IF target.ctx = c THEN [ctx |-> 0, size |-> 0] ELSE target
  /\ UNCHANGED <<lastTs, announced, nextSeq, pending, finished, view, resizes, faults, told, held, sent>>

(* finish_producer, run by exit() while other threads may still present. *)
Finish ==
  /\ "exit" \in Faults /\ ~finished
  /\ pools' = <<>>
  /\ announced' = 0
  /\ finished' = TRUE
  /\ UNCHANGED <<lastTs, nextSeq, target, pending, mem, view, resizes, faults, told, held, sent>>

-----------------------------------------------------------------------------
(* The game, the GPU and the daemon. *)

Resize(c) ==
  /\ resizes < MaxResizes
  /\ \E s \in Sizes \ {view[c]} : view' = [view EXCEPT ![c] = s]
  /\ resizes' = resizes + 1
  /\ UNCHANGED <<layer, mem, faults, told, held, sent>>

(* A context's commands finish in the order they were issued. *)
GlDone(b) ==
  /\ mem[b].gl # 0
  /\ \A o \in Buffers : mem[o].ctx = mem[b].ctx /\ mem[o].gl # 0 => mem[b].gl <= mem[o].gl
  /\ mem' = [mem EXCEPT ![b].gl = 0, ![b].img = mem[b].gl,
                        ![b].dma = IF Nvidia THEN @ ELSE mem[b].gl]
  /\ UNCHANGED <<layer, view, resizes, faults, told, held, sent>>

VkDone(b) ==
  /\ mem[b].fence = "running"
  /\ mem' = [mem EXCEPT ![b].fence = "signaled", ![b].dma = mem[b].img]
  /\ UNCHANGED <<layer, view, resizes, faults, told, held, sent>>

Release ==
  /\ \E h \in held : /\ held' = held \ {h}
                     /\ pending' = Append(pending, h.seq)
  /\ UNCHANGED <<pools, lastTs, announced, nextSeq, target, finished, mem, view, resizes, faults, told, sent>>

Init ==
  /\ pools = <<>> /\ lastTs = 0 /\ announced = 0 /\ nextSeq = 1
  /\ target = [ctx |-> 0, size |-> 0]
  /\ pending = <<>> /\ finished = FALSE
  /\ mem = [b \in Buffers |-> NoBuffer]
  /\ view \in [Contexts -> Sizes]
  /\ resizes = 0 /\ faults = 0 /\ told = 0 /\ held = {} /\ sent = <<>>

Next ==
  \/ \E c \in Contexts : Present(c) \/ DestroyContext(c) \/ Resize(c)
  \/ \E b \in Buffers : GlDone(b) \/ VkDone(b)
  \/ ReleaseSequence \/ Release \/ Finish

Spec == Init /\ [][Next]_vars

-----------------------------------------------------------------------------
SlotType ==
  [buf : 0 .. MaxOwners, failed : BOOLEAN, sync : BOOLEAN, pend : BOOLEAN,
   ts : 0 .. MaxFrames, seq : 0 .. MaxFrames]

(* The shape of every variable. *)
TypeOK ==
  /\ pools \in Seq([ctx : Contexts, src : Sizes, slots : Seq(SlotType)])
  /\ Len(pools) <= MaxPools
  /\ \A k \in DOMAIN pools : Len(pools[k].slots) = SlotCount
  /\ lastTs \in 0 .. MaxFrames /\ nextSeq \in 1 .. MaxFrames + 1
  /\ {announced, told} \subseteq Sizes \cup {0}
  /\ pending \in Seq(1 .. MaxFrames)
  /\ view \in [Contexts -> Sizes] /\ resizes \in 0 .. MaxResizes /\ faults \in 0 .. MaxFaults
  /\ finished \in BOOLEAN
  /\ held \subseteq [seq : 1 .. MaxFrames, buf : Buffers, ts : 1 .. MaxFrames]

(* What the daemon reads through the descriptor of an export it still      *)
(* holds is, whole, the frame the announcement named: no copy of a later   *)
(* frame has started in that memory and none was announced unfinished,     *)
(* through slot reuse, viewport changes and context destruction.           *)
DaemonSeesFrame == \A h \in held : mem[h.buf].dma = h.ts

(* The native allocator never frees storage the GPU may still be writing,  *)
(* whichever of the failure paths gave it up.                              *)
FreedWhenProven == \A b \in Buffers : mem[b].st = "NONE" => mem[b].fence # "running"

(* Every live buffer has exactly one owner: one slot of one pool, or the   *)
(* retired list.  (After exit() the kernel is the owner.)                  *)
StorageOwned ==
  LET slots == {<<k, i>> \in (1 .. MaxPools) \X (1 .. SlotCount) : k \in DOMAIN pools}
      owners(b) == {x \in slots : pools[x[1]].slots[x[2]].buf = b}
  IN  ~finished => \A b \in Buffers :
        Cardinality(owners(b)) = IF mem[b].st \in {"NONE", "RETIRED"} THEN 0 ELSE 1

(* Exported presentation times are strictly increasing, as the replay      *)
(* pipeline requires of one codec epoch.                                   *)
ExportsInOrder == \A i \in 1 .. Len(sent) - 1 : sent[i] < sent[i + 1]
=============================================================================
