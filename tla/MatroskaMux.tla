----------------------------- MODULE MatroskaMux -----------------------------
(***************************************************************************)
(* The Matroska stream a saved clip is written as (replay_matroska.rs):    *)
(* the streaming writer, which interleaves the sound with the video it     *)
(* pulls and leaves its clusters' sizes open, and its twin over a ring     *)
(* snapshot, which sorts all blocks and writes each cluster with its size. *)
(*                                                                         *)
(* Time is counted in ticks, sizes in bytes of a small base (128 and 256   *)
(* in the code).  A block in the file is its track, its cluster's time and *)
(* its time within the cluster.                                            *)
(***************************************************************************)
EXTENDS Integers, Sequences, SequencesExt, FiniteSetsExt

CONSTANTS
    Origin,       \* the timestamp of the first video packet
    Scale,        \* TIMESTAMP_SCALE_NS: ticks in a millisecond
    MaxCluster,   \* MAX_CLUSTER_DURATION_MS
    MaxRelative,  \* i16::MAX
    VintBase,     \* values of the data bits of one byte of a size
    ByteBase,     \* values of one byte of a number
    VideoInputs,  \* bound: sequences of [at, size, track |-> 1]
    AudioInputs,  \* bound: sequences of [at, size, track, bad], tracks 2 and 3
    None

VARIABLES
    all,        \* every block of the clip, for the properties
    streaming,  \* which of the two writers
    video,      \* the packets the source has left
    sound,      \* the sound in the window left, system and microphone merged
    cluster,    \* the time of the open cluster, or None
    out,        \* the blocks written: [track, at, cluster, relative]
    sizes,      \* the sizes written: [value, width, content]
    pc          \* what is being written

vars == <<all, streaming, video, sound, cluster, out, sizes, pc>>

ByTime(blocks) == SortSeq(blocks, LAMBDA a, b : a.at < b.at \/ (a.at = b.at /\ a.track < b.track))

\* The window is the video's; its end is the last packet's, one tick after it.
InWindow(packets, blocks) ==
    SelectSeq(blocks, LAMBDA p : p.at >= Origin /\ p.at <= Last(packets).at)

Init ==
    /\ streaming \in BOOLEAN /\ video \in VideoInputs
    /\ \E tracks \in AudioInputs : sound = ByTime(InWindow(video, tracks))
    /\ all = video \o sound
    /\ cluster = None /\ out = <<>> /\ sizes = {} /\ pc = "header"

\* relative_milliseconds: from the origin, rounded down.
Milliseconds(at) == (at - Origin) \div Scale

\* encode_vint: the narrowest width whose reserved value, "unknown size", the size
\* is not.
Fits(value, width) == value < VintBase ^ width - 1
EncodedWidth(value) == CHOOSE w \in 1..8 : Fits(value, w) /\ \A v \in 1..(w - 1) : ~Fits(value, v)

VintWidth(value) ==
    CHOOSE w \in 1..8 : /\ value < VintBase ^ w - 1
                        /\ \A v \in 1..(w - 1) : value >= VintBase ^ v - 1
UnsignedWidth(value) ==
    CHOOSE w \in 1..8 : value < ByteBase ^ w /\ \A v \in 1..(w - 1) : value >= ByteBase ^ v
ElementSize(content) == 1 + VintWidth(content) + content

\* A block's payload: track, time, flags and bytes.
Payload(p) == 4 + p.size

\* The bytes of an element as they are written.
Element(content) == 1 + EncodedWidth(content) + content
Sum(numbers) == FoldLeft(LAMBDA a, b : a + b, 0, numbers)

Block(p, start) ==
    [track |-> p.track, at |-> p.at, cluster |-> start,
     relative |-> Milliseconds(p.at) - start]

Fails == pc' = "failed" /\ UNCHANGED <<all, streaming, video, sound, cluster, out, sizes>>

\* write_ebml_header, write_info and the tracks.
WriteHeader ==
    /\ pc = "header"
    /\ ~streaming => \A i \in 1..Len(sound) : ~sound[i].bad
    /\ pc' = "blocks"
    /\ UNCHANGED <<all, streaming, video, sound, cluster, out, sizes>>

\* A new cluster starts where the block is too far from the open one's start.
\* A variant that lets it grow to the limit of the relative time and over.
NeverSplits(start, at) == start = None
Splits(start, at) == start = None \/ Milliseconds(at) - start > MaxCluster

\* write_streaming_block.
WriteBlock(p) ==
    LET start == IF Splits(cluster, p.at) THEN Milliseconds(p.at) ELSE cluster
        size == Payload(p)
        fits == Milliseconds(p.at) - start \in 0..MaxRelative
    IN /\ pc' = IF fits THEN pc ELSE "overflow"
       /\ cluster' = start
       /\ out' = IF fits THEN Append(out, Block(p, start)) ELSE out
       /\ sizes' = sizes \cup
            {[value |-> size, width |-> EncodedWidth(size), content |-> size]}

SoundIsNext ==
    sound # <<>> /\ (video # <<>> => Head(sound).at < Head(video).at)

StreamSound ==
    /\ pc = "blocks" /\ streaming /\ SoundIsNext /\ ~Head(sound).bad
    /\ WriteBlock(Head(sound)) /\ sound' = Tail(sound)
    /\ UNCHANGED <<all, streaming, video>>

StreamVideo ==
    /\ pc = "blocks" /\ streaming /\ video # <<>> /\ ~SoundIsNext
    /\ WriteBlock(Head(video)) /\ video' = Tail(video)
    /\ UNCHANGED <<all, streaming, sound>>

\* cluster_end: the blocks up to the longest time from the first.
ClusterEnd(blocks) ==
    Max({i \in 1..Len(blocks) :
            \A k \in 1..i : Milliseconds(blocks[k].at) - Milliseconds(blocks[1].at) <= MaxCluster})

\* write_cluster and write_av_cluster: the size computed before, and what is
\* written after it.
ClusterSize(blocks, start) ==
    LET declared == ElementSize(UnsignedWidth(start))
            + Sum([i \in 1..Len(blocks) |-> ElementSize(Payload(blocks[i]))])
        content == Element(UnsignedWidth(start))
            + Sum([i \in 1..Len(blocks) |-> Element(Payload(blocks[i]))])
    IN [value |-> declared, width |-> EncodedWidth(declared), content |-> content]

WriteCluster ==
    /\ pc = "blocks" /\ ~streaming /\ video \o sound # <<>>
    /\ LET blocks == ByTime(video \o sound)
           start == Milliseconds(Head(blocks).at)
           n == ClusterEnd(blocks)
           rest == SubSeq(blocks, n + 1, Len(blocks))
       IN /\ video' = SelectSeq(rest, LAMBDA p : p.track = 1)
          /\ sound' = SelectSeq(rest, LAMBDA p : p.track # 1)
          /\ cluster' = start
          /\ out' = out \o [i \in 1..n |-> Block(blocks[i], start)]
          /\ sizes' = sizes \cup {ClusterSize(SubSeq(blocks, 1, n), start)}
    /\ UNCHANGED <<all, streaming, pc>>

Finish ==
    /\ pc = "blocks" /\ video = <<>> /\ sound = <<>>
    /\ pc' = "done" /\ UNCHANGED <<all, streaming, video, sound, cluster, out, sizes>>

\* A packet that cannot be muxed, a cancelled save, a failed write.
Fail == pc \in {"header", "blocks"} /\ Fails

Finished == pc \in {"done", "failed", "overflow"} /\ UNCHANGED vars

Next ==
    \/ WriteHeader \/ StreamSound \/ StreamVideo \/ WriteCluster \/ Finish \/ Fail
    \/ Finished
Spec == Init /\ [][Next]_vars

-----------------------------------------------------------------------------
TypeOK ==
    /\ pc \in {"header", "blocks", "done", "failed", "overflow"}
    /\ cluster \in Nat \cup {None} /\ (cluster = None) = (out = <<>>)
    /\ ToSet(video) \cup ToSet(sound) \subseteq ToSet(all)
    /\ \A i \in 1..Len(out) : out[i].relative \in 0..MaxRelative

\* The file never goes back in time, across tracks and clusters ("Appending the
\* microphone after video can move a cluster backwards in time").
NeverBack ==
    \A i \in 1..(Len(out) - 1) :
        /\ out[i].cluster <= out[i + 1].cluster
        /\ out[i].cluster + out[i].relative <= out[i + 1].cluster + out[i + 1].relative

\* Both writers lay a finished clip out alike: every packet once, by its time, a
\* frame before the sound that starts with it, the system's before the
\* microphone's.
Before(a, b) == a.at < b.at \/ (a.at = b.at /\ a.track < b.track)
LaidOutAlike ==
    pc = "done" =>
        /\ {[track |-> out[i].track, at |-> out[i].at] : i \in 1..Len(out)}
             = {[track |-> all[i].track, at |-> all[i].at] : i \in 1..Len(all)}
        /\ Len(out) = Len(all)
        /\ \A i \in 1..(Len(out) - 1) : Before(out[i], out[i + 1])

\* However long the source was silent or still, no block's time outgrows the
\* signed 16 bits it has: a save never fails for its length ("Clusters are capped
\* at 30 seconds and signed block timecodes are checked").
TimesFit == pc # "overflow"

\* The size written before a cluster or a block is the size of what follows, and
\* never the reserved value that means an unknown size.
SizesHold ==
    \A s \in sizes : s.value = s.content /\ s.value # VintBase ^ s.width - 1
=============================================================================
