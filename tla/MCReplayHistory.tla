--------------------------- MODULE MCReplayHistory ---------------------------
(***************************************************************************)
(* ReplayHistory and the parts around it for TLC: the ring alone with      *)
(* every budget binding in some behaviour (ReplayFlow), and the two        *)
(* containers a clip is written as (Mp4Mux, MatroskaMux). A behaviour runs *)
(* one part; the others keep their initial state. The part "long" is       *)
(* ReplayHistory once more, without a second epoch but with more frames,   *)
(* segments and retention than one save asks for.                          *)
(***************************************************************************)
EXTENDS ReplayHistory

CONSTANTS Parts, None

VARIABLES part, flowPhase, flowRing, flowPushed, flowOffered, mp4Streaming, mp4End,
          mp4Audio, mp4Source, mp4Chunk, mp4Declared, mp4Out, mp4From, mp4Pc, mkvAll,
          mkvStreaming, mkvVideo, mkvSound, mkvCluster, mkvOut, mkvSizes, mkvPc

\* Sound that touches, overlaps, has gaps on both sides of the tolerance, starts
\* before the window or ends after it.
Good(times) == [i \in 1..Len(times) |-> [at |-> times[i], bad |-> FALSE]]
Mp4Audio ==
    {<<<<>>, None>>, <<Good(<<0, 6, 13, 15, 20>>), None>>, <<<<>>, Good(<<1, 8, 12>>)>>,
     <<Good(<<2, 9, 11, 14>>), Good(<<>>)>>, <<<<[at |-> 2, bad |-> TRUE]>>, Good(<<1>>)>>}

\* Frames close together, across a cluster's end and after a long pause, with
\* payloads on both sides of a width of the sizes; sound between, with and after
\* the frames, of both tracks.
Frames(gaps, size) ==
    [i \in 1..(Len(gaps) + 1) |->
        [at |-> 1 + FoldLeft(LAMBDA a, b : a + b, 0, SubSeq(gaps, 1, i - 1)),
         size |-> size[i], track |-> 1, bad |-> FALSE]]
MatroskaVideo ==
    UNION {{Frames(g, s) : g \in [1..n -> {1, 8, 15}], s \in [1..(n + 1) -> {10, 11}]} :
               n \in 0..3}
Sound(times, track) ==
    [i \in 1..Len(times) |-> [at |-> times[i], size |-> 1, track |-> track, bad |-> FALSE]]
MatroskaAudio ==
    {<<>>, Sound(<<0, 1, 5, 9, 20>>, 2), Sound(<<2, 4, 9>>, 2) \o Sound(<<1, 4, 7, 30>>, 3),
     Sound(<<1>>, 2) \o <<[at |-> 2, size |-> 1, track |-> 3, bad |-> TRUE]>>}

flowVars ==
    <<flowPhase, flowRing, flowPushed, flowOffered>>
mp4Vars ==
    <<mp4Streaming, mp4End, mp4Audio, mp4Source, mp4Chunk, mp4Declared, mp4Out, mp4From,
      mp4Pc>>
mkvVars ==
    <<mkvAll, mkvStreaming, mkvVideo, mkvSound, mkvCluster, mkvOut, mkvSizes, mkvPc>>

Long ==
    INSTANCE ReplayHistory WITH
        Retained <- 7, MaxSegments <- 3, Requests <- {3}, MaxInFlight <- 0,
        Ticks <- {0, 1, 2, 3, 4, 6, 7}, MaxEpochs <- 1

Flow ==
    INSTANCE ReplayFlow WITH
        PacketLimit <- 2, ByteLimit <- 4, DurationLimit <- 3, MaxTs <- 3, MaxBatch <- 2,
        MaxPushed <- 4, Sizes <- {1, 3, 5}, Durations <- {1},
        phase <- flowPhase, ring <- flowRing, pushed <- flowPushed, offered <- flowOffered

Mp4 ==
    INSTANCE Mp4Mux WITH
        Origin <- 1, Ends <- {12, 15}, VideoUnit <- 2, AudioUnit <- 2, Frame <- 4,
        Tolerance <- 2, MaxRun <- 3, MaxDuration <- 7, MaxBytes <- 3, Gaps <- {1, 3, 4},
        Sizes <- {1, 2}, MaxPackets <- 4, AudioInputs <- Mp4Audio,
        streaming <- mp4Streaming, end <- mp4End, audio <- mp4Audio, source <- mp4Source,
        chunk <- mp4Chunk, declared <- mp4Declared, out <- mp4Out, from <- mp4From,
        pc <- mp4Pc

Matroska ==
    INSTANCE MatroskaMux WITH
        Origin <- 1, Scale <- 2, MaxCluster <- 4, MaxRelative <- 6, VintBase <- 4,
        ByteBase <- 4, VideoInputs <- MatroskaVideo, AudioInputs <- MatroskaAudio,
        all <- mkvAll, streaming <- mkvStreaming, video <- mkvVideo, sound <- mkvSound,
        cluster <- mkvCluster, out <- mkvOut, sizes <- mkvSizes, pc <- mkvPc

MCInit ==
    /\ part \in Parts
    /\ Init
    /\ Flow!Init
    /\ \/ part = "mp4" /\ Mp4!Init
       \/ part # "mp4" /\ Mp4!Init /\ mp4Streaming /\ mp4End = 12 /\ mp4Audio = <<<<>>, None>>
    /\ \/ part = "matroska" /\ Matroska!Init
       \/ part # "matroska" /\ Matroska!Init /\ mkvStreaming /\ mkvAll = Frames(<<>>, <<10>>)

MCNext ==
    \/ part = "history" /\ Next /\ UNCHANGED <<part, flowVars, mp4Vars, mkvVars>>
    \/ part = "long" /\ Long!Next /\ UNCHANGED <<part, flowVars, mp4Vars, mkvVars>>
    \/ part = "flow" /\ Flow!Next /\ UNCHANGED <<part, vars, mp4Vars, mkvVars>>
    \/ part = "mp4" /\ Mp4!Next /\ UNCHANGED <<part, vars, flowVars, mkvVars>>
    \/ part = "matroska" /\ Matroska!Next /\ UNCHANGED <<part, vars, flowVars, mp4Vars>>

MCVars == <<part, vars, flowVars, mp4Vars, mkvVars>>
MCSpec == MCInit /\ [][MCNext]_MCVars

-------------------------------------------------------------------------------
(* The ring keeps exactly the longest decodable run that fits its three budgets,
   and every packet and byte it ever took is counted once (ReplayRing::push,
   evict_front, reset_epoch). *)
RingExact == part = "flow" => Flow!TypeOK /\ Flow!RetainsLongestRun /\ Flow!CountersConserve

(* Disk history that is offered has no hole, across segments, queue and repair
   backlog, and the index accounts for every segment file (process_packet,
   commit_segment, enforce_limits, push_encoded). With retention to spare, a clip
   from disk starts at the earliest keyframe of the requested interval, however
   the segments are cut (plan_snapshot, scan). *)
HistorySound ==
    /\ IF part = "long" THEN Long!TypeOK ELSE TypeOK
    /\ HistoryUnbroken /\ IndexMatchesDisk
    /\ part = "long" => Long!DiskClipsComplete

(* A saved clip plays back as recorded. MP4, from either writer: frames at their
   own times, every packet once in a declared track, missing sound kept missing,
   and a bounded fragment in memory (replay_mp4.rs). Matroska: both writers lay
   the clip out alike, never back in time, with block times that fit their 16 bits
   and sizes that are those of what follows (replay_matroska.rs). *)
FilesFaithful ==
    /\ part = "mp4" =>
         Mp4!TypeOK /\ Mp4!VideoExact /\ Mp4!Complete /\ Mp4!GapsKept /\ Mp4!FragmentBounded
    /\ part = "matroska" =>
         /\ Matroska!TypeOK /\ Matroska!NeverBack /\ Matroska!LaidOutAlike
         /\ Matroska!TimesFit /\ Matroska!SizesHold
===============================================================================
