------------------------------- MODULE Mp4Mux -------------------------------
(***************************************************************************)
(* The fragmented MP4 a saved clip is written as (replay_mp4.rs): the      *)
(* streaming writer, which pulls one video packet at a time and holds one  *)
(* fragment in memory, and its twin over a ring snapshot.                  *)
(*                                                                         *)
(* Time is counted in ticks.  A box is the facts a player reads from it: a *)
(* fragment is its track, its sequence number, the decode time of its      *)
(* first sample and its samples' durations; the packet's own time and size *)
(* stay beside each sample for the properties.                             *)
(***************************************************************************)
EXTENDS Integers, Sequences, SequencesExt, FiniteSetsExt

CONSTANTS
    Origin,       \* the timestamp of the first video packet
    Ends,         \* where the window may end
    VideoUnit,    \* ticks in a unit of TIMESCALE
    AudioUnit,    \* ticks in a sample of the Opus clock
    Frame,        \* ticks in an Opus packet (960 samples)
    Tolerance,    \* the audio gap that is no gap (5 ms)
    MaxRun,       \* packets in an audio fragment (1500)
    MaxDuration,  \* MAX_FRAGMENT_DURATION_NS
    MaxBytes,     \* MAX_STREAM_FRAGMENT_BYTES
    Gaps,         \* bound: ticks between two video packets
    Sizes,        \* bound: payload sizes
    MaxPackets,   \* bound: video packets
    AudioInputs,  \* bound: <<system packets, microphone packets>>: [at, bad]
    None

VARIABLES
    streaming,  \* which of the two writers
    end,        \* the window's end
    audio,      \* the tracks, the microphone's None when there was none
    source,     \* the video packets the source gave: [at, key, size]
    chunk,      \* the packets of the fragment being gathered
    declared,   \* the tracks of the moov box
    out,        \* the fragments written
    from,       \* the next audio packet of the track being written
    pc          \* what is being written

vars == <<streaming, end, audio, source, chunk, declared, out, from, pc>>
inputs == <<streaming, end, audio>>

VideoTrack == 1
SystemTrack == 2
MicrophoneTrack == 3

Init ==
    /\ streaming \in BOOLEAN /\ end \in Ends /\ audio \in AudioInputs
    /\ source = <<>> /\ chunk = <<>> /\ declared = {} /\ out = <<>> /\ from = 1
    /\ pc = "header"

\* The audio of a track that starts inside the video.
Windowed(track) ==
    IF track = None THEN <<>>
    ELSE SelectSeq(track, LAMBDA p : p.at >= Origin /\ p.at < end)
Heard(id) == Windowed(audio[id - 1])

Fails == pc' = "failed" /\ UNCHANGED <<inputs, source, chunk, declared, out, from>>

Tracks ==
    IF streaming /\ Heard(SystemTrack) = <<>> /\ Heard(MicrophoneTrack) = <<>>
    THEN {VideoTrack}
    ELSE {VideoTrack, SystemTrack}
           \cup (IF audio[2] = None THEN {} ELSE {MicrophoneTrack})

WriteHeader ==
    /\ pc = "header"
    /\ \A id \in {SystemTrack, MicrophoneTrack} :
           \A i \in 1..Len(Heard(id)) : ~Heard(id)[i].bad
    /\ declared' = Tracks /\ pc' = "video"
    /\ UNCHANGED <<inputs, source, chunk, out, from>>

\* A codec other than H.264, a sound packet that is not one, or, for a ring, any
\* video packet that is not valid, an empty ring and one that starts without a
\* keyframe.
RefuseHeader == pc = "header" /\ Fails

\* to_timescale.
ToTimescale(ticks) == ticks \div VideoUnit

Duration(at, next) == ToTimescale(next - Origin) - ToTimescale(at - Origin)

\* moof: the fragment's samples last until the next one starts, the last of the
\* fragment until `next`.
Moof(packets, next) ==
    [track |-> VideoTrack, sequence |-> Len(out) + 1,
     base |-> ToTimescale(packets[1].at - Origin),
     samples |->
        [i \in 1..Len(packets) |->
            [at |-> packets[i].at, size |-> packets[i].size,
             duration |-> Duration(packets[i].at,
                                   IF i < Len(packets) THEN packets[i + 1].at ELSE next)]]]

Lasting(fragment) == \A i \in 1..Len(fragment.samples) : fragment.samples[i].duration > 0

\* write_fragment: nothing of it is left when it fails (the store removes the
\* file).
WriteFragment(packets, next) ==
    LET fragment == Moof(packets, next)
    IN Lasting(fragment) /\ out' = Append(out, fragment)

Bytes(packets) == FoldLeft(LAMBDA sum, p : sum + p.size, 0, packets)

\* Where a fragment ends: at a keyframe and after the longest time, which is all
\* the ring's writer looks at, and, for a stream, before it outgrows its memory.
\* A variant that counts what it already holds.
RingSplits(p) == p.key \/ p.at - chunk[1].at >= MaxDuration
TooLarge(p) == Bytes(chunk) + p.size > MaxBytes
Splits(p) ==
    /\ chunk # <<>>
    /\ RingSplits(p) \/ (streaming /\ TooLarge(p))

NextPackets ==
    {p \in [at : IF source = <<>> THEN {Origin} ELSE {Last(source).at + g : g \in Gaps},
            key : BOOLEAN, size : Sizes] : p.at < end}

\* next_packet and the loop around it.
NextPacket ==
    /\ pc = "video" /\ Len(source) < MaxPackets
    /\ \E p \in NextPackets :
        /\ source = <<>> => p.key
        /\ source' = Append(source, p)
        /\ \/ /\ Splits(p) /\ WriteFragment(chunk, p.at) /\ chunk' = <<p>>
           \/ /\ ~Splits(p) /\ chunk' = Append(chunk, p) /\ UNCHANGED out
    /\ UNCHANGED <<inputs, declared, from, pc>>

\* The end of the source: the last packet lasts to the end of the window.
EndOfVideo ==
    /\ pc = "video" /\ chunk # <<>>
    /\ WriteFragment(chunk, end) /\ chunk' = <<>>
    /\ pc' = "system" /\ UNCHANGED <<inputs, source, declared, from>>

\* A packet without its keyframe, invalid, out of time or that cannot be written,
\* an empty source, or a save that was cancelled.
FailVideo == pc = "video" /\ Fails

Gap(p, q) == q.at - (p.at + Frame) > Tolerance

\* The end of the run that starts at `i`: the packets that follow without a gap.
RunEnd(packets, i) ==
    Max({j \in i..Len(packets) :
            /\ j - i < MaxRun
            /\ \A k \in i..(j - 1) : ~Gap(packets[k], packets[k + 1])})

\* audio_moof: samples of a fixed duration from the time of the first.
AudioMoof(id, packets) ==
    [track |-> id, sequence |-> Len(out) + 1,
     base |-> (packets[1].at - Origin) \div AudioUnit,
     samples |-> [i \in 1..Len(packets) |->
                     [at |-> packets[i].at, size |-> 0, duration |-> Frame \div AudioUnit]]]

TrackOf == IF pc = "system" THEN SystemTrack ELSE MicrophoneTrack
AfterTrack == IF pc = "system" THEN "microphone" ELSE "done"

\* write_streaming_audio_fragments and its twin: one fragment, then the next; the
\* microphone after the system's sound.
WriteAudio ==
    /\ pc \in {"system", "microphone"}
    /\ LET packets == Heard(TrackOf)
       IN \/ /\ from <= Len(packets)
             /\ LET last == RunEnd(packets, from)
                IN /\ out' = Append(out, AudioMoof(TrackOf, SubSeq(packets, from, last)))
                   /\ from' = last + 1
             /\ UNCHANGED pc
          \/ /\ from > Len(packets)
             /\ from' = 1 /\ pc' = AfterTrack /\ UNCHANGED out
    /\ UNCHANGED <<inputs, source, chunk, declared>>

\* A write fails, or a stream's save is cancelled between two fragments.
FailAudio ==
    /\ pc \in {"system", "microphone"} /\ from <= Len(Heard(TrackOf)) /\ Fails

Finished == pc \in {"done", "failed"} /\ UNCHANGED vars

Next ==
    \/ WriteHeader \/ RefuseHeader \/ NextPacket \/ EndOfVideo \/ FailVideo
    \/ WriteAudio \/ FailAudio \/ Finished
Spec == Init /\ [][Next]_vars

-----------------------------------------------------------------------------
Of(id) == SelectSeq(out, LAMBDA f : f.track = id)
Samples(id) == FoldLeft(LAMBDA all, f : all \o f.samples, <<>>, Of(id))

\* What a player computes: the decode time of sample i of a fragment.
Decoded(f, i) == f.base + FoldLeft(LAMBDA t, s : t + s.duration, 0, SubSeq(f.samples, 1, i - 1))

TypeOK ==
    /\ pc \in {"header", "video", "system", "microphone", "done", "failed"}
    /\ chunk # <<>> => pc \in {"video", "failed"}
    /\ declared \subseteq {VideoTrack, SystemTrack, MicrophoneTrack}
    /\ \A n \in 1..Len(out) :
        /\ out[n].sequence = n
        /\ \A i \in 1..Len(out[n].samples) : out[n].samples[i].duration \in Nat \ {0}

\* A player shows every frame at its own time, whatever the fragment it is in: the
\* durations of a fragment lose nothing to rounding, and a fragment ends where the
\* next one starts ("so fractional intervals do not lose a microsecond on every
\* sample", moof).
VideoExact ==
    LET video == Of(VideoTrack)
    IN \A n \in 1..Len(video) :
        /\ \A i \in 1..Len(video[n].samples) :
               Decoded(video[n], i) = ToTimescale(video[n].samples[i].at - Origin)
        /\ n < Len(video) =>
               Decoded(video[n], Len(video[n].samples) + 1) = video[n + 1].base

\* A finished clip holds every packet of the source and all the sound that starts
\* in its window, once and in order, in tracks that its moov declares.
Complete ==
    /\ \A n \in 1..Len(out) : out[n].track \in declared
    /\ pc = "done" =>
        /\ [i \in 1..Len(Samples(VideoTrack)) |-> Samples(VideoTrack)[i].at]
             = [i \in 1..Len(source) |-> source[i].at]
        /\ \A id \in {SystemTrack, MicrophoneTrack} :
            [i \in 1..Len(Samples(id)) |-> Samples(id)[i].at]
              = [i \in 1..Len(Heard(id)) |-> Heard(id)[i].at]

\* Missing sound stays missing: a packet is played before its time by no more than
\* the tolerance for each packet before it in its fragment ("so tfdt preserves the
\* missing time instead of collapsing the later sound").
GapsKept ==
    \A n \in 1..Len(out) :
        out[n].track # VideoTrack =>
            \A i \in 1..Len(out[n].samples) :
                out[n].samples[i].at - Origin - Decoded(out[n], i) * AudioUnit
                    <= (i - 1) * Tolerance + (AudioUnit - 1)

\* A stream holds no more than its bound in memory, a single packet apart.
FragmentBounded ==
    streaming =>
        \A n \in 1..Len(out) :
            Len(out[n].samples) > 1 => Bytes(out[n].samples) <= MaxBytes
=============================================================================
