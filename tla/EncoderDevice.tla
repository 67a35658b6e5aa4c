---------------------------- MODULE EncoderDevice ----------------------------
(***************************************************************************)
(* How one hardware encoder comes to exist and goes away                   *)
(* (vulkan_replay_backend_inner in lib.rs, replay_video.rs, conversion.rs  *)
(* and its submodules): the game's GPU is looked up twice, in two          *)
(* independent enumerations, then about fifteen kinds of native objects    *)
(* are created one on another.  Any call may fail; guards and destructors  *)
(* then give back exactly what exists, children first.  The reference      *)
(* pictures are shared by several conversion slots and owned by one.       *)
(***************************************************************************)
EXTENDS Integers, Sequences, FiniteSets, SequencesExt

CONSTANTS Enumerations,  \* what vkEnumeratePhysicalDevices may list: sequences of identities
          Nvidia,        \* identities of NVIDIA devices
          Foreign,       \* identities of other vendors than AMD and NVIDIA
          Lacks,         \* <<identity, what it lacks>>
          Sources,       \* identity the frame's producer reported, or NoGpu
          SlotCount,     \* CONVERSION_SLOT_COUNT
          DpbCount       \* DPB_SLOT_COUNT

NoGpu == "none"

VARIABLES phase,     \* closed, probe, open, building, running, unwinding
          request,   \* [source, nvidia, required, image]: image for a DRM image, not a packed buffer
          probed,    \* identity of the probe's candidate
          index,     \* where the probe found it
          opened,    \* identity of the device that was opened
          next,      \* stages built so far
          live,      \* native objects that exist
          doomed,    \* objects the running destructor still visits, in order
          layered,   \* one layered reference image instead of separate ones
          twice      \* some object was destroyed a second time

vars == <<phase, request, probed, index, opened, next, live, doomed, layered, twice>>

Slots == 0 .. SlotCount - 1
One(h) == <<h, 0>>
\* An object of every slot, slot by slot: upwards as they are made, downwards
\* as the guards go through them.
Up(kinds) == [i \in 1 .. Len(kinds) * SlotCount |-> <<kinds[((i - 1) % Len(kinds)) + 1], (i - 1) \div Len(kinds)>>]
Down(kinds) == [i \in 1 .. Len(kinds) * SlotCount |-> <<kinds[((i - 1) % Len(kinds)) + 1], SlotCount - 1 - (i - 1) \div Len(kinds)>>]
Dpb == {"dpb"} \X Slots

\* What has to exist as long as an object does: session and output memory
\* outlive what was bound to them.
Needs(o) ==
    CASE o = One("library") -> {}
      [] o = One("instance") -> {One("library")}
      [] o = One("device") -> {One("instance")}
      [] o = One("session") -> {One("device"), One("memory")}
      [] o = One("parameters") -> {One("device"), One("session")}
      [] o = One("pool") -> {One("device"), One("setlayout")}
      [] o[1] = "bitstream" -> {One("device"), <<"output", o[2]>>}
      [] OTHER -> {One("device")}

Init ==
    /\ phase = "closed" /\ request = [source |-> NoGpu, nvidia |-> FALSE, required |-> FALSE, image |-> FALSE]
    /\ probed = NoGpu /\ index = 0 /\ opened = NoGpu
    /\ next = 0 /\ live = {} /\ doomed = <<>> /\ layered = FALSE /\ twice = FALSE

-----------------------------------------------------------------------------
(* Choosing the device. *)

\* validate_game_gpu_identity: a game has to name its GPU, and only an AMD or
\* an admitted NVIDIA one is used.
Admitted(source, nvidia, required) ==
    /\ ~(required /\ source = NoGpu)
    /\ source \notin Foreign
    /\ ~(source \in Nvidia /\ ~nvidia)

\* A game's frame, or a diagnostic one without an identity, asks for an encoder.
Request(source, nvidia, required, image) ==
    /\ phase = "closed" /\ live = {}
    /\ Admitted(source, nvidia, required)
    /\ phase' = "probe" /\ request' = [source |-> source, nvidia |-> source \in Nvidia, required |-> required, image |-> image]
    /\ live' = {One("library")}
    /\ probed' = NoGpu /\ index' = 0 /\ opened' = NoGpu /\ next' = 0
    /\ UNCHANGED <<doomed, layered, twice>>

\* The device loop of probe_local: the producer's own device, of the one
\* vendor asked for, ...
Matches(gpu) ==
    /\ request.source # NoGpu => gpu = request.source
    /\ gpu \in Nvidia <=> request.nvidia
    /\ gpu \notin Foreign
\* ... with a stable identity and the extensions, that imports the frames'
\* buffers, has queues to convert and encode on, ...
Imports(gpu) == <<gpu, "import">> \notin Lacks
HasQueues(gpu) == <<gpu, "queues">> \notin Lacks
\* ... and encodes this size, rate and quality from and to formats it knows.
Encodes(gpu) == <<gpu, "profile">> \notin Lacks
HasFormats(gpu) == <<gpu, "formats">> \notin Lacks
Capable(gpu) == Imports(gpu) /\ HasQueues(gpu) /\ Encodes(gpu) /\ HasFormats(gpu)

\* probe_local works in an instance of its own and takes the first device
\* that passes; a library or an instance that cannot be had ends the open.
Probe(list) ==
    /\ phase = "probe"
    /\ LET found == SelectInSeq(list, LAMBDA g : Matches(g) /\ Capable(g)) IN
       IF found = 0
       THEN /\ phase' = "closed" /\ live' = {}
            /\ UNCHANGED <<probed, index>>
       ELSE /\ phase' = "open" /\ probed' = list[found] /\ index' = found
            /\ live' = {One("library"), One("instance")}
    /\ UNCHANGED <<request, opened, next, doomed, layered, twice>>

\* device_identity::select: the one device of the second list that has the
\* probed identity; none when two report it.
Selected(list) ==
    LET same == {i \in DOMAIN list : list[i] = probed} IN
    IF Cardinality(same) = 1 THEN probed ELSE NoGpu

\* What the destructors visit, newest owner first: the device and what it was
\* opened from, the session with its memory, ...
Roots == <<One("parameters"), One("session"), One("memory"), One("device"), One("instance"), One("library")>>
\* ... the conversion slots' images, ...
SlotImages == Down(<<"dpb", "input", "chroma", "luma">>)
\* ... the output slots, ...
\* Variant of Outputs: the memory goes before the buffer bound to it.
OutputsMemoryFirst == Down(<<"query", "output", "bitstream">>)
Outputs == Down(<<"query", "bitstream", "output">>)
\* ... and the fences, semaphores and command pools.
Execution == Up(<<"computefence">>) \o Up(<<"fence">>) \o Up(<<"semaphore">>) \o <<One("encodepool"), One("computepool")>>

\* The build guard of create_encoder.
Guards == <<One("pipeline"), One("shader"), One("pipelinelayout"), One("sampler"), One("pool"), One("setlayout")>>
Unwinding == Outputs \o Execution \o Guards \o SlotImages \o Roots
\* Drop of the complete encoder, its GPU work finished.
Dropping ==
    Execution \o Outputs \o <<One("pipeline"), One("pipelinelayout"), One("pool"), One("sampler"), One("setlayout")>>
    \o SlotImages \o Roots

\* open_device in an instance of its own: a device that is gone, listed
\* twice, or cannot be created takes the instance with it.
Open(list, created) ==
    /\ phase = "open"
    /\ IF Selected(list) # NoGpu /\ created
       THEN /\ phase' = "building" /\ opened' = Selected(list) /\ live' = live \cup {One("device")}
            /\ UNCHANGED doomed
       ELSE /\ phase' = "unwinding" /\ doomed' = Roots
            /\ UNCHANGED <<opened, live>>
    /\ UNCHANGED <<request, probed, index, next, layered, twice>>

-----------------------------------------------------------------------------
(* Building the encoder. *)

\* The objects of create_encoder's slots, and who owns the reference pictures:
\* the first DpbCount slots, or the first one when they are layers.
DpbOwners == IF layered THEN {0} ELSE 0 .. DpbCount - 1
Owned(s) == s \in DpbOwners
\* The reference picture a slot uses.
DpbOf(s) == <<"dpb", IF layered THEN 0 ELSE s % DpbCount>>

\* create_video_session and create_h264_parameters: the session, the memory
\* it asks for, the parameters and their encoded form.
SessionStages == <<One("session"), One("memory")>>
ParameterStages == <<One("parameters")>>
\* The images, the references once every slot has its own.
ImageStages == Up(<<"luma", "chroma", "input">>) \o [i \in 1 .. Cardinality(DpbOwners) |-> <<"dpb", i - 1>>]
\* The descriptors; a sampler only to read images.
DescriptorStages ==
    <<One("setlayout")>> \o (IF request.image THEN <<One("sampler")>> ELSE <<>>) \o <<One("pool")>>
\* The conversion pipeline.
PipelineStages == <<One("pipelinelayout"), One("shader"), One("pipeline")>>
\* ExecutionResources::new.
ExecutionStages == <<One("computepool"), One("encodepool")>> \o Up(<<"semaphore", "fence", "computefence">>)
\* EncodeResources::new, one create_slot after the other.
EncodeStages == Up(<<"bitstream", "output", "query">>)
Stages == SessionStages \o ParameterStages \o ImageStages \o DescriptorStages \o PipelineStages
          \o ExecutionStages \o EncodeStages

\* One more object, or an error that leaves through the guards.  The shader
\* module goes as soon as the pipeline is made.
Create ==
    /\ phase = "building" /\ next < Len(Stages)
    /\ live' = (live \cup {Stages[next + 1]}) \ (IF Stages[next + 1] = One("pipeline") THEN {One("shader")} ELSE {})
    /\ next' = next + 1
    /\ UNCHANGED <<phase, request, probed, index, opened, doomed, layered, twice>>

CreateFails ==
    /\ phase = "building" /\ next < Len(Stages)
    /\ phase' = "unwinding" /\ doomed' = Unwinding
    /\ UNCHANGED <<request, probed, index, opened, next, live, layered, twice>>

\* The device reports whether references may be separate images.
Layers ==
    /\ phase = "building" /\ next = 0 /\ ~layered
    /\ layered' = TRUE
    /\ UNCHANGED <<phase, request, probed, index, opened, next, live, doomed, twice>>

\* With the output slots the encoder is complete; the backend checks its
\* stream headers.
Complete(valid) ==
    /\ phase = "building" /\ next = Len(Stages)
    /\ UNCHANGED live
    /\ IF valid THEN phase' = "running" /\ UNCHANGED doomed
                ELSE phase' = "unwinding" /\ doomed' = Dropping
    /\ UNCHANGED <<request, probed, index, opened, next, layered, twice>>

\* The runtime drops the encoder, its work finished.
Retire ==
    /\ phase = "running"
    /\ phase' = "unwinding" /\ doomed' = Dropping
    /\ UNCHANGED <<request, probed, index, opened, next, live, layered, twice>>

\* One step of a destructor: a handle that is null, or not owned by the slot
\* that names it, is passed over.
Destroy ==
    /\ phase = "unwinding" /\ doomed # <<>>
    /\ LET o == Head(doomed)
           target == IF o \in Dpb THEN DpbOf(o[2]) ELSE o
           \* a slot's reference is null until its stage, and shared ones until all are made
           named == o \in Dpb => \/ o[2] \in DpbOwners /\ o \in live
                                 \/ o[2] \notin DpbOwners /\ next >= Len(SessionStages \o ParameterStages \o ImageStages)
           mine == named /\ (o \in Dpb => Owned(o[2])) IN
       /\ live' = IF mine THEN live \ {target} ELSE live
       /\ twice' = (twice \/ (mine /\ o \in Dpb /\ target \notin live))
    /\ doomed' = Tail(doomed)
    /\ UNCHANGED <<phase, request, probed, index, opened, next, layered>>

Closed ==
    /\ phase = "unwinding" /\ doomed = <<>>
    /\ phase' = "closed" /\ opened' = NoGpu /\ layered' = FALSE /\ next' = 0
    /\ request' = [source |-> NoGpu, nvidia |-> FALSE, required |-> FALSE, image |-> FALSE] /\ probed' = NoGpu /\ index' = 0
    /\ UNCHANGED <<live, doomed, twice>>

Next ==
    \/ \E source \in Sources, nvidia, required, image \in BOOLEAN : Request(source, nvidia, required, image)
    \/ \E list \in Enumerations : Probe(list)
    \/ \E list \in Enumerations, created \in BOOLEAN : Open(list, created)
    \/ Create \/ CreateFails \/ Layers
    \/ \E valid \in BOOLEAN : Complete(valid)
    \/ Retire \/ Destroy \/ Closed

Spec == Init /\ [][Next]_vars /\ WF_vars(Destroy \/ Closed)

-----------------------------------------------------------------------------
(* Properties. *)

TypeOK ==
    /\ phase \in {"closed", "probe", "open", "building", "running", "unwinding"}
    /\ live \subseteq Range(Unwinding) /\ Range(doomed) \subseteq Range(Unwinding)
    /\ next \in 0 .. Len(Stages) /\ twice \in BOOLEAN

\* The encoder runs on the GPU that rendered the game, whatever the second
\* enumeration looks like; a game without an identity gets none.
RightDevice ==
    phase \in {"building", "running"} =>
        /\ opened = probed
        /\ request.source # NoGpu => opened = request.source
        /\ request.required => request.source # NoGpu

\* When an open has failed or an encoder is gone nothing is left, and no
\* shared reference picture was destroyed twice.
NothingLeft == (phase = "closed" => live = {}) /\ ~twice
=============================================================================
