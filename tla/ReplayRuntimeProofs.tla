-------------------------- MODULE ReplayRuntimeProofs --------------------------
(***************************************************************************)
(* Proofs about ReplayRuntime for any number of saves and epochs and any   *)
(* bound on the waiting names.                                             *)
(***************************************************************************)
EXTENDS ReplayRuntime, FiniteSetTheorems, TLAPS

Underway == {"first", "joined", "fallback", "result"}

(* Who may have a worker: the runtime's handle, or during a shutdown the save it
   joins. A shutdown takes the handle and admits no other save, so the two never
   name a worker at once. *)
OneOwner ==
  /\ IF pump = "join" THEN stopping /\ handle = 0 ELSE joining = 0
  /\ \A s \in Saves : threads[s].at \in Underway => s \in {handle, joining}

(* Saving is shown for the save whose worker is under way, over a recorder. *)
SavingHeld ==
  phase = "Saving" => /\ pipeline = "active"
                      /\ saver \in Saves /\ threads[saver].at \in Underway

(* Saves are made in the order of their numbers, one after the other. *)
InOrder ==
  \A s, t \in Saves : s < t /\ threads[s].at # "done" => threads[t].at = "none"

(* A worker that reports success has a clip, and what is announced is over. *)
ClipsHeld ==
  /\ pipeline # "none" => epoch # 0
  /\ \A s \in Saves : threads[s].at # "none" => threads[s].epoch # 0
  /\ \A s \in Saves : threads[s].ok => clips[s] # 0
  /\ \A s \in announced : threads[s].at = "done" /\ clips[s] # 0

RInv == TypeOK /\ OneOwner /\ SavingHeld /\ InOrder /\ ClipsHeld /\ ClipsAnnounced

--------------------------------------------------------------------------------
(* What MarkFailed leaves, whichever way the backend stops. *)
LEMMA MarkFailedType ==
  ASSUME TypeOK, MarkFailed
  PROVE  /\ phase' = "Failed" /\ pipeline' \in {"none", "active", "stuck"}
         /\ pipeline = "none" => pipeline' = "none"
         /\ disk' = "gone" /\ buffered' = FALSE /\ epoch' = epoch
BY DEF TypeOK, MarkFailed

(* A step of the pump keeps the types. *)
LEMMA PumpType ==
  ASSUME TypeOK,
         Start \/ EnterRecovery \/ SubmitFrame \/ StorageFails \/ SpoolResets
         \/ ResetBackend \/ BeginShutdown \/ FinishShutdown \/ NextSession
  PROVE  TypeOK'
<1>1. CASE Start
  <2>1. epoch' \in 0..MaxEpochs /\ 0 \in 0..MaxSaves
    BY <1>1, RuntimeAssumption DEF TypeOK, Start
  <2> QED
    BY <1>1, <2>1 DEF TypeOK, Start, news
<1>2. CASE EnterRecovery
  BY <1>2, MarkFailedType DEF TypeOK, EnterRecovery, saves, news
<1>3. CASE SubmitFrame
  BY <1>3 DEF TypeOK, SubmitFrame, saves, news
<1>4. CASE StorageFails
  BY <1>4 DEF TypeOK, StorageFails, saves, news
<1>5. CASE SpoolResets
  BY <1>5 DEF TypeOK, SpoolResets, saves, news
<1>6. CASE ResetBackend
  <2>1. /\ phase' \in {phase, "Failed"} /\ pipeline' \in {"none", "active", "stuck"}
        /\ disk' \in {"gone", "empty", "buffered", "stale"}
    BY <1>6, MarkFailedType DEF TypeOK, ResetBackend
  <2>2. buffered' = FALSE
    BY <1>6, MarkFailedType DEF ResetBackend
  <2>3. epoch < MaxEpochs /\ (epoch' = epoch \/ epoch' = epoch + 1)
    BY <1>6, MarkFailedType DEF ResetBackend
  <2>4. epoch' \in 0..MaxEpochs
    BY <2>3, RuntimeAssumption DEF TypeOK
  <2> QED
    BY <1>6, <2>1, <2>2, <2>4 DEF TypeOK, ResetBackend, news
<1>7. CASE BeginShutdown
  BY <1>7, RuntimeAssumption DEF TypeOK, BeginShutdown, recorder, news
<1>8. CASE FinishShutdown
  <2>1. phase' \in {"Inactive", "Failed"} /\ pipeline' \in {"none", "stuck"}
    BY <1>8 DEF FinishShutdown
  <2>2. 0 \in 0..MaxSaves
    BY RuntimeAssumption
  <2> QED
    BY <1>8, <2>1, <2>2 DEF TypeOK, FinishShutdown, saves, news
<1>9. CASE NextSession
  BY <1>9 DEF TypeOK, NextSession, recorder, saves, news
<1> QED
  BY <1>1, <1>2, <1>3, <1>4, <1>5, <1>6, <1>7, <1>8, <1>9

(* A save request and the steps of its worker keep the types. *)
LEMMA SaveType ==
  ASSUME TypeOK, Save
  PROVE  TypeOK'
<1>1. PICK s \in Saves : 
        /\ \/ /\ phase' = "Saving"
              /\ handle' = s
              /\ threads' = [threads EXCEPT ![s] = [at |-> "first", asked |-> epoch,
                                                    epoch |-> epoch, ok |-> FALSE]]
              /\ saver' = s
              /\ UNCHANGED recorder
           \/ /\ MarkFailed
              /\ handle' = 0
              /\ UNCHANGED <<threads, saver>>
        /\ UNCHANGED <<stopping, clips, pump, joining, news, discarded>>
  BY DEF Save
<1>2. s \in 0..MaxSaves /\ 0 \in 0..MaxSaves
  BY RuntimeAssumption DEF Saves
<1>3. CASE MarkFailed /\ handle' = 0 /\ UNCHANGED <<threads, saver>>
  BY <1>1, <1>2, <1>3, MarkFailedType DEF TypeOK, news
<1>4. CASE /\ phase' = "Saving"
           /\ handle' = s
           /\ threads' = [threads EXCEPT ![s] = [at |-> "first", asked |-> epoch,
                                                 epoch |-> epoch, ok |-> FALSE]]
           /\ saver' = s
           /\ UNCHANGED recorder
  <2>1. [at |-> "first", asked |-> epoch, epoch |-> epoch, ok |-> FALSE]
          \in [at : {"none", "first", "joined", "fallback", "result", "done"},
               asked : 0..MaxEpochs, epoch : 0..MaxEpochs, ok : BOOLEAN]
    BY DEF TypeOK
  <2> QED
    BY <1>1, <1>2, <1>4, <2>1 DEF TypeOK, recorder, news
<1> QED
  BY <1>1, <1>3, <1>4

LEMMA WorkerType ==
  ASSUME TypeOK, NEW s \in Saves, SaveWorker(s)
  PROVE  TypeOK'
<1> DEFINE Thread == [at : {"none", "first", "joined", "fallback", "result", "done"},
                      asked : 0..MaxEpochs, epoch : 0..MaxEpochs, ok : BOOLEAN]
<1>1. threads[s] \in Thread /\ threads[s].epoch \in 0..MaxEpochs /\ epoch \in 0..MaxEpochs
  BY DEF TypeOK
<1>2. CASE JobEnds(s)
  <2>1. threads' \in [Saves -> Thread]
    <3>1. PICK a \in {"joined", "result"} :
            \/ threads' = [threads EXCEPT ![s].at = a, ![s].ok = TRUE]
            \/ threads' = [threads EXCEPT ![s].at = a]
      BY <1>2 DEF JobEnds
    <3>2. CASE threads' = [threads EXCEPT ![s].at = a, ![s].ok = TRUE]
      BY <1>1, <3>2 DEF TypeOK
    <3>3. CASE threads' = [threads EXCEPT ![s].at = a]
      BY <1>1, <3>3 DEF TypeOK
    <3> QED
      BY <3>1, <3>2, <3>3
  <2>2. clips' \in [Saves -> 0..MaxEpochs]
    BY <1>1, <1>2 DEF TypeOK, JobEnds
  <2> QED
    BY <1>2, <2>1, <2>2 DEF TypeOK, JobEnds, recorder, news
<1>3. CASE Fallback(s)
  <2>1. threads' \in [Saves -> Thread]
    <3>1. \/ threads' = [threads EXCEPT ![s].at = "result"]
          \/ threads' = [threads EXCEPT ![s].at = "fallback", ![s].epoch = epoch]
      BY <1>3 DEF Fallback
    <3>2. CASE threads' = [threads EXCEPT ![s].at = "result"]
      BY <1>1, <3>2 DEF TypeOK
    <3>3. CASE threads' = [threads EXCEPT ![s].at = "fallback", ![s].epoch = epoch]
      BY <1>1, <3>3 DEF TypeOK
    <3> QED
      BY <3>1, <3>2, <3>3
  <2>2. /\ phase' \in {phase, "Failed"} /\ pipeline' \in {"none", "active", "stuck"}
        /\ disk' \in {disk, "gone"} /\ buffered' \in {buffered, FALSE}
        /\ epoch' = epoch
    <3>1. CASE MarkFailed
      BY <3>1, MarkFailedType
    <3> QED
      BY <1>3, <3>1 DEF Fallback, recorder, TypeOK
  <2>3. discarded' \in BOOLEAN
    BY <1>3, Zenon DEF Fallback, TypeOK
  <2> QED
    BY <1>3, <2>1, <2>2, <2>3 DEF TypeOK, Fallback, news
<1>4. CASE Complete(s)
  <2>1. threads' \in [Saves -> Thread]
    BY <1>1, <1>4 DEF TypeOK, Complete
  <2>2. phase' \in {phase, "Buffering"}
    BY <1>4 DEF Complete
  <2>3. revision' \in Nat /\ announced' \subseteq Saves
    BY <1>4 DEF TypeOK, Complete, news
  <2>4. names' \in Seq(Saves) /\ Len(names') <= MaxNames
    <3>1. CASE phase = "Saving" /\ threads[s].ok
      <4> DEFINE kept == IF Len(names) >= MaxNames THEN Tail(names) ELSE names
      <4>1. names' = Append(kept, s)
        BY <1>4, <3>1 DEF Complete, PushName
      <4>2. kept \in Seq(Saves) /\ Len(kept) + 1 <= MaxNames
        BY RuntimeAssumption DEF TypeOK
      <4>3. Append(kept, s) \in Seq(Saves) /\ Len(Append(kept, s)) = Len(kept) + 1
        BY <4>2
      <4> QED
        BY <4>1, <4>2, <4>3
    <3>2. CASE ~(phase = "Saving" /\ threads[s].ok)
      BY <1>4, <3>2 DEF TypeOK, Complete, news
    <3> QED
      BY <3>1, <3>2
  <2> QED
    BY <1>4, <2>1, <2>2, <2>3, <2>4 DEF TypeOK, Complete, recorder
<1> QED
  BY <1>2, <1>3, <1>4 DEF SaveWorker

LEMMA InitType == ASSUME Init PROVE TypeOK
<1>1. 0 \in 0..MaxSaves /\ 0 \in 0..MaxEpochs /\ 0 \in Nat /\ 0 <= MaxNames
  BY RuntimeAssumption
<1>2. threads \in [Saves -> [at : {"none", "first", "joined", "fallback", "result", "done"},
                            asked : 0..MaxEpochs, epoch : 0..MaxEpochs, ok : BOOLEAN]]
  BY <1>1 DEF Init, NoThread
<1>3. names \in Seq(Saves) /\ Len(names) <= MaxNames
  BY <1>1 DEF Init
<1> QED
  BY <1>1, <1>2, <1>3 DEF Init, TypeOK

LEMMA TypeStep == ASSUME TypeOK, [Next]_vars PROVE TypeOK'
<1>1. CASE UNCHANGED vars
  BY <1>1 DEF TypeOK, vars, recorder, saves, news
<1>2. CASE TakeNames
  <2>1. <<>> \in Seq(Saves) /\ Len(<<>>) <= MaxNames
    BY RuntimeAssumption
  <2> QED
    BY <1>2, <2>1 DEF TypeOK, TakeNames, recorder, saves
<1> QED
  BY <1>1, <1>2, PumpType, SaveType, WorkerType DEF Next

(* The types of every reachable state, through every path of the recorder, a save,
   its fallback and a shutdown. *)
THEOREM TypeCorrect == Spec => []TypeOK
<1>1. Init => TypeOK
  BY InitType
<1>2. TypeOK /\ [Next]_vars => TypeOK'
  BY TypeStep
<1> QED
  BY <1>1, <1>2, PTL DEF Spec

--------------------------------------------------------------------------------
(* What a worker's step may touch: its own thread and nothing of another save. *)
LEMMA WorkerMoves ==
  ASSUME TypeOK, NEW s \in Saves, SaveWorker(s)
  PROVE  /\ threads[s].at \in Underway
         /\ threads'[s].at \in Underway \cup {"done"}
         /\ threads'[s].at = "done" => phase' # "Saving"
         /\ \A t \in Saves : t # s => threads'[t] = threads[t] /\ clips'[t] = clips[t]
         /\ UNCHANGED <<handle, joining, stopping, pump, saver>>
         /\ phase' = "Saving" => phase = "Saving" /\ pipeline' = pipeline
         /\ pipeline' # "none" => pipeline # "none"
         /\ epoch' = epoch
<1>1. threads \in [Saves -> [at : {"none", "first", "joined", "fallback", "result", "done"},
                            asked : 0..MaxEpochs, epoch : 0..MaxEpochs, ok : BOOLEAN]]
  BY DEF TypeOK
<1>2. CASE JobEnds(s)
  BY <1>1, <1>2 DEF JobEnds, Underway, recorder, TypeOK
<1>3. CASE Fallback(s)
  <2>1. /\ threads[s].at = "joined"
        /\ \/ threads' = [threads EXCEPT ![s].at = "result"]
           \/ threads' = [threads EXCEPT ![s].at = "fallback", ![s].epoch = epoch]
        /\ UNCHANGED <<handle, joining, stopping, pump, saver, clips>>
    BY <1>3 DEF Fallback
  <2>2. /\ threads'[s].at \in {"result", "fallback"}
        /\ \A t \in Saves : t # s => threads'[t] = threads[t]
    BY <1>1, <2>1
  <2>3. MarkFailed \/ UNCHANGED <<phase, recorder>>
    BY <1>3 DEF Fallback
  <2>4. CASE MarkFailed
    BY <2>1, <2>2, <2>4, MarkFailedType DEF Underway
  <2>5. CASE UNCHANGED <<phase, recorder>>
    BY <2>1, <2>2, <2>5 DEF Underway, recorder
  <2> QED
    BY <2>3, <2>4, <2>5
<1>4. CASE Complete(s)
  BY <1>1, <1>4 DEF Complete, Underway, recorder
<1> QED
  BY <1>2, <1>3, <1>4 DEF SaveWorker

(* A save that is admitted finds no worker under way. *)
LEMMA SaveAlone ==
  ASSUME TypeOK, OneOwner, Save
  PROVE  joining = 0 /\ pump # "join" /\ \A t \in Saves : threads[t].at \notin Underway
<1>1. ~stopping /\ Finished(handle)
  BY DEF Save
<1>2. joining = 0 /\ pump # "join"
  BY <1>1 DEF OneOwner
<1> QED
  BY <1>1, <1>2 DEF OneOwner, Finished, Saves, Underway

LEMMA OwnerStep ==
  ASSUME TypeOK, OneOwner, [Next]_vars
  PROVE  OneOwner'
<1>1. CASE Start
  BY <1>1 DEF OneOwner, Start, Finished, Saves, Underway
<1>2. CASE EnterRecovery
  BY <1>2 DEF OneOwner, EnterRecovery, saves
<1>3. CASE SubmitFrame \/ StorageFails \/ SpoolResets
  BY <1>3 DEF OneOwner, SubmitFrame, StorageFails, SpoolResets, saves
<1>4. CASE ResetBackend
  BY <1>4 DEF OneOwner, ResetBackend
<1>5. CASE BeginShutdown
  BY <1>5 DEF OneOwner, BeginShutdown
<1>6. CASE FinishShutdown
  BY <1>6 DEF OneOwner, FinishShutdown, Finished, Saves, Underway, saves
<1>7. CASE NextSession
  BY <1>7 DEF OneOwner, NextSession, saves
<1>8. CASE Save
  <2>1. joining' = 0 /\ pump' # "join"
    BY <1>8, SaveAlone DEF Save
  <2>2. \A t \in Saves : threads'[t].at \in Underway => t = handle'
    BY <1>8, SaveAlone DEF Save, TypeOK
  <2> QED
    BY <2>1, <2>2 DEF OneOwner
<1>9. ASSUME NEW s \in Saves, SaveWorker(s)
      PROVE  OneOwner'
  BY <1>9, WorkerMoves DEF OneOwner
<1>10. CASE TakeNames
  BY <1>10 DEF OneOwner, TakeNames, saves
<1>11. CASE UNCHANGED vars
  BY <1>11 DEF OneOwner, vars, saves
<1> QED
  BY <1>1, <1>2, <1>3, <1>4, <1>5, <1>6, <1>7, <1>8, <1>9, <1>10, <1>11 DEF Next

LEMMA SavingStep ==
  ASSUME TypeOK, OneOwner, SavingHeld, [Next]_vars
  PROVE  SavingHeld'
<1>1. CASE Start
  BY <1>1 DEF SavingHeld, Start
<1>2. CASE EnterRecovery
  BY <1>2 DEF SavingHeld, EnterRecovery, MarkFailed
<1>3. CASE SubmitFrame \/ StorageFails \/ SpoolResets
  BY <1>3 DEF SavingHeld, SubmitFrame, StorageFails, SpoolResets, saves
<1>4. CASE ResetBackend
  BY <1>4 DEF SavingHeld, ResetBackend, MarkFailed
<1>5. CASE BeginShutdown
  BY <1>5 DEF SavingHeld, BeginShutdown, recorder
<1>6. CASE FinishShutdown
  BY <1>6 DEF SavingHeld, FinishShutdown
<1>7. CASE NextSession
  BY <1>7 DEF SavingHeld, NextSession, recorder, saves
<1>8. CASE Save
  BY <1>8 DEF SavingHeld, Save, MarkFailed, recorder, TypeOK, Underway
<1>9. ASSUME NEW s \in Saves, SaveWorker(s)
      PROVE  SavingHeld'
  BY <1>9, WorkerMoves DEF SavingHeld
<1>10. CASE TakeNames
  BY <1>10 DEF SavingHeld, TakeNames, recorder, saves
<1>11. CASE UNCHANGED vars
  BY <1>11 DEF SavingHeld, vars, recorder, saves
<1> QED
  BY <1>1, <1>2, <1>3, <1>4, <1>5, <1>6, <1>7, <1>8, <1>9, <1>10, <1>11 DEF Next

LEMMA OrderStep ==
  ASSUME TypeOK, OneOwner, InOrder, [Next]_vars
  PROVE  InOrder'
<1>1. CASE UNCHANGED threads
  BY <1>1 DEF InOrder
<1>2. CASE Save
  <2>1. PICK s \in Saves : NextSave(s) /\ \A t \in Saves : t # s => threads'[t] = threads[t]
    BY <1>2 DEF Save, TypeOK
  <2>2. \A t \in Saves : t < s => threads[t].at = "done"
    BY <1>2, <2>1, SaveAlone DEF NextSave, TypeOK, Underway
  <2>3. threads[s].at # "done"
    BY <2>1 DEF NextSave
  <2> QED
    BY <2>1, <2>2, <2>3 DEF InOrder, Saves
<1>3. ASSUME NEW s \in Saves, SaveWorker(s)
      PROVE  InOrder'
  <2>1. /\ threads[s].at # "none" /\ threads[s].at # "done"
        /\ \A t \in Saves : t # s => threads'[t] = threads[t]
    BY <1>3, WorkerMoves DEF Underway
  <2> QED
    BY <2>1 DEF InOrder, Saves
<1> QED
  BY <1>1, <1>2, <1>3 DEF Next, Start, EnterRecovery, SubmitFrame, StorageFails, SpoolResets,
     ResetBackend, BeginShutdown, FinishShutdown, NextSession, TakeNames, vars, saves

LEMMA ClipsStep ==
  ASSUME TypeOK, OneOwner, ClipsHeld, [Next]_vars
  PROVE  ClipsHeld'
<1>1. CASE /\ UNCHANGED <<threads, clips, announced>>
           /\ pipeline' # "none" => epoch' # 0
  BY <1>1 DEF ClipsHeld
<1>2. CASE Start
  BY <1>1, <1>2 DEF Start, TypeOK, news
<1>3. CASE EnterRecovery
  BY <1>1, <1>3 DEF ClipsHeld, EnterRecovery, MarkFailed, saves, news
<1>4. CASE SubmitFrame \/ StorageFails \/ SpoolResets
  BY <1>1, <1>4 DEF ClipsHeld, SubmitFrame, StorageFails, SpoolResets, saves, news
<1>5. CASE ResetBackend
  <2>1. CASE MarkFailed
    BY <1>1, <1>5, <2>1 DEF ClipsHeld, ResetBackend, MarkFailed, news
  <2>2. CASE epoch' = epoch + 1
    BY <1>1, <1>5, <2>2 DEF TypeOK, ResetBackend, news
  <2> QED
    BY <1>5, <2>1, <2>2 DEF ResetBackend
<1>6. CASE BeginShutdown \/ NextSession \/ TakeNames \/ UNCHANGED vars
  BY <1>1, <1>6 DEF ClipsHeld, BeginShutdown, NextSession, TakeNames, recorder, saves, news, vars
<1>7. CASE FinishShutdown
  BY <1>1, <1>7 DEF ClipsHeld, FinishShutdown, saves, news
<1>8. CASE Save
  <2>1. pipeline' # "none" => epoch' # 0
    BY <1>8 DEF ClipsHeld, Save, MarkFailed, recorder
  <2>2. UNCHANGED <<clips, announced>>
    BY <1>8 DEF Save, news
  <2>3. PICK s \in Saves :
          /\ threads[s].at = "none" /\ pipeline = "active"
          /\ \/ threads' = [threads EXCEPT ![s] = [at |-> "first", asked |-> epoch,
                                                   epoch |-> epoch, ok |-> FALSE]]
             \/ threads' = threads
    BY <1>8 DEF Save, NextSave
  <2>4. CASE threads' = threads
    BY <1>1, <2>1, <2>2, <2>4
  <2>5. CASE threads' = [threads EXCEPT ![s] = [at |-> "first", asked |-> epoch,
                                                epoch |-> epoch, ok |-> FALSE]]
    <3>1. threads'[s].epoch # 0 /\ ~threads'[s].ok
      BY <2>3, <2>5 DEF ClipsHeld, TypeOK
    <3>2. \A t \in Saves : t # s => threads'[t] = threads[t]
      BY <2>5 DEF TypeOK
    <3>3. s \notin announced
      BY <2>3 DEF ClipsHeld
    <3> QED
      BY <2>1, <2>2, <3>1, <3>2, <3>3 DEF ClipsHeld, TypeOK
  <2> QED
    BY <2>3, <2>4, <2>5
<1>9. ASSUME NEW s \in Saves, SaveWorker(s)
      PROVE  ClipsHeld'
  <2>1. /\ threads[s].at \in Underway /\ s \notin announced
        /\ threads[s].epoch # 0 /\ (threads[s].ok => clips[s] # 0)
        /\ pipeline' # "none" => epoch' # 0
        /\ \A t \in Saves : t # s => threads'[t] = threads[t] /\ clips'[t] = clips[t]
    BY <1>9, WorkerMoves DEF ClipsHeld, Underway
  <2>2. SUFFICES /\ threads'[s].epoch # 0 /\ (threads'[s].ok => clips'[s] # 0)
                 /\ announced' = announced \/ /\ announced' = announced \cup {s}
                                              /\ threads'[s].at = "done" /\ clips'[s] # 0
    BY <2>1 DEF ClipsHeld, TypeOK
  <2>3. CASE JobEnds(s)
    <3>1. announced' = announced
      BY <2>3 DEF JobEnds, news
    <3>2. PICK a \in {"joined", "result"} :
            \/ /\ threads' = [threads EXCEPT ![s].at = a, ![s].ok = TRUE]
               /\ clips' = [clips EXCEPT ![s] = threads[s].epoch]
            \/ threads' = [threads EXCEPT ![s].at = a] /\ clips' = clips
      BY <2>3 DEF JobEnds
    <3>3. CASE /\ threads' = [threads EXCEPT ![s].at = a, ![s].ok = TRUE]
               /\ clips' = [clips EXCEPT ![s] = threads[s].epoch]
      BY <2>1, <3>1, <3>3 DEF TypeOK
    <3>4. CASE threads' = [threads EXCEPT ![s].at = a] /\ clips' = clips
      BY <2>1, <3>1, <3>4 DEF TypeOK
    <3> QED
      BY <3>2, <3>3, <3>4
  <2>4. CASE Fallback(s)
    <3>1. UNCHANGED <<clips, announced>>
      BY <2>4 DEF Fallback, news
    <3>2. CASE threads' = [threads EXCEPT ![s].at = "result"]
      BY <2>1, <3>1, <3>2 DEF TypeOK
    <3>3. CASE /\ threads' = [threads EXCEPT ![s].at = "fallback", ![s].epoch = epoch]
               /\ WantsFallback(s)
      BY <2>1, <3>1, <3>3 DEF TypeOK, WantsFallback, ClipsHeld
    <3> QED
      BY <2>4, <3>2, <3>3 DEF Fallback
  <2>5. CASE Complete(s)
    BY <2>1, <2>5 DEF Complete, TypeOK, news
  <2> QED
    BY <1>9, <2>3, <2>4, <2>5 DEF SaveWorker
<1> QED
  BY <1>2, <1>3, <1>4, <1>5, <1>6, <1>7, <1>8, <1>9 DEF Next

--------------------------------------------------------------------------------
(* A save newer than all those counted becomes the last name and one more count. *)
LEMMA AnnounceStep ==
  ASSUME TypeOK, InOrder, ClipsHeld, ClipsAnnounced,
         NEW s \in Saves, Complete(s), phase = "Saving", threads[s].ok
  PROVE  ClipsAnnounced'
<1> DEFINE kept == IF Len(names) >= MaxNames THEN Tail(names) ELSE names
           off  == IF Len(names) >= MaxNames THEN 1 ELSE 0
           From(n) == {x \in announced : x >= n}
<1>1. /\ names' = Append(kept, s) /\ revision' = revision + 1
      /\ announced' = announced \cup {s} /\ clips' = clips
  BY DEF Complete, PushName
<1>2. /\ kept \in Seq(Saves) /\ off \in {0, 1} /\ Len(kept) = Len(names) - off
      /\ \A i \in 1..Len(kept) : i + off \in 1..Len(names) /\ kept[i] = names[i + off]
  BY RuntimeAssumption DEF TypeOK
<1>3. /\ Len(names') = Len(kept) + 1 /\ names'[Len(kept) + 1] = s
      /\ \A i \in 1..Len(kept) : names'[i] = kept[i]
  BY <1>1, <1>2
<1> HIDE DEF kept, off
<1>4. s \notin announced /\ \A t \in announced : t < s /\ s >= t
  BY DEF Complete, ClipsHeld, InOrder, TypeOK, Saves
<1>0. s \in Nat /\ announced \subseteq Nat
  BY DEF TypeOK, Saves
<1>5. IsFiniteSet(announced)
  <2>1. IsFiniteSet(Saves)
    BY FS_Interval, RuntimeAssumption DEF Saves
  <2> QED
    BY <2>1, FS_Subset DEF TypeOK
<1>6. revision' = Cardinality(announced')
  BY <1>1, <1>4, <1>5, FS_AddElement DEF ClipsAnnounced
<1>7. \A t \in announced' : clips'[t] # 0
  BY <1>1 DEF ClipsHeld, ClipsAnnounced
<1>8. ASSUME NEW i \in 1..Len(names')
      PROVE  /\ names'[i] \in announced'
             /\ Cardinality({x \in announced' : x >= names'[i]}) = Len(names') - i + 1
  <2>1. CASE i = Len(kept) + 1
    <3>1. {x \in announced' : x >= names'[i]} = {s}
      <4>1. names'[i] = s
        BY <1>3, <2>1
      <4>2. \A x \in announced' : x >= s <=> x = s
        BY <1>1, <1>4, <1>0
      <4> QED
        BY <1>1, <4>1, <4>2
    <3>2. Cardinality({s}) = 1
      BY FS_Singleton
    <3>3. Len(names') - i + 1 = 1 /\ names'[i] = s
      BY <1>2, <1>3, <2>1
    <3> QED
      BY <1>1, <3>1, <3>2, <3>3
  <2>2. CASE i \in 1..Len(kept)
    <3>1. names'[i] = names[i + off] /\ i + off \in 1..Len(names)
      BY <1>2, <1>3, <2>2
    <3>2. names'[i] \in announced /\ Cardinality(From(names'[i])) = Len(names) - (i + off) + 1
      BY <3>1 DEF ClipsAnnounced
    <3>3. {x \in announced' : x >= names'[i]} = From(names'[i]) \cup {s}
      <4>1. s >= names'[i]
        BY <1>4, <3>2
      <4> QED
        BY <1>1, <4>1
    <3>4. IsFiniteSet(From(names'[i])) /\ s \notin From(names'[i])
      BY <1>4, <1>5, FS_Subset
    <3>5. Cardinality(From(names'[i]) \cup {s}) = Cardinality(From(names'[i])) + 1
      BY <3>4, FS_AddElement
    <3>6. Len(names') - i + 1 = Len(names) - (i + off) + 1 + 1
      BY <1>2, <1>3, <2>2 DEF TypeOK
    <3> QED
      BY <1>1, <3>2, <3>3, <3>5, <3>6
  <2> QED
    BY <1>2, <1>3, <2>1, <2>2
<1> QED
  BY <1>6, <1>7, <1>8 DEF ClipsAnnounced

LEMMA AnnouncedStep ==
  ASSUME TypeOK, OneOwner, InOrder, ClipsHeld, ClipsAnnounced, [Next]_vars
  PROVE  ClipsAnnounced'
<1>1. CASE UNCHANGED <<clips, revision, names, announced>>
  BY <1>1 DEF ClipsAnnounced
<1>2. CASE TakeNames
  <2>1. names' = <<>> /\ Len(names') = 0 /\ UNCHANGED <<revision, announced, clips>>
    BY <1>2 DEF TakeNames, saves
  <2> QED
    BY <2>1 DEF ClipsAnnounced
<1>3. ASSUME NEW s \in Saves, JobEnds(s)
      PROVE  ClipsAnnounced'
  <2>1. UNCHANGED <<revision, names, announced>>
    BY <1>3 DEF JobEnds, news
  <2>2. \A t \in announced : clips'[t] # 0
    <3>1. s \notin announced
      BY <1>3 DEF JobEnds, ClipsHeld
    <3>2. \A t \in Saves : t # s => clips'[t] = clips[t]
      BY <1>3, WorkerMoves DEF SaveWorker
    <3> QED
      BY <3>1, <3>2 DEF ClipsHeld, TypeOK
  <2> QED
    BY <2>1, <2>2 DEF ClipsAnnounced
<1>4. ASSUME NEW s \in Saves, Complete(s)
      PROVE  ClipsAnnounced'
  <2>1. CASE phase = "Saving" /\ threads[s].ok
    BY <1>4, <2>1, AnnounceStep
  <2>2. CASE ~(phase = "Saving" /\ threads[s].ok)
    BY <1>1, <1>4, <2>2 DEF Complete, news
  <2> QED
    BY <2>1, <2>2
<1> QED
  BY <1>1, <1>2, <1>3, <1>4 DEF Next, Start, EnterRecovery, SubmitFrame, StorageFails, SpoolResets,
     ResetBackend, BeginShutdown, FinishShutdown, NextSession, Save, SaveWorker, Fallback, vars,
     saves, news

(* The inductive invariant holds always. *)
LEMMA RInvAlways == Spec => []RInv
<1>1. Init => RInv
  <2> SUFFICES ASSUME Init PROVE RInv
    OBVIOUS
  <2>1. TypeOK
    BY InitType
  <2>2. \A s \in Saves : threads[s] = NoThread
    BY DEF Init
  <2>3. OneOwner /\ SavingHeld /\ InOrder /\ ClipsHeld
    BY <2>2 DEF Init, NoThread, OneOwner, SavingHeld, InOrder, ClipsHeld, Underway
  <2>4. ClipsAnnounced
    BY FS_EmptySet DEF Init, ClipsAnnounced
  <2> QED
    BY <2>1, <2>3, <2>4 DEF RInv
<1>2. RInv /\ [Next]_vars => RInv'
  BY TypeStep, OwnerStep, SavingStep, OrderStep, ClipsStep, AnnouncedStep DEF RInv
<1> QED
  BY <1>1, <1>2, PTL DEF Spec

(* At most one save's worker is under way, the handle or the shutdown's wait owns
   it, and a runtime that shows Saving has the worker that will end it: save,
   start_validated_pipeline, reset_backend, shutdown and the status worker. *)
THEOREM SavingOwnedCorrect == Spec => []SavingOwned
<1>1. RInv => SavingOwned
  <2> SUFFICES ASSUME RInv PROVE SavingOwned
    OBVIOUS
  <2>1. TypeOK /\ OneOwner /\ SavingHeld
    BY DEF RInv
  <2>2. Live = {s \in Saves : threads[s].at \in Underway}
    BY <2>1 DEF Live, Underway, TypeOK
  <2>3. PICK o : Live \subseteq {o}
    <3>1. CASE pump = "join"
      BY <2>1, <2>2, <3>1 DEF OneOwner, Saves
    <3>2. CASE pump # "join"
      BY <2>1, <2>2, <3>2 DEF OneOwner, Saves
    <3> QED
      BY <3>1, <3>2
  <2>4. Cardinality(Live) <= 1
    <3>1. IsFiniteSet({o}) /\ Cardinality({o}) = 1
      BY FS_Singleton
    <3>2. Live \in SUBSET {o}
      BY <2>3
    <3>3. Cardinality(Live) <= Cardinality({o})
      BY <3>1, <3>2, FS_Subset
    <3> QED
      BY <3>1, <3>3
  <2>5. Live \subseteq {handle, joining}
    BY <2>1, <2>2 DEF OneOwner
  <2>6. phase = "Saving" => saver \in Live /\ pipeline = "active"
    BY <2>1, <2>2 DEF SavingHeld
  <2> QED
    BY <2>4, <2>5, <2>6 DEF SavingOwned
<1> QED
  BY <1>1, RInvAlways, PTL

(* The revision counts each announced save once, each has its durable clip, and the
   waiting names are the newest of them in order, however many were collected or
   pushed out: the status worker of save and take_committed_clip_names. *)
THEOREM ClipsAnnouncedCorrect == Spec => []ClipsAnnounced
<1>1. RInv => ClipsAnnounced
  BY DEF RInv
<1> QED
  BY <1>1, RInvAlways, PTL
===============================================================================
