------------------------- MODULE SpoolAdmissionProofs -------------------------
(***************************************************************************)
(* Proofs about SpoolAdmission for any finite number of submitting threads *)
(* and any queue and byte bounds.                                          *)
(***************************************************************************)
EXTENDS SpoolAdmission, FiniteSetTheorems, FunctionTheorems, TLAPS

Places == Counted \cup {"idle", "cas"}

\* The threads that the pc function f puts at one of the places P.
AtIn(f, P) == {s \in Submitters : f[s] \in P}

One(b) == IF b THEN 1 ELSE 0

(* A thread that moves in try_submit changes the number of threads at the
   places P by the place it leaves and the place it reaches. *)
LEMMA MoveCount ==
  ASSUME NEW f \in [Submitters -> Places], NEW s \in Submitters, NEW to, NEW P,
         NEW g, g = [f EXCEPT ![s] = to]
  PROVE  /\ Cardinality(AtIn(f, P)) \in Nat
         /\ Cardinality(AtIn(g, P)) \in Nat
         /\ Cardinality(AtIn(g, P))
              = Cardinality(AtIn(f, P)) + One(to \in P) - One(f[s] \in P)
<1> DEFINE A == AtIn(f, P)
           B == AtIn(g, P)
<1>1. IsFiniteSet(A) /\ IsFiniteSet(B)
  BY FS_Subset, AdmissionAssumption DEF AtIn
<1>2. Cardinality(A) \in Nat /\ Cardinality(B) \in Nat
  BY <1>1, FS_CardinalityType
<1>3. IsFiniteSet(A \ {s})
      /\ Cardinality(A \ {s}) = IF s \in A THEN Cardinality(A) - 1 ELSE Cardinality(A)
  BY <1>1, FS_RemoveElement
<1>4. s \in A <=> f[s] \in P
  BY DEF AtIn
<1>5. CASE to \in P
  <2>1. B = (A \ {s}) \cup {s}
    BY <1>5 DEF AtIn
  <2>2. Cardinality(B) = Cardinality(A \ {s}) + 1
    BY <2>1, <1>3, FS_AddElement
  <2> QED
    BY <2>2, <1>2, <1>3, <1>4, <1>5 DEF One
<1>6. CASE to \notin P
  <2>1. B = A \ {s}
    BY <1>6 DEF AtIn
  <2>2. One(to \in P) = 0
    BY <1>6 DEF One
  <2>3. Cardinality(B) = Cardinality(A) - One(f[s] \in P)
    <3>1. Cardinality(B) = Cardinality(A \ {s})
      BY <2>1
    <3>2. CASE f[s] \in P
      BY <3>1, <3>2, <1>2, <1>3, <1>4 DEF One
    <3>3. CASE f[s] \notin P
      BY <3>1, <3>3, <1>2, <1>3, <1>4 DEF One
    <3> QED
      BY <3>2, <3>3
  <2>4. One(f[s] \in P) \in {0, 1}
    BY DEF One
  <2> QED
    BY <2>2, <2>3, <2>4, <1>2
<1> QED
  BY <1>5, <1>6

(* The packets in the channel are finitely many. *)
LEMMA PacketsInFinite ==
  ASSUME NEW q \in Seq(Commands)
  PROVE  IsFiniteSet(PacketsIn(q)) /\ Cardinality(PacketsIn(q)) \in Nat
<1>1. Len(q) \in Nat
  OBVIOUS
<1>2. IsFiniteSet(1..Len(q))
  BY <1>1, FS_Interval
<1>3. PacketsIn(q) \in SUBSET (1..Len(q))
  BY DEF PacketsIn
<1> QED
  BY <1>2, <1>3, FS_Subset, FS_CardinalityType

(* Appending a command adds one packet if it is a packet. *)
LEMMA CountAppend ==
  ASSUME NEW q \in Seq(Commands), NEW c \in Commands
  PROVE  Cardinality(PacketsIn(Append(q, c)))
           = Cardinality(PacketsIn(q)) + One(c.kind = "packet")
<1> DEFINE n == Len(q) + 1
<1>1. /\ Len(Append(q, c)) = n /\ Len(q) \in Nat
      /\ \A i \in 1..Len(q) : Append(q, c)[i] = q[i]
      /\ Append(q, c)[n] = c
  OBVIOUS
<1>2. 1..n = (1..Len(q)) \cup {n}
  BY <1>1
<1>3. n \notin PacketsIn(q)
  BY <1>1 DEF PacketsIn
<1>4. CASE c.kind = "packet"
  <2>1. PacketsIn(Append(q, c)) = PacketsIn(q) \cup {n}
    BY <1>1, <1>2, <1>4 DEF PacketsIn
  <2> QED
    BY <2>1, <1>3, <1>4, PacketsInFinite, FS_AddElement DEF One
<1>5. CASE c.kind # "packet"
  <2>1. PacketsIn(Append(q, c)) = PacketsIn(q)
    BY <1>1, <1>2, <1>5 DEF PacketsIn
  <2> QED
    BY <2>1, <1>5, PacketsInFinite DEF One
<1> QED
  BY <1>4, <1>5

(* Taking the first command removes one packet if it is a packet. *)
LEMMA CountTail ==
  ASSUME NEW q \in Seq(Commands), q # <<>>
  PROVE  Cardinality(PacketsIn(q))
           = Cardinality(PacketsIn(Tail(q))) + One(Head(q).kind = "packet")
<1> DEFINE R == PacketsIn(q) \ {1}
           T == PacketsIn(Tail(q))
           f == [i \in T |-> i + 1]
<1>1. /\ Len(q) \in Nat /\ Len(q) >= 1 /\ Len(Tail(q)) = Len(q) - 1
      /\ Tail(q) \in Seq(Commands)
      /\ \A i \in 1..Len(q) - 1 : Tail(q)[i] = q[i + 1]
      /\ Head(q) = q[1]
  OBVIOUS
<1>2. \A i \in T : i \in Nat /\ i + 1 \in R
  BY <1>1 DEF PacketsIn
<1>3. \A j \in R : j \in Int /\ j - 1 \in T
  BY <1>1 DEF PacketsIn
<1>4. f \in Bijection(T, R)
  <2>1. f \in [T -> R]
    BY <1>2
  <2>2. \A a, b \in T : f[a] = f[b] => a = b
    BY <1>2
  <2>3. \A j \in R : \E i \in T : f[i] = j
    BY <1>3
  <2> QED
    BY <2>1, <2>2, <2>3 DEF Bijection, Injection, Surjection, IsInjective
<1>5. Cardinality(R) = Cardinality(T)
  BY <1>1, <1>4, PacketsInFinite, FS_Bijection DEF ExistsBijection
<1>6. 1 \in PacketsIn(q) <=> Head(q).kind = "packet"
  BY <1>1 DEF PacketsIn
<1>7. Cardinality(R) = IF 1 \in PacketsIn(q) THEN Cardinality(PacketsIn(q)) - 1
                                             ELSE Cardinality(PacketsIn(q))
  BY PacketsInFinite, FS_RemoveElement
<1> QED
  BY <1>5, <1>6, <1>7, PacketsInFinite DEF One

-------------------------------------------------------------------------------
\* The inductive invariant: the counters are only known to be natural numbers
\* because they are exact, so the type and the accounting go together.
AccountingInv == TypeOK /\ PacketAccounting

\* Threads at places where they hold a unit of queued_packets.
Holding == {"send", "rollback"}

(* One move of a thread, in terms of the sets the accounting counts. *)
LEMMA Moves ==
  ASSUME TypeOK, NEW s \in Submitters, NEW from, NEW to, Goto(s, from, to)
  PROVE  /\ Cardinality(At(Counted)) \in Nat
         /\ Cardinality(At(Counted)') \in Nat
         /\ Cardinality(At(Counted)')
              = Cardinality(At(Counted)) + One(to \in Counted) - One(from \in Counted)
         /\ Cardinality(At(Holding)) \in Nat
         /\ Cardinality(At(Holding)') \in Nat
         /\ Cardinality(At(Holding)')
              = Cardinality(At(Holding)) + One(to \in Holding) - One(from \in Holding)
<1>1. pc \in [Submitters -> Places] /\ pc' = [pc EXCEPT ![s] = to] /\ pc[s] = from
  BY DEF TypeOK, Places, Goto
<1>2. \A P : At(P) = AtIn(pc, P) /\ At(P)' = AtIn(pc', P)
  BY DEF At, AtIn
<1> QED
  BY <1>1, <1>2, MoveCount

(* Without a move the counted sets are the same. *)
LEMMA NoMoves ==
  ASSUME TypeOK, UNCHANGED pc
  PROVE  /\ At(Counted)' = At(Counted) /\ Cardinality(At(Counted)) \in Nat
         /\ At(Holding)' = At(Holding) /\ Cardinality(At(Holding)) \in Nat
<1>1. At(Counted)' = At(Counted) /\ At(Holding)' = At(Holding)
  BY DEF At
<1>2. IsFiniteSet(At(Counted)) /\ IsFiniteSet(At(Holding))
  BY FS_Subset, AdmissionAssumption DEF At
<1> QED
  BY <1>1, <1>2, FS_CardinalityType

(* Initially nothing is counted anywhere. *)
LEMMA AccountingInit == Init => AccountingInv
<1> SUFFICES ASSUME Init PROVE AccountingInv
  OBVIOUS
<1>1. At(Counted) = {} /\ At({"send", "rollback"}) = {}
  BY DEF Init, At, Counted
<1>2. PacketsIn(queue) = {}
  BY DEF Init, PacketsIn
<1>3. PacketAccounting
  BY <1>1, <1>2, FS_EmptySet DEF Init, PacketAccounting
<1>4. TypeOK
  BY DEF Init, TypeOK, Counted
<1> QED
  BY <1>3, <1>4 DEF AccountingInv

(* Every step of try_submit keeps the counters exact. *)
LEMMA SubmitAccounting ==
  ASSUME AccountingInv, NEW s \in Submitters, TrySubmit(s)
  PROVE  AccountingInv'
<1> USE DEF AccountingInv
<1>0. /\ queue \in Seq(Commands)
      /\ Cardinality(PacketsIn(queue)) \in Nat
      /\ size[s] \in Sizes
      /\ size[s] \in Int
  <2>1. queue \in Seq(Commands) /\ size[s] \in Sizes
    BY DEF TypeOK
  <2>2. \A n \in Sizes : n \in Int
    <3>1. Sizes \subseteq Nat
      BY AdmissionAssumption
    <3> QED
      BY <3>1
  <2> QED
    BY <2>1, <2>2, PacketsInFinite
<1>1. ASSUME UNCHANGED <<phase, storeBuffer, connected, size, worker, owner, stranded>>,
             NEW from, NEW to \in Places, Goto(s, from, to),
             queuedBytes' \in Int,
             queue' \in Seq(Commands),
             submitters' = submitters + One(to \in Counted) - One(from \in Counted),
             queuedPackets' - Cardinality(PacketsIn(queue'))
               = queuedPackets - Cardinality(PacketsIn(queue))
                   + One(to \in Holding) - One(from \in Holding),
             queuedPackets' \in Int
      PROVE  AccountingInv'
  <2>1. /\ submitters' = Cardinality(At(Counted)')
        /\ submitters' \in Nat
    BY <1>1, Moves DEF PacketAccounting, One
  <2>2. /\ queuedPackets' = Cardinality(PacketsIn(queue')) + Cardinality(At(Holding)') + stranded'
        /\ queuedPackets' \in Nat
    <3>1. Cardinality(PacketsIn(queue')) \in Nat
      BY <1>1, PacketsInFinite
    <3>2. queuedPackets = Cardinality(PacketsIn(queue)) + Cardinality(At(Holding)) + stranded
          /\ stranded \in Nat /\ queuedPackets \in Nat /\ stranded' = stranded
      BY <1>1 DEF PacketAccounting, TypeOK, Holding
    <3>3. One(to \in Holding) \in {0, 1} /\ One(from \in Holding) \in {0, 1}
      BY DEF One
    <3>4. /\ Cardinality(At(Holding)) \in Nat
          /\ Cardinality(At(Holding)') \in Nat
          /\ Cardinality(At(Holding)')
               = Cardinality(At(Holding)) + One(to \in Holding) - One(from \in Holding)
      BY <1>1, Moves
    <3>5. queuedPackets' = Cardinality(PacketsIn(queue')) + Cardinality(At(Holding)') + stranded'
      <4> DEFINE in  == One(to \in Holding)
                 out == One(from \in Holding)
                 q   == Cardinality(PacketsIn(queue))
                 qq  == Cardinality(PacketsIn(queue'))
                 h   == Cardinality(At(Holding))
                 hh  == Cardinality(At(Holding)')
      <4>1. in \in Int /\ out \in Int
        BY <3>3
      <4>2. q \in Int /\ qq \in Int /\ h \in Int /\ hh \in Int
        BY <1>0, <3>1, <3>4
      <4>3. hh = h + in - out
        BY <3>4
      <4>4. queuedPackets = q + h + stranded
        BY <3>2
      <4>5. queuedPackets' - qq = queuedPackets - q + in - out
        BY <1>1
      <4> HIDE DEF in, out, q, qq, h, hh
      <4>6. queuedPackets' = qq + hh + stranded
        BY <1>1, <3>2, <4>1, <4>2, <4>3, <4>4, <4>5
      <4> QED
        BY <4>6, <3>2 DEF qq, hh
    <3> QED
      BY <3>1, <3>2, <3>4, <3>5
  <2>3. TypeOK'
    BY <1>1, <2>1, <2>2 DEF TypeOK, Goto, Places
  <2> QED
    BY <2>1, <2>2, <2>3 DEF PacketAccounting, Holding
<1>2. CASE CheckPhase(s)
  <2>1. size' \in [Submitters -> Sizes]
    BY <1>2 DEF CheckPhase, TypeOK
  <2>2. pc' \in [Submitters -> Places] /\ At(Counted)' = At(Counted)
        /\ At({"send", "rollback"})' = At({"send", "rollback"})
    BY <1>2 DEF CheckPhase, Goto, TypeOK, Places, At, Counted
  <2> QED
    BY <1>2, <2>1, <2>2 DEF CheckPhase, TypeOK, PacketAccounting, shared, Places
<1>3. CASE CountSubmitter(s)
  <2>1. CASE Goto(s, "cas", "recheck") /\ submitters' = submitters + 1
    BY <1>0, <1>1, <1>3, <2>1 DEF CountSubmitter, TypeOK, Places, Counted, Holding, One
  <2>2. CASE Goto(s, "cas", "cas") /\ UNCHANGED submitters
    BY <1>0, <1>1, <1>3, <2>2 DEF CountSubmitter, TypeOK, Places, Counted, Holding, One
  <2>3. CASE Goto(s, "cas", "idle") /\ UNCHANGED submitters
    BY <1>0, <1>1, <1>3, <2>3 DEF CountSubmitter, TypeOK, Places, Counted, Holding, One
  <2> QED
    BY <1>3, <2>1, <2>2, <2>3 DEF CountSubmitter
<1>4. CASE RecheckPhase(s)
  <2>1. CASE phase = "Running"
    BY <1>0, <1>1, <1>4, <2>1 DEF RecheckPhase, TypeOK, Places, Counted, Holding, One, shared
  <2>2. CASE phase # "Running"
    BY <1>0, <1>1, <1>4, <2>2 DEF RecheckPhase, TypeOK, Places, Counted, Holding, One, shared
  <2> QED
    BY <2>1, <2>2
<1>5. CASE ReserveBytes(s)
  <2>1. CASE queuedBytes + size[s] > MaxQueuedBytes
    BY <1>0, <1>1, <1>5, <2>1 DEF ReserveBytes, TypeOK, Places, Counted, Holding, One
  <2>2. CASE ~(queuedBytes + size[s] > MaxQueuedBytes)
    BY <1>0, <1>1, <1>5, <2>2 DEF ReserveBytes, TypeOK, Places, Counted, Holding, One
  <2> QED
    BY <2>1, <2>2
<1>6. CASE CountPacket(s)
  BY <1>0, <1>1, <1>6 DEF CountPacket, TypeOK, Places, Counted, Holding, One
<1>7. CASE TrySend(s)
  <2>1. CASE connected /\ Len(queue) < Capacity
    <3>1. PacketCommand(size[s]) \in Commands /\ PacketCommand(size[s]).kind = "packet"
      BY <1>0 DEF PacketCommand, Commands
    <3>2. queue' = Append(queue, PacketCommand(size[s])) /\ queue' \in Seq(Commands)
      BY <1>0, <1>7, <2>1, <3>1 DEF TrySend
    <3>3. Cardinality(PacketsIn(queue')) = Cardinality(PacketsIn(queue)) + 1
      BY <1>0, <3>1, <3>2, CountAppend DEF One
    <3> QED
      BY <1>0, <1>1, <1>7, <2>1, <3>2, <3>3
         DEF TrySend, TypeOK, Places, Counted, Holding, One, shared
  <2>2. CASE ~(connected /\ Len(queue) < Capacity)
    BY <1>0, <1>1, <1>7, <2>2 DEF TrySend, TypeOK, Places, Counted, Holding, One, shared
  <2> QED
    BY <2>1, <2>2
<1>8. CASE UncountPacket(s)
  BY <1>0, <1>1, <1>8 DEF UncountPacket, TypeOK, Places, Counted, Holding, One
<1>9. CASE ReleaseBytes(s)
  BY <1>0, <1>1, <1>9 DEF ReleaseBytes, TypeOK, Places, Counted, Holding, One
<1>10. CASE Leave(s)
  BY <1>0, <1>1, <1>10 DEF Leave, TypeOK, Places, Counted, Holding, One
<1> QED
  BY <1>2, <1>3, <1>4, <1>5, <1>6, <1>7, <1>8, <1>9, <1>10 DEF TrySubmit

(* Taking the head of the channel returns exactly its reservation. *)
LEMMA TakeAccounting ==
  ASSUME AccountingInv, queue # <<>>, queue' = Tail(queue), ReturnReservation(Head(queue))
  PROVE  /\ queue' \in Seq(Commands)
         /\ queuedBytes' \in Int
         /\ queuedPackets' \in Nat
         /\ queuedPackets' = Cardinality(PacketsIn(queue'))
                               + Cardinality(At({"send", "rollback"})) + stranded
<1>1. /\ queue \in Seq(Commands) /\ queuedBytes \in Int /\ queuedPackets \in Nat
      /\ stranded \in Nat
      /\ queuedPackets = Cardinality(PacketsIn(queue))
                          + Cardinality(At({"send", "rollback"})) + stranded
  BY DEF AccountingInv, TypeOK, PacketAccounting
<1>2. queue' \in Seq(Commands) /\ Head(queue) \in Commands
  BY <1>1
<1>3. Head(queue).size \in Int
  <2>1. \A n \in Sizes : n \in Int
    BY AdmissionAssumption
  <2> QED
    BY <1>2, <2>1 DEF Commands, PacketCommand, Control, ShutdownCommand
<1>4. /\ Cardinality(PacketsIn(queue)) = Cardinality(PacketsIn(queue')) + One(Head(queue).kind = "packet")
      /\ Cardinality(PacketsIn(queue')) \in Nat
  BY <1>1, <1>2, CountTail, PacketsInFinite
<1>5. Cardinality(At({"send", "rollback"})) \in Nat
  <2>1. IsFiniteSet(At({"send", "rollback"}))
    BY FS_Subset, AdmissionAssumption DEF At
  <2> QED
    BY <2>1, FS_CardinalityType
<1>6. CASE Head(queue).kind = "packet"
  <2>1. queuedPackets' = queuedPackets - 1 /\ queuedBytes' = queuedBytes - Head(queue).size
    BY <1>6 DEF ReturnReservation
  <2>2. Cardinality(PacketsIn(queue)) = Cardinality(PacketsIn(queue')) + 1
    BY <1>4, <1>6 DEF One
  <2>3. queuedPackets' = Cardinality(PacketsIn(queue'))
                           + Cardinality(At({"send", "rollback"})) + stranded
    BY <1>1, <1>4, <1>5, <2>1, <2>2
  <2>4. queuedBytes' \in Int
    BY <1>1, <1>3, <2>1
  <2> QED
    BY <1>1, <1>2, <1>4, <1>5, <2>3, <2>4
<1>7. CASE Head(queue).kind # "packet"
  <2>1. queuedPackets' = queuedPackets /\ queuedBytes' = queuedBytes
    BY <1>7 DEF ReturnReservation
  <2>2. Cardinality(PacketsIn(queue)) = Cardinality(PacketsIn(queue')) + 0
    BY <1>4, <1>7 DEF One
  <2> QED
    BY <1>1, <1>2, <1>4, <1>5, <2>1, <2>2
<1> QED
  BY <1>6, <1>7

(* The worker, the owner and the store buffer keep the counters exact. *)
LEMMA OtherAccounting ==
  ASSUME AccountingInv, UNCHANGED pc, UNCHANGED submitters, UNCHANGED size,
         TypeOK',
         queuedPackets' = Cardinality(PacketsIn(queue'))
                            + Cardinality(At({"send", "rollback"})) + stranded'
  PROVE  AccountingInv'
<1>1. At(Counted)' = At(Counted) /\ At({"send", "rollback"})' = At({"send", "rollback"})
  BY DEF At
<1> QED
  BY <1>1 DEF AccountingInv, PacketAccounting

(* Every step keeps the counters exact. *)
LEMMA AccountingStep == AccountingInv /\ [Next]_vars => AccountingInv'
<1> SUFFICES ASSUME AccountingInv, [Next]_vars PROVE AccountingInv'
  OBVIOUS
<1>0. /\ TypeOK
      /\ queue \in Seq(Commands)
      /\ queuedPackets = Cardinality(PacketsIn(queue))
                          + Cardinality(At({"send", "rollback"})) + stranded
  BY DEF AccountingInv, PacketAccounting, TypeOK
<1>1. ASSUME NEW s \in Submitters, TrySubmit(s) PROVE AccountingInv'
  BY <1>1, SubmitAccounting
<1>2. CASE Receive
  BY <1>0, <1>2, TakeAccounting, OtherAccounting DEF Receive, TypeOK
<1>3. CASE CloseAdmission
  <2>1. TypeOK'
    BY <1>0, <1>3 DEF CloseAdmission, TypeOK, shared
  <2> QED
    BY <1>0, <1>3, <2>1, OtherAccounting DEF CloseAdmission, shared
<1>4. CASE PerformStore
  <2>1. TypeOK'
    BY <1>0, <1>4 DEF PerformStore, TypeOK, shared
  <2> QED
    BY <1>0, <1>4, <2>1, OtherAccounting DEF PerformStore, shared
<1>5. CASE AwaitSubmitters
  <2>1. TypeOK'
    BY <1>0, <1>5 DEF AwaitSubmitters, TypeOK, shared
  <2> QED
    BY <1>0, <1>5, <2>1, OtherAccounting DEF AwaitSubmitters, shared
<1>6. CASE Drain
  <2>1. CASE queue = <<>>
    <3>1. TypeOK'
      BY <1>0, <1>6, <2>1 DEF Drain, TypeOK
    <3> QED
      BY <1>0, <1>6, <2>1, <3>1, OtherAccounting DEF Drain
  <2>2. CASE queue # <<>>
    BY <1>0, <1>6, <2>2, TakeAccounting, OtherAccounting DEF Drain, TypeOK
  <2> QED
    BY <2>1, <2>2
<1>7. CASE DropReceiver
  <2>1. Cardinality(PacketsIn(queue)) \in Nat
    BY <1>0, PacketsInFinite
  <2>2. PacketsIn(queue') = {}
    BY <1>7 DEF DropReceiver, PacketsIn
  <2>3. Cardinality(PacketsIn(queue')) = 0
    BY <2>2, FS_EmptySet
  <2>4. Cardinality(At({"send", "rollback"})) \in Nat
    <3>1. IsFiniteSet(At({"send", "rollback"}))
      BY FS_Subset, AdmissionAssumption DEF At
    <3> QED
      BY <3>1, FS_CardinalityType
  <2>5. stranded' = stranded + Cardinality(PacketsIn(queue)) /\ queuedPackets' = queuedPackets
    BY <1>7 DEF DropReceiver, shared
  <2>6. stranded \in Nat
    BY <1>0 DEF TypeOK
  <2>7. TypeOK'
    <3>1. stranded' \in Nat
      BY <2>1, <2>5, <2>6
    <3>2. queue' = <<>> /\ connected' = FALSE /\ worker' = "gone"
      BY <1>7 DEF DropReceiver
    <3>3. UNCHANGED <<phase, storeBuffer, submitters, queuedPackets, queuedBytes, pc, size, owner>>
      BY <1>7 DEF DropReceiver, shared
    <3>4. queue' \in Seq(Commands)
      BY <3>2
    <3> QED
      BY <1>0, <3>1, <3>2, <3>3, <3>4 DEF TypeOK
  <2>8. queuedPackets' = Cardinality(PacketsIn(queue'))
                           + Cardinality(At({"send", "rollback"})) + stranded'
    BY <1>0, <2>1, <2>3, <2>4, <2>5, <2>6
  <2> QED
    BY <1>7, <2>7, <2>8, OtherAccounting DEF DropReceiver, shared
<1>8. CASE BeginControl
  <2>1. TypeOK'
    BY <1>0, <1>8 DEF BeginControl, TypeOK, shared
  <2> QED
    BY <1>0, <1>8, <2>1, OtherAccounting DEF BeginControl, shared
<1>9. ASSUME NEW c \in {Control, ShutdownCommand},
             queue' = Append(queue, c) \/ UNCHANGED queue,
             UNCHANGED <<pc, size, submitters, queuedPackets, stranded>>
      PROVE  /\ queue' \in Seq(Commands)
             /\ queuedPackets' = Cardinality(PacketsIn(queue'))
                                   + Cardinality(At({"send", "rollback"})) + stranded'
  <2>1. c \in Commands /\ c.kind # "packet"
    BY DEF Commands, Control, ShutdownCommand
  <2>2. One(c.kind = "packet") = 0
    BY <2>1 DEF One
  <2>3. Cardinality(PacketsIn(Append(queue, c))) = Cardinality(PacketsIn(queue)) + 0
    BY <1>0, <2>1, <2>2, CountAppend
  <2>4. Cardinality(PacketsIn(queue)) \in Nat
    BY <1>0, PacketsInFinite
  <2>5. Cardinality(PacketsIn(queue')) = Cardinality(PacketsIn(queue))
    <3>1. CASE queue' = Append(queue, c)
      BY <2>3, <2>4, <3>1
    <3>2. CASE queue' = queue
      BY <3>2
    <3> QED
      BY <1>9, <3>1, <3>2
  <2>6. queue' \in Seq(Commands)
    BY <1>0, <1>9, <2>1
  <2> QED
    BY <1>0, <1>9, <2>5, <2>6
<1>10. CASE SendControl
  <2>1. queue' \in Seq(Commands)
        /\ queuedPackets' = Cardinality(PacketsIn(queue'))
                              + Cardinality(At({"send", "rollback"})) + stranded'
    BY <1>9, <1>10 DEF SendControl, shared
  <2>2. TypeOK'
    BY <1>0, <1>10, <2>1 DEF SendControl, TypeOK, shared
  <2> QED
    BY <1>10, <2>1, <2>2, OtherAccounting DEF SendControl, shared
<1>11. CASE BeginShutdown
  <2>1. TypeOK'
    BY <1>0, <1>11 DEF BeginShutdown, TypeOK, shared
  <2> QED
    BY <1>0, <1>11, <2>1, OtherAccounting DEF BeginShutdown, shared
<1>12. CASE SendShutdown
  <2>1. queue' \in Seq(Commands)
        /\ queuedPackets' = Cardinality(PacketsIn(queue'))
                              + Cardinality(At({"send", "rollback"})) + stranded'
    BY <1>9, <1>12 DEF SendShutdown, shared
  <2>2. TypeOK'
    BY <1>0, <1>12, <2>1 DEF SendShutdown, TypeOK, shared
  <2> QED
    BY <1>12, <2>1, <2>2, OtherAccounting DEF SendShutdown, shared
<1>13. CASE Join
  <2>1. TypeOK'
    BY <1>0, <1>13 DEF Join, TypeOK, shared
  <2> QED
    BY <1>0, <1>13, <2>1, OtherAccounting DEF Join, shared
<1>14. CASE UNCHANGED vars
  <2>1. TypeOK'
    BY <1>0, <1>14 DEF vars, TypeOK, shared
  <2> QED
    BY <1>0, <1>14, <2>1, OtherAccounting DEF vars, shared
<1> QED
  BY <1>1, <1>2, <1>3, <1>4, <1>5, <1>6, <1>7, <1>8, <1>10, <1>11, <1>12, <1>13, <1>14
     DEF Next

(* The state has its type in every behaviour of the admission protocol, for
   any number of threads and on either memory model: in particular the packet
   and submitter counters of SharedStats never wrap below zero. *)
THEOREM TypeCorrect == Spec => []TypeOK
<1>1. AccountingInv => TypeOK
  BY DEF AccountingInv
<1> QED
  BY <1>1, AccountingInit, AccountingStep, PTL DEF Spec

(* queued_packets and active_submitters are exact at every moment, for any
   number of threads and on either memory model. *)
THEOREM AccountingCorrect == Spec => []PacketAccounting
<1>1. AccountingInv => PacketAccounting
  BY DEF AccountingInv
<1> QED
  BY <1>1, AccountingInit, AccountingStep, PTL DEF Spec

-------------------------------------------------------------------------------
\* Places past the second phase check, where a thread may still reach the channel.
Admitted == {"reserve", "count", "send", "rollback", "release"}

\* Why a stopped worker leaves nothing behind when the atomics are
\* sequentially consistent: a worker past its spin loop knows that no thread is
\* admitted, and none will be, because the phase never returns to Running.
ClosedInv ==
  /\ storeBuffer = "none"
  /\ worker \in {"spin", "drain", "drained", "gone"} => phase # "Running"
  /\ worker \in {"drain", "drained", "gone"} => \A s \in Submitters : pc[s] \notin Admitted
  /\ worker \in {"drained", "gone"} => PacketsIn(queue) = {}
  /\ owner \in {"send", "join", "done"} =>
       phase # "Running" /\ \A s \in Submitters : pc[s] = "idle"
  /\ \A i \in 1..Len(queue) : queue[i].kind = "shutdown" => owner \in {"join", "done"}
  /\ stranded = 0

(* A step of try_submit cannot pass the second phase check of a closed spool. *)
LEMMA SubmitClosed ==
  ASSUME TypeOK, ClosedInv, NEW s \in Submitters, TrySubmit(s)
  PROVE  ClosedInv'
<1>1. /\ queue \in Seq(Commands)
      /\ pc \in [Submitters -> Places]
  BY DEF TypeOK, Places
<1>2. UNCHANGED <<phase, storeBuffer, worker, owner, stranded>>
  BY DEF TrySubmit, CheckPhase, CountSubmitter, RecheckPhase, ReserveBytes, CountPacket,
         TrySend, UncountPacket, ReleaseBytes, Leave
<1>3. owner \notin {"send", "join", "done"}
  <2> SUFFICES ASSUME owner \in {"send", "join", "done"} PROVE FALSE
    OBVIOUS
  <2>1. pc[s] = "idle"
    BY DEF ClosedInv
  <2> QED
    BY <2>1 DEF TrySubmit, Goto, CheckPhase, CountSubmitter, RecheckPhase, ReserveBytes,
                CountPacket, TrySend, UncountPacket, ReleaseBytes, Leave
<1>4. ASSUME worker \in {"drain", "drained", "gone"}
      PROVE  pc'[s] \notin Admitted /\ UNCHANGED queue
  <2>1. phase # "Running" /\ pc[s] \notin Admitted
    BY <1>4 DEF ClosedInv
  <2> QED
    BY <1>1, <2>1 DEF TrySubmit, Goto, Admitted, CheckPhase, CountSubmitter, RecheckPhase,
         ReserveBytes, CountPacket, TrySend, UncountPacket, ReleaseBytes, Leave
<1>5. \A t \in Submitters : t # s => pc'[t] = pc[t]
  BY <1>1 DEF TrySubmit, Goto, CheckPhase, CountSubmitter, RecheckPhase, ReserveBytes,
       CountPacket, TrySend, UncountPacket, ReleaseBytes, Leave
<1>6. \A i \in 1..Len(queue') : queue'[i].kind = "shutdown" => owner' \in {"join", "done"}
  <2>1. CASE UNCHANGED queue
    BY <1>2, <2>1 DEF ClosedInv
  <2>2. CASE queue' = Append(queue, PacketCommand(size[s]))
    <3>1. \A i \in 1..Len(queue') :
            \/ i \in 1..Len(queue) /\ queue'[i] = queue[i]
            \/ queue'[i] = PacketCommand(size[s])
      BY <1>1, <2>2
    <3>2. PacketCommand(size[s]).kind # "shutdown"
      BY DEF PacketCommand
    <3> QED
      BY <1>2, <3>1, <3>2 DEF ClosedInv
  <2> QED
    BY <2>1, <2>2 DEF TrySubmit, CheckPhase, CountSubmitter, RecheckPhase, ReserveBytes,
         CountPacket, TrySend, UncountPacket, ReleaseBytes, Leave
<1> QED
  BY <1>2, <1>3, <1>4, <1>5, <1>6 DEF ClosedInv

(* No step of a sequentially consistent spool breaks ClosedInv. *)
LEMMA ClosedStep ==
  ASSUME ~StoreBuffered
  PROVE  AccountingInv /\ ClosedInv /\ [Next]_vars => ClosedInv'
<1> SUFFICES ASSUME AccountingInv, ClosedInv, [Next]_vars PROVE ClosedInv'
  OBVIOUS
<1>0. TypeOK /\ queue \in Seq(Commands)
  BY DEF AccountingInv, TypeOK
<1>1. ASSUME NEW s \in Submitters, TrySubmit(s) PROVE ClosedInv'
  BY <1>0, <1>1, SubmitClosed
<1>2. CASE Receive
  <2>1. /\ Len(queue) \in Nat /\ Len(queue) >= 1 /\ Head(queue) = queue[1]
        /\ queue' = Tail(queue)
        /\ \A i \in 1..Len(queue') : i + 1 \in 1..Len(queue) /\ queue'[i] = queue[i + 1]
    BY <1>0, <1>2 DEF Receive
  <2>2. Head(queue).kind = "shutdown" => owner \in {"join", "done"}
    BY <2>1 DEF ClosedInv
  <2>3. \A i \in 1..Len(queue') : queue'[i].kind = "shutdown" => owner' \in {"join", "done"}
    BY <1>2, <2>1 DEF Receive, ClosedInv
  <2> QED
    BY <1>2, <2>2, <2>3 DEF Receive, ClosedInv, Admitted
<1>3. CASE CloseAdmission
  BY <1>3 DEF CloseAdmission, ClosedInv
<1>4. CASE PerformStore
  BY <1>4 DEF PerformStore, ClosedInv
<1>5. CASE AwaitSubmitters
  <2>1. At(Counted) = {}
    <3>1. IsFiniteSet(At(Counted))
      BY FS_Subset, AdmissionAssumption DEF At
    <3> QED
      BY <1>5, <3>1, FS_EmptySet DEF AwaitSubmitters, AccountingInv, PacketAccounting
  <2>2. \A s \in Submitters : pc[s] \notin Admitted
    BY <2>1 DEF At, Counted, Admitted
  <2> QED
    BY <1>5, <2>2 DEF AwaitSubmitters, ClosedInv
<1>6. CASE Drain
  <2>1. CASE queue = <<>>
    <3>1. PacketsIn(queue) = {}
      BY <2>1 DEF PacketsIn
    <3> QED
      BY <1>6, <2>1, <3>1 DEF Drain, ClosedInv
  <2>2. CASE queue # <<>>
    <3>1. \A i \in 1..Len(queue') : i + 1 \in 1..Len(queue) /\ queue'[i] = queue[i + 1]
      BY <1>0, <1>6, <2>2 DEF Drain
    <3>2. \A i \in 1..Len(queue') : queue'[i].kind = "shutdown" => owner' \in {"join", "done"}
      BY <1>6, <3>1 DEF Drain, ClosedInv
    <3> QED
      BY <1>6, <2>2, <3>2 DEF Drain, ClosedInv
  <2> QED
    BY <2>1, <2>2
<1>7. CASE DropReceiver
  <2>1. PacketsIn(queue') = {} /\ Len(queue') = 0
    BY <1>7 DEF DropReceiver, PacketsIn
  <2>2. Cardinality(PacketsIn(queue)) = 0
    BY <1>7, FS_EmptySet DEF DropReceiver, ClosedInv
  <2> QED
    BY <1>7, <2>1, <2>2 DEF DropReceiver, ClosedInv
<1>8. CASE BeginControl
  BY <1>8 DEF BeginControl, ClosedInv
<1>9. ASSUME NEW c \in {Control, ShutdownCommand},
             c.kind = "shutdown" => owner' \in {"join", "done"},
             owner \in {"join", "done"} => owner' \in {"join", "done"},
             queue' = Append(queue, c) \/ UNCHANGED queue
      PROVE  /\ \A i \in 1..Len(queue') :
                  queue'[i].kind = "shutdown" => owner' \in {"join", "done"}
             /\ PacketsIn(queue) = {} => PacketsIn(queue') = {}
  <2>1. \A i \in 1..Len(queue') :
          (i \in 1..Len(queue) /\ queue'[i] = queue[i]) \/ queue'[i] = c
    BY <1>0, <1>9
  <2>2. c.kind # "packet"
    BY DEF Control, ShutdownCommand
  <2> QED
    BY <1>9, <2>1, <2>2 DEF PacketsIn, ClosedInv
<1>10. CASE SendControl
  <2>1. Control.kind # "shutdown"
    BY DEF Control
  <2> QED
    BY <1>9, <1>10, <2>1 DEF SendControl, ClosedInv
<1>11. CASE BeginShutdown
  BY <1>11 DEF BeginShutdown, ClosedInv
<1>12. CASE SendShutdown
  BY <1>9, <1>12 DEF SendShutdown, ClosedInv
<1>13. CASE Join
  BY <1>13 DEF Join, ClosedInv
<1>14. CASE UNCHANGED vars
  BY <1>14 DEF vars, ClosedInv
<1> QED
  BY <1>1, <1>2, <1>3, <1>4, <1>5, <1>6, <1>7, <1>8, <1>10, <1>11, <1>12, <1>13, <1>14
     DEF Next

(* With sequentially consistent atomics, no packet that try_submit reported as
   accepted is ever lost between the worker's drain and the drop of the
   channel, for any number of threads and any queue bound.  (The x86-64 store
   buffer breaks exactly this.) *)
THEOREM NothingStrandedSC == ASSUME ~StoreBuffered PROVE Spec => []NothingStranded
<1>1. Init => ClosedInv
  BY DEF Init, ClosedInv, PacketsIn
<1>2. ClosedInv => NothingStranded
  BY DEF ClosedInv, NothingStranded
<1> QED
  BY <1>1, <1>2, AccountingInit, AccountingStep, ClosedStep, PTL DEF Spec
-------------------------------------------------------------------------------
(* The byte counter.  A sum of payload sizes is the number of the bytes, each *)
(* named by whose payload it is and its position in it.                       *)

Bytes(x, n) == {x} \X (1..n)

\* The bytes of the packets in the channel.
Stored(q) == {t \in Nat \X Nat : t[1] \in PacketsIn(q) /\ t[2] \in 1..q[t[1]].size}

\* Places between reserve_queued_bytes and the send or the rollback.
Reserving == {"count", "send", "rollback", "release"}

\* The bytes that threads at those places have reserved.
Reserved(f, z) == {t \in Submitters \X Nat : f[t[1]] \in Reserving /\ t[2] \in 1..z[t[1]]}

(* queued_bytes is the payload in the channel and that of the threads on their
   way there, and more only by what was lost with the channel (try_submit's
   rollbacks, the worker's and the drain's fetch_sub). *)
ByteAccounting ==
  /\ queuedBytes >= Cardinality(Stored(queue)) + Cardinality(Reserved(pc, size))
  /\ stranded = 0 =>
       queuedBytes = Cardinality(Stored(queue)) + Cardinality(Reserved(pc, size))

\* The inductive invariant of the bounds.
ByteInv ==
  /\ AccountingInv
  /\ IsFiniteSet(Stored(queue)) /\ IsFiniteSet(Reserved(pc, size))
  /\ ByteAccounting
  /\ Len(queue) <= Capacity
  /\ queuedBytes <= MaxQueuedBytes

(* A payload has as many bytes as its size. *)
LEMMA BytesCount ==
  ASSUME NEW x, NEW n \in Nat
  PROVE  IsFiniteSet(Bytes(x, n)) /\ Cardinality(Bytes(x, n)) = n
<1>1. IsFiniteSet(1..n) /\ Cardinality(1..n) = n
  BY FS_Interval
<1>2. IsFiniteSet({x}) /\ Cardinality({x}) = 1
  BY FS_Singleton
<1>3. IsFiniteSet(Bytes(x, n)) /\ Cardinality(Bytes(x, n)) = 1 * n
  BY <1>1, <1>2, FS_Product DEF Bytes
<1> QED
  BY <1>3

(* A payload that joins others adds its size. *)
LEMMA BytesJoin ==
  ASSUME NEW A, IsFiniteSet(A), NEW x, NEW n \in Nat, NEW B, B = A \cup Bytes(x, n),
         A \cap Bytes(x, n) = {}
  PROVE  /\ IsFiniteSet(B) /\ Cardinality(A) \in Nat
         /\ Cardinality(B) = Cardinality(A) + n
<1>1. IsFiniteSet(Bytes(x, n)) /\ Cardinality(Bytes(x, n)) = n
  BY BytesCount
<1>2. /\ IsFiniteSet(B)
      /\ Cardinality(B) = Cardinality(A) + n - Cardinality({})
  BY <1>1, FS_Union
<1>3. Cardinality({}) = 0 /\ Cardinality(A) \in Nat
  BY FS_EmptySet, FS_CardinalityType
<1> QED
  BY <1>2, <1>3

(* A payload that leaves takes its size. *)
LEMMA BytesLeave ==
  ASSUME NEW A, NEW x, NEW n \in Nat, NEW B, IsFiniteSet(B), B = A \cup Bytes(x, n),
         A \cap Bytes(x, n) = {}
  PROVE  /\ IsFiniteSet(A) /\ Cardinality(A) \in Nat
         /\ Cardinality(B) = Cardinality(A) + n
<1>1. IsFiniteSet(A)
  BY FS_Subset
<1> QED
  BY <1>1, BytesJoin

(* A command's size is a natural number. *)
LEMMA SizeFacts ==
  /\ \A c \in Commands : c.size \in Nat /\ (c.kind # "packet" => c.size = 0)
  /\ \A n \in Sizes : n \in Nat
<1>1. \A n \in Sizes : n \in Nat
  BY AdmissionAssumption
<1> QED
  BY <1>1 DEF Commands, PacketCommand, Control, ShutdownCommand

(* A sent packet's bytes are stored. *)
LEMMA StoredAppend ==
  ASSUME NEW q \in Seq(Commands), NEW c \in Commands, IsFiniteSet(Stored(q)),
         NEW n, n = IF c.kind = "packet" THEN c.size ELSE 0
  PROVE  /\ IsFiniteSet(Stored(Append(q, c))) /\ Cardinality(Stored(q)) \in Nat
         /\ Cardinality(Stored(Append(q, c))) = Cardinality(Stored(q)) + n
<1> DEFINE k == Len(q) + 1
           r == Append(q, c)
<1>1. /\ Len(r) = k /\ Len(q) \in Nat /\ k \in Nat
      /\ \A i \in 1..Len(q) : r[i] = q[i]
      /\ r[k] = c
  OBVIOUS
<1>2. n \in Nat /\ c.size \in Nat
  BY SizeFacts
<1> HIDE DEF r
<1>3. ASSUME NEW i \in Nat, NEW b \in Nat
      PROVE  <<i, b>> \in Stored(r) <=> <<i, b>> \in Stored(q) \/ (i = k /\ b \in 1..n)
  <2>1. /\ <<i, b>> \in Stored(r) <=> i \in 1..k /\ r[i].kind = "packet" /\ b \in 1..r[i].size
        /\ <<i, b>> \in Stored(q) <=> i \in 1..Len(q) /\ q[i].kind = "packet" /\ b \in 1..q[i].size
    BY <1>1 DEF Stored, PacketsIn
  <2>2. CASE i = k
    <3>1. i \notin 1..Len(q) /\ i \in 1..k /\ r[i] = c
      BY <1>1, <2>2
    <3>2. n = 0 => b \notin 1..n
      OBVIOUS
    <3> QED
      BY <2>1, <2>2, <3>1, <3>2
  <2>3. CASE i # k
    <3>1. i \in 1..k <=> i \in 1..Len(q)
      BY <1>1, <2>3
    <3>2. i \in 1..Len(q) => r[i] = q[i]
      BY <1>1
    <3> QED
      BY <2>1, <2>3, <3>1, <3>2
  <2> QED
    BY <2>2, <2>3
<1>4. ASSUME NEW i \in Nat, NEW b \in Nat
      PROVE  <<i, b>> \in Bytes(k, n) <=> i = k /\ b \in 1..n
  BY DEF Bytes
<1>5. /\ Stored(r) \subseteq Nat \X Nat /\ Stored(q) \subseteq Nat \X Nat
      /\ Bytes(k, n) \subseteq Nat \X Nat
  BY <1>1, <1>2 DEF Stored, Bytes
<1>6. Stored(r) = Stored(q) \cup Bytes(k, n)
  <2>1. \A t \in Nat \X Nat : t \in Stored(r) <=> t \in Stored(q) \cup Bytes(k, n)
    BY <1>3, <1>4
  <2> QED
    BY <1>5, <2>1
<1>7. Stored(q) \cap Bytes(k, n) = {}
  <2>1. \A t \in Stored(q) : t[1] \in 1..Len(q)
    BY DEF Stored, PacketsIn
  <2>2. \A t \in Bytes(k, n) : t[1] = k
    BY DEF Bytes
  <2>3. k \notin 1..Len(q)
    BY <1>1
  <2> QED
    BY <2>1, <2>2, <2>3
<1>8. /\ IsFiniteSet(Stored(r)) /\ Cardinality(Stored(q)) \in Nat
      /\ Cardinality(Stored(r)) = Cardinality(Stored(q)) + n
  BY <1>2, <1>6, <1>7, BytesJoin
<1> QED
  BY <1>8 DEF r

(* A taken packet's bytes are stored no longer. *)
LEMMA StoredTail ==
  ASSUME NEW q \in Seq(Commands), q # <<>>, IsFiniteSet(Stored(q)),
         NEW n, n = IF Head(q).kind = "packet" THEN Head(q).size ELSE 0
  PROVE  /\ IsFiniteSet(Stored(Tail(q))) /\ Cardinality(Stored(Tail(q))) \in Nat /\ n \in Nat
         /\ Cardinality(Stored(q)) = Cardinality(Stored(Tail(q))) + n
<1> DEFINE r == Tail(q)
<1>1. /\ Len(q) \in Nat /\ Len(q) >= 1 /\ Len(r) = Len(q) - 1 /\ Len(r) \in Nat
      /\ \A i \in 1..(Len(q) - 1) : r[i] = q[i + 1]
      /\ Head(q) = q[1] /\ Head(q) \in Commands
  OBVIOUS
<1>2. n \in Nat
  BY <1>1, SizeFacts
<1> HIDE DEF r
<1> DEFINE R == {t \in Stored(q) : t[1] # 1}
<1>3. ASSUME NEW i \in Nat, NEW b \in Nat PROVE <<i, b>> \in Stored(r) <=> <<i + 1, b>> \in R
  <2>1. /\ <<i, b>> \in Stored(r) <=> i \in 1..Len(r) /\ r[i].kind = "packet" /\ b \in 1..r[i].size
        /\ <<i + 1, b>> \in Stored(q) <=>
             i + 1 \in 1..Len(q) /\ q[i + 1].kind = "packet" /\ b \in 1..q[i + 1].size
    BY DEF Stored, PacketsIn
  <2>2. i \in 1..Len(r) <=> i + 1 \in 1..Len(q) /\ i + 1 # 1
    BY <1>1
  <2>3. i \in 1..Len(r) => r[i] = q[i + 1]
    BY <1>1
  <2>4. <<i + 1, b>> \in R <=> <<i + 1, b>> \in Stored(q) /\ i + 1 # 1
    OBVIOUS
  <2> QED
    BY <2>1, <2>2, <2>3, <2>4
<1> DEFINE f == [t \in R |-> <<t[1] - 1, t[2]>>]
<1>4. ASSUME NEW t \in R
      PROVE  /\ t[1] \in Nat /\ t[1] >= 1 /\ t[1] - 1 \in Nat /\ t[2] \in Nat
             /\ t = <<t[1], t[2]>> /\ (t[1] - 1) + 1 = t[1]
             /\ f[t] \in Stored(r)
  <2>1. t \in Nat \X Nat /\ t[1] \in 1..Len(q)
    BY DEF Stored, PacketsIn
  <2>2. t[1] \in Nat /\ t[1] >= 1 /\ t[1] - 1 \in Nat /\ t[2] \in Nat /\ t = <<t[1], t[2]>>
        /\ (t[1] - 1) + 1 = t[1]
    BY <1>1, <2>1
  <2>3. <<t[1] - 1, t[2]>> \in Stored(r)
    BY <1>3, <2>2
  <2> QED
    BY <2>2, <2>3
<1>5. f \in Bijection(R, Stored(r))
  <2>1. f \in [R -> Stored(r)]
    BY <1>4
  <2>2. ASSUME NEW t \in R, NEW u \in R, f[t] = f[u] PROVE t = u
    <3>1. t[1] - 1 = u[1] - 1 /\ t[2] = u[2]
      BY <2>2
    <3>2. t[1] = u[1]
      BY <1>4, <3>1
    <3> QED
      BY <1>4, <3>1, <3>2
  <2>3. ASSUME NEW v \in Stored(r) PROVE \E t \in R : f[t] = v
    <3>1. v \in Nat \X Nat
      BY DEF Stored
    <3>2. PICK i \in Nat, b \in Nat : v = <<i, b>>
      BY <3>1
    <3>3. <<i + 1, b>> \in R
      BY <1>3, <3>2
    <3>4. f[<<i + 1, b>>] = <<(i + 1) - 1, b>>
      BY <3>3
    <3>5. (i + 1) - 1 = i
      OBVIOUS
    <3> QED
      BY <3>2, <3>3, <3>4, <3>5
  <2> QED
    BY <2>1, <2>2, <2>3 DEF Bijection, Injection, Surjection, IsInjective
<1>6. Stored(q) = R \cup Bytes(1, n) /\ R \cap Bytes(1, n) = {}
  <2>1. ASSUME NEW b \in Nat PROVE <<1, b>> \in Stored(q) <=> <<1, b>> \in Bytes(1, n)
    <3>1. <<1, b>> \in Stored(q) <=> 1 \in 1..Len(q) /\ q[1].kind = "packet" /\ b \in 1..q[1].size
      BY DEF Stored, PacketsIn
    <3>2. <<1, b>> \in Bytes(1, n) <=> b \in 1..n
      BY DEF Bytes
    <3>3. n = 0 => b \notin 1..n
      OBVIOUS
    <3>4. 1 \in 1..Len(q)
      BY <1>1
    <3> QED
      BY <1>1, <3>1, <3>2, <3>3, <3>4
  <2>2. \A t \in Bytes(1, n) : t[1] = 1 /\ t[2] \in Nat /\ t = <<1, t[2]>>
    BY <1>2 DEF Bytes
  <2>3. \A t \in Stored(q) : t[2] \in Nat /\ t = <<t[1], t[2]>>
    BY DEF Stored
  <2>4. ASSUME NEW t \in Stored(q), t \notin R PROVE t \in Bytes(1, n)
    <3>1. t[1] = 1 /\ t[2] \in Nat /\ t = <<1, t[2]>>
      BY <2>3, <2>4
    <3> QED
      BY <2>1, <3>1
  <2>5. ASSUME NEW t \in Bytes(1, n) PROVE t \in Stored(q)
    BY <2>1, <2>2
  <2> QED
    BY <2>2, <2>4, <2>5
<1> HIDE DEF f, R
<1>7. /\ IsFiniteSet(R) /\ Cardinality(R) \in Nat
      /\ Cardinality(Stored(q)) = Cardinality(R) + n
  BY <1>2, <1>6, BytesLeave
<1>8. IsFiniteSet(Stored(r)) /\ Cardinality(Stored(r)) = Cardinality(R)
  BY <1>5, <1>7, FS_Bijection DEF ExistsBijection
<1> QED
  BY <1>2, <1>7, <1>8 DEF r

\* What the reservations f, z become when s goes to to with size y[s].
ReservedAfter(f, z, s, to, g, y, n) ==
  /\ Cardinality(Reserved(f, z)) \in Nat
  /\ to \in Reserving /\ f[s] \notin Reserving /\ y = z =>
       /\ IsFiniteSet(Reserved(g, y))
       /\ Cardinality(Reserved(g, y)) = Cardinality(Reserved(f, z)) + n
  /\ to \notin Reserving /\ f[s] \in Reserving /\ y = z =>
       /\ IsFiniteSet(Reserved(g, y)) /\ Cardinality(Reserved(g, y)) \in Nat
       /\ Cardinality(Reserved(f, z)) = Cardinality(Reserved(g, y)) + n
  /\ to \in Reserving /\ f[s] \in Reserving /\ y = z => Reserved(g, y) = Reserved(f, z)
  /\ to \notin Reserving /\ f[s] \notin Reserving => Reserved(g, y) = Reserved(f, z)

(* A thread's bytes are reserved where it is at one of those places. *)
LEMMA ReservedMoves ==
  ASSUME NEW f \in [Submitters -> Places], NEW z \in [Submitters -> Sizes],
         NEW s \in Submitters, NEW to, NEW g, g = [f EXCEPT ![s] = to],
         NEW y, \A u \in Submitters : u # s => y[u] = z[u], NEW n \in Nat, n = z[s],
         IsFiniteSet(Reserved(f, z))
  PROVE  ReservedAfter(f, z, s, to, g, y, n)
<1> DEFINE A == Reserved(f, z)
           B == Reserved(g, y)
<1>1. /\ g[s] = to /\ \A u \in Submitters : u # s => g[u] = f[u]
  BY DEF Places
<1>2. Cardinality(A) \in Nat
  BY FS_CardinalityType
<1>3. \A t \in Bytes(s, n) : t \in Submitters \X Nat /\ t[1] = s /\ t[2] \in 1..n
  BY DEF Bytes
<1>4. \A t \in Submitters \X Nat : t[1] = s /\ t[2] \in 1..n => t \in Bytes(s, n)
  BY DEF Bytes
<1>5. /\ \A t \in Submitters \X Nat :
           /\ t \in A <=> f[t[1]] \in Reserving /\ t[2] \in 1..z[t[1]]
           /\ t \in B <=> g[t[1]] \in Reserving /\ t[2] \in 1..y[t[1]]
      /\ A \subseteq Submitters \X Nat /\ B \subseteq Submitters \X Nat
  BY DEF Reserved
<1>6. \A t \in Submitters \X Nat : t[1] \in Submitters /\ (t[1] # s => (t \in A <=> t \in B))
  BY <1>1, <1>5
<1>7. /\ \A t \in Submitters \X Nat : t[1] = s =>
           /\ t \in A <=> f[s] \in Reserving /\ t[2] \in 1..z[s]
           /\ t \in B <=> to \in Reserving /\ t[2] \in 1..y[s]
  BY <1>1, <1>5
<1>8. A \subseteq Submitters \X Nat /\ B \subseteq Submitters \X Nat
  BY <1>5
<1> HIDE DEF A, B
<1>9. ASSUME to \in Reserving, f[s] \notin Reserving, y = z
      PROVE  IsFiniteSet(B) /\ Cardinality(B) = Cardinality(A) + n
  <2>1. B = A \cup Bytes(s, n) /\ A \cap Bytes(s, n) = {}
    BY <1>3, <1>4, <1>6, <1>7, <1>8, <1>9
  <2>2. IsFiniteSet(A)
    BY DEF A
  <2> QED
    BY <2>1, <2>2, BytesJoin
<1>10. ASSUME to \notin Reserving, f[s] \in Reserving, y = z
       PROVE  IsFiniteSet(B) /\ Cardinality(B) \in Nat /\ Cardinality(A) = Cardinality(B) + n
  <2>1. A = B \cup Bytes(s, n) /\ B \cap Bytes(s, n) = {}
    BY <1>3, <1>4, <1>6, <1>7, <1>8, <1>10
  <2>2. IsFiniteSet(A)
    BY DEF A
  <2> QED
    BY <2>1, <2>2, BytesLeave
<1>11. ASSUME to \in Reserving, f[s] \in Reserving, y = z PROVE B = A
  BY <1>6, <1>7, <1>8, <1>11
<1>12. ASSUME to \notin Reserving, f[s] \notin Reserving PROVE B = A
  BY <1>6, <1>7, <1>8, <1>12
<1> QED
  BY <1>2, <1>9, <1>10, <1>11, <1>12 DEF A, B, ReservedAfter

(* The two sums and the counter as the invariant has them. *)
LEMMA BytesKnown ==
  ASSUME ByteInv
  PROVE  /\ queue \in Seq(Commands) /\ Len(queue) \in Nat /\ queuedBytes \in Int
         /\ Cardinality(Stored(queue)) \in Nat /\ Cardinality(Reserved(pc, size)) \in Nat
         /\ pc \in [Submitters -> Places] /\ size \in [Submitters -> Sizes]
         /\ MaxQueuedBytes \in Nat /\ Capacity \in Nat /\ stranded \in Nat
<1>1. /\ queue \in Seq(Commands) /\ queuedBytes \in Int /\ stranded \in Nat
      /\ pc \in [Submitters -> Places] /\ size \in [Submitters -> Sizes]
  BY DEF ByteInv, AccountingInv, TypeOK, Places
<1>2. Len(queue) \in Nat
  BY <1>1
<1> QED
  BY <1>1, <1>2, FS_CardinalityType, AdmissionAssumption DEF ByteInv

(* A step that changes neither sum nor the counter. *)
LEMMA BytesSame ==
  ASSUME ByteInv, AccountingInv', queuedBytes' = queuedBytes, stranded' = stranded,
         Stored(queue)' = Stored(queue), Reserved(pc, size)' = Reserved(pc, size),
         Len(queue') <= Capacity
  PROVE  ByteInv'
BY DEF ByteInv, ByteAccounting

(* A thread's step that keeps its reservation or has none. *)
LEMMA BytesQuiet ==
  ASSUME ByteInv, AccountingInv', NEW s \in Submitters, NEW from, NEW to, Goto(s, from, to),
         \/ from \in Reserving /\ to \in Reserving /\ size' = size
         \/ /\ from \notin Reserving /\ to \notin Reserving
            /\ \A u \in Submitters : u # s => size'[u] = size[u],
         queuedBytes' = queuedBytes, stranded' = stranded, queue' = queue
  PROVE  ByteInv'
<1>1. pc' = [pc EXCEPT ![s] = to] /\ pc[s] = from
  BY DEF Goto
<1>2. PICK f, z, g, y : f = pc /\ z = size /\ g = pc' /\ y = size'
  OBVIOUS
<1>3. PICK n \in Nat : n = z[s]
  BY <1>2, BytesKnown, SizeFacts
<1>4. f \in [Submitters -> Places] /\ z \in [Submitters -> Sizes] /\ IsFiniteSet(Reserved(f, z))
  BY <1>2, BytesKnown DEF ByteInv
<1>5. g = [f EXCEPT ![s] = to] /\ \A u \in Submitters : u # s => y[u] = z[u]
  BY <1>1, <1>2
<1>6. Reserved(g, y) = Reserved(f, z)
  <2>1. ReservedAfter(f, z, s, to, g, y, n)
    BY ONLY <1>3, <1>4, <1>5, s \in Submitters, ReservedMoves
  <2> QED
    BY <1>1, <1>2, <2>1 DEF ReservedAfter
<1>7. Reserved(pc, size)' = Reserved(pc, size) /\ Stored(queue)' = Stored(queue)
  BY <1>2, <1>6
<1>8. Len(queue') <= Capacity
  BY DEF ByteInv
<1> QED
  BY <1>7, <1>8, BytesSame

(* reserve_queued_bytes. *)
LEMMA BytesReserve ==
  ASSUME ByteInv, AccountingInv', NEW s \in Submitters, ReserveBytes(s)
  PROVE  ByteInv'
<1>1. CASE Goto(s, "reserve", "leave") /\ queuedBytes' = queuedBytes
  BY <1>1, BytesQuiet DEF ReserveBytes, Reserving
<1>2. CASE /\ Goto(s, "reserve", "count") /\ queuedBytes' = queuedBytes + size[s]
           /\ ~(queuedBytes + size[s] > MaxQueuedBytes)
  <2>1. /\ pc' = [pc EXCEPT ![s] = "count"] /\ pc[s] = "reserve" /\ size' = size
        /\ queue' = queue /\ stranded' = stranded
    BY <1>2 DEF Goto, ReserveBytes
  <2>2. PICK f, z, g : f = pc /\ z = size /\ g = pc'
    OBVIOUS
  <2>3. PICK n \in Nat : n = z[s]
    BY <2>2, BytesKnown, SizeFacts
  <2>4. f \in [Submitters -> Places] /\ z \in [Submitters -> Sizes] /\ IsFiniteSet(Reserved(f, z))
    BY <2>2, BytesKnown DEF ByteInv
  <2>5. g = [f EXCEPT ![s] = "count"] /\ "count" \in Reserving /\ f[s] \notin Reserving
    BY <2>1, <2>2 DEF Reserving
  <2>6. IsFiniteSet(Reserved(g, z)) /\ Cardinality(Reserved(g, z)) = Cardinality(Reserved(f, z)) + n
    <3>1. ReservedAfter(f, z, s, "count", g, z, n)
      BY ONLY <2>3, <2>4, <2>5, s \in Submitters, ReservedMoves
    <3> QED
      BY <2>5, <3>1 DEF ReservedAfter
  <2>7. /\ IsFiniteSet(Reserved(pc, size)')
        /\ Cardinality(Reserved(pc, size)') = Cardinality(Reserved(pc, size)) + n
        /\ queuedBytes' = queuedBytes + n /\ queuedBytes' <= MaxQueuedBytes
        /\ Stored(queue)' = Stored(queue) /\ Len(queue') = Len(queue)
    BY <1>2, <2>1, <2>2, <2>3, <2>6, BytesKnown
  <2>8. PICK q, r, u, b : /\ q = Cardinality(Stored(queue)) /\ r = Cardinality(Reserved(pc, size))
                          /\ u = Cardinality(Reserved(pc, size)') /\ b = queuedBytes'
    OBVIOUS
  <2>9. q \in Nat /\ r \in Nat /\ u = r + n /\ b = queuedBytes + n /\ queuedBytes \in Int
    BY <2>7, <2>8, BytesKnown
  <2>10. /\ queuedBytes >= q + r /\ (stranded = 0 => queuedBytes = q + r)
    BY <2>8 DEF ByteInv, ByteAccounting
  <2>11. b >= q + u /\ (stranded = 0 => b = q + u)
    BY <2>3, <2>9, <2>10
  <2>12. ByteAccounting'
    BY <2>1, <2>7, <2>8, <2>11 DEF ByteAccounting
  <2> QED
    BY <2>7, <2>12 DEF ByteInv
<1> QED
  BY <1>1, <1>2 DEF ReserveBytes

(* A reservation that ends in the channel or with its thread. *)
LEMMA ReservedEnds ==
  ASSUME ByteInv, NEW s \in Submitters, NEW from \in Reserving, Goto(s, from, "leave"),
         size' = size
  PROVE  /\ IsFiniteSet(Reserved(pc, size)') /\ Cardinality(Reserved(pc, size)') \in Nat
         /\ Cardinality(Reserved(pc, size)) = Cardinality(Reserved(pc, size)') + size[s]
         /\ size[s] \in Nat
<1>1. pc' = [pc EXCEPT ![s] = "leave"] /\ pc[s] = from
  BY DEF Goto
<1>2. PICK f, z, g : f = pc /\ z = size /\ g = pc'
  OBVIOUS
<1>3. PICK n \in Nat : n = z[s]
  BY <1>2, BytesKnown, SizeFacts
<1>4. f \in [Submitters -> Places] /\ z \in [Submitters -> Sizes] /\ IsFiniteSet(Reserved(f, z))
  BY <1>2, BytesKnown DEF ByteInv
<1>5. g = [f EXCEPT ![s] = "leave"] /\ "leave" \notin Reserving /\ f[s] \in Reserving
  BY <1>1, <1>2 DEF Reserving
<1>6. /\ IsFiniteSet(Reserved(g, z)) /\ Cardinality(Reserved(g, z)) \in Nat
      /\ Cardinality(Reserved(f, z)) = Cardinality(Reserved(g, z)) + n
  <2>1. ReservedAfter(f, z, s, "leave", g, z, n)
    BY ONLY <1>3, <1>4, <1>5, s \in Submitters, ReservedMoves
  <2> QED
    BY <1>5, <2>1 DEF ReservedAfter
<1> QED
  BY <1>2, <1>3, <1>6

(* The rollback returns exactly what was reserved. *)
LEMMA BytesRelease ==
  ASSUME ByteInv, AccountingInv', NEW s \in Submitters, ReleaseBytes(s)
  PROVE  ByteInv'
<1>1. /\ Goto(s, "release", "leave") /\ size' = size /\ queue' = queue /\ stranded' = stranded
      /\ queuedBytes' = queuedBytes - size[s] /\ "release" \in Reserving
  BY DEF ReleaseBytes, Reserving
<1>2. /\ IsFiniteSet(Reserved(pc, size)') /\ Cardinality(Reserved(pc, size)') \in Nat
      /\ Cardinality(Reserved(pc, size)) = Cardinality(Reserved(pc, size)') + size[s]
      /\ size[s] \in Nat
  BY <1>1, ReservedEnds
<1>3. PICK q, r, u, n, b : /\ q = Cardinality(Stored(queue)) /\ r = Cardinality(Reserved(pc, size))
                           /\ u = Cardinality(Reserved(pc, size)') /\ n = size[s]
                           /\ b = queuedBytes'
  OBVIOUS
<1>4. q \in Nat /\ u \in Nat /\ n \in Nat /\ r = u + n /\ b = queuedBytes - n /\ queuedBytes \in Int
  BY <1>1, <1>2, <1>3, BytesKnown
<1>5. queuedBytes >= q + r /\ (stranded = 0 => queuedBytes = q + r) /\ queuedBytes <= MaxQueuedBytes
  BY <1>3 DEF ByteInv, ByteAccounting
<1>6. b >= q + u /\ (stranded = 0 => b = q + u) /\ b <= MaxQueuedBytes
  BY <1>4, <1>5, BytesKnown
<1>7. ByteAccounting'
  BY <1>1, <1>3, <1>6 DEF ByteAccounting
<1> QED
  BY <1>1, <1>2, <1>3, <1>6, <1>7 DEF ByteInv

(* try_send moves a reservation into the channel. *)
LEMMA BytesSend ==
  ASSUME ByteInv, AccountingInv', NEW s \in Submitters, TrySend(s)
  PROVE  ByteInv'
<1>1. CASE Goto(s, "send", "rollback") /\ queue' = queue
  BY <1>1, BytesQuiet DEF TrySend, shared, Reserving
<1>2. CASE /\ Len(queue) < Capacity /\ Goto(s, "send", "leave")
           /\ queue' = Append(queue, PacketCommand(size[s]))
  <2>1. /\ size' = size /\ stranded' = stranded /\ queuedBytes' = queuedBytes
        /\ "send" \in Reserving
    BY DEF TrySend, shared, Reserving
  <2>2. /\ IsFiniteSet(Reserved(pc, size)') /\ Cardinality(Reserved(pc, size)') \in Nat
        /\ Cardinality(Reserved(pc, size)) = Cardinality(Reserved(pc, size)') + size[s]
        /\ size[s] \in Nat
    BY <1>2, <2>1, ReservedEnds
  <2>3. PICK c, n : c = PacketCommand(size[s]) /\ n = size[s]
    OBVIOUS
  <2>4. c \in Commands /\ n = (IF c.kind = "packet" THEN c.size ELSE 0)
    <3>1. size[s] \in Sizes
      BY BytesKnown
    <3> QED
      BY <2>3, <3>1 DEF Commands, PacketCommand
  <2>5. /\ IsFiniteSet(Stored(queue)')
        /\ Cardinality(Stored(queue)') = Cardinality(Stored(queue)) + n
    <3>1. PICK q : q = queue
      OBVIOUS
    <3>2. q \in Seq(Commands) /\ IsFiniteSet(Stored(q))
      BY <3>1, BytesKnown DEF ByteInv
    <3>3. /\ IsFiniteSet(Stored(Append(q, c)))
          /\ Cardinality(Stored(Append(q, c))) = Cardinality(Stored(q)) + n
      BY <2>4, <3>2, StoredAppend
    <3> QED
      BY <1>2, <2>3, <3>1, <3>3
  <2>6. Len(queue') <= Capacity
    <3>1. Len(queue') = Len(queue) + 1
      BY <1>2, BytesKnown
    <3> QED
      BY <1>2, <3>1, BytesKnown
  <2>7. PICK q, v, r, u : /\ q = Cardinality(Stored(queue)) /\ v = Cardinality(Stored(queue)')
                          /\ r = Cardinality(Reserved(pc, size))
                          /\ u = Cardinality(Reserved(pc, size)')
    OBVIOUS
  <2>8. q \in Nat /\ v = q + n /\ u \in Nat /\ r = u + n /\ n \in Nat
    BY <2>2, <2>3, <2>5, <2>7, BytesKnown
  <2>9. v + u = q + r
    BY <2>8
  <2>10. ByteAccounting'
    BY <2>1, <2>7, <2>9 DEF ByteInv, ByteAccounting
  <2> QED
    BY <2>1, <2>2, <2>5, <2>6, <2>10 DEF ByteInv
<1> QED
  BY <1>1, <1>2 DEF TrySend

(* The steps of try_submit. *)
LEMMA BytesSubmit ==
  ASSUME ByteInv, NEW s \in Submitters, TrySubmit(s)
  PROVE  ByteInv'
<1>1. AccountingInv'
  BY SubmitAccounting DEF ByteInv
<1>2. CASE CheckPhase(s)
  <2>1. Goto(s, "idle", "cas") /\ queuedBytes' = queuedBytes /\ stranded' = stranded /\ queue' = queue
    BY <1>2 DEF CheckPhase, shared
  <2>2. \A u \in Submitters : u # s => size'[u] = size[u]
    BY <1>2, BytesKnown DEF CheckPhase
  <2> QED
    BY <1>1, <2>1, <2>2, BytesQuiet DEF Reserving
<1>3. ASSUME NEW from, NEW to, Goto(s, from, to),
             from \in Reserving <=> to \in Reserving, size' = size,
             queuedBytes' = queuedBytes, stranded' = stranded, queue' = queue
      PROVE  ByteInv'
  BY <1>1, <1>3, BytesQuiet
<1>4. CASE CountSubmitter(s)
  <2>1. size' = size /\ queuedBytes' = queuedBytes /\ stranded' = stranded /\ queue' = queue
    BY <1>4 DEF CountSubmitter
  <2>2. "cas" \notin Reserving /\ "recheck" \notin Reserving /\ "idle" \notin Reserving
    BY DEF Reserving
  <2> QED
    BY <1>3, <1>4, <2>1, <2>2 DEF CountSubmitter
<1>5. CASE RecheckPhase(s)
  <2>1. /\ size' = size /\ queuedBytes' = queuedBytes /\ stranded' = stranded /\ queue' = queue
        /\ Goto(s, "recheck", IF phase = "Running" THEN "reserve" ELSE "leave")
    BY <1>5 DEF RecheckPhase, shared
  <2>2. "recheck" \notin Reserving /\ (IF phase = "Running" THEN "reserve" ELSE "leave") \notin Reserving
    BY DEF Reserving
  <2> QED
    BY <1>3, <2>1, <2>2
<1>6. CASE ReserveBytes(s)
  BY <1>1, <1>6, BytesReserve
<1>7. CASE CountPacket(s) \/ UncountPacket(s) \/ Leave(s)
  <2>1. size' = size /\ queuedBytes' = queuedBytes /\ stranded' = stranded /\ queue' = queue
    BY <1>7 DEF CountPacket, UncountPacket, Leave
  <2>2. /\ "count" \in Reserving /\ "send" \in Reserving /\ "rollback" \in Reserving
        /\ "release" \in Reserving /\ "leave" \notin Reserving /\ "idle" \notin Reserving
    BY DEF Reserving
  <2> QED
    BY <1>3, <1>7, <2>1, <2>2 DEF CountPacket, UncountPacket, Leave
<1>8. CASE TrySend(s)
  BY <1>1, <1>8, BytesSend
<1>9. CASE ReleaseBytes(s)
  BY <1>1, <1>9, BytesRelease
<1> QED
  BY <1>2, <1>4, <1>5, <1>6, <1>7, <1>8, <1>9 DEF TrySubmit

(* The worker takes a command and returns its reservation. *)
LEMMA BytesTake ==
  ASSUME ByteInv, AccountingInv', queue # <<>>, queue' = Tail(queue),
         ReturnReservation(Head(queue)), pc' = pc, size' = size, stranded' = stranded
  PROVE  ByteInv'
<1>1. PICK q, n : q = queue /\ n = IF Head(queue).kind = "packet" THEN Head(queue).size ELSE 0
  OBVIOUS
<1>2. q \in Seq(Commands) /\ q # <<>> /\ IsFiniteSet(Stored(q))
      /\ n = IF Head(q).kind = "packet" THEN Head(q).size ELSE 0
  BY <1>1, BytesKnown DEF ByteInv
<1>3. /\ IsFiniteSet(Stored(Tail(q))) /\ Cardinality(Stored(Tail(q))) \in Nat /\ n \in Nat
      /\ Cardinality(Stored(q)) = Cardinality(Stored(Tail(q))) + n
  BY <1>2, StoredTail
<1>4. Reserved(pc, size)' = Reserved(pc, size) /\ Stored(queue)' = Stored(Tail(q))
  BY <1>1
<1>5. queuedBytes' = queuedBytes - n
  <2>1. CASE Head(queue).kind = "packet"
    BY <1>1, <2>1 DEF ReturnReservation
  <2>2. CASE Head(queue).kind # "packet"
    <3>1. queuedBytes' = queuedBytes /\ n = 0
      BY <1>1, <2>2 DEF ReturnReservation
    <3> QED
      BY <3>1, BytesKnown
  <2> QED
    BY <2>1, <2>2
<1>6. Len(queue') <= Capacity
  <2>1. Len(queue') = Len(queue) - 1
    BY BytesKnown
  <2> QED
    BY <2>1, BytesKnown DEF ByteInv
<1>7. PICK a, v, r, b : /\ a = Cardinality(Stored(queue)) /\ v = Cardinality(Stored(queue)')
                        /\ r = Cardinality(Reserved(pc, size)) /\ b = queuedBytes'
  OBVIOUS
<1>8. a = v + n /\ v \in Nat /\ r \in Nat /\ b = queuedBytes - n /\ queuedBytes \in Int
  BY <1>1, <1>3, <1>4, <1>5, <1>7, BytesKnown
<1>9. queuedBytes >= a + r /\ (stranded = 0 => queuedBytes = a + r) /\ queuedBytes <= MaxQueuedBytes
  BY <1>7 DEF ByteInv, ByteAccounting
<1>10. b >= v + r /\ (stranded = 0 => b = v + r) /\ b <= MaxQueuedBytes
  BY <1>3, <1>8, <1>9, BytesKnown
<1>11. ByteAccounting'
  BY <1>4, <1>7, <1>10 DEF ByteAccounting
<1> QED
  BY <1>3, <1>4, <1>6, <1>7, <1>10, <1>11 DEF ByteInv

(* The owner's commands have no payload. *)
LEMMA BytesCommand ==
  ASSUME ByteInv, AccountingInv', NEW c \in {Control, ShutdownCommand},
         \/ queue' = queue
         \/ Len(queue) < Capacity /\ queue' = Append(queue, c),
         pc' = pc, size' = size, stranded' = stranded, queuedBytes' = queuedBytes
  PROVE  ByteInv'
<1>1. Reserved(pc, size)' = Reserved(pc, size)
  OBVIOUS
<1>2. CASE queue' = queue
  <2>1. Len(queue') <= Capacity
    BY <1>2 DEF ByteInv
  <2> QED
    BY <1>1, <1>2, <2>1, BytesSame
<1>3. CASE Len(queue) < Capacity /\ queue' = Append(queue, c)
  <2>1. c \in Commands /\ 0 = (IF c.kind = "packet" THEN c.size ELSE 0)
    BY DEF Commands, Control, ShutdownCommand
  <2>2. PICK q : q = queue
    OBVIOUS
  <2>3. q \in Seq(Commands) /\ IsFiniteSet(Stored(q))
    BY <2>2, BytesKnown DEF ByteInv
  <2>4. /\ IsFiniteSet(Stored(Append(q, c))) /\ Cardinality(Stored(q)) \in Nat
        /\ Cardinality(Stored(Append(q, c))) = Cardinality(Stored(q)) + 0
    BY <2>1, <2>3, StoredAppend
  <2>5. IsFiniteSet(Stored(queue)') /\ Cardinality(Stored(queue)') = Cardinality(Stored(queue))
    BY <1>3, <2>2, <2>4
  <2>6. Len(queue') <= Capacity
    <3>1. Len(queue') = Len(queue) + 1
      BY <1>3, BytesKnown
    <3> QED
      BY <1>3, <3>1, BytesKnown
  <2> QED
    BY <1>1, <2>5, <2>6 DEF ByteInv, ByteAccounting
<1> QED
  BY <1>2, <1>3

(* The channel is dropped with what is in it. *)
LEMMA BytesDrop ==
  ASSUME ByteInv, AccountingInv', DropReceiver
  PROVE  ByteInv'
<1>1. /\ queue' = <<>> /\ stranded' = stranded + Cardinality(PacketsIn(queue))
      /\ pc' = pc /\ size' = size /\ queuedBytes' = queuedBytes
  BY DEF DropReceiver, shared
<1>2. Stored(queue)' = {} /\ Reserved(pc, size)' = Reserved(pc, size)
  BY <1>1 DEF Stored, PacketsIn
<1>3. IsFiniteSet({}) /\ Cardinality({}) = 0
  BY FS_EmptySet
<1>4. IsFiniteSet(PacketsIn(queue)) /\ Cardinality(PacketsIn(queue)) \in Nat
  BY BytesKnown, PacketsInFinite
<1>5. stranded' = 0 => stranded = 0 /\ Stored(queue) = {}
  <2>1. stranded' = 0 => stranded = 0 /\ Cardinality(PacketsIn(queue)) = 0
    BY <1>1, <1>4, BytesKnown
  <2>2. Cardinality(PacketsIn(queue)) = 0 => PacketsIn(queue) = {}
    BY <1>4, FS_EmptySet
  <2> QED
    BY <2>1, <2>2 DEF Stored
<1>6. PICK q, r : q = Cardinality(Stored(queue)) /\ r = Cardinality(Reserved(pc, size))
  OBVIOUS
<1>7. q \in Nat /\ r \in Nat /\ queuedBytes \in Int /\ Capacity \in Nat
  BY <1>6, BytesKnown
<1>8. queuedBytes >= q + r /\ (stranded = 0 => queuedBytes = q + r)
  BY <1>6 DEF ByteInv, ByteAccounting
<1>9. queuedBytes >= 0 + r /\ (stranded' = 0 => queuedBytes = 0 + r)
  <2>1. queuedBytes >= 0 + r
    BY <1>7, <1>8
  <2>2. ASSUME stranded' = 0 PROVE queuedBytes = 0 + r
    BY <1>3, <1>5, <1>6, <1>8, <2>2
  <2> QED
    BY <2>1, <2>2
<1>10. ByteAccounting'
  BY <1>1, <1>2, <1>3, <1>6, <1>9 DEF ByteAccounting
<1>11. Len(queue') <= Capacity
  BY <1>1, <1>7
<1> QED
  BY <1>1, <1>2, <1>3, <1>10, <1>11 DEF ByteInv

LEMMA BytesStep == ByteInv /\ [Next]_vars => ByteInv'
<1> SUFFICES ASSUME ByteInv, [Next]_vars PROVE ByteInv'
  OBVIOUS
<1>1. AccountingInv'
  BY AccountingStep DEF ByteInv
<1>2. ASSUME NEW s \in Submitters, TrySubmit(s) PROVE ByteInv'
  BY <1>2, BytesSubmit
<1>3. CASE Receive
  BY <1>1, <1>3, BytesTake DEF Receive
<1>4. CASE Drain /\ queue # <<>>
  BY <1>1, <1>4, BytesTake DEF Drain
<1>5. CASE DropReceiver
  BY <1>1, <1>5, BytesDrop
<1>6. CASE SendControl
  BY <1>1, <1>6, BytesCommand DEF SendControl, shared
<1>7. CASE SendShutdown
  BY <1>1, <1>7, BytesCommand DEF SendShutdown, shared
<1>8. CASE \/ CloseAdmission \/ PerformStore \/ AwaitSubmitters \/ (Drain /\ queue = <<>>)
           \/ BeginControl \/ BeginShutdown \/ Join \/ UNCHANGED vars
  <2>1. /\ queue' = queue /\ pc' = pc /\ size' = size /\ stranded' = stranded
        /\ queuedBytes' = queuedBytes
    BY <1>8 DEF CloseAdmission, PerformStore, AwaitSubmitters, Drain, BeginControl,
                BeginShutdown, Join, vars, shared
  <2> QED
    BY <1>1, <2>1, BytesCommand
<1> QED
  BY <1>2, <1>3, <1>4, <1>5, <1>6, <1>7, <1>8 DEF Next

(* The channel never holds more than its capacity and the byte counter stays
   between nothing and its bound, with any number of threads racing for the last
   slot and the last bytes and on either memory model ("at most 64 packet commands
   and 32 MiB of encoded payload"); and the counter is exact: it is the payload
   in the channel and of the threads on their way, unless packets were lost with
   the channel (reserve_queued_bytes, try_submit's rollbacks, the drain). *)
THEOREM QueueBoundedCorrect == Spec => [](QueueBounded /\ ByteAccounting)
<1>1. Init => ByteInv
  <2> SUFFICES ASSUME Init PROVE ByteInv
    OBVIOUS
  <2>1. AccountingInv
    BY AccountingInit
  <2>2. /\ queue = <<>> /\ queuedBytes = 0 /\ \A s \in Submitters : pc[s] = "idle"
    BY DEF Init
  <2>3. Stored(queue) = {} /\ Reserved(pc, size) = {}
    BY <2>2 DEF Stored, PacketsIn, Reserved, Reserving
  <2>4. IsFiniteSet({}) /\ Cardinality({}) = 0
    BY FS_EmptySet
  <2>5. Len(queue) = 0 /\ Capacity \in Nat /\ MaxQueuedBytes \in Nat
    BY <2>2, AdmissionAssumption
  <2>6. ByteAccounting
    BY <2>2, <2>3, <2>4 DEF ByteAccounting
  <2>7. Len(queue) <= Capacity /\ queuedBytes <= MaxQueuedBytes
    BY <2>2, <2>5
  <2> QED
    BY <2>1, <2>3, <2>4, <2>6, <2>7 DEF ByteInv
<1>2. ByteInv => QueueBounded /\ ByteAccounting
  <2> SUFFICES ASSUME ByteInv PROVE QueueBounded
    BY DEF ByteInv
  <2>1. PICK q, r : q = Cardinality(Stored(queue)) /\ r = Cardinality(Reserved(pc, size))
    OBVIOUS
  <2>2. q \in Nat /\ r \in Nat /\ queuedBytes \in Int /\ MaxQueuedBytes \in Nat
    BY <2>1, BytesKnown
  <2>3. queuedBytes >= q + r
    BY <2>1 DEF ByteInv, ByteAccounting
  <2>4. queuedBytes \in 0..MaxQueuedBytes
    BY <2>2, <2>3 DEF ByteInv
  <2> QED
    BY <2>4 DEF ByteInv, QueueBounded
<1> QED
  BY <1>1, <1>2, BytesStep, PTL DEF Spec
===============================================================================
