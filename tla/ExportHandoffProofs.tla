------------------------- MODULE ExportHandoffProofs -------------------------
(***************************************************************************)
(* Proofs about ExportHandoff, for any number of producers, devices and    *)
(* frames and any capacities.                                              *)
(***************************************************************************)
EXTENDS ExportHandoff, FiniteSetTheorems, SequenceTheorems, TLAPS

(* The shape of the state, as far as the proofs need it. *)
Queues == [frames : Seq(Nat), releaseOnly : Nat, rejected : SUBSET Nat, rejection : BOOLEAN]
Pumps == [pc : {"top", "fault", "completions", "wait", "taken", "record", "submit", "return",
                "stopped"},
          hand : Nat, pending : SUBSET Nat, armed : BOOLEAN, cooling : BOOLEAN]
Recorders == [pipeline : {"none", "recording", "stuck"}, inputs : Seq(Nat),
              completed : SUBSET Nat]
Shape ==
    /\ wire \in [Producers -> Nat] /\ device \in [Producers -> Nat]
    /\ life \in [Producers -> {"none", "up", "dead"}]
    /\ owed \in [Producers -> SUBSET Nat] /\ lost \in [Producers -> SUBSET Nat]
    /\ nextToken \in Nat \ {0}
    /\ queue \in Queues /\ pump \in Pumps /\ recorder \in Recorders

(* Leased tokens were given out, and there are never more than routes. *)
RoutesFit(known, next) ==
    /\ DOMAIN known \subseteq 1 .. (next - 1)
    /\ Cardinality(DOMAIN known) <= RouteCapacity

Dead(origin, lf, dv) == lf[origin.path] # "up" \/ dv[origin.path] # origin.device

(* A route names a frame that was exported from a device that was created, no
   two name the same one, and a living producer waits for exactly the frames
   that have a route and those that were lost on the way. *)
RoutesTrue(known, waiting, lf, dv, wr, ls) ==
    /\ \A t \in DOMAIN known :
         /\ known[t] \in [path : Producers, device : Nat, wire : Nat]
         /\ known[t].device <= dv[known[t].path]
         /\ known[t].wire > 0 /\ known[t].wire <= wr[known[t].path]
         /\ ~Dead(known[t], lf, dv) => known[t].wire \notin ls[known[t].path]
    /\ \A t, u \in DOMAIN known : known[t] = known[u] => t = u
    /\ \A p \in Producers : \A w \in ls[p] : w <= wr[p]
    /\ \A p \in Producers : \A w \in Nat :
         w \in waiting[p] <=>
           \/ w \in ls[p]
           \/ \E t \in DOMAIN known :
                known[t].path = p /\ known[t].wire = w /\ ~Dead(known[t], lf, dv)

(* The places a frame can be in are apart, and what they hold is leased. *)
Apart(F, R, P, H, I, C, D) ==
    /\ F \subseteq D /\ R \subseteq D /\ P \subseteq D /\ H \subseteq D /\ I \subseteq D /\ C \subseteq D
    /\ \A t \in F : t \notin R /\ t \notin P /\ t \notin H /\ t \notin I /\ t \notin C
    /\ \A t \in R : t \notin P /\ t \notin H /\ t \notin I /\ t \notin C
    /\ \A t \in P : t \notin H /\ t \notin I /\ t \notin C
    /\ \A t \in H : t \notin I /\ t \notin C
    /\ \A t \in I : t \notin C

PlacesApart ==
    /\ IsInjective(queue.frames) /\ IsInjective(recorder.inputs)
    /\ Apart(ToSet(queue.frames), queue.rejected, pump.pending, Hand, ToSet(recorder.inputs),
             recorder.completed, DOMAIN routes)

HandFull == pump.pc \in {"taken", "record", "submit"} => pump.hand # NoToken

(* The inductive invariant. *)
HInv ==
    /\ Shape
    /\ RoutesFit(routes, nextToken)
    /\ RoutesTrue(routes, owed, life, device, wire, lost)
    /\ PlacesApart
    /\ HandFull
    /\ queue.releaseOnly = 0

-------------------------------------------------------------------------------
(* What the operations on sequences do to the set of their elements.       *)

(* Appending a new element. *)
LEMMA AppendFacts ==
    ASSUME NEW s \in Seq(Nat), NEW x \in Nat
    PROVE  /\ Append(s, x) \in Seq(Nat)
           /\ ToSet(Append(s, x)) = ToSet(s) \union {x}
           /\ IsInjective(s) /\ x \notin ToSet(s) => IsInjective(Append(s, x))
  <1>1. /\ Append(s, x) \in Seq(Nat)
        /\ DOMAIN Append(s, x) = DOMAIN s \union {Len(s) + 1}
        /\ \A i \in DOMAIN s : Append(s, x)[i] = s[i]
        /\ Append(s, x)[Len(s) + 1] = x
    OBVIOUS
  <1>2. ToSet(Append(s, x)) = ToSet(s) \union {x}
    BY <1>1 DEF ToSet
  <1>3. IsInjective(s) /\ x \notin ToSet(s) => IsInjective(Append(s, x))
    BY <1>1 DEF ToSet, IsInjective
  <1> QED
    BY <1>1, <1>2, <1>3

(* Taking the first element. *)
LEMMA TailFacts ==
    ASSUME NEW s \in Seq(Nat), s # <<>>
    PROVE  /\ Tail(s) \in Seq(Nat) /\ Head(s) \in Nat
           /\ ToSet(s) = {Head(s)} \union ToSet(Tail(s))
           /\ IsInjective(s) => IsInjective(Tail(s)) /\ Head(s) \notin ToSet(Tail(s))
  <1>1. /\ Tail(s) \in Seq(Nat) /\ Head(s) \in Nat /\ Head(s) = s[1]
        /\ 1 \in DOMAIN s /\ DOMAIN s = 1 .. Len(s) /\ Len(s) \in Nat /\ Len(s) > 0
        /\ DOMAIN Tail(s) = 1 .. (Len(s) - 1)
        /\ \A i \in 1 .. (Len(s) - 1) : Tail(s)[i] = s[i + 1]
    OBVIOUS
  <1>2. ToSet(s) = {Head(s)} \union ToSet(Tail(s))
    <2>1. ASSUME NEW x \in ToSet(s) PROVE x = Head(s) \/ x \in ToSet(Tail(s))
      <3>1. PICK i \in DOMAIN s : x = s[i]
        BY DEF ToSet
      <3>2. CASE i = 1
        BY <1>1, <3>1, <3>2
      <3>3. CASE i # 1
        <4>1. i - 1 \in 1 .. (Len(s) - 1) /\ Tail(s)[i - 1] = s[i]
          BY <1>1, <3>3
        <4> QED
          BY <1>1, <3>1, <4>1 DEF ToSet
      <3> QED
        BY <3>2, <3>3
    <2>2. ASSUME NEW x \in ToSet(Tail(s)) PROVE x \in ToSet(s)
      <3>1. PICK i \in 1 .. (Len(s) - 1) : x = Tail(s)[i]
        BY <1>1 DEF ToSet
      <3> QED
        BY <1>1, <3>1 DEF ToSet
    <2>3. Head(s) \in ToSet(s)
      BY <1>1 DEF ToSet
    <2> QED
      BY <2>1, <2>2, <2>3
  <1>3. ASSUME IsInjective(s) PROVE IsInjective(Tail(s)) /\ Head(s) \notin ToSet(Tail(s))
    <2>1. \A i \in 1 .. (Len(s) - 1) : i + 1 \in DOMAIN s /\ i + 1 # 1 /\ Tail(s)[i] = s[i + 1]
      BY <1>1
    <2>2. \A i, j \in DOMAIN s : s[i] = s[j] => i = j
      BY <1>3 DEF IsInjective
    <2>3. \A i, j \in DOMAIN Tail(s) : Tail(s)[i] = Tail(s)[j] => i = j
      <3> SUFFICES ASSUME NEW i \in 1 .. (Len(s) - 1), NEW j \in 1 .. (Len(s) - 1),
                          Tail(s)[i] = Tail(s)[j]
                   PROVE  i = j
        BY <1>1
      <3>1. i + 1 = j + 1
        BY <2>1, <2>2
      <3> QED
        BY <3>1
    <2>4. ASSUME NEW i \in 1 .. (Len(s) - 1) PROVE Tail(s)[i] # Head(s)
      BY <1>1, <2>1, <2>2
    <2> QED
      BY <1>1, <2>3, <2>4 DEF ToSet, IsInjective
  <1> QED
    BY <1>1, <1>2, <1>3

(* Splitting a sequence in two. *)
LEMMA SplitFacts ==
    ASSUME NEW s \in Seq(Nat), NEW n \in 0 .. Len(s)
    PROVE  /\ SubSeq(s, 1, n) \in Seq(Nat) /\ SubSeq(s, n + 1, Len(s)) \in Seq(Nat)
           /\ Len(SubSeq(s, 1, n)) = n /\ Len(SubSeq(s, n + 1, Len(s))) = Len(s) - n
           /\ ToSet(SubSeq(s, 1, n)) \subseteq ToSet(s)
           /\ ToSet(SubSeq(s, n + 1, Len(s))) \subseteq ToSet(s)
           /\ IsInjective(s) =>
                /\ IsInjective(SubSeq(s, n + 1, Len(s)))
                /\ ToSet(SubSeq(s, 1, n)) \cap ToSet(SubSeq(s, n + 1, Len(s))) = {}
  <1> DEFINE a == SubSeq(s, 1, n)
             b == SubSeq(s, n + 1, Len(s))
  <1>1. Len(s) \in Nat /\ DOMAIN s = 1 .. Len(s) /\ \A i \in 1 .. Len(s) : s[i] \in Nat
    OBVIOUS
  <1>2. /\ a \in Seq(Nat) /\ Len(a) = n /\ DOMAIN a = 1 .. n
        /\ \A i \in 1 .. n : a[i] = s[i]
    <2>1. /\ a \in Seq(Nat) /\ Len(a) = IF 1 <= n THEN n - 1 + 1 ELSE 0
          /\ \A i \in 1 .. (n - 1 + 1) : a[i] = s[1 + i - 1]
      BY <1>1, SubSeqProperties
    <2> HIDE DEF a
    <2> QED
      BY <2>1
  <1>3. /\ b \in Seq(Nat) /\ Len(b) = Len(s) - n /\ DOMAIN b = 1 .. (Len(s) - n)
        /\ \A i \in 1 .. (Len(s) - n) : b[i] = s[n + i]
    <2>1. /\ b \in Seq(Nat)
          /\ Len(b) = IF n + 1 <= Len(s) THEN Len(s) - (n + 1) + 1 ELSE 0
          /\ \A i \in 1 .. (Len(s) - (n + 1) + 1) : b[i] = s[(n + 1) + i - 1]
      BY <1>1, SubSeqProperties
    <2> HIDE DEF b
    <2>2. Len(b) = Len(s) - n /\ DOMAIN b = 1 .. (Len(s) - n)
      <3>0. n \in Nat /\ n <= Len(s)
        BY <1>1
      <3>1. CASE n = Len(s)
        <4>1. ~(n + 1 <= Len(s))
          BY <1>1, <3>1
        <4>2. Len(b) = 0
          BY <2>1, <4>1
        <4> QED
          BY <1>1, <2>1, <3>1, <4>2
      <3>2. CASE n # Len(s)
        <4>1. n + 1 <= Len(s)
          <5>1. \A k, l \in Nat : k <= l /\ k # l => k + 1 <= l
            OBVIOUS
          <5> QED
            BY <1>1, <3>0, <3>2, <5>1
        <4> QED
          BY <1>1, <2>1, <3>0, <4>1
      <3> QED
        BY <3>1, <3>2
    <2>3. ASSUME NEW i \in 1 .. (Len(s) - n) PROVE b[i] = s[n + i]
      <3>1. i \in 1 .. (Len(s) - (n + 1) + 1) /\ (n + 1) + i - 1 = n + i
        BY <1>1
      <3> QED
        BY <2>1, <3>1
    <2> QED
      BY <2>1, <2>2, <2>3
  <1> HIDE DEF a, b
  <1>4. \A i \in 1 .. n : i \in DOMAIN s
    BY <1>1
  <1>5. \A i \in 1 .. (Len(s) - n) : n + i \in DOMAIN s
    BY <1>1
  <1>6. ToSet(a) \subseteq ToSet(s)
    BY <1>2, <1>4 DEF ToSet
  <1>7. ToSet(b) \subseteq ToSet(s)
    BY <1>3, <1>5 DEF ToSet
  <1>8. ASSUME IsInjective(s) PROVE IsInjective(b) /\ ToSet(a) \cap ToSet(b) = {}
    <2>1. \A i, j \in DOMAIN s : s[i] = s[j] => i = j
      BY <1>8 DEF IsInjective
    <2>2. ASSUME NEW i \in 1 .. (Len(s) - n), NEW j \in 1 .. (Len(s) - n), b[i] = b[j]
          PROVE  i = j
      <3>1. n + i = n + j
        BY <1>3, <1>5, <2>1, <2>2
      <3> QED
        BY <1>1, <3>1
    <2>3. ASSUME NEW i \in 1 .. n, NEW j \in 1 .. (Len(s) - n) PROVE a[i] # b[j]
      <3>1. i # n + j
        BY <1>1
      <3> QED
        BY <1>2, <1>3, <1>4, <1>5, <2>1, <3>1
    <2>4. IsInjective(b)
      BY <1>3, <2>2 DEF IsInjective
    <2>5. ToSet(a) \cap ToSet(b) = {}
      BY <1>2, <1>3, <2>3 DEF ToSet
    <2> QED
      BY <2>4, <2>5
  <1> QED
    BY <1>2, <1>3, <1>6, <1>7, <1>8 DEF a, b

(* The elements of a sequence without repetition. *)
LEMMA CountFacts ==
    ASSUME NEW s \in Seq(Nat), IsInjective(s)
    PROVE  IsFiniteSet(ToSet(s)) /\ Cardinality(ToSet(s)) = Len(s)
  <1>1. Len(s) \in Nat /\ DOMAIN s = 1 .. Len(s) /\ s \in [1 .. Len(s) -> ToSet(s)]
    BY DEF ToSet
  <1>2. s \in Injection(1 .. Len(s), ToSet(s))
    BY <1>1 DEF Injection, IsInjective
  <1>3. s \in Surjection(1 .. Len(s), ToSet(s))
    BY <1>1 DEF Surjection, ToSet
  <1>4. ExistsBijection(1 .. Len(s), ToSet(s))
    BY <1>2, <1>3 DEF ExistsBijection, Bijection
  <1>5. IsFiniteSet(ToSet(s))
    BY <1>1, <1>4, FS_NatBijection
  <1> QED
    BY <1>1, <1>4, <1>5, FS_CountingElements

-------------------------------------------------------------------------------
(* Routes and what producers wait for.                                     *)

(* release: the acknowledged frames lose their route, and exactly they stop
   being waited for. *)
LEMMA AcknowledgeKeeps ==
    ASSUME NEW known, NEW waiting \in [Producers -> SUBSET Nat],
           NEW sent \in SUBSET DOMAIN known, NEW wr,
           RoutesTrue(known, waiting, life, device, wr, lost),
           Acknowledge(sent, known, waiting)
    PROVE  /\ owed' \in [Producers -> SUBSET Nat]
           /\ DOMAIN routes' = DOMAIN known \ sent
           /\ RoutesTrue(routes', owed', life, device, wr, lost)
  <1> DEFINE Live(t, p, w) ==
               known[t].path = p /\ known[t].wire = w /\ ~Dead(known[t], life, device)
  <1>1. /\ DOMAIN routes' = DOMAIN known \ sent
        /\ \A t \in DOMAIN routes' : routes'[t] = known[t]
    BY DEF Acknowledge, Drop
  <1>2. /\ owed' \in [Producers -> SUBSET Nat]
        /\ \A p \in Producers : owed'[p] = waiting[p] \ Freed(p, sent, known)
    BY DEF Acknowledge
  <1>3. \A p \in Producers : \A w : w \in Freed(p, sent, known) <=> \E u \in sent : Live(u, p, w)
    BY DEF Freed, Gone, Dead
  <1>4. \A t \in DOMAIN known :
          /\ known[t] \in [path : Producers, device : Nat, wire : Nat]
          /\ ~Dead(known[t], life, device) => known[t].wire \notin lost[known[t].path]
    BY DEF RoutesTrue
  <1>5. \A t, u \in DOMAIN known : known[t] = known[u] => t = u
    BY DEF RoutesTrue
  <1>6. ASSUME NEW p \in Producers, NEW w \in Nat, NEW t \in DOMAIN known, NEW u \in DOMAIN known,
               Live(t, p, w), Live(u, p, w)
        PROVE  t = u
    <2>1. known[t].device = device[p] /\ known[u].device = device[p]
      BY <1>6 DEF Dead
    <2>2. known[t] = known[u]
      BY <1>4, <1>6, <2>1
    <2> QED
      BY <1>5, <2>2
  <1>7. ASSUME NEW p \in Producers, NEW w \in Nat
        PROVE  w \in owed'[p] <=>
                 \/ w \in lost[p]
                 \/ \E t \in DOMAIN routes' : /\ routes'[t].path = p /\ routes'[t].wire = w
                                              /\ ~Dead(routes'[t], life, device)
    <2>1. w \in waiting[p] <=> w \in lost[p] \/ \E t \in DOMAIN known : Live(t, p, w)
      BY DEF RoutesTrue
    <2>2. w \in owed'[p] <=> w \in waiting[p] /\ ~\E u \in sent : Live(u, p, w)
      BY <1>2, <1>3
    <2>3. w \in lost[p] => ~\E u \in sent : Live(u, p, w)
      BY <1>4
    <2>4. (\E t \in DOMAIN known \ sent : Live(t, p, w)) => ~\E u \in sent : Live(u, p, w)
      BY <1>6
    <2>5. (\E t \in DOMAIN known : Live(t, p, w)) /\ (~\E u \in sent : Live(u, p, w))
            <=> \E t \in DOMAIN known \ sent : Live(t, p, w)
      BY <2>4
    <2>6. (\E t \in DOMAIN known \ sent : Live(t, p, w))
            <=> \E t \in DOMAIN routes' : /\ routes'[t].path = p /\ routes'[t].wire = w
                                          /\ ~Dead(routes'[t], life, device)
      BY <1>1
    <2> QED
      BY <2>1, <2>2, <2>3, <2>5, <2>6
  <1>8. RoutesTrue(routes', owed', life, device, wr, lost)
    BY <1>1, <1>7 DEF RoutesTrue
  <1> QED
    BY <1>1, <1>2, <1>8

(* The table of routes does not grow when routes are dropped. *)
LEMMA FitsShrunk ==
    ASSUME nextToken \in Nat, RoutesFit(routes, nextToken), NEW known,
           DOMAIN known \subseteq DOMAIN routes
    PROVE  RoutesFit(known, nextToken)
  <1>0. IsFiniteSet(1 .. (nextToken - 1))
    BY FS_Interval
  <1>1. IsFiniteSet(DOMAIN routes)
    BY <1>0, FS_Subset DEF RoutesFit
  <1>2. Cardinality(DOMAIN known) <= Cardinality(DOMAIN routes) /\ IsFiniteSet(DOMAIN known)
    BY <1>1, FS_Subset
  <1>3. Cardinality(DOMAIN known) \in Nat /\ Cardinality(DOMAIN routes) \in Nat
    BY <1>1, <1>2, FS_CardinalityType
  <1> QED
    BY <1>2, <1>3, HandoffAssumption DEF RoutesFit

(* register: the new route is the only one of its frame. *)
LEMMA RegisterTrue ==
    ASSUME Shape, RoutesFit(routes, nextToken),
           RoutesTrue(routes, owed, life, device, wire, lost),
           NEW p \in Producers, life[p] = "up", Cardinality(DOMAIN routes) < RouteCapacity,
           NEW w, w = wire[p] + 1, NEW known, known = WithRoute(p, w),
           NEW waiting, waiting = [owed EXCEPT ![p] = @ \union {w}],
           wire' = [wire EXCEPT ![p] = w]
    PROVE  /\ DOMAIN known = DOMAIN routes \union {nextToken}
           /\ waiting \in [Producers -> SUBSET Nat]
           /\ RoutesTrue(known, waiting, life, device, wire', lost)
  <1> DEFINE n == nextToken
  <1>1. n \in Nat /\ n \notin DOMAIN routes /\ w \in Nat /\ w > wire[p]
    BY DEF Shape, RoutesFit
  <1>2. /\ DOMAIN known = DOMAIN routes \union {n}
        /\ \A t \in DOMAIN routes : known[t] = routes[t]
        /\ known[n] = [path |-> p, device |-> device[p], wire |-> w]
    BY <1>1 DEF WithRoute, Origin
  <1>3. waiting \in [Producers -> SUBSET Nat]
    BY <1>1 DEF Shape
  <1>4. wire' \in [Producers -> Nat] /\ \A q \in Producers : wire'[q] >= wire[q]
    BY <1>1 DEF Shape
  <1>5. ~Dead(known[n], life, device)
    BY <1>2 DEF Dead
  <1>6. RoutesTrue(known, waiting, life, device, wire', lost)
    <2>1. \A t \in DOMAIN known :
            /\ known[t] \in [path : Producers, device : Nat, wire : Nat]
            /\ known[t].device <= device[known[t].path]
            /\ known[t].wire > 0 /\ known[t].wire <= wire'[known[t].path]
            /\ ~Dead(known[t], life, device) => known[t].wire \notin lost[known[t].path]
      <3>1. ASSUME NEW t \in DOMAIN routes
            PROVE  /\ known[t] \in [path : Producers, device : Nat, wire : Nat]
                   /\ known[t].device <= device[known[t].path]
                   /\ known[t].wire > 0 /\ known[t].wire <= wire'[known[t].path]
                   /\ ~Dead(known[t], life, device) => known[t].wire \notin lost[known[t].path]
        BY <1>2, <1>4 DEF RoutesTrue, Shape
      <3>2. /\ known[n] \in [path : Producers, device : Nat, wire : Nat]
            /\ known[n].device <= device[known[n].path]
            /\ known[n].wire > 0 /\ known[n].wire <= wire'[known[n].path]
            /\ known[n].wire \notin lost[known[n].path]
        BY <1>1, <1>2, <1>4 DEF RoutesTrue, Shape
      <3> QED
        BY <1>2, <3>1, <3>2
    <2>2. \A t \in DOMAIN routes : known[t] # known[n]
      BY <1>1, <1>2 DEF RoutesTrue, Shape
    <2>3. \A t, u \in DOMAIN known : known[t] = known[u] => t = u
      BY <1>2, <2>2 DEF RoutesTrue
    <2>4. \A q \in Producers : \A v \in lost[q] : v <= wire'[q]
      BY <1>4 DEF RoutesTrue, Shape
    <2>5. ASSUME NEW q \in Producers, NEW v \in Nat
          PROVE  v \in waiting[q] <=>
                   \/ v \in lost[q]
                   \/ \E t \in DOMAIN known :
                        known[t].path = q /\ known[t].wire = v /\ ~Dead(known[t], life, device)
      <3>1. v \in owed[q] <=>
              \/ v \in lost[q]
              \/ \E t \in DOMAIN routes :
                   routes[t].path = q /\ routes[t].wire = v /\ ~Dead(routes[t], life, device)
        BY DEF RoutesTrue
      <3>2. v \in waiting[q] <=> v \in owed[q] \/ (q = p /\ v = w)
        BY DEF Shape
      <3>3. (q = p /\ v = w) <=>
               known[n].path = q /\ known[n].wire = v /\ ~Dead(known[n], life, device)
        BY <1>2, <1>5
      <3> QED
        BY <1>2, <3>1, <3>2, <3>3
    <2> QED
      BY <2>1, <2>3, <2>4, <2>5 DEF RoutesTrue
  <1> QED
    BY <1>2, <1>3, <1>6

(* An acknowledgement right after register. *)
LEMMA RegisterKeeps ==
    ASSUME Shape, RoutesFit(routes, nextToken), Cardinality(DOMAIN routes) < RouteCapacity,
           NEW known, DOMAIN known = DOMAIN routes \union {nextToken},
           NEW waiting \in [Producers -> SUBSET Nat],
           RoutesTrue(known, waiting, life, device, wire', lost),
           NEW sent \in SUBSET DOMAIN known, Acknowledge(sent, known, waiting),
           nextToken' = nextToken + 1
    PROVE  /\ nextToken \notin DOMAIN routes
           /\ DOMAIN routes' = (DOMAIN routes \union {nextToken}) \ sent
           /\ owed' \in [Producers -> SUBSET Nat]
           /\ RoutesFit(routes', nextToken')
           /\ RoutesTrue(routes', owed', life, device, wire', lost)
  <1> DEFINE n == nextToken
  <1>1. n \in Nat /\ n \notin DOMAIN routes
    BY DEF Shape, RoutesFit
  <1>8. /\ owed' \in [Producers -> SUBSET Nat]
        /\ DOMAIN routes' = (DOMAIN routes \union {n}) \ sent
        /\ RoutesTrue(routes', owed', life, device, wire', lost)
    <2>1. PICK wr : wr = wire'
      OBVIOUS
    <2>2. RoutesTrue(known, waiting, life, device, wr, lost)
      BY <2>1
    <2>3. /\ owed' \in [Producers -> SUBSET Nat]
          /\ DOMAIN routes' = DOMAIN known \ sent
          /\ RoutesTrue(routes', owed', life, device, wr, lost)
      BY <2>2, AcknowledgeKeeps
    <2> QED
      BY <2>1, <2>3
  <1>9. RoutesFit(routes', nextToken')
    <2>1. IsFiniteSet(1 .. (n - 1))
      BY <1>1, FS_Interval
    <2>2. IsFiniteSet(DOMAIN routes) /\ Cardinality(DOMAIN routes) \in Nat
      BY <2>1, FS_Subset, FS_CardinalityType DEF RoutesFit
    <2>3. /\ IsFiniteSet(DOMAIN routes \union {n})
          /\ Cardinality(DOMAIN routes \union {n}) = Cardinality(DOMAIN routes) + 1
      BY <1>1, <2>2, FS_AddElement
    <2>4. /\ Cardinality(DOMAIN routes') \in Nat
          /\ Cardinality(DOMAIN routes') <= Cardinality(DOMAIN routes \union {n})
      BY <1>8, <2>3, FS_Subset, FS_CardinalityType
    <2>5. DOMAIN routes' \subseteq 1 .. (nextToken' - 1)
      <3>1. nextToken' - 1 = n
        BY <1>1
      <3>2. 1 .. (n - 1) \subseteq 1 .. n /\ n \in 1 .. n
        BY <1>1 DEF Shape
      <3> QED
        BY <1>8, <3>1, <3>2 DEF RoutesFit
    <2>6. Cardinality(DOMAIN routes') <= RouteCapacity
      BY <2>2, <2>3, <2>4, HandoffAssumption
    <2> QED
      BY <2>5, <2>6 DEF RoutesFit
  <1> QED
    BY <1>1, <1>8, <1>9

-------------------------------------------------------------------------------
(* The recorder.                                                           *)

(* A recorder that may read what is in I, has completed frames of I or C, and
   has no frame on both sides. *)
Keeps(r, I, C) ==
    /\ r \in Recorders /\ IsInjective(r.inputs)
    /\ ToSet(r.inputs) \subseteq I /\ r.completed \subseteq I \union C
    /\ \A t \in ToSet(r.inputs) : t \notin r.completed

(* The empty sequence. *)
LEMMA EmptyFacts == <<>> \in Seq(Nat) /\ ToSet(<<>>) = {} /\ IsInjective(<<>>)
  <1>1. <<>> \in Seq(Nat) /\ DOMAIN <<>> = {}
    OBVIOUS
  <1> QED
    BY <1>1 DEF ToSet, IsInjective

(* enqueue_completed adds some of the given frames, or none. *)
LEMMA CompletedFacts ==
    ASSUME NEW r \in Recorders, NEW done \in Seq(Nat)
    PROVE  /\ Completed(r, done) \in SUBSET Nat
           /\ Completed(r, done) \subseteq r.completed \union ToSet(done)
  <1>1. ToSet(done) \subseteq Nat
    BY DEF ToSet
  <1> QED
    BY <1>1 DEF Completed, Recorders

(* shutdown_backend: what a stopped pipeline returns, it no longer reads. *)
LEMMA TornDownKeeps ==
    ASSUME NEW r, NEW I, NEW C, Keeps(r, I, C), NEW proved \in BOOLEAN
    PROVE  Keeps(TornDown(r, proved), I, C)
  <1> DEFINE m == IF Len(r.inputs) < MaxCompleted THEN Len(r.inputs) ELSE MaxCompleted
             done == SubSeq(r.inputs, 1, m)
             c == Completed(r, done)
  <1>1. r \in Recorders /\ r.inputs \in Seq(Nat)
    BY DEF Keeps, Recorders
  <1>2. m \in 0 .. Len(r.inputs)
    <2>1. MaxCompleted \in Nat /\ Len(r.inputs) \in Nat
      BY <1>1, HandoffAssumption
    <2>2. \A k, l \in Nat : (IF k < l THEN k ELSE l) \in 0 .. k
      OBVIOUS
    <2> QED
      BY <2>1, <2>2
  <1>3. done \in Seq(Nat) /\ ToSet(done) \subseteq ToSet(r.inputs)
    BY <1>1, <1>2, SplitFacts
  <1>4. c \in SUBSET Nat /\ c \subseteq r.completed \union ToSet(r.inputs)
    BY <1>1, <1>3, CompletedFacts
  <1> HIDE DEF m, done, c
  <1>5. CASE r.pipeline # "recording"
    BY <1>5 DEF TornDown
  <1>6. CASE r.pipeline = "recording" /\ proved
    <2>1. TornDown(r, proved) = [pipeline |-> "none", inputs |-> <<>>, completed |-> c]
      BY <1>6 DEF TornDown, m, done, c
    <2> QED
      BY <1>4, <2>1, EmptyFacts DEF Keeps, Recorders
  <1>7. CASE r.pipeline = "recording" /\ ~proved
    <2>1. TornDown(r, proved) = [r EXCEPT !.pipeline = "stuck"]
      BY <1>7 DEF TornDown
    <2> QED
      BY <1>1, <2>1 DEF Keeps, Recorders
  <1> QED
    BY <1>5, <1>6, <1>7

(* submit_frame: the frame and the ones before it are read or completed. *)
LEMMA EncodedKeeps ==
    ASSUME NEW r, NEW I, NEW C, Keeps(r, I, C), NEW t \in Nat, t \notin I, t \notin C,
           NEW n \in 0 .. Len(r.inputs) + 1, r.completed \subseteq C,
           \A u \in I : u \notin C
    PROVE  Keeps(Encoded(r, t, n), I \union {t}, C)
  <1> DEFINE s == Append(r.inputs, t)
             done == SubSeq(s, 1, n)
             left == SubSeq(s, n + 1, Len(s))
             c == Completed(r, done)
  <1>1. r \in Recorders /\ r.inputs \in Seq(Nat)
    BY DEF Keeps, Recorders
  <1>2. /\ s \in Seq(Nat) /\ ToSet(s) = ToSet(r.inputs) \union {t} /\ IsInjective(s)
        /\ Len(s) = Len(r.inputs) + 1
    BY <1>1, AppendFacts DEF Keeps
  <1>3. n \in 0 .. Len(s)
    BY <1>2
  <1>4. /\ done \in Seq(Nat) /\ left \in Seq(Nat) /\ IsInjective(left)
        /\ ToSet(done) \subseteq ToSet(s) /\ ToSet(left) \subseteq ToSet(s)
        /\ ToSet(done) \cap ToSet(left) = {}
    BY <1>2, <1>3, SplitFacts
  <1>5. c \in SUBSET Nat /\ c \subseteq r.completed \union ToSet(done)
    BY <1>1, <1>4, CompletedFacts
  <1>6. Encoded(r, t, n) = [r EXCEPT !.inputs = left, !.completed = c]
    BY DEF Encoded
  <1> HIDE DEF s, done, left, c
  <1> QED
    BY <1>1, <1>2, <1>4, <1>5, <1>6 DEF Keeps, Recorders

(* The same when the submission fails before the encoder has finished any. *)
LEMMA AppendedKeeps ==
    ASSUME NEW r, NEW I, NEW C, Keeps(r, I, C), NEW t \in Nat, t \notin I, t \notin C,
           r.completed \subseteq C
    PROVE  Keeps([r EXCEPT !.inputs = Append(r.inputs, t)], I \union {t}, C)
  <1> DEFINE s == Append(r.inputs, t)
  <1>1. r \in Recorders /\ r.inputs \in Seq(Nat)
    BY DEF Keeps, Recorders
  <1>2. s \in Seq(Nat) /\ ToSet(s) = ToSet(r.inputs) \union {t} /\ IsInjective(s)
    BY <1>1, AppendFacts DEF Keeps
  <1> HIDE DEF s
  <1>3. Keeps([r EXCEPT !.inputs = s], I \union {t}, C)
    BY <1>1, <1>2 DEF Keeps, Recorders
  <1> QED
    BY <1>3 DEF s

(* A recorder that returned everything. *)
LEMMA EmptiedKeeps ==
    ASSUME NEW r, NEW I, NEW C, Keeps(r, I, C)
    PROVE  /\ Keeps([r EXCEPT !.completed = {}], I, {})
           /\ Keeps([r EXCEPT !.inputs = <<>>, !.completed = {}], I, {})
  <1>1. r \in Recorders
    BY DEF Keeps
  <1>2. Keeps([r EXCEPT !.completed = {}], I, {})
    BY <1>1 DEF Keeps, Recorders
  <1>3. Keeps([r EXCEPT !.inputs = <<>>, !.completed = {}], I, {})
    BY <1>1, EmptyFacts DEF Keeps, Recorders
  <1> QED
    BY <1>2, <1>3

-------------------------------------------------------------------------------
(* The places.                                                             *)

(* A frame read by the encoder may be completed, and one that is completed
   stays so or is returned. *)
LEMMA ApartRecorder ==
    ASSUME NEW F, NEW R, NEW P, NEW H, NEW I, NEW C, NEW D, Apart(F, R, P, H, I, C, D),
           NEW r, Keeps(r, I, C)
    PROVE  Apart(F, R, P, H, ToSet(r.inputs), r.completed, D)
  <1> DEFINE J == ToSet(r.inputs)
  <1>1. J \subseteq I /\ r.completed \subseteq I \union C /\ \A t \in J : t \notin r.completed
    BY DEF Keeps
  <1> HIDE DEF J
  <1>2. Apart(F, R, P, H, J, r.completed, D)
    BY <1>1 DEF Apart
  <1> QED
    BY <1>2 DEF J

(* release, on any of the leased frames. *)
LEMMA ReleaseKeeps ==
    ASSUME HInv, NEW ts, NEW sent, CanSend(sent, ts, routes), Acknowledge(sent, routes, owed)
    PROVE  /\ sent \subseteq ts
           /\ owed' \in [Producers -> SUBSET Nat]
           /\ DOMAIN routes' = DOMAIN routes \ sent
           /\ RoutesFit(routes', nextToken)
           /\ RoutesTrue(routes', owed', life, device, wire, lost)
  <1>1. sent \subseteq ts /\ sent \in SUBSET DOMAIN routes
    BY DEF CanSend
  <1>2. owed \in [Producers -> SUBSET Nat] /\ RoutesTrue(routes, owed, life, device, wire, lost)
    BY DEF HInv, Shape
  <1>3. PICK known, waiting, wr : known = routes /\ waiting = owed /\ wr = wire
    OBVIOUS
  <1>4. /\ owed' \in [Producers -> SUBSET Nat]
        /\ DOMAIN routes' = DOMAIN known \ sent
        /\ RoutesTrue(routes', owed', life, device, wr, lost)
    <2>1. waiting \in [Producers -> SUBSET Nat] /\ sent \in SUBSET DOMAIN known
      BY <1>1, <1>2, <1>3
    <2>2. RoutesTrue(known, waiting, life, device, wr, lost) /\ Acknowledge(sent, known, waiting)
      BY <1>2, <1>3
    <2> QED
      BY <2>1, <2>2, AcknowledgeKeeps
  <1>5. DOMAIN routes' \subseteq DOMAIN routes
    BY <1>3, <1>4
  <1>6. RoutesFit(routes', nextToken)
    <2>1. nextToken \in Nat /\ RoutesFit(routes, nextToken)
      BY DEF HInv, Shape
    <2>2. PICK after : after = routes'
      OBVIOUS
    <2>3. RoutesFit(after, nextToken)
      BY <1>5, <2>1, <2>2, FitsShrunk
    <2> QED
      BY <2>2, <2>3
  <1> QED
    BY <1>1, <1>3, <1>4, <1>6

(* A step that leaves the producers alone keeps the invariant if it keeps the
   routes true and the places apart. *)
LEMMA Assembled ==
    ASSUME HInv, UNCHANGED <<producerVars, nextToken>>,
           owed' \in [Producers -> SUBSET Nat], RoutesFit(routes', nextToken),
           RoutesTrue(routes', owed', life, device, wire, lost),
           queue' \in Queues, pump' \in Pumps, recorder' \in Recorders,
           IsInjective(queue'.frames), IsInjective(recorder'.inputs), queue'.releaseOnly = 0,
           HandFull', Apart(ToSet(queue'.frames), queue'.rejected, pump'.pending, Hand',
                            ToSet(recorder'.inputs), recorder'.completed, DOMAIN routes')
    PROVE  HInv'
  <1>1. Shape'
    BY DEF HInv, Shape, producerVars
  <1>2. RoutesFit(routes', nextToken') /\ RoutesTrue(routes', owed', life', device', wire', lost')
    BY DEF producerVars
  <1>3. PlacesApart'
    BY DEF PlacesApart
  <1> QED
    BY <1>1, <1>2, <1>3 DEF HInv

(* What the invariant says of the places. *)
LEMMA PartsKnown ==
    ASSUME HInv
    PROVE  /\ queue \in Queues /\ pump \in Pumps /\ queue.frames \in Seq(Nat)
           /\ IsInjective(queue.frames) /\ queue.releaseOnly = 0 /\ HandFull
           /\ Keeps(recorder, ToSet(recorder.inputs), recorder.completed)
           /\ Apart(ToSet(queue.frames), queue.rejected, pump.pending, Hand,
                    ToSet(recorder.inputs), recorder.completed, DOMAIN routes)
           /\ ToSet(queue.frames) \subseteq Nat /\ Hand \subseteq Nat
           /\ recorder.completed \subseteq Nat
  <1>1. /\ queue \in Queues /\ pump \in Pumps /\ recorder \in Recorders
        /\ queue.frames \in Seq(Nat) /\ Hand \subseteq Nat /\ recorder.completed \subseteq Nat
    BY DEF HInv, Shape, Queues, Pumps, Recorders, Hand
  <1>2. ToSet(queue.frames) \subseteq Nat
    BY <1>1 DEF ToSet
  <1>3. \A t \in ToSet(recorder.inputs) : t \notin recorder.completed
    BY DEF HInv, PlacesApart, Apart
  <1> QED
    BY <1>1, <1>2, <1>3 DEF HInv, PlacesApart, Keeps

(* A step that leaves routes and producers alone. *)
LEMMA AssembledSame ==
    ASSUME HInv, UNCHANGED <<producerVars, nextToken, routes, owed>>,
           queue' \in Queues, pump' \in Pumps, recorder' \in Recorders,
           IsInjective(queue'.frames), IsInjective(recorder'.inputs), queue'.releaseOnly = 0,
           HandFull', Apart(ToSet(queue'.frames), queue'.rejected, pump'.pending, Hand',
                            ToSet(recorder'.inputs), recorder'.completed, DOMAIN routes)
    PROVE  HInv'
  <1>1. /\ owed' \in [Producers -> SUBSET Nat] /\ RoutesFit(routes', nextToken)
        /\ RoutesTrue(routes', owed', life, device, wire, lost)
    BY DEF HInv, Shape
  <1>2. DOMAIN routes' = DOMAIN routes
    OBVIOUS
  <1> QED
    BY <1>1, <1>2, Assembled

(* A step that acknowledges some of the frames in the retry queue and among
   the pump's failed releases, as they would be without the acknowledgement. *)
LEMMA Freeing ==
    ASSUME HInv, UNCHANGED <<producerVars, nextToken>>,
           NEW ts, NEW sent, CanSend(sent, ts, routes), Acknowledge(sent, routes, owed),
           NEW R, NEW P, sent \subseteq R \union P,
           queue' \in Queues, pump' \in Pumps, recorder' \in Recorders,
           queue'.rejected = R \ sent, pump'.pending = P \ sent,
           IsInjective(queue'.frames), IsInjective(recorder'.inputs), queue'.releaseOnly = 0,
           HandFull', Apart(ToSet(queue'.frames), R, P, Hand', ToSet(recorder'.inputs),
                            recorder'.completed, DOMAIN routes)
    PROVE  HInv'
  <1>1. /\ owed' \in [Producers -> SUBSET Nat]
        /\ DOMAIN routes' = DOMAIN routes \ sent
        /\ RoutesFit(routes', nextToken)
        /\ RoutesTrue(routes', owed', life, device, wire, lost)
    BY ReleaseKeeps
  <1>2. Apart(ToSet(queue'.frames), queue'.rejected, pump'.pending, Hand',
              ToSet(recorder'.inputs), recorder'.completed, DOMAIN routes')
    BY <1>1 DEF Apart
  <1> QED
    BY <1>1, <1>2, Assembled

HandOf(next) == IF next.hand = NoToken THEN {} ELSE {next.hand}
Full(next) == next.pc \in {"taken", "record", "submit"} => next.hand # NoToken

(* release_sequences on the pump's failed releases and the frames in more. *)
LEMMA Releasing ==
    ASSUME HInv, UNCHANGED <<producerVars, nextToken>>,
           NEW more, NEW next, next \in Pumps, Full(next), ReleaseAll(more, next),
           queue' \in Queues, recorder' \in Recorders,
           IsInjective(queue'.frames), IsInjective(recorder'.inputs), queue'.releaseOnly = 0,
           Apart(ToSet(queue'.frames), queue'.rejected, pump.pending \union more, HandOf(next),
                 ToSet(recorder'.inputs), recorder'.completed, DOMAIN routes)
    PROVE  HInv'
  <1> DEFINE all == pump.pending \union more
  <1>1. PICK sent \in SUBSET all :
          /\ CanSend(sent, all, routes) /\ Acknowledge(sent, routes, owed)
          /\ pump' = [next EXCEPT !.pending = all \ sent]
    BY DEF ReleaseAll
  <1>2. all \in SUBSET Nat
    <2>1. all \subseteq DOMAIN routes
      BY DEF Apart
    <2>2. DOMAIN routes \subseteq Nat
      BY DEF HInv, RoutesFit, Shape
    <2> QED
      BY <2>1, <2>2
  <1> HIDE DEF all
  <1>3. pump' \in Pumps /\ pump'.pc = next.pc /\ pump'.hand = next.hand /\ pump'.pending = all \ sent
    BY <1>1, <1>2 DEF Pumps
  <1>4. HandFull' /\ Hand' = HandOf(next)
    BY <1>3 DEF HandFull, Full, Hand, HandOf
  <1>5. Apart(ToSet(queue'.frames), queue'.rejected, all, Hand', ToSet(recorder'.inputs),
              recorder'.completed, DOMAIN routes)
    BY <1>4 DEF all
  <1>6. sent \subseteq queue'.rejected \union all /\ queue'.rejected = queue'.rejected \ sent
    BY <1>5 DEF Apart
  <1>7. CanSend(sent, all, routes) /\ Acknowledge(sent, routes, owed)
    BY <1>1
  <1>8. PICK R : R = queue'.rejected
    OBVIOUS
  <1>9. /\ Apart(ToSet(queue'.frames), R, all, Hand', ToSet(recorder'.inputs),
                 recorder'.completed, DOMAIN routes)
        /\ sent \subseteq R \union all /\ queue'.rejected = R \ sent
    BY <1>5, <1>6, <1>8
  <1>10. pump' \in Pumps /\ pump'.pending = all \ sent /\ HandFull'
    BY <1>3, <1>4
  <1>11. PICK P : P = all
    OBVIOUS
  <1> QED
    BY <1>7, <1>9, <1>10, <1>11, Freeing

-------------------------------------------------------------------------------
(* Each action keeps the invariant.                                        *)

(* The places the pump goes to. *)
LEMMA PumpFacts ==
    ASSUME HInv
    PROVE  /\ \A c \in {"top", "fault", "completions", "wait", "taken", "record", "submit",
                        "return", "stopped"} :
                /\ To(c) \in Pumps /\ To(c).pc = c /\ To(c).hand = pump.hand
                /\ To(c).pending = pump.pending
           /\ Done \in Pumps /\ Done.pc = "top" /\ Done.hand = NoToken
           /\ Done.pending = pump.pending
           /\ \A next \in Pumps :
                /\ Recovering(next) \in Pumps /\ Recovering(next).pc = next.pc
                /\ Recovering(next).hand = next.hand /\ Recovering(next).pending = next.pending
  <1>1. pump \in Pumps
    BY PartsKnown
  <1>2. \A c \in {"top", "fault", "completions", "wait", "taken", "record", "submit",
                  "return", "stopped"} :
          /\ To(c) \in Pumps /\ To(c).pc = c /\ To(c).hand = pump.hand
          /\ To(c).pending = pump.pending
    BY <1>1 DEF To, Pumps
  <1>3. Done \in Pumps /\ Done.pc = "top" /\ Done.hand = NoToken /\ Done.pending = pump.pending
    BY <1>1 DEF Done, Pumps, NoToken
  <1>4. \A next \in Pumps :
          /\ Recovering(next) \in Pumps /\ Recovering(next).pc = next.pc
          /\ Recovering(next).hand = next.hand /\ Recovering(next).pending = next.pending
    BY DEF Recovering, Pumps
  <1> QED
    BY <1>2, <1>3, <1>4

(* take_rejected_exports. *)
LEMMA KeptPumpRejected == ASSUME HInv, PumpRejected PROVE HInv'
  <1> DEFINE s == queue.frames
             n == IF queue.releaseOnly < Len(s) THEN queue.releaseOnly ELSE Len(s)
             a == SubSeq(s, 1, n)
             b == SubSeq(s, n + 1, Len(s))
  <1>1. queue \in Queues /\ s \in Seq(Nat) /\ IsInjective(s)
    BY PartsKnown
  <1>2. n \in 0 .. Len(s)
    <2>1. queue.releaseOnly \in Nat /\ Len(s) \in Nat
      BY <1>1 DEF Queues
    <2>2. \A k, l \in Nat : (IF k < l THEN k ELSE l) \in 0 .. l
      OBVIOUS
    <2> QED
      BY <2>1, <2>2
  <1>3. /\ b \in Seq(Nat) /\ IsInjective(b)
        /\ ToSet(a) \subseteq ToSet(s) /\ ToSet(b) \subseteq ToSet(s)
        /\ ToSet(a) \cap ToSet(b) = {}
    BY <1>1, <1>2, SplitFacts
  <1>4. PICK more, next : more = queue.rejected \union ToSet(a) /\ next = To("fault")
    OBVIOUS
  <1>5. ReleaseAll(more, next) /\ UNCHANGED <<producerVars, nextToken>>
    BY <1>4 DEF PumpRejected, RestOfPump
  <1>6. /\ queue' = [queue EXCEPT !.rejected = {}, !.releaseOnly = 0, !.frames = b]
        /\ recorder' = recorder
    BY DEF PumpRejected
  <1> HIDE DEF s, n, a, b
  <1>7. queue' \in Queues /\ queue'.frames = b /\ queue'.rejected = {} /\ queue'.releaseOnly = 0
    BY <1>1, <1>3, <1>6 DEF Queues
  <1>8. next \in Pumps /\ Full(next) /\ HandOf(next) = Hand
    <2>1. next \in Pumps /\ next.pc = "fault" /\ next.hand = pump.hand
      BY <1>4, PumpFacts
    <2> QED
      BY <2>1 DEF Full, HandOf, Hand
  <1>9. Apart(ToSet(b), {}, pump.pending \union more, Hand, ToSet(recorder.inputs),
              recorder.completed, DOMAIN routes)
    BY <1>3, <1>4, PartsKnown DEF Apart, s
  <1>10. recorder' \in Recorders /\ IsInjective(recorder'.inputs)
    BY <1>6, PartsKnown DEF Keeps
  <1>11. Apart(ToSet(queue'.frames), queue'.rejected, pump.pending \union more, HandOf(next),
               ToSet(recorder'.inputs), recorder'.completed, DOMAIN routes)
    BY <1>6, <1>7, <1>8, <1>9
  <1> QED
    BY <1>3, <1>5, <1>7, <1>8, <1>10, <1>11, Releasing

(* take_source_rejection at the top of a turn. *)
LEMMA KeptPumpFault == ASSUME HInv, PumpFault PROVE HInv'
  <1>1. /\ queue' = [queue EXCEPT !.rejection = FALSE]
        /\ UNCHANGED <<producerVars, nextToken, routes, owed>>
        /\ \/ (\E proved \in BOOLEAN : recorder' = TornDown(recorder, proved))
              /\ pump' = Recovering(To("completions"))
           \/ pump' = To("completions") /\ recorder' = recorder
    BY DEF PumpFault, RestOfPump
  <1>2. /\ queue' \in Queues /\ queue'.frames = queue.frames /\ queue'.rejected = queue.rejected
        /\ queue'.releaseOnly = 0 /\ IsInjective(queue'.frames)
    BY <1>1, PartsKnown DEF Queues
  <1>3. /\ pump' \in Pumps /\ pump'.pending = pump.pending /\ Hand' = Hand /\ HandFull'
    <2>1. pump' \in Pumps /\ pump'.pending = pump.pending /\ pump'.hand = pump.hand
          /\ pump'.pc = "completions"
      BY <1>1, PumpFacts
    <2> QED
      BY <2>1 DEF Hand, HandFull
  <1>4. Keeps(recorder', ToSet(recorder.inputs), recorder.completed)
    BY <1>1, PartsKnown, TornDownKeeps
  <1>5. Apart(ToSet(queue.frames), queue.rejected, pump.pending, Hand, ToSet(recorder'.inputs),
              recorder'.completed, DOMAIN routes)
    BY <1>4, PartsKnown, ApartRecorder
  <1>6. recorder' \in Recorders /\ IsInjective(recorder'.inputs)
    BY <1>4 DEF Keeps
  <1>7. Apart(ToSet(queue'.frames), queue'.rejected, pump'.pending, Hand', ToSet(recorder'.inputs),
              recorder'.completed, DOMAIN routes)
    BY <1>2, <1>3, <1>5
  <1> QED
    BY <1>1, <1>2, <1>3, <1>6, <1>7, AssembledSame

(* release_runtime_completions. *)
LEMMA KeptPumpCompletions == ASSUME HInv, PumpCompletions PROVE HInv'
  <1>1. PICK more, next : more = recorder.completed /\ next = To("wait")
    OBVIOUS
  <1>2. /\ ReleaseAll(more, next) /\ UNCHANGED <<producerVars, nextToken>>
        /\ queue' = queue /\ recorder' = [recorder EXCEPT !.completed = {}]
    BY <1>1 DEF PumpCompletions, RestOfPump
  <1>3. next \in Pumps /\ Full(next) /\ HandOf(next) = Hand
    <2>1. next \in Pumps /\ next.pc = "wait" /\ next.hand = pump.hand
      BY <1>1, PumpFacts
    <2> QED
      BY <2>1 DEF Full, HandOf, Hand
  <1>4. /\ recorder' \in Recorders /\ recorder'.inputs = recorder.inputs
        /\ recorder'.completed = {} /\ IsInjective(recorder'.inputs)
    BY <1>2, PartsKnown DEF Keeps, Recorders
  <1>5. queue' \in Queues /\ IsInjective(queue'.frames) /\ queue'.releaseOnly = 0
    BY <1>2, PartsKnown
  <1>6. Apart(ToSet(queue.frames), queue.rejected, pump.pending \union more, Hand,
              ToSet(recorder.inputs), {}, DOMAIN routes)
    BY <1>1, PartsKnown DEF Apart
  <1>7. Apart(ToSet(queue'.frames), queue'.rejected, pump.pending \union more, HandOf(next),
              ToSet(recorder'.inputs), recorder'.completed, DOMAIN routes)
    BY <1>2, <1>3, <1>4, <1>6
  <1> QED
    BY <1>2, <1>3, <1>4, <1>5, <1>7, Releasing

(* wait_next. *)
LEMMA KeptPumpWait == ASSUME HInv, PumpWait PROVE HInv'
  <1>1. UNCHANGED <<producerVars, nextToken, routes, owed>> /\ recorder' = recorder
    BY DEF PumpWait, RestOfPump
  <1>2. /\ recorder' \in Recorders /\ IsInjective(recorder'.inputs)
        /\ queue \in Queues /\ pump \in Pumps /\ queue.frames \in Seq(Nat)
    BY <1>1, PartsKnown DEF Keeps
  <1>3. CASE pump' = To("top") /\ queue' = queue
    <2>1. pump' \in Pumps /\ pump'.pc = "top" /\ pump'.hand = pump.hand
          /\ pump'.pending = pump.pending
      BY <1>3, PumpFacts
    <2>2. HandFull' /\ Hand' = Hand
      BY <2>1 DEF HandFull, Hand
    <2>3. /\ queue' \in Queues /\ IsInjective(queue'.frames) /\ queue'.releaseOnly = 0
          /\ Apart(ToSet(queue'.frames), queue'.rejected, pump'.pending, Hand',
                   ToSet(recorder'.inputs), recorder'.completed, DOMAIN routes)
      BY <1>1, <1>3, <2>1, <2>2, PartsKnown
    <2> QED
      BY <1>1, <1>2, <2>1, <2>2, <2>3, AssembledSame
  <1>4. CASE /\ pump.pc = "wait" /\ queue.frames # <<>>
             /\ pump' = [To("taken") EXCEPT !.hand = Head(queue.frames)]
             /\ queue' = [queue EXCEPT !.frames = Tail(queue.frames)]
    <2>1. /\ Tail(queue.frames) \in Seq(Nat) /\ Head(queue.frames) \in Nat
          /\ ToSet(queue.frames) = {Head(queue.frames)} \union ToSet(Tail(queue.frames))
          /\ IsInjective(Tail(queue.frames))
          /\ Head(queue.frames) \notin ToSet(Tail(queue.frames))
      BY <1>2, <1>4, PartsKnown, TailFacts
    <2>2. To("taken") \in Pumps /\ To("taken").pc = "taken" /\ To("taken").pending = pump.pending
      BY PumpFacts
    <2>3. /\ pump' \in Pumps /\ pump'.pc = "taken" /\ pump'.pending = pump.pending
          /\ pump'.hand = Head(queue.frames)
      BY <1>4, <2>1, <2>2 DEF Pumps
    <2>4. Head(queue.frames) # NoToken
      <3>1. Head(queue.frames) \in DOMAIN routes
        BY <2>1, PartsKnown DEF Apart
      <3> QED
        BY <3>1 DEF HInv, RoutesFit, Shape, NoToken
    <2>5. HandFull' /\ Hand' = {Head(queue.frames)}
      BY <2>3, <2>4 DEF HandFull, Hand
    <2>6. /\ queue' \in Queues /\ queue'.frames = Tail(queue.frames)
          /\ queue'.rejected = queue.rejected /\ queue'.releaseOnly = 0
      BY <1>2, <1>4, <2>1, PartsKnown DEF Queues
    <2>7. Apart(ToSet(Tail(queue.frames)), queue.rejected, pump.pending, {Head(queue.frames)},
                ToSet(recorder.inputs), recorder.completed, DOMAIN routes)
      BY <2>1, PartsKnown DEF Apart
    <2>8. Apart(ToSet(queue'.frames), queue'.rejected, pump'.pending, Hand',
                ToSet(recorder'.inputs), recorder'.completed, DOMAIN routes)
      BY <1>1, <2>3, <2>5, <2>6, <2>7
    <2> QED
      BY <1>1, <1>2, <2>1, <2>3, <2>5, <2>6, <2>8, AssembledSame
  <1> QED
    BY <1>3, <1>4 DEF PumpWait

(* A frame that cannot be imported. *)
LEMMA KeptPumpImportFails == ASSUME HInv, PumpImportFails PROVE HInv'
  <1>1. PICK sent \in SUBSET {pump.hand} :
          /\ CanSend(sent, {pump.hand}, routes) /\ Acknowledge(sent, routes, owed)
          /\ queue' = [queue EXCEPT !.rejected = queue.rejected \union ({pump.hand} \ sent)]
    BY DEF PumpImportFails
  <1>2. /\ UNCHANGED <<producerVars, nextToken>>
        /\ \/ (\E proved \in BOOLEAN : recorder' = TornDown(recorder, proved))
              /\ pump' = Recovering(Done)
           \/ pump' = Done /\ recorder' = recorder
    BY DEF PumpImportFails, Recover, RestOfPump
  <1>3. Hand = {pump.hand} /\ pump.hand \in Nat /\ queue \in Queues /\ queue.rejected \subseteq Nat
    <2>1. pump.pc = "taken"
      BY DEF PumpImportFails
    <2> QED
      BY <2>1, PartsKnown DEF HandFull, Hand, Pumps, Queues
  <1>4. PICK R, P, ts : R = queue.rejected \union {pump.hand} /\ P = pump.pending /\ ts = {pump.hand}
    OBVIOUS
  <1>5. sent \subseteq R \union P /\ CanSend(sent, ts, routes)
    BY <1>1, <1>4
  <1>6. queue.rejected \union ({pump.hand} \ sent) = R \ sent
    BY <1>1, <1>3, <1>4, PartsKnown DEF Apart
  <1>7. /\ queue' \in Queues /\ queue'.frames = queue.frames /\ queue'.rejected = R \ sent
        /\ queue'.releaseOnly = 0 /\ IsInjective(queue'.frames)
    BY <1>1, <1>3, <1>4, <1>6, PartsKnown DEF Queues
  <1>8. pump' \in Pumps /\ pump'.pc = "top" /\ pump'.hand = NoToken /\ pump'.pending = pump.pending
    BY <1>2, PumpFacts
  <1>9. pump'.pending = P \ sent /\ HandFull' /\ Hand' = {}
    BY <1>1, <1>3, <1>4, <1>8, PartsKnown DEF Apart, HandFull, Hand
  <1>10. Keeps(recorder', ToSet(recorder.inputs), recorder.completed)
    BY <1>2, PartsKnown, TornDownKeeps
  <1>11. Apart(ToSet(queue.frames), queue.rejected, pump.pending, Hand, ToSet(recorder'.inputs),
              recorder'.completed, DOMAIN routes)
    BY <1>10, PartsKnown, ApartRecorder
  <1>12. recorder' \in Recorders /\ IsInjective(recorder'.inputs)
    BY <1>10 DEF Keeps
  <1>13. Apart(ToSet(queue'.frames), R, P, Hand', ToSet(recorder'.inputs), recorder'.completed,
               DOMAIN routes)
    BY <1>3, <1>4, <1>7, <1>9, <1>11 DEF Apart
  <1>14. Acknowledge(sent, routes, owed)
    BY <1>1
  <1> QED
    BY <1>2, <1>5, <1>7, <1>8, <1>9, <1>12, <1>13, <1>14, Freeing

(* The pump returns the frame it holds and goes on to the next turn. *)
LEMMA HandReturned ==
    ASSUME HInv, UNCHANGED <<producerVars, nextToken>>, pump.hand # NoToken,
           queue' \in Queues, queue'.frames = queue.frames, queue'.rejected = queue.rejected,
           queue'.releaseOnly = queue.releaseOnly,
           Keeps(recorder', ToSet(recorder.inputs), recorder.completed),
           NEW next \in {Done, Recovering(Done)}, ReleaseAll({pump.hand}, next)
    PROVE  HInv'
  <1>1. next \in Pumps /\ next.pc = "top" /\ next.hand = NoToken
    BY PumpFacts
  <1>2. Full(next) /\ HandOf(next) = {} /\ Hand = {pump.hand}
    BY <1>1 DEF Full, HandOf, Hand
  <1>3. Apart(ToSet(queue.frames), queue.rejected, pump.pending, Hand, ToSet(recorder'.inputs),
              recorder'.completed, DOMAIN routes)
    BY PartsKnown, ApartRecorder
  <1>4. PICK more : more = {pump.hand}
    OBVIOUS
  <1>5. Apart(ToSet(queue'.frames), queue'.rejected, pump.pending \union more, HandOf(next),
              ToSet(recorder'.inputs), recorder'.completed, DOMAIN routes)
    BY <1>2, <1>3, <1>4 DEF Apart
  <1>6. recorder' \in Recorders /\ IsInjective(recorder'.inputs)
    BY DEF Keeps
  <1>7. IsInjective(queue'.frames) /\ queue'.releaseOnly = 0
    BY PartsKnown
  <1>8. ReleaseAll(more, next)
    BY <1>4
  <1> QED
    BY <1>1, <1>2, <1>5, <1>6, <1>7, <1>8, Releasing

(* The pump goes on with the frame it holds, after release_sequences on what
   the runtime completed. *)
LEMMA CompletionsReturned ==
    ASSUME HInv, UNCHANGED <<producerVars, nextToken>>, pump.hand # NoToken,
           queue' \in Queues, queue'.frames = queue.frames, queue'.rejected = queue.rejected,
           queue'.releaseOnly = queue.releaseOnly,
           NEW r, Keeps(r, ToSet(recorder.inputs), recorder.completed),
           NEW more, more = r.completed,
           Keeps(recorder', ToSet(r.inputs), {}), recorder'.completed = {},
           NEW next \in Pumps, next.hand = pump.hand, ReleaseAll(more, next)
    PROVE  HInv'
  <1>1. Full(next) /\ HandOf(next) = Hand
    BY DEF Full, HandOf, Hand
  <1>2. Apart(ToSet(queue.frames), queue.rejected, pump.pending, Hand, ToSet(r.inputs),
              r.completed, DOMAIN routes)
    BY PartsKnown, ApartRecorder
  <1>3. ToSet(recorder'.inputs) \subseteq ToSet(r.inputs)
    BY DEF Keeps
  <1>4. PICK I, J : I = ToSet(r.inputs) /\ J = ToSet(recorder'.inputs)
    OBVIOUS
  <1>5. Apart(ToSet(queue.frames), queue.rejected, pump.pending \union more, Hand, J, {},
              DOMAIN routes)
    BY <1>2, <1>3, <1>4 DEF Apart
  <1>6. Apart(ToSet(queue'.frames), queue'.rejected, pump.pending \union more, HandOf(next),
              ToSet(recorder'.inputs), recorder'.completed, DOMAIN routes)
    BY <1>1, <1>4, <1>5
  <1>7. recorder' \in Recorders /\ IsInjective(recorder'.inputs)
    BY DEF Keeps
  <1>8. IsInjective(queue'.frames) /\ queue'.releaseOnly = 0
    BY PartsKnown
  <1> QED
    BY <1>1, <1>6, <1>7, <1>8, Releasing

(* The rejection seen after the frame was taken, and the backoff. *)
LEMMA KeptPumpTaken == ASSUME HInv, PumpTaken PROVE HInv'
  <1>1. /\ queue' = [queue EXCEPT !.rejection = FALSE]
        /\ UNCHANGED <<producerVars, nextToken>> /\ pump.pc = "taken"
    BY DEF PumpTaken, RestOfPump
  <1>2. /\ queue' \in Queues /\ queue'.frames = queue.frames /\ queue'.rejected = queue.rejected
        /\ queue'.releaseOnly = queue.releaseOnly /\ pump.hand # NoToken
    BY <1>1, PartsKnown DEF Queues, HandFull
  <1>3. CASE /\ ReleaseAll({pump.hand}, Recovering(Done))
             /\ \E proved \in BOOLEAN : recorder' = TornDown(recorder, proved)
    <2>1. Keeps(recorder', ToSet(recorder.inputs), recorder.completed)
      BY <1>3, PartsKnown, TornDownKeeps
    <2>2. PICK next : next = Recovering(Done)
      OBVIOUS
    <2>3. next \in {Done, Recovering(Done)} /\ ReleaseAll({pump.hand}, next)
      BY <1>3, <2>2
    <2> QED
      BY <1>1, <1>2, <2>1, <2>3, HandReturned
  <1>4. CASE ReleaseAll({pump.hand}, Done) /\ UNCHANGED recorder
    <2>1. Keeps(recorder', ToSet(recorder.inputs), recorder.completed)
      BY <1>4, PartsKnown
    <2>2. PICK next : next = Done
      OBVIOUS
    <2>3. next \in {Done, Recovering(Done)} /\ ReleaseAll({pump.hand}, next)
      BY <1>4, <2>2
    <2> QED
      BY <1>1, <1>2, <2>1, <2>3, HandReturned
  <1>5. CASE /\ ReleaseAll(recorder.completed, [To("record") EXCEPT !.cooling = FALSE])
             /\ recorder' = [recorder EXCEPT !.completed = {}]
    <2>1. PICK more, next, r : /\ more = recorder.completed /\ r = recorder
                               /\ next = [To("record") EXCEPT !.cooling = FALSE]
      OBVIOUS
    <2>2. next \in Pumps /\ next.hand = pump.hand
      <3>1. To("record") \in Pumps /\ To("record").hand = pump.hand
        BY PumpFacts
      <3> QED
        BY <2>1, <3>1 DEF Pumps
    <2>3. Keeps(recorder, ToSet(recorder.inputs), recorder.completed)
      BY PartsKnown
    <2>4. Keeps(recorder', ToSet(recorder.inputs), {}) /\ recorder'.completed = {}
      <3>1. Keeps([recorder EXCEPT !.completed = {}], ToSet(recorder.inputs), {})
        BY <2>3, EmptiedKeeps
      <3>2. recorder \in Recorders
        BY <2>3 DEF Keeps
      <3> QED
        BY <1>5, <3>1, <3>2 DEF Recorders
    <2>5. /\ ReleaseAll(more, next) /\ more = r.completed
          /\ Keeps(r, ToSet(recorder.inputs), recorder.completed)
          /\ Keeps(recorder', ToSet(r.inputs), {})
      BY <1>5, <2>1, <2>3, <2>4
    <2> QED
      BY <1>1, <1>2, <2>2, <2>4, <2>5, CompletionsReturned
  <1>6. CASE pump' = To("record") /\ UNCHANGED <<routes, owed, recorder>>
    <2>1. pump' \in Pumps /\ pump'.hand = pump.hand /\ pump'.pending = pump.pending
      BY <1>6, PumpFacts
    <2>2. HandFull' /\ Hand' = Hand
      BY <1>2, <2>1 DEF HandFull, Hand
    <2>3. recorder' = recorder
      BY <1>6
    <2>4. /\ recorder' \in Recorders /\ IsInjective(recorder'.inputs)
          /\ IsInjective(queue'.frames) /\ queue'.releaseOnly = 0
      BY <1>2, <2>3, PartsKnown DEF Keeps
    <2>5. Apart(ToSet(queue'.frames), queue'.rejected, pump'.pending, Hand',
                ToSet(recorder'.inputs), recorder'.completed, DOMAIN routes)
      BY <1>2, <2>1, <2>2, <2>3, PartsKnown
    <2> QED
      BY <1>1, <1>2, <1>6, <2>1, <2>2, <2>4, <2>5, AssembledSame
  <1> QED
    BY <1>3, <1>4, <1>5, <1>6 DEF PumpTaken

(* A pipeline is created, used, reset, or fails. *)
LEMMA KeptPumpRecord == ASSUME HInv, PumpRecord PROVE HInv'
  <1>1. UNCHANGED <<producerVars, nextToken>> /\ queue' = queue /\ pump.pc = "record"
    BY DEF PumpRecord, RestOfPump
  <1>2. /\ queue' \in Queues /\ queue'.frames = queue.frames /\ queue'.rejected = queue.rejected
        /\ queue'.releaseOnly = queue.releaseOnly /\ pump.hand # NoToken
        /\ IsInjective(queue'.frames) /\ queue'.releaseOnly = 0
    BY <1>1, PartsKnown DEF HandFull
  <1>3. Keeps(recorder, ToSet(recorder.inputs), recorder.completed) /\ recorder \in Recorders
    BY PartsKnown DEF Keeps
  <1>4. ASSUME pump' \in Pumps, pump'.hand = pump.hand, pump'.pending = pump.pending,
               recorder' \in Recorders, recorder'.inputs = recorder.inputs,
               recorder'.completed = recorder.completed, UNCHANGED <<routes, owed>>
        PROVE  HInv'
    <2>1. HandFull' /\ Hand' = Hand
      BY <1>2, <1>4 DEF HandFull, Hand
    <2>2. IsInjective(recorder'.inputs)
      BY <1>3, <1>4 DEF Keeps
    <2>3. Apart(ToSet(queue'.frames), queue'.rejected, pump'.pending, Hand',
                ToSet(recorder'.inputs), recorder'.completed, DOMAIN routes)
      BY <1>2, <1>4, <2>1, PartsKnown
    <2> QED
      BY <1>1, <1>2, <1>4, <2>1, <2>2, <2>3, AssembledSame
  <1>5. CASE /\ recorder' = [recorder EXCEPT !.pipeline = "recording"]
             /\ pump' = [To("submit") EXCEPT !.armed = TRUE] /\ UNCHANGED <<routes, owed>>
    <2>1. /\ To("submit") \in Pumps /\ To("submit").hand = pump.hand
          /\ To("submit").pending = pump.pending
      BY PumpFacts
    <2>2. pump' \in Pumps /\ pump'.hand = pump.hand /\ pump'.pending = pump.pending
      BY <1>5, <2>1 DEF Pumps
    <2>3. /\ recorder' \in Recorders /\ recorder'.inputs = recorder.inputs
          /\ recorder'.completed = recorder.completed
      BY <1>3, <1>5 DEF Recorders
    <2> QED
      BY <1>4, <1>5, <2>2, <2>3
  <1>6. CASE pump' = To("submit") /\ UNCHANGED <<routes, owed, recorder>>
    <2>1. pump' \in Pumps /\ pump'.hand = pump.hand /\ pump'.pending = pump.pending
      BY <1>6, PumpFacts
    <2> QED
      BY <1>3, <1>4, <1>6, <2>1
  <1>7. CASE /\ recorder' = [recorder EXCEPT !.inputs = <<>>, !.completed = {}]
             /\ ReleaseAll(TornDown(recorder, TRUE).completed, To("submit"))
             /\ recorder.pipeline = "recording"
    <2>1. PICK r, more, next : /\ r = TornDown(recorder, TRUE) /\ next = To("submit")
                               /\ more = TornDown(recorder, TRUE).completed
      OBVIOUS
    <2>2. Keeps(r, ToSet(recorder.inputs), recorder.completed)
      BY <1>3, <2>1, TornDownKeeps
    <2>3. /\ recorder' \in Recorders /\ recorder'.inputs = <<>> /\ recorder'.completed = {}
      BY <1>3, <1>7, EmptyFacts DEF Recorders
    <2>4. Keeps(recorder', ToSet(r.inputs), {})
      BY <2>3, EmptyFacts DEF Keeps
    <2>5. next \in Pumps /\ next.hand = pump.hand
      BY <2>1, PumpFacts
    <2>6. ReleaseAll(more, next) /\ more = r.completed /\ recorder'.completed = {}
      BY <1>7, <2>1, <2>3
    <2> QED
      BY <1>1, <1>2, <2>2, <2>4, <2>5, <2>6, CompletionsReturned
  <1>8. CASE /\ ReleaseAll({pump.hand}, Recovering(Done))
             /\ \E proved \in BOOLEAN : recorder' = TornDown(recorder, proved)
    <2>1. Keeps(recorder', ToSet(recorder.inputs), recorder.completed)
      BY <1>3, <1>8, TornDownKeeps
    <2>2. PICK next : next = Recovering(Done)
      OBVIOUS
    <2>3. next \in {Done, Recovering(Done)} /\ ReleaseAll({pump.hand}, next)
      BY <1>8, <2>2
    <2> QED
      BY <1>1, <1>2, <2>1, <2>3, HandReturned
  <1> QED
    BY <1>5, <1>6, <1>7, <1>8 DEF PumpRecord

(* An early frame. *)
LEMMA KeptPumpEarly == ASSUME HInv, PumpEarly PROVE HInv'
  <1>1. /\ UNCHANGED <<producerVars, nextToken>> /\ queue' = queue /\ recorder' = recorder
        /\ pump.pc = "submit" /\ ReleaseAll({pump.hand}, Done)
    BY DEF PumpEarly, RestOfPump
  <1>2. queue' \in Queues /\ pump.hand # NoToken
    BY <1>1, PartsKnown DEF HandFull
  <1>3. Keeps(recorder', ToSet(recorder.inputs), recorder.completed)
    BY <1>1, PartsKnown
  <1>4. PICK next : next = Done
    OBVIOUS
  <1>5. /\ next \in {Done, Recovering(Done)} /\ ReleaseAll({pump.hand}, next)
        /\ UNCHANGED <<producerVars, nextToken>>
        /\ queue'.frames = queue.frames /\ queue'.rejected = queue.rejected
        /\ queue'.releaseOnly = queue.releaseOnly
    BY <1>1, <1>4
  <1> QED
    BY <1>2, <1>3, <1>5, HandReturned

(* submit_frame. *)
LEMMA KeptPumpSubmit == ASSUME HInv, PumpSubmit PROVE HInv'
  <1> DEFINE t == pump.hand
             I == ToSet(recorder.inputs)
             C == recorder.completed
  <1>1. /\ UNCHANGED <<producerVars, nextToken, routes, owed>> /\ queue' = queue
        /\ pump.pc = "submit"
    BY DEF PumpSubmit, RestOfPump
  <1>2. /\ queue' \in Queues /\ t # NoToken /\ t \in Nat /\ Hand = {t}
        /\ IsInjective(queue'.frames) /\ queue'.releaseOnly = 0
    BY <1>1, PartsKnown DEF HandFull, Hand, Pumps
  <1>3. /\ t \notin I /\ t \notin C /\ recorder.completed \subseteq C /\ \A u \in I : u \notin C
        /\ Keeps(recorder, I, C)
    BY <1>2, PartsKnown DEF Apart
  <1>4. /\ pump' \in Pumps /\ pump'.hand = NoToken /\ pump'.pending = pump.pending
        /\ pump'.pc \notin {"taken", "record", "submit"}
    <2>1. pump' = [To("return") EXCEPT !.hand = NoToken] \/ pump' = Recovering(Done)
      BY DEF PumpSubmit
    <2>2. CASE pump' = [To("return") EXCEPT !.hand = NoToken]
      <3>1. To("return") \in Pumps /\ To("return").pc = "return"
            /\ To("return").pending = pump.pending
        BY PumpFacts
      <3> QED
        BY <2>2, <3>1 DEF Pumps, NoToken
    <2>3. CASE pump' = Recovering(Done)
      BY <2>3, PumpFacts
    <2> QED
      BY <2>1, <2>2, <2>3
  <1>5. HandFull' /\ Hand' = {}
    BY <1>4 DEF HandFull, Hand
  <1>6. Keeps(recorder', I \union {t}, C)
    <2>1. ASSUME NEW n \in 0 .. Len(recorder.inputs) + 1, NEW proved \in BOOLEAN,
                 \/ recorder' = Encoded(recorder, t, n)
                 \/ recorder' = TornDown(Encoded(recorder, t, n), proved)
          PROVE  Keeps(recorder', I \union {t}, C)
      <3>1. Keeps(Encoded(recorder, t, n), I \union {t}, C)
        BY <1>2, <1>3, EncodedKeeps
      <3>2. Keeps(TornDown(Encoded(recorder, t, n), proved), I \union {t}, C)
        BY <3>1, TornDownKeeps
      <3> QED
        BY <2>1, <3>1, <3>2
    <2>2. ASSUME NEW proved \in BOOLEAN,
                 recorder' = TornDown([recorder EXCEPT !.inputs = Append(recorder.inputs, t)], proved)
          PROVE  Keeps(recorder', I \union {t}, C)
      <3>1. Keeps([recorder EXCEPT !.inputs = Append(recorder.inputs, t)], I \union {t}, C)
        BY <1>2, <1>3, AppendedKeeps
      <3> QED
        BY <2>2, <3>1, TornDownKeeps
    <2>3. ASSUME recorder' = recorder PROVE Keeps(recorder', I \union {t}, C)
      BY <1>3, <2>3 DEF Keeps
    <2> QED
      BY <2>1, <2>2, <2>3 DEF PumpSubmit
  <1>7. Apart(ToSet(queue.frames), queue.rejected, pump.pending, {}, I \union {t}, C, DOMAIN routes)
    BY <1>2, PartsKnown DEF Apart
  <1>8. Apart(ToSet(queue.frames), queue.rejected, pump.pending, {}, ToSet(recorder'.inputs),
              recorder'.completed, DOMAIN routes)
    BY <1>6, <1>7, ApartRecorder
  <1>9. recorder' \in Recorders /\ IsInjective(recorder'.inputs)
    BY <1>6 DEF Keeps
  <1>10. Apart(ToSet(queue'.frames), queue'.rejected, pump'.pending, Hand', ToSet(recorder'.inputs),
               recorder'.completed, DOMAIN routes)
    BY <1>1, <1>4, <1>5, <1>8
  <1> QED
    BY <1>1, <1>2, <1>4, <1>5, <1>9, <1>10, AssembledSame

(* release_runtime_completions after a submission. *)
LEMMA KeptPumpReturn == ASSUME HInv, PumpReturn PROVE HInv'
  <1> DEFINE I == ToSet(recorder.inputs)
             r == [recorder EXCEPT !.completed = {}]
  <1>1. PICK all : all = pump.pending \union recorder.completed
    OBVIOUS
  <1>2. PICK sent \in SUBSET all, proved \in BOOLEAN :
          /\ CanSend(sent, all, routes) /\ Acknowledge(sent, routes, owed)
          /\ IF all \subseteq sent
             THEN recorder' = r /\ pump' = [Done EXCEPT !.pending = {}]
             ELSE /\ recorder' = TornDown(r, proved)
                  /\ pump' = [Recovering(Done) EXCEPT !.pending = all \ sent]
    BY <1>1 DEF PumpReturn
  <1>3. UNCHANGED <<producerVars, nextToken>> /\ queue' = queue
    BY DEF PumpReturn, RestOfPump
  <1>4. all \in SUBSET Nat
    BY <1>1, PartsKnown DEF Pumps
  <1>5. /\ pump' \in Pumps /\ pump'.hand = NoToken /\ pump'.pending = all \ sent
        /\ pump'.pc = "top"
    <2>1. /\ Done \in Pumps /\ Done.pc = "top" /\ Done.hand = NoToken
          /\ Recovering(Done) \in Pumps /\ Recovering(Done).pc = "top"
          /\ Recovering(Done).hand = NoToken
      BY PumpFacts
    <2>2. CASE all \subseteq sent
      BY <1>2, <1>4, <2>1, <2>2 DEF Pumps
    <2>3. CASE ~(all \subseteq sent)
      BY <1>2, <1>4, <2>1, <2>3 DEF Pumps
    <2> QED
      BY <2>2, <2>3
  <1>6. HandFull' /\ Hand' = {}
    BY <1>5 DEF HandFull, Hand
  <1>7. Keeps(recorder', I, {})
    <2>1. Keeps(r, I, {})
      BY PartsKnown, EmptiedKeeps
    <2> HIDE DEF r
    <2>2. Keeps(TornDown(r, proved), I, {})
      BY <2>1, TornDownKeeps
    <2> QED
      BY <1>2, <2>1, <2>2
  <1>8. Apart(ToSet(queue.frames), queue.rejected, all, {}, I, {}, DOMAIN routes)
    BY <1>1, PartsKnown DEF Apart
  <1>9. Apart(ToSet(queue.frames), queue.rejected, all, {}, ToSet(recorder'.inputs),
              recorder'.completed, DOMAIN routes)
    BY <1>7, <1>8, ApartRecorder
  <1>10. PICK R, P : R = queue.rejected /\ P = all
    OBVIOUS
  <1>11. /\ sent \subseteq R \union P /\ queue'.rejected = R \ sent /\ pump'.pending = P \ sent
         /\ Apart(ToSet(queue'.frames), R, P, Hand', ToSet(recorder'.inputs),
                  recorder'.completed, DOMAIN routes)
    BY <1>2, <1>3, <1>5, <1>6, <1>9, <1>10 DEF Apart
  <1>12. recorder' \in Recorders /\ IsInjective(recorder'.inputs)
    BY <1>7 DEF Keeps
  <1>13. queue' \in Queues /\ IsInjective(queue'.frames) /\ queue'.releaseOnly = 0
    BY <1>3, PartsKnown
  <1>14. CanSend(sent, all, routes) /\ Acknowledge(sent, routes, owed)
    BY <1>2
  <1> QED
    BY <1>3, <1>5, <1>6, <1>11, <1>12, <1>13, <1>14, Freeing

(* The end of the pump. *)
LEMMA KeptPumpStop == ASSUME HInv, PumpStop PROVE HInv'
  <1> DEFINE I == ToSet(recorder.inputs)
             C == recorder.completed
             r(proved) == TornDown(recorder, proved)
             rest == queue.rejected \union ToSet(queue.frames)
  <1>1. PICK proved \in BOOLEAN :
          \E sent \in SUBSET ((pump.pending \union r(proved).completed) \union rest) :
            /\ CanSend(sent, (pump.pending \union r(proved).completed) \union rest, routes)
            /\ Acknowledge(sent, routes, owed)
            /\ recorder' = [r(proved) EXCEPT !.completed = {}]
            /\ pump' = [To("stopped") EXCEPT
                          !.pending = (pump.pending \union r(proved).completed) \ sent]
            /\ queue' = [queue EXCEPT !.frames = <<>>, !.rejected = rest \ sent]
    BY DEF PumpStop
  <1>2. PICK q, R, P, ts : /\ q = r(proved) /\ R = rest
                           /\ P = pump.pending \union r(proved).completed /\ ts = P \union R
    OBVIOUS
  <1>3. PICK sent \in SUBSET ts :
          /\ CanSend(sent, ts, routes) /\ Acknowledge(sent, routes, owed)
          /\ recorder' = [q EXCEPT !.completed = {}]
          /\ pump' = [To("stopped") EXCEPT !.pending = P \ sent]
          /\ queue' = [queue EXCEPT !.frames = <<>>, !.rejected = R \ sent]
    BY <1>1, <1>2
  <1>4. UNCHANGED <<producerVars, nextToken>>
    BY DEF PumpStop, RestOfPump
  <1>5. Keeps(q, I, C)
    BY <1>2, PartsKnown, TornDownKeeps
  <1>6. q \in Recorders /\ q.completed \subseteq Nat
    BY <1>5 DEF Keeps, Recorders
  <1>7. R \in SUBSET Nat /\ P \in SUBSET Nat
    BY <1>2, <1>6, PartsKnown DEF Queues, Pumps
  <1>8. /\ pump' \in Pumps /\ pump'.hand = pump.hand /\ pump'.pending = P \ sent
        /\ pump'.pc = "stopped"
    <2>1. /\ To("stopped") \in Pumps /\ To("stopped").pc = "stopped"
          /\ To("stopped").hand = pump.hand
      BY PumpFacts
    <2> QED
      BY <1>3, <1>7, <2>1 DEF Pumps
  <1>9. HandFull' /\ Hand' = Hand
    BY <1>8 DEF HandFull, Hand
  <1>10. /\ queue' \in Queues /\ queue'.frames = <<>> /\ queue'.rejected = R \ sent
         /\ queue'.releaseOnly = 0 /\ IsInjective(queue'.frames) /\ ToSet(queue'.frames) = {}
    BY <1>3, <1>7, PartsKnown, EmptyFacts DEF Queues
  <1>11. Keeps(recorder', ToSet(q.inputs), {}) /\ recorder'.inputs = q.inputs
         /\ recorder'.completed = {}
    BY <1>3, <1>5, <1>6 DEF Keeps, Recorders
  <1>12. Apart(ToSet(queue.frames), queue.rejected, pump.pending, Hand, ToSet(q.inputs),
               q.completed, DOMAIN routes)
    BY <1>5, PartsKnown, ApartRecorder
  <1>13. Apart({}, R, P, Hand, ToSet(q.inputs), {}, DOMAIN routes)
    BY <1>2, <1>12 DEF Apart
  <1>14. /\ sent \subseteq R \union P
         /\ Apart(ToSet(queue'.frames), R, P, Hand', ToSet(recorder'.inputs),
                  recorder'.completed, DOMAIN routes)
    BY <1>2, <1>3, <1>9, <1>10, <1>11, <1>13
  <1>15. recorder' \in Recorders /\ IsInjective(recorder'.inputs)
    BY <1>11 DEF Keeps
  <1>16. CanSend(sent, ts, routes) /\ Acknowledge(sent, routes, owed)
    BY <1>3
  <1> QED
    BY <1>4, <1>8, <1>9, <1>10, <1>14, <1>15, <1>16, Freeing

(* A save drains the encoder, or fails. *)
LEMMA KeptSave == ASSUME HInv, Save PROVE HInv'
  <1> DEFINE I == ToSet(recorder.inputs)
             C == recorder.completed
  <1>1. UNCHANGED <<producerVars, nextToken, routes, owed>> /\ queue' = queue /\ pump' = pump
    BY DEF Save
  <1>2. Keeps(recorder, I, C) /\ recorder \in Recorders /\ recorder.inputs \in Seq(Nat)
    BY PartsKnown DEF Keeps, Recorders
  <1>3. Keeps(recorder', I, C)
    <2>1. CASE recorder' = [recorder EXCEPT !.inputs = <<>>,
                              !.completed = Completed(recorder, recorder.inputs)]
      <3>1. /\ Completed(recorder, recorder.inputs) \in SUBSET Nat
            /\ Completed(recorder, recorder.inputs) \subseteq I \union C
        BY <1>2, CompletedFacts
      <3> QED
        BY <1>2, <2>1, <3>1, EmptyFacts DEF Keeps, Recorders
    <2>2. CASE \E proved \in BOOLEAN : recorder' = TornDown(recorder, proved)
      BY <1>2, <2>2, TornDownKeeps
    <2> QED
      BY <2>1, <2>2 DEF Save
  <1>4. Apart(ToSet(queue.frames), queue.rejected, pump.pending, Hand, ToSet(recorder'.inputs),
              recorder'.completed, DOMAIN routes)
    BY <1>3, PartsKnown, ApartRecorder
  <1>5. HandFull' /\ Hand' = Hand /\ pump' \in Pumps
    BY <1>1, PartsKnown DEF HandFull, Hand
  <1>6. queue' \in Queues /\ IsInjective(queue'.frames) /\ queue'.releaseOnly = 0
    BY <1>1, PartsKnown
  <1>7. recorder' \in Recorders /\ IsInjective(recorder'.inputs)
    BY <1>3 DEF Keeps
  <1>8. Apart(ToSet(queue'.frames), queue'.rejected, pump'.pending, Hand', ToSet(recorder'.inputs),
              recorder'.completed, DOMAIN routes)
    BY <1>1, <1>4, <1>5
  <1> QED
    BY <1>1, <1>5, <1>6, <1>7, <1>8, AssembledSame

(* ReplaySourceRejected: the retry queue has room for every queued frame, since
   each of them, and each that is there, has a route. *)
LEMMA KeptSourceRejected ==
    ASSUME HInv, NEW p \in Producers, SourceRejected(p)
    PROVE  HInv'
  <1> DEFINE s == queue.frames
             kept == Cardinality(queue.rejected)
             room == IF kept < RouteCapacity THEN RouteCapacity - kept ELSE 0
             moved == IF Len(s) < room THEN Len(s) ELSE room
             a == SubSeq(s, 1, moved)
             b == SubSeq(s, moved + 1, Len(s))
  <1>1. s \in Seq(Nat) /\ IsInjective(s) /\ queue \in Queues /\ Len(s) \in Nat
    BY PartsKnown
  <1>2. /\ queue' = [frames |-> b, releaseOnly |-> Len(s) - moved,
                     rejected |-> queue.rejected \union ToSet(a), rejection |-> TRUE]
        /\ UNCHANGED <<producerVars, nextToken, routes, owed>>
        /\ pump' = pump /\ recorder' = recorder
    BY DEF SourceRejected
  <1>3. moved = Len(s)
    <2>1. IsFiniteSet(1 .. (nextToken - 1))
      BY FS_Interval DEF HInv, Shape
    <2>2. IsFiniteSet(DOMAIN routes) /\ Cardinality(DOMAIN routes) \in Nat
      BY <2>1, FS_Subset, FS_CardinalityType DEF HInv, RoutesFit
    <2>3. /\ ToSet(s) \union queue.rejected \subseteq DOMAIN routes
          /\ ToSet(s) \cap queue.rejected = {}
      BY PartsKnown DEF Apart
    <2>4. IsFiniteSet(queue.rejected) /\ kept \in Nat
      BY <2>2, <2>3, FS_Subset, FS_CardinalityType
    <2>5. IsFiniteSet(ToSet(s)) /\ Cardinality(ToSet(s)) = Len(s)
      BY <1>1, CountFacts
    <2>6. Cardinality(ToSet(s) \union queue.rejected) = Len(s) + kept
      <3>1. Cardinality(ToSet(s) \cap queue.rejected) = 0
        BY <2>3, FS_EmptySet
      <3>2. Cardinality(ToSet(s) \union queue.rejected)
              = Cardinality(ToSet(s)) + Cardinality(queue.rejected)
                - Cardinality(ToSet(s) \cap queue.rejected)
        BY <2>4, <2>5, FS_Union
      <3> QED
        BY <1>1, <2>4, <2>5, <3>1, <3>2
    <2>7. Cardinality(ToSet(s) \union queue.rejected) <= Cardinality(DOMAIN routes)
      BY <2>2, <2>3, FS_Subset
    <2>8. Len(s) + kept <= RouteCapacity
      BY <1>1, <2>2, <2>4, <2>6, <2>7, HandoffAssumption DEF HInv, RoutesFit
    <2> HIDE DEF kept, s
    <2>9. RouteCapacity \in Nat
      BY HandoffAssumption
    <2>10. \A l, k, c \in Nat :
             l + k <= c => LET m == IF k < c THEN c - k ELSE 0
                           IN (IF l < m THEN l ELSE m) = l
      OBVIOUS
    <2> QED
      BY <1>1, <2>4, <2>8, <2>9, <2>10
  <1>4. moved \in 0 .. Len(s)
    BY <1>1, <1>3
  <1>5. /\ a \in Seq(Nat) /\ b \in Seq(Nat) /\ IsInjective(b)
        /\ ToSet(a) \subseteq ToSet(s) /\ ToSet(b) \subseteq ToSet(s)
        /\ ToSet(a) \cap ToSet(b) = {}
    BY <1>1, <1>4, SplitFacts
  <1>6. Len(s) - moved = 0
    BY <1>1, <1>3
  <1>7. queue.rejected \union ToSet(a) \in SUBSET Nat
    BY <1>1, <1>5, PartsKnown DEF Queues
  <1> HIDE DEF s, moved, a, b
  <1>8. /\ queue' \in Queues /\ queue'.frames = b /\ queue'.releaseOnly = 0
        /\ queue'.rejected = queue.rejected \union ToSet(a)
    BY <1>2, <1>5, <1>6, <1>7 DEF Queues
  <1>9. HandFull' /\ Hand' = Hand /\ pump' \in Pumps
    BY <1>2, PartsKnown DEF HandFull, Hand
  <1>10. recorder' \in Recorders /\ IsInjective(recorder'.inputs)
    BY <1>2, PartsKnown DEF Keeps
  <1>11. Apart(ToSet(b), queue.rejected \union ToSet(a), pump.pending, Hand,
               ToSet(recorder.inputs), recorder.completed, DOMAIN routes)
    BY <1>5, PartsKnown DEF Apart, s
  <1>12. Apart(ToSet(queue'.frames), queue'.rejected, pump'.pending, Hand',
               ToSet(recorder'.inputs), recorder'.completed, DOMAIN routes)
    BY <1>2, <1>8, <1>9, <1>11
  <1> QED
    BY <1>2, <1>5, <1>8, <1>9, <1>10, <1>12, AssembledSame

(* Places that do not change. *)
LEMMA AssembledStill ==
    ASSUME HInv, UNCHANGED <<queue, pump, recorder, routes, nextToken>>,
           wire' \in [Producers -> Nat], device' \in [Producers -> Nat],
           life' \in [Producers -> {"none", "up", "dead"}],
           owed' \in [Producers -> SUBSET Nat], lost' \in [Producers -> SUBSET Nat],
           RoutesTrue(routes, owed', life', device', wire', lost')
    PROVE  HInv'
  <1>1. Shape'
    BY DEF HInv, Shape
  <1>2. RoutesFit(routes', nextToken') /\ RoutesTrue(routes', owed', life', device', wire', lost')
    BY DEF HInv
  <1>3. PlacesApart' /\ HandFull' /\ queue'.releaseOnly = 0
    BY DEF HInv, PlacesApart, HandFull, Hand
  <1> QED
    BY <1>1, <1>2, <1>3 DEF HInv

(* A device is destroyed: nobody waits for its frames any more. *)
LEMMA KeptGoodbye ==
    ASSUME HInv, NEW p \in Producers, NEW dies \in BOOLEAN, Goodbye(p, dies)
    PROVE  HInv'
  <1>1. /\ life' = [life EXCEPT ![p] = IF dies THEN "dead" ELSE "none"]
        /\ owed' = [owed EXCEPT ![p] = {}] /\ lost' = [lost EXCEPT ![p] = {}]
        /\ UNCHANGED <<wire, device, routes, nextToken, queue, pump, recorder>>
    BY DEF Goodbye
  <1>2. /\ life \in [Producers -> {"none", "up", "dead"}]
        /\ owed \in [Producers -> SUBSET Nat] /\ lost \in [Producers -> SUBSET Nat]
        /\ wire \in [Producers -> Nat] /\ device \in [Producers -> Nat]
    BY DEF HInv, Shape
  <1>3. /\ life' \in [Producers -> {"none", "up", "dead"}]
        /\ owed' \in [Producers -> SUBSET Nat] /\ lost' \in [Producers -> SUBSET Nat]
        /\ wire' \in [Producers -> Nat] /\ device' \in [Producers -> Nat]
    BY <1>1, <1>2
  <1>4. /\ life'[p] # "up" /\ owed'[p] = {} /\ lost'[p] = {}
        /\ \A q \in Producers : q # p =>
             life'[q] = life[q] /\ owed'[q] = owed[q] /\ lost'[q] = lost[q]
    BY <1>1, <1>2
  <1>5. RoutesTrue(routes, owed, life, device, wire, lost)
    BY DEF HInv
  <1>6. RoutesTrue(routes, owed', life', device, wire, lost')
    <2>1. \A t \in DOMAIN routes :
            /\ routes[t] \in [path : Producers, device : Nat, wire : Nat]
            /\ routes[t].path = p => Dead(routes[t], life', device)
            /\ routes[t].path # p => (Dead(routes[t], life', device) <=> Dead(routes[t], life, device))
      BY <1>4, <1>5 DEF RoutesTrue, Dead
    <2>2. \A t \in DOMAIN routes :
            /\ routes[t].device <= device[routes[t].path]
            /\ routes[t].wire > 0 /\ routes[t].wire <= wire[routes[t].path]
            /\ ~Dead(routes[t], life', device) => routes[t].wire \notin lost'[routes[t].path]
      BY <1>4, <1>5, <2>1 DEF RoutesTrue
    <2>3. \A t, u \in DOMAIN routes : routes[t] = routes[u] => t = u
      BY <1>5 DEF RoutesTrue
    <2>4. \A q \in Producers : \A w \in lost'[q] : w <= wire[q]
      BY <1>4, <1>5 DEF RoutesTrue
    <2>5. ASSUME NEW q \in Producers, NEW w \in Nat
          PROVE  w \in owed'[q] <=>
                   \/ w \in lost'[q]
                   \/ \E t \in DOMAIN routes : /\ routes[t].path = q /\ routes[t].wire = w
                                               /\ ~Dead(routes[t], life', device)
      <3>1. CASE q = p
        BY <1>4, <2>1, <3>1
      <3>2. CASE q # p
        BY <1>4, <1>5, <2>1, <3>2 DEF RoutesTrue
      <3> QED
        BY <3>1, <3>2
    <2> QED
      BY <2>1, <2>2, <2>3, <2>4, <2>5 DEF RoutesTrue
  <1> QED
    BY <1>1, <1>3, <1>6, AssembledStill

(* A message that lost its descriptor. *)
LEMMA KeptExportRefused ==
    ASSUME HInv, NEW p \in Producers, ExportRefused(p)
    PROVE  HInv'
  <1> DEFINE w == wire[p] + 1
  <1>1. /\ wire' = [wire EXCEPT ![p] = w] /\ lost' = [lost EXCEPT ![p] = lost[p] \union {w}]
        /\ owed' = [owed EXCEPT ![p] = owed[p] \union {w}]
        /\ UNCHANGED <<life, device, routes, nextToken, queue, pump, recorder>>
    BY DEF ExportRefused
  <1>2. /\ life \in [Producers -> {"none", "up", "dead"}]
        /\ owed \in [Producers -> SUBSET Nat] /\ lost \in [Producers -> SUBSET Nat]
        /\ wire \in [Producers -> Nat] /\ device \in [Producers -> Nat] /\ w \in Nat
        /\ w > wire[p]
    BY DEF HInv, Shape
  <1> HIDE DEF w
  <1>3. /\ life' \in [Producers -> {"none", "up", "dead"}]
        /\ owed' \in [Producers -> SUBSET Nat] /\ lost' \in [Producers -> SUBSET Nat]
        /\ wire' \in [Producers -> Nat] /\ device' \in [Producers -> Nat]
    BY <1>1, <1>2
  <1>4. RoutesTrue(routes, owed, life, device, wire, lost)
    BY DEF HInv
  <1>5. /\ wire'[p] = w /\ lost'[p] = lost[p] \union {w} /\ owed'[p] = owed[p] \union {w}
        /\ \A q \in Producers : q # p =>
             wire'[q] = wire[q] /\ owed'[q] = owed[q] /\ lost'[q] = lost[q]
    BY <1>1, <1>2
  <1>6. RoutesTrue(routes, owed', life, device, wire', lost')
    <2>1. \A t \in DOMAIN routes :
            /\ routes[t] \in [path : Producers, device : Nat, wire : Nat]
            /\ routes[t].device <= device[routes[t].path]
            /\ routes[t].wire > 0 /\ routes[t].wire <= wire[routes[t].path]
            /\ ~Dead(routes[t], life, device) => routes[t].wire \notin lost[routes[t].path]
      BY <1>4 DEF RoutesTrue
    <2>2. \A t \in DOMAIN routes :
            /\ routes[t].wire <= wire'[routes[t].path]
            /\ ~Dead(routes[t], life, device) => routes[t].wire \notin lost'[routes[t].path]
      BY <1>2, <1>5, <2>1
    <2>3. \A t, u \in DOMAIN routes : routes[t] = routes[u] => t = u
      BY <1>4 DEF RoutesTrue
    <2>4. \A q \in Producers : \A v \in lost'[q] : v <= wire'[q]
      BY <1>2, <1>4, <1>5 DEF RoutesTrue
    <2>5. \A q \in Producers : \A v \in Nat :
            v \in owed'[q] <=>
              \/ v \in lost'[q]
              \/ \E t \in DOMAIN routes : /\ routes[t].path = q /\ routes[t].wire = v
                                          /\ ~Dead(routes[t], life, device)
      BY <1>4, <1>5 DEF RoutesTrue
    <2> QED
      BY <2>1, <2>2, <2>3, <2>4, <2>5 DEF RoutesTrue
  <1>7. RoutesTrue(routes, owed', life', device', wire', lost')
    BY <1>1, <1>6
  <1>8. UNCHANGED <<queue, pump, recorder, routes, nextToken>>
    BY <1>1
  <1> QED
    BY <1>3, <1>7, <1>8, AssembledStill

(* A new device has a new socket: the frames of the devices before it stay
   without anybody to wait for them. *)
LEMMA DeviceTrue ==
    ASSUME NEW known, NEW waiting, NEW lf \in [Producers -> {"none", "up", "dead"}],
           NEW dv \in [Producers -> Nat], NEW wr, NEW ls, NEW p \in Producers, lf[p] = "none",
           RoutesTrue(known, waiting, lf, dv, wr, ls),
           NEW lg, lg = [lf EXCEPT ![p] = "up"], NEW dw, dw = [dv EXCEPT ![p] = dv[p] + 1]
    PROVE  RoutesTrue(known, waiting, lg, dw, wr, ls)
  <1>1. \A q \in Producers : dw[q] >= dv[q] /\ (q # p => lg[q] = lf[q] /\ dw[q] = dv[q])
    OBVIOUS
  <1>2. dw[p] > dv[p] /\ dw \in [Producers -> Nat]
    OBVIOUS
  <1>3. \A t \in DOMAIN known :
          /\ known[t] \in [path : Producers, device : Nat, wire : Nat]
          /\ known[t].device <= dv[known[t].path]
    BY DEF RoutesTrue
  <1>4. \A t \in DOMAIN known : Dead(known[t], lg, dw) <=> Dead(known[t], lf, dv)
    <2> SUFFICES ASSUME NEW t \in DOMAIN known
                 PROVE  Dead(known[t], lg, dw) <=> Dead(known[t], lf, dv)
      OBVIOUS
    <2>1. CASE known[t].path = p
      <3>1. Dead(known[t], lf, dv)
        BY <2>1 DEF Dead
      <3>2. dw[p] # known[t].device
        BY <1>2, <1>3, <2>1
      <3> QED
        BY <2>1, <3>1, <3>2 DEF Dead
    <2>2. CASE known[t].path # p
      BY <1>1, <1>3, <2>2 DEF Dead
    <2> QED
      BY <2>1, <2>2
  <1>5. \A t \in DOMAIN known : known[t].device <= dw[known[t].path]
    BY <1>1, <1>2, <1>3
  <1> QED
    BY <1>3, <1>4, <1>5 DEF RoutesTrue

(* A device is created, with the frames of the one before it returned. *)
LEMMA KeptHello ==
    ASSUME HInv, NEW p \in Producers, Hello(p)
    PROVE  HInv'
  <1>1. /\ life[p] = "none" /\ life' = [life EXCEPT ![p] = "up"]
        /\ device' = [device EXCEPT ![p] = device[p] + 1]
        /\ UNCHANGED <<wire, lost, nextToken, pump, recorder>>
    BY DEF Hello
  <1>2. /\ life \in [Producers -> {"none", "up", "dead"}]
        /\ owed \in [Producers -> SUBSET Nat] /\ lost \in [Producers -> SUBSET Nat]
        /\ wire \in [Producers -> Nat] /\ device \in [Producers -> Nat]
    BY DEF HInv, Shape
  <1>3. /\ life' \in [Producers -> {"none", "up", "dead"}]
        /\ device' \in [Producers -> Nat]
    BY <1>1, <1>2
  <1>4. PICK lg, dw : lg = life' /\ dw = device'
    OBVIOUS
  <1>5. CASE UNCHANGED <<routes, owed, queue>>
    <2>1. RoutesTrue(routes, owed, life, device, wire, lost)
      BY DEF HInv
    <2>2. RoutesTrue(routes, owed, lg, dw, wire, lost)
      BY <1>1, <1>2, <1>4, <2>1, DeviceTrue
    <2>3. RoutesTrue(routes, owed', life', device', wire', lost')
      BY <1>1, <1>4, <1>5, <2>2
    <2>4. /\ UNCHANGED <<queue, pump, recorder, routes, nextToken>>
          /\ wire' \in [Producers -> Nat] /\ owed' \in [Producers -> SUBSET Nat]
          /\ lost' \in [Producers -> SUBSET Nat]
      BY <1>1, <1>2, <1>5
    <2> QED
      BY <1>3, <2>3, <2>4, AssembledStill
  <1>6. CASE LET stale == ToSet(queue.frames)
             IN \E sent \in SUBSET stale :
                  /\ CanSend(sent, stale, routes)
                  /\ Acknowledge(sent, routes, owed)
                  /\ queue' = [queue EXCEPT !.frames = <<>>,
                                            !.rejected = queue.rejected \union (stale \ sent)]
    <2>1. PICK stale : stale = ToSet(queue.frames)
      OBVIOUS
    <2>2. PICK sent \in SUBSET stale :
            /\ CanSend(sent, stale, routes) /\ Acknowledge(sent, routes, owed)
            /\ queue' = [queue EXCEPT !.frames = <<>>,
                                      !.rejected = queue.rejected \union (stale \ sent)]
      BY <1>6, <2>1
    <2>3. /\ owed' \in [Producers -> SUBSET Nat]
          /\ DOMAIN routes' = DOMAIN routes \ sent
          /\ RoutesFit(routes', nextToken)
          /\ RoutesTrue(routes', owed', life, device, wire, lost)
      BY <2>2, ReleaseKeeps
    <2>4. PICK known, waiting : known = routes' /\ waiting = owed'
      OBVIOUS
    <2>5. RoutesTrue(known, waiting, life, device, wire, lost)
      BY <2>3, <2>4
    <2>6. RoutesTrue(known, waiting, lg, dw, wire, lost)
      BY <1>1, <1>2, <1>4, <2>5, DeviceTrue
    <2>7. RoutesFit(routes', nextToken') /\ RoutesTrue(routes', owed', life', device', wire', lost')
      BY <1>1, <1>4, <2>3, <2>4, <2>6
    <2>8. /\ queue' \in Queues /\ queue'.frames = <<>> /\ queue'.releaseOnly = 0
          /\ queue'.rejected = queue.rejected \union (stale \ sent)
      <3>1. queue.rejected \union (stale \ sent) \in SUBSET Nat
        BY <2>1, PartsKnown DEF Queues
      <3> QED
        BY <2>2, <3>1, PartsKnown, EmptyFacts DEF Queues
    <2>9. Apart({}, queue.rejected \union (stale \ sent), pump.pending, Hand,
                ToSet(recorder.inputs), recorder.completed, DOMAIN routes')
      BY <2>1, <2>2, <2>3, PartsKnown DEF Apart
    <2>10. Hand' = Hand /\ HandFull' /\ pump' = pump /\ recorder' = recorder
      BY <1>1, PartsKnown DEF Hand, HandFull
    <2>11. PlacesApart'
      <3>1. ToSet(queue'.frames) = {} /\ IsInjective(queue'.frames) /\ IsInjective(recorder'.inputs)
        BY <2>8, <2>10, PartsKnown, EmptyFacts DEF Keeps
      <3> QED
        BY <2>8, <2>9, <2>10, <3>1 DEF PlacesApart
    <2>12. Shape'
      BY <1>1, <1>2, <1>3, <2>3, <2>8 DEF HInv, Shape
    <2> QED
      BY <2>7, <2>8, <2>10, <2>11, <2>12 DEF HInv
  <1> QED
    BY <1>5, <1>6 DEF Hello

(* An exported frame is queued, or returned, with the oldest one when the queue
   is full. *)
LEMMA KeptExport ==
    ASSUME HInv, NEW p \in Producers, NEW idle \in BOOLEAN, NEW valid \in BOOLEAN,
           Export(p, idle, valid)
    PROVE  HInv'
  <1> DEFINE s == queue.frames
             full == Len(s) = QueueCapacity
             queued == /\ Select(SocketOf(p), wire[p] + 1, idle).ok
                       /\ valid /\ capture.phase = "capturing"
             backs == IF queued THEN IF full THEN {Head(s)} ELSE {} ELSE {nextToken}
             after == IF queued THEN Append(IF full THEN Tail(s) ELSE s, nextToken) ELSE s
  <1>1. PICK w, known, waiting, back, frames :
          /\ w = wire[p] + 1 /\ known = WithRoute(p, w) /\ back = backs /\ frames = after
          /\ waiting = [owed EXCEPT ![p] = owed[p] \union {w}]
    OBVIOUS
  <1>2. /\ life[p] = "up" /\ Cardinality(DOMAIN routes) < RouteCapacity
        /\ wire' = [wire EXCEPT ![p] = w] /\ nextToken' = nextToken + 1
        /\ life' = life /\ device' = device /\ lost' = lost /\ pump' = pump
        /\ recorder' = recorder
    BY <1>1 DEF Export, TakesMessages, NextOf
  <1>3. PICK sent \in SUBSET back :
          /\ CanSend(sent, back, known) /\ Acknowledge(sent, known, waiting)
          /\ queue' = [queue EXCEPT
                         !.frames = frames,
                         !.releaseOnly = IF queued /\ full /\ queue.releaseOnly > 0
                                         THEN queue.releaseOnly - 1 ELSE queue.releaseOnly,
                         !.rejected = queue.rejected \union (back \ sent)]
    BY <1>1 DEF Export
  <1>4. /\ s \in Seq(Nat) /\ IsInjective(s) /\ queue \in Queues /\ queue.releaseOnly = 0
        /\ queue.rejected \subseteq Nat
    BY PartsKnown DEF Queues
  <1>5. nextToken \in Nat /\ nextToken \notin DOMAIN routes
    BY DEF HInv, Shape, RoutesFit
  <1>6. /\ frames \in Seq(Nat) /\ IsInjective(frames) /\ back \subseteq Nat
        /\ ToSet(frames) \subseteq ToSet(s) \union {nextToken}
        /\ back \subseteq ToSet(s) \union {nextToken} /\ ToSet(frames) \cap back = {}
    <2>0. nextToken \notin ToSet(s) /\ ToSet(s) \subseteq Nat
      BY <1>5, PartsKnown DEF Apart
    <2>1. CASE queued /\ full
      <3>1. s # <<>>
        <4>1. Len(s) # 0
          BY <2>1, HandoffAssumption
        <4> QED
          BY <4>1
      <3>2. /\ Tail(s) \in Seq(Nat) /\ Head(s) \in Nat /\ IsInjective(Tail(s))
            /\ ToSet(s) = {Head(s)} \union ToSet(Tail(s)) /\ Head(s) \notin ToSet(Tail(s))
        BY <1>4, <3>1, TailFacts
      <3>3. frames = Append(Tail(s), nextToken) /\ back = {Head(s)}
        BY <1>1, <2>1
      <3>4. /\ frames \in Seq(Nat) /\ IsInjective(frames)
            /\ ToSet(frames) = ToSet(Tail(s)) \union {nextToken}
        BY <1>5, <2>0, <3>2, <3>3, AppendFacts
      <3> QED
        BY <2>0, <3>2, <3>3, <3>4
    <2>2. CASE queued /\ ~full
      <3>1. frames = Append(s, nextToken) /\ back = {}
        BY <1>1, <2>2
      <3>2. /\ frames \in Seq(Nat) /\ IsInjective(frames)
            /\ ToSet(frames) = ToSet(s) \union {nextToken}
        BY <1>4, <1>5, <2>0, <3>1, AppendFacts
      <3> QED
        BY <3>1, <3>2
    <2>3. CASE ~queued
      <3>1. frames = s /\ back = {nextToken}
        BY <1>1, <2>3
      <3> QED
        BY <1>4, <1>5, <2>0, <3>1
    <2> QED
      BY <2>1, <2>2, <2>3
  <1>7. /\ DOMAIN known = DOMAIN routes \union {nextToken}
        /\ waiting \in [Producers -> SUBSET Nat]
        /\ RoutesTrue(known, waiting, life, device, wire', lost)
    <2>1. /\ Shape /\ RoutesFit(routes, nextToken)
          /\ RoutesTrue(routes, owed, life, device, wire, lost)
      BY DEF HInv
    <2> HIDE DEF s, full, queued, backs, after
    <2> QED
      BY <1>1, <1>2, <2>1, RegisterTrue
  <1>8. sent \in SUBSET DOMAIN known
    BY <1>3 DEF CanSend
  <1> HIDE DEF s, full, queued, backs, after
  <1>9. /\ DOMAIN routes' = (DOMAIN routes \union {nextToken}) \ sent
        /\ owed' \in [Producers -> SUBSET Nat]
        /\ RoutesFit(routes', nextToken')
        /\ RoutesTrue(routes', owed', life, device, wire', lost)
    <2>1. Shape /\ RoutesFit(routes, nextToken) /\ Cardinality(DOMAIN routes) < RouteCapacity
      BY <1>2 DEF HInv
    <2>2. Acknowledge(sent, known, waiting) /\ nextToken' = nextToken + 1
      BY <1>2, <1>3
    <2> QED
      BY <1>7, <1>8, <2>1, <2>2, RegisterKeeps
  <1>10. /\ queue' \in Queues /\ queue'.frames = frames /\ queue'.releaseOnly = 0
         /\ queue'.rejected = queue.rejected \union (back \ sent)
    <2>1. PICK left, rest : /\ left = (IF queued /\ full /\ queue.releaseOnly > 0
                                       THEN queue.releaseOnly - 1 ELSE queue.releaseOnly)
                            /\ rest = queue.rejected \union (back \ sent)
      OBVIOUS
    <2>2. left = 0 /\ rest \in SUBSET Nat
      <3>1. ~(queue.releaseOnly > 0)
        BY <1>4
      <3>2. left = 0
        BY <1>4, <2>1, <3>1
      <3> QED
        BY <1>4, <1>6, <2>1, <3>2
    <2>3. queue' = [queue EXCEPT !.frames = frames, !.releaseOnly = left, !.rejected = rest]
      BY <1>3, <2>1
    <2>4. /\ queue' \in Queues /\ queue'.frames = frames /\ queue'.releaseOnly = left
          /\ queue'.rejected = rest
      BY <1>4, <1>6, <2>2, <2>3 DEF Queues
    <2> QED
      BY <2>1, <2>2, <2>4
  <1>11. Apart(ToSet(frames), queue.rejected \union back, pump.pending, Hand,
               ToSet(recorder.inputs), recorder.completed, DOMAIN routes \union {nextToken})
    BY <1>5, <1>6, PartsKnown DEF Apart, s
  <1>12. Apart(ToSet(frames), queue.rejected \union (back \ sent), pump.pending, Hand,
               ToSet(recorder.inputs), recorder.completed, DOMAIN routes')
    <2>1. Apart(ToSet(s), queue.rejected, pump.pending, Hand,
                ToSet(recorder.inputs), recorder.completed, DOMAIN routes)
      BY PartsKnown DEF s
    <2>2. \A t \in queue.rejected : t \notin back
      BY <1>5, <1>6, <2>1 DEF Apart
    <2> QED
      BY <1>3, <1>6, <1>9, <1>11, <2>2 DEF Apart
  <1>13. Hand' = Hand /\ HandFull'
    BY <1>2, PartsKnown DEF Hand, HandFull
  <1>14. PlacesApart'
    <2>1. IsInjective(recorder.inputs)
      BY PartsKnown DEF Keeps
    <2> QED
      BY <1>2, <1>6, <1>10, <1>12, <1>13, <2>1 DEF PlacesApart
  <1>15. Shape'
    <2>1. w \in Nat /\ wire' \in [Producers -> Nat] /\ nextToken' \in Nat \ {0}
      BY <1>1, <1>2, <1>5 DEF HInv, Shape
    <2> QED
      BY <1>2, <1>9, <1>10, <2>1 DEF HInv, Shape
  <1> QED
    BY <1>2, <1>9, <1>10, <1>13, <1>14, <1>15 DEF HInv

-------------------------------------------------------------------------------
(* The invariant, and what follows from it.                                *)

LEMMA HandoffInit == ASSUME Init PROVE HInv
  <1>1. Shape
    BY EmptyFacts DEF Init, Shape, Queues, Pumps, Recorders, NoToken
  <1>2. DOMAIN routes = {}
    BY DEF Init
  <1>3. RoutesFit(routes, nextToken)
    BY <1>2, FS_EmptySet, HandoffAssumption DEF RoutesFit
  <1>4. RoutesTrue(routes, owed, life, device, wire, lost)
    <2>1. \A p \in Producers : owed[p] = {} /\ lost[p] = {}
      BY DEF Init
    <2> QED
      BY <1>2, <2>1 DEF RoutesTrue
  <1>5. PlacesApart /\ HandFull /\ queue.releaseOnly = 0
    <2>1. /\ queue.frames = <<>> /\ recorder.inputs = <<>> /\ Hand = {} /\ queue.rejected = {}
          /\ pump.pending = {} /\ recorder.completed = {} /\ pump.pc = "top"
          /\ queue.releaseOnly = 0
      BY DEF Init, Hand
    <2> QED
      BY <1>2, <2>1, EmptyFacts DEF PlacesApart, HandFull, Apart
  <1> QED
    BY <1>1, <1>3, <1>4, <1>5 DEF HInv

LEMMA HandoffStep == ASSUME HInv, [Next]_vars PROVE HInv'
  <1>1. CASE UNCHANGED vars
    BY <1>1 DEF vars, HInv, Shape, RoutesFit, RoutesTrue, PlacesApart, HandFull, Hand, Dead
  <1>2. ASSUME NEW p \in Producers, Hello(p) \/ SourceRejected(p) \/ ExportRefused(p) PROVE HInv'
    BY <1>2, KeptHello, KeptSourceRejected, KeptExportRefused
  <1>3. ASSUME NEW p \in Producers, NEW dies \in BOOLEAN, Goodbye(p, dies) PROVE HInv'
    BY <1>3, KeptGoodbye
  <1>4. ASSUME NEW p \in Producers, NEW idle \in BOOLEAN, NEW valid \in BOOLEAN,
               Export(p, idle, valid)
        PROVE  HInv'
    BY <1>4, KeptExport
  <1>5. CASE Save
    BY <1>5, KeptSave
  <1>6. CASE Pump
    BY <1>6, KeptPumpRejected, KeptPumpFault, KeptPumpCompletions, KeptPumpWait,
       KeptPumpImportFails, KeptPumpTaken, KeptPumpRecord, KeptPumpSubmit, KeptPumpReturn,
       KeptPumpEarly DEF Pump
  <1>7. CASE PumpStop
    BY <1>7, KeptPumpStop
  <1> QED
    BY <1>1, <1>2, <1>3, <1>4, <1>5, <1>6, <1>7 DEF Next

LEMMA HandoffInvariant == Spec => []HInv
  BY HandoffInit, HandoffStep, PTL DEF Spec

(* No frame is held in two places or without its reply route, while the encoder
   may read a frame its producer is not told that it may overwrite it, and no
   frame is left in the queue for release only: for any number of processes,
   devices and frames and any capacities (the pump, accept_capture_message,
   register, release, shutdown_backend). *)
THEOREM LeasesKeptCorrect == Spec => []LeasesKept
<1>1. HInv => LeasesKept
  <2> SUFFICES ASSUME HInv PROVE LeasesKept
    OBVIOUS
  <2>1. AtMostOneHolder
    <3> DEFINE F == ToSet(queue.frames)
               R == queue.rejected
               P == pump.pending
               I == ToSet(recorder.inputs)
               C == recorder.completed
    <3>1. Apart(F, R, P, Hand, I, C, DOMAIN routes)
      BY PartsKnown
    <3>2. IsInjective(queue.frames) /\ IsInjective(recorder.inputs)
      BY DEF HInv, PlacesApart
    <3>3. Places = <<F, R, P, Hand, I, C>>
      BY DEF Places
    <3> HIDE DEF F, R, P, I, C
    <3>4. DOMAIN Places = 1 .. 6 /\ ToSet(Places) = {F, R, P, Hand, I, C}
      <4>1. DOMAIN <<F, R, P, Hand, I, C>> = {1, 2, 3, 4, 5, 6}
        OBVIOUS
      <4>2. 1 .. 6 = {1, 2, 3, 4, 5, 6}
        OBVIOUS
      <4> QED
        BY <3>3, <4>1, <4>2 DEF ToSet
    <3>5. Held \subseteq DOMAIN routes
      BY <3>1, <3>4 DEF Held, Apart
    <3>6. \A i, j \in DOMAIN Places : i # j => Places[i] \cap Places[j] = {}
      <4>1. /\ Places[1] = F /\ Places[2] = R /\ Places[3] = P /\ Places[4] = Hand
            /\ Places[5] = I /\ Places[6] = C
        BY <3>3
      <4>2. /\ F \cap R = {} /\ F \cap P = {} /\ F \cap Hand = {} /\ F \cap I = {} /\ F \cap C = {}
            /\ R \cap P = {} /\ R \cap Hand = {} /\ R \cap I = {} /\ R \cap C = {}
            /\ P \cap Hand = {} /\ P \cap I = {} /\ P \cap C = {}
            /\ Hand \cap I = {} /\ Hand \cap C = {} /\ I \cap C = {}
        BY <3>1 DEF Apart
      <4>3. \A i, j \in 1 .. 6 : i < j => Places[i] \cap Places[j] = {}
        BY <4>1, <4>2
      <4> QED
        BY <3>4, <4>3
    <3> QED
      BY <3>2, <3>5, <3>6 DEF AtMostOneHolder
  <2>2. EncoderOwnsInputs
    <3>1. ASSUME NEW i \in DOMAIN recorder.inputs
          PROVE  /\ recorder.inputs[i] \in DOMAIN routes
                 /\ ~Gone(routes[recorder.inputs[i]]) =>
                       routes[recorder.inputs[i]].wire \in owed[routes[recorder.inputs[i]].path]
      <4>1. PICK t : t = recorder.inputs[i]
        OBVIOUS
      <4>2. t \in DOMAIN routes
        BY <4>1, PartsKnown DEF Apart, ToSet
      <4>3. ~Gone(routes[t]) => routes[t].wire \in owed[routes[t].path]
        BY <4>2 DEF HInv, RoutesTrue, Gone, Dead
      <4> QED
        BY <4>1, <4>2, <4>3
    <3> QED
      BY <3>1 DEF EncoderOwnsInputs
  <2>3. RetryQueueSuffices
    BY DEF HInv, RetryQueueSuffices
  <2> QED
    BY <2>1, <2>2, <2>3 DEF LeasesKept
<1> QED
  BY <1>1, HandoffInvariant, PTL

(* A living producer waits for exactly the frames that have a reply route and
   those whose message lost its descriptor, and register never refuses an
   export of a living producer (receiver_loop, register, release). *)
THEOREM SlotsCorrect == Spec => [](NoSlotStranded /\ RegisterAccepts)
<1>1. HInv => NoSlotStranded /\ RegisterAccepts
  <2> SUFFICES ASSUME HInv PROVE NoSlotStranded /\ RegisterAccepts
    OBVIOUS
  <2>1. /\ owed \in [Producers -> SUBSET Nat] /\ lost \in [Producers -> SUBSET Nat]
        /\ wire \in [Producers -> Nat] /\ RoutesTrue(routes, owed, life, device, wire, lost)
    BY DEF HInv, Shape
  <2>2. ASSUME NEW p \in Producers
        PROVE  owed[p] = lost[p] \union {routes[t].wire : t \in
                 {u \in DOMAIN routes : routes[u].path = p /\ ~Gone(routes[u])}}
    <3> DEFINE S == {routes[t].wire : t \in
                       {u \in DOMAIN routes : routes[u].path = p /\ ~Gone(routes[u])}}
    <3>1. \A w : w \in S <=> \E t \in DOMAIN routes :
            routes[t].path = p /\ routes[t].wire = w /\ ~Dead(routes[t], life, device)
      BY DEF Gone, Dead
    <3>2. S \subseteq Nat
      BY <2>1, <3>1 DEF RoutesTrue
    <3>3. \A w \in Nat : w \in owed[p] <=> w \in lost[p] \/ w \in S
      BY <2>1, <3>1 DEF RoutesTrue
    <3> HIDE DEF S
    <3>4. owed[p] \subseteq Nat /\ lost[p] \subseteq Nat
      BY <2>1
    <3>5. owed[p] = lost[p] \union S
      BY <3>2, <3>3, <3>4
    <3> QED
      BY <3>5 DEF S
  <2>3. ASSUME NEW p \in Producers, TakesMessages PROVE Registers(p, wire[p] + 1)
    <3>1. wire[p] \in Nat
      BY <2>1
    <3>2. ASSUME NEW t \in DOMAIN routes PROVE routes[t] # Origin(p, wire[p] + 1)
      <4>1. routes[t].wire \in Nat /\ routes[t].wire <= wire[routes[t].path]
        BY <2>1 DEF RoutesTrue
      <4>2. Origin(p, wire[p] + 1).path = p /\ Origin(p, wire[p] + 1).wire = wire[p] + 1
        BY DEF Origin
      <4> QED
        BY <3>1, <4>1, <4>2
    <3> QED
      BY <2>3, <3>1, <3>2 DEF Registers, TakesMessages
  <2> QED
    BY <2>2, <2>3 DEF NoSlotStranded, RegisterAccepts
<1> QED
  BY <1>1, HandoffInvariant, PTL

-------------------------------------------------------------------------------
(* The handoff implements the abstract lease.                              *)

(* Acknowledgements only take routes away. *)
LEMMA OnlyExportLends ==
    ASSUME HInv, Next, \A p \in Producers, idle, valid \in BOOLEAN : ~Export(p, idle, valid)
    PROVE  DOMAIN routes' \subseteq DOMAIN routes /\ nextToken' = nextToken
  <1>1. \A sent : Acknowledge(sent, routes, owed) => DOMAIN routes' \subseteq DOMAIN routes
    BY DEF Acknowledge, Drop
  <1>2. \A more, next : ReleaseAll(more, next) => DOMAIN routes' \subseteq DOMAIN routes
    BY <1>1 DEF ReleaseAll
  <1>3. ASSUME NEW p \in Producers, Hello(p) \/ SourceRejected(p) \/ ExportRefused(p)
        PROVE  DOMAIN routes' \subseteq DOMAIN routes /\ nextToken' = nextToken
    BY <1>1, <1>3 DEF Hello, SourceRejected, ExportRefused
  <1>4. ASSUME NEW p \in Producers, NEW dies \in BOOLEAN, Goodbye(p, dies)
        PROVE  DOMAIN routes' \subseteq DOMAIN routes /\ nextToken' = nextToken
    BY <1>4 DEF Goodbye
  <1>5. CASE Save \/ PumpStop
    BY <1>1, <1>5 DEF Save, PumpStop, RestOfPump
  <1>6. CASE PumpRejected \/ PumpFault \/ PumpCompletions \/ PumpWait \/ PumpTaken
    BY <1>2, <1>6 DEF PumpRejected, PumpFault, PumpCompletions, PumpWait, PumpTaken, RestOfPump
  <1>7. CASE PumpImportFails \/ PumpRecord \/ PumpSubmit \/ PumpReturn \/ PumpEarly
    BY <1>1, <1>2, <1>7
       DEF PumpImportFails, PumpRecord, PumpSubmit, PumpReturn, PumpEarly, RestOfPump
  <1> QED
    BY <1>3, <1>4, <1>5, <1>6, <1>7 DEF Next, Pump

(* Lend: a frame gets the next number and, at once or never in this step, its
   acknowledgement. *)
LEMMA ExportLends ==
    ASSUME HInv, HInv', NEW p \in Producers, NEW idle \in BOOLEAN, NEW valid \in BOOLEAN,
           Export(p, idle, valid)
    PROVE  Lease!Lend
  <1>1. nextToken \in Nat /\ nextToken' = nextToken + 1 /\ recorder' = recorder
    BY DEF Export, NextOf, HInv, Shape
  <1>2. PICK sent : DOMAIN routes' = (DOMAIN routes \union {nextToken}) \ sent
    <2>1. nextToken \notin DOMAIN routes
      BY DEF HInv, Shape, RoutesFit
    <2>2. DOMAIN WithRoute(p, wire[p] + 1) = DOMAIN routes \union {nextToken}
      BY DEF WithRoute
    <2>3. \E sent : DOMAIN routes' = DOMAIN WithRoute(p, wire[p] + 1) \ sent
      BY DEF Export, Acknowledge, Drop
    <2> QED
      BY <2>2, <2>3
  <1>3. ToSet(recorder.inputs) \subseteq DOMAIN routes'
    BY <1>1 DEF HInv, PlacesApart, Apart
  <1>4. PICK back : back = sent \cap (DOMAIN routes \union {nextToken})
    OBVIOUS
  <1>5. /\ back \subseteq DOMAIN routes \union {nextToken}
        /\ back \cap ToSet(recorder.inputs) = {}
        /\ DOMAIN routes' = (DOMAIN routes \union {nextToken}) \ back
    BY <1>2, <1>3, <1>4
  <1>6. nextToken' - 1 = nextToken /\ nextToken' - 1 = (nextToken - 1) + 1
    BY <1>1
  <1> QED
    BY <1>1, <1>5, <1>6 DEF Lease!Lend

(* Proceed: what is returned in the step is not read after it. *)
LEMMA OthersProceed ==
    ASSUME HInv, HInv', DOMAIN routes' \subseteq DOMAIN routes, nextToken' = nextToken
    PROVE  Lease!Proceed
  <1> DEFINE I == ToSet(recorder.inputs)
             D == DOMAIN routes
  <1>1. I \subseteq D /\ I' \subseteq D'
    BY DEF HInv, PlacesApart, Apart
  <1>2. PICK begin, end, back : begin = I' /\ end = I \ I' /\ back = D \ D'
    OBVIOUS
  <1>3. begin \in SUBSET D /\ end \in SUBSET D /\ I' = (I \union begin) \ end
    BY <1>1, <1>2
  <1>4. back \in SUBSET (D \ I') /\ D' = D \ back
    BY <1>1, <1>2
  <1> QED
    BY <1>3, <1>4 DEF Lease!Proceed

(* Whatever the receiver, the pump and a save do, a frame is lent once under a
   number of its own, read only while it is lent, and returned only when it is
   not being read (register, release, submit_frame, shutdown_backend). *)
THEOREM ImplementsLeaseCorrect == Spec => ImplementsLease
<1>1. Init => Lease!Init
  BY EmptyFacts DEF Init, Lease!Init
<1>2. HInv /\ HInv' /\ [Next]_vars => [Lease!Next]_Lease!leaseVars
  <2> SUFFICES ASSUME HInv, HInv', [Next]_vars PROVE [Lease!Next]_Lease!leaseVars
    OBVIOUS
  <2>1. CASE UNCHANGED vars
    BY <2>1 DEF vars, Lease!leaseVars
  <2>2. ASSUME NEW p \in Producers, NEW idle \in BOOLEAN, NEW valid \in BOOLEAN,
               Export(p, idle, valid)
        PROVE  Lease!Next
    BY <2>2, ExportLends DEF Lease!Next
  <2>3. CASE Next /\ \A p \in Producers, idle, valid \in BOOLEAN : ~Export(p, idle, valid)
    <3>1. DOMAIN routes' \subseteq DOMAIN routes /\ nextToken' = nextToken
      BY <2>3, OnlyExportLends
    <3> QED
      BY <3>1, OthersProceed DEF Lease!Next
  <2> QED
    BY <2>1, <2>2, <2>3
<1> QED
  BY <1>1, <1>2, HandoffInvariant, PTL DEF Spec, ImplementsLease, Lease!Spec

-------------------------------------------------------------------------------
(* No lease is lost.                                                       *)

(* What the encoder reads and what it has completed. *)
Whole(r) == ToSet(r.inputs) \union r.completed

(* Together they are no more than k. *)
Fits(r, k) == IsFiniteSet(r.completed) /\ Cardinality(r.completed) + Len(r.inputs) <= k

(* What the pump and the runtime leave room for: the completions of one more
   frame than may be in flight, and, from the return of the completions to the
   next submission, of no more than those in flight. *)
RoomLeft(r, pc) ==
    /\ Fits(r, MaxInFlight + 1)
    /\ pc \in {"wait", "taken", "record", "submit"} /\ r.pipeline # "stuck" => Fits(r, MaxInFlight)
    /\ r.pipeline = "recording" => Len(r.inputs) <= MaxInFlight
    /\ r.pipeline = "none" => r.inputs = <<>>

(* A pump that counts on a pipeline has one, and submits only then. *)
Armed(r, pc, armed) ==
    /\ armed => r.pipeline = "recording"
    /\ pc = "submit" => armed

(* The pump's hand is empty between two frames. *)
HandEmpty(pc, hand) == pc \notin {"taken", "record", "submit"} => hand = NoToken

Everywhere == ToSet(queue.frames) \union queue.rejected \union pump.pending \union Hand
                \union Whole(recorder)

(* Every leased frame is somewhere. *)
Found == DOMAIN routes \subseteq Everywhere

Lasting == /\ Found /\ RoomLeft(recorder, pump.pc) /\ Armed(recorder, pump.pc, pump.armed)
           /\ HandEmpty(pump.pc, pump.hand)

(* The inductive invariant of NoLeaseLost: a stopped pump has returned what it
   could, and nothing is asked of it. *)
LInv == HInv /\ (pump.pc # "stopped" => Lasting)

(* The two halves of a sequence have all its elements. *)
LEMMA SplitWhole ==
    ASSUME NEW s \in Seq(Nat), NEW n \in 0 .. Len(s)
    PROVE  /\ ToSet(SubSeq(s, 1, n)) \union ToSet(SubSeq(s, n + 1, Len(s))) = ToSet(s)
           /\ IsInjective(s) => IsInjective(SubSeq(s, 1, n))
  <1> DEFINE a == SubSeq(s, 1, n)
             b == SubSeq(s, n + 1, Len(s))
  <1>0. Len(s) \in Nat /\ n \in Nat /\ n <= Len(s) /\ DOMAIN s = 1 .. Len(s)
    OBVIOUS
  <1>1. /\ a \in Seq(Nat) /\ Len(a) = n /\ b \in Seq(Nat) /\ Len(b) = Len(s) - n
        /\ ToSet(a) \subseteq ToSet(s) /\ ToSet(b) \subseteq ToSet(s)
    BY SplitFacts
  <1>2. \A i \in 1 .. n : a[i] = s[i]
    <2>1. \A i \in 1 .. (n - 1 + 1) : a[i] = s[1 + i - 1]
      BY <1>0, SubSeqProperties
    <2> HIDE DEF a
    <2> QED
      BY <1>0, <2>1
  <1>3. \A i \in 1 .. (Len(s) - n) : b[i] = s[n + i]
    <2>1. \A i \in 1 .. (Len(s) - (n + 1) + 1) : b[i] = s[(n + 1) + i - 1]
      BY <1>0, SubSeqProperties
    <2> HIDE DEF b
    <2>2. ASSUME NEW i \in 1 .. (Len(s) - n) PROVE b[i] = s[n + i]
      <3>1. i \in 1 .. (Len(s) - (n + 1) + 1) /\ (n + 1) + i - 1 = n + i
        BY <1>0
      <3> QED
        BY <2>1, <3>1
    <2> QED
      BY <2>2
  <1> HIDE DEF a, b
  <1>4. DOMAIN a = 1 .. n /\ DOMAIN b = 1 .. (Len(s) - n)
    BY <1>1
  <1>5. ASSUME NEW x \in ToSet(s) PROVE x \in ToSet(a) \union ToSet(b)
    <2>1. PICK i \in 1 .. Len(s) : x = s[i]
      BY <1>0 DEF ToSet
    <2>2. CASE i <= n
      <3>1. i \in 1 .. n
        BY <1>0, <2>2
      <3>2. i \in DOMAIN a /\ a[i] = x
        BY <1>2, <1>4, <2>1, <3>1
      <3> QED
        BY <3>2 DEF ToSet
    <2>3. CASE ~(i <= n)
      <3>1. i - n \in 1 .. (Len(s) - n) /\ n + (i - n) = i
        BY <1>0, <2>3
      <3>2. i - n \in DOMAIN b /\ b[i - n] = x
        BY <1>3, <1>4, <2>1, <3>1
      <3> QED
        BY <3>2 DEF ToSet
    <2> QED
      BY <2>2, <2>3
  <1>6. ASSUME IsInjective(s) PROVE IsInjective(a)
    <2>1. \A i \in 1 .. n : i \in DOMAIN s
      BY <1>0
    <2> QED
      BY <1>2, <1>4, <1>6, <2>1 DEF IsInjective
  <1> QED
    BY <1>1, <1>5, <1>6 DEF a, b

(* enqueue_completed takes all of the given frames when there is room. *)
LEMMA CompletedWhole ==
    ASSUME NEW r \in Recorders, NEW done \in Seq(Nat), IsInjective(done),
           IsFiniteSet(r.completed), Cardinality(r.completed) + Len(done) <= MaxCompleted
    PROVE  /\ Completed(r, done) = r.completed \union ToSet(done)
           /\ IsFiniteSet(Completed(r, done))
           /\ Cardinality(Completed(r, done)) <= Cardinality(r.completed) + Len(done)
  <1> DEFINE C == r.completed
             D == ToSet(done)
  <1>1. IsFiniteSet(D) /\ Cardinality(D) = Len(done)
    BY CountFacts
  <1>2. MaxCompleted \in Nat /\ Len(done) \in Nat /\ Cardinality(C) \in Nat
    BY HandoffAssumption, FS_CardinalityType
  <1>3. Completed(r, done) = C \union D
    BY <1>2 DEF Completed
  <1> HIDE DEF C, D
  <1>4. IsFiniteSet(C)
    BY DEF C
  <1>5. /\ IsFiniteSet(C \union D) /\ IsFiniteSet(C \cap D)
        /\ Cardinality(C \union D) = Cardinality(C) + Cardinality(D) - Cardinality(C \cap D)
    BY <1>1, <1>4, FS_Union, FS_Intersection
  <1>6. Cardinality(C \cap D) \in Nat /\ Cardinality(D) \in Nat
    BY <1>1, <1>5, FS_CardinalityType
  <1>7. Cardinality(C \union D) <= Cardinality(C) + Len(done)
    BY <1>1, <1>2, <1>5, <1>6
  <1> QED
    BY <1>3, <1>5, <1>7 DEF C, D

(* shutdown_backend keeps or completes every frame when there is room. *)
LEMMA TornDownWhole ==
    ASSUME NEW r \in Recorders, IsInjective(r.inputs), NEW k \in Nat, k <= MaxCompleted,
           Fits(r, k), NEW proved \in BOOLEAN
    PROVE  /\ Whole(TornDown(r, proved)) = Whole(r)
           /\ Fits(TornDown(r, proved), k)
           /\ TornDown(r, proved).pipeline # "recording"
           /\ (r.pipeline = "none" => r.inputs = <<>>) =>
                (TornDown(r, proved).pipeline = "none" => TornDown(r, proved).inputs = <<>>)
  <1>1. r.inputs \in Seq(Nat) /\ Len(r.inputs) \in Nat /\ MaxCompleted \in Nat
    BY HandoffAssumption DEF Recorders
  <1>2. IsFiniteSet(r.completed) /\ Cardinality(r.completed) \in Nat
    BY FS_CardinalityType DEF Fits
  <1>3. CASE r.pipeline # "recording"
    BY <1>3 DEF TornDown
  <1>4. CASE r.pipeline = "recording" /\ ~proved
    <2>1. TornDown(r, proved) = [r EXCEPT !.pipeline = "stuck"]
      BY <1>4 DEF TornDown
    <2>2. /\ TornDown(r, proved).inputs = r.inputs /\ TornDown(r, proved).completed = r.completed
          /\ TornDown(r, proved).pipeline = "stuck"
      BY <2>1 DEF Recorders
    <2> QED
      BY <2>2 DEF Whole, Fits
  <1>5. CASE r.pipeline = "recording" /\ proved
    <2> DEFINE s == r.inputs
               m == IF Len(s) < MaxCompleted THEN Len(s) ELSE MaxCompleted
    <2>1. m = Len(s)
      BY <1>1, <1>2 DEF Fits
    <2>2. SubSeq(s, 1, m) = s
      <3>1. SubSeq(s, 1, Len(s)) = s
        BY <1>1
      <3> QED
        BY <2>1, <3>1
    <2>3. TornDown(r, proved) = [pipeline |-> "none", inputs |-> <<>>, completed |-> Completed(r, s)]
      BY <1>5, <2>2 DEF TornDown
    <2>4. Cardinality(r.completed) + Len(s) <= MaxCompleted
      BY <1>1, <1>2 DEF Fits
    <2>5. /\ Completed(r, s) = r.completed \union ToSet(s) /\ IsFiniteSet(Completed(r, s))
          /\ Cardinality(Completed(r, s)) <= Cardinality(r.completed) + Len(s)
      BY <1>1, <1>2, <2>4, CompletedWhole
    <2>6. /\ TornDown(r, proved).inputs = <<>> /\ TornDown(r, proved).pipeline = "none"
          /\ TornDown(r, proved).completed = Completed(r, s)
      BY <2>3
    <2>7. Whole(TornDown(r, proved)) = Whole(r)
      BY <2>5, <2>6, EmptyFacts DEF Whole
    <2>8. Fits(TornDown(r, proved), k)
      <3>1. Cardinality(Completed(r, s)) \in Nat
        BY <2>5, FS_CardinalityType
      <3>2. Len(<<>>) = 0
        OBVIOUS
      <3>3. Cardinality(Completed(r, s)) + 0 <= k
        BY <1>1, <1>2, <2>5, <3>1 DEF Fits
      <3> QED
        BY <2>5, <2>6, <3>2, <3>3 DEF Fits
    <2> QED
      BY <2>6, <2>7, <2>8
  <1> QED
    BY <1>3, <1>4, <1>5

(* submit_frame: the frame is read or completed, and so are the ones before. *)
LEMMA EncodedWhole ==
    ASSUME MaxInFlight < MaxCompleted, NEW r \in Recorders, IsInjective(r.inputs),
           Fits(r, MaxInFlight), NEW t \in Nat, t \notin ToSet(r.inputs),
           NEW n \in 0 .. Len(r.inputs) + 1
    PROVE  /\ Whole(Encoded(r, t, n)) = Whole(r) \union {t}
           /\ Fits(Encoded(r, t, n), MaxInFlight + 1)
           /\ Encoded(r, t, n).pipeline = r.pipeline
           /\ Len(Encoded(r, t, n).inputs) = Len(r.inputs) + 1 - n
  <1> DEFINE s == Append(r.inputs, t)
             done == SubSeq(s, 1, n)
             left == SubSeq(s, n + 1, Len(s))
             c == Completed(r, done)
             e == Encoded(r, t, n)
  <1>1. /\ r.inputs \in Seq(Nat) /\ Len(r.inputs) \in Nat
        /\ MaxCompleted \in Nat /\ MaxInFlight \in Nat
    BY HandoffAssumption DEF Recorders
  <1>2. /\ s \in Seq(Nat) /\ ToSet(s) = ToSet(r.inputs) \union {t} /\ IsInjective(s)
        /\ Len(s) = Len(r.inputs) + 1
    BY <1>1, AppendFacts
  <1>3. n \in 0 .. Len(s) /\ n \in Nat /\ n <= Len(r.inputs) + 1
    BY <1>1, <1>2
  <1>4. /\ done \in Seq(Nat) /\ left \in Seq(Nat) /\ Len(done) = n /\ Len(left) = Len(s) - n
        /\ ToSet(done) \union ToSet(left) = ToSet(s) /\ IsInjective(done)
    <2> HIDE DEF s
    <2> QED
      BY <1>2, <1>3, SplitFacts, SplitWhole
  <1>5. IsFiniteSet(r.completed) /\ Cardinality(r.completed) \in Nat
    BY FS_CardinalityType DEF Fits
  <1>6. e = [r EXCEPT !.inputs = left, !.completed = c]
    BY DEF Encoded
  <1> HIDE DEF s, done, left
  <1>7. Cardinality(r.completed) + Len(done) <= MaxCompleted
    BY <1>1, <1>3, <1>4, <1>5 DEF Fits
  <1>8. /\ c = r.completed \union ToSet(done) /\ IsFiniteSet(c)
        /\ Cardinality(c) <= Cardinality(r.completed) + Len(done)
    BY <1>4, <1>5, <1>7, CompletedWhole
  <1> HIDE DEF c, e
  <1>9. e.inputs = left /\ e.completed = c /\ e.pipeline = r.pipeline
    BY <1>6 DEF Recorders
  <1>10. Whole(e) = Whole(r) \union {t}
    BY <1>2, <1>4, <1>8, <1>9 DEF Whole
  <1>11. Fits(e, MaxInFlight + 1)
    <2>1. Cardinality(c) \in Nat
      BY <1>8, FS_CardinalityType
    <2>2. Cardinality(c) + Len(left) <= MaxInFlight + 1
      BY <1>1, <1>2, <1>3, <1>4, <1>5, <1>8, <2>1 DEF Fits
    <2> QED
      BY <1>8, <1>9, <2>2 DEF Fits
  <1> QED
    BY <1>2, <1>4, <1>9, <1>10, <1>11 DEF e

(* A step after which every frame is where it was, elsewhere or acknowledged. *)
LEMMA StillFound ==
    ASSUME Found, NEW sent, DOMAIN routes' = DOMAIN routes \ sent,
           \A t \in Everywhere : t \notin sent => t \in Everywhere'
    PROVE  Found'
  BY DEF Found

(* release_sequences: what is not acknowledged stays with the failed releases. *)
LEMMA ReleaseFound ==
    ASSUME HInv, Found, NEW more, NEW next \in Pumps, ReleaseAll(more, next),
           \A t \in ToSet(queue.frames) \union queue.rejected \union Hand \union Whole(recorder) :
              \/ t \in more \/ t \in ToSet(queue'.frames) \/ t \in queue'.rejected
              \/ t \in HandOf(next) \/ t \in Whole(recorder)'
    PROVE  Found' /\ pump'.pc = next.pc /\ pump'.armed = next.armed /\ pump'.hand = next.hand
  <1> DEFINE all == pump.pending \union more
  <1>1. PICK sent \in SUBSET all :
          /\ CanSend(sent, all, routes) /\ Acknowledge(sent, routes, owed)
          /\ pump' = [next EXCEPT !.pending = all \ sent]
    BY DEF ReleaseAll
  <1>2. DOMAIN routes' = DOMAIN routes \ sent
    BY <1>1, ReleaseKeeps
  <1>3. /\ pump'.pc = next.pc /\ pump'.armed = next.armed /\ pump'.hand = next.hand
        /\ pump'.pending = all \ sent
    BY <1>1 DEF Pumps
  <1>4. Hand' = HandOf(next)
    BY <1>3 DEF Hand, HandOf
  <1>5. ASSUME NEW t \in Everywhere, t \notin sent PROVE t \in Everywhere'
    BY <1>3, <1>4, <1>5 DEF Everywhere
  <1>6. Found'
    BY <1>2, <1>5, StillFound
  <1> QED
    BY <1>3, <1>6

(* A step that leaves recorder and pump alone. *)
LEMMA LastingStill ==
    ASSUME Lasting, UNCHANGED <<pump, recorder>>, Found'
    PROVE  Lasting'
  BY DEF Lasting, RoomLeft, Armed, Fits, HandEmpty

(* A step that leaves the recorder alone, at a place that asks no more room. *)
LEMMA PumpMoves ==
    ASSUME Lasting, recorder' = recorder, Found', pump'.armed => pump.armed,
           pump'.pc = "submit" => pump'.armed, HandEmpty(pump'.pc, pump'.hand),
           \/ pump'.pc \notin {"wait", "taken", "record", "submit"}
           \/ pump.pc \in {"wait", "taken", "record", "submit"}
    PROVE  Lasting'
  <1>1. RoomLeft(recorder, pump.pc) => RoomLeft(recorder', pump'.pc)
    BY DEF RoomLeft, Fits
  <1>2. Armed(recorder', pump'.pc, pump'.armed)
    BY DEF Lasting, Armed
  <1> QED
    BY <1>1, <1>2 DEF Lasting

(* enter_replay_recovery with a recorder r that is torn down. *)
LEMMA TornDownLasts ==
    ASSUME MaxInFlight < MaxCompleted, NEW r \in Recorders, IsInjective(r.inputs),
           Fits(r, MaxInFlight + 1), r.pipeline = "none" => r.inputs = <<>>,
           NEW proved \in BOOLEAN, NEW pc, pc \notin {"wait", "taken", "record", "submit"}
    PROVE  /\ Whole(TornDown(r, proved)) = Whole(r)
           /\ RoomLeft(TornDown(r, proved), pc)
           /\ Armed(TornDown(r, proved), pc, FALSE)
  <1>1. MaxInFlight + 1 \in Nat /\ MaxInFlight + 1 <= MaxCompleted
    BY HandoffAssumption
  <1>2. /\ Whole(TornDown(r, proved)) = Whole(r)
        /\ Fits(TornDown(r, proved), MaxInFlight + 1)
        /\ TornDown(r, proved).pipeline # "recording"
        /\ TornDown(r, proved).pipeline = "none" => TornDown(r, proved).inputs = <<>>
    BY <1>1, TornDownWhole
  <1> QED
    BY <1>2 DEF RoomLeft, Armed

(* The same in a step: every frame stays with the recorder. *)
LEMMA RecoverLasts ==
    ASSUME MaxInFlight < MaxCompleted, NEW r \in Recorders, IsInjective(r.inputs),
           Fits(r, MaxInFlight + 1), r.pipeline = "none" => r.inputs = <<>>,
           NEW proved \in BOOLEAN, recorder' = TornDown(r, proved),
           pump'.pc \notin {"wait", "taken", "record", "submit"}, pump'.armed = FALSE,
           HandEmpty(pump'.pc, pump'.hand)
    PROVE  Whole(recorder') = Whole(r) /\ (Found' => Lasting')
  <1>1. PICK pc : pc = pump'.pc
    OBVIOUS
  <1>2. /\ Whole(TornDown(r, proved)) = Whole(r)
        /\ RoomLeft(TornDown(r, proved), pc)
        /\ Armed(TornDown(r, proved), pc, FALSE)
    BY <1>1, TornDownLasts
  <1> QED
    BY <1>1, <1>2 DEF Lasting

(* The recorder as the invariants have it. *)
LEMMA RecorderKnown ==
    ASSUME HInv, Lasting
    PROVE  /\ recorder \in Recorders /\ IsInjective(recorder.inputs) /\ recorder.inputs \in Seq(Nat)
           /\ Fits(recorder, MaxInFlight + 1)
           /\ recorder.pipeline = "none" => recorder.inputs = <<>>
           /\ recorder.pipeline = "recording" => Len(recorder.inputs) <= MaxInFlight
           /\ pump.armed => recorder.pipeline = "recording"
           /\ Found
           /\ HandEmpty(pump.pc, pump.hand)
  BY PartsKnown DEF Keeps, Lasting, RoomLeft, Armed, Recorders

(* What recovery does to the pump's fields. *)
LEMMA RecoveringFacts ==
    ASSUME HInv
    PROVE  /\ \A next \in Pumps :
                /\ Recovering(next) \in Pumps /\ Recovering(next).pc = next.pc
                /\ Recovering(next).hand = next.hand /\ Recovering(next).pending = next.pending
                /\ Recovering(next).armed = FALSE
           /\ Done.armed = pump.armed
           /\ \A c : To(c).armed = pump.armed
  <1>1. pump \in Pumps
    BY PartsKnown
  <1>2. Done.armed = pump.armed /\ \A c : To(c).armed = pump.armed
    BY <1>1 DEF Done, To, Pumps
  <1>3. \A next \in Pumps : Recovering(next).armed = FALSE
    BY DEF Recovering, Pumps
  <1> QED
    BY <1>2, <1>3, PumpFacts

(* take_rejected_exports. *)
LEMMA FoundPumpRejected == ASSUME HInv, Lasting, PumpRejected PROVE Lasting'
  <1> DEFINE s == queue.frames
             n == IF queue.releaseOnly < Len(s) THEN queue.releaseOnly ELSE Len(s)
             a == SubSeq(s, 1, n)
             b == SubSeq(s, n + 1, Len(s))
  <1>1. queue \in Queues /\ s \in Seq(Nat) /\ queue.releaseOnly = 0
    BY PartsKnown
  <1>2. n \in 0 .. Len(s)
    <2>1. Len(s) \in Nat
      BY <1>1
    <2> QED
      BY <1>1, <2>1
  <1>3. ToSet(a) \union ToSet(b) = ToSet(s)
    <2> HIDE DEF n
    <2> QED
      BY <1>1, <1>2, SplitWhole
  <1>4. /\ ReleaseAll(queue.rejected \union ToSet(a), To("fault")) /\ recorder' = recorder
        /\ queue'.frames = b /\ queue'.rejected = {}
    BY <1>1 DEF PumpRejected, Queues
  <1>5. To("fault") \in Pumps /\ To("fault").pc = "fault" /\ To("fault").hand = pump.hand
        /\ To("fault").armed = pump.armed
    BY PumpFacts, RecoveringFacts
  <1> HIDE DEF a, b, n
  <1>6. ASSUME NEW t \in ToSet(s) \union queue.rejected \union Hand \union Whole(recorder)
        PROVE  \/ t \in queue.rejected \union ToSet(a)
               \/ t \in ToSet(queue'.frames) \/ t \in queue'.rejected
               \/ t \in HandOf(To("fault")) \/ t \in Whole(recorder)'
    BY <1>3, <1>4, <1>5 DEF HandOf, Hand
  <1>7. Found' /\ pump'.pc = "fault" /\ pump'.armed = pump.armed /\ pump'.hand = pump.hand
    BY <1>4, <1>5, <1>6, RecorderKnown, ReleaseFound
  <1>8. HandEmpty(pump'.pc, pump'.hand)
    BY <1>7, RecorderKnown DEF PumpRejected, HandEmpty
  <1> QED
    BY <1>4, <1>7, <1>8, PumpMoves

(* take_source_rejection at the top of a turn. *)
LEMMA FoundPumpFault ==
    ASSUME MaxInFlight < MaxCompleted, HInv, Lasting, PumpFault
    PROVE  Lasting'
  <1>1. /\ routes' = routes /\ queue'.frames = queue.frames /\ queue'.rejected = queue.rejected
    BY PartsKnown DEF PumpFault, Queues
  <1>2. /\ To("completions") \in Pumps /\ To("completions").pc = "completions"
        /\ To("completions").hand = pump.hand /\ To("completions").pending = pump.pending
        /\ To("completions").armed = pump.armed
    BY PumpFacts, RecoveringFacts
  <1>3. CASE recorder' = recorder /\ pump' = To("completions")
    <2>1. Everywhere' = Everywhere
      BY <1>1, <1>2, <1>3 DEF Everywhere, Hand
    <2>2. Found'
      BY <1>1, <2>1 DEF Lasting, Found
    <2>3. HandEmpty(pump'.pc, pump'.hand)
      BY <1>2, <1>3, RecorderKnown DEF PumpFault, HandEmpty
    <2> QED
      BY <1>2, <1>3, <2>2, <2>3, PumpMoves
  <1>4. ASSUME NEW proved \in BOOLEAN, recorder' = TornDown(recorder, proved),
               pump' = Recovering(To("completions"))
        PROVE  Lasting'
    <2>1. /\ pump'.pc = "completions" /\ pump'.hand = pump.hand /\ pump'.pending = pump.pending
          /\ pump'.armed = FALSE
      BY <1>2, <1>4, RecoveringFacts
    <2>0. HandEmpty(pump'.pc, pump'.hand)
      BY <2>1, RecorderKnown DEF PumpFault, HandEmpty
    <2>2. Whole(recorder') = Whole(recorder) /\ (Found' => Lasting')
      BY <1>4, <2>0, <2>1, RecorderKnown, RecoverLasts
    <2>3. Everywhere' = Everywhere
      BY <1>1, <2>1, <2>2 DEF Everywhere, Hand
    <2>4. Found'
      BY <1>1, <2>3 DEF Lasting, Found
    <2> QED
      BY <2>2, <2>4
  <1> QED
    BY <1>3, <1>4 DEF PumpFault

(* release_runtime_completions. *)
LEMMA FoundPumpCompletions == ASSUME HInv, Lasting, PumpCompletions PROVE Lasting'
  <1>1. /\ queue' = queue /\ ReleaseAll(recorder.completed, To("wait"))
        /\ recorder'.inputs = recorder.inputs /\ recorder'.completed = {}
        /\ recorder'.pipeline = recorder.pipeline
    BY RecorderKnown DEF PumpCompletions, Recorders
  <1>2. /\ To("wait") \in Pumps /\ To("wait").pc = "wait" /\ To("wait").hand = pump.hand
        /\ To("wait").armed = pump.armed
    BY PumpFacts, RecoveringFacts
  <1>3. ASSUME NEW t \in ToSet(queue.frames) \union queue.rejected \union Hand \union Whole(recorder)
        PROVE  \/ t \in recorder.completed
               \/ t \in ToSet(queue'.frames) \/ t \in queue'.rejected
               \/ t \in HandOf(To("wait")) \/ t \in Whole(recorder)'
    BY <1>1, <1>2 DEF HandOf, Hand, Whole
  <1>4. Found' /\ pump'.pc = "wait" /\ pump'.armed = pump.armed /\ pump'.hand = pump.hand
    BY <1>1, <1>2, <1>3, RecorderKnown, ReleaseFound
  <1>5. RoomLeft(recorder', "wait")
    <2>1. IsFiniteSet({}) /\ Cardinality({}) = 0
      BY FS_EmptySet
    <2>2. /\ Len(recorder.inputs) \in Nat /\ MaxInFlight \in Nat
          /\ Cardinality(recorder.completed) \in Nat /\ Len(<<>>) = 0
      BY RecorderKnown, HandoffAssumption, FS_CardinalityType DEF Fits
    <2>3. 0 + Len(recorder.inputs) <= MaxInFlight + 1
      BY <2>2, RecorderKnown DEF Fits
    <2>4. recorder.pipeline # "stuck" => 0 + Len(recorder.inputs) <= MaxInFlight
      <3>1. recorder.pipeline \in {"none", "recording", "stuck"}
        BY RecorderKnown DEF Recorders
      <3>2. CASE recorder.pipeline = "recording"
        BY <2>2, <3>2, RecorderKnown
      <3>3. CASE recorder.pipeline = "none"
        BY <2>2, <3>3, RecorderKnown
      <3> QED
        BY <3>1, <3>2, <3>3
    <2> QED
      BY <1>1, <2>1, <2>3, <2>4, RecorderKnown DEF RoomLeft, Fits
  <1>6. Armed(recorder', "wait", pump'.armed)
    BY <1>1, <1>4, RecorderKnown DEF Armed
  <1>7. HandEmpty(pump'.pc, pump'.hand)
    BY <1>4, RecorderKnown DEF PumpCompletions, HandEmpty
  <1> QED
    BY <1>4, <1>5, <1>6, <1>7 DEF Lasting

(* wait_next. *)
LEMMA FoundPumpWait == ASSUME HInv, Lasting, PumpWait PROVE Lasting'
  <1>1. routes' = routes /\ recorder' = recorder /\ pump.pc = "wait"
    BY DEF PumpWait
  <1>2. CASE pump' = To("top") /\ queue' = queue
    <2>1. /\ pump'.pc = "top" /\ pump'.hand = pump.hand /\ pump'.pending = pump.pending
          /\ pump'.armed = pump.armed
      BY <1>2, PumpFacts, RecoveringFacts
    <2>2. Everywhere' = Everywhere
      BY <1>1, <1>2, <2>1 DEF Everywhere, Hand
    <2>3. Found'
      BY <1>1, <2>2 DEF Lasting, Found
    <2>4. HandEmpty(pump'.pc, pump'.hand)
      BY <1>1, <2>1, RecorderKnown DEF HandEmpty
    <2> QED
      BY <1>1, <2>1, <2>3, <2>4, PumpMoves
  <1>3. CASE /\ queue.frames # <<>> /\ pump' = [To("taken") EXCEPT !.hand = Head(queue.frames)]
             /\ queue' = [queue EXCEPT !.frames = Tail(queue.frames)]
    <2>1. /\ Head(queue.frames) \in Nat
          /\ ToSet(queue.frames) = {Head(queue.frames)} \union ToSet(Tail(queue.frames))
      BY <1>3, PartsKnown, TailFacts
    <2>2. /\ pump'.pc = "taken" /\ pump'.hand = Head(queue.frames)
          /\ pump'.pending = pump.pending /\ pump'.armed = pump.armed
      BY <1>3, <2>1, PumpFacts, RecoveringFacts DEF Pumps
    <2>3. queue'.frames = Tail(queue.frames) /\ queue'.rejected = queue.rejected
      BY <1>3, PartsKnown DEF Queues
    <2>4. pump'.hand # NoToken
      <3>1. Head(queue.frames) \in DOMAIN routes
        BY <2>1, PartsKnown DEF Apart
      <3> QED
        BY <2>2, <3>1 DEF HInv, Shape, RoutesFit, NoToken
    <2>5. Hand' = {Head(queue.frames)}
      BY <2>2, <2>4 DEF Hand
    <2>6. Hand = {}
      BY <1>1, RecorderKnown DEF HandEmpty, Hand
    <2>7. Everywhere' = Everywhere
      BY <1>1, <2>1, <2>2, <2>3, <2>5, <2>6 DEF Everywhere
    <2>8. Found' /\ HandEmpty(pump'.pc, pump'.hand)
      BY <1>1, <2>2, <2>7 DEF Lasting, Found, HandEmpty
    <2> QED
      BY <1>1, <2>2, <2>8, PumpMoves
  <1> QED
    BY <1>2, <1>3 DEF PumpWait

(* import_replay_export fails: the frame is acknowledged or to be retried. *)
LEMMA FoundPumpImportFails ==
    ASSUME MaxInFlight < MaxCompleted, HInv, Lasting, PumpImportFails
    PROVE  Lasting'
  <1>1. PICK sent \in SUBSET {pump.hand} :
          /\ CanSend(sent, {pump.hand}, routes) /\ Acknowledge(sent, routes, owed)
          /\ queue' = [queue EXCEPT !.rejected = @ \union ({pump.hand} \ sent)]
    BY DEF PumpImportFails
  <1>2. DOMAIN routes' = DOMAIN routes \ sent
    BY <1>1, ReleaseKeeps
  <1>3. queue'.frames = queue.frames /\ queue'.rejected = queue.rejected \union ({pump.hand} \ sent)
    BY <1>1, PartsKnown DEF Queues
  <1>4. Hand \subseteq {pump.hand}
    BY DEF Hand
  <1>5. ASSUME Whole(recorder') = Whole(recorder), pump'.pending = pump.pending PROVE Found'
    <2>1. ASSUME NEW t \in Everywhere, t \notin sent PROVE t \in Everywhere'
      BY <1>3, <1>4, <1>5, <2>1 DEF Everywhere
    <2> QED
      BY <1>2, <2>1, StillFound DEF Lasting
  <1>6. /\ Done \in Pumps /\ Done.pc = "top" /\ Done.hand = NoToken /\ Done.pending = pump.pending
        /\ Done.armed = pump.armed
    BY PumpFacts, RecoveringFacts
  <1>7. ASSUME pump' = Done, recorder' = recorder PROVE Lasting'
    <2>1. Found'
      BY <1>5, <1>6, <1>7
    <2>2. HandEmpty(pump'.pc, pump'.hand) /\ pump'.pc = "top" /\ pump'.armed = pump.armed
      BY <1>6, <1>7 DEF HandEmpty
    <2> QED
      BY <1>7, <2>1, <2>2, PumpMoves
  <1>8. ASSUME NEW proved \in BOOLEAN, recorder' = TornDown(recorder, proved),
               pump' = Recovering(Done)
        PROVE  Lasting'
    <2>1. /\ pump'.pc = "top" /\ pump'.hand = NoToken /\ pump'.pending = pump.pending
          /\ pump'.armed = FALSE
      BY <1>6, <1>8, RecoveringFacts
    <2>2. HandEmpty(pump'.pc, pump'.hand)
      BY <2>1 DEF HandEmpty
    <2>3. Whole(recorder') = Whole(recorder) /\ (Found' => Lasting')
      BY <1>8, <2>1, <2>2, RecorderKnown, RecoverLasts
    <2> QED
      BY <1>5, <2>1, <2>3
  <1> QED
    BY <1>7, <1>8 DEF PumpImportFails, Recover

(* The frame in hand is released and the recorder torn down. *)
LEMMA FoundHandTornDown ==
    ASSUME MaxInFlight < MaxCompleted, HInv, Lasting, ReleaseAll({pump.hand}, Recovering(Done)),
           queue'.frames = queue.frames, queue'.rejected = queue.rejected,
           NEW proved \in BOOLEAN, recorder' = TornDown(recorder, proved)
    PROVE  Lasting'
  <1> DEFINE next == Recovering(Done)
  <1>1. next \in Pumps /\ next.pc = "top" /\ next.hand = NoToken /\ next.armed = FALSE
    BY PumpFacts, RecoveringFacts
  <1>2. Whole(TornDown(recorder, proved)) = Whole(recorder)
    <2>1. MaxInFlight + 1 \in Nat /\ MaxInFlight + 1 <= MaxCompleted
      BY HandoffAssumption
    <2> QED
      BY <2>1, RecorderKnown, TornDownWhole
  <1>3. Hand \subseteq {pump.hand}
    BY DEF Hand
  <1>4. Whole(recorder)' = Whole(recorder)
    BY <1>2
  <1> HIDE DEF next
  <1>5. ASSUME NEW t \in ToSet(queue.frames) \union queue.rejected \union Hand \union Whole(recorder)
        PROVE  \/ t \in {pump.hand}
               \/ t \in ToSet(queue'.frames) \/ t \in queue'.rejected
               \/ t \in HandOf(next) \/ t \in Whole(recorder)'
    BY <1>3, <1>4
  <1>6. ReleaseAll({pump.hand}, next)
    BY DEF next
  <1>7. Found' /\ pump'.pc = "top" /\ pump'.armed = FALSE /\ pump'.hand = NoToken
    BY <1>1, <1>5, <1>6, RecorderKnown, ReleaseFound
  <1>8. HandEmpty(pump'.pc, pump'.hand)
    BY <1>7 DEF HandEmpty
  <1> QED
    BY <1>7, <1>8, RecorderKnown, RecoverLasts

(* The frame in hand is released and the recorder goes on. *)
LEMMA FoundHandReturned ==
    ASSUME HInv, Lasting, ReleaseAll({pump.hand}, Done),
           queue'.frames = queue.frames, queue'.rejected = queue.rejected, recorder' = recorder
    PROVE  Lasting'
  <1>1. /\ Done \in Pumps /\ Done.pc = "top" /\ Done.hand = NoToken /\ Done.armed = pump.armed
    BY PumpFacts, RecoveringFacts
  <1>2. Hand \subseteq {pump.hand}
    BY DEF Hand
  <1>3. ASSUME NEW t \in ToSet(queue.frames) \union queue.rejected \union Hand \union Whole(recorder)
        PROVE  \/ t \in {pump.hand}
               \/ t \in ToSet(queue'.frames) \/ t \in queue'.rejected
               \/ t \in HandOf(Done) \/ t \in Whole(recorder)'
    BY <1>2
  <1>4. Found' /\ pump'.pc = "top" /\ pump'.armed = pump.armed /\ pump'.hand = NoToken
    BY <1>1, <1>3, RecorderKnown, ReleaseFound
  <1>5. HandEmpty(pump'.pc, pump'.hand)
    BY <1>4 DEF HandEmpty
  <1> QED
    BY <1>4, <1>5, PumpMoves

(* What the completions leave when they are returned. *)
LEMMA EmptiedRoom ==
    ASSUME NEW r \in Recorders, NEW q \in Recorders, q.completed = {}, q.inputs = r.inputs,
           q.pipeline = r.pipeline, Fits(r, MaxInFlight + 1),
           r.pipeline = "recording" => Len(r.inputs) <= MaxInFlight,
           r.pipeline = "none" => r.inputs = <<>>, NEW pc
    PROVE  RoomLeft(q, pc)
  <1>1. IsFiniteSet({}) /\ Cardinality({}) = 0
    BY FS_EmptySet
  <1>2. /\ Len(r.inputs) \in Nat /\ MaxInFlight \in Nat /\ Cardinality(r.completed) \in Nat
        /\ Len(<<>>) = 0
    BY HandoffAssumption, FS_CardinalityType DEF Fits, Recorders
  <1>3. 0 + Len(r.inputs) <= MaxInFlight + 1
    BY <1>2 DEF Fits
  <1>4. r.pipeline # "stuck" => 0 + Len(r.inputs) <= MaxInFlight
    <2>1. r.pipeline \in {"none", "recording", "stuck"}
      BY DEF Recorders
    <2>2. CASE r.pipeline = "recording"
      BY <1>2, <2>2
    <2>3. CASE r.pipeline = "none"
      BY <1>2, <2>3
    <2> QED
      BY <2>1, <2>2, <2>3
  <1> QED
    BY <1>1, <1>3, <1>4 DEF RoomLeft, Fits

(* A frame is taken: an epoch that is over, or the backoff. *)
LEMMA FoundPumpTaken ==
    ASSUME MaxInFlight < MaxCompleted, HInv, Lasting, PumpTaken
    PROVE  Lasting'
  <1>1. queue'.frames = queue.frames /\ queue'.rejected = queue.rejected /\ pump.pc = "taken"
    BY PartsKnown DEF PumpTaken, Queues
  <1>2. ASSUME ReleaseAll({pump.hand}, Recovering(Done)), NEW proved \in BOOLEAN,
               recorder' = TornDown(recorder, proved)
        PROVE  Lasting'
    BY <1>1, <1>2, FoundHandTornDown
  <1>3. CASE ReleaseAll({pump.hand}, Done) /\ recorder' = recorder
    BY <1>1, <1>3, FoundHandReturned
  <1>4. CASE /\ ReleaseAll(recorder.completed, [To("record") EXCEPT !.cooling = FALSE])
             /\ recorder' = [recorder EXCEPT !.completed = {}]
    <2> DEFINE next == [To("record") EXCEPT !.cooling = FALSE]
    <2>1. To("record") \in Pumps /\ To("record").pc = "record" /\ To("record").hand = pump.hand
          /\ To("record").armed = pump.armed
      BY PumpFacts, RecoveringFacts
    <2>2. next \in Pumps /\ next.pc = "record" /\ next.hand = pump.hand /\ next.armed = pump.armed
      BY <2>1 DEF Pumps
    <2>3. /\ recorder' \in Recorders /\ recorder'.completed = {}
          /\ recorder'.inputs = recorder.inputs /\ recorder'.pipeline = recorder.pipeline
      BY <1>4, RecorderKnown DEF Recorders
    <2> HIDE DEF next
    <2>4. HandOf(next) = Hand
      BY <2>2 DEF HandOf, Hand
    <2>5. ASSUME NEW t \in ToSet(queue.frames) \union queue.rejected \union Hand \union Whole(recorder)
          PROVE  \/ t \in recorder.completed
                 \/ t \in ToSet(queue'.frames) \/ t \in queue'.rejected
                 \/ t \in HandOf(next) \/ t \in Whole(recorder)'
      BY <1>1, <2>3, <2>4 DEF Whole
    <2>6. ReleaseAll(recorder.completed, next)
      BY <1>4 DEF next
    <2>7. Found' /\ pump'.pc = "record" /\ pump'.armed = pump.armed /\ pump'.hand = pump.hand
      BY <2>2, <2>5, <2>6, RecorderKnown, ReleaseFound
    <2>8. PICK q \in Recorders : q = recorder'
      BY <2>3
    <2>9. RoomLeft(q, "record")
      BY <2>3, <2>8, RecorderKnown, EmptiedRoom
    <2>10. Armed(recorder', pump'.pc, pump'.armed) /\ HandEmpty(pump'.pc, pump'.hand)
      BY <2>3, <2>7, RecorderKnown DEF Armed, HandEmpty
    <2> QED
      BY <2>7, <2>8, <2>9, <2>10 DEF Lasting
  <1>5. CASE pump' = To("record") /\ routes' = routes /\ recorder' = recorder
    <2>1. /\ pump'.pc = "record" /\ pump'.hand = pump.hand /\ pump'.pending = pump.pending
          /\ pump'.armed = pump.armed
      BY <1>5, PumpFacts, RecoveringFacts
    <2>2. Everywhere' = Everywhere
      BY <1>1, <1>5, <2>1 DEF Everywhere, Hand
    <2>3. Found' /\ HandEmpty(pump'.pc, pump'.hand)
      BY <1>5, <2>1, <2>2 DEF Lasting, Found, HandEmpty
    <2> QED
      BY <1>1, <1>5, <2>1, <2>3, PumpMoves
  <1> QED
    BY <1>2, <1>3, <1>4, <1>5 DEF PumpTaken

(* start, submission, reset_backend, or a failure of one of them. *)
LEMMA FoundPumpRecord ==
    ASSUME MaxInFlight < MaxCompleted, HInv, Lasting, PumpRecord
    PROVE  Lasting'
  <1>1. queue' = queue /\ pump.pc = "record"
    BY DEF PumpRecord
  <1>2. /\ To("submit") \in Pumps /\ To("submit").pc = "submit" /\ To("submit").hand = pump.hand
        /\ To("submit").pending = pump.pending /\ To("submit").armed = pump.armed
    BY PumpFacts, RecoveringFacts
  <1>3. CASE /\ recorder.pipeline = "none" /\ routes' = routes
             /\ recorder' = [recorder EXCEPT !.pipeline = "recording"]
             /\ pump' = [To("submit") EXCEPT !.armed = TRUE]
    <2>1. /\ pump'.pc = "submit" /\ pump'.hand = pump.hand /\ pump'.pending = pump.pending
          /\ pump'.armed = TRUE
      BY <1>2, <1>3 DEF Pumps
    <2>2. /\ recorder'.pipeline = "recording" /\ recorder'.inputs = recorder.inputs
          /\ recorder'.completed = recorder.completed
      BY <1>3, RecorderKnown DEF Recorders
    <2>3. Everywhere' = Everywhere
      BY <1>1, <2>1, <2>2 DEF Everywhere, Hand, Whole
    <2>4. Found' /\ HandEmpty(pump'.pc, pump'.hand) /\ Armed(recorder', pump'.pc, pump'.armed)
      BY <1>3, <2>1, <2>2, <2>3 DEF Lasting, Found, HandEmpty, Armed
    <2>5. RoomLeft(recorder', "submit")
      <3>1. Fits(recorder, MaxInFlight) /\ recorder.inputs = <<>>
        BY <1>1, <1>3 DEF Lasting, RoomLeft
      <3>2. Len(recorder.inputs) <= MaxInFlight
        <4>1. Len(<<>>) = 0 /\ MaxInFlight \in Nat
          BY HandoffAssumption
        <4> QED
          BY <3>1, <4>1
      <3>3. Fits(recorder', MaxInFlight) /\ Fits(recorder', MaxInFlight + 1)
        BY <2>2, <3>1, RecorderKnown DEF Fits
      <3> QED
        BY <2>2, <3>2, <3>3 DEF RoomLeft
    <2> QED
      BY <2>1, <2>4, <2>5 DEF Lasting
  <1>4. CASE pump.armed /\ pump' = To("submit") /\ routes' = routes /\ recorder' = recorder
    <2>1. Everywhere' = Everywhere
      BY <1>1, <1>2, <1>4 DEF Everywhere, Hand
    <2>2. Found' /\ HandEmpty(pump'.pc, pump'.hand)
      BY <1>2, <1>4, <2>1 DEF Lasting, Found, HandEmpty
    <2> QED
      BY <1>1, <1>2, <1>4, <2>2, PumpMoves
  <1>5. CASE /\ pump.armed /\ recorder.pipeline = "recording"
             /\ recorder' = [recorder EXCEPT !.inputs = <<>>, !.completed = {}]
             /\ ReleaseAll(TornDown(recorder, TRUE).completed, To("submit"))
    <2> DEFINE more == TornDown(recorder, TRUE).completed
    <2>1. /\ recorder'.pipeline = "recording" /\ recorder'.inputs = <<>>
          /\ recorder'.completed = {}
      BY <1>5, RecorderKnown DEF Recorders
    <2>2. Whole(TornDown(recorder, TRUE)) = Whole(recorder)
      <3>1. MaxInFlight + 1 \in Nat /\ MaxInFlight + 1 <= MaxCompleted /\ TRUE \in BOOLEAN
        BY HandoffAssumption
      <3> QED
        BY <3>1, RecorderKnown, TornDownWhole
    <2>3. TornDown(recorder, TRUE).inputs = <<>>
      BY <1>5 DEF TornDown
    <2>4. more = Whole(recorder)
      BY <2>2, <2>3, EmptyFacts DEF Whole
    <2> HIDE DEF more
    <2>5. HandOf(To("submit")) = Hand
      BY <1>2 DEF HandOf, Hand
    <2>6. ASSUME NEW t \in ToSet(queue.frames) \union queue.rejected \union Hand \union Whole(recorder)
          PROVE  \/ t \in more
                 \/ t \in ToSet(queue'.frames) \/ t \in queue'.rejected
                 \/ t \in HandOf(To("submit")) \/ t \in Whole(recorder)'
      BY <1>1, <2>4, <2>5
    <2>7. ReleaseAll(more, To("submit"))
      BY <1>5 DEF more
    <2>8. Found' /\ pump'.pc = "submit" /\ pump'.armed = pump.armed /\ pump'.hand = pump.hand
      BY <1>2, <2>6, <2>7, RecorderKnown, ReleaseFound
    <2>9. HandEmpty(pump'.pc, pump'.hand) /\ Armed(recorder', pump'.pc, pump'.armed)
      BY <1>5, <2>1, <2>8 DEF HandEmpty, Armed
    <2>10. RoomLeft(recorder', "submit")
      <3>1. /\ IsFiniteSet({}) /\ Cardinality({}) = 0 /\ Len(<<>>) = 0
            /\ MaxInFlight \in Nat
        BY FS_EmptySet, HandoffAssumption
      <3>2. 0 + 0 <= MaxInFlight /\ 0 + 0 <= MaxInFlight + 1 /\ 0 <= MaxInFlight
        BY <3>1
      <3> QED
        BY <2>1, <3>1, <3>2 DEF RoomLeft, Fits
    <2> QED
      BY <2>8, <2>9, <2>10 DEF Lasting
  <1>6. ASSUME ReleaseAll({pump.hand}, Recovering(Done)), NEW proved \in BOOLEAN,
               recorder' = TornDown(recorder, proved)
        PROVE  Lasting'
    BY <1>1, <1>6, FoundHandTornDown
  <1> QED
    BY <1>3, <1>4, <1>5, <1>6 DEF PumpRecord

(* submit_frame: the recorder has the frame, whatever becomes of it. *)
LEMMA FoundSubmitted ==
    ASSUME HInv, Lasting, pump.pc = "submit", routes' = routes, queue' = queue,
           pump'.hand = NoToken, pump'.pending = pump.pending,
           Whole(recorder') = Whole(recorder) \union {pump.hand}
    PROVE  Found' /\ HandEmpty(pump'.pc, pump'.hand)
  <1>1. Hand \subseteq {pump.hand}
    BY DEF Hand
  <1>2. ASSUME NEW t \in Everywhere PROVE t \in Everywhere'
    BY <1>1 DEF Everywhere
  <1> QED
    BY <1>2 DEF Lasting, Found, HandEmpty

LEMMA FoundPumpSubmit ==
    ASSUME MaxInFlight < MaxCompleted, HInv, Lasting, PumpSubmit
    PROVE  Lasting'
  <1> DEFINE t == pump.hand
  <1>1. routes' = routes /\ queue' = queue /\ pump.pc = "submit"
    BY DEF PumpSubmit
  <1>2. /\ recorder.pipeline = "recording" /\ Fits(recorder, MaxInFlight)
    BY <1>1 DEF Lasting, RoomLeft, Armed
  <1>3. t \in Nat /\ t \notin ToSet(recorder.inputs) /\ t \notin recorder.completed
    <2>1. t # NoToken /\ t \in Nat
      BY <1>1, PartsKnown DEF HandFull, Pumps
    <2>2. t \in Hand
      BY <2>1 DEF Hand
    <2> QED
      BY <2>1, <2>2, PartsKnown DEF Apart
  <1>4. MaxInFlight \in Nat /\ MaxCompleted \in Nat /\ Len(recorder.inputs) \in Nat
    BY HandoffAssumption, RecorderKnown
  <1>5. /\ Done \in Pumps /\ Done.pc = "top" /\ Done.hand = NoToken /\ Done.pending = pump.pending
    BY PumpFacts
  <1>6. /\ Recovering(Done).pc = "top" /\ Recovering(Done).hand = NoToken
        /\ Recovering(Done).pending = pump.pending /\ Recovering(Done).armed = FALSE
    BY <1>5, RecoveringFacts
  <1>7. ASSUME NEW n \in 0 .. Len(recorder.inputs) + 1, EncodeFits(recorder, n),
               recorder' = Encoded(recorder, t, n),
               pump' = [To("return") EXCEPT !.hand = NoToken]
        PROVE  Lasting'
    <2>1. /\ Whole(Encoded(recorder, t, n)) = Whole(recorder) \union {t}
          /\ Fits(Encoded(recorder, t, n), MaxInFlight + 1)
          /\ Encoded(recorder, t, n).pipeline = recorder.pipeline
          /\ Len(Encoded(recorder, t, n).inputs) = Len(recorder.inputs) + 1 - n
      BY <1>2, <1>3, RecorderKnown, EncodedWhole
    <2>2. /\ To("return") \in Pumps /\ To("return").pc = "return"
          /\ To("return").pending = pump.pending /\ To("return").armed = pump.armed
      BY PumpFacts, RecoveringFacts
    <2>3. /\ pump'.pc = "return" /\ pump'.hand = NoToken /\ pump'.pending = pump.pending
          /\ pump'.armed = pump.armed
      BY <1>7, <2>2 DEF Pumps
    <2>4. Found' /\ HandEmpty(pump'.pc, pump'.hand)
      BY <1>1, <1>7, <2>1, <2>3, FoundSubmitted
    <2>5. Len(Encoded(recorder, t, n).inputs) <= MaxInFlight
      BY <1>7, <2>1 DEF EncodeFits
    <2>6. RoomLeft(recorder', "return") /\ Armed(recorder', "return", pump'.armed)
      BY <1>2, <1>7, <2>1, <2>5 DEF RoomLeft, Armed
    <2> QED
      BY <2>3, <2>4, <2>6 DEF Lasting
  <1>8. ASSUME NEW r \in Recorders, IsInjective(r.inputs), Fits(r, MaxInFlight + 1),
               r.pipeline = "recording", Whole(r) = Whole(recorder) \union {t},
               NEW proved \in BOOLEAN, recorder' = TornDown(r, proved), pump' = Recovering(Done)
        PROVE  Lasting'
    <2>1. /\ pump'.pc = "top" /\ pump'.hand = NoToken /\ pump'.pending = pump.pending
          /\ pump'.armed = FALSE
      BY <1>6, <1>8
    <2>2. HandEmpty(pump'.pc, pump'.hand)
      BY <2>1 DEF HandEmpty
    <2>3. Whole(recorder') = Whole(r) /\ (Found' => Lasting')
      BY <1>8, <2>1, <2>2, RecoverLasts
    <2>4. Whole(recorder') = Whole(recorder) \union {pump.hand}
      BY <1>8, <2>3
    <2>5. Found'
      BY <1>1, <2>1, <2>4, FoundSubmitted
    <2> QED
      BY <2>3, <2>5
  <1>9. ASSUME NEW n \in 0 .. Len(recorder.inputs) + 1, NEW proved \in BOOLEAN,
               recorder' = TornDown(Encoded(recorder, t, n), proved), pump' = Recovering(Done)
        PROVE  Lasting'
    <2>1. /\ Whole(Encoded(recorder, t, n)) = Whole(recorder) \union {t}
          /\ Fits(Encoded(recorder, t, n), MaxInFlight + 1)
          /\ Encoded(recorder, t, n).pipeline = recorder.pipeline
      BY <1>2, <1>3, RecorderKnown, EncodedWhole
    <2>2. Encoded(recorder, t, n) \in Recorders /\ IsInjective(Encoded(recorder, t, n).inputs)
      <3>1. /\ recorder.completed \subseteq recorder.completed
            /\ \A u \in ToSet(recorder.inputs) : u \notin recorder.completed
            /\ Keeps(recorder, ToSet(recorder.inputs), recorder.completed)
        BY PartsKnown DEF Apart
      <3>2. Keeps(Encoded(recorder, t, n), ToSet(recorder.inputs) \union {t}, recorder.completed)
        BY <1>3, <1>9, <3>1, EncodedKeeps
      <3> QED
        BY <3>2 DEF Keeps
    <2> QED
      BY <1>2, <1>8, <1>9, <2>1, <2>2
  <1>10. ASSUME NEW proved \in BOOLEAN, pump' = Recovering(Done),
                recorder' = TornDown([recorder EXCEPT !.inputs = Append(@, t)], proved)
         PROVE  Lasting'
    <2>1. PICK r : r = [recorder EXCEPT !.inputs = Append(recorder.inputs, t)]
      OBVIOUS
    <2>2. /\ Append(recorder.inputs, t) \in Seq(Nat)
          /\ ToSet(Append(recorder.inputs, t)) = ToSet(recorder.inputs) \union {t}
          /\ IsInjective(Append(recorder.inputs, t))
          /\ Len(Append(recorder.inputs, t)) = Len(recorder.inputs) + 1
      BY <1>3, RecorderKnown, AppendFacts
    <2>3. /\ r \in Recorders /\ r.inputs = Append(recorder.inputs, t)
          /\ r.completed = recorder.completed /\ r.pipeline = recorder.pipeline
      BY <2>1, <2>2, RecorderKnown DEF Recorders
    <2>4. Whole(r) = Whole(recorder) \union {t}
      BY <2>2, <2>3 DEF Whole
    <2>5. Fits(r, MaxInFlight + 1)
      <3>1. IsFiniteSet(recorder.completed) /\ Cardinality(recorder.completed) \in Nat
        BY <1>2, FS_CardinalityType DEF Fits
      <3>2. Cardinality(recorder.completed) + Len(r.inputs) <= MaxInFlight + 1
        BY <1>2, <1>4, <2>2, <2>3, <3>1 DEF Fits
      <3> QED
        BY <2>3, <3>1, <3>2 DEF Fits
    <2>6. recorder' = TornDown(r, proved)
      BY <1>10, <2>1
    <2> QED
      BY <1>2, <1>8, <1>10, <2>2, <2>3, <2>4, <2>5, <2>6
  <1> QED
    BY <1>2, <1>7, <1>9, <1>10 DEF PumpSubmit

(* release_runtime_completions after a submission. *)
LEMMA FoundPumpReturn ==
    ASSUME MaxInFlight < MaxCompleted, HInv, Lasting, PumpReturn
    PROVE  Lasting'
  <1> DEFINE all == pump.pending \union recorder.completed
  <1>1. PICK r : r = [recorder EXCEPT !.completed = {}]
    OBVIOUS
  <1>2. PICK sent \in SUBSET all, proved \in BOOLEAN :
          /\ CanSend(sent, all, routes) /\ Acknowledge(sent, routes, owed)
          /\ IF all \subseteq sent
             THEN recorder' = r /\ pump' = [Done EXCEPT !.pending = {}]
             ELSE /\ recorder' = TornDown(r, proved)
                  /\ pump' = [Recovering(Done) EXCEPT !.pending = all \ sent]
    BY <1>1 DEF PumpReturn
  <1>3. queue' = queue /\ pump.pc = "return"
    BY DEF PumpReturn
  <1>4. DOMAIN routes' = DOMAIN routes \ sent
    BY <1>2, ReleaseKeeps
  <1>5. /\ r \in Recorders /\ r.completed = {} /\ r.inputs = recorder.inputs
        /\ r.pipeline = recorder.pipeline /\ IsInjective(r.inputs)
    BY <1>1, RecorderKnown DEF Recorders
  <1>6. Hand = {}
    BY <1>3, RecorderKnown DEF HandEmpty, Hand
  <1>7. /\ Done \in Pumps /\ Done.pc = "top" /\ Done.hand = NoToken /\ Done.armed = pump.armed
        /\ Recovering(Done) \in Pumps /\ Recovering(Done).pc = "top"
        /\ Recovering(Done).hand = NoToken /\ Recovering(Done).armed = FALSE
    BY PumpFacts, RecoveringFacts
  <1>8. \A c : RoomLeft(r, c)
    BY <1>5, RecorderKnown, EmptiedRoom
  <1>9. ASSUME Whole(recorder') = Whole(r), pump'.pending = all \ sent PROVE Found'
    <2>1. ASSUME NEW u \in Everywhere, u \notin sent PROVE u \in Everywhere'
      BY <1>3, <1>5, <1>6, <1>9, <2>1 DEF Everywhere, Whole
    <2> QED
      BY <1>4, <2>1, RecorderKnown, StillFound
  <1>10. CASE recorder' = r /\ pump' = [Done EXCEPT !.pending = {}] /\ all \subseteq sent
    <2>1. /\ pump'.pc = "top" /\ pump'.hand = NoToken /\ pump'.armed = pump.armed
          /\ pump'.pending = {}
      BY <1>7, <1>10 DEF Pumps
    <2>2. pump'.pending = all \ sent
      BY <1>10, <2>1
    <2>3. Found' /\ HandEmpty(pump'.pc, pump'.hand)
      BY <1>9, <1>10, <2>1, <2>2 DEF HandEmpty
    <2>4. RoomLeft(recorder', pump'.pc) /\ Armed(recorder', pump'.pc, pump'.armed)
      BY <1>5, <1>8, <1>10, <2>1, RecorderKnown DEF Armed
    <2> QED
      BY <2>3, <2>4 DEF Lasting
  <1>11. CASE /\ recorder' = TornDown(r, proved)
              /\ pump' = [Recovering(Done) EXCEPT !.pending = all \ sent]
    <2>1. /\ pump'.pc = "top" /\ pump'.hand = NoToken /\ pump'.armed = FALSE
          /\ pump'.pending = all \ sent
      BY <1>7, <1>11 DEF Pumps
    <2>2. HandEmpty(pump'.pc, pump'.hand)
      BY <2>1 DEF HandEmpty
    <2>3. Fits(r, MaxInFlight + 1) /\ (r.pipeline = "none" => r.inputs = <<>>)
      BY <1>5, <1>8, RecorderKnown DEF RoomLeft
    <2>4. Whole(recorder') = Whole(r) /\ (Found' => Lasting')
      BY <1>5, <1>11, <2>1, <2>2, <2>3, RecoverLasts
    <2> QED
      BY <1>9, <2>1, <2>4
  <1> QED
    BY <1>2, <1>10, <1>11

(* An early frame is returned. *)
LEMMA FoundPumpEarly == ASSUME HInv, Lasting, PumpEarly PROVE Lasting'
  BY FoundHandReturned DEF PumpEarly

(* A save that drains the encoder. *)
LEMMA FoundSave ==
    ASSUME MaxInFlight < MaxCompleted, SaveFails = FALSE, HInv, Lasting, Save
    PROVE  Lasting'
  <1> DEFINE c == Completed(recorder, recorder.inputs)
  <1>1. /\ recorder.pipeline = "recording" /\ routes' = routes /\ queue' = queue /\ pump' = pump
        /\ recorder' = [recorder EXCEPT !.inputs = <<>>, !.completed = c]
    BY DEF Save
  <1>2. recorder'.pipeline = "recording" /\ recorder'.inputs = <<>> /\ recorder'.completed = c
    BY <1>1, RecorderKnown DEF Recorders
  <1>3. /\ MaxInFlight \in Nat /\ MaxCompleted \in Nat /\ Len(recorder.inputs) \in Nat
        /\ IsFiniteSet(recorder.completed) /\ Cardinality(recorder.completed) \in Nat
        /\ Cardinality(recorder.completed) + Len(recorder.inputs) <= MaxInFlight + 1
        /\ Len(<<>>) = 0
    BY HandoffAssumption, RecorderKnown, FS_CardinalityType DEF Fits
  <1>4. /\ c = recorder.completed \union ToSet(recorder.inputs) /\ IsFiniteSet(c)
        /\ Cardinality(c) <= Cardinality(recorder.completed) + Len(recorder.inputs)
    <2>1. Cardinality(recorder.completed) + Len(recorder.inputs) <= MaxCompleted
      BY <1>3
    <2> QED
      BY <1>3, <2>1, RecorderKnown, CompletedWhole
  <1>5. Whole(recorder') = Whole(recorder)
    BY <1>2, <1>4, EmptyFacts DEF Whole
  <1>6. Everywhere' = Everywhere
    BY <1>1, <1>5 DEF Everywhere, Hand
  <1>7. Found' /\ HandEmpty(pump'.pc, pump'.hand) /\ Armed(recorder', pump'.pc, pump'.armed)
    BY <1>1, <1>2, <1>6 DEF Lasting, Found, Armed
  <1> HIDE DEF c
  <1>8. Cardinality(c) \in Nat
    BY <1>4, FS_CardinalityType
  <1>9. ASSUME NEW k \in Nat, Fits(recorder, k) PROVE Fits(recorder', k)
    <2>1. Cardinality(c) + 0 <= k
      BY <1>3, <1>4, <1>8, <1>9 DEF Fits
    <2> QED
      BY <1>2, <1>3, <1>4, <2>1 DEF Fits
  <1>10. Fits(recorder', MaxInFlight + 1)
    <2>1. MaxInFlight + 1 \in Nat
      BY <1>3
    <2> QED
      BY <1>9, <2>1, RecorderKnown
  <1>11. pump'.pc \in {"wait", "taken", "record", "submit"} => Fits(recorder', MaxInFlight)
    BY <1>1, <1>3, <1>9 DEF Lasting, RoomLeft
  <1>12. Len(recorder'.inputs) <= MaxInFlight
    BY <1>2, <1>3
  <1>13. RoomLeft(recorder', pump'.pc)
    BY <1>2, <1>10, <1>11, <1>12 DEF RoomLeft
  <1> QED
    BY <1>7, <1>13 DEF Lasting

(* ReplaySourceRejected: what leaves the queue is with the rejected. *)
LEMMA FoundSourceRejected ==
    ASSUME HInv, Lasting, NEW p \in Producers, SourceRejected(p)
    PROVE  Lasting'
  <1> DEFINE s == queue.frames
             kept == Cardinality(queue.rejected)
             room == IF kept < RouteCapacity THEN RouteCapacity - kept ELSE 0
             moved == IF Len(s) < room THEN Len(s) ELSE room
             a == SubSeq(s, 1, moved)
             b == SubSeq(s, moved + 1, Len(s))
  <1>1. s \in Seq(Nat) /\ Len(s) \in Nat /\ queue' \in Queues
    BY PartsKnown, KeptSourceRejected DEF HInv, Shape
  <1>2. kept \in Nat /\ RouteCapacity \in Nat
    <2>1. IsFiniteSet(queue.rejected)
      <3>1. nextToken \in Nat /\ DOMAIN routes \subseteq 1 .. (nextToken - 1)
        BY DEF HInv, Shape, RoutesFit
      <3>2. IsFiniteSet(1 .. (nextToken - 1))
        BY <3>1, FS_Interval
      <3>3. queue.rejected \subseteq 1 .. (nextToken - 1)
        BY <3>1, PartsKnown DEF Apart
      <3> QED
        BY <3>2, <3>3, FS_Subset
    <2> QED
      BY <2>1, FS_CardinalityType, HandoffAssumption
  <1>3. moved \in 0 .. Len(s)
    <2> HIDE DEF kept
    <2> QED
      BY <1>1, <1>2
  <1>4. /\ queue'.frames = b /\ queue'.rejected = queue.rejected \union ToSet(a)
        /\ routes' = routes /\ pump' = pump /\ recorder' = recorder
    BY DEF SourceRejected
  <1>5. ToSet(a) \union ToSet(b) = ToSet(s)
    <2> HIDE DEF moved
    <2> QED
      BY <1>1, <1>3, SplitWhole
  <1> HIDE DEF a, b
  <1>6. Everywhere' = Everywhere
    BY <1>4, <1>5 DEF Everywhere, Hand
  <1>7. Found'
    BY <1>4, <1>6 DEF Lasting, Found
  <1> QED
    BY <1>4, <1>7, LastingStill

(* Goodbye, a lost descriptor, and stuttering. *)
LEMMA FoundStill ==
    ASSUME Lasting, routes' = routes, queue' = queue, pump' = pump, recorder' = recorder
    PROVE  Lasting'
  BY LastingStill DEF Lasting, Found, Everywhere, Hand

(* Hello returns the queued frames, or keeps them for a retry. *)
LEMMA FoundHello ==
    ASSUME HInv, Lasting, NEW p \in Producers, Hello(p)
    PROVE  Lasting'
  <1>1. pump' = pump /\ recorder' = recorder
    BY DEF Hello
  <1>2. CASE routes' = routes /\ queue' = queue
    BY <1>1, <1>2, FoundStill
  <1>3. ASSUME NEW sent \in SUBSET ToSet(queue.frames),
               CanSend(sent, ToSet(queue.frames), routes), Acknowledge(sent, routes, owed),
               queue' = [queue EXCEPT !.frames = <<>>,
                           !.rejected = @ \union (ToSet(queue.frames) \ sent)]
        PROVE  Lasting'
    <2>1. DOMAIN routes' = DOMAIN routes \ sent
      BY <1>3, ReleaseKeeps
    <2>2. queue'.rejected = queue.rejected \union (ToSet(queue.frames) \ sent)
      BY <1>3, PartsKnown DEF Queues
    <2>3. ASSUME NEW t \in Everywhere, t \notin sent PROVE t \in Everywhere'
      BY <1>1, <2>2, <2>3 DEF Everywhere, Hand
    <2>4. Found'
      BY <2>1, <2>3, StillFound DEF Lasting
    <2> QED
      BY <1>1, <2>4, LastingStill
  <1> QED
    BY <1>2, <1>3 DEF Hello

(* An exported frame is queued, acknowledged, or kept for a retry; so is the
   one it pushes out of the queue. *)
LEMMA FoundExport ==
    ASSUME HInv, Lasting, NEW p \in Producers, NEW idle \in BOOLEAN, NEW valid \in BOOLEAN,
           Export(p, idle, valid)
    PROVE  Lasting'
  <1> DEFINE w == wire[p] + 1
             token == nextToken
             s == queue.frames
             full == Len(s) = QueueCapacity
             queued == Select(SocketOf(p), w, idle).ok /\ valid /\ capture.phase = "capturing"
             back == IF queued THEN IF full THEN {Head(s)} ELSE {} ELSE {token}
             frames == IF queued THEN Append(IF full THEN Tail(s) ELSE s, token) ELSE s
  <1>1. pump' = pump /\ recorder' = recorder
    BY DEF Export
  <1>2. PICK sent \in SUBSET back :
          /\ Acknowledge(sent, WithRoute(p, w), [owed EXCEPT ![p] = @ \union {w}])
          /\ queue' = [queue EXCEPT !.frames = frames,
                         !.releaseOnly = IF queued /\ full /\ @ > 0 THEN @ - 1 ELSE @,
                         !.rejected = @ \union (back \ sent)]
    BY DEF Export
  <1>3. token \in Nat /\ s \in Seq(Nat) /\ queue \in Queues /\ Len(s) \in Nat
    BY PartsKnown DEF HInv, Shape
  <1>4. DOMAIN routes' = (DOMAIN routes \union {token}) \ sent
    BY <1>2 DEF Acknowledge, Drop, WithRoute
  <1>5. ASSUME NEW t, t \in ToSet(s) \union {token} PROVE t \in ToSet(frames) \/ t \in back
    <2>1. CASE ~queued
      BY <1>5, <2>1
    <2>2. CASE queued /\ ~full
      <3>1. ToSet(Append(s, token)) = ToSet(s) \union {token}
        BY <1>3, AppendFacts
      <3> QED
        BY <1>5, <2>2, <3>1
    <2>3. CASE queued /\ full
      <3>1. s # <<>>
        <4>1. Len(<<>>) = 0 /\ QueueCapacity # 0
          BY HandoffAssumption
        <4> QED
          BY <2>3, <4>1
      <3>2. Tail(s) \in Seq(Nat) /\ ToSet(s) = {Head(s)} \union ToSet(Tail(s))
        BY <1>3, <3>1, TailFacts
      <3>3. ToSet(Append(Tail(s), token)) = ToSet(Tail(s)) \union {token}
        BY <1>3, <3>2, AppendFacts
      <3> QED
        BY <1>5, <2>3, <3>2, <3>3
    <2> QED
      BY <2>1, <2>2, <2>3
  <1>6. queue'.frames = frames /\ queue'.rejected = queue.rejected \union (back \ sent)
    <2> HIDE DEF frames, back, queued, full
    <2> QED
      BY <1>2, <1>3 DEF Queues
  <1> HIDE DEF frames, back, queued, full
  <1>7. Found'
    <2>1. ASSUME NEW t \in DOMAIN routes' PROVE t \in Everywhere'
      <3>1. t \notin sent /\ (t \in DOMAIN routes \/ t = token)
        BY <1>4
      <3>2. CASE t \in ToSet(s) \/ t = token
        <4>1. t \in ToSet(frames) \/ t \in back
          BY <1>5, <3>2
        <4> QED
          BY <1>6, <3>1, <4>1 DEF Everywhere
      <3>3. CASE t \in DOMAIN routes /\ t \notin ToSet(s)
        <4>1. t \in Everywhere
          BY <3>3 DEF Lasting, Found
        <4> QED
          BY <1>1, <1>6, <3>3, <4>1 DEF Everywhere, Hand
      <3> QED
        BY <3>1, <3>2, <3>3
    <2> QED
      BY <2>1 DEF Found
  <1> QED
    BY <1>1, <1>7, LastingStill

(* A step of any action that does not stop the pump. *)
LEMMA LastingStep ==
    ASSUME MaxInFlight < MaxCompleted, SaveFails = FALSE, HInv, Lasting, [Next]_vars, ~PumpStop
    PROVE  Lasting'
  <1>1. CASE UNCHANGED vars
    BY <1>1, FoundStill DEF vars
  <1>2. ASSUME NEW p \in Producers, Hello(p) \/ SourceRejected(p) PROVE Lasting'
    BY <1>2, FoundHello, FoundSourceRejected
  <1>3. ASSUME NEW p \in Producers, ExportRefused(p) PROVE Lasting'
    BY <1>3, FoundStill DEF ExportRefused
  <1>4. ASSUME NEW p \in Producers, NEW dies \in BOOLEAN, Goodbye(p, dies) PROVE Lasting'
    BY <1>4, FoundStill DEF Goodbye
  <1>5. ASSUME NEW p \in Producers, NEW idle \in BOOLEAN, NEW valid \in BOOLEAN,
               Export(p, idle, valid)
        PROVE  Lasting'
    BY <1>5, FoundExport
  <1>6. CASE Save
    BY <1>6, FoundSave
  <1>7. CASE Pump
    BY <1>7, FoundPumpRejected, FoundPumpFault, FoundPumpCompletions, FoundPumpWait,
       FoundPumpImportFails, FoundPumpTaken, FoundPumpRecord, FoundPumpSubmit, FoundPumpReturn,
       FoundPumpEarly DEF Pump
  <1> QED
    BY <1>1, <1>2, <1>3, <1>4, <1>5, <1>6, <1>7 DEF Next

(* A pump that is stopped stays so: no step leaves that place. *)
LEMMA StoppedStays == ASSUME [Next]_vars, pump'.pc # "stopped" PROVE pump.pc # "stopped"
  <1>1. CASE UNCHANGED vars \/ Save
    BY <1>1 DEF vars, Save
  <1>2. ASSUME NEW p \in Producers, NEW b \in BOOLEAN, NEW c \in BOOLEAN,
               \/ Hello(p) \/ SourceRejected(p) \/ ExportRefused(p) \/ Goodbye(p, b)
               \/ Export(p, b, c)
        PROVE  pump.pc # "stopped"
    BY <1>2 DEF Hello, SourceRejected, ExportRefused, Goodbye, Export, TakesMessages
  <1>3. CASE Pump
    BY <1>3 DEF Pump, PumpRejected, PumpFault, PumpCompletions, PumpWait, PumpImportFails,
                PumpTaken, PumpRecord, PumpSubmit, PumpReturn, PumpEarly
  <1>4. CASE PumpStop
    BY <1>4 DEF PumpStop
  <1> QED
    BY <1>1, <1>2, <1>3, <1>4 DEF Next

LEMMA StopStops == ASSUME HInv, PumpStop PROVE pump'.pc = "stopped"
  <1>1. To("stopped") \in Pumps /\ To("stopped").pc = "stopped"
    BY PumpFacts
  <1>2. \E left : pump' = [To("stopped") EXCEPT !.pending = left]
    BY DEF PumpStop
  <1> QED
    BY <1>1, <1>2 DEF Pumps

LEMMA LastingInit == ASSUME Init PROVE Lasting
  <1>1. /\ DOMAIN routes = {} /\ pump.pc = "top" /\ pump.armed = FALSE /\ pump.hand = NoToken
        /\ recorder.pipeline = "none" /\ recorder.inputs = <<>> /\ recorder.completed = {}
    BY DEF Init
  <1>2. /\ IsFiniteSet({}) /\ Cardinality({}) = 0 /\ Len(<<>>) = 0 /\ MaxInFlight \in Nat
    BY FS_EmptySet, HandoffAssumption
  <1>3. 0 + 0 <= MaxInFlight + 1
    BY <1>2
  <1>4. RoomLeft(recorder, pump.pc)
    BY <1>1, <1>2, <1>3 DEF RoomLeft, Fits
  <1>5. Found /\ Armed(recorder, pump.pc, pump.armed) /\ HandEmpty(pump.pc, pump.hand)
    BY <1>1 DEF Found, Armed, HandEmpty
  <1> QED
    BY <1>4, <1>5 DEF Lasting

(* While the pump runs, every leased frame is somewhere from which its
   acknowledgement is still tried, through any failures of the recorder, of
   imports and of acknowledgements, as long as no save fails in the encoder and
   the completion queues hold more than may be in flight, as in the code: 4 and 8
   ("releases producer ownership of every in-flight export", game_session.rs;
   enqueue_completed, shutdown_backend, release_sequences). *)
THEOREM LeaseFoundCorrect ==
    ASSUME SaveFails = FALSE, MaxInFlight < MaxCompleted
    PROVE  Spec => []NoLeaseLost
<1>1. Init => LInv
  BY HandoffInit, LastingInit DEF LInv
<1>2. LInv /\ [Next]_vars => LInv'
  <2> SUFFICES ASSUME LInv, [Next]_vars PROVE LInv'
    OBVIOUS
  <2>1. HInv /\ HInv'
    BY HandoffStep DEF LInv
  <2>2. ASSUME pump'.pc # "stopped" PROVE Lasting'
    <3>1. Lasting
      BY <2>2, StoppedStays DEF LInv
    <3>2. ~PumpStop
      BY <2>1, <2>2, StopStops
    <3> QED
      BY <2>1, <3>1, <3>2, LastingStep
  <2> QED
    BY <2>1, <2>2 DEF LInv
<1>3. LInv => NoLeaseLost
  <2> SUFFICES ASSUME LInv, pump.pc # "stopped" PROVE DOMAIN routes \subseteq Held
    BY DEF NoLeaseLost
  <2> DEFINE F == ToSet(queue.frames)
             R == queue.rejected
             P == pump.pending
             I == ToSet(recorder.inputs)
             C == recorder.completed
  <2>1. DOMAIN routes \subseteq F \union R \union P \union Hand \union (I \union C)
    BY DEF LInv, Lasting, Found, Everywhere, Whole
  <2>2. Places = <<F, R, P, Hand, I, C>>
    BY DEF Places
  <2> HIDE DEF F, R, P, I, C
  <2>3. ToSet(Places) = {F, R, P, Hand, I, C}
    <3>1. DOMAIN <<F, R, P, Hand, I, C>> = {1, 2, 3, 4, 5, 6}
      OBVIOUS
    <3> QED
      BY <2>2, <3>1 DEF ToSet
  <2> QED
    BY <2>1, <2>3 DEF Held
<1> QED
  BY <1>1, <1>2, <1>3, PTL DEF Spec

-------------------------------------------------------------------------------
(* The bounds of the state.                                                *)

Selectors == [selected : Sockets \union {NoSocket}, last : Nat,
              exports : [Sockets -> Nat], seen : [Sockets -> Nat]]

(* The encoder reads no more than may be in flight and the one it is given. *)
RecorderFits(r) ==
    /\ Len(r.inputs) <= MaxInFlight + 1
    /\ r.pipeline = "recording" => Len(r.inputs) <= MaxInFlight
    /\ r.pipeline = "none" => r.inputs = <<>>
    /\ IsFiniteSet(r.completed) /\ Cardinality(r.completed) <= MaxCompleted

ProducersFit ==
    /\ wire \in [Producers -> 0 .. MaxWire] /\ lost \in [Producers -> SUBSET (1 .. MaxWire)]
    /\ device \in [Producers -> 0 .. MaxDevices]
    /\ \A p \in Producers : life[p] = "up" => device[p] >= 1

ReceiverFits ==
    /\ capture \in [phase : {"armed", "capturing", "completed"}, owner : Producers \union {NoProducer}]
    /\ selector \in Selectors
    /\ Len(queue.frames) <= QueueCapacity

(* The inductive invariant of the types. *)
TInv == HInv /\ ProducersFit /\ ReceiverFits /\ RecorderFits(recorder)

(* enqueue_completed is bounded. *)
LEMMA CompletedFits ==
    ASSUME NEW r \in Recorders, NEW done \in Seq(Nat), IsInjective(done), RecorderFits(r)
    PROVE  /\ IsFiniteSet(Completed(r, done)) /\ Cardinality(Completed(r, done)) <= MaxCompleted
  <1>1. CASE Cardinality(r.completed) + Len(done) > MaxCompleted
    BY <1>1 DEF Completed, RecorderFits
  <1>2. CASE ~(Cardinality(r.completed) + Len(done) > MaxCompleted)
    <2>1. MaxCompleted \in Nat /\ Cardinality(r.completed) \in Nat /\ Len(done) \in Nat
      BY HandoffAssumption, FS_CardinalityType DEF RecorderFits
    <2>2. Cardinality(r.completed) + Len(done) <= MaxCompleted
      BY <1>2, <2>1
    <2>3. /\ IsFiniteSet(Completed(r, done))
          /\ Cardinality(Completed(r, done)) <= Cardinality(r.completed) + Len(done)
      BY <2>2, CompletedWhole DEF RecorderFits
    <2>4. Cardinality(Completed(r, done)) \in Nat
      BY <2>3, FS_CardinalityType
    <2> QED
      BY <2>1, <2>2, <2>3, <2>4
  <1> QED
    BY <1>1, <1>2

(* shutdown_backend, with one input more than may be in flight. *)
LEMMA TornDownFits ==
    ASSUME NEW r \in Recorders, IsInjective(r.inputs), NEW proved \in BOOLEAN,
           Len(r.inputs) <= MaxInFlight + 1, IsFiniteSet(r.completed),
           Cardinality(r.completed) <= MaxCompleted
    PROVE  RecorderFits(TornDown(r, proved)) \/ TornDown(r, proved) = r
  <1>1. r.inputs \in Seq(Nat) /\ Len(r.inputs) \in Nat /\ MaxCompleted \in Nat /\ MaxInFlight \in Nat
    BY HandoffAssumption DEF Recorders
  <1>2. CASE r.pipeline # "recording"
    BY <1>2 DEF TornDown
  <1>3. CASE r.pipeline = "recording" /\ ~proved
    <2>1. TornDown(r, proved) = [r EXCEPT !.pipeline = "stuck"]
      BY <1>3 DEF TornDown
    <2>2. /\ TornDown(r, proved).inputs = r.inputs /\ TornDown(r, proved).completed = r.completed
          /\ TornDown(r, proved).pipeline = "stuck"
      BY <2>1 DEF Recorders
    <2> QED
      BY <2>2 DEF RecorderFits
  <1>4. CASE r.pipeline = "recording" /\ proved
    <2> DEFINE m == IF Len(r.inputs) < MaxCompleted THEN Len(r.inputs) ELSE MaxCompleted
               done == SubSeq(r.inputs, 1, m)
               q == [r EXCEPT !.inputs = <<>>]
    <2>1. TornDown(r, proved) = [pipeline |-> "none", inputs |-> <<>>, completed |-> Completed(r, done)]
      BY <1>4 DEF TornDown
    <2>2. m \in 0 .. Len(r.inputs)
      BY <1>1
    <2> HIDE DEF m
    <2>3. done \in Seq(Nat) /\ IsInjective(done)
      BY <1>1, <2>2, SplitFacts, SplitWhole
    <2>4. q \in Recorders /\ q.inputs = <<>> /\ q.completed = r.completed
      BY EmptyFacts DEF Recorders
    <2>5. Len(<<>>) = 0 /\ 0 <= MaxInFlight /\ 0 <= MaxInFlight + 1
      BY <1>1
    <2>6. RecorderFits(q)
      BY <2>4, <2>5 DEF RecorderFits
    <2>7. Completed(q, done) = Completed(r, done)
      BY <2>4 DEF Completed
    <2> HIDE DEF done, q
    <2>8. IsFiniteSet(Completed(r, done)) /\ Cardinality(Completed(r, done)) <= MaxCompleted
      BY <2>3, <2>4, <2>6, <2>7, CompletedFits
    <2>9. /\ TornDown(r, proved).inputs = <<>> /\ TornDown(r, proved).pipeline = "none"
          /\ TornDown(r, proved).completed = Completed(r, done)
      BY <2>1
    <2> QED
      BY <2>5, <2>8, <2>9 DEF RecorderFits
  <1> QED
    BY <1>2, <1>3, <1>4

(* The recorder after any step. *)
LEMMA RecorderStep ==
    ASSUME HInv, RecorderFits(recorder), [Next]_vars
    PROVE  RecorderFits(recorder')
  <1>1. /\ recorder \in Recorders /\ IsInjective(recorder.inputs) /\ recorder.inputs \in Seq(Nat)
    BY PartsKnown DEF Keeps, Recorders
  <1>2. /\ MaxInFlight \in Nat /\ MaxCompleted \in Nat /\ Len(recorder.inputs) \in Nat
        /\ Len(<<>>) = 0 /\ 0 <= MaxInFlight /\ 0 <= MaxInFlight + 1
        /\ IsFiniteSet({}) /\ Cardinality({}) = 0 /\ 0 <= MaxCompleted
    BY <1>1, HandoffAssumption, FS_EmptySet
  <1>3. ASSUME NEW r \in Recorders, IsInjective(r.inputs), RecorderFits(r), NEW proved \in BOOLEAN,
               recorder' = TornDown(r, proved)
        PROVE  RecorderFits(recorder')
    <2>1. RecorderFits(TornDown(r, proved)) \/ TornDown(r, proved) = r
      BY <1>3, TornDownFits DEF RecorderFits
    <2> QED
      BY <1>3, <2>1
  <1>4. ASSUME recorder' = [recorder EXCEPT !.completed = {}] PROVE RecorderFits(recorder')
    <2>1. /\ recorder'.inputs = recorder.inputs /\ recorder'.completed = {}
          /\ recorder'.pipeline = recorder.pipeline
      BY <1>1, <1>4 DEF Recorders
    <2> QED
      BY <1>2, <2>1 DEF RecorderFits
  <1>5. ASSUME NEW r \in Recorders, IsInjective(r.inputs), Len(r.inputs) <= MaxInFlight + 1,
               r.pipeline = "recording", IsFiniteSet(r.completed),
               Cardinality(r.completed) <= MaxCompleted,
               NEW proved \in BOOLEAN, recorder' = TornDown(r, proved)
        PROVE  RecorderFits(recorder')
    <2>1. TornDown(r, proved) # r
      <3>1. TornDown(r, proved).pipeline # "recording"
        <4>1. CASE proved
          BY <1>5, <4>1 DEF TornDown
        <4>2. CASE ~proved
          BY <1>5, <4>2 DEF TornDown, Recorders
        <4> QED
          BY <4>1, <4>2
      <3> QED
        BY <1>5, <3>1
    <2> QED
      BY <1>5, <2>1, TornDownFits
  <1>6. CASE PumpSubmit
    <2> DEFINE t == pump.hand
    <2>1. t \in Nat /\ t \notin ToSet(recorder.inputs) /\ t \notin recorder.completed
      <3>1. t # NoToken /\ t \in Nat
        BY <1>6, PartsKnown DEF PumpSubmit, HandFull, Pumps
      <3>2. t \in Hand
        BY <3>1 DEF Hand
      <3> QED
        BY <3>1, <3>2, PartsKnown DEF Apart
    <2>2. ASSUME NEW n \in 0 .. Len(recorder.inputs) + 1, recorder.pipeline = "recording"
          PROVE  /\ Encoded(recorder, t, n) \in Recorders
                 /\ IsInjective(Encoded(recorder, t, n).inputs)
                 /\ Encoded(recorder, t, n).pipeline = "recording"
                 /\ Len(Encoded(recorder, t, n).inputs) = Len(recorder.inputs) + 1 - n
                 /\ IsFiniteSet(Encoded(recorder, t, n).completed)
                 /\ Cardinality(Encoded(recorder, t, n).completed) <= MaxCompleted
      <3> DEFINE s == Append(recorder.inputs, t)
                 done == SubSeq(s, 1, n)
                 left == SubSeq(s, n + 1, Len(s))
                 e == Encoded(recorder, t, n)
      <3>1. /\ s \in Seq(Nat) /\ IsInjective(s) /\ Len(s) = Len(recorder.inputs) + 1
        BY <1>1, <2>1, AppendFacts
      <3>2. n \in 0 .. Len(s) /\ n \in Nat
        BY <1>2, <2>2, <3>1
      <3>3. e = [recorder EXCEPT !.inputs = left, !.completed = Completed(recorder, done)]
        BY DEF Encoded
      <3> HIDE DEF s
      <3>4. /\ done \in Seq(Nat) /\ left \in Seq(Nat) /\ Len(left) = Len(s) - n
            /\ IsInjective(done) /\ IsInjective(left)
        BY <3>1, <3>2, SplitFacts, SplitWhole
      <3> HIDE DEF done, left, e
      <3>5. /\ IsFiniteSet(Completed(recorder, done))
            /\ Cardinality(Completed(recorder, done)) <= MaxCompleted
            /\ Completed(recorder, done) \in SUBSET Nat
        BY <1>1, <3>4, CompletedFits, CompletedFacts
      <3>6. /\ e \in Recorders /\ e.inputs = left /\ e.completed = Completed(recorder, done)
            /\ e.pipeline = recorder.pipeline
        BY <1>1, <3>3, <3>4, <3>5 DEF Recorders
      <3> QED
        BY <2>2, <3>1, <3>4, <3>5, <3>6 DEF e
    <2>3. ASSUME NEW n \in 0 .. Len(recorder.inputs) + 1, recorder.pipeline = "recording",
                 EncodeFits(recorder, n), recorder' = Encoded(recorder, t, n)
          PROVE  RecorderFits(recorder')
      <3>1. Len(recorder.inputs) + 1 - n <= MaxInFlight /\ Len(recorder.inputs) + 1 - n <= MaxInFlight + 1
        BY <1>2, <2>3 DEF EncodeFits
      <3> QED
        BY <2>2, <2>3, <3>1 DEF RecorderFits
    <2>4. ASSUME NEW n \in 0 .. Len(recorder.inputs) + 1, recorder.pipeline = "recording",
                 NEW proved \in BOOLEAN, recorder' = TornDown(Encoded(recorder, t, n), proved)
          PROVE  RecorderFits(recorder')
      <3>1. Len(recorder.inputs) + 1 - n <= MaxInFlight + 1
        BY <1>2, <2>4 DEF RecorderFits
      <3> QED
        BY <1>5, <2>2, <2>4, <3>1
    <2>5. ASSUME recorder.pipeline = "recording", NEW proved \in BOOLEAN,
                 recorder' = TornDown([recorder EXCEPT !.inputs = Append(@, t)], proved)
          PROVE  RecorderFits(recorder')
      <3>1. PICK r : r = [recorder EXCEPT !.inputs = Append(recorder.inputs, t)]
        OBVIOUS
      <3>2. /\ Append(recorder.inputs, t) \in Seq(Nat) /\ IsInjective(Append(recorder.inputs, t))
            /\ Len(Append(recorder.inputs, t)) = Len(recorder.inputs) + 1
        BY <1>1, <2>1, AppendFacts
      <3>3. /\ r \in Recorders /\ r.inputs = Append(recorder.inputs, t)
            /\ r.completed = recorder.completed /\ r.pipeline = recorder.pipeline
        BY <1>1, <3>1, <3>2 DEF Recorders
      <3>4. Len(r.inputs) <= MaxInFlight + 1
        BY <1>2, <2>5, <3>2, <3>3 DEF RecorderFits
      <3>5. recorder' = TornDown(r, proved)
        BY <2>5, <3>1
      <3>6. IsFiniteSet(r.completed) /\ Cardinality(r.completed) <= MaxCompleted
        BY <3>3 DEF RecorderFits
      <3> QED
        BY <1>5, <2>5, <3>2, <3>3, <3>4, <3>5, <3>6
    <2> QED
      BY <1>6, <2>3, <2>4, <2>5 DEF PumpSubmit
  <1>7. CASE PumpReturn
    <2>1. PICK r : r = [recorder EXCEPT !.completed = {}]
      OBVIOUS
    <2>2. /\ r \in Recorders /\ r.inputs = recorder.inputs /\ r.completed = {}
          /\ r.pipeline = recorder.pipeline
      BY <1>1, <2>1 DEF Recorders
    <2>3. RecorderFits(r) /\ IsInjective(r.inputs)
      BY <1>1, <1>2, <2>2 DEF RecorderFits
    <2>4. recorder' = r \/ \E proved \in BOOLEAN : recorder' = TornDown(r, proved)
      BY <1>7, <2>1 DEF PumpReturn
    <2> QED
      BY <1>3, <2>2, <2>3, <2>4
  <1>8. CASE PumpStop
    <2>1. PICK proved \in BOOLEAN : recorder' = [TornDown(recorder, proved) EXCEPT !.completed = {}]
      BY <1>8 DEF PumpStop
    <2>2. PICK r : r = TornDown(recorder, proved)
      OBVIOUS
    <2>3. r \in Recorders
      <3>1. Keeps(TornDown(recorder, proved), ToSet(recorder.inputs), recorder.completed)
        BY PartsKnown, TornDownKeeps
      <3> QED
        BY <2>2, <3>1 DEF Keeps
    <2>4. RecorderFits(r)
      BY <1>1, <2>2, TornDownFits DEF RecorderFits
    <2>5. recorder'.inputs = r.inputs /\ recorder'.completed = {} /\ recorder'.pipeline = r.pipeline
      BY <2>1, <2>2, <2>3 DEF Recorders
    <2> QED
      BY <1>2, <2>4, <2>5 DEF RecorderFits
  <1>9. CASE Save
    <2>1. ASSUME recorder' = [recorder EXCEPT !.inputs = <<>>,
                                !.completed = Completed(recorder, recorder.inputs)]
          PROVE  RecorderFits(recorder')
      <3>1. /\ recorder'.inputs = <<>> /\ recorder'.pipeline = recorder.pipeline
            /\ recorder'.completed = Completed(recorder, recorder.inputs)
        BY <1>1, <2>1 DEF Recorders
      <3>2. /\ IsFiniteSet(Completed(recorder, recorder.inputs))
            /\ Cardinality(Completed(recorder, recorder.inputs)) <= MaxCompleted
        BY <1>1, CompletedFits
      <3> QED
        BY <1>2, <3>1, <3>2 DEF RecorderFits
    <2> QED
      BY <1>1, <1>3, <1>9, <2>1 DEF Save
  <1>10. CASE PumpRecord
    <2>1. ASSUME recorder' = [recorder EXCEPT !.pipeline = "recording"],
                 recorder.pipeline = "none"
          PROVE  RecorderFits(recorder')
      <3>1. /\ recorder'.inputs = recorder.inputs /\ recorder'.completed = recorder.completed
            /\ recorder'.pipeline = "recording" /\ recorder.inputs = <<>>
        BY <1>1, <2>1 DEF Recorders, RecorderFits
      <3>2. Len(recorder'.inputs) <= MaxInFlight
        BY <1>2, <3>1
      <3> QED
        BY <3>1, <3>2 DEF RecorderFits
    <2>2. ASSUME recorder' = [recorder EXCEPT !.inputs = <<>>, !.completed = {}]
          PROVE  RecorderFits(recorder')
      <3>1. /\ recorder'.inputs = <<>> /\ recorder'.completed = {}
        BY <1>1, <2>2 DEF Recorders
      <3> QED
        BY <1>2, <3>1 DEF RecorderFits
    <2>3. CASE recorder' = recorder
      BY <2>3
    <2>4. CASE \E proved \in BOOLEAN : recorder' = TornDown(recorder, proved)
      BY <1>1, <1>3, <2>4
    <2> QED
      BY <1>10, <2>1, <2>2, <2>3, <2>4 DEF PumpRecord
  <1>11. CASE recorder' = recorder
    BY <1>11
  <1>12. CASE PumpFault \/ PumpImportFails
    BY <1>1, <1>3, <1>11, <1>12 DEF PumpFault, PumpImportFails, Recover
  <1>13. CASE PumpTaken \/ PumpCompletions
    BY <1>1, <1>3, <1>4, <1>11, <1>13 DEF PumpTaken, PumpCompletions
  <1>14. CASE PumpRejected \/ PumpWait \/ PumpEarly
    BY <1>11, <1>14 DEF PumpRejected, PumpWait, PumpEarly
  <1>15. CASE UNCHANGED vars
    BY <1>11, <1>15 DEF vars
  <1>16. ASSUME NEW p \in Producers, NEW b \in BOOLEAN, NEW c \in BOOLEAN,
                \/ Hello(p) \/ SourceRejected(p) \/ ExportRefused(p) \/ Goodbye(p, b)
                \/ Export(p, b, c)
         PROVE  RecorderFits(recorder')
    BY <1>11, <1>16 DEF Hello, SourceRejected, ExportRefused, Goodbye, Export
  <1> QED
    BY <1>6, <1>7, <1>8, <1>9, <1>10, <1>12, <1>13, <1>14, <1>15, <1>16 DEF Next, Pump

(* What the producers do with their sequences and devices. *)
LEMMA ProducersStep ==
    ASSUME HInv, ProducersFit, [Next]_vars
    PROVE  ProducersFit'
  <1>1. /\ MaxWire \in Nat /\ MaxDevices \in Nat
        /\ \A p \in Producers : wire[p] \in Nat /\ device[p] \in Nat
        /\ life \in [Producers -> {"none", "up", "dead"}]
    BY HandoffAssumption DEF HInv, Shape
  <1>2. CASE UNCHANGED producerVars
    BY <1>2 DEF ProducersFit, producerVars
  <1>3. ASSUME NEW p \in Producers, Hello(p) PROVE ProducersFit'
    <2>1. /\ wire' = wire /\ lost' = lost /\ device[p] < MaxDevices
          /\ life' = [life EXCEPT ![p] = "up"] /\ device' = [device EXCEPT ![p] = @ + 1]
      BY <1>3 DEF Hello
    <2>2. device' \in [Producers -> 0 .. MaxDevices]
      BY <1>1, <2>1 DEF ProducersFit
    <2>3. ASSUME NEW q \in Producers, life'[q] = "up" PROVE device'[q] >= 1
      BY <1>1, <2>1, <2>3 DEF ProducersFit
    <2> QED
      BY <2>1, <2>2, <2>3 DEF ProducersFit
  <1>4. ASSUME NEW p \in Producers, NEW dies \in BOOLEAN, Goodbye(p, dies) PROVE ProducersFit'
    <2>1. /\ wire' = wire /\ device' = device /\ lost' = [lost EXCEPT ![p] = {}]
          /\ life' = [life EXCEPT ![p] = IF dies THEN "dead" ELSE "none"]
      BY <1>4 DEF Goodbye
    <2>2. \A q \in Producers : life'[q] = "up" => life[q] = "up"
      BY <1>1, <2>1
    <2>3. lost' \in [Producers -> SUBSET (1 .. MaxWire)]
      BY <2>1 DEF ProducersFit
    <2> QED
      BY <2>1, <2>2, <2>3 DEF ProducersFit
  <1>5. ASSUME NEW p \in Producers, NEW idle \in BOOLEAN, NEW valid \in BOOLEAN,
               Export(p, idle, valid)
        PROVE  ProducersFit'
    <2>1. /\ wire' = [wire EXCEPT ![p] = wire[p] + 1] /\ wire[p] + 1 <= MaxWire
          /\ lost' = lost /\ device' = device /\ life' = life
      BY <1>5 DEF Export
    <2>2. wire[p] + 1 \in 0 .. MaxWire
      BY <1>1, <2>1
    <2> QED
      BY <2>1, <2>2 DEF ProducersFit
  <1>6. ASSUME NEW p \in Producers, ExportRefused(p) PROVE ProducersFit'
    <2>1. /\ wire' = [wire EXCEPT ![p] = wire[p] + 1] /\ wire[p] + 1 <= MaxWire
          /\ lost' = [lost EXCEPT ![p] = @ \union {wire[p] + 1}] /\ device' = device /\ life' = life
      BY <1>6 DEF ExportRefused
    <2>2. wire[p] + 1 \in 0 .. MaxWire /\ wire[p] + 1 \in 1 .. MaxWire
      BY <1>1, <2>1
    <2>3. lost' \in [Producers -> SUBSET (1 .. MaxWire)]
      BY <2>1, <2>2 DEF ProducersFit
    <2>4. wire' \in [Producers -> 0 .. MaxWire]
      BY <2>1, <2>2 DEF ProducersFit
    <2> QED
      BY <2>1, <2>3, <2>4 DEF ProducersFit
  <1>7. ASSUME NEW p \in Producers, SourceRejected(p) PROVE ProducersFit'
    BY <1>2, <1>7 DEF SourceRejected
  <1>8. CASE Save \/ PumpStop \/ UNCHANGED vars
    BY <1>2, <1>8 DEF Save, PumpStop, RestOfPump, vars, producerVars
  <1>9. CASE Pump
    BY <1>2, <1>9
       DEF Pump, PumpRejected, PumpFault, PumpCompletions, PumpWait, PumpImportFails, PumpTaken,
           PumpRecord, PumpSubmit, PumpReturn, PumpEarly, RestOfPump, producerVars
  <1> QED
    BY <1>3, <1>4, <1>5, <1>6, <1>7, <1>8, <1>9 DEF Next

(* ReplayProducerSelector::accepts leaves a selector. *)
LEMMA SelectFits ==
    ASSUME selector \in Selectors, NEW k \in Sockets, NEW w \in Nat, NEW idle \in BOOLEAN
    PROVE  Select(k, w, idle).state \in Selectors
  <1>1. NoSelection \in Selectors
    BY DEF NoSelection, Selectors
  <1>2. PICK s : s = IF selector.selected \notin {k, NoSocket} /\ idle THEN NoSelection ELSE selector
    OBVIOUS
  <1>3. s \in Selectors
    BY <1>1, <1>2
  <1>4. /\ s.selected \in Sockets \union {NoSocket} /\ s.last \in Nat
        /\ s.exports \in [Sockets -> Nat] /\ s.seen \in [Sockets -> Nat]
    BY <1>3 DEF Selectors
  <1>5. [s EXCEPT !.last = w] \in Selectors
    BY <1>3 DEF Selectors
  <1>6. [s EXCEPT !.exports[k] = s.exports[k] + 1, !.seen[k] = w] \in Selectors
    <2>1. /\ [s.exports EXCEPT ![k] = s.exports[k] + 1] \in [Sockets -> Nat]
          /\ [s.seen EXCEPT ![k] = w] \in [Sockets -> Nat]
      BY <1>4
    <2> QED
      BY <1>3, <2>1 DEF Selectors
  <1>7. [NoSelection EXCEPT !.selected = k, !.last = w] \in Selectors
    BY <1>1 DEF Selectors
  <1>8. Select(k, w, idle).state \in
          {s, [s EXCEPT !.last = w], [s EXCEPT !.exports[k] = s.exports[k] + 1, !.seen[k] = w],
           [NoSelection EXCEPT !.selected = k, !.last = w]}
    BY <1>2 DEF Select
  <1> QED
    BY <1>3, <1>5, <1>6, <1>7, <1>8

(* The queue only grows by an export that finds room or makes it. *)
LEMMA QueueStep ==
    ASSUME HInv, Len(queue.frames) <= QueueCapacity, [Next]_vars
    PROVE  Len(queue'.frames) <= QueueCapacity
  <1> DEFINE s == queue.frames
  <1>1. /\ queue \in Queues /\ s \in Seq(Nat) /\ Len(s) \in Nat /\ queue.releaseOnly = 0
        /\ QueueCapacity \in Nat /\ QueueCapacity # 0 /\ Len(<<>>) = 0
    BY PartsKnown, HandoffAssumption
  <1>2. CASE queue'.frames = s
    BY <1>2
  <1>3. CASE queue'.frames = <<>>
    BY <1>1, <1>3
  <1>4. ASSUME NEW n \in 0 .. Len(s), queue'.frames = SubSeq(s, n + 1, Len(s))
        PROVE  Len(queue'.frames) <= QueueCapacity
    <2>1. Len(queue'.frames) = Len(s) - n
      BY <1>1, <1>4, SplitFacts
    <2> QED
      BY <1>1, <1>4, <2>1
  <1>5. ASSUME NEW p \in Producers, Hello(p) PROVE Len(queue'.frames) <= QueueCapacity
    <2>1. queue' = queue \/ \E left : queue' = [queue EXCEPT !.frames = <<>>, !.rejected = left]
      BY <1>5 DEF Hello
    <2> QED
      BY <1>1, <1>2, <1>3, <2>1 DEF Queues
  <1>6. ASSUME NEW p \in Producers, SourceRejected(p) PROVE Len(queue'.frames) <= QueueCapacity
    <2> DEFINE kept == Cardinality(queue.rejected)
               room == IF kept < RouteCapacity THEN RouteCapacity - kept ELSE 0
               moved == IF Len(s) < room THEN Len(s) ELSE room
    <2>1. kept \in Nat /\ RouteCapacity \in Nat
      <3>1. nextToken \in Nat /\ DOMAIN routes \subseteq 1 .. (nextToken - 1)
        BY DEF HInv, Shape, RoutesFit
      <3>2. IsFiniteSet(1 .. (nextToken - 1))
        BY <3>1, FS_Interval
      <3>3. queue.rejected \subseteq 1 .. (nextToken - 1)
        BY <3>1, PartsKnown DEF Apart
      <3>4. IsFiniteSet(queue.rejected)
        BY <3>2, <3>3, FS_Subset
      <3> QED
        BY <3>4, FS_CardinalityType, HandoffAssumption
    <2>2. queue'.frames = SubSeq(s, moved + 1, Len(s))
      BY <1>6 DEF SourceRejected
    <2>3. moved \in 0 .. Len(s)
      <3> HIDE DEF kept
      <3> QED
        BY <1>1, <2>1
    <2> HIDE DEF moved
    <2> QED
      BY <1>4, <2>2, <2>3
  <1>7. ASSUME NEW p \in Producers, NEW idle \in BOOLEAN, NEW valid \in BOOLEAN,
               Export(p, idle, valid)
        PROVE  Len(queue'.frames) <= QueueCapacity
    <2> DEFINE full == Len(s) = QueueCapacity
               r == IF full THEN Tail(s) ELSE s
    <2>1. PICK a, left : \/ queue' = [queue EXCEPT !.frames = s, !.releaseOnly = a, !.rejected = left]
                         \/ queue' = [queue EXCEPT !.frames = Append(r, nextToken),
                                        !.releaseOnly = a, !.rejected = left]
      BY <1>7 DEF Export
    <2>2. r \in Seq(Nat) /\ Len(r) + 1 <= QueueCapacity /\ nextToken \in Nat
      <3>1. nextToken \in Nat
        BY DEF HInv, Shape
      <3>2. CASE full
        <4>1. s # <<>>
          BY <1>1, <3>2
        <4>2. Tail(s) \in Seq(Nat) /\ Len(Tail(s)) = Len(s) - 1
          BY <1>1, <4>1
        <4> QED
          BY <1>1, <3>1, <3>2, <4>2
      <3>3. CASE ~full
        BY <1>1, <3>1, <3>3
      <3> QED
        BY <3>2, <3>3
    <2> HIDE DEF r
    <2>3. Len(Append(r, nextToken)) = Len(r) + 1
      BY <2>2
    <2>4. queue'.frames = s \/ queue'.frames = Append(r, nextToken)
      BY <1>1, <2>1 DEF Queues
    <2> QED
      BY <1>2, <2>2, <2>3, <2>4
  <1>8. CASE PumpRejected
    <2> DEFINE n == IF queue.releaseOnly < Len(s) THEN queue.releaseOnly ELSE Len(s)
    <2>1. n \in 0 .. Len(s)
      BY <1>1
    <2>2. queue' = [queue EXCEPT !.rejected = {}, !.releaseOnly = 0,
                      !.frames = SubSeq(s, n + 1, Len(s))]
      BY <1>8 DEF PumpRejected
    <2> HIDE DEF n
    <2>3. queue'.frames = SubSeq(s, n + 1, Len(s))
      BY <1>1, <2>2 DEF Queues
    <2> QED
      BY <1>4, <2>1, <2>3
  <1>9. CASE PumpWait
    <2>1. CASE queue' = queue
      BY <1>2, <2>1
    <2>2. CASE s # <<>> /\ queue' = [queue EXCEPT !.frames = Tail(s)]
      <3>1. queue'.frames = Tail(s) /\ Len(Tail(s)) = Len(s) - 1
        BY <1>1, <2>2 DEF Queues
      <3> QED
        BY <1>1, <3>1
    <2> QED
      BY <1>9, <2>1, <2>2 DEF PumpWait
  <1>10. CASE PumpFault \/ PumpTaken
    BY <1>1, <1>2, <1>10 DEF PumpFault, PumpTaken, Queues
  <1>11. CASE PumpImportFails
    <2>1. \E left : queue' = [queue EXCEPT !.rejected = left]
      BY <1>11 DEF PumpImportFails
    <2> QED
      BY <1>1, <1>2, <2>1 DEF Queues
  <1>12. CASE PumpStop
    <2>1. \E left : queue' = [queue EXCEPT !.frames = <<>>, !.rejected = left]
      BY <1>12 DEF PumpStop
    <2> QED
      BY <1>1, <1>3, <2>1 DEF Queues
  <1>13. CASE \/ PumpCompletions \/ PumpRecord \/ PumpSubmit \/ PumpReturn \/ PumpEarly
              \/ Save \/ UNCHANGED vars
    BY <1>2, <1>13 DEF PumpCompletions, PumpRecord, PumpSubmit, PumpReturn, PumpEarly, Save, vars
  <1>14. ASSUME NEW p \in Producers, NEW b \in BOOLEAN, ExportRefused(p) \/ Goodbye(p, b)
         PROVE  Len(queue'.frames) <= QueueCapacity
    BY <1>2, <1>14 DEF ExportRefused, Goodbye
  <1> QED
    BY <1>5, <1>6, <1>7, <1>8, <1>9, <1>10, <1>11, <1>12, <1>13, <1>14 DEF Next, Pump

(* The session model and the selection. *)
LEMMA ReceiverStep ==
    ASSUME HInv, ProducersFit, ReceiverFits, [Next]_vars
    PROVE  ReceiverFits'
  <1>1. Len(queue'.frames) <= QueueCapacity
    BY QueueStep DEF ReceiverFits
  <1>2. CASE capture' = capture /\ selector' = selector
    BY <1>1, <1>2 DEF ReceiverFits
  <1>3. ASSUME NEW p \in Producers, Hello(p) PROVE ReceiverFits'
    <2>1. \/ capture' = [phase |-> "capturing", owner |-> p] /\ selector' = NoSelection
          \/ capture' = capture /\ selector' = selector
      BY <1>3 DEF Hello
    <2>2. NoSelection \in Selectors
      BY DEF NoSelection, Selectors
    <2> QED
      BY <1>1, <1>2, <2>1, <2>2 DEF ReceiverFits
  <1>4. ASSUME NEW p \in Producers, NEW dies \in BOOLEAN, Goodbye(p, dies) PROVE ReceiverFits'
    <2>1. selector' = selector /\ (capture' = capture \/ capture' = [capture EXCEPT !.phase = "completed"])
      BY <1>4 DEF Goodbye
    <2> QED
      BY <1>1, <2>1 DEF ReceiverFits
  <1>5. ASSUME NEW p \in Producers, NEW idle \in BOOLEAN, NEW valid \in BOOLEAN,
               Export(p, idle, valid)
        PROVE  ReceiverFits'
    <2>1. /\ capture' = capture /\ life[p] = "up"
          /\ selector' = Select(SocketOf(p), wire[p] + 1, idle).state
      BY <1>5 DEF Export
    <2>2. wire[p] + 1 \in Nat
      BY DEF HInv, Shape
    <2>3. SocketOf(p) \in Sockets
      <3>1. device[p] \in 0 .. MaxDevices /\ device[p] >= 1
        BY <2>1 DEF ProducersFit
      <3>2. device[p] \in 1 .. MaxDevices
        BY <3>1, HandoffAssumption
      <3> QED
        BY <3>2 DEF SocketOf, Sockets
    <2>4. selector' \in Selectors
      BY <2>1, <2>2, <2>3, SelectFits DEF ReceiverFits
    <2> QED
      BY <1>1, <2>1, <2>4 DEF ReceiverFits
  <1>6. ASSUME NEW p \in Producers, SourceRejected(p) \/ ExportRefused(p) PROVE ReceiverFits'
    BY <1>2, <1>6 DEF SourceRejected, ExportRefused
  <1>7. CASE Save \/ PumpStop \/ UNCHANGED vars
    BY <1>2, <1>7 DEF Save, PumpStop, RestOfPump, vars
  <1>8. CASE Pump
    BY <1>2, <1>8
       DEF Pump, PumpRejected, PumpFault, PumpCompletions, PumpWait, PumpImportFails, PumpTaken,
           PumpRecord, PumpSubmit, PumpReturn, PumpEarly, RestOfPump
  <1> QED
    BY <1>3, <1>4, <1>5, <1>6, <1>7, <1>8 DEF Next

(* The state has its type and keeps its bounds: sequences and devices, the routes
   and the queue their capacities, the encoder no more than one input over those
   in flight, and the completion queue its bound, whatever fails (register,
   enqueue_completed, shutdown_backend, submit_frame). *)
THEOREM TypeCorrect == Spec => []TypeOK
<1>1. Init => TInv
  <2> SUFFICES ASSUME Init PROVE TInv
    OBVIOUS
  <2>1. /\ {MaxWire, MaxDevices, QueueCapacity, MaxInFlight, MaxCompleted} \subseteq Nat
        /\ IsFiniteSet({}) /\ Cardinality({}) = 0 /\ Len(<<>>) = 0
    BY HandoffAssumption, FS_EmptySet
  <2>2. ProducersFit
    <3>1. 0 \in 0 .. MaxWire /\ 0 \in 0 .. MaxDevices
      BY <2>1
    <3> QED
      BY <3>1 DEF Init, ProducersFit
  <2>3. ReceiverFits
    <3>1. NoSelection \in Selectors
      BY DEF NoSelection, Selectors
    <3>2. queue.frames = <<>>
      BY DEF Init
    <3>3. Len(queue.frames) <= QueueCapacity
      BY <2>1, <3>2
    <3> QED
      BY <3>1, <3>3 DEF Init, ReceiverFits
  <2>4. RecorderFits(recorder)
    <3>1. recorder.pipeline = "none" /\ recorder.inputs = <<>> /\ recorder.completed = {}
      BY DEF Init
    <3>2. 0 <= MaxInFlight + 1 /\ 0 <= MaxCompleted
      BY <2>1
    <3> QED
      BY <2>1, <3>1, <3>2 DEF RecorderFits
  <2> QED
    BY <2>2, <2>3, <2>4, HandoffInit DEF TInv
<1>2. TInv /\ [Next]_vars => TInv'
  <2> SUFFICES ASSUME TInv, [Next]_vars PROVE TInv'
    OBVIOUS
  <2>1. HInv' /\ ProducersFit' /\ ReceiverFits'
    BY HandoffStep, ProducersStep, ReceiverStep DEF TInv
  <2>2. RecorderFits(recorder')
    BY RecorderStep DEF TInv
  <2> QED
    BY <2>1, <2>2 DEF TInv
<1>3. TInv => TypeOK
  <2> SUFFICES ASSUME TInv PROVE TypeOK
    OBVIOUS
  <2>1. owed \in [Producers -> SUBSET (1 .. MaxWire)]
    <3>1. /\ owed \in [Producers -> SUBSET Nat] /\ RoutesTrue(routes, owed, life, device, wire, lost)
          /\ wire \in [Producers -> 0 .. MaxWire] /\ lost \in [Producers -> SUBSET (1 .. MaxWire)]
      BY DEF TInv, HInv, Shape, ProducersFit
    <3>2. ASSUME NEW p \in Producers, NEW w \in owed[p] PROVE w \in 1 .. MaxWire
      <4>1. w \in Nat /\ MaxWire \in Nat /\ wire[p] \in 0 .. MaxWire
        BY <3>1, HandoffAssumption
      <4>2. CASE w \in lost[p]
        BY <3>1, <4>2
      <4>3. ASSUME NEW t \in DOMAIN routes, routes[t].path = p, routes[t].wire = w
            PROVE  w \in 1 .. MaxWire
        <5>1. w > 0 /\ w <= wire[p]
          BY <3>1, <4>3 DEF RoutesTrue
        <5> QED
          BY <4>1, <5>1
      <4> QED
        BY <3>1, <4>1, <4>2, <4>3 DEF RoutesTrue
    <3> QED
      BY <3>1, <3>2
  <2>2. DOMAIN routes \subseteq Tokens /\ Cardinality(DOMAIN routes) <= RouteCapacity
    BY DEF TInv, HInv, RoutesFit, Tokens
  <2>3. /\ capture.phase \in {"armed", "capturing", "completed"}
        /\ selector.selected \in Sockets \union {NoSocket} /\ Len(queue.frames) <= QueueCapacity
    BY DEF TInv, ReceiverFits, Selectors
  <2>4. /\ recorder.pipeline \in {"none", "recording", "stuck"}
        /\ pump.pc \in {"top", "fault", "completions", "wait", "taken", "record", "submit",
                        "return", "stopped"}
        /\ life \in [Producers -> {"none", "up", "dead"}]
    BY DEF TInv, HInv, Shape, Recorders, Pumps
  <2>5. Len(recorder.inputs) <= MaxInFlight + 1 /\ Cardinality(recorder.completed) <= MaxCompleted
    BY DEF TInv, RecorderFits
  <2> QED
    BY <2>1, <2>2, <2>3, <2>4, <2>5 DEF TypeOK, TInv, ProducersFit
<1> QED
  BY <1>1, <1>2, <1>3, PTL DEF Spec
===============================================================================
