---------------------------- MODULE TrayWatcher ----------------------------
(***************************************************************************)
(* The native tray client (tray_native/mod.rs, watcher.rs).  Redunar       *)
(* exports one StatusNotifierItem on a private bus connection and asks the *)
(* desktop's watcher, whoever owns its well-known name, to list it.  The   *)
(* window may be hidden while the item is listed; when the listing is lost *)
(* the tray has to ask for the window back (Action::Recover).              *)
(*                                                                         *)
(* watcher::State is one record under one mutex.  Its callbacks run on the *)
(* tray's own thread, in the order the bus delivers signals and replies;   *)
(* verify_sync runs on the desktop's main thread, and its reply overtakes  *)
(* them.  A query carries the owner, the generation and the revision it    *)
(* was made under.  Bus names are never reused: an owner is a number.      *)
(***************************************************************************)
EXTENDS Integers, Sequences, FiniteSets, TLAPS

CONSTANTS
    MaxOwners,   \* bound: processes that take the watcher's name in turn
    MaxChanges,  \* bound: other changes of the desktop
    MaxChecks,   \* bound: closes that ask whether the item is listed
    MaxFaults,   \* bound: calls that time out
    Faults       \* calls that may: "query", "register", "sync"

VARIABLES
    st,      \* watcher::State
    bus,     \* [owner, item, host]: the watcher, whether it lists the item
    calls,   \* calls the watcher has not answered, in order
    inbox,   \* signals and replies on their way to the tray's thread
    sync,    \* the synchronous query of the main thread
    main,    \* a task that shows the window is queued for the main thread
    hidden,  \* the window is hidden
    count    \* [owners, changes, checks, faults]

vars == <<st, bus, calls, inbox, sync, main, hidden, count>>

\* No owner is 0.
Fresh == [running |-> TRUE, owner |-> 0, gen |-> 0, accepted |-> FALSE,
          registered |-> FALSE, pending |-> FALSE, dirty |-> FALSE, rev |-> 0]
NoSync == [on |-> FALSE, owner |-> 0, gen |-> 0, rev |-> 0, got |-> FALSE,
           value |-> FALSE]
Call(kind, owner, gen, rev) ==
    [kind |-> kind, owner |-> owner, gen |-> gen, rev |-> rev]

\* properties_registered: a host is there and the item is in its list.
Listed == bus.owner # 0 /\ bus.item /\ bus.host

-----------------------------------------------------------------------------
(* Operators on the state: each gives the state after the call, what it    *)
(* sends to the bus and whether it asks for the window.                    *)

Did(s, out, recover) == [st |-> s, out |-> out, recover |-> recover]

\* snapshot: the owner a call may be addressed to.
HasOwner(s) == s.running /\ s.owner # 0

\* register.
Register(s) ==
    Did(s, IF HasOwner(s) THEN <<Call("register", s.owner, s.gen, 0)>>
           ELSE <<>>, FALSE)

Refresh(s) ==
    IF ~HasOwner(s) \/ ~s.accepted THEN Did(s, <<>>, FALSE)
    ELSE IF s.pending THEN Did([s EXCEPT !.dirty = TRUE], <<>>, FALSE)
    ELSE Did([s EXCEPT !.pending = TRUE, !.rev = @ + 1],
             <<Call("query", s.owner, s.gen, s.rev + 1)>>, FALSE)

\* Whether a query made under these is still the latest.
Current(s, owner, gen, rev) ==
    s.rev = rev /\ s.running /\ s.gen = gen /\ s.owner = owner

Apply(s, owner, gen, value, rev) ==
    IF ~Current(s, owner, gen, rev) THEN Did(s, <<>>, FALSE)
    ELSE Did([s EXCEPT !.registered = value /\ s.accepted], <<>>,
             s.registered /\ ~(value /\ s.accepted))

ReplaceOwner(s, owner) ==
    Did([s EXCEPT !.gen = @ + 1, !.owner = owner, !.accepted = FALSE,
                  !.registered = FALSE, !.pending = FALSE, !.dirty = FALSE,
                  !.rev = @ + 1], <<>>, s.registered)

\* One call after another.
Then(a, b) == Did(b.st, a.out \o b.out, a.recover \/ b.recover)

-----------------------------------------------------------------------------
(* The callbacks of the tray's thread.                                     *)

\* NameOwnerChanged, and the answer to the first GetNameOwner.
OnOwner(s, owner) ==
    LET replaced == ReplaceOwner(s, owner)
    IN  Then(replaced, Register(replaced.st))

\* A signal of the watcher: an item or the host came or went.  A new host is
\* a reason to register again while no registration was accepted.
OnSignal(s, owner, hostCame) ==
    IF ~HasOwner(s) \/ s.owner # owner THEN Did(s, <<>>, FALSE)
    ELSE LET again == IF hostCame /\ ~s.accepted THEN Register(s)
                      ELSE Did(s, <<>>, FALSE)
         IN  Then(again, Refresh(again.st))

\* The answer to RegisterStatusNotifierItem.
OnRegistered(s, call, ok) ==
    IF ~s.running \/ s.gen # call.gen \/ s.owner # call.owner
    THEN Did(s, <<>>, FALSE)
    ELSE Refresh([s EXCEPT !.accepted = ok])

\* The answer to an asynchronous query.
OnQueried(s, call, value) ==
    IF s.gen # call.gen \/ s.owner # call.owner THEN Did(s, <<>>, FALSE)
    ELSE LET idle == [s EXCEPT !.pending = FALSE, !.dirty = FALSE]
         IN  IF s.dirty THEN Refresh(idle)
             ELSE Apply(idle, call.owner, call.gen, value, call.rev)

OnMessage(s, m) ==
    CASE m.kind = "owner" -> IF ~s.running THEN Did(s, <<>>, FALSE)
                             ELSE OnOwner(s, m.owner)
      [] m.kind = "first" -> IF ~s.running \/ s.gen # 0 THEN Did(s, <<>>, FALSE)
                             ELSE OnOwner(s, m.owner)
      [] m.kind = "signal" -> OnSignal(s, m.owner, m.ok)
      [] m.kind = "register" -> OnRegistered(s, m, m.ok)
      [] m.kind = "query" -> OnQueried(s, m, m.ok)

Message(kind, owner, ok) ==
    [kind |-> kind, owner |-> owner, gen |-> 0, rev |-> 0, ok |-> ok]
Reply(call, ok) ==
    [kind |-> call.kind, owner |-> call.owner, gen |-> call.gen,
     rev |-> call.rev, ok |-> ok]

Init ==
    /\ st = Fresh
    /\ \E up, host \in BOOLEAN :
        /\ host => up
        /\ bus = [owner |-> IF up THEN 1 ELSE 0, item |-> FALSE, host |-> host]
        /\ inbox = <<Message("first", IF up THEN 1 ELSE 0, TRUE)>>
        /\ count = [owners |-> IF up THEN 1 ELSE 0, changes |-> 0,
                    checks |-> 0, faults |-> 0]
    /\ calls = <<>>
    /\ sync = NoSync
    /\ main = FALSE
    /\ hidden = FALSE

\* Takes what a callback did.
Doing(d) ==
    /\ st' = d.st
    /\ calls' = calls \o d.out
    /\ main' = (main \/ d.recover)

\* The next signal or reply of the bus.
Deliver ==
    /\ inbox # <<>>
    /\ \E d \in {OnMessage(st, Head(inbox))} : Doing(d)
    /\ inbox' = Tail(inbox)
    /\ UNCHANGED <<bus, sync, hidden, count>>

\* A call of the tray runs into its 250 or 500 ms.
TimesOut(i) ==
    /\ calls[i].kind \in Faults /\ count.faults < MaxFaults
    /\ inbox' = Append(inbox, Reply(calls[i], FALSE))
    /\ calls' = SubSeq(calls, 1, i - 1) \o SubSeq(calls, i + 1, Len(calls))
    /\ count' = [count EXCEPT !.faults = @ + 1]
    /\ UNCHANGED <<st, bus, sync, main, hidden>>

-----------------------------------------------------------------------------
(* The desktop: the process that owns the watcher's name, and the bus.     *)

\* The watcher answers its next call; one addressed to a process that has
\* gone is answered by the bus with an error.  Listing the item is announced.
Answer ==
    /\ calls # <<>>
    /\ LET call == Head(calls)
           here == call.owner = bus.owner
           lists == here /\ call.kind = "register" /\ ~bus.item
       IN  /\ inbox' = inbox
                \o (IF lists THEN <<Message("signal", bus.owner, FALSE)>>
                    ELSE <<>>)
                \o <<Reply(call, here /\ (call.kind = "register" \/ Listed))>>
           /\ bus' = IF lists THEN [bus EXCEPT !.item = TRUE] ELSE bus
    /\ calls' = Tail(calls)
    /\ UNCHANGED <<st, sync, main, hidden, count>>

\* The watcher's process goes away, or another one takes the name.
OwnerChanges ==
    /\ \E up \in BOOLEAN :
        /\ up \/ bus.owner # 0
        /\ up => count.owners < MaxOwners
        /\ LET next == IF up THEN count.owners + 1 ELSE 0
           IN  /\ bus' = [owner |-> next, item |-> FALSE, host |-> up]
               /\ inbox' = Append(inbox, Message("owner", next, TRUE))
               /\ count' = [count EXCEPT !.owners = IF up THEN next ELSE @]
    /\ UNCHANGED <<st, calls, sync, main, hidden>>

\* The watcher drops the item, or its host (the panel) comes or goes.
Changes ==
    /\ bus.owner # 0 /\ count.changes < MaxChanges
    /\ \/ bus.item /\ bus' = [bus EXCEPT !.item = FALSE]
       \/ bus' = [bus EXCEPT !.host = ~@]
    /\ inbox' = Append(inbox, Message("signal", bus.owner, bus'.host /\ ~bus.host))
    /\ count' = [count EXCEPT !.changes = @ + 1]
    /\ UNCHANGED <<st, calls, sync, main, hidden>>

-----------------------------------------------------------------------------
(* The main thread.  A close asks verify_sync and hides the window in the  *)
(* same task; a Recover is a task of its own.                              *)

\* NativeTray::registered, called by a close.
Check ==
    /\ ~hidden /\ ~sync.on /\ HasOwner(st) /\ count.checks < MaxChecks
    /\ st' = [st EXCEPT !.rev = @ + 1]
    /\ sync' = [NoSync EXCEPT !.on = TRUE, !.owner = st.owner, !.gen = st.gen,
                              !.rev = st.rev + 1]
    /\ count' = [count EXCEPT !.checks = @ + 1]
    /\ UNCHANGED <<bus, calls, inbox, main, hidden>>

\* The watcher's answer to it, or an error.
CheckAnswered ==
    /\ sync.on /\ ~sync.got
    /\ sync' = [sync EXCEPT !.got = TRUE,
                            !.value = Listed /\ bus.owner = sync.owner]
    /\ UNCHANGED <<st, bus, calls, inbox, main, hidden, count>>

CheckTimesOut ==
    /\ sync.on /\ ~sync.got /\ "sync" \in Faults /\ count.faults < MaxFaults
    /\ sync' = [sync EXCEPT !.got = TRUE]
    /\ count' = [count EXCEPT !.faults = @ + 1]
    /\ UNCHANGED <<st, bus, calls, inbox, main, hidden>>

\* The answer is applied; the window is hidden when it was yes and current.
Hide ==
    /\ sync.on /\ sync.got
    /\ \E d \in {Apply(st, sync.owner, sync.gen, sync.value, sync.rev)} :
        /\ Doing(d)
        /\ hidden' = (/\ Current(st, sync.owner, sync.gen, sync.rev)
                      /\ d.st.registered)
    /\ sync' = NoSync
    /\ UNCHANGED <<bus, inbox, count>>

\* show_window, run by a queued Recover.
Recovered ==
    /\ ~sync.on /\ main
    /\ main' = FALSE /\ hidden' = FALSE
    /\ UNCHANGED <<st, bus, calls, inbox, sync, count>>

\* The user opens the window from the item.
Open ==
    /\ hidden /\ ~main /\ Listed
    /\ main' = TRUE
    /\ UNCHANGED <<st, bus, calls, inbox, sync, hidden, count>>

\* The connection is lost: the closed handler stops the client.
BusClosed ==
    /\ st.running /\ count.changes < MaxChanges
    /\ Doing(Did([st EXCEPT !.running = FALSE, !.registered = FALSE,
                            !.gen = @ + 1], <<>>, TRUE))
    /\ count' = [count EXCEPT !.changes = @ + 1]
    /\ UNCHANGED <<bus, inbox, sync, hidden>>

\* tray::set_enabled starts a client again: a new connection and a new state.
Restart ==
    /\ ~st.running /\ ~sync.on
    /\ st' = Fresh
    /\ bus' = [bus EXCEPT !.item = FALSE]
    /\ calls' = <<>>
    /\ inbox' = <<Message("first", bus.owner, TRUE)>>
    /\ UNCHANGED <<sync, main, hidden, count>>

Next ==
    \/ Deliver \/ Answer \/ OwnerChanges \/ Changes \/ BusClosed \/ Restart
    \/ \E i \in 1..Len(calls) : TimesOut(i)
    \/ Check \/ CheckAnswered \/ CheckTimesOut \/ Hide \/ Recovered \/ Open

\* The bus and both threads keep going; the desktop may stay as it is.
Spec ==
    /\ Init /\ [][Next]_vars
    /\ WF_vars(Deliver) /\ WF_vars(Answer)
    /\ WF_vars(CheckAnswered) /\ WF_vars(Hide) /\ WF_vars(Recovered)

-----------------------------------------------------------------------------
(* Properties.                                                             *)

TypeOK ==
    /\ st \in [running : BOOLEAN, owner : 0..MaxOwners, gen : Nat,
               accepted : BOOLEAN, registered : BOOLEAN, pending : BOOLEAN,
               dirty : BOOLEAN, rev : Nat]
    /\ st.registered => st.running /\ st.owner # 0
    /\ bus \in [owner : 0..MaxOwners, item : BOOLEAN, host : BOOLEAN]
    /\ main \in BOOLEAN /\ hidden \in BOOLEAN

\* A hidden window has a registered item, or its recovery is queued: whatever
\* verify_sync said is void once a callback has overtaken it (watcher.rs,
\* query_revision).
HiddenRegistered == hidden => st.registered \/ main

-----------------------------------------------------------------------------
(* Proofs: HiddenRegistered, for any number of watchers, changes, checks   *)
(* and faults.  Every callback that takes the registration away asks for   *)
(* the window, whatever it calls in turn (Keeps, ThenKeeps); a client that *)
(* has stopped has no registration left to take away.                      *)

States ==
    [running : BOOLEAN, owner : Nat, gen : Nat, accepted : BOOLEAN, registered : BOOLEAN,
     pending : BOOLEAN, dirty : BOOLEAN, rev : Nat]
Calls == [kind : {"register", "query"}, owner : Nat, gen : Nat, rev : Nat]
Messages ==
    [kind : {"owner", "first", "signal", "register", "query"}, owner : Nat, gen : Nat,
     rev : Nat, ok : BOOLEAN]
Syncs ==
    [on : BOOLEAN, owner : Nat, gen : Nat, rev : Nat, got : BOOLEAN, value : BOOLEAN]
Buses == [owner : Nat, item : BOOLEAN, host : BOOLEAN]
Counts == [owners : Nat, changes : Nat, checks : Nat, faults : Nat]

Typed ==
    /\ st \in States /\ bus \in Buses /\ sync \in Syncs /\ count \in Counts
    /\ calls \in Seq(Calls) /\ inbox \in Seq(Messages)
    /\ main \in BOOLEAN /\ hidden \in BOOLEAN

Runs(s) == s.registered => s.running
TInv == Typed /\ Runs(st) /\ HiddenRegistered

\* A callback's effect on a state.
Keeps(s, d) ==
    /\ d.st \in States /\ d.out \in Seq(Calls) /\ d.recover \in BOOLEAN
    /\ Runs(d.st)
    /\ s.registered => d.st.registered \/ d.recover

(* A callback that leaves the registration and whether the client runs. *)
LEMMA SameKeeps ==
    ASSUME NEW s \in States, Runs(s), NEW t \in States, NEW out \in Seq(Calls),
           t.registered = s.registered, t.running = s.running
    PROVE  Keeps(s, Did(t, out, FALSE))
<1>1. Did(t, out, FALSE).st = t /\ Did(t, out, FALSE).out = out
  BY DEF Did
<1>2. Did(t, out, FALSE).recover \in BOOLEAN
  BY DEF Did
<1>3. Runs(t) /\ (s.registered => t.registered)
  BY DEF Runs
<1> QED
  BY <1>1, <1>2, <1>3 DEF Keeps

LEMMA ThenKeeps ==
    ASSUME NEW s, NEW a, NEW b, Keeps(s, a), Keeps(a.st, b)
    PROVE  Keeps(s, Then(a, b))
<1>1. Then(a, b).st = b.st /\ Then(a, b).out = a.out \o b.out
  BY DEF Then, Did
<1>2. Then(a, b).recover = (a.recover \/ b.recover)
  BY DEF Then, Did
<1>3. a.out \o b.out \in Seq(Calls)
  BY DEF Keeps
<1>4. (a.recover \/ b.recover) \in BOOLEAN /\ b.st \in States /\ Runs(b.st)
  BY DEF Keeps
<1>5. s.registered => b.st.registered \/ (a.recover \/ b.recover)
  BY DEF Keeps
<1> QED
  BY <1>1, <1>2, <1>3, <1>4, <1>5 DEF Keeps

LEMMA RegisterKeeps ==
    ASSUME NEW s \in States, Runs(s)
    PROVE  Keeps(s, Register(s))
<1>1. PICK out : out = IF HasOwner(s) THEN <<Call("register", s.owner, s.gen, 0)>> ELSE <<>>
  OBVIOUS
<1>2. Call("register", s.owner, s.gen, 0) \in Calls
  BY DEF Call, Calls, States
<1>3. out \in Seq(Calls)
  BY <1>1, <1>2
<1> QED
  BY <1>1, <1>3, SameKeeps DEF Register

LEMMA RefreshKeeps ==
    ASSUME NEW s \in States, Runs(s)
    PROVE  Keeps(s, Refresh(s))
<1>1. <<>> \in Seq(Calls)
  OBVIOUS
<1>2. CASE ~HasOwner(s) \/ ~s.accepted
  <2>1. Refresh(s) = Did(s, <<>>, FALSE)
    BY <1>2 DEF Refresh
  <2> QED
    BY <1>1, <2>1, SameKeeps
<1>3. CASE ~(~HasOwner(s) \/ ~s.accepted) /\ s.pending
  <2>1. PICK t : t = [s EXCEPT !.dirty = TRUE]
    OBVIOUS
  <2>2. t \in States /\ t.registered = s.registered /\ t.running = s.running
    BY <2>1 DEF States
  <2>3. Refresh(s) = Did(t, <<>>, FALSE)
    BY <1>3, <2>1 DEF Refresh
  <2> QED
    BY <1>1, <2>2, <2>3, SameKeeps
<1>4. CASE ~(~HasOwner(s) \/ ~s.accepted) /\ ~s.pending
  <2>1. PICK n \in Nat : n = s.rev + 1
    BY DEF States
  <2>2. PICK t : t = [s EXCEPT !.pending = TRUE, !.rev = n]
    OBVIOUS
  <2>3. t \in States /\ t.registered = s.registered /\ t.running = s.running
    BY <2>1, <2>2 DEF States
  <2>4. PICK out : out = <<Call("query", s.owner, s.gen, n)>>
    OBVIOUS
  <2>5. out \in Seq(Calls)
    BY <2>1, <2>4 DEF Call, Calls, States
  <2>6. Refresh(s) = Did(t, out, FALSE)
    BY <1>4, <2>1, <2>2, <2>4 DEF Refresh
  <2> QED
    BY <2>3, <2>5, <2>6, SameKeeps
<1> QED
  BY <1>2, <1>3, <1>4

(* An answer that is applied says whether it took the registration away. *)
LEMMA ApplyKeeps ==
    ASSUME NEW s \in States, Runs(s), NEW owner, NEW gen, NEW value \in BOOLEAN, NEW rev
    PROVE  Keeps(s, Apply(s, owner, gen, value, rev))
<1>1. <<>> \in Seq(Calls)
  OBVIOUS
<1>2. CASE ~Current(s, owner, gen, rev)
  <2>1. Apply(s, owner, gen, value, rev) = Did(s, <<>>, FALSE)
    BY <1>2 DEF Apply
  <2> QED
    BY <1>1, <2>1, SameKeeps
<1>3. CASE Current(s, owner, gen, rev)
  <2>1. PICK r \in BOOLEAN : r = (value /\ s.accepted)
    OBVIOUS
  <2>2. PICK t : t = [s EXCEPT !.registered = r]
    OBVIOUS
  <2>3. t \in States /\ t.registered = r /\ t.running = s.running
    BY <2>1, <2>2 DEF States
  <2>4. s.running
    BY <1>3 DEF Current
  <2>5. PICK a \in BOOLEAN : a = (s.registered /\ ~r)
    OBVIOUS
  <2>6. Apply(s, owner, gen, value, rev) = Did(t, <<>>, a)
    BY <1>3, <2>1, <2>2, <2>5 DEF Apply
  <2>7. Did(t, <<>>, a).st = t /\ Did(t, <<>>, a).out = <<>> /\ Did(t, <<>>, a).recover = a
    BY DEF Did
  <2>8. Runs(t) /\ (s.registered => t.registered \/ a)
    BY <2>3, <2>4, <2>5 DEF Runs
  <2> QED
    BY <1>1, <2>3, <2>5, <2>6, <2>7, <2>8 DEF Keeps
<1> QED
  BY <1>2, <1>3

LEMMA OnOwnerKeeps ==
    ASSUME NEW s \in States, Runs(s), NEW owner \in Nat
    PROVE  Keeps(s, OnOwner(s, owner))
<1>1. PICK g, r \in Nat : g = s.gen + 1 /\ r = s.rev + 1
  BY DEF States
<1>2. PICK t : t = [s EXCEPT !.gen = g, !.owner = owner, !.accepted = FALSE,
                             !.registered = FALSE, !.pending = FALSE, !.dirty = FALSE,
                             !.rev = r]
  OBVIOUS
<1>3. t \in States /\ ~t.registered
  BY <1>1, <1>2 DEF States
<1>4. PICK d : d = ReplaceOwner(s, owner)
  OBVIOUS
<1>5. d = Did(t, <<>>, s.registered)
  BY <1>1, <1>2, <1>4 DEF ReplaceOwner
<1>6. d.st = t /\ d.out = <<>> /\ d.recover = s.registered
  BY <1>5 DEF Did
<1>7. Keeps(s, d)
  <2>1. s.registered \in BOOLEAN
    BY DEF States
  <2>2. <<>> \in Seq(Calls)
    OBVIOUS
  <2> QED
    BY <1>3, <1>6, <2>1, <2>2 DEF Keeps, Runs
<1>8. Keeps(d.st, Register(d.st))
  BY <1>3, <1>6, RegisterKeeps DEF Runs
<1>9. Keeps(s, Then(d, Register(d.st)))
  BY <1>7, <1>8, ThenKeeps
<1> QED
  BY <1>4, <1>9 DEF OnOwner

LEMMA OnSignalKeeps ==
    ASSUME NEW s \in States, Runs(s), NEW owner, NEW hostCame
    PROVE  Keeps(s, OnSignal(s, owner, hostCame))
<1>1. Keeps(s, Did(s, <<>>, FALSE))
  <2>1. <<>> \in Seq(Calls)
    OBVIOUS
  <2> QED
    BY <2>1, SameKeeps
<1>2. PICK d : d = IF hostCame /\ ~s.accepted THEN Register(s) ELSE Did(s, <<>>, FALSE)
  OBVIOUS
<1>3. Keeps(s, d)
  BY <1>1, <1>2, RegisterKeeps
<1>4. Keeps(d.st, Refresh(d.st))
  BY <1>3, RefreshKeeps DEF Keeps
<1>5. Keeps(s, Then(d, Refresh(d.st)))
  BY <1>3, <1>4, ThenKeeps
<1> QED
  BY <1>1, <1>2, <1>5 DEF OnSignal

LEMMA OnRegisteredKeeps ==
    ASSUME NEW s \in States, Runs(s), NEW call, NEW ok \in BOOLEAN
    PROVE  Keeps(s, OnRegistered(s, call, ok))
<1>1. Keeps(s, Did(s, <<>>, FALSE))
  <2>1. <<>> \in Seq(Calls)
    OBVIOUS
  <2> QED
    BY <2>1, SameKeeps
<1>2. PICK t : t = [s EXCEPT !.accepted = ok]
  OBVIOUS
<1>3. t \in States /\ t.registered = s.registered /\ t.running = s.running
  BY <1>2 DEF States
<1>4. Keeps(t, Refresh(t))
  BY <1>3, RefreshKeeps DEF Runs
<1>5. Keeps(s, Refresh(t))
  BY <1>3, <1>4 DEF Keeps
<1> QED
  BY <1>1, <1>2, <1>5 DEF OnRegistered

LEMMA OnQueriedKeeps ==
    ASSUME NEW s \in States, Runs(s), NEW call, NEW value \in BOOLEAN
    PROVE  Keeps(s, OnQueried(s, call, value))
<1>1. Keeps(s, Did(s, <<>>, FALSE))
  <2>1. <<>> \in Seq(Calls)
    OBVIOUS
  <2> QED
    BY <2>1, SameKeeps
<1>2. PICK t : t = [s EXCEPT !.pending = FALSE, !.dirty = FALSE]
  OBVIOUS
<1>3. t \in States /\ t.registered = s.registered /\ t.running = s.running
  BY <1>2 DEF States
<1>4. Keeps(t, Refresh(t)) /\ Keeps(t, Apply(t, call.owner, call.gen, value, call.rev))
  BY <1>3, RefreshKeeps, ApplyKeeps DEF Runs
<1>5. Keeps(s, Refresh(t)) /\ Keeps(s, Apply(t, call.owner, call.gen, value, call.rev))
  BY <1>3, <1>4 DEF Keeps
<1> QED
  BY <1>1, <1>2, <1>5 DEF OnQueried

LEMMA OnMessageKeeps ==
    ASSUME NEW s \in States, Runs(s), NEW m \in Messages
    PROVE  Keeps(s, OnMessage(s, m))
<1>1. Keeps(s, Did(s, <<>>, FALSE))
  <2>1. <<>> \in Seq(Calls)
    OBVIOUS
  <2> QED
    BY <2>1, SameKeeps
<1>2. m.owner \in Nat /\ m.ok \in BOOLEAN
  BY DEF Messages
<1>3. m.kind \in {"owner", "first", "signal", "register", "query"}
  BY DEF Messages
<1>4. Keeps(s, OnOwner(s, m.owner))
  BY <1>2, OnOwnerKeeps
<1>5. Keeps(s, OnSignal(s, m.owner, m.ok))
  BY OnSignalKeeps
<1>6. Keeps(s, OnRegistered(s, m, m.ok)) /\ Keeps(s, OnQueried(s, m, m.ok))
  BY <1>2, OnRegisteredKeeps, OnQueriedKeeps
<1> QED
  BY <1>1, <1>3, <1>4, <1>5, <1>6 DEF OnMessage

(* Taking what a callback did keeps the window reachable. *)
LEMMA DoingKeeps ==
    ASSUME TInv, NEW d, Keeps(st, d), Doing(d)
    PROVE  /\ st' \in States /\ calls' \in Seq(Calls) /\ main' \in BOOLEAN /\ Runs(st')
           /\ hidden => st'.registered \/ main'
<1>1. st' = d.st /\ calls' = calls \o d.out /\ main' = (main \/ d.recover)
  BY DEF Doing
<1>2. st' \in States /\ Runs(st')
  BY <1>1 DEF Keeps
<1>3. calls' \in Seq(Calls)
  BY <1>1 DEF Keeps, TInv, Typed
<1>4. main' \in BOOLEAN
  BY <1>1
<1>5. hidden => st'.registered \/ main'
  BY <1>1 DEF Keeps, TInv, HiddenRegistered
<1> QED
  BY <1>2, <1>3, <1>4, <1>5

LEMMA ReplyType ==
    ASSUME NEW call \in Calls, NEW ok \in BOOLEAN
    PROVE  Reply(call, ok) \in Messages
BY DEF Reply, Calls, Messages

LEMMA MessageType ==
    ASSUME NEW kind \in {"owner", "first", "signal"}, NEW owner \in Nat, NEW ok \in BOOLEAN
    PROVE  Message(kind, owner, ok) \in Messages
BY DEF Message, Messages

LEMMA TInit == Init => TInv
<1> SUFFICES ASSUME Init PROVE TInv
  OBVIOUS
<1>1. PICK up, host \in BOOLEAN :
        /\ bus = [owner |-> IF up THEN 1 ELSE 0, item |-> FALSE, host |-> host]
        /\ inbox = <<Message("first", IF up THEN 1 ELSE 0, TRUE)>>
        /\ count = [owners |-> IF up THEN 1 ELSE 0, changes |-> 0,
                    checks |-> 0, faults |-> 0]
  BY DEF Init
<1>2. PICK n \in Nat : n = IF up THEN 1 ELSE 0
  OBVIOUS
<1>3. bus \in Buses
  BY <1>1, <1>2 DEF Buses
<1>4. inbox \in Seq(Messages)
  <2>1. PICK m \in Messages : m = Message("first", n, TRUE)
    BY MessageType
  <2>2. inbox = <<m>>
    BY <1>1, <1>2, <2>1
  <2> QED
    BY <2>2
<1>5. count \in Counts
  BY <1>1, <1>2 DEF Counts
<1>6. st \in States /\ ~st.registered
  BY DEF Init, Fresh, States
<1>7. sync \in Syncs
  BY DEF Init, NoSync, Syncs
<1>8. calls \in Seq(Calls) /\ main = FALSE /\ hidden = FALSE
  BY DEF Init
<1> QED
  BY <1>3, <1>4, <1>5, <1>6, <1>7, <1>8 DEF TInv, Typed, Runs, HiddenRegistered

LEMMA DeliverKeeps == TInv /\ Deliver => TInv'
<1> SUFFICES ASSUME TInv, Deliver PROVE TInv'
  OBVIOUS
<1>1. Head(inbox) \in Messages /\ inbox' \in Seq(Messages)
  BY DEF TInv, Typed, Deliver
<1>2. PICK d : d = OnMessage(st, Head(inbox)) /\ Doing(d)
  BY DEF Deliver
<1>3. PICK m \in Messages : m = Head(inbox)
  BY <1>1
<1>4. Keeps(st, d)
  BY <1>2, <1>3, OnMessageKeeps DEF TInv, Typed
<1>5. /\ st' \in States /\ calls' \in Seq(Calls) /\ main' \in BOOLEAN /\ Runs(st')
      /\ hidden => st'.registered \/ main'
  BY <1>2, <1>4, DoingKeeps
<1> QED
  BY <1>1, <1>5 DEF Deliver, TInv, Typed, HiddenRegistered

(* Steps of the desktop leave the client's state and the window alone. *)
LEMMA DesktopKeeps ==
    ASSUME TInv, UNCHANGED <<st, main, hidden>>, bus' \in Buses, sync' \in Syncs,
           count' \in Counts, calls' \in Seq(Calls), inbox' \in Seq(Messages)
    PROVE  TInv'
BY DEF TInv, Typed, Runs, HiddenRegistered

LEMMA TimesOutKeeps == TInv /\ (\E i \in 1..Len(calls) : TimesOut(i)) => TInv'
<1> SUFFICES ASSUME TInv, NEW i \in 1..Len(calls), TimesOut(i) PROVE TInv'
  OBVIOUS
<1>1. calls \in Seq(Calls) /\ inbox \in Seq(Messages)
  BY DEF TInv, Typed
<1>2. calls[i] \in Calls
  BY <1>1
<1>3. PICK r \in Messages : r = Reply(calls[i], FALSE)
  BY <1>2, ReplyType
<1>4. inbox' \in Seq(Messages)
  <2>1. inbox' = Append(inbox, r)
    BY <1>3 DEF TimesOut
  <2> QED
    BY <1>1, <2>1
<1>5. /\ SubSeq(calls, 1, i - 1) \in Seq(Calls)
      /\ SubSeq(calls, i + 1, Len(calls)) \in Seq(Calls)
  BY <1>1
<1>6. calls' \in Seq(Calls)
  BY <1>5 DEF TimesOut
<1>7. count' \in Counts
  <2>1. PICK n \in Nat : n = count.faults + 1
    BY DEF TInv, Typed, Counts
  <2>2. count' = [count EXCEPT !.faults = n]
    BY <2>1 DEF TimesOut
  <2> QED
    BY <2>1, <2>2 DEF TInv, Typed, Counts
<1>8. UNCHANGED <<st, main, hidden>> /\ bus' \in Buses /\ sync' \in Syncs
  BY DEF TimesOut, TInv, Typed
<1> QED
  BY <1>4, <1>6, <1>7, <1>8, DesktopKeeps

LEMMA AnswerKeeps == TInv /\ Answer => TInv'
<1> SUFFICES ASSUME TInv, Answer PROVE TInv'
  OBVIOUS
<1>1. calls \in Seq(Calls) /\ inbox \in Seq(Messages) /\ bus \in Buses
  BY DEF TInv, Typed
<1>2. Head(calls) \in Calls /\ calls' \in Seq(Calls)
  BY <1>1 DEF Answer
<1>3. PICK call \in Calls : call = Head(calls)
  BY <1>2
<1>4. PICK here, lists, ok \in BOOLEAN :
        /\ here = (call.owner = bus.owner)
        /\ lists = (here /\ call.kind = "register" /\ ~bus.item)
        /\ ok = (here /\ (call.kind = "register" \/ Listed))
  OBVIOUS
<1>5. PICK r \in Messages : r = Reply(call, ok)
  BY ReplyType
<1>6. PICK m \in Messages : m = Message("signal", bus.owner, FALSE)
  BY <1>1, MessageType DEF Buses
<1>7. inbox' \in Seq(Messages)
  <2>1. PICK out : out = IF lists THEN <<m>> ELSE <<>>
    OBVIOUS
  <2>2. out \in Seq(Messages) /\ <<r>> \in Seq(Messages)
    BY <2>1
  <2>3. inbox' = inbox \o out \o <<r>>
    BY <1>3, <1>4, <1>5, <1>6, <2>1 DEF Answer
  <2> QED
    BY <1>1, <2>2, <2>3
<1>8. bus' \in Buses
  BY <1>1 DEF Answer, Buses
<1>9. UNCHANGED <<st, main, hidden>> /\ count' \in Counts /\ sync' \in Syncs
  BY DEF Answer, TInv, Typed
<1> QED
  BY <1>2, <1>7, <1>8, <1>9, DesktopKeeps

LEMMA OwnerChangesKeeps == TInv /\ OwnerChanges => TInv'
<1> SUFFICES ASSUME TInv, OwnerChanges PROVE TInv'
  OBVIOUS
<1>1. inbox \in Seq(Messages) /\ count \in Counts
  BY DEF TInv, Typed
<1>2. PICK up \in BOOLEAN :
        LET next == IF up THEN count.owners + 1 ELSE 0
        IN  /\ bus' = [owner |-> next, item |-> FALSE, host |-> up]
            /\ inbox' = Append(inbox, Message("owner", next, TRUE))
            /\ count' = [count EXCEPT !.owners = IF up THEN next ELSE @]
  BY DEF OwnerChanges
<1>3. PICK n \in Nat : n = IF up THEN count.owners + 1 ELSE 0
  BY <1>1 DEF Counts
<1>4. PICK o \in Nat : o = IF up THEN n ELSE count.owners
  BY <1>1 DEF Counts
<1>5. bus' \in Buses
  <2>1. bus' = [owner |-> n, item |-> FALSE, host |-> up]
    BY <1>2, <1>3
  <2> QED
    BY <2>1 DEF Buses
<1>6. inbox' \in Seq(Messages)
  <2>1. PICK m \in Messages : m = Message("owner", n, TRUE)
    BY MessageType
  <2>2. inbox' = Append(inbox, m)
    BY <1>2, <1>3, <2>1
  <2> QED
    BY <1>1, <2>2
<1>7. count' \in Counts
  <2>1. count' = [count EXCEPT !.owners = o]
    BY <1>2, <1>3, <1>4
  <2> QED
    BY <1>1, <2>1 DEF Counts
<1>8. UNCHANGED <<st, main, hidden>> /\ calls' \in Seq(Calls) /\ sync' \in Syncs
  BY DEF OwnerChanges, TInv, Typed
<1> QED
  BY <1>5, <1>6, <1>7, <1>8, DesktopKeeps

LEMMA ChangesKeeps == TInv /\ Changes => TInv'
<1> SUFFICES ASSUME TInv, Changes PROVE TInv'
  OBVIOUS
<1>1. inbox \in Seq(Messages) /\ bus \in Buses /\ count \in Counts
  BY DEF TInv, Typed
<1>2. bus' \in Buses
  BY <1>1 DEF Changes, Buses
<1>3. inbox' \in Seq(Messages)
  <2>1. PICK ok \in BOOLEAN : ok = (bus'.host /\ ~bus.host)
    OBVIOUS
  <2>2. bus.owner \in Nat
    BY <1>1 DEF Buses
  <2>3. PICK m \in Messages : m = Message("signal", bus.owner, ok)
    BY <2>2, MessageType
  <2>4. inbox' = Append(inbox, m)
    BY <2>1, <2>3 DEF Changes
  <2> QED
    BY <1>1, <2>4
<1>4. count' \in Counts
  <2>1. PICK n \in Nat : n = count.changes + 1
    BY <1>1 DEF Counts
  <2>2. count' = [count EXCEPT !.changes = n]
    BY <2>1 DEF Changes
  <2> QED
    BY <1>1, <2>2 DEF Counts
<1>5. UNCHANGED <<st, main, hidden>> /\ calls' \in Seq(Calls) /\ sync' \in Syncs
  BY DEF Changes, TInv, Typed
<1> QED
  BY <1>2, <1>3, <1>4, <1>5, DesktopKeeps

LEMMA CheckKeeps == TInv /\ Check => TInv'
<1> SUFFICES ASSUME TInv, Check PROVE TInv'
  OBVIOUS
<1>1. st \in States /\ count \in Counts
  BY DEF TInv, Typed
<1>2. PICK r, c \in Nat : r = st.rev + 1 /\ c = count.checks + 1
  BY <1>1 DEF States, Counts
<1>3. st' = [st EXCEPT !.rev = r]
  BY <1>2 DEF Check
<1>4. st' \in States /\ st'.registered = st.registered /\ st'.running = st.running
  BY <1>1, <1>3 DEF States
<1>5. sync' \in Syncs
  <2>1. PICK o, g \in Nat : o = st.owner /\ g = st.gen
    BY <1>1 DEF States
  <2>2. sync' = [NoSync EXCEPT !.on = TRUE, !.owner = o, !.gen = g, !.rev = r]
    BY <1>2, <2>1 DEF Check
  <2> QED
    BY <2>2 DEF Syncs, NoSync
<1>6. count' \in Counts
  <2>1. count' = [count EXCEPT !.checks = c]
    BY <1>2 DEF Check
  <2> QED
    BY <1>1, <2>1 DEF Counts
<1>7. Runs(st') /\ HiddenRegistered'
  BY <1>4 DEF Check, TInv, Runs, HiddenRegistered
<1> QED
  BY <1>4, <1>5, <1>6, <1>7 DEF Check, TInv, Typed

LEMMA CheckEndsKeeps == TInv /\ (CheckAnswered \/ CheckTimesOut) => TInv'
<1> SUFFICES ASSUME TInv, CheckAnswered \/ CheckTimesOut PROVE TInv'
  OBVIOUS
<1>1. sync \in Syncs /\ count \in Counts
  BY DEF TInv, Typed
<1>2. sync' \in Syncs
  <2>1. PICK v \in BOOLEAN : v = (Listed /\ bus.owner = sync.owner)
    OBVIOUS
  <2>2. \/ sync' = [sync EXCEPT !.got = TRUE, !.value = v]
        \/ sync' = [sync EXCEPT !.got = TRUE]
    BY <2>1 DEF CheckAnswered, CheckTimesOut
  <2> QED
    BY <1>1, <2>2 DEF Syncs
<1>3. count' \in Counts
  <2>1. PICK n \in Nat : n = count.faults + 1
    BY <1>1 DEF Counts
  <2>2. count' = count \/ count' = [count EXCEPT !.faults = n]
    BY <2>1 DEF CheckAnswered, CheckTimesOut
  <2> QED
    BY <1>1, <2>2 DEF Counts
<1>4. /\ UNCHANGED <<st, main, hidden>> /\ bus' \in Buses
      /\ calls' \in Seq(Calls) /\ inbox' \in Seq(Messages)
  BY DEF CheckAnswered, CheckTimesOut, TInv, Typed
<1> QED
  BY <1>2, <1>3, <1>4, DesktopKeeps

(* The window is hidden on an answer that is current and leaves the item registered. *)
LEMMA HideKeeps == TInv /\ Hide => TInv'
<1> SUFFICES ASSUME TInv, Hide PROVE TInv'
  OBVIOUS
<1>1. st \in States /\ Runs(st) /\ sync.value \in BOOLEAN
  BY DEF TInv, Typed, Syncs
<1>2. PICK d : /\ d = Apply(st, sync.owner, sync.gen, sync.value, sync.rev)
               /\ Doing(d)
               /\ hidden' = (/\ Current(st, sync.owner, sync.gen, sync.rev)
                             /\ d.st.registered)
  BY DEF Hide
<1>3. Keeps(st, d)
  BY <1>1, <1>2, ApplyKeeps
<1>4. /\ st' \in States /\ calls' \in Seq(Calls) /\ main' \in BOOLEAN /\ Runs(st')
      /\ hidden => st'.registered \/ main'
  BY <1>2, <1>3, DoingKeeps
<1>5. hidden' \in BOOLEAN
  BY <1>2
<1>6. hidden' => st'.registered
  BY <1>2 DEF Doing
<1>7. sync' \in Syncs
  BY DEF Hide, NoSync, Syncs
<1> QED
  BY <1>4, <1>5, <1>6, <1>7 DEF Hide, TInv, Typed, HiddenRegistered

LEMMA WindowKeeps == TInv /\ (Recovered \/ Open) => TInv'
BY DEF Recovered, Open, TInv, Typed, Runs, HiddenRegistered

LEMMA BusClosedKeeps == TInv /\ BusClosed => TInv'
<1> SUFFICES ASSUME TInv, BusClosed PROVE TInv'
  OBVIOUS
<1>1. st \in States /\ count \in Counts /\ calls \in Seq(Calls)
  BY DEF TInv, Typed
<1>2. PICK g, c \in Nat : g = st.gen + 1 /\ c = count.changes + 1
  BY <1>1 DEF States, Counts
<1>3. PICK d : d = Did([st EXCEPT !.running = FALSE, !.registered = FALSE, !.gen = g],
                       <<>>, TRUE)
  OBVIOUS
<1>4. Doing(d)
  BY <1>2, <1>3 DEF BusClosed
<1>5. d.st = [st EXCEPT !.running = FALSE, !.registered = FALSE, !.gen = g] /\ d.out = <<>>
  BY <1>3 DEF Did
<1>6. d.st \in States /\ ~d.st.registered
  BY <1>1, <1>5 DEF States
<1>7. d.recover = TRUE
  BY <1>3 DEF Did
<1>8. Keeps(st, d)
  <2>1. <<>> \in Seq(Calls)
    OBVIOUS
  <2> QED
    BY <1>5, <1>6, <1>7, <2>1 DEF Keeps, Runs
<1>9. /\ st' \in States /\ calls' \in Seq(Calls) /\ main' \in BOOLEAN /\ Runs(st')
      /\ hidden => st'.registered \/ main'
  BY <1>4, <1>8, DoingKeeps
<1>10. count' \in Counts
  <2>1. count' = [count EXCEPT !.changes = c]
    BY <1>2 DEF BusClosed
  <2> QED
    BY <1>1, <2>1 DEF Counts
<1> QED
  BY <1>9, <1>10 DEF BusClosed, TInv, Typed, HiddenRegistered

(* A client that has stopped has no registration, so its successor loses none. *)
LEMMA RestartKeeps == TInv /\ Restart => TInv'
<1> SUFFICES ASSUME TInv, Restart PROVE TInv'
  OBVIOUS
<1>1. hidden => main
  BY DEF Restart, TInv, Runs, HiddenRegistered
<1>2. st' \in States /\ ~st'.registered
  BY DEF Restart, Fresh, States
<1>3. bus \in Buses /\ bus' \in Buses
  BY DEF Restart, TInv, Typed, Buses
<1>4. inbox' \in Seq(Messages)
  <2>1. bus.owner \in Nat
    BY <1>3 DEF Buses
  <2>2. PICK m \in Messages : m = Message("first", bus.owner, TRUE)
    BY <2>1, MessageType
  <2>3. inbox' = <<m>>
    BY <2>2 DEF Restart
  <2> QED
    BY <2>3
<1>5. calls' \in Seq(Calls)
  BY DEF Restart
<1> QED
  BY <1>1, <1>2, <1>3, <1>4, <1>5 DEF Restart, TInv, Typed, Runs, HiddenRegistered

(* A hidden window has a registered item, or its recovery is queued: the callbacks of
   watcher.rs, verify_sync and the loss of the connection, in any order. *)
THEOREM HiddenRegisteredCorrect == Spec => []HiddenRegistered
<1>1. TInv /\ [Next]_vars => TInv'
  <2>1. TInv /\ UNCHANGED vars => TInv'
    BY DEF vars, TInv, Typed, Runs, HiddenRegistered
  <2> QED
    BY <2>1, DeliverKeeps, AnswerKeeps, OwnerChangesKeeps, ChangesKeeps, BusClosedKeeps,
        RestartKeeps, TimesOutKeeps, CheckKeeps, CheckEndsKeeps, HideKeeps, WindowKeeps
        DEF Next
<1>2. TInv => HiddenRegistered
  BY DEF TInv
<1> QED
  BY <1>1, <1>2, TInit, PTL DEF Spec
=============================================================================
