---------------------------- MODULE SteamBridge ----------------------------
(***************************************************************************)
(* Steam starts a game through the wrapper redunar-steam-launch, which has *)
(* to find a capture session before it replaces itself by the game:        *)
(*                                                                         *)
(*   steam_session_bridge.rs   asks the application that owns the backend  *)
(*                             (starting one when there is none) to        *)
(*                             prepare a session for this game;            *)
(*   steam_launch_bridge.rs    claims the session's one-time activation,   *)
(*                             whose answer is the capture environment.    *)
(*                                                                         *)
(* Both are Unix sockets at fixed paths, served by a worker thread of the  *)
(* owner.  Ownership is a file lock (session_ownership.rs).  A wrapper     *)
(* fails open: whatever goes wrong, it runs the game.                      *)
(*                                                                         *)
(* A connection is identified by the wrapper and the step that made it: a  *)
(* request stays in the listener's queue when its wrapper stops waiting.   *)
(* Deadlines are actions enabled while somebody waits.                     *)
(***************************************************************************)
EXTENDS Integers, FiniteSets

CONSTANTS
    Apps,         \* application processes that may become the owner
    Wrappers,     \* wrapper processes started by Steam
    Games,        \* Steam app ids
    GameOf,       \* GameOf[w]: the app id the wrapper was started with
    None,         \* no owner, no wrapper
    MaxSessions,  \* bound: sessions begun
    MaxStarts,    \* bound: application starts
    MaxCrashes    \* bound: owners that die without cleaning up

VARIABLES
    app,       \* app[a]: "off", "starting", "owner", "closing"
    lease,     \* the application holding backend-owner-v1.lock, or None
    file,      \* file[p]: inode of the socket at path p, 0 if there is none
    listener,  \* listener[p]: inode the worker of p still listens on, or 0
    sess,      \* the session broker's worker
    act,       \* the activation broker: store and worker
    phase,     \* the capture session
    engine,    \* who holds the engine's lock
    pc,        \* pc[w]: where the wrapper is
    managed,   \* managed[w]: session whose environment the wrapper holds, or 0
    conn,      \* conn[w][s]: the connection the wrapper made in step s
    grant,     \* grant[w][s]: session the answer to step s names, or 0
    gaveUp,    \* sessions failed because Steam did not claim them in time
    count      \* [sessions, starts, crashes]: what the bounds limit

vars == <<app, lease, file, listener, sess, act, phase, engine, pc, managed,
          conn, grant, gaveUp, count>>
owner == <<app, lease, file, listener, sess, act, phase, engine>>

Paths == {"session", "activation"}
Steps == {"claim1", "ask", "claim2"}
Claims == {"claim1", "claim2"}
Inodes == 1..4

\* Path a step connects to.
PathOf(s) == IF s = "ask" THEN "session" ELSE "activation"

NoSess == [up |-> FALSE, ino |-> 0, stop |-> FALSE, got |-> None]
NoAct == [ino |-> 0, sid |-> 0, game |-> None, pending |-> FALSE,
          claimed |-> None, expired |-> FALSE, late |-> FALSE, stop |-> FALSE,
          worker |-> "done", got |-> None, step |-> "claim1"]

Init ==
    /\ app = [a \in Apps |-> "off"]
    /\ lease = None
    /\ file = [p \in Paths |-> 0]
    /\ listener = [p \in Paths |-> 0]
    /\ sess = NoSess
    /\ act = NoAct
    /\ phase = "idle"
    /\ engine = "free"
    /\ pc = [w \in Wrappers |-> "claim1"]
    /\ managed = [w \in Wrappers |-> 0]
    /\ conn = [w \in Wrappers |-> [s \in Steps |-> "none"]]
    /\ grant = [w \in Wrappers |-> [s \in Steps |-> 0]]
    /\ gaveUp = {}
    /\ count = [sessions |-> 0, starts |-> 0, crashes |-> 0]

\* Connections still with the listener of path p end when it is dropped.
Closed(p, c) ==
    [w \in Wrappers |-> [s \in Steps |->
        IF PathOf(s) = p /\ c[w][s] \in {"queued", "held"} THEN "eof"
        ELSE c[w][s]]]

\* An inode no socket file and no broker refers to.
FreshInode(f) ==
    CHOOSE i \in Inodes : i \notin {f[p] : p \in Paths} \cup {sess.ino, act.ino}

\* remove_socket_if_same: only the socket this broker made is unlinked.
RemovedIfSame(p, ino) == IF file[p] = ino THEN [file EXCEPT ![p] = 0] ELSE file

-----------------------------------------------------------------------------
(* Ownership and the session broker.                                       *)

\* The user opens Redunar.
StartApp(a) ==
    /\ app[a] = "off" /\ count.starts < MaxStarts
    /\ app' = [app EXCEPT ![a] = "starting"]
    /\ count' = [count EXCEPT !.starts = @ + 1]
    /\ UNCHANGED <<lease, file, listener, sess, act, phase, engine, pc,
                   managed, conn, grant, gaveUp>>

Reclaim(p) == listener[p] = 0

LeaseFree == lease = None

\* SessionLease::acquire and then Sessions::new; an application that does not
\* get the lease is read-only and, started for Steam, closes.
Acquire(a) ==
    /\ app[a] = "starting"
    /\ IF ~LeaseFree
         THEN /\ app' = [app EXCEPT ![a] = "off"]
              /\ UNCHANGED <<lease, file, listener, sess>>
         ELSE /\ app' = [app EXCEPT ![a] = "owner"]
              /\ lease' = a
              /\ IF Reclaim("session")
                   THEN LET i == FreshInode(file) IN
                        /\ file' = [file EXCEPT !["session"] = i]
                        /\ listener' = [listener EXCEPT !["session"] = i]
                        /\ sess' = [NoSess EXCEPT !.up = TRUE, !.ino = i]
                   ELSE UNCHANGED <<file, listener, sess>>
    /\ UNCHANGED <<act, phase, engine, pc, managed, conn, grant, gaveUp, count>>

Owns(a) == app[a] = "owner" /\ lease = a

\* Sessions::shutdown: the broker stops first and its worker is joined.
Closing(a) ==
    /\ Owns(a)
    /\ app' = [app EXCEPT ![a] = "closing"]
    /\ sess' = [sess EXCEPT !.stop = TRUE]
    /\ UNCHANGED <<lease, file, listener, act, phase, engine, pc, managed,
                   conn, grant, gaveUp, count>>

\* The broker's worker observes the stop between two connections.
SessionWorkerStops ==
    /\ sess.up /\ sess.stop /\ sess.got = None
    /\ listener["session"] = sess.ino
    /\ listener' = [listener EXCEPT !["session"] = 0]
    /\ conn' = Closed("session", conn)
    /\ UNCHANGED <<app, lease, file, sess, act, phase, engine, pc, managed,
                   grant, gaveUp, count>>

\* The rest of the shutdown, once the session has been ended: the socket
\* goes, and the process with its lease.
ClosedApp(a) ==
    /\ app[a] = "closing" /\ phase = "idle" /\ engine = "free"
    /\ ~sess.up \/ listener["session"] = 0
    /\ file' = IF sess.up THEN RemovedIfSame("session", sess.ino) ELSE file
    /\ sess' = NoSess
    /\ app' = [app EXCEPT ![a] = "off"]
    /\ lease' = None
    /\ UNCHANGED <<listener, act, phase, engine, pc, managed, conn, grant, gaveUp,
                   count>>

\* The owner dies: the kernel closes its sockets and releases its lock, the
\* socket files stay.
Crash(a) ==
    /\ lease = a /\ count.crashes < MaxCrashes
    /\ app' = [app EXCEPT ![a] = "off"]
    /\ lease' = None
    /\ listener' = [p \in Paths |-> 0]
    /\ conn' = Closed("session", Closed("activation", conn))
    /\ sess' = NoSess /\ act' = NoAct /\ phase' = "idle" /\ engine' = "free"
    /\ count' = [count EXCEPT !.crashes = @ + 1]
    /\ UNCHANGED <<file, pc, managed, grant, gaveUp>>

\* The worker takes a connection.
SessionAccept(w) ==
    /\ sess.up /\ ~sess.stop /\ sess.got = None
    /\ listener["session"] = sess.ino
    /\ conn[w]["ask"] = "queued"
    /\ sess' = [sess EXCEPT !.got = w]
    /\ conn' = [conn EXCEPT ![w]["ask"] = "held"]
    /\ UNCHANGED <<app, lease, file, listener, act, phase, engine, pc, managed,
                   grant, gaveUp, count>>

\* publish_steam_activation: a one-time activation for game g.
Published(g, i) ==
    [NoAct EXCEPT !.ino = i, !.sid = count.sessions + 1, !.game = g,
                  !.pending = TRUE, !.worker = "poll"]

\* attach_steam or launch, under the engine's lock: an idle owner arms a
\* session and binds its activation socket.
Arm(g) ==
    LET i == FreshInode(file) IN
    /\ engine = "free" /\ phase = "idle"
    /\ count.sessions < MaxSessions
    /\ Reclaim("activation")
    /\ file' = [file EXCEPT !["activation"] = i]
    /\ listener' = [listener EXCEPT !["activation"] = i]
    /\ act' = Published(g, i)
    /\ phase' = "armed"
    /\ count' = [count EXCEPT !.sessions = @ + 1]

\* The prepare callback and its answer; a request read after the stop is
\* refused, as is one while another game is active.
SessionAnswer(w) ==
    /\ sess.got = w /\ engine = "free"
    /\ sess' = [sess EXCEPT !.got = None]
    /\ \/ /\ ~sess.stop /\ Arm(GameOf[w])
          /\ conn' = [conn EXCEPT ![w]["ask"] = "yes"]
       \/ \* stopped, busy, or the plan or the begin failed
          /\ conn' = [conn EXCEPT ![w]["ask"] = "no"]
          /\ UNCHANGED <<file, listener, act, phase, count, grant>>
    /\ UNCHANGED <<app, lease, engine, pc, managed, grant, gaveUp>>

\* The user launches a Steam game from Redunar.
Launch(a, g) ==
    /\ Owns(a) /\ Arm(g)
    /\ UNCHANGED <<app, lease, sess, engine, pc, managed, conn, grant, gaveUp>>

-----------------------------------------------------------------------------
(* The activation broker's worker.                                         *)

\* broker_loop returns: the listener is dropped with its queue.
WorkerReturns(c) ==
    /\ listener' = [listener EXCEPT !["activation"] = 0]
    /\ conn' = Closed("activation", c)

WorkerStops ==
    /\ act.worker = "poll"
    /\ act.stop \/ act.expired
    /\ act' = [act EXCEPT !.worker = "done"]
    /\ WorkerReturns(conn)
    /\ UNCHANGED <<app, lease, file, sess, phase, engine, pc, managed, grant, gaveUp,
                   count>>

WorkerAccept(w, s) ==
    /\ act.worker = "poll" /\ ~act.stop /\ ~act.expired
    /\ conn[w][s] = "queued"
    /\ act' = [act EXCEPT !.worker = "got", !.got = w, !.step = s]
    /\ conn' = [conn EXCEPT ![w][s] = "held"]
    /\ UNCHANGED <<app, lease, file, listener, sess, phase, engine, pc,
                   managed, grant, gaveUp, count>>

Granted(w) == act.pending /\ ~act.expired /\ act.game = GameOf[w]

\* The store after the request: an expired activation is dropped, another
\* game's request leaves it in place.
Claim(w) ==
    [act EXCEPT !.pending = @ /\ ~act.expired /\ ~Granted(w),
                !.claimed = IF Granted(w) THEN w ELSE @]

\* The worker drops a connection it accepted when stopped meanwhile; it
\* claims and answers otherwise, and returns once the activation is claimed.
WorkerAnswer ==
    LET w == act.got s == act.step IN
    /\ act.worker = "got"
    /\ IF act.stop
         THEN /\ act' = [act EXCEPT !.worker = "done", !.got = None]
              /\ WorkerReturns(conn)
              /\ UNCHANGED grant
         ELSE LET next == [Claim(w) EXCEPT !.got = None]
                  c == [conn EXCEPT ![w][s] = IF Granted(w) THEN "yes" ELSE "no"]
              IN /\ grant' = IF Granted(w) THEN [grant EXCEPT ![w][s] = act.sid] ELSE grant
                 /\ \/ /\ next.claimed # None
                       /\ act' = [next EXCEPT !.worker = "done"]
                       /\ WorkerReturns(c)
                    \/ /\ next.claimed = None
                       /\ act' = [next EXCEPT !.worker = "poll"]
                       /\ conn' = c
                       /\ UNCHANGED listener
    /\ UNCHANGED <<app, lease, file, sess, phase, engine, pc, managed, gaveUp,
                   count>>

\* MAX_STEAM_ACTIVATION_TTL passes.
Expire ==
    /\ phase = "armed" /\ act.claimed = None /\ ~act.expired
    /\ act' = [act EXCEPT !.expired = TRUE]
    /\ UNCHANGED <<app, lease, file, listener, sess, phase, engine, pc,
                   managed, conn, grant, gaveUp, count>>

\* STEAM_PRODUCER_STARTUP_GRACE passes after the claim.
Late ==
    /\ phase = "armed" /\ act.claimed # None /\ ~act.late
    /\ act' = [act EXCEPT !.late = TRUE]
    /\ UNCHANGED <<app, lease, file, listener, sess, phase, engine, pc,
                   managed, conn, grant, gaveUp, count>>

-----------------------------------------------------------------------------
(* The engine observes the session: PendingActivationStore::state reads    *)
(* claimed_at first and the pending activation under its own lock after.   *)

ObserveClaim ==
    /\ phase = "armed" /\ engine = "free"
    /\ IF act.claimed # None
         THEN \* startup_clock is Elapsed: keep waiting for the producer,
              \* or fail once the grace is over
              /\ act.late
              /\ engine' = "ending"
              /\ act' = [act EXCEPT !.stop = TRUE]
         ELSE engine' = "observing" /\ UNCHANGED act
    /\ UNCHANGED <<app, lease, file, listener, sess, phase, pc, managed, conn,
                   grant, gaveUp, count>>

Pending == act.pending /\ ~act.expired

ObservePending ==
    /\ engine = "observing"
    /\ IF Pending
         THEN engine' = "free" /\ UNCHANGED <<act, gaveUp>>
         ELSE /\ engine' = "ending"
              /\ act' = [act EXCEPT !.stop = TRUE]
              /\ gaveUp' = gaveUp \cup {act.sid}
    /\ UNCHANGED <<app, lease, file, listener, sess, phase, pc, managed, conn,
                   count, grant>>

\* The user ends the session, the game is gone, or the application closes.
End ==
    /\ phase # "idle" /\ engine = "free"
    /\ \/ phase = "capturing"
       \/ \E a \in Apps : app[a] = "closing"
    /\ engine' = "ending"
    /\ act' = [act EXCEPT !.stop = TRUE]
    /\ UNCHANGED <<app, lease, file, listener, sess, phase, pc, managed, conn,
                   grant, gaveUp, count>>

\* SteamActivationBroker::shutdown joined its worker; the capture session's
\* directory is removed with it.
Ended ==
    /\ engine = "ending" /\ act.worker = "done"
    /\ file' = RemovedIfSame("activation", act.ino)
    /\ act' = NoAct
    /\ phase' = "idle"
    /\ engine' = "free"
    /\ UNCHANGED <<app, lease, listener, sess, pc, managed, conn, grant, gaveUp, count>>

\* The game's capture layer finds its session's socket.
Attach(w) ==
    /\ pc[w] = "exec" /\ managed[w] = act.sid /\ act.sid # 0
    /\ phase = "armed" /\ engine # "ending"
    /\ phase' = "capturing"
    /\ UNCHANGED <<app, lease, file, listener, sess, act, engine, pc, managed,
                   conn, grant, gaveUp, count>>

-----------------------------------------------------------------------------
(* The wrapper: resolve_steam_wrapper_environment, ensure_steam_session,   *)
(* resolve_steam_wrapper_environment once more, exec.                      *)

\* What follows a claim that yielded no environment.
AfterClaim(s) == IF s = "claim1" THEN "ask" ELSE "exec"

\* claim_steam_activation connects, or fails when nobody listens.
ConnectClaim(w, s) ==
    /\ pc[w] = s /\ s \in Claims /\ conn[w][s] = "none"
    /\ \/ /\ file["activation"] # 0
          /\ listener["activation"] = file["activation"]
          /\ conn' = [conn EXCEPT ![w][s] = "queued"]
          /\ UNCHANGED pc
       \/ /\ listener["activation"] = 0
          /\ pc' = [pc EXCEPT ![w] = AfterClaim(s)]
          /\ UNCHANGED conn
    /\ UNCHANGED <<owner, managed, grant, gaveUp, count>>

\* The answer.  An inherited setting may conflict with the environment: the
\* wrapper then goes on without it, though the activation is taken.
ReceiveClaim(w, s) ==
    /\ pc[w] = s /\ s \in Claims
    /\ \/ /\ conn[w][s] = "yes"
          /\ managed' = [managed EXCEPT ![w] = grant[w][s]]
          /\ pc' = [pc EXCEPT ![w] = "exec"]
       \/ /\ conn[w][s] \in {"yes", "no", "eof"}
          /\ pc' = [pc EXCEPT ![w] = AfterClaim(s)]
          /\ UNCHANGED managed
    /\ UNCHANGED <<owner, conn, grant, gaveUp, count>>

\* STREAM_TIMEOUT: the wrapper leaves, its request stays.
TimeoutClaim(w, s) ==
    /\ pc[w] = s /\ s \in Claims /\ conn[w][s] \in {"queued", "held"}
    /\ pc' = [pc EXCEPT ![w] = AfterClaim(s)]
    /\ UNCHANGED <<owner, managed, conn, grant, gaveUp, count>>

\* request_steam_session connects.
ConnectSession(w) ==
    /\ pc[w] \in {"ask", "retry"} /\ conn[w]["ask"] = "none"
    /\ file["session"] # 0 /\ listener["session"] = file["session"]
    /\ conn' = [conn EXCEPT ![w]["ask"] = "queued"]
    /\ pc' = [pc EXCEPT ![w] = "asked"]
    /\ UNCHANGED <<owner, managed, grant, gaveUp, count>>

\* Nobody listens: the application is started once, through the user's
\* service manager, or is not available.
StartOwner(w) ==
    /\ pc[w] = "ask" /\ listener["session"] = 0
    /\ \/ \E a \in Apps :
            /\ app[a] = "off" /\ count.starts < MaxStarts
            /\ app' = [app EXCEPT ![a] = "starting"]
            /\ count' = [count EXCEPT !.starts = @ + 1]
            /\ pc' = [pc EXCEPT ![w] = "retry"]
       \/ /\ pc' = [pc EXCEPT ![w] = "exec"]
          /\ UNCHANGED <<app, count>>
    /\ UNCHANGED <<lease, file, listener, sess, act, phase, engine, managed,
                   conn, grant, gaveUp>>

GiveUp(w) ==
    /\ pc[w] = "retry"
    /\ pc' = [pc EXCEPT ![w] = "exec"]
    /\ UNCHANGED <<owner, managed, conn, grant, gaveUp, count>>

\* The owner's answer, the end of the connection, or IO_TIMEOUT.
ReceiveSession(w) ==
    /\ pc[w] = "asked"
    /\ pc' = [pc EXCEPT ![w] = IF conn[w]["ask"] = "yes" THEN "claim2" ELSE "exec"]
    /\ UNCHANGED <<owner, managed, conn, grant, gaveUp, count>>

-----------------------------------------------------------------------------

WrapperStep(w) ==
    \/ \E s \in Claims : ConnectClaim(w, s) \/ ReceiveClaim(w, s) \/ TimeoutClaim(w, s)
    \/ ConnectSession(w) \/ StartOwner(w) \/ GiveUp(w) \/ ReceiveSession(w)

WorkerStep ==
    \/ SessionWorkerStops \/ WorkerStops \/ WorkerAnswer
    \/ \E w \in Wrappers : SessionAccept(w) \/ SessionAnswer(w)
    \/ \E w \in Wrappers, s \in Claims : WorkerAccept(w, s)

EngineStep == ObserveClaim \/ ObservePending \/ End \/ Ended

Done ==
    /\ \A w \in Wrappers : pc[w] = "exec"
    /\ \A a \in Apps : app[a] \in {"off", "owner"}
    /\ UNCHANGED vars

Next ==
    \/ \E a \in Apps : StartApp(a) \/ Acquire(a) \/ Closing(a) \/ ClosedApp(a) \/ Crash(a)
    \/ \E a \in Apps, g \in Games : Launch(a, g)
    \/ WorkerStep \/ EngineStep \/ Expire \/ Late
    \/ \E w \in Wrappers : WrapperStep(w) \/ Attach(w)
    \/ Done

\* Threads are scheduled and deadlines pass; that Redunar is opened, closed
\* or killed, or a game attaches, is not promised.
Spec ==
    /\ Init /\ [][Next]_vars
    /\ \A w \in Wrappers : WF_vars(WrapperStep(w))
    /\ WF_vars(WorkerStep)
    /\ WF_vars(ObserveClaim \/ ObservePending) /\ WF_vars(End \/ Ended)
    /\ WF_vars(Expire) /\ WF_vars(Late)
    /\ \A a \in Apps : WF_vars(Acquire(a) \/ ClosedApp(a))

-----------------------------------------------------------------------------

TypeOK ==
    /\ app \in [Apps -> {"off", "starting", "owner", "closing"}]
    /\ lease \in Apps \cup {None}
    /\ \A a \in Apps : app[a] \in {"owner", "closing"} <=> lease = a
    /\ file \in [Paths -> Inodes \cup {0}] /\ listener \in [Paths -> Inodes \cup {0}]
    /\ phase \in {"idle", "armed", "capturing"}
    /\ engine \in {"free", "observing", "ending"}
    /\ pc \in [Wrappers -> Claims \cup {"ask", "retry", "asked", "exec"}]
    /\ managed \in [Wrappers -> 0..MaxSessions]
    /\ gaveUp \subseteq 1..MaxSessions

\* An activation is one-time: no two game processes run with the environment
\* of one session, and the one that does is of the game it was prepared for.
OneClaimant ==
    \A w, v \in Wrappers : managed[w] # 0 =>
        /\ managed[w] = managed[v] => w = v
        /\ managed[w] = act.sid => GameOf[w] = act.game

\* A crashed owner's sockets do not keep its successor from serving Steam: an
\* owner that has not begun to close listens at the session path, and a
\* session still waiting for Steam at the activation path.
Reachable ==
    /\ \A a \in Apps : Owns(a) =>
         sess.up /\ listener["session"] = sess.ino /\ file["session"] = sess.ino
    /\ phase = "armed" /\ act.worker # "done" => file["activation"] = act.ino
=============================================================================
