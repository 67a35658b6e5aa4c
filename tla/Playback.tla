------------------------------ MODULE Playback ------------------------------
(***************************************************************************)
(* The clip player (playback.rs): selecting a clip cancels the preparation *)
(* before, prepares a private copy outside the mutex and publishes it if   *)
(* nothing came between; a loopback server streams the published copy to   *)
(* the page over at most MAX_CONNECTIONS connections; the copies a killed  *)
(* process left are swept by a later start.                                *)
(*                                                                         *)
(* A copy is its owner: the request that prepared it.  A stream is chunks. *)
(***************************************************************************)
EXTENDS Integers

CONSTANTS
    Clips,
    None,
    MaxRequests,     \* bound: selections of a process
    MaxConnections,  \* MAX_CONNECTIONS
    MaxChunks,       \* chunks of a clip
    MaxRuns,         \* bound: processes
    MaxFaults        \* bound: failures of the server

Requests == 1..MaxRequests
Conns == 1..MaxConnections

VARIABLES
    run,       \* the process
    closed,    \* PlaybackState.closed
    gen,       \* PlaybackState.generation: its last request or cancellation
    active,    \* active_preparation: the request whose flag it is, or None
    prepared,  \* the request whose copy is kept, or None
    req,       \* req[r]: [at, clip, gen, cancelled]
    server,    \* "none", "up", "stopping", "joined", "dead": accept failed
    selected,  \* the copy the server streams: the request, which is its token, or None
    url,       \* the last token handed to the page, or 0
    conn,      \* conn[c]: [at, token, left]
    copies,    \* directories: [run, r, old]
    faults

vars == <<run, closed, gen, active, prepared, req, server, selected, url,
          conn, copies, faults>>
srv == <<server, selected, url, conn>>

Fresh == [at |-> "idle", clip |-> None, gen |-> 0, cancelled |-> FALSE]
NoConn == [at |-> "free", token |-> 0, left |-> 0]

Init ==
    /\ run = 1 /\ closed = FALSE /\ gen = 0 /\ active = None /\ prepared = None
    /\ req = [r \in Requests |-> Fresh]
    /\ server = "none" /\ selected = None /\ url = 0
    /\ conn = [c \in Conns |-> NoConn]
    /\ copies = {} /\ faults = 0

-----------------------------------------------------------------------------
(* Selecting.                                                              *)

\* The flag of the preparation before is set.
Interrupted == IF active = None THEN req ELSE [req EXCEPT ![active].cancelled = TRUE]

Copy(r) == [run |-> run, r |-> r, old |-> FALSE]
Without(r) == {k \in copies : k.run # run \/ k.r # r}

\* select_stream and Server::select: a new token replaces the clip before.
Stream(r) ==
    /\ server' = IF server = "none" THEN "up" ELSE server
    /\ url' = r /\ selected' = r
    /\ UNCHANGED conn

\* The clip of the file that was opened; the first critical section.
Select(r, c) ==
    /\ ~closed /\ req[r].at = "idle" /\ \A q \in Requests : q < r => req[q].at # "idle"
    /\ gen' = r
    /\ IF prepared # None /\ req[prepared].clip = c
       THEN /\ req' = [Interrupted EXCEPT ![r] =
                        [Fresh EXCEPT !.at = "done"]]
            /\ active' = None
            /\ Stream(r)
       ELSE /\ req' = [Interrupted EXCEPT ![r] =
                        [at |-> "prepare", clip |-> c, gen |-> r, cancelled |-> FALSE]]
            /\ active' = r
            /\ UNCHANGED srv
    /\ UNCHANGED <<run, closed, prepared, copies, faults>>

\* private_temporary_directory and the conversion of run_preparation.
Prepare(r) ==
    /\ req[r].at = "prepare"
    /\ copies' = copies \cup {Copy(r)}
    /\ req' = [req EXCEPT ![r].at = "convert"]
    /\ UNCHANGED <<run, closed, gen, active, prepared, srv, faults>>
Converted(r) ==
    /\ req[r].at = "convert"
    /\ req' = [req EXCEPT ![r].at = "commit"]
    /\ UNCHANGED <<run, closed, gen, active, prepared, srv, copies, faults>>

\* Cancelled, late, or the tool fails: the copy goes at once.
NotConverted(r) ==
    /\ req[r].at = "convert"
    /\ copies' = Without(r)
    /\ req' = [req EXCEPT ![r].at = "failed"]
    /\ UNCHANGED <<run, closed, gen, active, prepared, srv, faults>>

Superseded(r) == closed \/ gen # req[r].gen \/ req[r].cancelled
KeptAll == copies
Replaced == IF prepared = None THEN copies ELSE Without(prepared)
Cleared(r) == IF active = r THEN None ELSE active
Commit(r) ==
    /\ req[r].at \in {"commit", "failed"}
    /\ active' = Cleared(r)
    /\ IF Superseded(r) \/ req[r].at = "failed"
       THEN /\ copies' = Without(r)
            /\ req' = [req EXCEPT ![r] = [Fresh EXCEPT !.at = "done"]]
            /\ UNCHANGED <<prepared, srv>>
       ELSE /\ prepared' = r /\ copies' = Replaced
            /\ req' = [q \in Requests |->
                        IF q = r THEN [Fresh EXCEPT !.at = "done", !.clip = req[r].clip]
                        ELSE IF q = prepared THEN [Fresh EXCEPT !.at = "done"]
                        ELSE req[q]]
            /\ Stream(r)
    /\ UNCHANGED <<run, closed, gen, faults>>

\* cancel_preparation.  Its generation is that of no request.
CancelPreparation ==
    /\ ~closed /\ gen # 0
    /\ gen' = 0 /\ active' = None /\ req' = Interrupted
    /\ UNCHANGED <<run, closed, prepared, srv, copies, faults>>

\* shutdown, up to the drop of the server, which it joins.
Shutdown ==
    /\ ~closed /\ closed' = TRUE
    /\ gen' = 0 /\ active' = None /\ req' = Interrupted
    /\ server' = IF server \in {"up", "dead"} THEN "stopping" ELSE "joined"
    /\ UNCHANGED <<run, prepared, selected, url, conn, copies, faults>>

\* Server::drop: the worker, and every connection it started, have ended.
Join ==
    /\ server = "stopping" /\ \A c \in Conns : conn[c].at = "free"
    /\ server' = "joined" /\ selected' = None
    /\ UNCHANGED <<run, closed, gen, active, prepared, req, url, conn, copies, faults>>
DropPrepared ==
    /\ server = "joined" /\ prepared # None
    /\ prepared' = None /\ copies' = Replaced
    /\ UNCHANGED <<run, closed, gen, active, req, srv, faults>>

-----------------------------------------------------------------------------
(* The server.                                                             *)

Listens == server = "up"
Accept(c) ==
    /\ Listens /\ conn[c].at = "free" /\ url # 0
    /\ \E t \in {url, 0} :
        conn' = [conn EXCEPT ![c] = [at |-> "header", token |-> t, left |-> 0]]
    /\ UNCHANGED <<run, closed, gen, active, prepared, req, server, selected, url,
                   copies, faults>>

\* An error of accept ends the worker, and with it the listener.
AcceptFails ==
    /\ server = "up" /\ faults < MaxFaults
    /\ server' = "dead" /\ faults' = faults + 1
    /\ UNCHANGED <<run, closed, gen, active, prepared, req, selected, url, conn, copies>>

\* serve: the request's token must be that of the selected clip.
Knows(c) == selected # None /\ conn[c].token = selected
Serve(c) ==
    /\ conn[c].at = "header"
    /\ conn' = [conn EXCEPT ![c] =
            IF server = "stopping" \/ ~Knows(c) THEN NoConn
            ELSE [at |-> "body", token |-> selected, left |-> MaxChunks]]
    /\ UNCHANGED <<run, closed, gen, active, prepared, req, server, selected, url,
                   copies, faults>>

\* One chunk, unless the server stops or the clip was replaced.
MayWrite(c) == server # "stopping" /\ selected # None /\ selected = conn[c].token
Body(c) ==
    /\ conn[c].at = "body"
    /\ conn' = [conn EXCEPT ![c] =
            IF conn[c].left > 0 /\ MayWrite(c) THEN [@ EXCEPT !.left = @ - 1]
            ELSE NoConn]
    /\ UNCHANGED <<run, closed, gen, active, prepared, req, server, selected, url,
                   copies, faults>>

\* The page goes away, or IO_TIMEOUT ends a read or a write.
Hangup(c) ==
    /\ conn[c].at # "free"
    /\ conn' = [conn EXCEPT ![c] = NoConn]
    /\ UNCHANGED <<run, closed, gen, active, prepared, req, server, selected, url,
                   copies, faults>>

-----------------------------------------------------------------------------
(* Processes.                                                              *)

\* The process ends, killed or after its cleanup, and another starts; copies
\* older than an hour are swept by the sole owner of the session.
Swept == {[run |-> 0, r |-> 0, old |-> FALSE] : k \in {c \in copies : ~c.old}}
Restart ==
    /\ run < MaxRuns
    /\ run' = run + 1 /\ copies' = Swept
    /\ closed' = FALSE /\ gen' = 0 /\ active' = None /\ prepared' = None
    /\ req' = [r \in Requests |-> Fresh]
    /\ server' = "none" /\ selected' = None /\ url' = 0
    /\ conn' = [c \in Conns |-> NoConn]
    /\ UNCHANGED faults

\* An hour passes.
Hour ==
    /\ \E k \in copies : ~k.old
    /\ copies' = {[k EXCEPT !.old = TRUE] : k \in copies}
    /\ UNCHANGED <<run, closed, gen, active, prepared, req, srv, faults>>

Worker(r) == Prepare(r) \/ Converted(r) \/ NotConverted(r) \/ Commit(r)
Next ==
    \/ \E r \in Requests, k \in Clips : Select(r, k)
    \/ \E r \in Requests : Worker(r)
    \/ CancelPreparation \/ Shutdown \/ Join \/ DropPrepared
    \/ \E c \in Conns : Accept(c) \/ Serve(c) \/ Body(c) \/ Hangup(c)
    \/ AcceptFails \/ Restart \/ Hour

\* The threads run; PREPARE_TIMEOUT and IO_TIMEOUT end what hangs.
Fairness ==
    /\ \A r \in Requests : WF_vars(Worker(r))
    /\ \A c \in Conns : WF_vars(Serve(c) \/ Body(c) \/ Hangup(c))
    /\ WF_vars(Join) /\ WF_vars(DropPrepared)

Spec == Init /\ [][Next]_vars /\ Fairness

-----------------------------------------------------------------------------
(* Properties.                                                             *)

TypeOK ==
    /\ active \in Requests \cup {None} /\ prepared \in Requests \cup {None}
    /\ selected \in Requests \cup {None}
    /\ \A r \in Requests :
        active = r <=> gen = r /\ req[r].at \in {"prepare", "convert", "commit", "failed"}

\* A copy on disk is the kept one or that of a worker that will publish or
\* remove it, or it is left from a process that was killed; and the kept one is
\* there to be opened again.
CopiesOwned ==
    /\ \A k \in copies : k.run = run =>
            k.r = prepared \/ req[k.r].at \in {"convert", "commit"}
    /\ prepared # None => \E k \in copies : k.run = run /\ k.r = prepared
=============================================================================
