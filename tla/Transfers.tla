----------------------------- MODULE Transfers -----------------------------
(***************************************************************************)
(* Requests of the backend and the three resources they share in its one   *)
(* process: the pool of database connections (database/session.py), the    *)
(* threads that run sync dependencies, sync endpoints and the iteration of *)
(* a download, and the event loop, which dispatches everything and runs    *)
(* the async upload endpoints themselves.  A session checks a connection   *)
(* out at its first statement and returns it at a commit, a rollback or    *)
(* when get_db closes it; objects expire at a commit, so reading one again *)
(* checks a connection out again.  A checkout waits while the pool is      *)
(* empty and fails after its timeout.                                      *)
(*                                                                         *)
(* A download (documents/service.py) decides, opens the object of MinIO,   *)
(* commits a row "started" and answers with a generator; get_db closes its *)
(* session before the answer is streamed.  The generator is advanced in    *)
(* threads, one chunk at a time, and writes the final row in a session of  *)
(* its own: in a thread when the object ends or fails, on the event loop   *)
(* when the client leaves and the generator is closed.  A generator that   *)
(* was never advanced runs nothing when it is closed.                      *)
(***************************************************************************)
EXTENDS Naturals, Sequences, FiniteSets

CONSTANTS Requests, PoolSize, ThreadLimit, Chunks, None

ASSUME CapacityAssumption ==
  /\ PoolSize \in Nat \ {0} /\ ThreadLimit \in Nat \ {0} /\ Chunks \in Nat \ {0}
  /\ IsFiniteSet(Requests) /\ None \notin Requests

VARIABLES
  kind,         \* what each request asks for
  pc,           \* what it does next; "completed", "interrupted": write that row
  connections,  \* requests whose get_db session holds a pooled connection
  threads,      \* requests that occupy a thread
  loop,         \* the request that occupies the event loop
  stream,       \* its object in MinIO: opened, reading once advanced, closed;
                \* dropped when nothing closes it
  left,         \* chunks it has not read yet
  rows,         \* audit rows of the download, in order
  faulted       \* requests that met a database error or a checkout timeout

vars == <<kind, pc, connections, threads, loop, stream, left, rows, faulted>>

\* Any sync endpoint, an async upload, or one of the two downloads.
Kinds == {"read", "upload", "download"}
\* The last step of a download, and all steps whose first statement checks a
\* connection out.
Finals == {"completed", "interrupted"}
Checkouts == {"authenticate", "reload", "record_failure"} \cup Finals
\* Steps the event loop starts: in a thread, or itself for an async endpoint.
Dispatched == {"authenticate", "handle", "serialize", "streaming"}

Init ==
  /\ kind \in [Requests -> Kinds]
  /\ pc = [r \in Requests |-> "authenticate"]
  /\ connections = {} /\ threads = {} /\ loop = None
  /\ stream = [r \in Requests |-> "none"]
  /\ left = [r \in Requests |-> Chunks]
  /\ rows = [r \in Requests |-> << >>]
  /\ faulted = {}
-----------------------------------------------------------------------------
Running(r) == r \in threads \/ loop = r
Waiting(r) == Running(r) /\ pc[r] \in Checkouts
PoolFree_OffByOne == Cardinality(connections) <= PoolSize
PoolFree == Cardinality(connections) < PoolSize
RunsOnLoop(r) == kind[r] = "upload" /\ pc[r] = "handle"

Goto(r, step) == pc' = [pc EXCEPT ![r] = step]
Leave(r) == threads' = threads \ {r} /\ loop' = IF loop = r THEN None ELSE loop
Audit(r, result) == rows' = [rows EXCEPT ![r] = Append(@, result)]

\* The loop starts the next step of a request.
Dispatch(r) ==
  /\ loop = None /\ ~Running(r) /\ pc[r] \in Dispatched
  /\ IF RunsOnLoop(r)
     THEN loop' = r /\ UNCHANGED threads
     ELSE Cardinality(threads) < ThreadLimit /\ threads' = threads \cup {r} /\ UNCHANGED loop
  /\ UNCHANGED <<kind, pc, connections, stream, left, rows, faulted>>

\* get_current_user reads the user; a refusal ends the request at once.
Authenticate(r) ==
  /\ Running(r) /\ pc[r] = "authenticate" /\ PoolFree
  /\ connections' = connections \cup {r}
  /\ \E step \in {"handle", "close"} : Goto(r, step)
  /\ Leave(r)
  /\ UNCHANGED <<kind, stream, left, rows, faulted>>

\* FastAPI validates what a sync endpoint returns in a thread again, while the
\* session is open; a refusal, or a return value without a model, skips that.
AfterAnswer(r) == {"close"} \cup {step \in {"serialize"} : kind[r] = "read"}

\* An endpoint answers, or refuses, from what its session has read.
Answer(r) ==
  /\ Running(r) /\ pc[r] = "handle" /\ kind[r] # "download"
  /\ \E step \in AfterAnswer(r) : Goto(r, step)
  /\ Leave(r)
  /\ UNCHANGED <<kind, connections, stream, left, rows, faulted>>

CommitOrRollback_KeepsConnection(r) ==
  /\ Running(r) /\ pc[r] = "handle" /\ kind[r] # "download"
  /\ \E step \in {"reload", "record_failure"} : Goto(r, step)
  /\ UNCHANGED <<kind, connections, threads, loop, stream, left, rows, faulted>>

\* It commits and goes on to read what it committed, or rolls back and goes on
\* to record the failure.
CommitOrRollback(r) ==
  /\ Running(r) /\ pc[r] = "handle" /\ kind[r] # "download"
  /\ connections' = connections \ {r}
  /\ \E step \in {"reload", "record_failure"} : Goto(r, step)
  /\ UNCHANGED <<kind, threads, loop, stream, left, rows, faulted>>

\* An expired object is read again.
Reload(r) ==
  /\ Running(r) /\ pc[r] = "reload" /\ PoolFree
  /\ connections' = connections \cup {r}
  /\ \E step \in AfterAnswer(r) : Goto(r, step)
  /\ Leave(r)
  /\ UNCHANGED <<kind, stream, left, rows, faulted>>

Serialize(r) ==
  /\ Running(r) /\ pc[r] = "serialize"
  /\ Goto(r, "close") /\ Leave(r)
  /\ UNCHANGED <<kind, connections, stream, left, rows, faulted>>

\* The failure row of an upload or a grant, committed in the same session.
RecordFailure(r) ==
  /\ Running(r) /\ pc[r] = "record_failure" /\ PoolFree
  /\ Goto(r, "close") /\ Leave(r)
  /\ UNCHANGED <<kind, connections, stream, left, rows, faulted>>

\* What a failed statement or checkout makes of a request: the generator logs a
\* warning and ends; an upload, or a grant, that has already committed records a
\* failure; any other request ends, and nobody closes the object it opened.
AfterFault(r) ==
  \/ /\ pc[r] \in Finals
     /\ Goto(r, "done") /\ stream' = [stream EXCEPT ![r] = "closed"] /\ Leave(r)
  \/ /\ pc[r] = "reload" /\ kind[r] # "download"
     /\ Goto(r, "record_failure") /\ UNCHANGED <<stream, threads, loop>>
  \/ /\ pc[r] \notin Finals /\ ~(pc[r] = "reload" /\ kind[r] = "upload")
     /\ Goto(r, "close") /\ Leave(r)
     /\ stream' = [stream EXCEPT ![r] = IF @ = "opened" THEN "dropped" ELSE @]

\* PostgreSQL fails under a statement: the session keeps the connection it has.
DatabaseFails(r) ==
  /\ Running(r)
  /\ pc[r] \in Checkouts \cup {"record"} \/ (pc[r] = "handle" /\ kind[r] = "download")
  /\ AfterFault(r)
  /\ faulted' = faulted \cup {r}
  /\ UNCHANGED <<kind, connections, left, rows>>

CheckoutTimesOut_Never(r) == FALSE

\* QueuePool gives up on a checkout.
CheckoutTimesOut(r) ==
  /\ Waiting(r) /\ ~PoolFree
  /\ AfterFault(r)
  /\ faulted' = faulted \cup {r}
  /\ UNCHANGED <<kind, connections, left, rows>>

Close_AfterTheStream(r) ==
  /\ loop = None /\ pc[r] = "close"
  /\ connections' = IF stream[r] = "opened" THEN connections ELSE connections \ {r}
  /\ Goto(r, IF stream[r] = "opened" THEN "streaming" ELSE "done")
  /\ UNCHANGED <<kind, threads, loop, stream, left, rows, faulted>>

\* get_db closes the session, in a thread of its own; then a download answers.
Close(r) ==
  /\ loop = None /\ pc[r] = "close"
  /\ connections' = connections \ {r}
  /\ Goto(r, IF stream[r] = "opened" THEN "streaming" ELSE "done")
  /\ UNCHANGED <<kind, threads, loop, stream, left, rows, faulted>>
-----------------------------------------------------------------------------
\* No document, no permission, no version, or MinIO has no object or fails.
RefuseDownload(r) ==
  /\ Running(r) /\ pc[r] = "handle" /\ kind[r] = "download"
  /\ Audit(r, "failed")
  /\ connections' = connections \ {r}
  /\ Goto(r, "close") /\ Leave(r)
  /\ UNCHANGED <<kind, stream, left, faulted>>

OpenStream(r) ==
  /\ Running(r) /\ pc[r] = "handle" /\ kind[r] = "download"
  /\ stream' = [stream EXCEPT ![r] = "opened"]
  /\ Goto(r, "record")
  /\ UNCHANGED <<kind, connections, threads, loop, left, rows, faulted>>

RecordStarted(r) ==
  /\ Running(r) /\ pc[r] = "record"
  /\ Audit(r, "started")
  /\ connections' = connections \ {r}
  /\ Goto(r, "reload")
  /\ UNCHANGED <<kind, threads, loop, stream, left, faulted>>

\* A thread advances the generator by one chunk, which is sent to the client.
ReadChunk(r) ==
  /\ Running(r) /\ pc[r] = "streaming" /\ left[r] > 0
  /\ left' = [left EXCEPT ![r] = @ - 1]
  /\ stream' = [stream EXCEPT ![r] = "reading"]
  /\ Leave(r)
  /\ UNCHANGED <<kind, pc, connections, rows, faulted>>

SourceEnds_AlwaysCompleted(r) ==
  /\ Running(r) /\ pc[r] = "streaming"
  /\ stream' = [stream EXCEPT ![r] = "closed"]
  /\ Goto(r, "completed")
  /\ UNCHANGED <<kind, connections, threads, loop, left, rows, faulted>>

\* The object ends, or MinIO fails: iter_response closes the stream before the
\* generator writes its row in the same thread.
SourceEnds(r) ==
  /\ Running(r) /\ pc[r] = "streaming"
  /\ stream' = [stream EXCEPT ![r] = "closed"]
  /\ \/ left[r] = 0 /\ Goto(r, "completed")
     \/ Goto(r, "interrupted")
  /\ UNCHANGED <<kind, connections, threads, loop, left, rows, faulted>>

\* The client leaves: the loop drops the generator, which runs its finally
\* clause there unless it was never advanced.
ClientLeaves(r) ==
  /\ loop = None /\ ~Running(r) /\ pc[r] = "streaming"
  /\ IF stream[r] = "reading"
     THEN loop' = r /\ Goto(r, "interrupted") /\ UNCHANGED stream
     ELSE stream' = [stream EXCEPT ![r] = "dropped"] /\ Goto(r, "done") /\ UNCHANGED loop
  /\ UNCHANGED <<kind, connections, threads, left, rows, faulted>>

Finalize_KeepsStream(r) ==
  /\ Running(r) /\ pc[r] \in Finals /\ PoolFree
  /\ Audit(r, pc[r])
  /\ Goto(r, "done") /\ Leave(r)
  /\ UNCHANGED <<kind, connections, stream, left, faulted>>

\* The final row, in a session of its own; a stream left open is closed when
\* the generator's frame is released.
Finalize(r) ==
  /\ Running(r) /\ pc[r] \in Finals /\ PoolFree
  /\ Audit(r, pc[r])
  /\ stream' = [stream EXCEPT ![r] = "closed"]
  /\ Goto(r, "done") /\ Leave(r)
  /\ UNCHANGED <<kind, connections, left, faulted>>
-----------------------------------------------------------------------------
\* What the process does by itself once a request has its thread or the loop.
Work(r) ==
  \/ Authenticate(r) \/ Answer(r) \/ CommitOrRollback(r) \/ Reload(r) \/ RecordFailure(r)
  \/ Serialize(r) \/ Close(r) \/ RefuseDownload(r) \/ OpenStream(r) \/ RecordStarted(r)
  \/ ReadChunk(r) \/ SourceEnds(r) \/ Finalize(r)

\* A client that does not read keeps the loop from advancing its download.
ClientReads(r) == pc[r] = "streaming" /\ Dispatch(r)
Start(r) == pc[r] # "streaming" /\ Dispatch(r)

Next ==
  \E r \in Requests :
     Work(r) \/ Start(r) \/ ClientReads(r) \/ ClientLeaves(r) \/ DatabaseFails(r) \/ CheckoutTimesOut(r)

\* Threads run, the loop turns and a checkout gives up in the end; nothing is
\* assumed of clients, MinIO or PostgreSQL.
Fairness == \A r \in Requests : WF_vars(Work(r) \/ Start(r) \/ CheckoutTimesOut(r))
Spec == Init /\ [][Next]_vars /\ Fairness
-----------------------------------------------------------------------------
Results == {"started", "completed", "interrupted", "failed"}
Steps == Checkouts \cup Dispatched \cup {"record", "close", "done"}

\* Every variable has its type and no resource is overcommitted: the pool and
\* the threads stay within their limits and no request has a thread and the loop.
TypeOK ==
  /\ kind \in [Requests -> Kinds] /\ pc \in [Requests -> Steps]
  /\ connections \subseteq Requests /\ Cardinality(connections) <= PoolSize
  /\ threads \subseteq Requests /\ Cardinality(threads) <= ThreadLimit
  /\ loop \in Requests \cup {None} /\ loop \notin threads
  /\ stream \in [Requests -> {"none", "opened", "reading", "closed", "dropped"}]
  /\ left \in [Requests -> 0 .. Chunks]
  /\ rows \in [Requests -> Seq(Results)]
  /\ faulted \subseteq Requests

\* No request waits for a connection while its own session holds one, and a
\* download that waits for its client, however long, holds none: the pool
\* cannot run dry by requests that wait for themselves (service.py:126-180).
NobodyHoldsAndWaits ==
  \A r \in connections : pc[r] \in {"handle", "record", "serialize", "close"}

\* The audit rows of a download tell what became of it: one row "failed" and
\* nothing was opened, or "started" and at most one final row; "completed"
\* only for an object read to its end.  Once it has ended, a download whose
\* generator ran has its final row unless the database failed (service.py:161-180).
AuditTellsOutcome ==
  \A r \in Requests :
     /\ rows[r] \in { << >>, <<"failed">>, <<"started">>,
                      <<"started", "completed">>, <<"started", "interrupted">> }
     /\ rows[r] = <<"failed">> => stream[r] = "none"
     /\ rows[r] = <<"started", "completed">> => left[r] = 0
     /\ pc[r] = "done" /\ stream[r] = "closed" /\ r \notin faulted => Len(rows[r]) = 2
     /\ pc[r] = "done" /\ stream[r] = "dropped" => Len(rows[r]) <= 1

\* A response of MinIO is closed when its download ends, whatever ended it,
\* once the generator was advanced; only one that was never advanced is
\* dropped, and no other request keeps one (storage.py:75).
StreamsReleased ==
  \A r \in Requests :
     /\ left[r] < Chunks => stream[r] \in {"reading", "closed"}
     /\ pc[r] = "done" => stream[r] \notin {"opened", "reading"}

\* The requests that wait for something of the process itself, and those that
\* can take a step without a client or a timeout.
Unsettled == { r \in Requests : pc[r] \notin {"done", "streaming"} }
CanGoOn(r) ==
  \/ Running(r) /\ pc[r] \notin {"close", "done"} /\ (pc[r] \in Checkouts => PoolFree)
  \/ loop = None /\ pc[r] = "close"
  \/ /\ loop = None /\ ~Running(r) /\ pc[r] \in Dispatched \ {"streaming"}
     /\ RunsOnLoop(r) \/ Cardinality(threads) < ThreadLimit

\* The pool is lent to requests that wait for the loop or for a thread, and the
\* loop or every thread is taken by a request that waits for a connection.
CircularWait ==
  /\ connections # {} /\ ~PoolFree
  /\ \A r \in connections : ~Running(r)
  /\ \/ loop # None /\ Waiting(loop)
     \/ /\ Cardinality(threads) = ThreadLimit
        /\ \A r \in threads : Waiting(r)
        /\ \A r \in connections : pc[r] \in {"handle", "serialize"} /\ kind[r] # "upload"
OnlyCircularWaitStops == Unsettled # {} /\ (\A r \in Requests : ~CanGoOn(r)) => CircularWait

\* When nothing but a checkout timeout or a client can move a request on, the
\* requests wait for each other in a circle (dependencies/auth.py:22).
StandstillIsCircular ==
  /\ OnlyCircularWaitStops
  /\ \A r \in Requests : CanGoOn(r) <=> ENABLED (Work(r) \/ Start(r))

\* Every request ends, or is a download whose client neither reads nor leaves
\* and which then holds neither the loop, nor a thread, nor a connection.
EveryRequestSettles ==
  \A r \in Requests :
     <>[](pc[r] = "done" \/ (pc[r] = "streaming" /\ ~Running(r) /\ r \notin connections))
=============================================================================
