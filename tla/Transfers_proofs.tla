-------------------------- MODULE Transfers_proofs --------------------------
(***************************************************************************)
(* Proofs about requests and downloads, for any number of requests, any    *)
(* size of the pool, any limit of threads and any length of the objects.   *)
(* Among them: the requests stop short only in a circle of waits between   *)
(* the pool and the threads.                                               *)
(***************************************************************************)
EXTENDS Transfers, FiniteSetTheorems, SequenceTheorems, TLAPS

---------------------------------------------------------------------------
(* The inductive invariant: at each step of a request, the rows, the       *)
(* stream and the chunks it can have.                                      *)

Untouched(r) == rows[r] = << >> /\ stream[r] = "none" /\ left[r] = Chunks
Started(r) == rows[r] = <<"started">>
Opened(r) == stream[r] = "opened" /\ left[r] = Chunks

BeforeAnswer(r) ==
  /\ pc[r] \in {"authenticate", "handle", "serialize", "record_failure"} => Untouched(r)
  /\ pc[r] = "serialize" => kind[r] = "read"
  /\ pc[r] = "record_failure" => kind[r] # "download"
  /\ pc[r] = "record" => kind[r] = "download" /\ rows[r] = << >> /\ Opened(r)
  /\ pc[r] = "reload" =>
       \/ kind[r] = "download" /\ Started(r) /\ Opened(r)
       \/ kind[r] # "download" /\ Untouched(r)

AtClose(r) ==
  pc[r] = "close" =>
    /\ left[r] = Chunks
    /\ \/ stream[r] = "none" /\ rows[r] \in { << >>, <<"failed">> }
       \/ stream[r] = "opened" /\ Started(r)
       \/ stream[r] = "dropped" /\ rows[r] \in { << >>, <<"started">> }

WhileStreaming(r) ==
  /\ pc[r] \in {"streaming", "completed", "interrupted"} => Started(r)
  /\ pc[r] = "streaming" => Opened(r) \/ stream[r] = "reading"
  /\ pc[r] = "completed" => stream[r] = "closed" /\ left[r] = 0
  /\ pc[r] = "interrupted" => stream[r] \in {"reading", "closed"}

AtEnd(r) ==
  pc[r] = "done" =>
    \/ stream[r] = "none" /\ rows[r] \in { << >>, <<"failed">> } /\ left[r] = Chunks
    \/ stream[r] = "dropped" /\ rows[r] \in { << >>, <<"started">> } /\ left[r] = Chunks
    \/ /\ stream[r] = "closed"
       /\ \/ Started(r) /\ r \in faulted
          \/ rows[r] = <<"started", "interrupted">>
          \/ rows[r] = <<"started", "completed">> /\ left[r] = 0

Stage(r) == BeforeAnswer(r) /\ AtClose(r) /\ WhileStreaming(r) /\ AtEnd(r)
StageInv == \A r \in Requests : Stage(r)

Inv == TypeOK /\ NobodyHoldsAndWaits /\ StageInv

---------------------------------------------------------------------------
(* Lemmas about the resources.                                             *)

(* The sets of requests that hold a resource are finite.                   *)
LEMMA HoldersFinite ==
  ASSUME TypeOK
  PROVE  /\ IsFiniteSet(connections) /\ IsFiniteSet(threads)
         /\ Cardinality(connections) \in Nat /\ Cardinality(threads) \in Nat
<1>1. IsFiniteSet(connections) /\ IsFiniteSet(threads)
  BY CapacityAssumption, FS_Subset DEF TypeOK
<1> QED
  BY <1>1, FS_CardinalityType

(* A checkout keeps to the size of the pool, and so does a return.         *)
LEMMA PoolBounded ==
  ASSUME TypeOK, NEW r \in Requests
  PROVE  /\ PoolFree => Cardinality(connections \cup {r}) <= PoolSize
         /\ Cardinality(connections \ {r}) <= PoolSize
<1>1. /\ IsFiniteSet(connections) /\ Cardinality(connections) \in Nat
      /\ PoolSize \in Nat /\ Cardinality(connections) <= PoolSize
  BY HoldersFinite, CapacityAssumption DEF TypeOK
<1>2. PoolFree => Cardinality(connections \cup {r}) <= PoolSize
  BY <1>1, FS_AddElement DEF PoolFree
<1>3. Cardinality(connections \ {r}) <= Cardinality(connections) /\ Cardinality(connections \ {r}) \in Nat
  BY <1>1, FS_Subset, FS_CardinalityType
<1> QED
  BY <1>1, <1>2, <1>3

(* Leaving the thread or the loop keeps the threads within their limit and *)
(* gives nobody both.                                                      *)
LEMMA LeaveBounded ==
  ASSUME TypeOK, NEW r \in Requests, Leave(r)
  PROVE  /\ threads' \subseteq Requests /\ Cardinality(threads') <= ThreadLimit
         /\ loop' \in Requests \cup {None} /\ loop' \notin threads'
<1>1. /\ IsFiniteSet(threads) /\ Cardinality(threads) \in Nat
      /\ ThreadLimit \in Nat /\ Cardinality(threads) <= ThreadLimit
  BY HoldersFinite, CapacityAssumption DEF TypeOK
<1>2. Cardinality(threads \ {r}) <= Cardinality(threads) /\ Cardinality(threads \ {r}) \in Nat
  BY <1>1, FS_Subset, FS_CardinalityType
<1>3. threads' = threads \ {r} /\ loop' = IF loop = r THEN None ELSE loop
  BY DEF Leave
<1>4. threads \subseteq Requests /\ loop \in Requests \cup {None} /\ loop \notin threads /\ None \notin threads
  BY CapacityAssumption DEF TypeOK
<1> QED
  BY <1>1, <1>2, <1>3, <1>4

(* So does starting a step on either.                                      *)
LEMMA DispatchBounded ==
  ASSUME TypeOK, NEW r \in Requests, Dispatch(r)
  PROVE  /\ threads' \subseteq Requests /\ Cardinality(threads') <= ThreadLimit
         /\ loop' \in Requests \cup {None} /\ loop' \notin threads'
<1>1. /\ IsFiniteSet(threads) /\ Cardinality(threads) \in Nat
      /\ ThreadLimit \in Nat /\ Cardinality(threads) <= ThreadLimit
      /\ threads \subseteq Requests /\ loop = None /\ None \notin Requests
  BY HoldersFinite, CapacityAssumption DEF TypeOK, Dispatch
<1>2. CASE RunsOnLoop(r)
  BY <1>1, <1>2 DEF Dispatch, Running
<1>3. CASE ~RunsOnLoop(r)
  <2>1. Cardinality(threads) < ThreadLimit /\ threads' = threads \cup {r} /\ loop' = loop
    BY <1>3 DEF Dispatch
  <2>2. Cardinality(threads \cup {r}) <= ThreadLimit
    BY <1>1, <2>1, FS_AddElement, SMTT(30)
  <2> QED
    BY <1>1, <2>1, <2>2
<1> QED
  BY <1>2, <1>3

(* The rows a download appends.                                            *)
LEMMA RowsAppended ==
  /\ Append(<< >>, "failed") = <<"failed">>
  /\ Append(<< >>, "started") = <<"started">>
  /\ Append(<<"started">>, "completed") = <<"started", "completed">>
  /\ Append(<<"started">>, "interrupted") = <<"started", "interrupted">>
<1>1. Append(<< >>, "failed") = <<"failed">> /\ Append(<< >>, "started") = <<"started">>
  OBVIOUS
<1>2. ASSUME NEW e \in {"completed", "interrupted"}
      PROVE  Append(<<"started">>, e) = <<"started", e>>
  <2>1. <<"started">> \in Seq({"started", e}) /\ <<"started", e>> \in Seq({"started", e})
    OBVIOUS
  <2>2. Append(<<"started">>, e) \in Seq({"started", e}) /\ Len(Append(<<"started">>, e)) = 2
    BY <2>1
  <2>3. \A i \in 1 .. 2 : Append(<<"started">>, e)[i] = <<"started", e>>[i]
    BY <2>1
  <2> QED
    BY <2>1, <2>2, <2>3, SeqEqual
<1> QED
  BY <1>1, <1>2

(* Rows that a stage allows are rows.                                      *)
LEMMA RowsType ==
  /\ << >> \in Seq(Results) /\ <<"failed">> \in Seq(Results) /\ <<"started">> \in Seq(Results)
  /\ <<"started", "completed">> \in Seq(Results)
  /\ <<"started", "interrupted">> \in Seq(Results)
  BY DEF Results

(* The steps a request may take.                                           *)
LEMMA NextSplit ==
  ASSUME Next
  PROVE  \E r \in Requests :
           \/ Authenticate(r) \/ Answer(r) \/ CommitOrRollback(r) \/ Reload(r)
           \/ RecordFailure(r) \/ Serialize(r) \/ Close(r) \/ RefuseDownload(r) \/ OpenStream(r)
           \/ RecordStarted(r) \/ ReadChunk(r) \/ SourceEnds(r) \/ Finalize(r)
           \/ Dispatch(r) \/ ClientLeaves(r) \/ DatabaseFails(r) \/ CheckoutTimesOut(r)
  BY DEF Next, Work, Start, ClientReads

---------------------------------------------------------------------------
(* Each step keeps the invariant.                                          *)

(* A step of one request leaves the stage of the others alone.             *)
LEMMA OthersKeepStage ==
  ASSUME TypeOK, StageInv, NEW r \in Requests, NEW q \in Requests, q # r,
         kind' = kind,
         pc'[q] = pc[q], stream'[q] = stream[q], left'[q] = left[q], rows'[q] = rows[q],
         q \in faulted => q \in faulted'
  PROVE  Stage(q)'
<1>1. Stage(q)
  BY DEF StageInv
<1>2. (BeforeAnswer(q) /\ AtClose(q))'
  BY <1>1 DEF Stage, BeforeAnswer, AtClose, Untouched, Started, Opened
<1>3. WhileStreaming(q)'
  BY <1>1 DEF Stage, WhileStreaming, Started, Opened
<1>4. AtEnd(q)'
  BY <1>1 DEF Stage, AtEnd, Started
<1> QED
  BY <1>2, <1>3, <1>4 DEF Stage

(* Every step of a request takes it from a stage to a stage.               *)
LEMMA StageStep ==
  ASSUME TypeOK, StageInv, NEW r \in Requests,
         \/ Authenticate(r) \/ Answer(r) \/ CommitOrRollback(r) \/ Reload(r)
         \/ RecordFailure(r) \/ Serialize(r) \/ Close(r) \/ RefuseDownload(r) \/ OpenStream(r)
         \/ RecordStarted(r) \/ ReadChunk(r) \/ SourceEnds(r) \/ Finalize(r)
         \/ Dispatch(r) \/ ClientLeaves(r) \/ DatabaseFails(r) \/ CheckoutTimesOut(r)
  PROVE  StageInv'
<1> USE DEF Goto, Audit, Checkouts, Finals
<1>0. /\ pc \in [Requests -> Steps] /\ left \in [Requests -> 0 .. Chunks] /\ Chunks \in Nat \ {0}
      /\ rows \in [Requests -> Seq(Results)] /\ DOMAIN stream = Requests
      /\ stream \in [Requests -> {"none", "opened", "reading", "closed", "dropped"}]
      /\ Stage(r)
  BY CapacityAssumption DEF TypeOK, StageInv
<1>1. /\ kind' = kind
      /\ \A q \in Requests \ {r} :
           /\ pc'[q] = pc[q] /\ stream'[q] = stream[q] /\ left'[q] = left[q] /\ rows'[q] = rows[q]
           /\ q \in faulted => q \in faulted'
  <2>1. CASE Authenticate(r)
    BY <1>0, <2>1 DEF Authenticate
  <2>2. CASE Answer(r)
    BY <1>0, <2>2 DEF Answer
  <2>3. CASE CommitOrRollback(r)
    BY <1>0, <2>3 DEF CommitOrRollback
  <2>4. CASE Reload(r)
    BY <1>0, <2>4 DEF Reload
  <2>5. CASE RecordFailure(r) \/ Serialize(r)
    BY <1>0, <2>5 DEF RecordFailure, Serialize
  <2>6. CASE Close(r)
    BY <1>0, <2>6 DEF Close
  <2>7. CASE RefuseDownload(r)
    BY <1>0, <2>7 DEF RefuseDownload
  <2>8. CASE OpenStream(r)
    BY <1>0, <2>8 DEF OpenStream
  <2>9. CASE RecordStarted(r)
    BY <1>0, <2>9 DEF RecordStarted
  <2>10. CASE ReadChunk(r)
    BY <1>0, <2>10 DEF ReadChunk
  <2>11. CASE SourceEnds(r)
    BY <1>0, <2>11 DEF SourceEnds
  <2>12. CASE Finalize(r)
    BY <1>0, <2>12 DEF Finalize
  <2>13. CASE Dispatch(r)
    BY <1>0, <2>13 DEF Dispatch
  <2>14. CASE ClientLeaves(r)
    BY <1>0, <2>14 DEF ClientLeaves
  <2>15. CASE DatabaseFails(r) \/ CheckoutTimesOut(r)
    BY <1>0, <2>15 DEF DatabaseFails, CheckoutTimesOut, AfterFault
  <2> QED
    BY <2>1, <2>2, <2>3, <2>4, <2>5, <2>6, <2>7, <2>8, <2>9, <2>10, <2>11, <2>12, <2>13, <2>14, <2>15
<1>2. Stage(r)'
  <2> USE DEF Untouched, Started, Opened
  <2>1. CASE Authenticate(r)
    <3>1. (BeforeAnswer(r) /\ AtClose(r))'
      BY <1>0, <2>1 DEF Authenticate, Stage, BeforeAnswer, AtClose, WhileStreaming, Dispatched
    <3>2. (WhileStreaming(r) /\ AtEnd(r))'
      BY <1>0, <2>1 DEF Authenticate, Stage, BeforeAnswer, AtClose, WhileStreaming, AtEnd, Dispatched
    <3> QED
      BY <3>1, <3>2 DEF Stage
  <2>2. CASE Answer(r)
    <3>1. (BeforeAnswer(r) /\ AtClose(r))'
      BY <1>0, <2>2 DEF Answer, AfterAnswer, Stage, BeforeAnswer, AtClose, WhileStreaming, Dispatched
    <3>2. (WhileStreaming(r) /\ AtEnd(r))'
      BY <1>0, <2>2 DEF Answer, AfterAnswer, Stage, BeforeAnswer, AtClose, WhileStreaming, AtEnd, Dispatched
    <3> QED
      BY <3>1, <3>2 DEF Stage
  <2>3. CASE CommitOrRollback(r)
    <3>1. (BeforeAnswer(r) /\ AtClose(r))'
      BY <1>0, <2>3 DEF CommitOrRollback, Stage, BeforeAnswer, AtClose, WhileStreaming, Dispatched
    <3>2. (WhileStreaming(r) /\ AtEnd(r))'
      BY <1>0, <2>3 DEF CommitOrRollback, Stage, BeforeAnswer, AtClose, WhileStreaming, AtEnd, Dispatched
    <3> QED
      BY <3>1, <3>2 DEF Stage
  <2>4. CASE Reload(r)
    <3>1. (BeforeAnswer(r) /\ AtClose(r))'
      BY <1>0, <2>4 DEF Reload, AfterAnswer, Stage, BeforeAnswer, AtClose, WhileStreaming, Dispatched
    <3>2. (WhileStreaming(r) /\ AtEnd(r))'
      BY <1>0, <2>4 DEF Reload, AfterAnswer, Stage, BeforeAnswer, AtClose, WhileStreaming, AtEnd, Dispatched
    <3> QED
      BY <3>1, <3>2 DEF Stage
  <2>5. CASE RecordFailure(r) \/ Serialize(r)
    <3>1. (BeforeAnswer(r) /\ AtClose(r))'
      BY <1>0, <2>5 DEF RecordFailure, Serialize, Stage, BeforeAnswer, AtClose, WhileStreaming, Dispatched
    <3>2. (WhileStreaming(r) /\ AtEnd(r))'
      BY <1>0, <2>5 DEF RecordFailure, Serialize, Stage, BeforeAnswer, AtClose, WhileStreaming, AtEnd, Dispatched
    <3> QED
      BY <3>1, <3>2 DEF Stage
  <2>6. CASE Close(r)
    <3>1. (BeforeAnswer(r) /\ AtClose(r))'
      BY <1>0, <2>6 DEF Close, Stage, BeforeAnswer, AtClose, WhileStreaming, Dispatched
    <3>2. (WhileStreaming(r) /\ AtEnd(r))'
      BY <1>0, <2>6 DEF Close, Stage, BeforeAnswer, AtClose, WhileStreaming, AtEnd, Dispatched
    <3> QED
      BY <3>1, <3>2 DEF Stage
  <2>7. CASE RefuseDownload(r)
    <3>1. (BeforeAnswer(r) /\ AtClose(r))'
      BY <1>0, <2>7, RowsAppended DEF RefuseDownload, Stage, BeforeAnswer, AtClose, WhileStreaming, Dispatched
    <3>2. (WhileStreaming(r) /\ AtEnd(r))'
      BY <1>0, <2>7, RowsAppended DEF RefuseDownload, Stage, BeforeAnswer, AtClose, WhileStreaming, AtEnd, Dispatched
    <3> QED
      BY <3>1, <3>2 DEF Stage
  <2>8. CASE OpenStream(r)
    <3>1. (BeforeAnswer(r) /\ AtClose(r))'
      BY <1>0, <2>8 DEF OpenStream, Stage, BeforeAnswer, AtClose, WhileStreaming, Dispatched
    <3>2. (WhileStreaming(r) /\ AtEnd(r))'
      BY <1>0, <2>8 DEF OpenStream, Stage, BeforeAnswer, AtClose, WhileStreaming, AtEnd, Dispatched
    <3> QED
      BY <3>1, <3>2 DEF Stage
  <2>9. CASE RecordStarted(r)
    <3>1. (BeforeAnswer(r) /\ AtClose(r))'
      BY <1>0, <2>9, RowsAppended DEF RecordStarted, Stage, BeforeAnswer, AtClose, WhileStreaming, Dispatched
    <3>2. (WhileStreaming(r) /\ AtEnd(r))'
      BY <1>0, <2>9, RowsAppended DEF RecordStarted, Stage, BeforeAnswer, AtClose, WhileStreaming, AtEnd, Dispatched
    <3> QED
      BY <3>1, <3>2 DEF Stage
  <2>10. CASE ReadChunk(r)
    <3>1. (BeforeAnswer(r) /\ AtClose(r))'
      BY <1>0, <2>10 DEF ReadChunk, Stage, BeforeAnswer, AtClose, WhileStreaming, Dispatched
    <3>2. (WhileStreaming(r) /\ AtEnd(r))'
      BY <1>0, <2>10 DEF ReadChunk, Stage, BeforeAnswer, AtClose, WhileStreaming, AtEnd, Dispatched
    <3> QED
      BY <3>1, <3>2 DEF Stage
  <2>11. CASE SourceEnds(r)
    <3>1. (BeforeAnswer(r) /\ AtClose(r))'
      BY <1>0, <2>11 DEF SourceEnds, Stage, BeforeAnswer, AtClose, WhileStreaming, Dispatched
    <3>2. (WhileStreaming(r) /\ AtEnd(r))'
      BY <1>0, <2>11 DEF SourceEnds, Stage, BeforeAnswer, AtClose, WhileStreaming, AtEnd, Dispatched
    <3> QED
      BY <3>1, <3>2 DEF Stage
  <2>12. CASE Finalize(r)
    <3>1. (BeforeAnswer(r) /\ AtClose(r))'
      BY <1>0, <2>12, RowsAppended DEF Finalize, Stage, BeforeAnswer, AtClose, WhileStreaming, Dispatched
    <3>2. (WhileStreaming(r) /\ AtEnd(r))'
      BY <1>0, <2>12, RowsAppended DEF Finalize, Stage, BeforeAnswer, AtClose, WhileStreaming, AtEnd, Dispatched
    <3> QED
      BY <3>1, <3>2 DEF Stage
  <2>13. CASE Dispatch(r)
    <3>1. (BeforeAnswer(r) /\ AtClose(r))'
      BY <1>0, <2>13 DEF Dispatch, Stage, BeforeAnswer, AtClose, WhileStreaming, Dispatched
    <3>2. (WhileStreaming(r) /\ AtEnd(r))'
      BY <1>0, <2>13 DEF Dispatch, Stage, BeforeAnswer, AtClose, WhileStreaming, AtEnd, Dispatched
    <3> QED
      BY <3>1, <3>2 DEF Stage
  <2>14. CASE ClientLeaves(r)
    <3>1. (BeforeAnswer(r) /\ AtClose(r))'
      BY <1>0, <2>14 DEF ClientLeaves, Stage, BeforeAnswer, AtClose, WhileStreaming, Dispatched
    <3>2. (WhileStreaming(r) /\ AtEnd(r))'
      BY <1>0, <2>14 DEF ClientLeaves, Stage, BeforeAnswer, AtClose, WhileStreaming, AtEnd, Dispatched
    <3> QED
      BY <3>1, <3>2 DEF Stage
  <2>15. CASE DatabaseFails(r) \/ CheckoutTimesOut(r)
    <3>1. AfterFault(r) /\ left' = left /\ rows' = rows /\ kind' = kind /\ faulted' = faulted \cup {r}
      BY <2>15 DEF DatabaseFails, CheckoutTimesOut
    <3>2. pc[r] \in Checkouts \cup {"record", "handle"}
      BY <2>15 DEF DatabaseFails, CheckoutTimesOut, Waiting
    <3>3. CASE pc[r] \in Finals
      BY <1>0, <3>1, <3>3 DEF AfterFault, Stage, BeforeAnswer, AtClose, WhileStreaming, AtEnd
    <3>4. CASE pc[r] \notin Finals /\ pc'[r] = "record_failure"
      BY <1>0, <3>1, <3>4 DEF AfterFault, Stage, BeforeAnswer, AtClose, WhileStreaming, AtEnd
    <3>5. CASE pc[r] \notin Finals /\ pc'[r] = "close"
      BY <1>0, <3>1, <3>2, <3>5 DEF AfterFault, Stage, BeforeAnswer, AtClose, WhileStreaming, AtEnd
    <3>6. pc[r] \notin Finals => pc'[r] \in {"record_failure", "close"}
      BY <1>0, <3>1 DEF AfterFault
    <3> QED
      BY <3>3, <3>4, <3>5, <3>6
  <2> QED
    BY <2>1, <2>2, <2>3, <2>4, <2>5, <2>6, <2>7, <2>8, <2>9, <2>10, <2>11, <2>12, <2>13, <2>14, <2>15
<1>3. ASSUME NEW q \in Requests PROVE Stage(q)'
  BY <1>1, <1>2, OthersKeepStage
<1> QED
  BY <1>3 DEF StageInv

(* Every step keeps the types, and the resources within their limits.      *)
LEMMA TypeStep ==
  ASSUME TypeOK, StageInv, StageInv', NEW r \in Requests,
         \/ Authenticate(r) \/ Answer(r) \/ CommitOrRollback(r) \/ Reload(r)
         \/ RecordFailure(r) \/ Serialize(r) \/ Close(r) \/ RefuseDownload(r) \/ OpenStream(r)
         \/ RecordStarted(r) \/ ReadChunk(r) \/ SourceEnds(r) \/ Finalize(r)
         \/ Dispatch(r) \/ ClientLeaves(r) \/ DatabaseFails(r) \/ CheckoutTimesOut(r)
  PROVE  TypeOK'
<1>1. /\ connections' \subseteq Requests
      /\ Cardinality(connections') <= PoolSize
  <2>1. CASE Authenticate(r)
    BY <2>1, PoolBounded DEF Authenticate, TypeOK
  <2>2. CASE Reload(r)
    BY <2>2, PoolBounded DEF Reload, TypeOK
  <2>3. CASE CommitOrRollback(r)
    BY <2>3, PoolBounded DEF CommitOrRollback, TypeOK
  <2>4. CASE Close(r)
    BY <2>4, PoolBounded DEF Close, TypeOK
  <2>5. CASE RefuseDownload(r)
    BY <2>5, PoolBounded DEF RefuseDownload, TypeOK
  <2>6. CASE RecordStarted(r)
    BY <2>6, PoolBounded DEF RecordStarted, TypeOK
  <2>7. CASE \/ Answer(r) \/ RecordFailure(r) \/ Serialize(r) \/ OpenStream(r) \/ ReadChunk(r) \/ SourceEnds(r)
            \/ Finalize(r) \/ Dispatch(r) \/ ClientLeaves(r) \/ DatabaseFails(r) \/ CheckoutTimesOut(r)
    <3>1. connections' = connections
      BY <2>7 DEF Answer, RecordFailure, Serialize, OpenStream, ReadChunk, SourceEnds, Finalize, Dispatch,
         ClientLeaves, DatabaseFails, CheckoutTimesOut
    <3> QED
      BY <3>1 DEF TypeOK
  <2> QED
    BY <2>1, <2>2, <2>3, <2>4, <2>5, <2>6, <2>7
<1>2. /\ threads' \subseteq Requests /\ Cardinality(threads') <= ThreadLimit
      /\ loop' \in Requests \cup {None} /\ loop' \notin threads'
  <2>1. CASE Leave(r)
    BY <2>1, LeaveBounded
  <2>2. CASE Dispatch(r)
    BY <2>2, DispatchBounded
  <2>3. CASE threads' = threads /\ loop' = loop
    BY <2>3 DEF TypeOK
  <2>4. CASE ClientLeaves(r)
    <3>1. threads' = threads /\ r \notin threads /\ loop' \in {r, loop}
      BY <2>4 DEF ClientLeaves, Running
    <3> QED
      BY <3>1 DEF TypeOK
  <2>5. \/ Leave(r) \/ Dispatch(r) \/ ClientLeaves(r)
        \/ threads' = threads /\ loop' = loop
    <3>1. CASE DatabaseFails(r) \/ CheckoutTimesOut(r)
      BY <3>1 DEF DatabaseFails, CheckoutTimesOut, AfterFault
    <3>2. CASE \/ Authenticate(r) \/ Answer(r) \/ Reload(r) \/ RecordFailure(r) \/ Serialize(r)
               \/ RefuseDownload(r) \/ ReadChunk(r) \/ Finalize(r)
      BY <3>2 DEF Authenticate, Answer, Reload, RecordFailure, Serialize, RefuseDownload, ReadChunk, Finalize
    <3>3. CASE CommitOrRollback(r) \/ Close(r) \/ OpenStream(r) \/ RecordStarted(r) \/ SourceEnds(r)
      BY <3>3 DEF CommitOrRollback, Close, OpenStream, RecordStarted, SourceEnds
    <3> QED
      BY <3>1, <3>2, <3>3
  <2> QED
    BY <2>1, <2>2, <2>3, <2>4, <2>5
<1>3. /\ kind' \in [Requests -> Kinds] /\ pc' \in [Requests -> Steps]
      /\ stream' \in [Requests -> {"none", "opened", "reading", "closed", "dropped"}]
      /\ left' \in [Requests -> 0 .. Chunks] /\ faulted' \subseteq Requests
  <2> USE DEF Goto, Steps, Checkouts, Finals, Dispatched
  <2>0. /\ kind \in [Requests -> Kinds] /\ pc \in [Requests -> Steps] /\ faulted \subseteq Requests
        /\ stream \in [Requests -> {"none", "opened", "reading", "closed", "dropped"}]
        /\ left \in [Requests -> 0 .. Chunks] /\ Chunks \in Nat \ {0}
    BY CapacityAssumption DEF TypeOK
  <2>1. CASE Authenticate(r)
    BY <2>0, <2>1 DEF Authenticate
  <2>2. CASE Answer(r)
    BY <2>0, <2>2 DEF Answer, AfterAnswer
  <2>3. CASE CommitOrRollback(r)
    BY <2>0, <2>3 DEF CommitOrRollback
  <2>4. CASE Reload(r)
    BY <2>0, <2>4 DEF Reload, AfterAnswer
  <2>5. CASE RecordFailure(r) \/ Serialize(r)
    BY <2>0, <2>5 DEF RecordFailure, Serialize
  <2>6. CASE Close(r)
    BY <2>0, <2>6 DEF Close
  <2>7. CASE RefuseDownload(r)
    BY <2>0, <2>7 DEF RefuseDownload
  <2>8. CASE OpenStream(r)
    BY <2>0, <2>8 DEF OpenStream
  <2>9. CASE RecordStarted(r)
    BY <2>0, <2>9 DEF RecordStarted
  <2>10. CASE ReadChunk(r)
    BY <2>0, <2>10 DEF ReadChunk
  <2>11. CASE SourceEnds(r)
    BY <2>0, <2>11 DEF SourceEnds
  <2>12. CASE Finalize(r)
    BY <2>0, <2>12 DEF Finalize
  <2>13. CASE Dispatch(r)
    BY <2>0, <2>13 DEF Dispatch
  <2>14. CASE ClientLeaves(r)
    BY <2>0, <2>14 DEF ClientLeaves
  <2>15. CASE DatabaseFails(r) \/ CheckoutTimesOut(r)
    BY <2>0, <2>15 DEF DatabaseFails, CheckoutTimesOut, AfterFault
  <2> QED
    BY <2>1, <2>2, <2>3, <2>4, <2>5, <2>6, <2>7, <2>8, <2>9, <2>10, <2>11, <2>12, <2>13, <2>14, <2>15
<1>4. rows' \in [Requests -> Seq(Results)]
  <2>1. \E f : rows' = [q \in Requests |-> f[q]]
    <3>1. rows \in [Requests -> Seq(Results)]
      BY DEF TypeOK
    <3>2. rows' = rows \/ \E result : rows' = [rows EXCEPT ![r] = Append(@, result)]
      BY DEF Authenticate, Answer, CommitOrRollback, Reload, RecordFailure, Serialize, Close, RefuseDownload,
         OpenStream, RecordStarted, ReadChunk, SourceEnds, Finalize, Dispatch, ClientLeaves,
         DatabaseFails, CheckoutTimesOut, Audit
    <3> QED
      BY <3>1, <3>2
  <2>2. ASSUME NEW q \in Requests PROVE rows'[q] \in Seq(Results)
    <3>1. Stage(q)' /\ pc'[q] \in Steps
      BY <1>3 DEF StageInv
    <3> QED
      BY <3>1, RowsType DEF Stage, BeforeAnswer, AtClose, WhileStreaming, AtEnd, Untouched,
         Started, Steps, Checkouts, Finals, Dispatched
  <2> QED
    BY <2>1, <2>2
<1> QED
  BY <1>1, <1>2, <1>3, <1>4 DEF TypeOK

(* A request gives its connection back before it goes on to wait.          *)
LEMMA HoldStep ==
  ASSUME TypeOK, NobodyHoldsAndWaits, NEW r \in Requests,
         \/ Authenticate(r) \/ Answer(r) \/ CommitOrRollback(r) \/ Reload(r)
         \/ RecordFailure(r) \/ Serialize(r) \/ Close(r) \/ RefuseDownload(r) \/ OpenStream(r)
         \/ RecordStarted(r) \/ ReadChunk(r) \/ SourceEnds(r) \/ Finalize(r)
         \/ Dispatch(r) \/ ClientLeaves(r) \/ DatabaseFails(r) \/ CheckoutTimesOut(r)
  PROVE  NobodyHoldsAndWaits'
<1> USE DEF Goto, NobodyHoldsAndWaits, Checkouts, Finals
<1>0. pc \in [Requests -> Steps] /\ connections \subseteq Requests
  BY DEF TypeOK
<1>1. CASE Authenticate(r)
  BY <1>0, <1>1 DEF Authenticate
<1>2. CASE Answer(r)
  BY <1>0, <1>2 DEF Answer, AfterAnswer
<1>3. CASE CommitOrRollback(r)
  BY <1>0, <1>3 DEF CommitOrRollback
<1>4. CASE Reload(r)
  BY <1>0, <1>4 DEF Reload, AfterAnswer
<1>5. CASE RecordFailure(r) \/ Serialize(r)
  BY <1>0, <1>5 DEF RecordFailure, Serialize
<1>6. CASE Close(r)
  BY <1>0, <1>6 DEF Close
<1>7. CASE RefuseDownload(r)
  BY <1>0, <1>7 DEF RefuseDownload
<1>8. CASE OpenStream(r)
  BY <1>0, <1>8 DEF OpenStream
<1>9. CASE RecordStarted(r)
  BY <1>0, <1>9 DEF RecordStarted
<1>10. CASE ReadChunk(r)
  BY <1>0, <1>10 DEF ReadChunk
<1>11. CASE SourceEnds(r)
  BY <1>0, <1>11 DEF SourceEnds
<1>12. CASE Finalize(r)
  BY <1>0, <1>12 DEF Finalize
<1>13. CASE Dispatch(r)
  BY <1>0, <1>13 DEF Dispatch
<1>14. CASE ClientLeaves(r)
  BY <1>0, <1>14 DEF ClientLeaves
<1>15. CASE DatabaseFails(r) \/ CheckoutTimesOut(r)
  BY <1>0, <1>15 DEF DatabaseFails, CheckoutTimesOut, AfterFault, Waiting
<1> QED
  BY <1>1, <1>2, <1>3, <1>4, <1>5, <1>6, <1>7, <1>8, <1>9, <1>10, <1>11, <1>12, <1>13, <1>14, <1>15

(* The invariant holds at first.                                           *)
LEMMA InitInv ==
  Init => Inv
<1> SUFFICES ASSUME Init PROVE Inv
  OBVIOUS
<1>1. Cardinality({}) = 0 /\ PoolSize \in Nat /\ ThreadLimit \in Nat /\ Chunks \in Nat \ {0}
  BY CapacityAssumption, FS_EmptySet
<1>2. TypeOK
  BY <1>1, RowsType DEF Init, TypeOK, Steps, Dispatched, Kinds
<1>3. StageInv
  BY DEF Init, StageInv, Stage, BeforeAnswer, AtClose, WhileStreaming, AtEnd, Untouched
<1> QED
  BY <1>2, <1>3 DEF Inv, Init, NobodyHoldsAndWaits

(* The invariant is inductive.                                             *)
LEMMA StepInv ==
  Inv /\ [Next]_vars => Inv'
<1> SUFFICES ASSUME Inv, [Next]_vars PROVE Inv'
  OBVIOUS
<1>1. CASE Next
  <2>1. PICK r \in Requests :
           \/ Authenticate(r) \/ Answer(r) \/ CommitOrRollback(r) \/ Reload(r)
           \/ RecordFailure(r) \/ Serialize(r) \/ Close(r) \/ RefuseDownload(r) \/ OpenStream(r)
           \/ RecordStarted(r) \/ ReadChunk(r) \/ SourceEnds(r) \/ Finalize(r)
           \/ Dispatch(r) \/ ClientLeaves(r) \/ DatabaseFails(r) \/ CheckoutTimesOut(r)
    BY <1>1, NextSplit
  <2>2. StageInv'
    BY <2>1, StageStep DEF Inv
  <2>3. TypeOK'
    BY <2>1, <2>2, TypeStep DEF Inv
  <2>4. NobodyHoldsAndWaits'
    BY <2>1, HoldStep DEF Inv
  <2> QED
    BY <2>2, <2>3, <2>4 DEF Inv
<1>2. CASE UNCHANGED vars
  <2>1. TypeOK' /\ NobodyHoldsAndWaits'
    BY <1>2 DEF Inv, vars, TypeOK, NobodyHoldsAndWaits
  <2>2. StageInv'
    BY <1>2 DEF Inv, vars, StageInv, Stage, BeforeAnswer, AtClose, WhileStreaming, AtEnd,
       Untouched, Started, Opened
  <2> QED
    BY <2>1, <2>2 DEF Inv
<1> QED
  BY <1>1, <1>2

(* What the stages say of the rows and of the streams.                     *)
LEMMA StagesTell ==
  Inv => AuditTellsOutcome /\ StreamsReleased
<1> SUFFICES ASSUME Inv PROVE AuditTellsOutcome /\ StreamsReleased
  OBVIOUS
<1>1. \A r \in Requests : Stage(r) /\ pc[r] \in Steps /\ left[r] \in 0 .. Chunks
  BY DEF Inv, StageInv, TypeOK
<1>2. Chunks \in Nat \ {0}
  BY CapacityAssumption
<1>3. /\ Len(<< >>) = 0 /\ Len(<<"started">>) = 1 /\ Len(<<"failed">>) = 1
      /\ Len(<<"started", "completed">>) = 2 /\ Len(<<"started", "interrupted">>) = 2
  OBVIOUS
<1>4. <<"started">> # <<"started", "completed">> /\ <<"started">> # <<"failed">> /\ << >> # <<"failed">>
      /\ << >> # <<"started", "completed">> /\ <<"failed">> # <<"started", "completed">>
      /\ <<"started", "interrupted">> # <<"failed">> /\ <<"started", "completed">> # <<"failed">>
      /\ <<"started", "interrupted">> # <<"started", "completed">>
  OBVIOUS
<1>5. ASSUME NEW r \in Requests
      PROVE  /\ rows[r] \in { << >>, <<"failed">>, <<"started">>,
                              <<"started", "completed">>, <<"started", "interrupted">> }
             /\ rows[r] = <<"failed">> => stream[r] = "none"
             /\ rows[r] = <<"started", "completed">> => left[r] = 0
             /\ pc[r] = "done" /\ stream[r] = "closed" /\ r \notin faulted => Len(rows[r]) = 2
             /\ pc[r] = "done" /\ stream[r] = "dropped" => Len(rows[r]) <= 1
             /\ left[r] < Chunks => stream[r] \in {"reading", "closed"}
             /\ pc[r] = "done" => stream[r] \notin {"opened", "reading"}
  <2>0. Stage(r) /\ pc[r] \in Steps /\ left[r] \in 0 .. Chunks
    BY <1>1
  <2>1. CASE pc[r] = "done"
    <3>1. AtEnd(r)
      BY <2>0 DEF Stage
    <3>2. /\ rows[r] \in { << >>, <<"failed">>, <<"started">>,
                          <<"started", "completed">>, <<"started", "interrupted">> }
          /\ rows[r] = <<"failed">> => stream[r] = "none"
      BY <1>4, <2>1, <3>1 DEF AtEnd, Untouched, Started, Opened
    <3>3. rows[r] = <<"started", "completed">> => left[r] = 0
      BY <1>4, <2>1, <3>1 DEF AtEnd, Untouched, Started, Opened
    <3>4. pc[r] = "done" => /\ stream[r] = "closed" /\ r \notin faulted => Len(rows[r]) = 2
                            /\ stream[r] = "dropped" => Len(rows[r]) <= 1
      <4>1. stream[r] = "closed" /\ r \notin faulted =>
              rows[r] \in {<<"started", "interrupted">>, <<"started", "completed">>}
        BY <2>1, <3>1 DEF AtEnd
      <4>2. stream[r] = "dropped" => rows[r] = << >> \/ rows[r] = <<"started">>
        BY <2>1, <3>1 DEF AtEnd
      <4>3. rows[r] = << >> \/ rows[r] = <<"started">> => Len(rows[r]) <= 1
        <5>1. rows[r] = << >> \/ rows[r] = <<"started">> => Len(rows[r]) = 0 \/ Len(rows[r]) = 1
          BY <1>3, Zenon
        <5>2. \A n : n = 0 \/ n = 1 => n <= 1
          OBVIOUS
        <5> QED
          BY <5>1, <5>2, Zenon
      <4>4. rows[r] \in {<<"started", "interrupted">>, <<"started", "completed">>} => Len(rows[r]) = 2
        BY <1>3
      <4> QED
        BY <4>1, <4>2, <4>3, <4>4
    <3>5. /\ left[r] < Chunks => stream[r] \in {"reading", "closed"}
          /\ pc[r] = "done" => stream[r] \notin {"opened", "reading"}
      BY <1>2, <2>1, <2>0, <3>1 DEF AtEnd, Untouched, Started, Opened
    <3> QED
      BY <3>2, <3>3, <3>4, <3>5
  <2>2. CASE pc[r] = "close"
    <3>1. AtClose(r)
      BY <2>0 DEF Stage
    <3>2. /\ rows[r] \in { << >>, <<"failed">>, <<"started">>,
                          <<"started", "completed">>, <<"started", "interrupted">> }
          /\ rows[r] = <<"failed">> => stream[r] = "none"
      BY <1>4, <2>2, <3>1 DEF AtClose, Untouched, Started, Opened
    <3>3. rows[r] = <<"started", "completed">> => left[r] = 0
      BY <1>4, <2>2, <3>1 DEF AtClose, Untouched, Started, Opened
    <3>4. pc[r] = "done" => /\ stream[r] = "closed" /\ r \notin faulted => Len(rows[r]) = 2
                            /\ stream[r] = "dropped" => Len(rows[r]) <= 1
      BY <1>3, <2>2, <3>1 DEF AtClose, Untouched, Started, Opened
    <3>5. /\ left[r] < Chunks => stream[r] \in {"reading", "closed"}
          /\ pc[r] = "done" => stream[r] \notin {"opened", "reading"}
      BY <1>2, <2>2, <2>0, <3>1 DEF AtClose, Untouched, Started, Opened
    <3> QED
      BY <3>2, <3>3, <3>4, <3>5
  <2>3. CASE pc[r] \in {"streaming", "completed", "interrupted"}
    <3>1. WhileStreaming(r)
      BY <2>0 DEF Stage
    <3>2. /\ rows[r] \in { << >>, <<"failed">>, <<"started">>,
                          <<"started", "completed">>, <<"started", "interrupted">> }
          /\ rows[r] = <<"failed">> => stream[r] = "none"
      BY <1>4, <2>3, <3>1 DEF WhileStreaming, Untouched, Started, Opened
    <3>3. rows[r] = <<"started", "completed">> => left[r] = 0
      BY <1>4, <2>3, <3>1 DEF WhileStreaming, Untouched, Started, Opened
    <3>4. pc[r] = "done" => /\ stream[r] = "closed" /\ r \notin faulted => Len(rows[r]) = 2
                            /\ stream[r] = "dropped" => Len(rows[r]) <= 1
      BY <1>3, <2>3, <3>1 DEF WhileStreaming, Untouched, Started, Opened
    <3>5. /\ left[r] < Chunks => stream[r] \in {"reading", "closed"}
          /\ pc[r] = "done" => stream[r] \notin {"opened", "reading"}
      BY <1>2, <2>3, <2>0, <3>1 DEF WhileStreaming, Untouched, Started, Opened
    <3> QED
      BY <3>2, <3>3, <3>4, <3>5
  <2>4. CASE pc[r] \in {"authenticate", "handle", "record", "reload", "serialize", "record_failure"}
    <3>1. BeforeAnswer(r)
      BY <2>0 DEF Stage
    <3>2. /\ rows[r] \in { << >>, <<"failed">>, <<"started">>,
                          <<"started", "completed">>, <<"started", "interrupted">> }
          /\ rows[r] = <<"failed">> => stream[r] = "none"
      BY <1>4, <2>4, <3>1 DEF BeforeAnswer, Untouched, Started, Opened
    <3>3. rows[r] = <<"started", "completed">> => left[r] = 0
      BY <1>4, <2>4, <3>1 DEF BeforeAnswer, Untouched, Started, Opened
    <3>4. pc[r] = "done" => /\ stream[r] = "closed" /\ r \notin faulted => Len(rows[r]) = 2
                            /\ stream[r] = "dropped" => Len(rows[r]) <= 1
      BY <1>3, <2>4, <3>1 DEF BeforeAnswer, Untouched, Started, Opened
    <3>5. /\ left[r] < Chunks => stream[r] \in {"reading", "closed"}
          /\ pc[r] = "done" => stream[r] \notin {"opened", "reading"}
      BY <1>2, <2>4, <2>0, <3>1 DEF BeforeAnswer, Untouched, Started, Opened
    <3> QED
      BY <3>2, <3>3, <3>4, <3>5
  <2> QED
    BY <2>0, <2>1, <2>2, <2>3, <2>4 DEF Steps, Checkouts, Finals, Dispatched
<1> QED
  BY <1>5 DEF AuditTellsOutcome, StreamsReleased

---------------------------------------------------------------------------
(* The theorems.                                                           *)

(* The inductive invariant holds of every behaviour.                       *)
THEOREM Invariance ==
  Spec => []Inv
  BY InitInv, StepInv, PTL DEF Spec

(* Every variable keeps its type, the pool and the threads are never lent  *)
(* beyond their limits, and no request has a thread and the loop at once.  *)
THEOREM TypeCorrectness ==
  Spec => []TypeOK
<1>1. Inv => TypeOK
  BY DEF Inv
<1> QED
  BY <1>1, Invariance, PTL

(* No request waits for a connection while its session holds one, and a    *)
(* download that waits for its client holds none (service.py:126-180).     *)
THEOREM NobodyWaitsForItself ==
  Spec => []NobodyHoldsAndWaits
<1>1. Inv => NobodyHoldsAndWaits
  BY DEF Inv
<1> QED
  BY <1>1, Invariance, PTL

(* The audit rows of a download tell what became of it                     *)
(* (service.py:161-180).                                                   *)
THEOREM AuditIsTrue ==
  Spec => []AuditTellsOutcome
<1>1. Inv => AuditTellsOutcome
  BY StagesTell
<1> QED
  BY <1>1, Invariance, PTL

(* A response of MinIO is closed when its download ends, unless its        *)
(* generator was never advanced (storage.py:75).                           *)
THEOREM NoStreamLeaks ==
  Spec => []StreamsReleased
<1>1. Inv => StreamsReleased
  BY StagesTell
<1> QED
  BY <1>1, Invariance, PTL

---------------------------------------------------------------------------
(* Nothing but a circle stops the requests.                                *)

(* Where a request stands tells whether it has a thread or the loop.       *)
Held == Finals \cup {"reload", "record_failure", "record"}
Placed(r) ==
  /\ Running(r) => pc[r] \notin {"close", "done"}
  /\ pc[r] \in Held => Running(r)
PlaceInv == \A r \in Requests : Placed(r)

(* A request that leaves its thread, or the loop, runs no more, and the    *)
(* others stay where they are.                                             *)
LEMMA LeaveRuns ==
  ASSUME TypeOK, NEW r \in Requests, Leave(r), NEW q \in Requests
  PROVE  Running(q)' <=> q # r /\ Running(q)
<1>1. None # q /\ None # r
  BY CapacityAssumption
<1> QED
  BY <1>1 DEF Leave, Running

LEMMA StayRuns ==
  ASSUME threads' = threads, loop' = loop, NEW q \in Requests
  PROVE  Running(q)' <=> Running(q)
BY DEF Running

(* The new place of the request that moves.                                *)
LEMMA MovedPlace ==
  ASSUME TypeOK, PlaceInv, NEW r \in Requests,
         \/ Authenticate(r) \/ Answer(r) \/ CommitOrRollback(r) \/ Reload(r)
         \/ RecordFailure(r) \/ Serialize(r) \/ Close(r) \/ RefuseDownload(r) \/ OpenStream(r)
         \/ RecordStarted(r) \/ ReadChunk(r) \/ SourceEnds(r) \/ Finalize(r)
         \/ Dispatch(r) \/ ClientLeaves(r) \/ DatabaseFails(r) \/ CheckoutTimesOut(r)
  PROVE  PlaceInv'
<1> SUFFICES ASSUME NEW q \in Requests PROVE Placed(q)'
  BY DEF PlaceInv
<1>0. Placed(q) /\ Placed(r) /\ None \notin Requests /\ pc \in [Requests -> Steps]
  BY CapacityAssumption DEF PlaceInv, TypeOK
<1> USE DEF Goto, Finals, Held
<1>1. CASE \/ Authenticate(r) \/ Answer(r) \/ Reload(r) \/ RecordFailure(r)
           \/ Serialize(r) \/ RefuseDownload(r) \/ Finalize(r)
  <2>1. Leave(r) /\ \E step \in {"handle", "serialize", "close", "done"} : pc' = [pc EXCEPT ![r] = step]
    BY <1>1 DEF Authenticate, Answer, AfterAnswer, Reload, RecordFailure, Serialize, RefuseDownload, Finalize
  <2>2. Running(q)' <=> q # r /\ Running(q)
    BY <2>1, LeaveRuns
  <2> QED
    BY <1>0, <2>1, <2>2 DEF Placed
<1>2. CASE CommitOrRollback(r) \/ OpenStream(r) \/ RecordStarted(r) \/ SourceEnds(r)
  <2>1. /\ Running(r) /\ threads' = threads /\ loop' = loop
        /\ \E step \in Held : pc' = [pc EXCEPT ![r] = step]
    BY <1>2 DEF CommitOrRollback, OpenStream, RecordStarted, SourceEnds
  <2>2. Running(q)' <=> Running(q)
    BY <2>1, StayRuns
  <2> QED
    BY <1>0, <2>1, <2>2 DEF Placed
<1>3. CASE Close(r)
  <2>1. /\ pc[r] = "close" /\ threads' = threads /\ loop' = loop
        /\ \E step \in {"streaming", "done"} : pc' = [pc EXCEPT ![r] = step]
    BY <1>3 DEF Close
  <2>2. (Running(q)' <=> Running(q)) /\ ~Running(r)
    BY <1>0, <2>1, StayRuns DEF Placed
  <2> QED
    BY <1>0, <2>1, <2>2 DEF Placed
<1>4. CASE ReadChunk(r)
  <2>1. Leave(r) /\ pc' = pc /\ pc[r] = "streaming"
    BY <1>4 DEF ReadChunk
  <2>2. Running(q)' <=> q # r /\ Running(q)
    BY <2>1, LeaveRuns
  <2> QED
    BY <1>0, <2>1, <2>2 DEF Placed
<1>5. CASE Dispatch(r)
  <2>1. pc' = pc /\ pc[r] \in Dispatched /\ loop = None
    BY <1>5 DEF Dispatch
  <2>2. Running(q)' <=> q = r \/ Running(q)
    <3>1. \/ loop' = r /\ threads' = threads
          \/ threads' = threads \cup {r} /\ loop' = loop
      BY <1>5 DEF Dispatch
    <3> QED
      BY <1>0, <2>1, <3>1 DEF Running
  <2> QED
    BY <1>0, <2>1, <2>2 DEF Placed, Dispatched
<1>6. CASE ClientLeaves(r)
  <2>1. loop = None /\ ~Running(r) /\ threads' = threads
    BY <1>6 DEF ClientLeaves
  <2>2. CASE loop' = r /\ pc' = [pc EXCEPT ![r] = "interrupted"]
    <3>1. Running(q)' <=> q = r \/ Running(q)
      BY <1>0, <2>1, <2>2 DEF Running
    <3> QED
      BY <1>0, <2>2, <3>1 DEF Placed
  <2>3. CASE loop' = loop /\ pc' = [pc EXCEPT ![r] = "done"]
    <3>1. Running(q)' <=> Running(q)
      BY <2>1, <2>3, StayRuns
    <3> QED
      BY <1>0, <2>1, <2>3, <3>1 DEF Placed
  <2> QED
    BY <1>6, <2>2, <2>3 DEF ClientLeaves
<1>7. CASE DatabaseFails(r) \/ CheckoutTimesOut(r)
  <2>1. Running(r) /\ AfterFault(r)
    BY <1>7 DEF DatabaseFails, CheckoutTimesOut, Waiting
  <2>2. CASE Leave(r) /\ \E step \in {"close", "done"} : pc' = [pc EXCEPT ![r] = step]
    <3>1. Running(q)' <=> q # r /\ Running(q)
      BY <2>2, LeaveRuns
    <3> QED
      BY <1>0, <2>2, <3>1 DEF Placed
  <2>3. CASE threads' = threads /\ loop' = loop /\ pc' = [pc EXCEPT ![r] = "record_failure"]
    <3>1. Running(q)' <=> Running(q)
      BY <2>3, StayRuns
    <3> QED
      BY <1>0, <2>1, <2>3, <3>1 DEF Placed
  <2> QED
    BY <2>1, <2>2, <2>3 DEF AfterFault
<1> QED
  BY <1>1, <1>2, <1>3, <1>4, <1>5, <1>6, <1>7

LEMMA StepPlace == Inv /\ PlaceInv /\ [Next]_vars => PlaceInv'
<1> SUFFICES ASSUME Inv, PlaceInv, [Next]_vars PROVE PlaceInv'
  OBVIOUS
<1>1. CASE Next
  BY <1>1, NextSplit, MovedPlace DEF Inv
<1>2. CASE UNCHANGED vars
  BY <1>2 DEF vars, PlaceInv, Placed, Running
<1> QED
  BY <1>1, <1>2

LEMMA InitPlace == Init => PlaceInv
<1>1. None \notin Requests
  BY CapacityAssumption
<1> QED
  BY <1>1 DEF Init, PlaceInv, Placed, Running, Held, Finals

(* Some request runs: otherwise the loop and the threads are free. It      *)
(* waits, so the pool is lent, and to nobody who runs.                     *)
LEMMA PlacesTell ==
  ASSUME Inv, PlaceInv
  PROVE  OnlyCircularWaitStops
<1> SUFFICES ASSUME NEW u \in Unsettled, \A r \in Requests : ~CanGoOn(r)
             PROVE  CircularWait
  BY DEF OnlyCircularWaitStops
<1>1. /\ pc \in [Requests -> Steps] /\ connections \subseteq Requests /\ threads \subseteq Requests
      /\ loop \in Requests \cup {None} /\ None \notin Requests
      /\ Cardinality(threads) <= ThreadLimit
  BY CapacityAssumption DEF Inv, TypeOK
<1>2. /\ Cardinality(threads) \in Nat /\ Cardinality(connections) \in Nat
      /\ ThreadLimit \in Nat \ {0} /\ PoolSize \in Nat \ {0}
  BY HoldersFinite, CapacityAssumption DEF Inv
<1>3. \A r \in Requests : Running(r) => Waiting(r) /\ ~PoolFree
  BY DEF CanGoOn, PlaceInv, Placed, Waiting
<1>4. \A r \in Requests : ~Running(r) => pc[r] \in {"authenticate", "handle", "serialize", "streaming", "close", "done"}
  <2> TAKE r \in Requests
  <2>1. pc[r] \in Steps
    BY <1>1
  <2> QED
    BY <2>1 DEF PlaceInv, Placed, Held, Steps, Checkouts, Dispatched, Finals
<1>5. \E q \in Requests : Running(q)
  <2> SUFFICES ASSUME \A q \in Requests : ~Running(q) PROVE FALSE
    OBVIOUS
  <2>1. loop = None /\ threads = {}
    BY <1>1 DEF Running
  <2>2. Cardinality(threads) < ThreadLimit
    BY <1>2, <2>1, FS_EmptySet
  <2>3. u \in Requests /\ pc[u] \in {"authenticate", "handle", "serialize", "close"}
    BY <1>4 DEF Unsettled
  <2> QED
    BY <2>1, <2>2, <2>3 DEF CanGoOn, Dispatched
<1>6. ~PoolFree /\ connections # {}
  <2>1. ~PoolFree
    BY <1>3, <1>5
  <2>2. ASSUME connections = {} PROVE FALSE
    BY <1>2, <2>1, <2>2, FS_EmptySet DEF PoolFree
  <2> QED
    BY <2>1, <2>2
<1>7. \A r \in connections : ~Running(r)
  BY <1>1, <1>3 DEF Inv, NobodyHoldsAndWaits, Waiting, Checkouts, Finals
<1>8. CASE loop # None
  <2>1. Running(loop)
    BY DEF Running
  <2> QED
    BY <1>1, <1>3, <1>6, <1>7, <1>8, <2>1 DEF CircularWait
<1>9. CASE loop = None
  <2>1. \A r \in threads : Waiting(r)
    BY <1>1, <1>3 DEF Running
  <2>2. ASSUME NEW r \in connections
        PROVE  /\ pc[r] \in {"handle", "serialize"} /\ ~RunsOnLoop(r)
               /\ ~(Cardinality(threads) < ThreadLimit)
    <3>1. r \in Requests /\ ~Running(r) /\ ~CanGoOn(r)
      BY <1>1, <1>7
    <3>2. pc[r] \in {"handle", "serialize", "close"}
      BY <1>4, <3>1 DEF Inv, NobodyHoldsAndWaits
    <3> QED
      BY <1>9, <3>1, <3>2 DEF CanGoOn, Dispatched
  <2>3. \A r \in connections : pc[r] \in {"handle", "serialize"} /\ kind[r] # "upload"
    <3> SUFFICES ASSUME NEW r \in connections PROVE kind[r] # "upload"
      BY <2>2
    <3>1. Stage(r)
      BY <1>1 DEF Inv, StageInv
    <3> QED
      BY <2>2, <3>1 DEF RunsOnLoop, Stage, BeforeAnswer
  <2>4. Cardinality(threads) = ThreadLimit
    BY <1>1, <1>2, <1>6, <2>2
  <2> QED
    BY <1>6, <1>7, <2>1, <2>3, <2>4 DEF CircularWait
<1> QED
  BY <1>8, <1>9

(* When nothing but a checkout timeout or a client can move a request on,  *)
(* the pool is lent to requests that wait for the loop or a thread, and    *)
(* the loop or every thread is taken by a request that waits for the pool  *)
(* (dependencies/auth.py:22).                                              *)
THEOREM OnlyCirclesStop == Spec => []OnlyCircularWaitStops
<1>1. Spec => []PlaceInv
  BY InitPlace, Invariance, StepPlace, PTL DEF Spec
<1> QED
  BY <1>1, Invariance, PlacesTell, PTL
---------------------------------------------------------------------------
(* How many steps a request takes: with OnlyCirclesStop, the reason why    *)
(* requests settle. None of them can be retried, and none goes back.       *)

Undispatched(r) == IF Running(r) THEN 0 ELSE 1
\* The steps a request can still take, at most.
StepsLeft(r) ==
  CASE pc[r] = "authenticate" -> 2 * Chunks + 11 + Undispatched(r)
    [] pc[r] = "handle" -> 2 * Chunks + 9 + Undispatched(r)
    [] pc[r] = "record" -> 2 * Chunks + 8
    [] pc[r] = "reload" -> 2 * Chunks + 7
    [] pc[r] = "serialize" -> 2 * Chunks + 5 + Undispatched(r)
    [] pc[r] = "record_failure" -> 2 * Chunks + 5
    [] pc[r] = "close" -> 2 * Chunks + 4
    [] pc[r] = "streaming" -> 2 * left[r] + 2 + Undispatched(r)
    [] pc[r] \in Finals -> 1
    [] pc[r] = "done" -> 0

LEMMA StepsBounded ==
  ASSUME TypeOK, NEW r \in Requests
  PROVE  StepsLeft(r) \in 0 .. 2 * Chunks + 12
<1>1. /\ Chunks \in Nat /\ left[r] \in 0 .. Chunks /\ Undispatched(r) \in 0 .. 1
      /\ pc[r] \in Steps
  BY CapacityAssumption DEF TypeOK, Undispatched
<1>2. CASE pc[r] = "streaming"
  BY <1>1, <1>2 DEF StepsLeft, Finals
<1>3. CASE pc[r] \in {"authenticate", "handle", "serialize"}
  <2>1. \/ StepsLeft(r) = 2 * Chunks + 11 + Undispatched(r)
        \/ StepsLeft(r) = 2 * Chunks + 9 + Undispatched(r)
        \/ StepsLeft(r) = 2 * Chunks + 5 + Undispatched(r)
    <3> HIDE DEF Undispatched
    <3>1. CASE pc[r] = "authenticate"
      BY <1>1, <3>1 DEF StepsLeft, Finals
    <3>2. CASE pc[r] = "handle"
      BY <1>1, <3>2 DEF StepsLeft, Finals
    <3>3. CASE pc[r] = "serialize"
      BY <1>1, <3>3 DEF StepsLeft, Finals
    <3> QED
      BY <1>3, <3>1, <3>2, <3>3
  <2> HIDE DEF StepsLeft, Undispatched
  <2> QED
    BY <1>1, <2>1
<1>4. CASE pc[r] \in {"record", "reload", "record_failure", "close", "done"} \cup Finals
  <2>1. StepsLeft(r) \in {2 * Chunks + 8, 2 * Chunks + 7, 2 * Chunks + 5, 2 * Chunks + 4, 1, 0}
    BY <1>4 DEF StepsLeft, Finals
  <2> HIDE DEF StepsLeft
  <2> QED
    BY <1>1, <2>1
<1> QED
  BY <1>1, <1>2, <1>3, <1>4 DEF Steps, Checkouts, Dispatched

(* What a step does to the place and the chunks of its request.            *)
LEMMA PlaceShrinks ==
  ASSUME TypeOK, NEW r \in Requests, pc'[r] \in Steps, left'[r] = left[r],
         \/ pc[r] = "authenticate" /\ Running(r) /\ pc'[r] \notin {"authenticate"}
         \/ /\ pc[r] = "handle" /\ Running(r)
            /\ pc'[r] \in {"record", "reload", "serialize", "record_failure", "close"}
         \/ pc[r] = "record" /\ pc'[r] \in {"reload", "close"}
         \/ pc[r] = "reload" /\ pc'[r] \in {"serialize", "record_failure", "close"}
         \/ pc[r] = "serialize" /\ Running(r) /\ pc'[r] = "close"
         \/ pc[r] = "record_failure" /\ pc'[r] = "close"
         \/ pc[r] = "close" /\ pc'[r] \in {"streaming", "done"}
         \/ pc[r] = "streaming" /\ pc'[r] \in Finals \cup {"done"}
         \/ pc[r] \in Finals /\ pc'[r] = "done"
         \/ pc[r] \in Dispatched /\ pc'[r] = pc[r] /\ ~Running(r) /\ Running(r)'
  PROVE  StepsLeft(r)' < StepsLeft(r)
<1>1. /\ Chunks \in Nat /\ left[r] \in 0 .. Chunks
      /\ Undispatched(r) \in 0 .. 1 /\ Undispatched(r)' \in 0 .. 1
      /\ Running(r) => Undispatched(r) = 0
      /\ Running(r)' => Undispatched(r)' = 0
      /\ ~Running(r) => Undispatched(r) = 1
  BY CapacityAssumption DEF TypeOK, Undispatched
<1> HIDE DEF Undispatched
<1>2. CASE pc[r] \in {"authenticate", "handle", "serialize"} /\ pc'[r] # pc[r]
  BY <1>1, <1>2 DEF StepsLeft, Steps, Checkouts, Dispatched, Finals
<1>3. CASE pc[r] \in {"record", "reload", "record_failure", "close"}
  BY <1>1, <1>3 DEF StepsLeft, Dispatched, Finals
<1>4. CASE pc[r] \in Finals \cup {"streaming"} /\ pc'[r] # pc[r]
  BY <1>1, <1>4 DEF StepsLeft, Dispatched, Finals
<1>5. CASE pc[r] \in Dispatched /\ pc'[r] = pc[r]
  BY <1>1, <1>5 DEF StepsLeft, Dispatched, Finals
<1> QED
  BY <1>2, <1>3, <1>4, <1>5 DEF Finals, Dispatched

\* A step of r brings r nearer to its end, and no other request away from it.
Advances(r) ==
  /\ StepsLeft(r)' < StepsLeft(r)
  /\ \A q \in Requests \ {r} : StepsLeft(q)' = StepsLeft(q)

LEMMA OthersStay ==
  ASSUME NEW r \in Requests,
         \A q \in Requests \ {r} :
           pc'[q] = pc[q] /\ left'[q] = left[q] /\ (Running(q)' <=> Running(q))
  PROVE  \A q \in Requests \ {r} : StepsLeft(q)' = StepsLeft(q)
<1> SUFFICES ASSUME NEW q \in Requests \ {r} PROVE StepsLeft(q)' = StepsLeft(q)
  OBVIOUS
<1>1. Undispatched(q)' = Undispatched(q)
  BY DEF Undispatched
<1> QED
  BY <1>1 DEF StepsLeft

LEMMA StepAdvances ==
  ASSUME Inv, PlaceInv, NEW r \in Requests,
         \/ Authenticate(r) \/ Answer(r) \/ CommitOrRollback(r) \/ Reload(r)
         \/ RecordFailure(r) \/ Serialize(r) \/ Close(r) \/ RefuseDownload(r) \/ OpenStream(r)
         \/ RecordStarted(r) \/ ReadChunk(r) \/ SourceEnds(r) \/ Finalize(r)
         \/ Dispatch(r) \/ ClientLeaves(r) \/ DatabaseFails(r) \/ CheckoutTimesOut(r)
  PROVE  Advances(r)
<1>0. /\ TypeOK /\ Placed(r) /\ None \notin Requests /\ pc \in [Requests -> Steps]
      /\ left \in [Requests -> 0 .. Chunks] /\ Chunks \in Nat
  BY CapacityAssumption DEF Inv, PlaceInv, TypeOK
<1> USE DEF Goto
<1>1. CASE \/ Authenticate(r) \/ Answer(r) \/ Reload(r) \/ RecordFailure(r) \/ Serialize(r)
           \/ RefuseDownload(r) \/ Finalize(r)
  <2>1. /\ Leave(r) /\ left' = left
        /\ \/ /\ pc[r] = "authenticate" /\ Running(r)
              /\ \E step \in {"handle", "close"} : pc' = [pc EXCEPT ![r] = step]
           \/ /\ pc[r] = "handle" /\ Running(r)
              /\ \E step \in {"serialize", "close"} : pc' = [pc EXCEPT ![r] = step]
           \/ pc[r] = "reload" /\ \E step \in {"serialize", "close"} : pc' = [pc EXCEPT ![r] = step]
           \/ pc[r] = "serialize" /\ Running(r) /\ pc' = [pc EXCEPT ![r] = "close"]
           \/ pc[r] = "record_failure" /\ pc' = [pc EXCEPT ![r] = "close"]
           \/ pc[r] \in Finals /\ pc' = [pc EXCEPT ![r] = "done"]
    BY <1>1 DEF Authenticate, Answer, AfterAnswer, Reload, RecordFailure, Serialize, RefuseDownload, Finalize
  <2>2. \A q \in Requests \ {r} : Running(q)' <=> Running(q)
    BY <1>0, <2>1, LeaveRuns
  <2>3. StepsLeft(r)' < StepsLeft(r)
    BY <1>0, <2>1, PlaceShrinks DEF Steps, Checkouts, Dispatched
  <2> QED
    BY <1>0, <2>1, <2>2, <2>3, OthersStay DEF Advances
<1>2. CASE CommitOrRollback(r) \/ OpenStream(r) \/ RecordStarted(r) \/ SourceEnds(r) \/ Close(r)
  <2>1. /\ threads' = threads /\ loop' = loop /\ left' = left
        /\ \/ /\ pc[r] = "handle" /\ Running(r)
              /\ \E step \in {"reload", "record_failure", "record"} : pc' = [pc EXCEPT ![r] = step]
           \/ pc[r] = "record" /\ pc' = [pc EXCEPT ![r] = "reload"]
           \/ /\ pc[r] = "streaming"
              /\ \E step \in Finals : pc' = [pc EXCEPT ![r] = step]
           \/ /\ pc[r] = "close"
              /\ \E step \in {"streaming", "done"} : pc' = [pc EXCEPT ![r] = step]
    BY <1>2 DEF CommitOrRollback, OpenStream, RecordStarted, SourceEnds, Close, Finals
  <2>2. \A q \in Requests \ {r} : Running(q)' <=> Running(q)
    BY <2>1, StayRuns
  <2>3. StepsLeft(r)' < StepsLeft(r)
    BY <1>0, <2>1, PlaceShrinks DEF Steps, Checkouts, Dispatched, Finals
  <2> QED
    BY <1>0, <2>1, <2>2, <2>3, OthersStay DEF Advances
<1>3. CASE ReadChunk(r)
  <2>1. /\ Leave(r) /\ pc' = pc /\ pc[r] = "streaming" /\ Running(r)
        /\ left[r] > 0 /\ left' = [left EXCEPT ![r] = left[r] - 1]
    BY <1>0, <1>3 DEF ReadChunk
  <2>2. \A q \in Requests \ {r} : Running(q)' <=> Running(q)
    BY <1>0, <2>1, LeaveRuns
  <2>3. left'[r] = left[r] - 1 /\ Undispatched(r) = 0 /\ Undispatched(r)' \in 0 .. 1
    BY <1>0, <2>1 DEF Undispatched
  <2>4. StepsLeft(r)' < StepsLeft(r)
    BY <1>0, <2>1, <2>3 DEF StepsLeft, Finals
  <2> QED
    BY <1>0, <2>1, <2>2, <2>4, OthersStay DEF Advances
<1>4. CASE Dispatch(r)
  <2>1. pc' = pc /\ left' = left /\ pc[r] \in Dispatched /\ loop = None /\ ~Running(r)
    BY <1>4 DEF Dispatch
  <2>2. \/ loop' = r /\ threads' = threads
        \/ threads' = threads \cup {r} /\ loop' = loop
    BY <1>4 DEF Dispatch
  <2>3. Running(r)' /\ \A q \in Requests \ {r} : Running(q)' <=> Running(q)
    BY <1>0, <2>1, <2>2 DEF Running
  <2>4. StepsLeft(r)' < StepsLeft(r)
    BY <1>0, <2>1, <2>3, PlaceShrinks
  <2> QED
    BY <2>1, <2>3, <2>4, OthersStay DEF Advances
<1>5. CASE ClientLeaves(r)
  <2>1. /\ loop = None /\ ~Running(r) /\ threads' = threads /\ left' = left
        /\ pc[r] = "streaming" /\ loop' \in {r, None}
        /\ \E step \in {"interrupted", "done"} : pc' = [pc EXCEPT ![r] = step]
    BY <1>5 DEF ClientLeaves
  <2>2. \A q \in Requests \ {r} : Running(q)' <=> Running(q)
    BY <1>0, <2>1 DEF Running
  <2>3. StepsLeft(r)' < StepsLeft(r)
    BY <1>0, <2>1, PlaceShrinks DEF Steps, Checkouts, Finals
  <2> QED
    BY <1>0, <2>1, <2>2, <2>3, OthersStay DEF Advances
<1>6. CASE DatabaseFails(r) \/ CheckoutTimesOut(r)
  <2>1. /\ Running(r) /\ AfterFault(r) /\ left' = left
        /\ pc[r] \in Checkouts \cup {"record", "handle"}
    BY <1>6 DEF DatabaseFails, CheckoutTimesOut, Waiting
  <2>2. \/ Leave(r) /\ pc[r] \in Finals /\ pc' = [pc EXCEPT ![r] = "done"]
        \/ Leave(r) /\ pc[r] \notin Finals /\ pc' = [pc EXCEPT ![r] = "close"]
        \/ /\ threads' = threads /\ loop' = loop
           /\ pc[r] = "reload" /\ pc' = [pc EXCEPT ![r] = "record_failure"]
    BY <2>1 DEF AfterFault
  <2>3. \A q \in Requests \ {r} : Running(q)' <=> Running(q)
    BY <1>0, <2>2, LeaveRuns, StayRuns
  <2>4. StepsLeft(r)' < StepsLeft(r)
    BY <1>0, <2>1, <2>2, PlaceShrinks DEF Steps, Checkouts
  <2> QED
    BY <1>0, <2>1, <2>2, <2>3, <2>4, OthersStay DEF Advances
<1> QED
  BY <1>1, <1>2, <1>3, <1>4, <1>5, <1>6

(* Every step of the process, of PostgreSQL, of a client or of a timeout   *)
(* brings one request nearer to its end and no other one away from it; a   *)
(* download of Chunks chunks takes at most 2 * Chunks + 12 steps. So a     *)
(* behaviour of finitely many requests has finitely many steps.            *)
THEOREM StepsAreBounded ==
  Spec => [][/\ \A r \in Requests : StepsLeft(r) \in 0 .. 2 * Chunks + 12
             /\ \E r \in Requests :
                  /\ StepsLeft(r)' < StepsLeft(r)
                  /\ \A q \in Requests \ {r} : StepsLeft(q)' = StepsLeft(q)]_vars
<1>1. Inv /\ PlaceInv /\ [Next]_vars =>
        [/\ \A r \in Requests : StepsLeft(r) \in 0 .. 2 * Chunks + 12
         /\ \E r \in Requests :
              /\ StepsLeft(r)' < StepsLeft(r)
              /\ \A q \in Requests \ {r} : StepsLeft(q)' = StepsLeft(q)]_vars
  <2> SUFFICES ASSUME Inv, PlaceInv, Next
               PROVE  /\ \A r \in Requests : StepsLeft(r) \in 0 .. 2 * Chunks + 12
                      /\ \E r \in Requests : Advances(r)
    BY DEF Advances
  <2>1. TypeOK
    BY DEF Inv
  <2>2. \E r \in Requests : Advances(r)
    BY NextSplit, StepAdvances
  <2> QED
    BY <2>1, <2>2, StepsBounded
<1>2. Spec => []PlaceInv
  BY InitPlace, Invariance, StepPlace, PTL DEF Spec
<1> QED
  BY <1>1, <1>2, Invariance, PTL DEF Spec
===========================================================================
