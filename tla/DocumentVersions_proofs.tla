---------------------- MODULE DocumentVersions_proofs ----------------------
(***************************************************************************)
(* Proofs about DocumentVersions, for any sets of requests, processes and  *)
(* checksums and any set of faults: the rows of the versions among each    *)
(* other, then against the bucket, and then against the audit log.         *)
(***************************************************************************)
EXTENDS DocumentVersions, TLAPS

---------------------------------------------------------------------------
(* The inductive invariant.                                                *)

(* After: the steps of an upload once its commit may have taken effect.    *)
After == {"refresh", "rollback", "compensate", "record", "done"}
(* Locked: the steps a new version takes under the row lock.               *)
Locked == {"check", "insert", "put", "commit"}

(* What a request that has begun knows of its input.                       *)
InputsKnown ==
  \A r \in Requests :
    /\ request[r].pc = "idle" <=> request[r].op = None
    /\ request[r].pc = "idle" => request[r].process = None
    /\ request[r].op # None => request[r].document \in Requests
    /\ request[r].op \in UploadOps /\ request[r].pc # "done"
         => request[r].checksum \in Checksums
    /\ request[r].op = "upload" =>
         /\ request[r].document = r
         /\ request[r].pc \in {"insert", "put", "commit"} \cup After
    /\ request[r].op = "upload_version" =>
         request[r].pc \in {"lock"} \cup Locked \cup After
    /\ request[r].op = "delete" =>
         request[r].pc \in {"read", "commit", "refresh", "done"}

(* A lock has one holder, a new version that is still in its transaction,  *)
(* and such a version holds the lock of its document.                      *)
LocksMatch ==
  /\ \A d \in Requests : rowLock[d] # None =>
       /\ request[rowLock[d]].op = "upload_version"
       /\ request[rowLock[d]].document = d
       /\ request[rowLock[d]].pc \in Locked \cup {"rollback"}
  /\ \A r \in Requests :
       request[r].op = "upload_version" /\ request[r].pc \in Locked
         => rowLock[request[r].document] = r

(* Rows come from the requests that made them.                             *)
RowsHaveOrigin ==
  /\ \A d \in Requests :
       /\ Exists(d) => request[d].op = "upload" /\ request[d].pc \in After
       /\ ~Exists(d) => documents[d] = NoDocument
  /\ \A v \in versions :
       /\ Exists(v.document_id)
       /\ request[v.id].op \in UploadOps
       /\ request[v.id].pc \in After
  /\ \A v, w \in versions : v.id = w.id => v = w

(* What a handler has read still holds when it commits.                    *)
ReadsStillHold ==
  \A r \in Requests :
    LET d == request[r].document IN
    /\ request[r].op = "upload" /\ request[r].pc \in {"insert", "put", "commit"}
         => ~Exists(r) /\ request[r].number = 1
    /\ request[r].op = "upload_version" /\ request[r].pc \in Locked
         => Exists(d) /\ ~Deleted(d)
    /\ request[r].op = "upload_version" /\ request[r].pc \in Locked \ {"check"}
         => \E v \in CurrentVersions(d) :
              /\ request[r].number = v.version_number + 1
              /\ request[r].checksum # v.checksum
    /\ request[r].op = "delete" /\ request[r].pc = "commit" => Exists(d)

IInv ==
  /\ TypeOK
  /\ InputsKnown
  /\ LocksMatch
  /\ RowsHaveOrigin
  /\ ReadsStillHold
  /\ VersionNumbersContiguous
  /\ CurrentIsLatest
  /\ NoRepeatedContent
  /\ NoVersionConflict

---------------------------------------------------------------------------

LEMMA InitIInv == Init => IInv
  <1> SUFFICES ASSUME Init PROVE IInv
    OBVIOUS
  <1> USE NoneAssumption DEF Init, UploadOps, Errors
  <1>1. TypeOK
    BY DEF TypeOK, DocumentRow, NoDocument, RequestState, NoRequest, Steps, Errors
  <1>2. InputsKnown
    BY DEF InputsKnown, NoRequest, UploadOps, Locked, After
  <1>3. LocksMatch
    BY DEF LocksMatch, NoRequest, Locked
  <1>4. RowsHaveOrigin
    BY DEF RowsHaveOrigin, Exists, NoDocument
  <1>5. ReadsStillHold
    BY DEF ReadsStillHold, NoRequest
  <1>6. VersionNumbersContiguous /\ CurrentIsLatest /\ NoRepeatedContent
    BY DEF VersionNumbersContiguous, CurrentIsLatest, NoRepeatedContent, Exists, NoDocument
  <1>7. NoVersionConflict
    BY DEF NoVersionConflict, NoRequest
  <1> QED
    BY <1>1, <1>2, <1>3, <1>4, <1>5, <1>6, <1>7 DEF IInv

(* Steps that touch no committed row keep the shape of every history.      *)
LEMMA HistoryKept ==
  ASSUME UNCHANGED <<documents, versions>>,
         VersionNumbersContiguous, CurrentIsLatest, NoRepeatedContent
  PROVE  VersionNumbersContiguous' /\ CurrentIsLatest' /\ NoRepeatedContent'
  BY DEF VersionNumbersContiguous, CurrentIsLatest, NoRepeatedContent, Exists,
         VersionsOf, NumbersOf, CurrentVersions

(* What the steps of the local state do.                                    *)
LEMMA RaiseEffect ==
  ASSUME TypeOK, NEW r \in Requests, NEW e \in Errors, Raise(r, e)
  PROVE  /\ request' \in [Requests -> RequestState]
         /\ \A s \in Requests \ {r} : request'[s] = request[s]
         /\ request'[r].op = request[r].op
         /\ request'[r].document = request[r].document
         /\ request'[r].checksum = request[r].checksum
         /\ request'[r].uploaded = request[r].uploaded
         /\ request'[r].pc = "rollback"
         /\ request'[r].error = e
  <1>1. request[r] \in RequestState
    BY DEF TypeOK
  <1>2. [request[r] EXCEPT !.pc = "rollback", !.error = e] \in RequestState
    BY <1>1 DEF RequestState, Steps
  <1>3. request' = [request EXCEPT ![r] =
                      [request[r] EXCEPT !.pc = "rollback", !.error = e]]
    BY DEF Raise, TypeOK
  <1> QED
    BY <1>1, <1>2, <1>3 DEF TypeOK, RequestState

LEMMA GotoEffect ==
  ASSUME TypeOK, NEW r \in Requests, NEW step \in Steps, Goto(r, step)
  PROVE  /\ request' \in [Requests -> RequestState]
         /\ \A s \in Requests \ {r} : request'[s] = request[s]
         /\ request'[r].op = request[r].op
         /\ request'[r].document = request[r].document
         /\ request'[r].checksum = request[r].checksum
         /\ request'[r].number = request[r].number
         /\ request'[r].error = request[r].error
         /\ request'[r].pc = step
  <1>1. request[r] \in RequestState
    BY DEF TypeOK
  <1>2. [request[r] EXCEPT !.pc = step] \in RequestState
    BY <1>1 DEF RequestState
  <1>3. request' = [request EXCEPT ![r] = [request[r] EXCEPT !.pc = step]]
    BY DEF Goto, TypeOK
  <1> QED
    BY <1>1, <1>2, <1>3 DEF TypeOK, RequestState

LEMMA EndEffect ==
  ASSUME TypeOK, NEW r \in Requests, NEW e \in Errors \cup {None}, End(r, e)
  PROVE  /\ request' \in [Requests -> RequestState]
         /\ \A s \in Requests \ {r} : request'[s] = request[s]
         /\ request'[r] = Ended(r, e)
         /\ Ended(r, e) \in RequestState
         /\ Ended(r, e).op = request[r].op
         /\ Ended(r, e).document = request[r].document
         /\ Ended(r, e).pc = "done"
         /\ Ended(r, e).error = e
  <1>1. request[r] \in RequestState
    BY DEF TypeOK
  <1>2. /\ Ended(r, e).op = request[r].op
        /\ Ended(r, e).document = request[r].document
        /\ Ended(r, e).pc = "done"
        /\ Ended(r, e).error = e
    BY DEF Ended, NoRequest
  <1>3. Ended(r, e) \in RequestState
    BY <1>1 DEF Ended, NoRequest, RequestState, Steps
  <1> QED
    BY <1>2, <1>3 DEF End, TypeOK

(* A step that stays in a handler: its transaction, if any, stays open, and *)
(* what it has prepared still fits the committed rows.                     *)
LEMMA HandlerAdvances ==
  ASSUME IInv, TypeOK', NEW r \in Requests,
         UNCHANGED <<documents, versions, rowLock>>,
         \A s \in Requests \ {r} : request'[s] = request[s],
         request'[r].op = request[r].op,
         request'[r].document = request[r].document,
         request'[r].checksum = request[r].checksum,
         request'[r].error = request[r].error,
         \/ /\ request[r].op = "upload"
            /\ request[r].pc \in {"insert", "put"}
            /\ request'[r].pc \in {"put", "commit"}
            /\ request'[r].number = request[r].number
         \/ /\ request[r].op = "upload_version"
            /\ request[r].pc \in Locked
            /\ request'[r].pc \in Locked \ {"check"}
            /\ \E v \in CurrentVersions(request[r].document) :
                 /\ request'[r].number = v.version_number + 1
                 /\ request[r].checksum # v.checksum
         \/ /\ request[r].op = "delete"
            /\ request[r].pc = "read"
            /\ request'[r].pc = "commit"
            /\ Exists(request[r].document)
  PROVE  IInv'
  <1> USE NoneAssumption DEF UploadOps, Errors
  <1>1. VersionNumbersContiguous' /\ CurrentIsLatest' /\ NoRepeatedContent'
    BY HistoryKept DEF IInv
  <1>2. InputsKnown'
    BY DEF IInv, InputsKnown, Locked, After
  <1>3. LocksMatch'
    BY DEF IInv, TypeOK, LocksMatch, Locked
  <1>4. RowsHaveOrigin'
    BY DEF IInv, TypeOK, RowsHaveOrigin, After, Locked, Exists, VersionRow
  <1>5. ReadsStillHold'
    BY DEF IInv, TypeOK, InputsKnown, ReadsStillHold, Locked, Exists, Deleted,
           CurrentVersions, VersionsOf
  <1>6. NoVersionConflict'
    BY DEF IInv, NoVersionConflict
  <1> QED
    BY <1>1, <1>2, <1>3, <1>4, <1>5, <1>6 DEF IInv

(* A step that leaves the saga, on an error or after the commit: from then *)
(* on the request prepares nothing and only a rollback may hold its lock.  *)
LEMMA HandlerRetreats ==
  ASSUME IInv, TypeOK', NEW r \in Requests,
         UNCHANGED <<documents, versions, rowLock>>,
         \A s \in Requests \ {r} : request'[s] = request[s],
         request[r].op # None,
         request'[r].op = request[r].op,
         request'[r].document = request[r].document,
         request'[r].pc # "done" => request'[r].checksum = request[r].checksum,
         request'[r].error # "conflict",
         request[r].pc # "done",
         \/ request'[r].pc = "done"
         \/ request[r].op \in UploadOps /\ request'[r].pc \in After,
         request[r].op = "upload_version"
           => \/ request'[r].pc = "rollback"
              \/ request[r].pc \notin Locked \cup {"rollback"}
  PROVE  IInv'
  <1> USE NoneAssumption DEF UploadOps, Errors
  <1>1. VersionNumbersContiguous' /\ CurrentIsLatest' /\ NoRepeatedContent'
    BY HistoryKept DEF IInv
  <1>2. InputsKnown'
    BY DEF IInv, InputsKnown, After
  <1>3. LocksMatch'
    BY DEF IInv, TypeOK, LocksMatch, Locked, After
  <1>4. RowsHaveOrigin'
    BY DEF IInv, TypeOK, RowsHaveOrigin, InputsKnown, After, Exists, VersionRow
  <1>5. ReadsStillHold'
    BY DEF IInv, TypeOK, InputsKnown, ReadsStillHold, Locked, After, Exists, Deleted,
           CurrentVersions, VersionsOf
  <1>6. NoVersionConflict'
    BY DEF IInv, NoVersionConflict
  <1> QED
    BY <1>1, <1>2, <1>3, <1>4, <1>5, <1>6 DEF IInv

(* A request that begins.                                                  *)
LEMMA HandlerBegins ==
  ASSUME IInv, TypeOK', NEW r \in Requests,
         UNCHANGED <<documents, versions, rowLock>>,
         \A s \in Requests \ {r} : request'[s] = request[s],
         request[r].pc = "idle",
         request'[r].document \in Requests,
         request'[r].error = None,
         \/ /\ request'[r].op = "upload" /\ request'[r].pc = "insert"
            /\ request'[r].document = r /\ request'[r].number = 1
            /\ request'[r].checksum \in Checksums
         \/ /\ request'[r].op = "upload_version" /\ request'[r].pc = "lock"
            /\ request'[r].checksum \in Checksums
         \/ request'[r].op = "delete" /\ request'[r].pc = "read"
  PROVE  IInv'
  <1> USE NoneAssumption DEF UploadOps, Errors
  <1>1. VersionNumbersContiguous' /\ CurrentIsLatest' /\ NoRepeatedContent'
    BY HistoryKept DEF IInv
  <1>2. InputsKnown'
    BY DEF IInv, InputsKnown
  <1>3. LocksMatch'
    BY DEF IInv, TypeOK, LocksMatch, Locked, InputsKnown
  <1>4. RowsHaveOrigin'
    BY DEF IInv, TypeOK, RowsHaveOrigin, After, Exists, VersionRow
  <1>5. ReadsStillHold'
    BY DEF IInv, TypeOK, InputsKnown, RowsHaveOrigin, ReadsStillHold, Locked, After,
           Exists, Deleted, CurrentVersions, VersionsOf
  <1>6. NoVersionConflict'
    BY DEF IInv, NoVersionConflict
  <1> QED
    BY <1>1, <1>2, <1>3, <1>4, <1>5, <1>6 DEF IInv

LEMMA LockDocumentKeeps ==
  ASSUME IInv, NEW r \in Requests, LockDocument(r)
  PROVE  IInv'
  <1> USE NoneAssumption DEF UploadOps, Errors
  <1> DEFINE d == request[r].document
  <1>1. UNCHANGED <<documents, versions, objects, auditLog>>
    BY DEF LockDocument
  <1>2. VersionNumbersContiguous' /\ CurrentIsLatest' /\ NoRepeatedContent'
    BY <1>1, HistoryKept DEF IInv
  <1>3. TypeOK'
    BY DEF LockDocument, Goto, Raise, IInv, TypeOK, RequestState, Steps, Errors, InputsKnown
  <1>4. InputsKnown'
    BY DEF LockDocument, Goto, Raise, IInv, TypeOK, RequestState, InputsKnown, Locked, After, UploadOps
  <1>f. /\ \A s \in Requests \ {r} : request'[s] = request[s]
        /\ request'[r].op = request[r].op
        /\ request'[r].document = request[r].document
        /\ request[r].op = "upload_version"
        /\ request[r].document \in Requests
        /\ request'[r].pc \in {"check", "rollback"}
        /\ request'[r].pc = "check" => Exists(d)
    BY DEF LockDocument, Goto, Raise, IInv, TypeOK, RequestState, InputsKnown, Locked, After, AcceptsVersion
  <1>5. LocksMatch'
    <2>1. request[r].pc = "lock" /\ rowLock[d] = None /\ d \in Requests
      BY <1>f DEF LockDocument, Unlocked
    <2>2. CASE Exists(d)
      <3>1. rowLock' = [rowLock EXCEPT ![d] = r]
        BY <2>2 DEF LockDocument
      <3> QED
        BY <1>f, <2>1, <3>1 DEF IInv, TypeOK, LocksMatch, Locked, InputsKnown
    <2>3. CASE ~Exists(d)
      <3>1. rowLock' = rowLock
        BY <2>3 DEF LockDocument
      <3> QED
        BY <1>f, <2>1, <2>3, <3>1 DEF IInv, TypeOK, LocksMatch, Locked, InputsKnown
    <2> QED
      BY <2>2, <2>3
  <1>6. RowsHaveOrigin'
    BY DEF LockDocument, Goto, Raise, IInv, TypeOK, RequestState, RowsHaveOrigin, After, Exists, VersionRow
  <1>7. ReadsStillHold'
    BY DEF LockDocument, Goto, Raise, IInv, TypeOK, RequestState, ReadsStillHold, Locked, Exists, Deleted, AcceptsVersion, CurrentVersions, VersionsOf, InputsKnown
  <1>8. NoVersionConflict'
    BY DEF LockDocument, Goto, Raise, IInv, TypeOK, RequestState, NoVersionConflict
  <1> QED
    BY <1>2, <1>3, <1>4, <1>5, <1>6, <1>7, <1>8 DEF IInv

LEMMA ReceiveKeeps ==
  ASSUME IInv, NEW r \in Requests, Receive(r)
  PROVE  IInv'
  <1> USE NoneAssumption DEF UploadOps, Errors, Arrive, NoRequest
  <1>1. PICK p \in Processes :
           \/ \E c \in Checksums : ReceiveUpload(r, p, c)
           \/ \E d \in Requests \ {r} :
                \/ \E c \in Checksums : ReceiveVersion(r, p, d, c)
                \/ ReceiveDelete(r, p, d)
    BY DEF Receive
  <1>2. ASSUME NEW c \in Checksums, ReceiveUpload(r, p, c)
        PROVE  IInv'
    <2>1. TypeOK'
      BY <1>2 DEF ReceiveUpload, IInv, TypeOK, RequestState, Steps
    <2> QED
      BY <1>2, <2>1, HandlerBegins DEF ReceiveUpload, IInv, TypeOK
  <1>3. ASSUME NEW d \in Requests \ {r}, NEW c \in Checksums, ReceiveVersion(r, p, d, c)
        PROVE  IInv'
    <2>1. TypeOK'
      BY <1>3 DEF ReceiveVersion, IInv, TypeOK, RequestState, Steps
    <2> QED
      BY <1>3, <2>1, HandlerBegins DEF ReceiveVersion, IInv, TypeOK
  <1>4. ASSUME NEW d \in Requests \ {r}, ReceiveDelete(r, p, d)
        PROVE  IInv'
    <2>1. TypeOK'
      BY <1>4 DEF ReceiveDelete, IInv, TypeOK, RequestState, Steps
    <2> QED
      BY <1>4, <2>1, HandlerBegins DEF ReceiveDelete, IInv, TypeOK
  <1> QED
    BY <1>1, <1>2, <1>3, <1>4

(* Max of FiniteSetsExt returns the greatest element where there is one.   *)
LEMMA MaxIsGreatest ==
  ASSUME NEW S \in SUBSET Int, NEW m \in S, \A x \in S : x <= m
  PROVE  Max(S) = m
  <1>1. Max(S) \in S /\ \A y \in S : Max(S) >= y
    BY DEF Max
  <1>2. Max(S) \in Int /\ m \in Int
    BY <1>1
  <1>3. m <= Max(S) /\ Max(S) <= m
    BY <1>1, <1>2
  <1> QED
    BY <1>2, <1>3

(* Under IInv the maximum of a document's version numbers is the number of *)
(* the version it links, and that version is the only one it links.        *)
LEMMA CurrentHasMaxNumber ==
  ASSUME IInv, NEW d \in Requests, Exists(d)
  PROVE  \E v \in CurrentVersions(d) :
           /\ NextVersionNumber(d) = v.version_number + 1
           /\ CurrentVersions(d) = {v}
           /\ v.version_number + 1 \notin NumbersOf(d)
  <1>1. PICK v \in CurrentVersions(d) :
           \A w \in VersionsOf(d) : w.version_number <= v.version_number
    BY DEF IInv, CurrentIsLatest
  <1>2. v \in VersionsOf(d) /\ VersionsOf(d) \subseteq versions
    BY DEF CurrentVersions, VersionsOf
  <1>3. \A w \in VersionsOf(d) : w.version_number \in Nat \ {0}
    BY <1>2 DEF IInv, TypeOK, VersionRow
  <1>4. Max(NumbersOf(d) \cup {0}) = v.version_number
    <2>1. NumbersOf(d) \cup {0} \in SUBSET Int
      BY <1>3 DEF NumbersOf
    <2>2. v.version_number \in NumbersOf(d) \cup {0}
      BY <1>2 DEF NumbersOf
    <2>3. \A x \in NumbersOf(d) \cup {0} : x <= v.version_number
      BY <1>1, <1>2, <1>3 DEF NumbersOf
    <2> QED
      BY <2>1, <2>2, <2>3, MaxIsGreatest
  <1>5. CurrentVersions(d) = {v}
    BY <1>2 DEF IInv, RowsHaveOrigin, CurrentVersions, VersionsOf
  <1>6. v.version_number + 1 \notin NumbersOf(d)
    BY <1>1, <1>2, <1>3 DEF NumbersOf
  <1> QED
    BY <1>4, <1>5, <1>6 DEF NextVersionNumber

LEMMA CheckVersionKeeps ==
  ASSUME IInv, NEW r \in Requests, CheckVersion(r)
  PROVE  IInv'
  <1> USE NoneAssumption DEF UploadOps, Errors
  <1> DEFINE d == request[r].document
  <1>1. /\ request[r].pc = "check" /\ request[r].op = "upload_version"
        /\ d \in Requests /\ Exists(d)
        /\ UNCHANGED <<documents, versions, objects, auditLog, rowLock>>
    BY DEF CheckVersion, IInv, TypeOK, InputsKnown, ReadsStillHold, Locked, After,
           RequestState
  <1>2. PICK v \in CurrentVersions(d) :
          /\ NextVersionNumber(d) = v.version_number + 1
          /\ CurrentVersions(d) = {v}
    BY <1>1, CurrentHasMaxNumber
  <1>3. v.version_number \in Nat
    BY DEF CurrentVersions, VersionsOf, IInv, TypeOK, VersionRow
  <1>4. ASSUME NEW e \in {"access_denied", "not_found", "duplicate"}, Raise(r, e)
        PROVE  IInv'
    <2>1. TypeOK'
      <3>1. request' \in [Requests -> RequestState]
        BY <1>4, RaiseEffect DEF IInv
      <3> QED
        BY <1>1, <3>1 DEF IInv, TypeOK
    <2> QED
      BY <1>1, <1>4, <2>1, RaiseEffect, HandlerRetreats DEF IInv, After
  <1>5. ASSUME ~SameAsCurrent(d, request[r].checksum),
               request' = [request EXCEPT ![r].pc = "insert",
                                          ![r].number = NextVersionNumber(d)]
        PROVE  IInv'
    <2>1. TypeOK'
      <3>1. NextVersionNumber(d) \in Nat
        BY <1>2, <1>3
      <3>2. request' \in [Requests -> RequestState]
        <4>1. request[r] \in RequestState
          BY DEF IInv, TypeOK
        <4>2. [request[r] EXCEPT !.pc = "insert", !.number = NextVersionNumber(d)]
                \in RequestState
          BY <3>1, <4>1 DEF RequestState, Steps
        <4>3. request' = [request EXCEPT ![r] =
                [request[r] EXCEPT !.pc = "insert", !.number = NextVersionNumber(d)]]
          BY <1>5 DEF IInv, TypeOK
        <4> QED
          BY <4>2, <4>3 DEF IInv, TypeOK
      <3> QED
        BY <1>1, <3>2 DEF IInv, TypeOK
    <2>2. request[r].checksum # v.checksum
      BY <1>2, <1>5 DEF SameAsCurrent
    <2>3. /\ \A s \in Requests \ {r} : request'[s] = request[s]
          /\ request'[r].op = request[r].op
          /\ request'[r].document = request[r].document
          /\ request'[r].checksum = request[r].checksum
          /\ request'[r].error = request[r].error
          /\ request'[r].pc = "insert"
          /\ request'[r].number = NextVersionNumber(d)
      BY <1>5 DEF IInv, TypeOK, RequestState
    <2> QED
      BY <1>1, <1>2, <2>1, <2>2, <2>3, HandlerAdvances DEF Locked
  <1>6. \/ \E e \in {"access_denied", "not_found", "duplicate"} : Raise(r, e)
        \/ /\ ~SameAsCurrent(d, request[r].checksum)
           /\ request' = [request EXCEPT ![r].pc = "insert",
                                         ![r].number = NextVersionNumber(d)]
    BY <1>2 DEF CheckVersion
  <1> QED
    BY <1>4, <1>5, <1>6

LEMMA InsertVersionKeeps ==
  ASSUME IInv, NEW r \in Requests, InsertVersion(r)
  PROVE  IInv'
  <1> USE NoneAssumption DEF UploadOps, Errors
  <1> DEFINE d == request[r].document
             n == request[r].number
  <1>1. /\ request[r].pc = "insert"
        /\ UNCHANGED <<documents, versions, objects, auditLog, rowLock>>
    BY DEF InsertVersion
  <1>2. request[r].op \in UploadOps /\ d \in Requests
    BY <1>1 DEF IInv, TypeOK, InputsKnown, RequestState
  <1>3. n \notin NumbersOf(d)
    <2>1. CASE request[r].op = "upload"
      BY <1>1, <2>1 DEF IInv, InputsKnown, ReadsStillHold, RowsHaveOrigin, NumbersOf,
                        VersionsOf
    <2>2. CASE request[r].op = "upload_version"
      <3>1. Exists(d) /\ \E v \in CurrentVersions(d) : n = v.version_number + 1
        BY <1>1, <2>2 DEF IInv, ReadsStillHold, Locked
      <3> QED
        BY <1>2, <3>1, CurrentHasMaxNumber
    <2> QED
      BY <1>2, <2>1, <2>2
  <1>4. Goto(r, "put")
    BY <1>3 DEF InsertVersion
  <1>5. TypeOK'
    BY <1>1, <1>4 DEF Goto, IInv, TypeOK, RequestState, Steps
  <1>6. "put" \in Steps
    BY DEF Steps
  <1>7. request[r].op = "upload_version" =>
          \E v \in CurrentVersions(d) :
             n = v.version_number + 1 /\ request[r].checksum # v.checksum
    BY <1>1 DEF IInv, ReadsStillHold, Locked
  <1> QED
    BY <1>1, <1>2, <1>4, <1>5, <1>6, <1>7, GotoEffect, HandlerAdvances DEF Locked, IInv

LEMMA RaiseKeeps ==
  ASSUME IInv, NEW r \in Requests, NEW e \in Errors \ {"conflict"}, Raise(r, e),
         request[r].op \in UploadOps, request[r].pc # "done",
         UNCHANGED <<documents, versions, auditLog, rowLock>>,
         objects' \subseteq Requests
  PROVE  IInv'
  <1>1. TypeOK'
    BY RaiseEffect DEF IInv, TypeOK
  <1> QED
    BY <1>1, RaiseEffect, HandlerRetreats, NoneAssumption DEF IInv, After, UploadOps

LEMMA EndKeeps ==
  ASSUME IInv, NEW r \in Requests, NEW e \in (Errors \cup {None}) \ {"conflict"},
         End(r, e), request[r].op # None, request[r].pc # "done",
         request[r].op = "upload_version"
           => request[r].pc \notin Locked \cup {"rollback"},
         UNCHANGED <<documents, versions, rowLock>>,
         objects' \subseteq Requests, auditLog' \subseteq AuditRow
  PROVE  IInv'
  <1>1. TypeOK'
    BY EndEffect DEF IInv, TypeOK
  <1> QED
    BY <1>1, EndEffect, HandlerRetreats, NoneAssumption DEF IInv

LEMMA StatementFailsKeeps ==
  ASSUME IInv, NEW r \in Requests, StatementFails(r)
  PROVE  IInv'
  <1>1. UNCHANGED <<documents, versions, objects, auditLog, rowLock>>
    BY DEF StatementFails
  <1>2. objects' \subseteq Requests /\ auditLog' \subseteq AuditRow
    BY <1>1 DEF IInv, TypeOK
  <1>3. CASE request[r].pc \in {"lock", "check", "insert"} /\ Raise(r, "database")
    <2>1. request[r].op \in UploadOps
      BY <1>3 DEF IInv, TypeOK, InputsKnown, RequestState, UploadOps
    <2> QED
      BY <1>1, <1>2, <1>3, <2>1, RaiseKeeps DEF Errors
  <1>4. CASE request[r].pc = "read" /\ End(r, "database")
    <2>1. request[r].op # None
      BY <1>4 DEF IInv, InputsKnown
    <2> QED
      BY <1>1, <1>2, <1>4, <2>1, EndKeeps DEF Errors, Locked
  <1> QED
    BY <1>3, <1>4 DEF StatementFails

LEMMA PutObjectKeeps ==
  ASSUME IInv, NEW r \in Requests, PutObject(r)
  PROVE  IInv'
  <1> USE NoneAssumption DEF UploadOps, Errors
  <1>1. /\ request[r].pc = "put"
        /\ UNCHANGED <<documents, versions, auditLog, rowLock>>
        /\ objects' \subseteq Requests
    BY DEF PutObject, IInv, TypeOK
  <1>2. request[r].op \in UploadOps
    BY <1>1 DEF IInv, TypeOK, InputsKnown, RequestState
  <1>3. CASE Raise(r, "storage")
    BY <1>1, <1>2, <1>3, RaiseKeeps
  <1>4. CASE request' = [request EXCEPT ![r].pc = "commit", ![r].uploaded = TRUE]
    <2>1. request[r] \in RequestState
      BY DEF IInv, TypeOK
    <2>2. [request[r] EXCEPT !.pc = "commit", !.uploaded = TRUE] \in RequestState
      BY <2>1 DEF RequestState, Steps
    <2>3. request' = [request EXCEPT ![r] =
                        [request[r] EXCEPT !.pc = "commit", !.uploaded = TRUE]]
      BY <1>4 DEF IInv, TypeOK
    <2>4. TypeOK'
      BY <1>1, <2>2, <2>3 DEF IInv, TypeOK
    <2>5. /\ \A s \in Requests \ {r} : request'[s] = request[s]
          /\ request'[r].op = request[r].op
          /\ request'[r].document = request[r].document
          /\ request'[r].checksum = request[r].checksum
          /\ request'[r].number = request[r].number
          /\ request'[r].error = request[r].error
          /\ request'[r].pc = "commit"
      BY <2>1, <2>3 DEF IInv, TypeOK, RequestState
    <2>6. request[r].op = "upload_version" =>
            \E v \in CurrentVersions(request[r].document) :
               /\ request[r].number = v.version_number + 1
               /\ request[r].checksum # v.checksum
      BY <1>1 DEF IInv, ReadsStillHold, Locked
    <2> QED
      BY <1>1, <1>2, <2>4, <2>5, <2>6, HandlerAdvances DEF Locked
  <1> QED
    BY <1>3, <1>4 DEF PutObject

LEMMA CommitUploadFailsKeeps ==
  ASSUME IInv, NEW r \in Requests, CommitUploadFails(r)
  PROVE  IInv'
  BY RaiseKeeps DEF CommitUploadFails, IInv, TypeOK, Errors

LEMMA RefreshKeeps ==
  ASSUME IInv, NEW r \in Requests, Refresh(r)
  PROVE  IInv'
  <1>1. /\ request[r].pc = "refresh"
        /\ UNCHANGED <<documents, versions, objects, auditLog, rowLock>>
        /\ objects' \subseteq Requests /\ auditLog' \subseteq AuditRow
    BY DEF Refresh, IInv, TypeOK
  <1>2. request[r].op \in UploadOps \cup {"delete"} /\ request[r].op # None
    BY <1>1 DEF IInv, TypeOK, InputsKnown, RequestState
  <1>3. CASE \E e \in {None, "database"} : End(r, e)
    BY <1>1, <1>2, <1>3, EndKeeps, NoneAssumption DEF Locked, Errors
  <1>4. CASE request[r].op # "delete" /\ Raise(r, "database")
    BY <1>1, <1>2, <1>4, RaiseKeeps DEF Errors
  <1> QED
    BY <1>3, <1>4 DEF Refresh

LEMMA CompensateKeeps ==
  ASSUME IInv, NEW r \in Requests, Compensate(r)
  PROVE  IInv'
  <1>1. /\ request[r].pc = "compensate"
        /\ UNCHANGED <<documents, versions, auditLog, rowLock>>
        /\ objects' \subseteq Requests /\ auditLog' \subseteq AuditRow
    BY DEF Compensate, IInv, TypeOK
  <1>2. request[r].op \in UploadOps /\ request[r].op # None
    BY <1>1 DEF IInv, TypeOK, InputsKnown, RequestState
  <1>3. CASE Goto(r, "record")
    <2>1. "record" \in Steps
      BY DEF Steps
    <2>2. TypeOK'
      BY <1>1, <1>3, <2>1, GotoEffect DEF IInv, TypeOK
    <2> QED
      BY <1>1, <1>2, <1>3, <2>1, <2>2, GotoEffect, HandlerRetreats
      DEF IInv, NoVersionConflict, After, Locked
  <1>4. CASE End(r, "storage")
    BY <1>1, <1>2, <1>4, EndKeeps DEF Errors, Locked
  <1> QED
    BY <1>3, <1>4 DEF Compensate

LEMMA RecordFailureKeeps ==
  ASSUME IInv, NEW r \in Requests, RecordFailure(r)
  PROVE  IInv'
  <1>1. /\ request[r].pc = "record" /\ End(r, request[r].error)
        /\ UNCHANGED <<documents, versions, objects, rowLock>>
        /\ objects' \subseteq Requests /\ auditLog' \subseteq AuditRow
    BY DEF RecordFailure, IInv, TypeOK, AuditRow
  <1>2. /\ request[r].op # None
        /\ request[r].error \in (Errors \cup {None}) \ {"conflict"}
    BY <1>1 DEF IInv, TypeOK, InputsKnown, RequestState, NoVersionConflict
  <1> QED
    BY <1>1, <1>2, EndKeeps DEF Locked

LEMMA ReadForDeleteKeeps ==
  ASSUME IInv, NEW r \in Requests, ReadForDelete(r)
  PROVE  IInv'
  <1>1. /\ request[r].pc = "read"
        /\ UNCHANGED <<documents, versions, objects, auditLog, rowLock>>
        /\ objects' \subseteq Requests /\ auditLog' \subseteq AuditRow
    BY DEF ReadForDelete, IInv, TypeOK
  <1>2. request[r].op = "delete" /\ request[r].op # None
    BY <1>1 DEF IInv, TypeOK, InputsKnown, RequestState, UploadOps, Locked, After
  <1>3. CASE \E e \in {"not_found", "already_deleted", "access_denied"} : End(r, e)
    BY <1>1, <1>2, <1>3, EndKeeps DEF Errors, Locked
  <1>4. CASE Exists(request[r].document) /\ Goto(r, "commit")
    <2>1. "commit" \in Steps
      BY DEF Steps
    <2>2. TypeOK'
      BY <1>1, <1>4, <2>1, GotoEffect DEF IInv, TypeOK
    <2> QED
      BY <1>1, <1>2, <1>4, <2>1, <2>2, GotoEffect, HandlerAdvances DEF IInv
  <1> QED
    BY <1>3, <1>4 DEF ReadForDelete, AcceptsVersion

LEMMA RollbackKeeps ==
  ASSUME IInv, NEW r \in Requests, Rollback(r)
  PROVE  IInv'
  <1> USE NoneAssumption DEF UploadOps, Errors
  <1>1. PICK step \in {"compensate", "record"} : Goto(r, step)
    BY DEF Rollback
  <1>2. /\ request[r].pc = "rollback"
        /\ rowLock' = Released(r)
        /\ UNCHANGED <<documents, versions, objects, auditLog>>
    BY DEF Rollback
  <1>3. /\ request' \in [Requests -> RequestState]
        /\ \A s \in Requests \ {r} : request'[s] = request[s]
        /\ request'[r].op = request[r].op
        /\ request'[r].document = request[r].document
        /\ request'[r].checksum = request[r].checksum
        /\ request'[r].error = request[r].error
        /\ request'[r].pc = step
    <2>1. step \in Steps
      BY DEF Steps
    <2> QED
      BY <1>1, <2>1, GotoEffect DEF IInv
  <1>4. request[r].op \in UploadOps
    BY <1>2 DEF IInv, TypeOK, InputsKnown, RequestState
  <1>5. TypeOK'
    <2>1. rowLock' \in [Requests -> Requests \cup {None}]
      BY <1>2 DEF Released, IInv, TypeOK
    <2> QED
      BY <1>2, <1>3, <2>1 DEF IInv, TypeOK
  <1>6. VersionNumbersContiguous' /\ CurrentIsLatest' /\ NoRepeatedContent'
    BY <1>2, HistoryKept DEF IInv
  <1>7. InputsKnown'
    BY <1>2, <1>3, <1>4 DEF IInv, InputsKnown, After
  <1>8. LocksMatch'
    BY <1>2, <1>3, <1>4 DEF IInv, TypeOK, LocksMatch, Locked, Released, InputsKnown
  <1>9. RowsHaveOrigin'
    BY <1>2, <1>3, <1>4 DEF IInv, TypeOK, RowsHaveOrigin, After, Exists, VersionRow
  <1>10. ReadsStillHold'
    BY <1>2, <1>3, <1>4
    DEF IInv, TypeOK, InputsKnown, ReadsStillHold, Locked, Exists, Deleted,
        CurrentVersions, VersionsOf
  <1>11. NoVersionConflict'
    BY <1>3 DEF IInv, NoVersionConflict
  <1> QED
    BY <1>5, <1>6, <1>7, <1>8, <1>9, <1>10, <1>11 DEF IInv

(* What an upload is about to commit continues the history of its document, *)
(* and no other request has prepared a row for the same document.          *)
LEMMA PreparedVersionFits ==
  ASSUME IInv, NEW r \in Requests,
         request[r].pc = "commit", request[r].op \in UploadOps
  PROVE  LET d == request[r].document
             n == request[r].number
         IN
         /\ d \in Requests /\ n \in Nat \ {0} /\ request[r].checksum \in Checksums
         /\ ~Deleted(d)
         /\ Exists(d) \/ (d = r /\ request[r].op = "upload")
         /\ \A w \in VersionsOf(d) : w.version_number < n
         /\ n = 1 \/ n - 1 \in NumbersOf(d)
         /\ \A w \in VersionsOf(d) :
              w.version_number + 1 = n => w.checksum # request[r].checksum
         /\ \A s \in Requests \ {r} :
              /\ request[s].op = "upload_version" /\ request[s].pc \in Locked
                   => request[s].document # d
              /\ request[s].op = "upload" /\ request[s].pc \in {"insert", "put", "commit"}
                   => s # d
  <1> USE NoneAssumption DEF UploadOps, Errors
  <1> DEFINE d == request[r].document
             n == request[r].number
  <1>1. d \in Requests /\ request[r].checksum \in Checksums
    BY DEF IInv, InputsKnown
  <1>2. CASE request[r].op = "upload"
    <2>1. d = r /\ n = 1 /\ ~Exists(r)
      BY <1>2 DEF IInv, InputsKnown, ReadsStillHold
    <2>2. VersionsOf(r) = {}
      BY <2>1 DEF IInv, RowsHaveOrigin, VersionsOf
    <2>3. ~Deleted(r)
      BY <2>1 DEF IInv, RowsHaveOrigin, Deleted, NoDocument
    <2>4. \A s \in Requests \ {r} :
            request[s].op = "upload_version" /\ request[s].pc \in Locked
              => request[s].document # r
      BY <2>1 DEF IInv, ReadsStillHold
    <2> QED
      BY <1>1, <1>2, <2>1, <2>2, <2>3, <2>4
  <1>3. CASE request[r].op = "upload_version"
    <2>1. Exists(d) /\ ~Deleted(d) /\ rowLock[d] = r
      BY <1>3 DEF IInv, ReadsStillHold, LocksMatch, Locked
    <2>2. PICK v \in CurrentVersions(d) :
             n = v.version_number + 1 /\ request[r].checksum # v.checksum
      BY <1>3 DEF IInv, ReadsStillHold, Locked
    <2>3. v \in VersionsOf(d) /\ VersionsOf(d) \subseteq versions
      BY DEF CurrentVersions, VersionsOf
    <2>4. \A w \in VersionsOf(d) : w.version_number \in Nat \ {0}
      BY <2>3 DEF IInv, TypeOK, VersionRow
    <2>5. n \in Nat \ {0} /\ n - 1 \in NumbersOf(d)
      BY <2>2, <2>3, <2>4 DEF NumbersOf
    <2>6. \A w \in VersionsOf(d) : w.version_number <= v.version_number
      <3>1. PICK u \in CurrentVersions(d) :
               \A w \in VersionsOf(d) : w.version_number <= u.version_number
        BY <1>1, <2>1 DEF IInv, CurrentIsLatest
      <3>2. u = v
        BY <2>3 DEF IInv, RowsHaveOrigin, CurrentVersions, VersionsOf
      <3> QED
        BY <3>1, <3>2
    <2>7. \A w \in VersionsOf(d) : w.version_number < n
      BY <2>2, <2>3, <2>4, <2>6
    <2>8. \A w \in VersionsOf(d) :
            w.version_number + 1 = n => w.checksum # request[r].checksum
      <3> SUFFICES ASSUME NEW w \in VersionsOf(d), w.version_number + 1 = n
                   PROVE  w.checksum # request[r].checksum
        OBVIOUS
      <3>1. w.version_number = v.version_number
        BY <2>2, <2>3, <2>4
      <3>2. w = v
        BY <2>3, <3>1 DEF IInv, VersionNumbersContiguous, VersionsOf
      <3> QED
        BY <2>2, <3>2
    <2>9. \A s \in Requests \ {r} :
            /\ request[s].op = "upload_version" /\ request[s].pc \in Locked
                 => request[s].document # d
            /\ request[s].op = "upload" /\ request[s].pc \in {"insert", "put", "commit"}
                 => s # d
      BY <2>1 DEF IInv, LocksMatch, ReadsStillHold
    <2> QED
      BY <1>1, <2>1, <2>5, <2>7, <2>8, <2>9
  <1> QED
    BY <1>2, <1>3

LEMMA CommitUploadKeeps ==
  ASSUME IInv, NEW r \in Requests, CommitUpload(r)
  PROVE  IInv'
  <1> USE NoneAssumption DEF UploadOps, Errors
  <1>0. PICK d, n, c, new : /\ d = request[r].document /\ n = request[r].number
                            /\ c = request[r].checksum /\ new = NewVersion(r)
    OBVIOUS
  <1>1. /\ request[r].pc = "commit" /\ request[r].op \in UploadOps
        /\ versions' = versions \cup {new}
        /\ auditLog' = auditLog \cup {Success(r)}
        /\ rowLock' = Released(r)
        /\ objects' = objects
        /\ LinkVersion(r)
    BY <1>0 DEF CommitUpload
  <1>2. /\ d \in Requests /\ n \in Nat \ {0} /\ c \in Checksums
        /\ ~Deleted(d)
        /\ Exists(d) \/ (d = r /\ request[r].op = "upload")
        /\ \A w \in VersionsOf(d) : w.version_number < n
        /\ n = 1 \/ n - 1 \in NumbersOf(d)
        /\ \A w \in VersionsOf(d) :
             w.version_number + 1 = n => w.checksum # c
        /\ \A s \in Requests \ {r} :
             /\ request[s].op = "upload_version" /\ request[s].pc \in Locked
                  => request[s].document # d
             /\ request[s].op = "upload" /\ request[s].pc \in {"insert", "put", "commit"}
                  => s # d
    BY <1>0, <1>1, PreparedVersionFits
  <1>3. /\ new \in VersionRow
        /\ new.id = r /\ new.document_id = d /\ new.version_number = n
        /\ new.checksum = c
    BY <1>0, <1>2 DEF NewVersion, VersionRow
  <1>4. /\ documents' \in [Requests -> DocumentRow]
        /\ documents'[d].status = "ACTIVE"
        /\ documents'[d].current_version_id = r
        /\ documents'[d].deleted_at = documents[d].deleted_at
        /\ \A x \in Requests \ {d} : documents'[x] = documents[x]
    <2>1. documents[d] \in DocumentRow
      BY <1>2 DEF IInv, TypeOK
    <2>2. /\ [documents[d] EXCEPT !.status = "ACTIVE", !.current_version_id = r]
               \in DocumentRow
          /\ documents' = [documents EXCEPT ![d] =
               [documents[d] EXCEPT !.status = "ACTIVE", !.current_version_id = r]]
      BY <1>0, <1>1, <2>1 DEF LinkVersion, DocumentRow, IInv, TypeOK
    <2> QED
      BY <1>2, <2>1, <2>2 DEF IInv, TypeOK, DocumentRow
  <1>5. /\ request' \in [Requests -> RequestState]
        /\ \A s \in Requests \ {r} : request'[s] = request[s]
        /\ request'[r].op = request[r].op
        /\ request'[r].document = d
        /\ request'[r].checksum = c
        /\ request'[r].pc \in {"refresh", "rollback"}
        /\ request'[r].error # "conflict"
    <2>1. CASE Goto(r, "refresh")
      <3>1. "refresh" \in Steps
        BY DEF Steps
      <3> QED
        BY <1>0, <2>1, <3>1, GotoEffect DEF IInv, NoVersionConflict
    <2>2. CASE Raise(r, "database")
      BY <1>0, <2>2, RaiseEffect DEF IInv
    <2> QED
      BY <2>1, <2>2 DEF CommitUpload
  <1>6. /\ VersionsOf(d)' = VersionsOf(d) \cup {new}
        /\ \A x \in Requests \ {d} : VersionsOf(x)' = VersionsOf(x)
        /\ \A x \in Requests : NumbersOf(x) \subseteq NumbersOf(x)'
    <2>1. VersionsOf(d)' = VersionsOf(d) \cup {new}
      BY <1>1, <1>3 DEF VersionsOf
    <2>2. \A x \in Requests \ {d} : VersionsOf(x)' = VersionsOf(x)
      BY <1>1, <1>3 DEF VersionsOf
    <2> QED
      BY <2>1, <2>2 DEF NumbersOf
  <1>7. TypeOK'
    <2>1. rowLock' \in [Requests -> Requests \cup {None}]
      BY <1>1 DEF Released, IInv, TypeOK
    <2>2. auditLog' \subseteq AuditRow
      BY <1>1 DEF Success, AuditRow, IInv, TypeOK
    <2> QED
      BY <1>1, <1>3, <1>4, <1>5, <2>1, <2>2 DEF IInv, TypeOK
  <1>8. InputsKnown'
    BY <1>0, <1>1, <1>5 DEF IInv, InputsKnown, After
  <1>9. LocksMatch'
    BY <1>0, <1>1, <1>5 DEF IInv, TypeOK, LocksMatch, Locked, Released, InputsKnown
  <1>10. RowsHaveOrigin'
    <2>1. \A x \in Requests :
            /\ Exists(x)' => request'[x].op = "upload" /\ request'[x].pc \in After
            /\ ~Exists(x)' => documents'[x] = NoDocument
      BY <1>0, <1>1, <1>2, <1>4, <1>5 DEF IInv, RowsHaveOrigin, After, Exists
    <2>2. \A v \in versions' :
            /\ Exists(v.document_id)'
            /\ request'[v.id].op \in UploadOps
            /\ request'[v.id].pc \in After
      BY <1>0, <1>1, <1>2, <1>3, <1>4, <1>5
      DEF IInv, TypeOK, VersionRow, RowsHaveOrigin, After, Exists
    <2>3. \A v \in versions : v.id # r
      BY <1>1 DEF IInv, RowsHaveOrigin, After
    <2>4. \A v, w \in versions' : v.id = w.id => v = w
      BY <1>1, <1>3, <2>3 DEF IInv, RowsHaveOrigin
    <2> QED
      BY <2>1, <2>2, <2>4 DEF RowsHaveOrigin
  <1>11. ReadsStillHold'
    <2> SUFFICES ASSUME NEW s \in Requests
                 PROVE  (/\ request[s].op = "upload" /\ request[s].pc \in {"insert", "put", "commit"}
                              => ~Exists(s) /\ request[s].number = 1
                         /\ request[s].op = "upload_version" /\ request[s].pc \in Locked
                              => Exists(request[s].document) /\ ~Deleted(request[s].document)
                         /\ request[s].op = "upload_version" /\ request[s].pc \in Locked \ {"check"}
                              => \E v \in CurrentVersions(request[s].document) :
                                   /\ request[s].number = v.version_number + 1
                                   /\ request[s].checksum # v.checksum
                         /\ request[s].op = "delete" /\ request[s].pc = "commit"
                              => Exists(request[s].document))'
      BY DEF ReadsStillHold
    <2>1. CASE s = r
      BY <1>1, <1>5, <2>1 DEF Locked
    <2>2. CASE s # r
      <3>1. request'[s] = request[s]
        BY <1>5, <2>2
      <3>2. request[s].op # None => request[s].document \in Requests
        BY DEF IInv, InputsKnown
      <3>3. \A x \in Requests : Exists(x) => Exists(x)'
        BY <1>4 DEF Exists
      <3>4. \A x \in Requests \ {d} :
              /\ Exists(x)' = Exists(x) /\ Deleted(x)' = Deleted(x)
              /\ CurrentVersions(x)' = CurrentVersions(x)
        BY <1>4, <1>6 DEF Exists, Deleted, CurrentVersions
      <3> QED
        BY <1>0, <1>2, <2>2, <3>1, <3>2, <3>3, <3>4 DEF IInv, ReadsStillHold
    <2> QED
      BY <2>1, <2>2
  <1>12. VersionNumbersContiguous'
    <2>1. n \notin NumbersOf(d)
      BY <1>2 DEF NumbersOf
    <2>2. \A v, w \in versions' :
            v.document_id = w.document_id /\ v.version_number = w.version_number => v = w
      BY <1>1, <1>3, <2>1 DEF IInv, VersionNumbersContiguous, NumbersOf, VersionsOf
    <2>3. \A v \in versions' :
            v.version_number = 1 \/ v.version_number - 1 \in NumbersOf(v.document_id)'
      <3>1. \A v \in versions : v.document_id \in Requests
        BY DEF IInv, TypeOK, VersionRow
      <3> QED
        BY <1>1, <1>2, <1>3, <1>6, <3>1 DEF IInv, VersionNumbersContiguous
    <2> QED
      BY <2>2, <2>3 DEF VersionNumbersContiguous
  <1>13. CurrentIsLatest'
    <2> SUFFICES ASSUME NEW x \in Requests, Exists(x)'
                 PROVE  (/\ documents[x].status = "ACTIVE"
                         /\ \E v \in CurrentVersions(x) :
                              \A w \in VersionsOf(x) : w.version_number <= v.version_number)'
      BY DEF CurrentIsLatest
    <2>1. CASE x = d
      <3>1. new \in CurrentVersions(d)'
        BY <1>3, <1>4, <1>6 DEF CurrentVersions
      <3>2. \A w \in VersionsOf(d)' : w.version_number <= n
        <4>1. \A w \in VersionsOf(d) : w.version_number \in Nat
          BY DEF IInv, TypeOK, VersionRow, VersionsOf
        <4> QED
          BY <1>2, <1>3, <1>6, <4>1
      <3> QED
        BY <1>3, <1>4, <2>1, <3>1, <3>2
    <2>2. CASE x # d
      <3>1. Exists(x) /\ CurrentVersions(x)' = CurrentVersions(x) /\ VersionsOf(x)' = VersionsOf(x)
        BY <1>4, <1>6, <2>2 DEF Exists, CurrentVersions
      <3> QED
        BY <1>4, <2>2, <3>1 DEF IInv, CurrentIsLatest
    <2> QED
      BY <2>1, <2>2
  <1>14. NoRepeatedContent'
    <2> SUFFICES ASSUME NEW v \in versions', NEW w \in versions',
                        v.document_id = w.document_id,
                        w.version_number = v.version_number + 1
                 PROVE  v.checksum # w.checksum
      BY DEF NoRepeatedContent
    <2>1. CASE v \in versions /\ w \in versions
      BY <2>1 DEF IInv, NoRepeatedContent
    <2>2. CASE v \in versions /\ w = new
      BY <1>2, <1>3, <2>2 DEF VersionsOf
    <2>3. CASE v = new /\ w \in versions
      <3>1. w \in VersionsOf(d) /\ w.version_number \in Nat
        BY <1>3, <2>3 DEF IInv, TypeOK, VersionRow, VersionsOf
      <3> QED
        BY <1>2, <1>3, <2>3, <3>1
    <2>4. CASE v = new /\ w = new
      BY <1>2, <1>3, <2>4
    <2> QED
      BY <1>1, <2>1, <2>2, <2>3, <2>4
  <1>15. NoVersionConflict'
    BY <1>5 DEF IInv, NoVersionConflict
  <1> QED
    BY <1>7, <1>8, <1>9, <1>10, <1>11, <1>12, <1>13, <1>14, <1>15 DEF IInv

LEMMA CommitDeleteKeeps ==
  ASSUME IInv, NEW r \in Requests, CommitDelete(r)
  PROVE  IInv'
  <1> USE NoneAssumption DEF UploadOps, Errors
  <1>0. PICK d : d = request[r].document
    OBVIOUS
  <1>1. /\ request[r].pc = "commit" /\ request[r].op = "delete" /\ request[r].op # None
        /\ UNCHANGED <<versions, objects, rowLock>>
        /\ rowLock[d] = None
    BY <1>0 DEF CommitDelete, Unlocked
  <1>2. d \in Requests /\ Exists(d)
    BY <1>0, <1>1 DEF IInv, InputsKnown, ReadsStillHold
  <1>3. CASE End(r, "database") /\ UNCHANGED <<documents, auditLog>>
    <2>1. objects' \subseteq Requests /\ auditLog' \subseteq AuditRow
      BY <1>1, <1>3 DEF IInv, TypeOK
    <2> QED
      BY <1>1, <1>3, <2>1, EndKeeps
  <1>4. CASE /\ MarkDeleted(r)
             /\ auditLog' = auditLog \cup {Success(r)}
             /\ Goto(r, "refresh") \/ End(r, "database")
    <2>1. /\ request' \in [Requests -> RequestState]
          /\ \A s \in Requests \ {r} : request'[s] = request[s]
          /\ request'[r].op = "delete"
          /\ request'[r].document = d
          /\ request'[r].pc \in {"refresh", "done"}
          /\ request'[r].error # "conflict"
      <3>1. CASE Goto(r, "refresh")
        <4>1. "refresh" \in Steps
          BY DEF Steps
        <4> QED
          BY <1>0, <1>1, <3>1, <4>1, GotoEffect DEF IInv, NoVersionConflict
      <3>2. CASE End(r, "database")
        BY <1>0, <1>1, <3>2, EndEffect DEF IInv
      <3> QED
        BY <1>4, <3>1, <3>2
    <2>2. /\ documents' \in [Requests -> DocumentRow]
          /\ documents'[d].status = documents[d].status
          /\ documents'[d].current_version_id = documents[d].current_version_id
          /\ \A x \in Requests \ {d} : documents'[x] = documents[x]
      <3>1. documents[d] \in DocumentRow
        BY <1>2 DEF IInv, TypeOK
      <3>2. [documents[d] EXCEPT !.deleted_at = r] \in DocumentRow
        BY <3>1 DEF DocumentRow
      <3>3. documents' = [documents EXCEPT ![d] = [documents[d] EXCEPT !.deleted_at = r]]
        BY <1>0, <1>4 DEF MarkDeleted, IInv, TypeOK
      <3> QED
        BY <1>2, <3>1, <3>2, <3>3 DEF IInv, TypeOK, DocumentRow
    <2>3. \A x \in Requests :
            /\ Exists(x)' = Exists(x)
            /\ VersionsOf(x)' = VersionsOf(x)
            /\ NumbersOf(x)' = NumbersOf(x)
            /\ CurrentVersions(x)' = CurrentVersions(x)
      BY <1>1, <2>2 DEF Exists, VersionsOf, NumbersOf, CurrentVersions
    <2>4. TypeOK'
      <3>1. auditLog' \subseteq AuditRow
        BY <1>4 DEF Success, AuditRow, IInv, TypeOK
      <3> QED
        BY <1>1, <2>1, <2>2, <3>1 DEF IInv, TypeOK
    <2>5. InputsKnown'
      BY <1>1, <1>2, <2>1 DEF IInv, InputsKnown
    <2>6. LocksMatch'
      BY <1>0, <1>1, <2>1 DEF IInv, TypeOK, LocksMatch
    <2>7. RowsHaveOrigin'
      <3>1. \A x \in Requests :
              /\ Exists(x)' => request'[x].op = "upload" /\ request'[x].pc \in After
              /\ ~Exists(x)' => documents'[x] = NoDocument
        BY <1>1, <1>2, <2>1, <2>2, <2>3 DEF IInv, RowsHaveOrigin
      <3>2. \A v \in versions' :
              /\ Exists(v.document_id)'
              /\ request'[v.id].op \in UploadOps
              /\ request'[v.id].pc \in After
        BY <1>1, <2>1, <2>3 DEF IInv, TypeOK, VersionRow, RowsHaveOrigin
      <3> QED
        BY <1>1, <3>1, <3>2 DEF IInv, RowsHaveOrigin
    <2>8. ReadsStillHold'
      <3> SUFFICES ASSUME NEW s \in Requests
                   PROVE  (/\ request[s].op = "upload" /\ request[s].pc \in {"insert", "put", "commit"}
                                => ~Exists(s) /\ request[s].number = 1
                           /\ request[s].op = "upload_version" /\ request[s].pc \in Locked
                                => Exists(request[s].document) /\ ~Deleted(request[s].document)
                           /\ request[s].op = "upload_version" /\ request[s].pc \in Locked \ {"check"}
                                => \E v \in CurrentVersions(request[s].document) :
                                     /\ request[s].number = v.version_number + 1
                                     /\ request[s].checksum # v.checksum
                           /\ request[s].op = "delete" /\ request[s].pc = "commit"
                                => Exists(request[s].document))'
        BY DEF ReadsStillHold
      <3>1. CASE s = r
        BY <2>1, <3>1
      <3>2. CASE s # r
        <4>1. request'[s] = request[s]
          BY <2>1, <3>2
        <4>2. request[s].op # None => request[s].document \in Requests
          BY DEF IInv, InputsKnown
        <4>3. request[s].op = "upload_version" /\ request[s].pc \in Locked
                => request[s].document # d
          BY <1>1 DEF IInv, LocksMatch
        <4>4. \A x \in Requests \ {d} : Deleted(x)' = Deleted(x)
          BY <2>2 DEF Deleted
        <4> QED
          BY <2>3, <4>1, <4>2, <4>3, <4>4 DEF IInv, ReadsStillHold
      <3> QED
        BY <3>1, <3>2
    <2>9. VersionNumbersContiguous'
      BY <1>1, <2>3 DEF IInv, TypeOK, VersionRow, VersionNumbersContiguous
    <2>10. CurrentIsLatest'
      BY <2>2, <2>3 DEF IInv, CurrentIsLatest
    <2>11. NoRepeatedContent'
      BY <1>1 DEF IInv, NoRepeatedContent
    <2>12. NoVersionConflict'
      BY <2>1 DEF IInv, NoVersionConflict
    <2> QED
      BY <2>4, <2>5, <2>6, <2>7, <2>8, <2>9, <2>10, <2>11, <2>12 DEF IInv
  <1> QED
    BY <1>3, <1>4 DEF CommitDelete

LEMMA CrashKeeps ==
  ASSUME IInv, NEW p \in Processes, Crash(p)
  PROVE  IInv'
  <1> USE NoneAssumption DEF UploadOps, Errors
  <1>0. PICK lost : lost = {r \in Requests : request[r].process = p}
    OBVIOUS
  <1>1. /\ UNCHANGED <<documents, versions, objects, auditLog>>
        /\ request' = [r \in Requests |->
                         IF r \in lost THEN Ended(r, "lost") ELSE request[r]]
        /\ rowLock' = [d \in Requests |->
                         IF rowLock[d] \in lost THEN None ELSE rowLock[d]]
    BY <1>0 DEF Crash
  <1>2. \A r \in lost :
          /\ r \in Requests
          /\ request'[r] \in RequestState
          /\ request'[r].op = request[r].op
          /\ request'[r].document = request[r].document
          /\ request'[r].pc = "done"
          /\ request'[r].error = "lost"
          /\ request[r].pc # "idle" /\ request[r].op # None
    <2> SUFFICES ASSUME NEW r \in lost
                 PROVE  /\ r \in Requests
                        /\ request'[r] \in RequestState
                        /\ request'[r].op = request[r].op
                        /\ request'[r].document = request[r].document
                        /\ request'[r].pc = "done"
                        /\ request'[r].error = "lost"
                        /\ request[r].pc # "idle" /\ request[r].op # None
      OBVIOUS
    <2>1. r \in Requests /\ request[r].process # None /\ request'[r] = Ended(r, "lost")
      BY <1>0, <1>1
    <2>2. request[r].pc # "idle" /\ request[r].op # None
      BY <2>1 DEF IInv, InputsKnown
    <2>3. request[r] \in RequestState
      BY <2>1 DEF IInv, TypeOK
    <2>4. Ended(r, "lost") \in RequestState
      BY <2>3 DEF Ended, NoRequest, RequestState, Steps
    <2>5. /\ Ended(r, "lost").op = request[r].op
          /\ Ended(r, "lost").document = request[r].document
          /\ Ended(r, "lost").pc = "done"
          /\ Ended(r, "lost").error = "lost"
      BY DEF Ended, NoRequest
    <2> QED
      BY <2>1, <2>2, <2>4, <2>5
  <1>3. \A r \in Requests \ lost : request'[r] = request[r]
    BY <1>1
  <1>4. TypeOK'
    <2>1. request' \in [Requests -> RequestState]
      BY <1>1, <1>2, <1>3 DEF IInv, TypeOK
    <2>2. rowLock' \in [Requests -> Requests \cup {None}]
      BY <1>1 DEF IInv, TypeOK
    <2> QED
      BY <1>1, <2>1, <2>2 DEF IInv, TypeOK
  <1>5. VersionNumbersContiguous' /\ CurrentIsLatest' /\ NoRepeatedContent'
    BY <1>1, HistoryKept DEF IInv
  <1>6. InputsKnown'
    <2> SUFFICES ASSUME NEW r \in Requests
                 PROVE  (/\ request[r].pc = "idle" <=> request[r].op = None
                         /\ request[r].pc = "idle" => request[r].process = None
                         /\ request[r].op # None => request[r].document \in Requests
                         /\ request[r].op \in UploadOps /\ request[r].pc # "done"
                              => request[r].checksum \in Checksums
                         /\ request[r].op = "upload" =>
                              /\ request[r].document = r
                              /\ request[r].pc \in {"insert", "put", "commit"} \cup After
                         /\ request[r].op = "upload_version" =>
                              request[r].pc \in {"lock"} \cup Locked \cup After
                         /\ request[r].op = "delete" =>
                              request[r].pc \in {"read", "commit", "refresh", "done"})'
      BY DEF InputsKnown
    <2>1. CASE r \in lost
      BY <1>2, <2>1 DEF IInv, InputsKnown, After
    <2>2. CASE r \notin lost
      BY <1>3, <2>2 DEF IInv, InputsKnown
    <2> QED
      BY <2>1, <2>2
  <1>7. LocksMatch'
    <2>1. ASSUME NEW d \in Requests, rowLock'[d] # None
          PROVE  /\ rowLock'[d] = rowLock[d]
                 /\ rowLock[d] \in Requests
                 /\ request'[rowLock[d]] = request[rowLock[d]]
      BY <1>1, <1>3, <2>1 DEF IInv, TypeOK
    <2>2. ASSUME NEW r \in Requests,
                 request'[r].op = "upload_version", request'[r].pc \in Locked
          PROVE  rowLock'[request'[r].document] = r
      <3>1. r \notin lost
        BY <1>2, <2>2 DEF Locked
      <3>2. request'[r] = request[r] /\ request[r].document \in Requests
        BY <1>3, <2>2, <3>1 DEF IInv, InputsKnown
      <3>3. rowLock[request[r].document] = r
        BY <2>2, <3>2 DEF IInv, LocksMatch
      <3> QED
        BY <1>1, <3>1, <3>2, <3>3
    <2>3. \A d \in Requests : rowLock'[d] # None =>
            /\ request'[rowLock'[d]].op = "upload_version"
            /\ request'[rowLock'[d]].document = d
            /\ request'[rowLock'[d]].pc \in Locked \cup {"rollback"}
      BY <2>1 DEF IInv, LocksMatch
    <2> QED
      BY <2>2, <2>3 DEF LocksMatch
  <1>8. RowsHaveOrigin'
    BY <1>1, <1>2, <1>3, ZenonT(40) DEF IInv, TypeOK, RowsHaveOrigin, After, Exists, VersionRow
  <1>9. ReadsStillHold'
    <2>1. \A d : Exists(d)' = Exists(d) /\ Deleted(d)' = Deleted(d)
                /\ CurrentVersions(d)' = CurrentVersions(d)
      BY <1>1 DEF Exists, Deleted, CurrentVersions, VersionsOf
    <2>2. \A r \in Requests : request'[r].pc = "done" \/ request'[r] = request[r]
      BY <1>2, <1>3
    <2> QED
      BY <2>1, <2>2 DEF IInv, ReadsStillHold, Locked
  <1>10. NoVersionConflict'
    BY <1>2, <1>3 DEF IInv, NoVersionConflict
  <1> QED
    BY <1>4, <1>5, <1>6, <1>7, <1>8, <1>9, <1>10 DEF IInv

LEMMA NextIInv == IInv /\ [Next]_vars => IInv'
  <1> SUFFICES ASSUME IInv, [Next]_vars PROVE IInv'
    OBVIOUS
  <1>1. CASE UNCHANGED vars
    BY <1>1
    DEF vars, IInv, TypeOK, InputsKnown, LocksMatch, RowsHaveOrigin, ReadsStillHold,
        VersionNumbersContiguous, CurrentIsLatest, NoRepeatedContent, NoVersionConflict,
        Exists, Deleted, VersionsOf, NumbersOf, CurrentVersions
  <1>2. ASSUME NEW r \in Requests, Receive(r) PROVE IInv'
    BY <1>2, ReceiveKeeps
  <1>3. ASSUME NEW r \in Requests, Step(r) PROVE IInv'
    BY <1>3, LockDocumentKeeps, CheckVersionKeeps, InsertVersionKeeps,
       PutObjectKeeps, CommitUploadKeeps, CommitUploadFailsKeeps, RefreshKeeps, RollbackKeeps,
       CompensateKeeps, RecordFailureKeeps, ReadForDeleteKeeps, CommitDeleteKeeps
    DEF Step
  <1>4. ASSUME NEW p \in Processes, Crash(p) PROVE IInv'
    BY <1>4, CrashKeeps
  <1>5. ASSUME NEW r \in Requests, StatementFails(r) PROVE IInv'
    BY <1>5, StatementFailsKeeps
  <1> QED
    BY <1>1, <1>2, <1>3, <1>4, <1>5 DEF Next

---------------------------------------------------------------------------
(* The theorems.                                                           *)

(* IInv holds in every reachable state.                                    *)
THEOREM Invariance == Spec => []IInv
  BY InitIInv, NextIInv, PTL DEF Spec

(* The tables, the bucket and the requests keep their types.               *)
THEOREM TypeCorrect == Spec => []TypeOK
  <1>1. IInv => TypeOK
    BY DEF IInv
  <1> QED
    BY Invariance, <1>1, PTL

(* Version numbers run from 1 without gap or repetition, for any number of *)
(* concurrent uploads and any of the modelled failures.                    *)
THEOREM NumbersAreContiguous == Spec => []VersionNumbersContiguous
  <1>1. IInv => VersionNumbersContiguous
    BY DEF IInv
  <1> QED
    BY Invariance, <1>1, PTL

(* A committed document is ACTIVE and links its latest version.            *)
THEOREM LinkIsLatest == Spec => []CurrentIsLatest
  <1>1. IInv => CurrentIsLatest
    BY DEF IInv
  <1> QED
    BY Invariance, <1>1, PTL

(* No two successive versions of a document have the same content.         *)
THEOREM ContentChanges == Spec => []NoRepeatedContent
  <1>1. IInv => NoRepeatedContent
    BY DEF IInv
  <1> QED
    BY Invariance, <1>1, PTL

(* Only the two commits change the committed tables.                       *)
LEMMA OnlyCommitsChangeTables ==
  ASSUME [Next]_vars
  PROVE  \/ UNCHANGED <<documents, versions>>
         \/ \E r \in Requests : CommitUpload(r) \/ CommitDelete(r)
  BY ZenonT(40) DEF vars, Next, Receive, Step, Crash, ReceiveUpload, ReceiveVersion, ReceiveDelete,
         Arrive, LockDocument, CheckVersion, InsertVersion, StatementFails, PutObject,
         CommitUploadFails, Refresh, Rollback, Compensate, RecordFailure, ReadForDelete

(* A deleted document is frozen: neither its link nor its history changes  *)
(* any more, whatever was running when it was deleted.                     *)
THEOREM DeletedIsFrozen == Spec => DeletedFrozen
  <1>1. ASSUME IInv, [Next]_vars, NEW d \in Requests, Deleted(d)
        PROVE  /\ Deleted(d)'
               /\ documents'[d].current_version_id = documents[d].current_version_id
               /\ VersionsOf(d)' = VersionsOf(d)
    <2>1. CASE UNCHANGED <<documents, versions>>
      BY <1>1, <2>1 DEF Deleted, VersionsOf
    <2>2. ASSUME NEW r \in Requests, CommitUpload(r)
          PROVE  /\ documents'[d] = documents[d]
                 /\ VersionsOf(d)' = VersionsOf(d)
      <3>1. ~Deleted(request[r].document) /\ request[r].document \in Requests
        BY <1>1, <2>2, PreparedVersionFits DEF CommitUpload
      <3>2. documents'[d] = documents[d]
        BY <1>1, <2>2, <3>1 DEF CommitUpload, LinkVersion, IInv, TypeOK
      <3>3. NewVersion(r).document_id # d
        BY <1>1, <3>1 DEF NewVersion
      <3> QED
        BY <2>2, <3>2, <3>3 DEF CommitUpload, VersionsOf
    <2>3. ASSUME NEW r \in Requests, CommitDelete(r)
          PROVE  /\ Deleted(d)'
                 /\ documents'[d].current_version_id = documents[d].current_version_id
                 /\ VersionsOf(d)' = VersionsOf(d)
      <3>1. documents[d] \in DocumentRow
        BY <1>1 DEF IInv, TypeOK
      <3>2. versions' = versions
        BY <2>3 DEF CommitDelete
      <3>3. CASE documents' = documents
        BY <1>1, <3>2, <3>3 DEF Deleted, VersionsOf
      <3>4. CASE MarkDeleted(r)
        BY <1>1, <3>1, <3>2, <3>4, NoneAssumption
        DEF MarkDeleted, Deleted, VersionsOf, DocumentRow, IInv, TypeOK
      <3> QED
        BY <2>3, <3>3, <3>4 DEF CommitDelete
    <2> QED
      BY <1>1, <2>1, <2>2, <2>3, OnlyCommitsChangeTables DEF Deleted
  <1>2. IInv /\ [Next]_vars =>
          [\A d \in Requests : Deleted(d) =>
             /\ Deleted(d)'
             /\ documents'[d].current_version_id = documents[d].current_version_id
             /\ VersionsOf(d)' = VersionsOf(d)]_vars
    BY <1>1
  <1> QED
    BY Invariance, <1>2, PTL DEF Spec, DeletedFrozen

---------------------------------------------------------------------------
(* Waiting, and the number of steps of a request.                          *)

\* The steps a request can still take, at most.
StepsLeft(r) ==
  CASE request[r].pc = "idle" -> 10
    [] request[r].pc \in {"lock", "read"} -> 9
    [] request[r].pc = "check" -> 8
    [] request[r].pc = "insert" -> 7
    [] request[r].pc = "put" -> 6
    [] request[r].pc = "commit" -> 5
    [] request[r].pc = "refresh" -> 4
    [] request[r].pc = "rollback" -> 3
    [] request[r].pc = "compensate" -> 2
    [] request[r].pc = "record" -> 1
    [] request[r].pc = "done" -> 0

\* A request that has ended runs on no process, and a deletion has no number.
RecordOK(q) ==
  /\ q.pc = "done" => q.process = None
  /\ q.op = "delete" => q.number = 0
RecordsOK == \A r \in Requests : RecordOK(request[r])

\* A step of r, and of no other request, that brings it nearer to its end.
Advances(r) ==
  /\ \A s \in Requests \ {r} : request'[s] = request[s]
  /\ StepsLeft(r)' < StepsLeft(r)
  /\ RecordOK(request'[r])

LEMMA GotoAdvances ==
  ASSUME IInv, RecordsOK, NEW r \in Requests, NEW step \in Steps \ {"done"}, Goto(r, step),
         StepsLeft(r)' < StepsLeft(r)
  PROVE  Advances(r)
<1>1. request[r] \in RequestState /\ request \in [Requests -> RequestState]
  BY DEF IInv, TypeOK
<1>2. request'[r] = [request[r] EXCEPT !.pc = step] /\ \A s \in Requests \ {r} : request'[s] = request[s]
  BY <1>1 DEF Goto
<1>3. RecordOK(request'[r])
  BY <1>1, <1>2 DEF RecordsOK, RecordOK, RequestState
<1> QED
  BY <1>2, <1>3 DEF Advances

LEMMA RaiseAdvances ==
  ASSUME IInv, RecordsOK, NEW r \in Requests, NEW e, Raise(r, e),
         request[r].pc \in {"lock", "check", "insert", "put", "commit", "refresh"}
  PROVE  Advances(r)
<1>1. request[r] \in RequestState /\ request \in [Requests -> RequestState]
  BY DEF IInv, TypeOK
<1>2. /\ request'[r] = [request[r] EXCEPT !.pc = "rollback", !.error = e]
      /\ \A s \in Requests \ {r} : request'[s] = request[s]
  BY <1>1 DEF Raise
<1>3. request'[r].pc = "rollback" /\ RecordOK(request'[r])
  BY <1>1, <1>2 DEF RecordsOK, RecordOK, RequestState
<1>4. StepsLeft(r)' < StepsLeft(r)
  BY <1>3 DEF StepsLeft
<1> QED
  BY <1>2, <1>3, <1>4 DEF Advances

LEMMA EndAdvances ==
  ASSUME IInv, RecordsOK, NEW r \in Requests, NEW e, End(r, e),
         request[r].pc \in {"read", "commit", "refresh", "compensate", "record"}
  PROVE  Advances(r)
<1>1. request[r] \in RequestState /\ request \in [Requests -> RequestState]
  BY DEF IInv, TypeOK
<1>2. /\ request'[r] = Ended(r, e)
      /\ \A s \in Requests \ {r} : request'[s] = request[s]
  BY <1>1 DEF End
<1>3. request'[r].pc = "done" /\ RecordOK(request'[r])
  BY <1>2 DEF RecordOK, Ended, NoRequest
<1>4. StepsLeft(r)' < StepsLeft(r)
  BY <1>3 DEF StepsLeft
<1> QED
  BY <1>2, <1>3, <1>4 DEF Advances

LEMMA ArriveAdvances ==
  ASSUME IInv, NEW r \in Requests, Receive(r)
  PROVE  Advances(r)
<1>1. request[r].pc = "idle" /\ request \in [Requests -> RequestState]
  BY DEF Receive, ReceiveUpload, ReceiveVersion, ReceiveDelete, Arrive, IInv, TypeOK
<1>2. \A o, p, d, c, n, first :
        Arrive(r, o, p, d, c, n, first) =>
          /\ request'[r] = [NoRequest EXCEPT !.op = o, !.pc = first, !.process = p, !.document = d,
                                             !.checksum = c, !.number = n]
          /\ \A s \in Requests \ {r} : request'[s] = request[s]
  BY <1>1 DEF Arrive
<1>3. /\ \A s \in Requests \ {r} : request'[s] = request[s]
      /\ request'[r].pc \in {"insert", "lock", "read"}
      /\ request'[r].op = "delete" => request'[r].number = 0
  <2>1. CASE \E p \in Processes, c \in Checksums : ReceiveUpload(r, p, c)
    <3>1. PICK p \in Processes, c \in Checksums : Arrive(r, "upload", p, r, c, 1, "insert")
      BY <2>1 DEF ReceiveUpload
    <3>2. /\ request'[r] = [NoRequest EXCEPT !.op = "upload", !.pc = "insert", !.process = p,
                                             !.document = r, !.checksum = c, !.number = 1]
          /\ \A s \in Requests \ {r} : request'[s] = request[s]
      BY <1>2, <3>1
    <3> QED
      BY <3>2 DEF NoRequest
  <2>2. CASE \E p \in Processes, d \in Requests, c \in Checksums : ReceiveVersion(r, p, d, c)
    <3>1. PICK p \in Processes, d \in Requests, c \in Checksums :
                 Arrive(r, "upload_version", p, d, c, 0, "lock")
      BY <2>2 DEF ReceiveVersion
    <3>2. /\ request'[r] = [NoRequest EXCEPT !.op = "upload_version", !.pc = "lock", !.process = p,
                                             !.document = d, !.checksum = c, !.number = 0]
          /\ \A s \in Requests \ {r} : request'[s] = request[s]
      BY <1>2, <3>1
    <3> QED
      BY <3>2 DEF NoRequest
  <2>3. CASE \E p \in Processes, d \in Requests : ReceiveDelete(r, p, d)
    <3>1. PICK p \in Processes, d \in Requests : Arrive(r, "delete", p, d, None, 0, "read")
      BY <2>3 DEF ReceiveDelete
    <3>2. /\ request'[r] = [NoRequest EXCEPT !.op = "delete", !.pc = "read", !.process = p,
                                             !.document = d, !.checksum = None, !.number = 0]
          /\ \A s \in Requests \ {r} : request'[s] = request[s]
      BY <1>2, <3>1
    <3> QED
      BY <3>2 DEF NoRequest
  <2> QED
    BY <2>1, <2>2, <2>3 DEF Receive
<1>4. StepsLeft(r)' < StepsLeft(r)
  BY <1>1, <1>3 DEF StepsLeft
<1> QED
  BY <1>3, <1>4 DEF Advances, RecordOK

(* Every step of a request brings it nearer to its end.                    *)
LEMMA StepAdvances ==
  ASSUME IInv, RecordsOK, NEW r \in Requests, Receive(r) \/ Step(r) \/ StatementFails(r)
  PROVE  Advances(r)
<1>r. request[r] \in RequestState /\ request \in [Requests -> RequestState]
  BY DEF IInv, TypeOK
<1>g. ASSUME NEW step \in Steps, Goto(r, step) PROVE request'[r].pc = step
  BY <1>r, <1>g DEF Goto
<1>1. ASSUME LockDocument(r) PROVE Advances(r)
  <2>1. request[r].pc = "lock" /\ (Goto(r, "check") \/ Raise(r, "not_found"))
    BY <1>1 DEF LockDocument
  <2>2. Goto(r, "check") => StepsLeft(r)' < StepsLeft(r)
    BY <2>1, <1>g DEF StepsLeft, Steps
  <2> QED
    BY <2>1, <2>2, GotoAdvances, RaiseAdvances DEF Steps
<1>2. ASSUME CheckVersion(r) PROVE Advances(r)
  <2>1. request[r].pc = "check" /\ request[r].op # "delete"
    BY <1>2 DEF CheckVersion, IInv, InputsKnown
  <2>2. \/ \E e : Raise(r, e)
        \/ request' = [request EXCEPT ![r].pc = "insert",
                                      ![r].number = NextVersionNumber(request[r].document)]
    BY <1>2 DEF CheckVersion
  <2>3. CASE \E e : Raise(r, e)
    BY <2>1, <2>3, RaiseAdvances
  <2>4. CASE request' = [request EXCEPT ![r].pc = "insert",
                                        ![r].number = NextVersionNumber(request[r].document)]
    <3>1. /\ request'[r].pc = "insert" /\ request'[r].op # "delete"
          /\ \A s \in Requests \ {r} : request'[s] = request[s]
      BY <1>r, <2>1, <2>4 DEF RequestState
    <3> QED
      BY <2>1, <3>1 DEF Advances, RecordOK, StepsLeft
  <2> QED
    BY <2>2, <2>3, <2>4
<1>3. ASSUME InsertVersion(r) PROVE Advances(r)
  <2>1. request[r].pc = "insert" /\ (Goto(r, "put") \/ Raise(r, "conflict"))
    BY <1>3 DEF InsertVersion
  <2>2. Goto(r, "put") => StepsLeft(r)' < StepsLeft(r)
    BY <2>1, <1>g DEF StepsLeft, Steps
  <2> QED
    BY <2>1, <2>2, GotoAdvances, RaiseAdvances DEF Steps
<1>4. ASSUME PutObject(r) PROVE Advances(r)
  <2>1. request[r].pc = "put"
    BY <1>4 DEF PutObject
  <2>2. CASE Raise(r, "storage")
    BY <2>1, <2>2, RaiseAdvances
  <2>3. CASE request' = [request EXCEPT ![r].pc = "commit", ![r].uploaded = TRUE]
    <3>1. /\ request'[r].pc = "commit" /\ request'[r].op = request[r].op
          /\ request'[r].number = request[r].number
          /\ \A s \in Requests \ {r} : request'[s] = request[s]
      BY <1>r, <2>3 DEF RequestState
    <3> QED
      BY <2>1, <3>1 DEF Advances, RecordsOK, RecordOK, StepsLeft
  <2> QED
    BY <1>4, <2>2, <2>3 DEF PutObject
<1>5. ASSUME CommitUpload(r) \/ CommitUploadFails(r) PROVE Advances(r)
  <2>1. request[r].pc = "commit" /\ (Goto(r, "refresh") \/ Raise(r, "database"))
    BY <1>5 DEF CommitUpload, CommitUploadFails
  <2>2. Goto(r, "refresh") => StepsLeft(r)' < StepsLeft(r)
    BY <2>1, <1>g DEF StepsLeft, Steps
  <2> QED
    BY <2>1, <2>2, GotoAdvances, RaiseAdvances DEF Steps
<1>6. ASSUME Refresh(r) PROVE Advances(r)
  <2>1. request[r].pc = "refresh" /\ ((\E e : End(r, e)) \/ Raise(r, "database"))
    BY <1>6 DEF Refresh
  <2> QED
    BY <2>1, EndAdvances, RaiseAdvances
<1>7. ASSUME Rollback(r) PROVE Advances(r)
  <2>1. PICK step \in {"compensate", "record"} : Goto(r, step)
    BY <1>7 DEF Rollback
  <2>2. request[r].pc = "rollback"
    BY <1>7 DEF Rollback
  <2>3. StepsLeft(r)' < StepsLeft(r)
    BY <2>1, <2>2, <1>g DEF StepsLeft, Steps
  <2> QED
    BY <2>1, <2>3, GotoAdvances DEF Steps
<1>8. ASSUME Compensate(r) PROVE Advances(r)
  <2>1. request[r].pc = "compensate" /\ (Goto(r, "record") \/ End(r, "storage"))
    BY <1>8 DEF Compensate
  <2>2. Goto(r, "record") => StepsLeft(r)' < StepsLeft(r)
    BY <2>1, <1>g DEF StepsLeft, Steps
  <2> QED
    BY <2>1, <2>2, GotoAdvances, EndAdvances DEF Steps
<1>9. ASSUME RecordFailure(r) PROVE Advances(r)
  BY <1>9, EndAdvances DEF RecordFailure
<1>10. ASSUME ReadForDelete(r) PROVE Advances(r)
  <2>1. request[r].pc = "read" /\ (Goto(r, "commit") \/ \E e : End(r, e))
    BY <1>10 DEF ReadForDelete
  <2>2. Goto(r, "commit") => StepsLeft(r)' < StepsLeft(r)
    BY <2>1, <1>g DEF StepsLeft, Steps
  <2> QED
    BY <2>1, <2>2, GotoAdvances, EndAdvances DEF Steps
<1>11. ASSUME CommitDelete(r) PROVE Advances(r)
  <2>1. request[r].pc = "commit" /\ (Goto(r, "refresh") \/ End(r, "database"))
    BY <1>11 DEF CommitDelete
  <2>2. Goto(r, "refresh") => StepsLeft(r)' < StepsLeft(r)
    BY <2>1, <1>g DEF StepsLeft, Steps
  <2> QED
    BY <2>1, <2>2, GotoAdvances, EndAdvances DEF Steps
<1>12. ASSUME StatementFails(r) PROVE Advances(r)
  BY <1>12, EndAdvances, RaiseAdvances DEF StatementFails
<1> QED
  BY <1>1, <1>2, <1>3, <1>4, <1>5, <1>6, <1>7, <1>8, <1>9, <1>10, <1>11, <1>12, ArriveAdvances DEF Step

(* A crash ends the requests of a process, and none that had ended.        *)
LEMMA CrashEnds ==
  ASSUME IInv, RecordsOK, NEW p \in Processes, Crash(p), NEW r \in Requests
  PROVE  request'[r] = request[r] \/ (StepsLeft(r)' < StepsLeft(r) /\ RecordOK(request'[r]))
<1>1. request'[r] = IF request[r].process = p THEN Ended(r, "lost") ELSE request[r]
  BY DEF Crash
<1>2. CASE request[r].process = p
  <2>1. request[r].pc # "done" /\ request[r].pc \in Steps
    BY <1>2, NoneAssumption DEF RecordsOK, RecordOK, IInv, TypeOK, RequestState
  <2>2. request'[r].pc = "done" /\ RecordOK(request'[r])
    BY <1>1, <1>2 DEF RecordOK, Ended, NoRequest
  <2> QED
    BY <2>1, <2>2 DEF StepsLeft, Steps
<1> QED
  BY <1>1, <1>2

LEMMA NextAdvances ==
  ASSUME IInv, RecordsOK, [Next]_vars, NEW r \in Requests
  PROVE  request'[r] = request[r] \/ (StepsLeft(r)' < StepsLeft(r) /\ RecordOK(request'[r]))
<1>1. CASE UNCHANGED vars
  BY <1>1 DEF vars
<1>2. ASSUME NEW s \in Requests, Receive(s) \/ Step(s) \/ StatementFails(s)
      PROVE  request'[r] = request[r] \/ (StepsLeft(r)' < StepsLeft(r) /\ RecordOK(request'[r]))
  <2>1. Advances(s)
    BY <1>2, StepAdvances
  <2> QED
    BY <2>1 DEF Advances
<1>3. ASSUME NEW p \in Processes, Crash(p)
      PROVE  request'[r] = request[r] \/ (StepsLeft(r)' < StepsLeft(r) /\ RecordOK(request'[r]))
  BY <1>3, CrashEnds
<1> QED
  BY <1>1, <1>2, <1>3 DEF Next

LEMMA RecordsStayOK == IInv /\ RecordsOK /\ [Next]_vars => RecordsOK'
<1> SUFFICES ASSUME IInv, RecordsOK, [Next]_vars, NEW r \in Requests PROVE RecordOK(request'[r])
  BY DEF RecordsOK
<1> QED
  BY NextAdvances DEF RecordsOK

LEMMA RecordsInvariance == Spec => []RecordsOK
<1>1. Init => RecordsOK
  BY NoneAssumption DEF Init, RecordsOK, RecordOK, NoRequest
<1> QED
  BY <1>1, RecordsStayOK, Invariance, PTL DEF Spec

(* Every request ends after at most ten steps of its own, faults and       *)
(* crashes included: each step, of whatever handler, brings it nearer      *)
(* to its end (service.py:37-104, 191-204).                                *)
THEOREM AtMostTenSteps ==
  Spec => [][\A r \in Requests :
               /\ StepsLeft(r) \in 0 .. 10
               /\ request'[r] # request[r] => StepsLeft(r)' < StepsLeft(r)]_vars
<1>1. ASSUME IInv, NEW r \in Requests PROVE StepsLeft(r) \in 0 .. 10
  <2>1. request[r].pc \in Steps
    BY <1>1 DEF IInv, TypeOK, RequestState
  <2> QED
    BY <2>1 DEF StepsLeft, Steps
<1>2. IInv /\ RecordsOK /\ [Next]_vars =>
        [\A r \in Requests :
           /\ StepsLeft(r) \in 0 .. 10
           /\ request'[r] # request[r] => StepsLeft(r)' < StepsLeft(r)]_vars
  BY <1>1, NextAdvances
<1> QED
  BY <1>2, Invariance, RecordsInvariance, PTL DEF Spec

(* Two open transactions never have the same number: the first version is  *)
(* invisible until its commit, and the row lock lets the others in one by  *)
(* one.                                                                    *)
LEMMA NumberIsFree ==
  ASSUME IInv, RecordsOK, NEW r \in Requests, request[r].pc = "insert"
  PROVE  ~NumberTaken(r)
<1> SUFFICES ASSUME NEW s \in Requests \ {r}, request[s].pc \in {"put", "commit"},
                    request[s].document = request[r].document,
                    request[s].number = request[r].number
             PROVE  FALSE
  BY DEF NumberTaken
<1> USE NoneAssumption
<1>1. request[r].op \in UploadOps /\ request[s].op \in UploadOps \cup {"delete"}
  BY DEF IInv, TypeOK, RequestState, InputsKnown, UploadOps
<1>2. CASE request[s].op = "delete"
  <2>1. request[r].number # 0
    <3>1. CASE request[r].op = "upload"
      BY <3>1 DEF IInv, ReadsStillHold
    <3>2. CASE request[r].op = "upload_version"
      <4>1. PICK v \in CurrentVersions(request[r].document) : request[r].number = v.version_number + 1
        BY <3>2 DEF IInv, ReadsStillHold, Locked
      <4>2. v.version_number \in Nat
        BY <4>1 DEF IInv, TypeOK, VersionRow, CurrentVersions, VersionsOf
      <4> QED
        BY <4>1, <4>2
    <3> QED
      BY <1>1, <3>1, <3>2 DEF UploadOps
  <2> QED
    BY <1>2, <2>1 DEF RecordsOK, RecordOK
<1>3. CASE request[s].op = "upload"
  <2>1. request[s].document = s /\ ~Exists(s)
    BY <1>3 DEF IInv, InputsKnown, ReadsStillHold
  <2>2. request[r].op = "upload_version"
    BY <1>1, <2>1 DEF IInv, InputsKnown, UploadOps
  <2>3. Exists(request[r].document)
    BY <2>2 DEF IInv, ReadsStillHold, Locked
  <2> QED
    BY <2>1, <2>3
<1>4. CASE request[s].op = "upload_version"
  <2>1. Exists(request[s].document) /\ rowLock[request[s].document] = s
    BY <1>4 DEF IInv, LocksMatch, ReadsStillHold, Locked
  <2>2. request[r].op = "upload_version"
    BY <1>1, <2>1 DEF IInv, InputsKnown, ReadsStillHold, UploadOps
  <2>3. rowLock[request[r].document] = r
    BY <2>2 DEF IInv, LocksMatch, Locked
  <2> QED
    BY <2>1, <2>3
<1> QED
  BY <1>1, <1>2, <1>3, <1>4 DEF UploadOps

(* Requests queue at the row lock of their document and nowhere else, for  *)
(* any number of requests, and its holder waits for nobody                 *)
(* (repository.py:30).                                                     *)
THEOREM OnlyTheRowLockQueues == Spec => []RowLockIsTheOnlyQueue
<1>1. ASSUME IInv, RecordsOK, NEW r \in Requests, Runs(r), ~CanGoOn(r)
      PROVE  WaitsForRow(r) /\ CanGoOn(rowLock[request[r].document])
  <2>1. WaitsForRow(r)
    BY <1>1, NumberIsFree DEF CanGoOn
  <2>2. request[r].op # None
    BY <1>1 DEF Runs, IInv, InputsKnown
  <2>3. PICK d \in Requests : request[r].document = d
    BY <1>1, <2>2 DEF IInv, InputsKnown
  <2>4. PICK h \in Requests : rowLock[d] = h /\ h # None
    <3>1. rowLock[d] # None
      BY <2>1, <2>3 DEF WaitsForRow, Unlocked
    <3>2. rowLock[d] \in Requests \cup {None}
      BY <1>1 DEF IInv, TypeOK
    <3> QED
      BY <3>1, <3>2
  <2>5. request[h].op = "upload_version" /\ request[h].pc \in Locked \cup {"rollback"}
    BY <1>1, <2>4 DEF IInv, LocksMatch
  <2>6. Runs(h) /\ ~WaitsForRow(h)
    BY <2>5 DEF Runs, WaitsForRow, Locked
  <2>7. CanGoOn(h)
    BY <1>1, <2>6, NumberIsFree DEF CanGoOn
  <2> QED
    BY <2>1, <2>3, <2>4, <2>7
<1>2. IInv /\ RecordsOK => RowLockIsTheOnlyQueue
  BY <1>1 DEF IInv, RowLockIsTheOnlyQueue
<1> QED
  BY <1>2, Invariance, RecordsInvariance, PTL

---------------------------------------------------------------------------
(* The sagas: what they leave in the bucket and in the audit log, proved   *)
(* for every set of requests, with the failures named by each theorem. The *)
(* invariant above says that rows stem from requests that have committed;  *)
(* here the objects are added.                                             *)

HasVersion(r) == \E v \in versions : v.id = r
HasObject(r) == r \in objects

---------------------------------------------------------------------------
(* The steps of one request, reduced to its record, its object, its row.   *)

Before == {"lock", "check", "insert"}

\* What no step of r touches.
OthersKept(r) ==
  \A s \in Requests \ {r} :
     /\ request'[s] = request[s]
     /\ HasObject(s)' = HasObject(s)
     /\ HasVersion(s)' = HasVersion(s)

Same(r) == HasObject(r)' = HasObject(r) /\ HasVersion(r)' = HasVersion(r)
Moves(r, from, to) ==
  request[r].pc \in from /\ request'[r].pc \in to /\ request'[r].op = request[r].op
Fails(r) == request'[r].error \in Errors /\ request'[r].uploaded = request[r].uploaded

Begins(r) ==
  /\ request[r].pc = "idle" /\ Same(r)
  /\ request'[r].pc \in Before \cup {"read"} /\ ~request'[r].uploaded
  /\ request'[r].op \in UploadOps <=> request'[r].pc # "read"
Prepares(r) ==
  /\ Moves(r, Before, Before \cup {"put"}) /\ Same(r)
  /\ request'[r].uploaded = request[r].uploaded
Puts(r) ==
  \/ /\ Moves(r, {"put"}, {"commit"}) /\ HasObject(r)' /\ request'[r].uploaded
     /\ HasVersion(r)' = HasVersion(r)
  \/ /\ Moves(r, {"put"}, {"rollback"}) /\ Fails(r)
     /\ HasVersion(r)' = HasVersion(r)
     /\ "put_unknown" \in Faults \/ HasObject(r)' = HasObject(r)
Commits(r) ==
  /\ request[r].op \in UploadOps /\ HasVersion(r)' /\ HasObject(r)' = HasObject(r)
  /\ \/ Moves(r, {"commit"}, {"refresh"})
     \/ "commit_unknown" \in Faults /\ Moves(r, {"commit"}, {"rollback"}) /\ Fails(r)
GivesUp(r) ==
  /\ Moves(r, Before \cup {"commit"}, {"rollback"}) /\ Fails(r) /\ Same(r)
  /\ request[r].op \in UploadOps
Answers(r) ==
  /\ Same(r)
  /\ \/ Moves(r, {"refresh"}, {"done"})
     \/ "refresh" \in Faults /\ Moves(r, {"refresh"}, {"rollback"}) /\ Fails(r)
RollsBack(r) ==
  /\ Moves(r, {"rollback"}, IF request[r].uploaded THEN {"compensate"} ELSE {"record"}) /\ Same(r)
  /\ request'[r].error = request[r].error
Compensates(r) ==
  /\ HasVersion(r)' = HasVersion(r)
  /\ \/ Moves(r, {"compensate"}, {"record"}) /\ request'[r].error = request[r].error
        /\ (~HasObject(r)' \/ "remove" \in Faults)
     \/ Moves(r, {"compensate"}, {"done"}) /\ request'[r].error = "storage" /\ "remove_unknown" \in Faults
Records(r) ==
  Moves(r, {"record"}, {"done"}) /\ request'[r].error = request[r].error /\ Same(r)
Deletes(r) == request[r].op = "delete" /\ request'[r].op = "delete" /\ Same(r)

SagaStep(r) ==
  \/ Begins(r) \/ Prepares(r) \/ Puts(r) \/ Commits(r) \/ GivesUp(r) \/ Answers(r)
  \/ RollsBack(r) \/ Compensates(r) \/ Records(r) \/ Deletes(r)

(* A step that changes neither table nor bucket changes no other request.  *)
LEMMA LocalStep ==
  ASSUME IInv, NEW r \in Requests, UNCHANGED <<versions, objects>>,
         \A s \in Requests \ {r} : request'[s] = request[s]
  PROVE  OthersKept(r) /\ Same(r)
  BY DEF OthersKept, Same, HasObject, HasVersion

(* Where the flow of a handler goes next, and what it keeps.               *)
LEMMA GotoKeeps ==
  ASSUME IInv, NEW r \in Requests, NEW step \in Steps, Goto(r, step)
  PROVE  /\ \A s \in Requests \ {r} : request'[s] = request[s]
         /\ request'[r].op = request[r].op /\ request'[r].pc = step
         /\ request'[r].error = request[r].error /\ request'[r].uploaded = request[r].uploaded
<1>1. request[r] \in RequestState /\ request \in [Requests -> RequestState]
  BY DEF IInv, TypeOK
<1>2. request'[r] = [request[r] EXCEPT !.pc = step]
  BY <1>1 DEF Goto
<1> QED
  BY <1>1, <1>2 DEF Goto, RequestState

(* Every step of a request is one of them.                                 *)
LEMMA StepsOfSaga ==
  ASSUME IInv, NEW r \in Requests, Receive(r) \/ Step(r) \/ StatementFails(r)
  PROVE  OthersKept(r) /\ SagaStep(r)
<1> USE NoneAssumption DEF UploadOps, Errors
<1>0. request \in [Requests -> RequestState] /\ request[r] \in RequestState /\ TypeOK
  BY DEF IInv, TypeOK
<1>op. /\ request[r].pc \in Before \cup {"put", "rollback", "compensate", "record"}
            => request[r].op \in UploadOps
       /\ request[r].pc = "read" => request[r].op = "delete"
       /\ request[r].pc \in {"commit", "refresh"} => request[r].op \in UploadOps \cup {"delete"}
  BY <1>0 DEF IInv, InputsKnown, RequestState, Locked, After, Before
<1>1. ASSUME Receive(r) PROVE OthersKept(r) /\ Begins(r)
  <2> DEFINE Fact == /\ request[r].pc = "idle" /\ UNCHANGED <<versions, objects>>
                     /\ \A s \in Requests \ {r} : request'[s] = request[s]
                     /\ request'[r].pc \in Before \cup {"read"} /\ ~request'[r].uploaded
                     /\ request'[r].op \in UploadOps <=> request'[r].pc # "read"
  <2>1. ASSUME NEW o, NEW p, NEW d, NEW c, NEW n, NEW first, Arrive(r, o, p, d, c, n, first),
               first \in Before \cup {"read"}, o \in UploadOps <=> first # "read"
        PROVE  Fact
    BY <1>0, <2>1 DEF Arrive, NoRequest
  <2>2. PICK p \in Processes :
           \/ \E c \in Checksums : ReceiveUpload(r, p, c)
           \/ \E d \in Requests \ {r} :
                \/ \E c \in Checksums : ReceiveVersion(r, p, d, c)
                \/ ReceiveDelete(r, p, d)
    BY <1>1 DEF Receive
  <2>3. \/ \E c \in Checksums : Arrive(r, "upload", p, r, c, 1, "insert")
        \/ \E d \in Requests \ {r} :
             \/ \E c \in Checksums : Arrive(r, "upload_version", p, d, c, 0, "lock")
             \/ Arrive(r, "delete", p, d, None, 0, "read")
    BY <2>2 DEF ReceiveUpload, ReceiveVersion, ReceiveDelete
  <2>4. Fact
    BY <2>1, <2>3 DEF Before
  <2> QED
    BY <2>4, LocalStep DEF Begins
<1>2. ASSUME NEW e \in Errors, Raise(r, e), UNCHANGED <<versions, objects>>,
             request[r].pc \in Before \cup {"commit"}, request[r].op \in UploadOps
      PROVE  OthersKept(r) /\ GivesUp(r)
  BY <1>0, <1>2, RaiseEffect, LocalStep DEF GivesUp, Fails, Moves
<1>3. ASSUME NEW step \in Before \cup {"put"}, Goto(r, step), UNCHANGED <<versions, objects>>,
             request[r].pc \in Before
      PROVE  OthersKept(r) /\ Prepares(r)
  BY <1>3, GotoKeeps, LocalStep DEF Prepares, Moves, Before, Steps
<1>4. ASSUME LockDocument(r) PROVE OthersKept(r) /\ SagaStep(r)
  <2>1. UNCHANGED <<versions, objects>> /\ request[r].pc = "lock"
    BY <1>4 DEF LockDocument
  <2>2. Goto(r, "check") \/ Raise(r, "not_found")
    BY <1>4 DEF LockDocument
  <2> QED
    BY <1>op, <1>2, <1>3, <2>1, <2>2 DEF Before, SagaStep
<1>5. ASSUME CheckVersion(r) PROVE OthersKept(r) /\ SagaStep(r)
  <2>1. UNCHANGED <<versions, objects>> /\ request[r].pc = "check"
    BY <1>5 DEF CheckVersion
  <2>2. CASE \E e \in {"access_denied", "not_found", "duplicate"} : Raise(r, e)
    BY <1>op, <1>2, <2>1, <2>2 DEF Before, SagaStep
  <2>3. CASE request' = [request EXCEPT ![r].pc = "insert",
                                        ![r].number = NextVersionNumber(request[r].document)]
    <3>1. /\ \A s \in Requests \ {r} : request'[s] = request[s]
          /\ request'[r].op = request[r].op /\ request'[r].pc = "insert"
          /\ request'[r].uploaded = request[r].uploaded
      BY <1>0, <2>3 DEF RequestState
    <3> QED
      BY <2>1, <3>1, LocalStep DEF SagaStep, Prepares, Moves, Before
  <2> QED
    BY <1>5, <2>2, <2>3 DEF CheckVersion
<1>6. ASSUME InsertVersion(r) PROVE OthersKept(r) /\ SagaStep(r)
  <2>1. UNCHANGED <<versions, objects>> /\ request[r].pc = "insert"
    BY <1>6 DEF InsertVersion
  <2>2. Goto(r, "put") \/ Raise(r, "conflict")
    BY <1>6 DEF InsertVersion
  <2> QED
    BY <1>op, <1>2, <1>3, <2>1, <2>2 DEF Before, SagaStep
<1>7. ASSUME PutObject(r) PROVE OthersKept(r) /\ SagaStep(r)
  <2>1. /\ versions' = versions /\ request[r].pc = "put"
        /\ \A s \in Requests \ {r} : request'[s] = request[s]
        /\ objects' = objects \/ objects' = objects \cup {r}
    BY <1>0, <1>7 DEF PutObject, Raise
  <2>2. OthersKept(r) /\ HasVersion(r)' = HasVersion(r)
    BY <2>1 DEF OthersKept, HasObject, HasVersion
  <2>3. Puts(r)
    <3>1. CASE objects' = objects \cup {r} /\ request' = [request EXCEPT ![r].pc = "commit", ![r].uploaded = TRUE]
      BY <1>0, <2>1, <2>2, <3>1 DEF Puts, Moves, HasObject, RequestState
    <3>2. CASE (objects' = objects \/ "put_unknown" \in Faults) /\ Raise(r, "storage")
      BY <1>0, <2>1, <2>2, <3>2, RaiseEffect DEF Puts, Moves, Fails, HasObject
    <3> QED
      BY <1>7, <3>1, <3>2 DEF PutObject
  <2> QED
    BY <2>2, <2>3 DEF SagaStep
<1>8. ASSUME CommitUpload(r) PROVE OthersKept(r) /\ SagaStep(r)
  <2>1. /\ objects' = objects /\ versions' = versions \cup {NewVersion(r)} /\ NewVersion(r).id = r
        /\ request[r].pc = "commit" /\ request[r].op \in UploadOps
    BY <1>8 DEF CommitUpload, NewVersion
  <2>2. HasVersion(r)' /\ \A s \in Requests \ {r} : HasVersion(s)' = HasVersion(s)
    BY <2>1 DEF HasVersion
  <2>3. CASE Goto(r, "refresh")
    BY <2>1, <2>2, <2>3, GotoKeeps DEF Steps, OthersKept, SagaStep, Commits, Moves, HasObject
  <2>4. CASE "commit_unknown" \in Faults /\ Raise(r, "database")
    BY <1>0, <2>1, <2>2, <2>4, RaiseEffect DEF OthersKept, SagaStep, Commits, Moves, Fails, HasObject
  <2> QED
    BY <1>8, <2>3, <2>4 DEF CommitUpload
<1>9. ASSUME CommitUploadFails(r) PROVE OthersKept(r) /\ SagaStep(r)
  BY <1>2, <1>9 DEF CommitUploadFails, SagaStep
<1>10. ASSUME NEW e \in Errors \cup {None}, End(r, e), UNCHANGED <<versions, objects>>, 
              request[r].pc \in {"refresh", "record", "read"} \/ request[r].op = "delete",
              request[r].pc = "record" => e = request[r].error
       PROVE  OthersKept(r) /\ SagaStep(r)
  <2>1. /\ \A s \in Requests \ {r} : request'[s] = request[s]
        /\ request'[r].op = request[r].op /\ request'[r].pc = "done" /\ request'[r].error = e
    BY <1>0, <1>10, EndEffect
  <2>2. OthersKept(r) /\ Same(r)
    BY <1>10, <2>1, LocalStep
  <2> QED
    BY <1>op, <1>10, <2>1, <2>2 DEF SagaStep, Answers, Records, Deletes, Moves
<1>11. ASSUME Refresh(r) PROVE OthersKept(r) /\ SagaStep(r)
  <2>1. UNCHANGED <<versions, objects>> /\ request[r].pc = "refresh"
    BY <1>11 DEF Refresh
  <2>2. CASE \E e \in {None, "database"} : End(r, e)
    BY <1>10, <2>1, <2>2
  <2>3. CASE "refresh" \in Faults /\ Raise(r, "database")
    BY <1>0, <2>1, <2>3, RaiseEffect, LocalStep DEF SagaStep, Answers, Moves, Fails
  <2> QED
    BY <1>11, <2>2, <2>3 DEF Refresh
<1>12. ASSUME Rollback(r) PROVE OthersKept(r) /\ SagaStep(r)
  <2>1. /\ UNCHANGED <<versions, objects>> /\ request[r].pc = "rollback"
        /\ Goto(r, IF request[r].uploaded THEN "compensate" ELSE "record")
    BY <1>12 DEF Rollback
  <2>2. CASE request[r].uploaded
    BY <2>1, <2>2, GotoKeeps, LocalStep DEF Steps, SagaStep, RollsBack, Moves
  <2>3. CASE ~request[r].uploaded
    BY <2>1, <2>3, GotoKeeps, LocalStep DEF Steps, SagaStep, RollsBack, Moves
  <2> QED
    BY <2>2, <2>3
<1>13. ASSUME Compensate(r) PROVE OthersKept(r) /\ SagaStep(r)
  <2>1. /\ versions' = versions /\ request[r].pc = "compensate"
        /\ objects' = objects \/ objects' = objects \ {r}
    BY <1>13 DEF Compensate
  <2>2. HasVersion(r)' = HasVersion(r)
        /\ \A s \in Requests \ {r} : HasVersion(s)' = HasVersion(s) /\ HasObject(s)' = HasObject(s)
    BY <2>1 DEF HasVersion, HasObject
  <2>3. CASE Goto(r, "record") /\ (objects' = objects \ {r} \/ "remove" \in Faults)
    BY <2>1, <2>2, <2>3, GotoKeeps DEF Steps, OthersKept, SagaStep, Compensates, Moves, HasObject
  <2>4. CASE "remove_unknown" \in Faults /\ End(r, "storage")
    BY <1>0, <2>1, <2>2, <2>4, EndEffect DEF OthersKept, SagaStep, Compensates, Moves
  <2> QED
    BY <1>13, <2>3, <2>4 DEF Compensate
<1>14. ASSUME RecordFailure(r) PROVE OthersKept(r) /\ SagaStep(r)
  BY <1>0, <1>10, <1>14 DEF RecordFailure, RequestState
<1>15. ASSUME ReadForDelete(r) PROVE OthersKept(r) /\ SagaStep(r)
  <2>1. UNCHANGED <<versions, objects>> /\ request[r].pc = "read" /\ request[r].op = "delete"
    BY <1>op, <1>15 DEF ReadForDelete
  <2>2. ASSUME NEW e \in {"not_found", "already_deleted", "access_denied"}, End(r, e)
        PROVE  OthersKept(r) /\ SagaStep(r)
    BY <1>10, <2>1, <2>2
  <2>3. CASE Goto(r, "commit")
    BY <2>1, <2>3, GotoKeeps, LocalStep DEF Steps, SagaStep, Deletes
  <2> QED
    BY <1>15, <2>2, <2>3 DEF ReadForDelete
<1>16. ASSUME CommitDelete(r) PROVE OthersKept(r) /\ SagaStep(r)
  <2>1. UNCHANGED <<versions, objects>> /\ request[r].op = "delete"
    BY <1>16 DEF CommitDelete
  <2>2. CASE End(r, "database")
    BY <1>op, <1>10, <2>1, <2>2
  <2>3. CASE Goto(r, "refresh")
    BY <2>1, <2>3, GotoKeeps, LocalStep DEF Steps, SagaStep, Deletes
  <2> QED
    BY <1>16, <2>2, <2>3 DEF CommitDelete
<1>17. ASSUME StatementFails(r) PROVE OthersKept(r) /\ SagaStep(r)
  <2>1. UNCHANGED <<versions, objects>>
    BY <1>17 DEF StatementFails
  <2>2. CASE request[r].pc \in Before /\ Raise(r, "database")
    BY <1>op, <1>2, <2>1, <2>2 DEF SagaStep
  <2>3. CASE request[r].pc = "read" /\ End(r, "database")
    BY <1>10, <2>1, <2>3
  <2> QED
    BY <1>17, <2>2, <2>3 DEF StatementFails, Before
<1> QED
  BY <1>1, <1>4, <1>5, <1>6, <1>7, <1>8, <1>9, <1>11, <1>12, <1>13, <1>14, <1>15, <1>16, <1>17
  DEF Step, SagaStep

---------------------------------------------------------------------------
(* The invariant.                                                          *)

\* The answer to a commit is believed, and no exception follows it.
CommitKnown == {"commit_unknown", "refresh"} \cap Faults = {}
\* MinIO does what it says as well.
StorageKnown == {"put_unknown", "remove", "remove_unknown"} \cap Faults = {}

(* An upload has its object when it commits, and both when it answers.     *)
Stored(r) ==
  /\ request[r].op \in UploadOps /\ request[r].pc = "commit"
       => HasObject(r) /\ request[r].uploaded
  /\ request[r].op \in UploadOps /\ request[r].pc = "refresh" => HasObject(r) /\ HasVersion(r)
  /\ request[r].op \in UploadOps /\ request[r].pc = "done" /\ request[r].error = None
       => HasObject(r) /\ HasVersion(r)
  /\ request[r].pc \in {"rollback", "compensate", "record"} => request[r].error # None

(* An upload whose commit is known never compensates a committed version.  *)
Kept(r) == HasVersion(r) => HasObject(r) /\ request[r].pc \in {"refresh", "done"}

(* The flag `uploaded` of the handler tells whether there is an object.    *)
Clean(r) ==
  request[r].op # "delete" =>
    /\ request[r].pc \in Before \cup {"idle", "put"} => ~HasObject(r)
    /\ request[r].pc \in Before \cup {"put"} => ~request[r].uploaded
    /\ request[r].pc = "rollback" => (request[r].uploaded <=> HasObject(r))
    /\ request[r].pc = "record" => ~HasObject(r)
    /\ request[r].pc = "done" /\ request[r].error # "lost" => (HasObject(r) <=> HasVersion(r))

SagaOK(r) ==
  /\ Stored(r)
  /\ CommitKnown => Kept(r)
  /\ CommitKnown /\ StorageKnown => Clean(r)
SInv == IInv /\ \A r \in Requests : SagaOK(r)

(* A step of one request leaves the saga of every other as it was.         *)
LEMMA OthersStayOK ==
  ASSUME NEW r \in Requests, NEW s \in Requests \ {r}, OthersKept(r), SagaOK(s)
  PROVE  SagaOK(s)'
  BY DEF OthersKept, SagaOK, Stored, Kept, Clean

(* A version row stands for an upload that has committed.                  *)
LEMMA VersionIsCommitted ==
  ASSUME IInv, NEW r \in Requests, HasVersion(r)
  PROVE  request[r].op \in UploadOps /\ request[r].pc \in After
  BY DEF HasVersion, IInv, RowsHaveOrigin

(* Every step of a request keeps its own saga in order.                    *)
LEMMA SagaStepKeeps ==
  ASSUME SInv, IInv', NEW r \in Requests, SagaStep(r)
  PROVE  SagaOK(r)'
<1> USE NoneAssumption DEF UploadOps, Errors, Before
<1>0. Stored(r) /\ (CommitKnown => Kept(r)) /\ (CommitKnown /\ StorageKnown => Clean(r))
  BY DEF SInv, SagaOK
<1>op. /\ request[r].pc \in Before \cup {"put", "rollback", "compensate", "record"}
            => request[r].op \in UploadOps
       /\ request[r].pc = "idle" => request[r].op = None
       /\ request[r].pc \in {"commit", "refresh"} => request[r].op \in UploadOps \cup {"delete"}
       /\ request[r].op = "delete" => request[r].pc \in {"read", "commit", "refresh", "done"}
       /\ request'[r].op = "delete" => request'[r].pc \in {"read", "commit", "refresh", "done"}
  BY DEF SInv, IInv, TypeOK, InputsKnown, RequestState, Locked, After
<1>v. /\ HasVersion(r) => request[r].op \in UploadOps /\ request[r].pc \in After
      /\ HasVersion(r)' => request'[r].op \in UploadOps /\ request'[r].pc \in After
  BY VersionIsCommitted DEF SInv, IInv, RowsHaveOrigin, HasVersion
<1>1. Stored(r)'
  BY <1>0, <1>op DEF SagaStep, Stored, Begins, Prepares, Puts, Commits, GivesUp, Answers,
     RollsBack, Compensates, Records, Deletes, Same, Moves, Fails
<1>2. CommitKnown => Kept(r)'
  BY <1>0, <1>op, <1>v DEF SagaStep, Stored, Kept, CommitKnown, After, Begins, Prepares, Puts, Commits,
     GivesUp, Answers, RollsBack, Compensates, Records, Deletes, Same, Moves, Fails
<1>3. CommitKnown /\ StorageKnown => Clean(r)'
  BY <1>0, <1>op, <1>v DEF SagaStep, Stored, Kept, Clean, CommitKnown, StorageKnown, After, Begins,
     Prepares, Puts, Commits, GivesUp, Answers, RollsBack, Compensates, Records, Deletes, Same, Moves, Fails
<1> QED
  BY <1>1, <1>2, <1>3 DEF SagaOK, CommitKnown, StorageKnown

(* A crash ends its requests as lost and leaves tables and bucket.         *)
LEMMA CrashKeepsSagas ==
  ASSUME SInv, NEW p \in Processes, Crash(p), NEW r \in Requests
  PROVE  SagaOK(r)'
<1> USE NoneAssumption DEF UploadOps, Errors, Before
<1>1. UNCHANGED <<versions, objects>>
  BY DEF Crash
<1>2. HasObject(r)' = HasObject(r) /\ HasVersion(r)' = HasVersion(r)
  BY <1>1 DEF HasObject, HasVersion
<1>3. request'[r] = request[r] \/ request'[r] = Ended(r, "lost")
  BY DEF Crash
<1>4. CASE request'[r] = request[r]
  BY <1>2, <1>4 DEF SInv, SagaOK, Stored, Kept, Clean
<1>5. CASE request'[r] = Ended(r, "lost")
  <2>1. /\ request'[r].pc = "done" /\ request'[r].error = "lost"
        /\ request'[r].op = request[r].op
    BY <1>5 DEF Ended, NoRequest
  <2> QED
    BY <1>2, <2>1 DEF SInv, SagaOK, Stored, Kept, Clean
<1> QED
  BY <1>3, <1>4, <1>5

LEMMA InitSInv == Init => SInv
  BY InitIInv, NoneAssumption DEF Init, SInv, SagaOK, Stored, Kept, Clean, HasObject, HasVersion,
     NoRequest, UploadOps, Errors, Before

LEMMA NextSInv == SInv /\ [Next]_vars => SInv'
<1> SUFFICES ASSUME SInv, [Next]_vars PROVE SInv'
  OBVIOUS
<1>1. IInv /\ IInv'
  BY NextIInv DEF SInv
<1>2. CASE UNCHANGED vars
  BY <1>1, <1>2 DEF vars, SInv, SagaOK, Stored, Kept, Clean, HasObject, HasVersion
<1>3. ASSUME NEW r \in Requests, Receive(r) \/ Step(r) \/ StatementFails(r) PROVE SInv'
  BY <1>1, <1>3, StepsOfSaga, OthersStayOK, SagaStepKeeps DEF SInv
<1>4. ASSUME NEW p \in Processes, Crash(p) PROVE SInv'
  BY <1>1, <1>4, CrashKeepsSagas DEF SInv
<1> QED
  BY <1>2, <1>3, <1>4 DEF Next

(* The sagas stay in order, for any requests and any of the failures.      *)
THEOREM SagaInvariance == Spec => []SInv
  BY InitSInv, NextSInv, PTL DEF Spec

(* An upload that was answered 201 is in the history and in the bucket,    *)
(* whatever fails: the commit is the last thing that can be undone.        *)
THEOREM AckedVersionsAreDownloadable == Spec => []AckedVersionDownloadable
<1>1. SInv => AckedVersionDownloadable
  BY DEF SInv, SagaOK, Stored, AckedVersionDownloadable, HasObject, HasVersion
<1> QED
  BY <1>1, SagaInvariance, PTL

(* While the answer to a commit is never lost and the db.refresh after it  *)
(* never fails, no committed version loses its object. The run that lets   *)
(* these two happen finds the loss.                                        *)
THEOREM CommittedObjectsAreKept ==
  ASSUME CommitKnown
  PROVE  Spec => []CommittedObjectsKept
<1>1. SInv => CommittedObjectsKept
  BY DEF SInv, IInv, TypeOK, VersionRow, SagaOK, Kept, CommittedObjectsKept, HasObject, HasVersion
<1> QED
  BY <1>1, SagaInvariance, PTL

(* When MinIO's answers are true as well, an upload that ends leaves both  *)
(* its object and its row, or neither: the compensation is exact.          *)
THEOREM UploadsAreAllOrNothing ==
  ASSUME CommitKnown, StorageKnown
  PROVE  Spec => []UploadIsAllOrNothing
<1>1. SInv => UploadIsAllOrNothing
  BY DEF SInv, SagaOK, Clean, UploadIsAllOrNothing, HasObject, HasVersion, UploadOps
<1> QED
  BY <1>1, SagaInvariance, PTL

---------------------------------------------------------------------------
(* The success rows of the audit log.                                      *)

Audited == {a.request : a \in {b \in auditLog : b.result = "success"}}
AuditedDeletion(d) ==
  \E r \in Audited : r \in Requests /\ request[r].op = "delete" /\ request[r].document = d

\* Inductive form: the rows are those of the committed versions and deletions.
AuditOK ==
  /\ \A r \in Requests : request[r].op # "delete" => (r \in Audited <=> HasVersion(r))
  /\ \A r \in Requests : request[r].op = None => r \notin Audited
  /\ \A d \in Requests : Deleted(d) <=> AuditedDeletion(d)
AInv == IInv /\ AuditOK

(* A request that has begun keeps its operation and its document.          *)
LEMMA OperationsStay ==
  ASSUME IInv, [Next]_vars, NEW r \in Requests, request[r].op # None
  PROVE  request'[r].op = request[r].op /\ request'[r].document = request[r].document
<1> USE NoneAssumption DEF UploadOps, Errors
<1>1. request \in [Requests -> RequestState] /\ request[r].pc # "idle"
  BY DEF IInv, TypeOK, InputsKnown
<1>2. ASSUME NEW s \in Requests, Receive(s) PROVE request'[r] = request[r]
  BY <1>1, <1>2 DEF Receive, ReceiveUpload, ReceiveVersion, ReceiveDelete, Arrive
<1>3. ASSUME NEW s \in Requests, Step(s) \/ StatementFails(s)
      PROVE  request'[r].op = request[r].op /\ request'[r].document = request[r].document
  <2> DEFINE Stays == /\ \A q \in Requests \ {s} : request'[q] = request[q]
                      /\ request'[s].op = request[s].op
                      /\ request'[s].document = request[s].document
  <2>1. request[s] \in RequestState
    BY <1>1
  <2>2. ASSUME NEW step, Goto(s, step) PROVE Stays
    BY <1>1, <2>1, <2>2 DEF Goto, RequestState
  <2>3. ASSUME NEW e, Raise(s, e) PROVE Stays
    BY <1>1, <2>1, <2>3 DEF Raise, RequestState
  <2>4. ASSUME NEW e, End(s, e) PROVE Stays
    BY <1>1, <2>1, <2>4 DEF End, Ended, NoRequest
  <2>5. ASSUME CheckVersion(s) PROVE Stays
    BY <1>1, <2>1, <2>3, <2>5 DEF CheckVersion, RequestState
  <2>6. ASSUME PutObject(s) PROVE Stays
    BY <1>1, <2>1, <2>3, <2>6 DEF PutObject, RequestState
  <2>7. ASSUME LockDocument(s) \/ InsertVersion(s) \/ StatementFails(s)
        PROVE  Stays
    BY <2>2, <2>3, <2>4, <2>7 DEF LockDocument, InsertVersion, StatementFails
  <2>8. ASSUME CommitUpload(s) \/ CommitUploadFails(s) \/ Refresh(s) \/ Rollback(s) \/ Compensate(s)
        PROVE  Stays
    BY <2>2, <2>3, <2>4, <2>8 DEF CommitUpload, CommitUploadFails, Refresh, Rollback, Compensate
  <2>9. ASSUME RecordFailure(s) \/ ReadForDelete(s) \/ CommitDelete(s)
        PROVE  Stays
    BY <2>2, <2>4, <2>9 DEF RecordFailure, ReadForDelete, CommitDelete
  <2>10. Stays
    BY <1>3, <2>5, <2>6, <2>7, <2>8, <2>9 DEF Step
  <2> QED
    BY <2>10
<1>4. ASSUME NEW p \in Processes, Crash(p)
      PROVE  request'[r].op = request[r].op /\ request'[r].document = request[r].document
  BY <1>4 DEF Crash, Ended, NoRequest
<1> QED
  BY <1>2, <1>3, <1>4 DEF Next, vars

(* A success row audits its request.                                       *)
LEMMA SuccessIsAudited ==
  ASSUME NEW r, auditLog' = auditLog \cup {Success(r)}
  PROVE  Audited' = Audited \cup {r}
<1>1. Success(r).request = r /\ Success(r).result = "success"
  BY DEF Success
<1>2. {b \in auditLog' : b.result = "success"} =
         {b \in auditLog : b.result = "success"} \cup {Success(r)}
  BY <1>1
<1> QED
  BY <1>1, <1>2 DEF Audited

(* Only a commit of the two operations adds a success row.                 *)
LEMMA OnlyCommitsAudit ==
  ASSUME [Next]_vars
  PROVE  \/ Audited' = Audited /\ UNCHANGED <<documents, versions>>
         \/ \E r \in Requests : CommitUpload(r) \/ CommitDelete(r)
<1>1. ASSUME NEW r \in Requests, RecordFailure(r)
      PROVE  Audited' = Audited /\ UNCHANGED <<documents, versions>>
  BY <1>1 DEF RecordFailure, Audited
<1>2. CASE UNCHANGED <<documents, versions, auditLog>>
  BY <1>2 DEF Audited
<1> QED
  BY <1>1, <1>2 DEF vars, Next, Receive, Step, Crash, ReceiveUpload, ReceiveVersion, ReceiveDelete,
     Arrive, LockDocument, CheckVersion, InsertVersion, StatementFails, PutObject,
     CommitUploadFails, Refresh, Rollback, Compensate, ReadForDelete

LEMMA InitAInv == Init => AInv
  BY InitIInv DEF Init, AInv, AuditOK, Audited, AuditedDeletion, HasVersion, Deleted, NoDocument

LEMMA NextAInv == AInv /\ [Next]_vars => AInv'
<1> SUFFICES ASSUME AInv, [Next]_vars PROVE AInv'
  OBVIOUS
<1> USE NoneAssumption DEF UploadOps, Errors
<1>0. IInv /\ IInv'
  BY NextIInv DEF AInv
<1>1. \A r \in Requests : request[r].op # None =>
        request'[r].op = request[r].op /\ request'[r].document = request[r].document
  BY <1>0, OperationsStay
<1>2. CASE Audited' = Audited /\ UNCHANGED <<documents, versions>>
  <2>1. \A r \in Requests : HasVersion(r)' = HasVersion(r) /\ Deleted(r)' = Deleted(r)
    BY <1>2 DEF HasVersion, Deleted
  <2>2. \A r \in Requests : request[r].op = None => r \notin Audited /\ ~HasVersion(r)
    BY DEF AInv, AuditOK
  <2>3. \A r \in Requests : request'[r].op = None => request[r].op = None
    BY <1>1
  <2>4. \A d \in Requests : AuditedDeletion(d)' <=> AuditedDeletion(d)
    BY <1>1, <1>2, <2>2 DEF AuditedDeletion
  <2>5. \A r \in Requests : request'[r].op # "delete" => (r \in Audited <=> HasVersion(r))
    BY <1>1, <2>2 DEF AInv, AuditOK
  <2> QED
    BY <1>0, <1>2, <2>1, <2>2, <2>3, <2>4, <2>5 DEF AInv, AuditOK
<1>3. ASSUME NEW r \in Requests, CommitUpload(r) PROVE AInv'
  <2>1. request[r].op \in UploadOps /\ request'[r].op = request[r].op
    BY <1>1, <1>3 DEF CommitUpload
  <2>2. Audited' = Audited \cup {r}
    BY <1>3, SuccessIsAudited DEF CommitUpload
  <2>3. HasVersion(r)' /\ \A s \in Requests \ {r} : HasVersion(s)' = HasVersion(s)
    <3>1. NewVersion(r).id = r /\ versions' = versions \cup {NewVersion(r)}
      BY <1>3 DEF CommitUpload, NewVersion
    <3> QED
      BY <3>1 DEF HasVersion
  <2>4. \A d \in Requests : Deleted(d)' = Deleted(d)
    BY <1>0, <1>3 DEF CommitUpload, LinkVersion, Deleted, IInv, TypeOK, DocumentRow
  <2>5. \A s \in Requests : request[s].op = None => s \notin Audited /\ ~HasVersion(s)
    BY DEF AInv, AuditOK
  <2>6. \A d \in Requests : AuditedDeletion(d)' <=> AuditedDeletion(d)
    BY <1>1, <2>1, <2>2, <2>5 DEF AuditedDeletion
  <2>7. \A s \in Requests : request'[s].op # "delete" => (s \in Audited <=> HasVersion(s))
    BY <1>1, <2>5 DEF AInv, AuditOK
  <2>8. \A s \in Requests : request'[s].op = None => request[s].op = None
    BY <1>1
  <2> QED
    BY <1>0, <2>1, <2>2, <2>3, <2>4, <2>5, <2>6, <2>7, <2>8 DEF AInv, AuditOK
<1>4. ASSUME NEW r \in Requests, CommitDelete(r) PROVE AInv'
  <2>1. /\ request[r].op = "delete" /\ request'[r].op = "delete" /\ versions' = versions
        /\ request[r].document \in Requests /\ request'[r].document = request[r].document
    BY <1>0, <1>1, <1>4 DEF CommitDelete, IInv, InputsKnown
  <2>2. CASE UNCHANGED <<documents, auditLog>>
    BY <1>2, <2>1, <2>2 DEF Audited
  <2>3. CASE MarkDeleted(r) /\ auditLog' = auditLog \cup {Success(r)}
    <3>1. Audited' = Audited \cup {r}
      BY <2>3, SuccessIsAudited
    <3>2. \A s \in Requests : HasVersion(s)' = HasVersion(s)
      BY <2>1 DEF HasVersion
    <3>3. Deleted(request[r].document)' /\
          \A d \in Requests \ {request[r].document} : Deleted(d)' = Deleted(d)
      BY <1>0, <2>1, <2>3 DEF MarkDeleted, Deleted, IInv, TypeOK, DocumentRow
    <3>4. \A s \in Requests : request[s].op = None => s \notin Audited /\ ~HasVersion(s)
      BY DEF AInv, AuditOK
    <3>5. \A d \in Requests :
            AuditedDeletion(d)' <=> AuditedDeletion(d) \/ d = request[r].document
      BY <1>1, <2>1, <3>1, <3>4 DEF AuditedDeletion
    <3>6. \A s \in Requests : request'[s].op # "delete" => (s \in Audited <=> HasVersion(s))
      BY <1>1, <3>4 DEF AInv, AuditOK
    <3>7. \A s \in Requests : request'[s].op = None => request[s].op = None
      BY <1>1
    <3> QED
      BY <1>0, <2>1, <3>1, <3>2, <3>3, <3>4, <3>5, <3>6, <3>7 DEF AInv, AuditOK
  <2> QED
    BY <1>4, <2>2, <2>3 DEF CommitDelete
<1> QED
  BY <1>2, <1>3, <1>4, OnlyCommitsAudit

(* The success rows of the audit log are exactly those of the committed    *)
(* versions and deletions, whatever fails: each is written by the same     *)
(* transaction as what it records.                                         *)
THEOREM AuditMatchesHistory == Spec => []SuccessAuditMatchesHistory
<1>1. Spec => []AInv
  BY InitAInv, NextAInv, PTL DEF Spec
<1>2. AInv => SuccessAuditMatchesHistory
  <2> SUFFICES ASSUME AInv PROVE SuccessAuditMatchesHistory
    OBVIOUS
  <2> DEFINE deletes == {r \in Requests : request[r].op = "delete"}
  <2>1. Audited \subseteq Requests /\ \A v \in versions : v.id \in Requests
    BY DEF AInv, IInv, TypeOK, AuditRow, VersionRow, Audited
  <2>2. \A r \in Requests : HasVersion(r) => r \notin deletes
    BY VersionIsCommitted DEF AInv, UploadOps
  <2>3. Audited \ deletes = {v.id : v \in versions}
    BY <2>1, <2>2 DEF AInv, AuditOK, HasVersion
  <2>4. \A d \in Requests : Deleted(d) <=>
          \E r \in Audited \cap deletes : request[r].document = d
    BY <2>1 DEF AInv, AuditOK, AuditedDeletion
  <2> QED
    BY <2>3, <2>4 DEF SuccessAuditMatchesHistory, Audited
<1> QED
  BY <1>1, <1>2, PTL
=============================================================================
