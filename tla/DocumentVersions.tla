------------------------- MODULE DocumentVersions -------------------------
(***************************************************************************)
(* The life of a document and of its versions: DocumentService.upload,     *)
(* upload_version and delete (backend/app/documents/service.py), run by    *)
(* concurrent requests against one PostgreSQL database (READ COMMITTED)    *)
(* and one MinIO bucket.                                                   *)
(*                                                                         *)
(* Each handler is a saga: rows are inserted in an open transaction, the   *)
(* file is stored in MinIO, the transaction commits, and an exception      *)
(* rolls back and removes the stored object again.  Every statement of     *)
(* the saga that another request, MinIO, the database or a crash can get   *)
(* between is one action here.                                             *)
(*                                                                         *)
(* A request mints the uuid4 ids of the rows and of the object it makes,   *)
(* so the request itself stands for its version id and its storage key,    *)
(* and an upload stands for its document id.                               *)
(***************************************************************************)
EXTENDS Integers, FiniteSets, FiniteSetsExt

CONSTANTS
  Requests,   \* the HTTP requests of a behaviour, each served at most once
  Processes,  \* the backend processes, each with one event loop
  Checksums,  \* SHA-256 values of file contents
  Faults,     \* the failures that may happen, a subset of FaultKinds
  None        \* SQL NULL and Python None

FaultKinds ==
  { "statement",       \* a statement before the commit fails (database, pool)
    "put",             \* put_object fails and MinIO stores nothing
    "put_unknown",     \* put_object times out after MinIO stored the object
    "commit",          \* commit fails and PostgreSQL applies nothing
    "commit_unknown",  \* PostgreSQL commits but the acknowledgement is lost
    "refresh",         \* the SELECT of db.refresh after the commit fails
    "respond",         \* building the response from the database fails
    "remove",          \* remove_object ends in S3Error, which is swallowed
    "remove_unknown",  \* remove_object ends in any other exception
    "audit",           \* the commit of the failure audit row fails
    "crash" }          \* a backend process stops

ASSUME FaultsAssumption == Faults \subseteq FaultKinds

VARIABLES
  documents,  \* committed rows of table documents, by id
  versions,   \* committed rows of table document_versions
  objects,    \* storage keys present in bucket documents-original
  auditLog,   \* committed audit_logs rows of the three operations
  rowLock,    \* holder of the FOR UPDATE lock on each documents row
  request     \* local state of each request

vars == <<documents, versions, objects, auditLog, rowLock, request>>

UploadOps == {"upload", "upload_version"}
Steps == {"idle", "read", "lock", "check", "insert", "put", "commit",
          "refresh", "rollback", "compensate", "record", "done"}
Errors == {"not_found", "access_denied", "duplicate", "conflict", "storage",
           "database", "already_deleted", "lost"}

ASSUME NoneAssumption ==
  None \notin Requests \cup Processes \cup Checksums
               \cup UploadOps \cup {"delete"} \cup Errors

DocumentRow ==
  [status : {"none", "PROCESSING", "ACTIVE"},   \* "none": there is no row
   current_version_id : Requests \cup {None},
   deleted_at : Requests \cup {None}]           \* the deletion that set it
VersionRow ==
  [id : Requests, document_id : Requests, version_number : Nat \ {0},
   checksum : Checksums]
AuditRow == [request : Requests, result : {"success", "failed"}]
RequestState ==
  [op : UploadOps \cup {"delete", None}, pc : Steps,
   process : Processes \cup {None}, document : Requests \cup {None},
   checksum : Checksums \cup {None}, number : Nat, uploaded : BOOLEAN,
   error : Errors \cup {None}]

NoDocument ==
  [status |-> "none", current_version_id |-> None, deleted_at |-> None]
NoRequest ==
  [op |-> None, pc |-> "idle", process |-> None, document |-> None,
   checksum |-> None, number |-> 0, uploaded |-> FALSE, error |-> None]

---------------------------------------------------------------------------
(* What a transaction reads.                                               *)

Exists(d) == documents[d].status # "none"
Deleted(d) == documents[d].deleted_at # None
VersionsOf(d) == {v \in versions : v.document_id = d}
NumbersOf(d) == {v.version_number : v \in VersionsOf(d)}
CurrentVersions(d) == {v \in VersionsOf(d) : v.id = documents[d].current_version_id}

\* A lookup that ignores the logical deletion of the row it locked.
AcceptsVersion_IgnoresDeletion(d) == Exists(d)
AcceptsVersion(d) == Exists(d) /\ ~Deleted(d)

\* coalesce(max, 1) + 1: the first number is skipped when there is no row.
NextVersionNumber_SkipsOne(d) == Max(NumbersOf(d) \cup {0}) + 2
NextVersionNumber(d) == Max(NumbersOf(d) \cup {0}) + 1

\* The new file is compared with the first version only.
SameAsCurrent_ComparesFirst(d, c) ==
  \E v \in VersionsOf(d) : v.version_number = 1 /\ v.checksum = c
SameAsCurrent(d, c) == \E v \in CurrentVersions(d) : v.checksum = c

\* The lookup without with_for_update(), and an UPDATE that waits for nobody.
Unlocked_Always(d) == TRUE
Unlocked(d) == rowLock[d] = None

(* An async route runs the synchronous service on the event loop, so one    *)
(* process serves one upload at a time; delete runs in the thread pool.     *)
LoopFree(p) ==
  ~\E s \in Requests : request[s].process = p /\ request[s].op \in UploadOps

---------------------------------------------------------------------------
(* Steps of the local state.                                               *)

Arrive(r, o, p, d, c, n, first) ==
  /\ request[r].pc = "idle"
  /\ request' = [request EXCEPT ![r] =
       [NoRequest EXCEPT !.op = o, !.pc = first, !.process = p,
                         !.document = d, !.checksum = c, !.number = n]]
  /\ UNCHANGED <<documents, versions, objects, auditLog, rowLock>>

Ended(r, e) ==
  [NoRequest EXCEPT !.op = request[r].op, !.document = request[r].document,
                    !.pc = "done", !.error = e]
End(r, e) == request' = [request EXCEPT ![r] = Ended(r, e)]
Goto(r, step) == request' = [request EXCEPT ![r].pc = step]
Raise(r, e) ==
  request' = [request EXCEPT ![r].pc = "rollback", ![r].error = e]

Released(r) ==
  [d \in Requests |-> IF rowLock[d] = r THEN None ELSE rowLock[d]]

---------------------------------------------------------------------------
(* The actions.                                                            *)

Init ==
  /\ documents = [d \in Requests |-> NoDocument]
  /\ versions = {}
  /\ objects = {}
  /\ auditLog = {}
  /\ rowLock = [d \in Requests |-> None]
  /\ request = [r \in Requests |-> NoRequest]

\* upload numbering its first version from zero.
ReceiveUpload_FromZero(r, p, c) ==
  LoopFree(p) /\ Arrive(r, "upload", p, r, c, 0, "insert")
ReceiveUpload(r, p, c) ==
  LoopFree(p) /\ Arrive(r, "upload", p, r, c, 1, "insert")
ReceiveVersion(r, p, d, c) ==
  LoopFree(p) /\ Arrive(r, "upload_version", p, d, c, 0, "lock")
ReceiveDelete(r, p, d) ==
  Arrive(r, "delete", p, d, None, 0, "read")

(* get_for_update waits for the row lock and then reads the row. A missing *)
(* row cannot be locked; a deleted one is locked and then refused.         *)
LockDocument(r) ==
  LET d == request[r].document IN
  /\ request[r].pc = "lock"
  /\ Unlocked(d)
  /\ rowLock' = IF Exists(d) THEN [rowLock EXCEPT ![d] = r] ELSE rowLock
  /\ IF AcceptsVersion(d) THEN Goto(r, "check") ELSE Raise(r, "not_found")
  /\ UNCHANGED <<documents, versions, objects, auditLog>>

(* The permission is any: module DocumentAccess says how it is decided.    *)
CheckVersion(r) ==
  LET d == request[r].document IN
  /\ request[r].pc = "check"
  /\ \/ Raise(r, "access_denied")
     \/ IF CurrentVersions(d) = {} THEN Raise(r, "not_found")
        ELSE IF SameAsCurrent(d, request[r].checksum) THEN Raise(r, "duplicate")
        ELSE request' = [request EXCEPT ![r].pc = "insert",
                                        ![r].number = NextVersionNumber(d)]
  /\ UNCHANGED <<documents, versions, objects, auditLog, rowLock>>

\* An open transaction has inserted the number that r is about to insert.
NumberTaken(r) ==
  \E s \in Requests \ {r} : /\ request[s].pc \in {"put", "commit"}
                            /\ request[s].document = request[r].document
                            /\ request[s].number = request[r].number

(* The flush of the new row. The unique index on (document_id,              *)
(* version_number) makes it wait for an open transaction that holds the    *)
(* same key, and fails it when that key is committed.                      *)
InsertVersion(r) ==
  /\ request[r].pc = "insert"
  /\ ~NumberTaken(r)
  /\ IF request[r].number \in NumbersOf(request[r].document)
     THEN Raise(r, "conflict") ELSE Goto(r, "put")
  /\ UNCHANGED <<documents, versions, objects, auditLog, rowLock>>

StatementFails(r) ==
  /\ "statement" \in Faults
  /\ \/ request[r].pc \in {"lock", "check", "insert"} /\ Raise(r, "database")
     \/ request[r].pc = "read" /\ End(r, "database")
  /\ UNCHANGED <<documents, versions, objects, auditLog, rowLock>>

\* A storage error reported as success.
PutObject_SwallowsError(r) ==
  /\ request[r].pc = "put"
  /\ \/ objects' = objects \cup {r}
     \/ "put" \in Faults /\ objects' = objects
  /\ request' = [request EXCEPT ![r].pc = "commit", ![r].uploaded = TRUE]
  /\ UNCHANGED <<documents, versions, auditLog, rowLock>>
PutObject(r) ==
  /\ request[r].pc = "put"
  /\ \/ /\ objects' = objects \cup {r}
        /\ request' = [request EXCEPT ![r].pc = "commit", ![r].uploaded = TRUE]
     \/ /\ "put" \in Faults
        /\ objects' = objects
        /\ Raise(r, "storage")
     \/ /\ "put_unknown" \in Faults
        /\ objects' = objects \cup {r}
        /\ Raise(r, "storage")
  /\ UNCHANGED <<documents, versions, auditLog, rowLock>>

Success(r) == [request |-> r, result |-> "success"]
NewVersion(r) ==
  [id |-> r, document_id |-> request[r].document,
   version_number |-> request[r].number, checksum |-> request[r].checksum]

\* current_version_id is set only when the document has none yet.
LinkVersion_OnlyFirst(r) ==
  documents' = [documents EXCEPT ![request[r].document] =
    [@ EXCEPT !.status = "ACTIVE",
              !.current_version_id = IF @ = None THEN r ELSE @]]
LinkVersion(r) ==
  documents' = [documents EXCEPT ![request[r].document] =
    [@ EXCEPT !.status = "ACTIVE", !.current_version_id = r]]

(* The commit of the new version, its link from the document and the       *)
(* success audit row, all in one transaction.                              *)
CommitUpload(r) ==
  /\ request[r].pc = "commit" /\ request[r].op \in UploadOps
  /\ LinkVersion(r)
  /\ versions' = versions \cup {NewVersion(r)}
  /\ auditLog' = auditLog \cup {Success(r)}
  /\ rowLock' = Released(r)
  /\ \/ Goto(r, "refresh")
     \/ "commit_unknown" \in Faults /\ Raise(r, "database")
  /\ UNCHANGED objects

CommitUploadFails(r) ==
  /\ "commit" \in Faults
  /\ request[r].pc = "commit" /\ request[r].op \in UploadOps
  /\ Raise(r, "database")
  /\ UNCHANGED <<documents, versions, objects, auditLog, rowLock>>

\* The response built inside the try block of the upload.
Refresh_RespondsInTry(r) ==
  /\ request[r].pc = "refresh"
  /\ \/ End(r, None)
     \/ "respond" \in Faults /\ request[r].op \in UploadOps /\ Raise(r, "database")
  /\ UNCHANGED <<documents, versions, objects, auditLog, rowLock>>
(* db.refresh and the response, both after the commit. The refresh of an    *)
(* upload is inside its try block, that of a delete is in none.            *)
Refresh(r) ==
  /\ request[r].pc = "refresh"
  /\ \/ End(r, None)
     \/ "respond" \in Faults /\ End(r, "database")
     \/ /\ "refresh" \in Faults
        /\ IF request[r].op = "delete" THEN End(r, "database")
                                       ELSE Raise(r, "database")
  /\ UNCHANGED <<documents, versions, objects, auditLog, rowLock>>

\* A handler that leaves its transaction open after an error.
Rollback_KeepsTransaction(r) ==
  /\ request[r].pc = "rollback"
  /\ Goto(r, IF request[r].uploaded THEN "compensate" ELSE "record")
  /\ UNCHANGED <<documents, versions, objects, auditLog, rowLock>>
\* A handler without the compensation.
Rollback_NoCompensation(r) ==
  /\ request[r].pc = "rollback"
  /\ rowLock' = Released(r)
  /\ Goto(r, "record")
  /\ UNCHANGED <<documents, versions, objects, auditLog>>
Rollback(r) ==
  /\ request[r].pc = "rollback"
  /\ rowLock' = Released(r)
  /\ Goto(r, IF request[r].uploaded THEN "compensate" ELSE "record")
  /\ UNCHANGED <<documents, versions, objects, auditLog>>

(* remove_uploaded_object catches S3Error only: any other exception leaves  *)
(* the handler, before its failure audit, whether or not MinIO removed     *)
(* the object.                                                             *)
Compensate(r) ==
  /\ request[r].pc = "compensate"
  /\ \/ /\ objects' = objects \ {r}
        /\ Goto(r, "record")
     \/ /\ "remove" \in Faults
        /\ objects' = objects
        /\ Goto(r, "record")
     \/ /\ "remove_unknown" \in Faults
        /\ objects' \in {objects, objects \ {r}}
        /\ End(r, "storage")
  /\ UNCHANGED <<documents, versions, auditLog, rowLock>>

RecordFailure(r) ==
  /\ request[r].pc = "record"
  /\ \/ auditLog' = auditLog \cup {[request |-> r, result |-> "failed"]}
     \/ "audit" \in Faults /\ auditLog' = auditLog
  /\ End(r, request[r].error)
  /\ UNCHANGED <<documents, versions, objects, rowLock>>

(* delete reads the row without a lock; again any permission.              *)
ReadForDelete(r) ==
  LET d == request[r].document IN
  /\ request[r].pc = "read"
  /\ \/ ~Exists(d) /\ End(r, "not_found")
     \/ Deleted(d) /\ End(r, "already_deleted")
     \/ AcceptsVersion(d) /\ End(r, "access_denied")
     \/ AcceptsVersion(d) /\ Goto(r, "commit")
  /\ UNCHANGED <<documents, versions, objects, auditLog, rowLock>>

MarkDeleted(r) ==
  documents' = [documents EXCEPT ![request[r].document] =
    [@ EXCEPT !.deleted_at = r]]

\* The audit row committed on its own, before the deletion.
CommitDelete_AuditsFirst(r) ==
  /\ request[r].pc = "commit" /\ request[r].op = "delete"
  /\ Unlocked(request[r].document)
  /\ auditLog' = auditLog \cup {Success(r)}
  /\ \/ MarkDeleted(r) /\ Goto(r, "refresh")
     \/ "commit" \in Faults /\ End(r, "database") /\ UNCHANGED documents
  /\ UNCHANGED <<versions, objects, rowLock>>
(* The UPDATE waits for the row lock, then commits with its audit row.      *)
CommitDelete(r) ==
  /\ request[r].pc = "commit" /\ request[r].op = "delete"
  /\ Unlocked(request[r].document)
  /\ \/ /\ MarkDeleted(r)
        /\ auditLog' = auditLog \cup {Success(r)}
        /\ \/ Goto(r, "refresh")
           \/ "commit_unknown" \in Faults /\ End(r, "database")
     \/ /\ "commit" \in Faults
        /\ End(r, "database")
        /\ UNCHANGED <<documents, auditLog>>
  /\ UNCHANGED <<versions, objects, rowLock>>

(* A process stops: its requests get no answer and PostgreSQL aborts their *)
(* open transactions.                                                      *)
Crash(p) ==
  LET lost == {r \in Requests : request[r].process = p} IN
  /\ "crash" \in Faults
  /\ lost # {}
  /\ request' = [r \in Requests |->
                   IF r \in lost THEN Ended(r, "lost") ELSE request[r]]
  /\ rowLock' = [d \in Requests |->
                   IF rowLock[d] \in lost THEN None ELSE rowLock[d]]
  /\ UNCHANGED <<documents, versions, objects, auditLog>>

Receive(r) ==
  \E p \in Processes :
    \/ \E c \in Checksums : ReceiveUpload(r, p, c)
    \/ \E d \in Requests \ {r} :
         \/ \E c \in Checksums : ReceiveVersion(r, p, d, c)
         \/ ReceiveDelete(r, p, d)

Step(r) ==
  \/ LockDocument(r) \/ CheckVersion(r) \/ InsertVersion(r)
  \/ PutObject(r)
  \/ CommitUpload(r) \/ CommitUploadFails(r) \/ Refresh(r)
  \/ Rollback(r) \/ Compensate(r) \/ RecordFailure(r)
  \/ ReadForDelete(r) \/ CommitDelete(r)

Next ==
  \/ \E r \in Requests : Receive(r) \/ Step(r) \/ StatementFails(r)
  \/ \E p \in Processes : Crash(p)

Spec == Init /\ [][Next]_vars

(* A request that has begun keeps running: MinIO and the pool time out,     *)
(* and PostgreSQL grants a row lock once its holder's transaction ends. No *)
(* statement needs to fail for that.                                       *)
FairSpec == Spec /\ \A r \in Requests : WF_vars(Step(r))

---------------------------------------------------------------------------
(* Properties.                                                             *)

\* The values the tables, the bucket and the requests range over.
TypeOK ==
  /\ documents \in [Requests -> DocumentRow]
  /\ versions \subseteq VersionRow
  /\ objects \subseteq Requests
  /\ auditLog \subseteq AuditRow
  /\ rowLock \in [Requests -> Requests \cup {None}]
  /\ request \in [Requests -> RequestState]

(* The version numbers of a document run from 1 without a gap and without  *)
(* a repetition, however its uploads interleave, fail or crash.            *)
VersionNumbersContiguous ==
  /\ \A v, w \in versions :
       v.document_id = w.document_id /\ v.version_number = w.version_number
         => v = w
  /\ \A v \in versions :
       v.version_number = 1 \/ v.version_number - 1 \in NumbersOf(v.document_id)

(* Every committed document is ACTIVE and links its latest version: a      *)
(* reader never finds the PROCESSING row of upload, nor an older file.     *)
CurrentIsLatest ==
  \A d \in Requests : Exists(d) =>
    /\ documents[d].status = "ACTIVE"
    /\ \E v \in CurrentVersions(d) :
         \A w \in VersionsOf(d) : w.version_number <= v.version_number

(* Two successive versions of a document never have the same content: the  *)
(* duplicate check (service.py:78) holds against the version that precedes *)
(* the new one in the committed history.                                   *)
NoRepeatedContent ==
  \A v, w \in versions :
    v.document_id = w.document_id /\ w.version_number = v.version_number + 1
      => v.checksum # w.checksum

\* No request ends in the version number conflict of service.py:97.
NoVersionConflict == \A r \in Requests : request[r].error # "conflict"

WaitsForRow(r) ==
  /\ request[r].pc = "lock" \/ (request[r].pc = "commit" /\ request[r].op = "delete")
  /\ ~Unlocked(request[r].document)
Runs(r) == request[r].pc \notin {"idle", "done"}
CanGoOn(r) ==
  Runs(r) /\ ~WaitsForRow(r) /\ ~(request[r].pc = "insert" /\ NumberTaken(r))

(* The requests of a document queue at its row lock and nowhere else: the  *)
(* unique index refuses nobody and keeps nobody waiting, and whoever holds *)
(* the lock waits for nobody, so no circle of waits can form.              *)
RowLockIsTheOnlyQueue ==
  /\ NoVersionConflict
  /\ \A r \in Requests : Runs(r) =>
       CanGoOn(r) \/ (WaitsForRow(r) /\ CanGoOn(rowLock[request[r].document]))

(* An upload that was answered 201 is in the history and its file is in    *)
(* the bucket, and stays there whatever fails later.                       *)
AckedVersionDownloadable ==
  \A r \in Requests :
    request[r].op \in UploadOps /\ request[r].pc = "done" /\ request[r].error = None
      => r \in objects /\ \E v \in versions : v.id = r

(* The audit log tells the truth about successes: a success row exists for *)
(* exactly the requests whose version or deletion is committed.            *)
SuccessAuditMatchesHistory ==
  LET audited == {a.request : a \in {b \in auditLog : b.result = "success"}}
      deletes == {r \in Requests : request[r].op = "delete"}
  IN /\ audited \ deletes = {v.id : v \in versions}
     /\ \A d \in Requests : Deleted(d) <=>
          \E r \in audited \cap deletes : request[r].document = d

(* "The MinIO objects of past versions are neither overwritten nor deleted" *)
(* (README.md:485): the object of every committed version is in the bucket. *)
CommittedObjectsKept == \A v \in versions : v.id \in objects

(* An upload that ended, unless its process stopped, is all or nothing: its *)
(* object is in the bucket if and only if its version row is committed, so *)
(* the compensation removes every object it must and no other.             *)
UploadIsAllOrNothing ==
  \A r \in Requests :
    request[r].op \in UploadOps /\ request[r].pc = "done" /\ request[r].error # "lost"
      => (r \in objects <=> \E v \in versions : v.id = r)

(* A logically deleted document is frozen: it stays deleted and neither    *)
(* its link nor its history changes, even by an upload that was already    *)
(* running when it was deleted.                                            *)
DeletedFrozen ==
  [][\A d \in Requests : Deleted(d) =>
       /\ Deleted(d)'
       /\ documents'[d].current_version_id = documents[d].current_version_id
       /\ VersionsOf(d)' = VersionsOf(d)]_vars

(* A deletion is final and happens once: deleted_at, once set, is never    *)
(* written again (service.py:195 refuses a second deletion).               *)
DeletedOnce ==
  [][\A d \in Requests : Deleted(d) =>
       documents'[d].deleted_at = documents[d].deleted_at]_vars

(* Every request that begins ends: no row lock is left behind, and no wait *)
(* for one is endless.                                                     *)
EveryRequestEnds ==
  \A r \in Requests : request[r].pc # "idle" ~> request[r].pc = "done"
===========================================================================
