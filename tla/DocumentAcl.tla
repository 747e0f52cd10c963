---------------------------- MODULE DocumentAcl ----------------------------
(***************************************************************************)
(* Sharing one document: DocumentService.grant_acl and revoke_acl, run by  *)
(* concurrent requests (each in a thread of the pool, with a READ          *)
(* COMMITTED transaction of its own) while administrators deactivate users *)
(* and departments and the document is deleted.                            *)
(*                                                                         *)
(* grant_acl looks every permission up and inserts the missing ones; only  *)
(* the partial unique indexes of document_acl_entries keep two requests    *)
(* from inserting the same one. An insert waits for an open transaction    *)
(* that wrote the same key, so two grants may wait for each other, and     *)
(* PostgreSQL then aborts one of them.                                     *)
(*                                                                         *)
(* A request mints the uuid4 ids of its rows, one per permission at most:  *)
(* the row with id <<r, p>> is the one request r inserts for permission p. *)
(***************************************************************************)
EXTENDS Sequences, DocumentAccess

CONSTANTS
  Requests,        \* HTTP requests of a behaviour, each served at most once
  Users,           \* rows of table users
  Departments,     \* rows of table departments
  Owner,           \* owner of the document
  Role,            \* role of each user
  DepartmentOf,    \* department_id of each user, None if NULL
  Payloads,        \* <<principal, deduplicated permissions>> of grants
  Volatile,        \* users and departments administrators (de)activate
  Faults           \* the failures that may happen, a subset of FaultKinds

FaultKinds ==
  { "statement",       \* a statement before the commit fails
    "commit",          \* commit fails and PostgreSQL applies nothing
    "commit_unknown",  \* an error after PostgreSQL committed
    "audit" }          \* the commit of the failure audit row fails

Errors == {"refused", "database"}

ASSUME AclAssumption ==
  /\ Users \cap Departments = {}
  /\ Owner \in Users
  /\ Role \in [Users -> UserRoles]
  /\ DepartmentOf \in [Users -> Departments \cup {None}]
  /\ None \notin Requests \cup Users \cup Departments
  /\ None \notin {"grant", "revoke"} \cup Errors
  /\ Payloads \subseteq (Users \cup Departments) \X Seq(Permissions)
  /\ Volatile \subseteq Users \cup Departments
  /\ Faults \subseteq FaultKinds

VARIABLES
  entries,  \* committed rows of document_acl_entries
  auditLog, \* committed audit rows of the two operations
  active,   \* users and departments with is_active
  deleted,  \* is_deleted of the document
  request   \* local state of each request

vars == <<entries, auditLog, active, deleted, request>>

Principals == Users \cup Departments
Entry == [id : Requests \X Permissions, document_id : {"doc"},
          principal : Principals, permission : Permissions]
AuditRow == [request : Requests, actor : Users, result : {"success", "failed"},
             entries : SUBSET Entry]
Steps == {"idle", "permissions", "principal", "find", "insert",
          "entry", "delete", "commit", "rollback", "record", "done"}
RequestState ==
  [op : {"grant", "revoke", None}, pc : Steps, actor : Users \cup {None},
   principal : Principals \cup {None}, permissions : Seq(Permissions),
   todo : Seq(Permissions), entry : SUBSET Entry, written : SUBSET Entry,
   error : Errors \cup {None}]
NoRequest ==
  [op |-> None, pc |-> "idle", actor |-> None, principal |-> None,
   permissions |-> <<>>, todo |-> <<>>, entry |-> {}, written |-> {}, error |-> None]

User(u) == [id |-> u, role |-> Role[u], department_id |-> DepartmentOf[u],
            is_active |-> u \in active]
Document == [id |-> "doc", owner_id |-> Owner, department_id |-> DepartmentOf[Owner],
             is_deleted |-> deleted]
Granted(u) == GrantedPermissions(User(u), Document, entries, active)

---------------------------------------------------------------------------
SameKey(e, f) == e.principal = f.principal /\ e.permission = f.permission

\* A row with neither user_id nor department_id.
NewEntry_NoPrincipal(r) ==
  [id |-> <<r, Head(request[r].todo)>>, document_id |-> "doc",
   principal |-> None, permission |-> Head(request[r].todo)]
NewEntry(r) ==
  [id |-> <<r, Head(request[r].todo)>>, document_id |-> "doc",
   principal |-> request[r].principal, permission |-> Head(request[r].todo)]

(* PostgreSQL makes a writer of a key wait for the open transaction that   *)
(* inserted a row with that key or deletes the row itself.                 *)
WaitsFor(r, s) ==
  /\ r # s
  /\ \/ /\ request[r].pc = "insert"
        /\ \E e \in request[s].written : SameKey(e, NewEntry(r))
     \/ /\ request[r].pc = "delete"
        /\ request[r].entry \cap request[s].written # {}
Waiting(r) == \E s \in Requests : WaitsFor(r, s)
Deadlocked(r) ==
  \E C \in SUBSET Requests :
    /\ r \in C
    /\ \A s \in C : /\ \E t \in C : WaitsFor(s, t)
                    /\ \E t \in C : WaitsFor(t, s)

Goto(r, step) == request' = [request EXCEPT ![r].pc = step]
Ended(r, e) ==
  [NoRequest EXCEPT !.op = request[r].op, !.principal = request[r].principal,
                    !.permissions = request[r].permissions, !.pc = "done", !.error = e]
\* A session that is not closed at the end of the request.
End_LeavesOpen(r, e) ==
  request' = [request EXCEPT ![r].pc = "done", ![r].error = e]
\* get_db closes the session of a request, which rolls its transaction back.
End(r, e) == request' = [request EXCEPT ![r] = Ended(r, e)]
(* An exception: grant_acl handles it, revoke_acl leaves it to get_db.      *)
Raise(r) ==
  IF request[r].op = "grant"
  THEN Goto(r, "rollback")
  ELSE End(r, "database")
RaiseAfterCommit(r) ==
  IF request[r].op = "grant"
  THEN request' = [request EXCEPT ![r].pc = "rollback", ![r].written = {}]
  ELSE End(r, "database")

---------------------------------------------------------------------------
Init ==
  /\ entries = {}
  /\ auditLog = {}
  /\ active = Principals
  /\ deleted = FALSE
  /\ request = [r \in Requests |-> NoRequest]

(* get_current_user lets active users in, and _document_for_permission      *)
(* refuses a deleted document to everybody: the requests that are turned   *)
(* away here have no effect. The payload is whatever a client sends, for a *)
(* revoke an entry that was once listed.                                   *)
Receives(r, u) == request[r].pc = "idle" /\ u \in active /\ ~deleted
\* A grant that starts without the check of its actor.
ReceiveGrant_Unchecked(r, u, p, permissions) ==
  /\ Receives(r, u)
  /\ request' = [request EXCEPT ![r] =
       [NoRequest EXCEPT !.op = "grant", !.pc = "principal", !.actor = u,
                         !.principal = p, !.permissions = permissions,
                         !.todo = permissions]]
  /\ UNCHANGED <<entries, auditLog, active, deleted>>
ReceiveGrant(r, u, p, permissions) ==
  /\ Receives(r, u)
  /\ request' = [request EXCEPT ![r] =
       [NoRequest EXCEPT !.op = "grant", !.pc = "permissions", !.actor = u,
                         !.principal = p, !.permissions = permissions,
                         !.todo = permissions]]
  /\ UNCHANGED <<entries, auditLog, active, deleted>>
ReceiveRevoke(r, u, e) ==
  /\ Receives(r, u)
  /\ request' = [request EXCEPT ![r] =
       [NoRequest EXCEPT !.op = "revoke", !.pc = "permissions", !.actor = u, !.entry = {e}]]
  /\ UNCHANGED <<entries, auditLog, active, deleted>>

(* The rule, over the rows that were read: the actor and the document as   *)
(* they were on arrival, whatever happens to them later, and the ACL rows  *)
(* of a query of its own.                                                  *)
CheckManageAcl(r) ==
  LET u == request[r].actor
      actor == [User(u) EXCEPT !.is_active = TRUE]
      document == [Document EXCEPT !.is_deleted = FALSE]
  IN
  /\ request[r].pc = "permissions"
  /\ IF "MANAGE_ACL" \in EffectivePermissions(actor, document, Granted(u))
     THEN Goto(r, IF request[r].op = "grant" THEN "principal" ELSE "entry")
     ELSE End(r, "refused")
  /\ UNCHANGED <<entries, auditLog, active, deleted>>

\* Active principals only, and never the owner.
FindPrincipal(r) ==
  LET p == request[r].principal IN
  /\ request[r].pc = "principal"
  /\ IF p \in active /\ p # Owner THEN Goto(r, "find") ELSE End(r, "refused")
  /\ UNCHANGED <<entries, auditLog, active, deleted>>

\* find_acl_entry without the condition on the permission.
FoundEntry_AnyPermission(r) ==
  \E e \in entries \cup request[r].written : e.principal = request[r].principal
(* find_acl_entry: what is committed and what this transaction wrote.      *)
FoundEntry(r) ==
  \E e \in entries \cup request[r].written : SameKey(e, NewEntry(r))

(* The head of the loop over the permissions, and its end.                 *)
FindEntry(r) ==
  /\ request[r].pc = "find"
  /\ IF request[r].todo = <<>> THEN Goto(r, "commit")
     ELSE IF FoundEntry(r)
     THEN request' = [request EXCEPT ![r].todo = Tail(@)]
     ELSE Goto(r, "insert")
  /\ UNCHANGED <<entries, auditLog, active, deleted>>

\* A table without the unique indexes.
InsertEntry_NoUniqueIndex(r) ==
  /\ request[r].pc = "insert"
  /\ request' = [request EXCEPT ![r].pc = "find", ![r].todo = Tail(@),
                                ![r].written = @ \cup {NewEntry(r)}]
  /\ UNCHANGED <<entries, auditLog, active, deleted>>
(* The flush: a key that was committed since the lookup is an              *)
(* IntegrityError.                                                         *)
InsertEntry(r) ==
  /\ request[r].pc = "insert" /\ ~Waiting(r)
  /\ IF \E e \in entries : SameKey(e, NewEntry(r))
     THEN Raise(r)
     ELSE request' = [request EXCEPT ![r].pc = "find", ![r].todo = Tail(@),
                                     ![r].written = @ \cup {NewEntry(r)}]
  /\ UNCHANGED <<entries, auditLog, active, deleted>>

\* PostgreSQL cancels a transaction of a cycle of waiting ones.
DeadlockDetected(r) ==
  /\ Deadlocked(r)
  /\ Raise(r)
  /\ UNCHANGED <<entries, auditLog, active, deleted>>

FindRevoked(r) ==
  /\ request[r].pc = "entry"
  /\ IF request[r].entry \subseteq entries THEN Goto(r, "delete")
                                           ELSE End(r, "refused")
  /\ UNCHANGED <<entries, auditLog, active, deleted>>

(* The DELETE waits for another one of the same row. Finding the row gone  *)
(* is no error to SQLAlchemy, which only warns.                            *)
DeleteEntry(r) ==
  /\ request[r].pc = "delete" /\ ~Waiting(r)
  /\ request' = [request EXCEPT ![r].pc = "commit",
                                ![r].written = request[r].entry \cap entries]
  /\ UNCHANGED <<entries, auditLog, active, deleted>>

StatementFails(r) ==
  /\ "statement" \in Faults
  /\ \/ request[r].pc \in {"permissions", "principal", "entry"} /\ End(r, "database")
     \/ request[r].pc \in {"find", "insert", "delete"} /\ Raise(r)
  /\ UNCHANGED <<entries, auditLog, active, deleted>>

\* The success row names the inserted entries, or the entry to revoke.
Success(r) ==
  [request |-> r, actor |-> request[r].actor, result |-> "success",
   entries |-> IF request[r].op = "grant" THEN request[r].written ELSE request[r].entry]

WriteEntries(r) ==
  entries' = IF request[r].op = "grant" THEN entries \cup request[r].written
                                        ELSE entries \ request[r].written
\* A commit whose audit row is written by a transaction of its own.
Commit_AuditsLater(r) ==
  /\ request[r].pc = "commit"
  /\ WriteEntries(r)
  /\ \/ auditLog' = auditLog \cup {Success(r)} /\ End(r, None)
     \/ "commit_unknown" \in Faults /\ auditLog' = auditLog /\ RaiseAfterCommit(r)
  /\ UNCHANGED <<active, deleted>>
(* After the commit grant_acl lists the entries for its answer, outside    *)
(* the try block.                                                          *)
Commit(r) ==
  /\ request[r].pc = "commit"
  /\ WriteEntries(r)
  /\ auditLog' = auditLog \cup {Success(r)}
  /\ \/ End(r, None)
     \/ "commit_unknown" \in Faults /\ RaiseAfterCommit(r)
     \/ "statement" \in Faults /\ request[r].op = "grant" /\ End(r, "database")
  /\ UNCHANGED <<active, deleted>>
CommitFails(r) ==
  /\ "commit" \in Faults
  /\ request[r].pc = "commit"
  /\ Raise(r)
  /\ UNCHANGED <<entries, auditLog, active, deleted>>

Rollback(r) ==
  /\ request[r].pc = "rollback"
  /\ request' = [request EXCEPT ![r].pc = "record", ![r].written = {}]
  /\ UNCHANGED <<entries, auditLog, active, deleted>>
Failure(r) ==
  [request |-> r, actor |-> request[r].actor, result |-> "failed", entries |-> {}]
RecordFailure(r) ==
  /\ request[r].pc = "record"
  /\ \/ auditLog' = auditLog \cup {Failure(r)}
     \/ "audit" \in Faults /\ UNCHANGED auditLog
  /\ End(r, "database")
  /\ UNCHANGED <<entries, active, deleted>>

(* The other services: update_user and update_department set is_active,    *)
(* delete marks the document.                                              *)
ToggleActive(p) ==
  /\ active' = IF p \in active THEN active \ {p} ELSE active \cup {p}
  /\ UNCHANGED <<entries, auditLog, deleted, request>>
DeleteDocument ==
  /\ ~deleted
  /\ deleted' = TRUE
  /\ UNCHANGED <<entries, auditLog, active, request>>

Receive(r) ==
  \E u \in Users :
    \/ \E payload \in Payloads : ReceiveGrant(r, u, payload[1], payload[2])
    \/ \E a \in auditLog : \E e \in a.entries : ReceiveRevoke(r, u, e)
Step(r) ==
  \/ CheckManageAcl(r) \/ FindPrincipal(r)
  \/ FindEntry(r) \/ InsertEntry(r) \/ DeadlockDetected(r)
  \/ FindRevoked(r) \/ DeleteEntry(r)
  \/ Commit(r) \/ CommitFails(r) \/ Rollback(r) \/ RecordFailure(r)
Next ==
  \/ \E r \in Requests : Receive(r) \/ Step(r) \/ StatementFails(r)
  \/ \E p \in Volatile : ToggleActive(p)
  \/ DeleteDocument

Spec == Init /\ [][Next]_vars

---------------------------------------------------------------------------
(* Properties.                                                             *)

\* The values the tables and the requests range over.
TypeOK ==
  /\ entries \subseteq Entry
  /\ auditLog \subseteq AuditRow
  /\ active \subseteq Principals
  /\ deleted \in BOOLEAN
  /\ request \in [Requests -> RequestState]

(* A principal has a permission at most once (README.md, "data model and   *)
(* integrity"), although grants look it up and insert it in two steps.     *)
NoDuplicateEntries ==
  \A e, f \in entries : SameKey(e, f) => e = f

\* The entries that the successful requests of one kind inserted or removed.
Audited(op) ==
  UNION {a.entries : a \in {b \in auditLog : b.result = "success" /\ request[b.request].op = op}}

(* The audit log explains the ACL: the table is what the successful grants *)
(* inserted without what the successful revokes name.                      *)
AuditReplaysAcl == entries = Audited("grant") \ Audited("revoke")

(* A grant that was answered 201 is in effect: each of its permissions is  *)
(* in the table, whoever inserted it, or was revoked by somebody.          *)
AckedGrantInEffect ==
  \A r \in Requests :
    request[r].op = "grant" /\ request[r].pc = "done" /\ request[r].error = None =>
      \A i \in DOMAIN request[r].permissions :
        LET Key(e) == /\ e.principal = request[r].principal
                      /\ e.permission = request[r].permissions[i]
        IN \/ \E e \in entries : Key(e)
           \/ \E e \in Audited("revoke") : Key(e)

ByOffice(u) == Role[u] = "SYSTEM_ADMIN" \/ u = Owner
Successes == {a \in auditLog : a.result = "success"}
\* The grant of audit row b gives user u the right to share.
Empowers(b, u) ==
  /\ request[b.request].op = "grant"
  /\ \E e \in b.entries : /\ e.permission = "MANAGE_ACL"
                         /\ e.principal \in {u, DepartmentOf[u]}

(* Every change of the ACL was made by the owner or a SYSTEM_ADMIN, or by  *)
(* somebody whom an earlier recorded grant empowered, and these grants     *)
(* lead back to the owner or a SYSTEM_ADMIN: rows that only empower each   *)
(* other do not exist. The right that a request has read may be revoked    *)
(* before it is used (service.py:297), but it was once given.              *)
AuthorityIsGranted ==
  \A S \in SUBSET Successes : S # {} =>
    \E a \in S : ByOffice(a.actor) \/ \E b \in Successes \ S : Empowers(b, a.actor)

(* A document is in a user's list if and only if the user can open its     *)
(* metadata, and so for each permission: the SQL predicate of the lists    *)
(* and the rule of the single requests agree.                              *)
ListMatchesCheck ==
  \A u \in Users, p \in Permissions :
    AccessPredicate(User(u), Document, entries, active, p)
      <=> HasDocumentPermission(User(u), Document, Granted(u), p)

\* A request that runs, and one that no other keeps waiting or PostgreSQL frees.
Runs(r) == request[r].pc \notin {"idle", "done"}
CanGoOn(r) == Runs(r) /\ (~Waiting(r) \/ Deadlocked(r))
SomebodyCanGoOn == (\E r \in Requests : Runs(r)) => \E r \in Requests : CanGoOn(r)

(* Nobody waits for good: while a request is running, some running request *)
(* can go on, although grants may wait for each other in a circle and a    *)
(* writer waits for transactions that fail. Each request has finitely many *)
(* steps, so all of them end.                                              *)
NoStandstill == SomebodyCanGoOn /\ \A r \in Requests : CanGoOn(r) <=> ENABLED Step(r)
===========================================================================
