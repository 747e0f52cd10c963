--------------------------- MODULE Administration ---------------------------
(***************************************************************************)
(* UserService and DepartmentService: create_user, update_user,            *)
(* create_department and update_department, run by concurrent requests of  *)
(* administrators, and the script create_admin.                            *)
(*                                                                         *)
(* A request is a READ COMMITTED transaction without row locks. It reads   *)
(* its target once, decides on that copy and on counts and lookups of      *)
(* later moments, and the commit writes the columns that differ from the   *)
(* copy. The flush of the rows and the commit are one step here: nothing   *)
(* reads between them, other transactions do not see the rows, and waiting *)
(* for a lock only delays the flush.                                       *)
(*                                                                         *)
(* Left out are the columns no rule depends on: the names of users,        *)
(* passwords, descriptions and times.                                      *)
(***************************************************************************)
EXTENDS Naturals, FiniteSets, Sequences

CONSTANTS
  Requests,            \* requests and script runs, numbered as their transactions start
  InitialUsers,        \* rows of users that exist, by id
  InitialDepartments,  \* rows of departments that exist, by id
  Payloads,            \* what clients may submit: an operation and its fields
  Canonical,           \* stripped and, for e-mail addresses, lower-case spelling
  None

UserRoles == {"SYSTEM_ADMIN", "DOCUMENT_ADMIN", "DEPARTMENT_MANAGER", "USER"}

\* A request mints the uuid4 of the row it creates: the id of the row is r.
UserIds == DOMAIN InitialUsers \cup Requests
DepartmentIds == DOMAIN InitialDepartments \cup Requests
Keys == {Canonical[k] : k \in DOMAIN Canonical}

UserRow == [email : Keys, role : UserRoles,
            department_id : DepartmentIds \cup {None}, is_active : BOOLEAN]
DepartmentRow == [name : Keys, parent_id : DepartmentIds \cup {None}, is_active : BOOLEAN]

CreateUser == {"create_user", "create_admin"}
UserOps == CreateUser \cup {"update_user"}
DepartmentOps == {"create_department", "update_department"}
Creates == CreateUser \cup {"create_department"}

(* The fields of a submission that is not refused for its form; an absent  *)
(* field is None in the payload of the code.                               *)
Fields ==
  [create_user |-> {"email", "role", "department_id"}, create_admin |-> {"email"},
   update_user |-> {"role", "department_id", "is_active"},
   create_department |-> {"name", "parent_id"},
   update_department |-> {"name", "parent_id", "is_active"}]
Required == [create_user |-> {"email", "role"}, create_admin |-> {"email"}, update_user |-> {},
             create_department |-> {"name"}, update_department |-> {}]

ASSUME PayloadAssumption ==
  \A p \in Payloads :
    /\ p.op \in UserOps \cup DepartmentOps
    /\ Required[p.op] \subseteq DOMAIN p.fields /\ DOMAIN p.fields \subseteq Fields[p.op]
    /\ \A f \in DOMAIN p.fields :
         /\ f \in {"email", "name"} => p.fields[f] \in DOMAIN Canonical
         /\ f = "role" => p.fields[f] \in UserRoles
         /\ f = "is_active" => p.fields[f] \in BOOLEAN

ASSUME AdministrationAssumption ==
  /\ IsFiniteSet(UserIds) /\ Requests \subseteq Nat
  /\ Requests \cap (DOMAIN InitialUsers \cup DOMAIN InitialDepartments) = {}
  /\ DOMAIN InitialUsers \cap DOMAIN InitialDepartments = {}
  /\ \A k \in DOMAIN Canonical : Canonical[k] \in DOMAIN Canonical
                              /\ Canonical[Canonical[k]] = Canonical[k]
  /\ None \notin UserIds \cup DepartmentIds /\ None \notin Keys /\ None \notin UserRow \cup DepartmentRow
  /\ \A u \in DOMAIN InitialUsers : InitialUsers[u] \in UserRow
  /\ \A u, v \in DOMAIN InitialUsers : InitialUsers[u].email = InitialUsers[v].email => u = v
  /\ \A d \in DOMAIN InitialDepartments : InitialDepartments[d] \in DepartmentRow
  /\ \A d, e \in DOMAIN InitialDepartments :
       InitialDepartments[d].name = InitialDepartments[e].name => d = e
  /\ \E u \in DOMAIN InitialUsers :
       InitialUsers[u].role = "SYSTEM_ADMIN" /\ InitialUsers[u].is_active

VARIABLES
  users,        \* committed rows of users by id, None where there is none
  departments,  \* committed rows of departments
  auditLog,     \* committed audit rows, listed as they were committed
  request       \* local state of each request

vars == <<users, departments, auditLog, request>>

NoRequest == [op |-> None, pc |-> "idle", target |-> None, payload |-> None,
              row |-> None, stale |-> FALSE]

ActiveSystemAdmins ==
  {u \in UserIds : users[u] # None /\ users[u].role = "SYSTEM_ADMIN" /\ users[u].is_active}

Running(r) == request[r].pc \notin {"idle", "done"}
Goto(r, step) == request' = [request EXCEPT ![r].pc = step]
Done(r) == [NoRequest EXCEPT !.pc = "done"]
(* The request ends without a commit: get_db rolls back.                   *)
End(r) == request' = [request EXCEPT ![r] = Done(r)] /\ UNCHANGED <<users, departments, auditLog>>
Continue(r, step) == Goto(r, step) /\ UNCHANGED <<users, departments, auditLog>>

---------------------------------------------------------------------------
(* What the request submits, and what it makes of it.                      *)

Given(r, f) == IF f \in DOMAIN request[r].payload THEN request[r].payload[f] ELSE None

\* A key stored as the client spelled it.
Submitted_AsSpelled(r) == request[r].payload
(* E-mail addresses and names are stored and looked up in one spelling.    *)
Submitted(r) ==
  [f \in DOMAIN request[r].payload |->
     IF f \in {"email", "name"} THEN Canonical[request[r].payload[f]]
                                ELSE request[r].payload[f]]

(* The department of a user, or the parent of a department.                *)
Reference(r) == IF request[r].op \in UserOps THEN Given(r, "department_id")
                                             ELSE Given(r, "parent_id")

(* The unique indexes: another row has the submitted key.                  *)
KeyTaken(r) ==
  IF request[r].op \in CreateUser
  THEN \E u \in UserIds : users[u] # None /\ users[u].email = Submitted(r).email
  ELSE \E d \in DepartmentIds \ {request[r].target} :
         departments[d] # None /\ departments[d].name = Submitted(r).name

\* The ORM object of the target after the assignments.
Assigned(r) ==
  [f \in DOMAIN request[r].row |->
     IF f \in DOMAIN request[r].payload THEN Submitted(r)[f] ELSE request[r].row[f]]
\* The columns of the UPDATE: those that differ from what was read.
Dirty(r) == {f \in DOMAIN request[r].payload : Submitted(r)[f] # request[r].row[f]}

\* An UPDATE of every column, with the values that were read for the others.
Updated_AllColumns(r, row) == Assigned(r)
Updated(r, row) == [f \in DOMAIN row |-> IF f \in Dirty(r) THEN Assigned(r)[f] ELSE row[f]]

(* _ensure_not_last_admin, called for a new role and, with that role       *)
(* already assigned, for a new is_active.                                  *)
RemovesAdmin(r) ==
  LET before == request[r].row
      after == Assigned(r)
  IN \/ before.role = "SYSTEM_ADMIN" /\ after.role # "SYSTEM_ADMIN"
     \/ after.role = "SYSTEM_ADMIN" /\ before.is_active /\ ~after.is_active

\* A column without its default.
NewUser_NoDefault(r) ==
  [email |-> Submitted(r).email,
   role |-> IF request[r].op = "create_admin" THEN "SYSTEM_ADMIN" ELSE Submitted(r).role,
   department_id |-> Given(r, "department_id")]
NewUser(r) ==
  [email |-> Submitted(r).email,
   role |-> IF request[r].op = "create_admin" THEN "SYSTEM_ADMIN" ELSE Submitted(r).role,
   department_id |-> Given(r, "department_id"), is_active |-> TRUE]
NewDepartment(r) ==
  [name |-> Submitted(r).name, parent_id |-> Given(r, "parent_id"), is_active |-> TRUE]

---------------------------------------------------------------------------
(* The audit rows: new values of the fields they name. The ids of the rows *)
(* are random and created_at is now(), the start of their transaction and  *)
(* not its commit: it is the number of the request. The place of a row in  *)
(* auditLog is an observation of the properties; no column holds it.       *)

AuditRow(r, action, fields) ==
  [created_at |-> r, action |-> action, target |-> request[r].target,
   details |-> [f \in fields |-> Submitted(r)[f]]]
UserAuditRows(r) ==
  IF request[r].op = "create_admin" THEN <<>>
  ELSE IF request[r].op = "create_user" THEN <<AuditRow(r, "USER_CREATE", {"email", "role"})>>
  ELSE (IF "role" \in Dirty(r)
        THEN <<AuditRow(r, "USER_ROLE_CHANGE", Dirty(r) \ {"is_active"})>> ELSE <<>>)
    \o (IF "is_active" \in Dirty(r)
        THEN <<AuditRow(r, IF Submitted(r).is_active THEN "USER_ACTIVATE" ELSE "USER_DEACTIVATE", {})>>
        ELSE <<>>)
    \o (IF Dirty(r) # {} THEN <<AuditRow(r, "USER_UPDATE", Dirty(r))>> ELSE <<>>)
\* A submitted name is recorded even where it is the old one.
DepartmentAuditRows(r) ==
  IF request[r].op = "create_department" THEN <<AuditRow(r, "DEPARTMENT_CREATE", {"name"})>>
  ELSE LET fields == Dirty(r) \cup (DOMAIN request[r].payload \cap {"name"})
       IN IF fields # {} THEN <<AuditRow(r, "DEPARTMENT_UPDATE", fields)>> ELSE <<>>

---------------------------------------------------------------------------
Init ==
  /\ users = [u \in UserIds |-> IF u \in DOMAIN InitialUsers THEN InitialUsers[u] ELSE None]
  /\ departments = [d \in DepartmentIds |->
       IF d \in DOMAIN InitialDepartments THEN InitialDepartments[d] ELSE None]
  /\ auditLog = <<>>
  /\ request = [r \in Requests |-> NoRequest]

Targets(r, op) ==
  IF op \in Creates THEN {r} ELSE IF op = "update_user" THEN UserIds ELSE DepartmentIds
(* The session holds the row of the actor: an administrator who updates    *)
(* himself works on the copy that authenticated him.                       *)
RowsInSession(op, t) ==
  IF op = "create_admin" THEN {None}
  ELSE {IF op = "update_user" /\ t = actor THEN users[actor] ELSE None :
          actor \in ActiveSystemAdmins}

(* require_system_admin, whose lookup of the actor starts the transaction; *)
(* requests it turns away have no effect.                                  *)
Receive(r) ==
  /\ request[r].pc = "idle" /\ \A s \in Requests : s < r => request[s].pc # "idle"
  /\ \E p \in Payloads : \E t \in Targets(r, p.op) : \E row \in RowsInSession(p.op, t) :
       request' = [request EXCEPT ![r] =
         [op |-> p.op, pc |-> IF p.op \in Creates THEN "key" ELSE "target", target |-> t,
          payload |-> p.fields, row |-> row, stale |-> FALSE]]
  /\ UNCHANGED <<users, departments, auditLog>>

(* get_by_id of the target, and the refusal of a department as its own     *)
(* parent.                                                                 *)
ReadTarget(r) ==
  LET t == request[r].target
      row == IF request[r].row # None THEN request[r].row
             ELSE IF request[r].op = "update_user" THEN users[t] ELSE departments[t]
  IN
  /\ request[r].pc = "target"
  /\ IF row = None \/ Given(r, "parent_id") = t
     THEN End(r)
     ELSE /\ request' = [request EXCEPT ![r].row = row, ![r].pc = "reference"]
          /\ UNCHANGED <<users, departments, auditLog>>

LookUpReference(r) ==
  /\ request[r].pc = "reference"
  /\ IF Reference(r) # None /\ (Reference(r) \notin DepartmentIds \/ departments[Reference(r)] = None)
     THEN End(r)
     ELSE Continue(r, CASE request[r].op = "update_user" -> "count"
                        [] request[r].op = "update_department" -> "key"
                        [] OTHER -> "commit")

(* get_by_email and get_by_name. The script ends where it finds its user.  *)
LookUpKey(r) ==
  /\ request[r].pc = "key"
  /\ IF DOMAIN request[r].payload \cap {"email", "name"} # {} /\ KeyTaken(r)
     THEN End(r)
     ELSE Continue(r, IF request[r].op \in {"create_user", "create_department"}
                      THEN "reference" ELSE "commit")

\* An off-by-one: refused only where no administrator is left to count.
CountSystemAdmins_OffByOne(r) ==
  /\ request[r].pc = "count"
  /\ IF RemovesAdmin(r) /\ Cardinality(ActiveSystemAdmins) < 1 THEN End(r)
                                                               ELSE Continue(r, "commit")
CountSystemAdmins(r) ==
  /\ request[r].pc = "count"
  /\ IF RemovesAdmin(r) /\ Cardinality(ActiveSystemAdmins) <= 1 THEN End(r)
                                                                ELSE Continue(r, "commit")

(* A commit to users makes what other running requests read stale. The     *)
(* program does not keep this; the properties need it.                     *)
EndStale(r) ==
  request' = [s \in Requests |-> IF s = r THEN Done(r)
                                 ELSE IF Running(s) THEN [request[s] EXCEPT !.stale = TRUE]
                                                    ELSE request[s]]

CommitUser(r) ==
  LET t == request[r].target IN
  /\ request[r].pc = "commit" /\ request[r].op \in UserOps
  /\ request[r].op \in CreateUser => ~KeyTaken(r)
  /\ users' = [users EXCEPT ![t] = IF request[r].op \in CreateUser THEN NewUser(r) ELSE Updated(r, @)]
  /\ auditLog' = auditLog \o UserAuditRows(r)
  /\ EndStale(r)
  /\ UNCHANGED departments

CommitDepartment(r) ==
  LET t == request[r].target IN
  /\ request[r].pc = "commit" /\ request[r].op \in DepartmentOps
  /\ request[r].op = "create_department" \/ "name" \in Dirty(r) => ~KeyTaken(r)
  /\ departments' = [departments EXCEPT ![t] =
       IF request[r].op = "create_department" THEN NewDepartment(r) ELSE Updated(r, @)]
  /\ auditLog' = auditLog \o DepartmentAuditRows(r)
  /\ request' = [request EXCEPT ![r] = Done(r)]
  /\ UNCHANGED users

(* A statement or the commit fails, on a key that was committed since the  *)
(* lookup in particular, or the process stops.                             *)
Fails(r) == Running(r) /\ End(r)

Next ==
  \E r \in Requests :
    \/ Receive(r) \/ ReadTarget(r) \/ LookUpReference(r) \/ LookUpKey(r)
    \/ CountSystemAdmins(r) \/ CommitUser(r) \/ CommitDepartment(r) \/ Fails(r)

Spec == Init /\ [][Next]_vars
---------------------------------------------------------------------------
(* Properties.                                                             *)

\* The values the tables, the log and the requests range over.
TypeOK ==
  /\ users \in [UserIds -> UserRow \cup {None}]
  /\ departments \in [DepartmentIds -> DepartmentRow \cup {None}]
  /\ \A i \in DOMAIN auditLog : auditLog[i].target \in UserIds \cup DepartmentIds
  /\ DOMAIN request = Requests
  /\ \A r \in Requests :
       /\ request[r].row \in UserRow \cup DepartmentRow \cup {None}
       /\ request[r].stale \in BOOLEAN
       /\ Running(r) => /\ request[r].op \in UserOps \cup DepartmentOps
                        /\ request[r].target \in Targets(r, request[r].op)

(* Two users never share an e-mail address and two departments never share *)
(* a name, in whatever spelling they were submitted, although each request *)
(* looks a key up before it writes it.                                     *)
UniqueKeys ==
  /\ \A u, v \in UserIds :
       users[u] # None /\ users[v] # None
         /\ Canonical[users[u].email] = Canonical[users[v].email] => u = v
  /\ \A d, e \in DepartmentIds :
       departments[d] # None /\ departments[e] # None
         /\ Canonical[departments[d].name] = Canonical[departments[e].name] => d = e

(* There is somebody who can administrate: users/service.py refuses to     *)
(* change or deactivate "the last SYSTEM_ADMIN".                           *)
AdminRemains == ActiveSystemAdmins # {}

(* Requests that do not overlap cannot remove the last administrator: the  *)
(* step that does so is the commit of a request that decided on a row or a *)
(* count another commit has changed since.                                 *)
LastAdminLostOnlyByOverlap ==
  [][AdminRemains => AdminRemains' \/ \E r \in Requests : request[r].stale /\ CommitUser(r)]_vars

\* Audit row e gives field f of t a value.
Records(e, t, f) == e.target = t /\ f \in DOMAIN e.details
\* Nothing that gives field f of t a value is dated later than row i.
LatestRecord(i, t, f) ==
  /\ Records(auditLog[i], t, f)
  /\ \A j \in DOMAIN auditLog : Records(auditLog[j], t, f) => auditLog[j].created_at <= auditLog[i].created_at
(* A transaction that started before that of row i committed a value for   *)
(* the same field after it: the two overlapped.                            *)
Overtaken(i, t, f) ==
  \E j \in DOMAIN auditLog :
    Records(auditLog[j], t, f) /\ j > i /\ auditLog[j].created_at < auditLog[i].created_at
(* The latest row on field f of t holds what the table holds, unless it    *)
(* was overtaken; a field no row is about has its initial value.           *)
Replays(table, initial, t, f) ==
  /\ \A i \in DOMAIN auditLog : LatestRecord(i, t, f) =>
       table[t][f] = auditLog[i].details[f] \/ Overtaken(i, t, f)
  /\ t \in DOMAIN initial /\ ~(\E i \in DOMAIN auditLog : Records(auditLog[i], t, f))
       => table[t][f] = initial[t][f]

(* The audit log, read by created_at, explains the role, the activity and  *)
(* the department of a user and the activity of a department, which        *)
(* switches grants on and off, and its parent: the latest row on a field   *)
(* gives its value. created_at is the start of a transaction, so the one   *)
(* exception is a change of the same field by a transaction that started   *)
(* earlier and committed later; no other overlap of requests changes a     *)
(* field behind the log's back. Nothing is said of what no row records:    *)
(* users of the script create_admin, the department a user was created     *)
(* with, the parent of a new department. Names of departments are not      *)
(* included: an update that submits the name it read records it and writes *)
(* nothing, so the log may end with a name that was changed meanwhile.     *)
AuditReplaysTables ==
  /\ \A u \in UserIds : users[u] # None =>
       \A f \in {"role", "is_active", "department_id"} : Replays(users, InitialUsers, u, f)
  /\ \A d \in DepartmentIds : departments[d] # None =>
       \A f \in {"is_active", "parent_id"} : Replays(departments, InitialDepartments, d, f)
=============================================================================
