----------------------- MODULE Administration_proofs -----------------------
(***************************************************************************)
(* Proofs about user and department administration, for any number of      *)
(* requests and rows, any submitted payloads and any spelling of keys.     *)
(***************************************************************************)
EXTENDS Administration, FiniteSetTheorems, SequenceTheorems, TLAPS

---------------------------------------------------------------------------
(* The inductive invariant.                                                *)

Steps == {"target", "reference", "key", "count", "commit"}

\* What a running request holds is one of the payloads, for a row it may have.
PayloadOK(r) ==
  Running(r) =>
    /\ \E p \in Payloads : request[r].op = p.op /\ request[r].payload = p.fields
    /\ request[r].target \in Targets(r, request[r].op)
    /\ request[r].pc \in Steps
    /\ request[r].pc = "target" => request[r].op \notin Creates
    /\ request[r].pc = "key" => request[r].op # "update_user"
    /\ request[r].pc = "count" => request[r].op = "update_user"

\* The department a user or a department refers to exists once it was looked up.
ReferenceOK(r) ==
  \/ request[r].pc = "count"
  \/ request[r].pc = "commit"
  \/ request[r].pc = "key" /\ request[r].op = "update_department"
  => Reference(r) \in DepartmentIds \cup {None}

\* The row an update works on, and that its target exists.
RowOK(r) ==
  /\ Running(r) /\ request[r].op = "update_user" =>
       IF request[r].pc = "target" /\ request[r].row = None THEN TRUE
       ELSE request[r].row \in UserRow /\ users[request[r].target] \in UserRow
  /\ Running(r) /\ request[r].op = "update_department" =>
       IF request[r].pc = "target" THEN request[r].row = None
       ELSE request[r].row \in DepartmentRow /\ departments[request[r].target] \in DepartmentRow

RequestOK(r) ==
  /\ DOMAIN request[r] = {"op", "pc", "target", "payload", "row", "stale"}
  /\ request[r].row \in UserRow \cup DepartmentRow \cup {None}
  /\ request[r].stale \in BOOLEAN
  /\ PayloadOK(r) /\ ReferenceOK(r) /\ RowOK(r)
RequestInv == DOMAIN request = Requests /\ \A r \in Requests : RequestOK(r)

TypeInv ==
  /\ users \in [UserIds -> UserRow \cup {None}]
  /\ departments \in [DepartmentIds -> DepartmentRow \cup {None}]
  /\ \E S : /\ auditLog \in Seq(S)
            /\ \A e \in S : e.target \in UserIds \cup DepartmentIds
  /\ RequestInv

\* No two rows have one key.
KeyInv ==
  /\ \A u, v \in UserIds :
       users[u] # None /\ users[v] # None /\ users[u].email = users[v].email => u = v
  /\ \A d, e \in DepartmentIds :
       departments[d] # None /\ departments[e] # None
         /\ departments[d].name = departments[e].name => d = e

\* What a request decided on still holds unless it became stale.
FreshOK(r) ==
  Running(r) /\ request[r].op = "update_user" /\ ~request[r].stale =>
    /\ request[r].row # None => request[r].row = users[request[r].target]
    /\ request[r].pc = "commit" /\ RemovesAdmin(r) => Cardinality(ActiveSystemAdmins) > 1
FreshInv == \A r \in Requests : FreshOK(r)

\* Ids are fresh: nobody has the id of a row that may still be created.
MintInv == \A r \in Requests : request[r].pc # "done" => users[r] = None

---------------------------------------------------------------------------
(* Lemmas about the operators.                                             *)

USE DEF Running

(* What a running request submits has the types of the columns.            *)
LEMMA SubmittedType ==
  ASSUME NEW r \in Requests, Running(r), PayloadOK(r)
  PROVE  /\ request[r].op \in UserOps \cup DepartmentOps
         /\ DOMAIN request[r].payload \subseteq Fields[request[r].op]
         /\ Required[request[r].op] \subseteq DOMAIN request[r].payload
         /\ DOMAIN Submitted(r) = DOMAIN request[r].payload
         /\ \A f \in DOMAIN request[r].payload :
              /\ f \in {"email", "name"} => Submitted(r)[f] \in Keys
              /\ f \notin {"email", "name"} => Submitted(r)[f] = request[r].payload[f]
              /\ f = "role" => Submitted(r)[f] \in UserRoles
              /\ f = "is_active" => Submitted(r)[f] \in BOOLEAN
<1>1. PICK p \in Payloads : request[r].op = p.op /\ request[r].payload = p.fields
  BY DEF PayloadOK
<1>2. /\ p.op \in UserOps \cup DepartmentOps
      /\ Required[p.op] \subseteq DOMAIN p.fields /\ DOMAIN p.fields \subseteq Fields[p.op]
      /\ \A f \in DOMAIN p.fields :
           /\ f \in {"email", "name"} => p.fields[f] \in DOMAIN Canonical
           /\ f = "role" => p.fields[f] \in UserRoles
           /\ f = "is_active" => p.fields[f] \in BOOLEAN
  BY PayloadAssumption
<1>3. DOMAIN Submitted(r) = DOMAIN request[r].payload
  BY DEF Submitted
<1>4. ASSUME NEW f \in DOMAIN request[r].payload
      PROVE  /\ f \in {"email", "name"} => Submitted(r)[f] \in Keys
             /\ f \notin {"email", "name"} => Submitted(r)[f] = request[r].payload[f]
             /\ f = "role" => Submitted(r)[f] \in UserRoles
             /\ f = "is_active" => Submitted(r)[f] \in BOOLEAN
  <2>1. CASE f \in {"email", "name"}
    <3>1. Submitted(r)[f] = Canonical[request[r].payload[f]]
      BY <2>1 DEF Submitted
    <3>2. request[r].payload[f] \in DOMAIN Canonical
      BY <1>1, <1>2, <2>1
    <3> QED
      BY <2>1, <3>1, <3>2 DEF Keys
  <2>2. CASE f \notin {"email", "name"}
    <3>1. Submitted(r)[f] = request[r].payload[f]
      BY <2>2 DEF Submitted
    <3> QED
      BY <1>1, <1>2, <2>2, <3>1
  <2> QED
    BY <2>1, <2>2
<1> QED
  BY <1>1, <1>2, <1>3, <1>4

(* The row of a new user.                                                  *)
LEMMA NewUserType ==
  ASSUME NEW r \in Requests, Running(r), PayloadOK(r), ReferenceOK(r),
         request[r].pc = "commit", request[r].op \in CreateUser
  PROVE  NewUser(r) \in UserRow /\ NewUser(r).email = Submitted(r).email
<1>1. "email" \in DOMAIN request[r].payload
  BY SubmittedType DEF Required, CreateUser
<1>2. Submitted(r)["email"] \in Keys
  BY <1>1, SubmittedType
<1>3. request[r].op # "create_admin" => "role" \in DOMAIN request[r].payload
  BY SubmittedType DEF Required, CreateUser
<1>4. request[r].op # "create_admin" => Submitted(r)["role"] \in UserRoles
  BY <1>3, SubmittedType
<1>5. Given(r, "department_id") \in DepartmentIds \cup {None}
  BY DEF ReferenceOK, Reference, UserOps
<1> QED
  BY <1>2, <1>4, <1>5 DEF NewUser, UserRow, UserRoles

(* The row of a new department.                                            *)
LEMMA NewDepartmentType ==
  ASSUME NEW r \in Requests, Running(r), PayloadOK(r), ReferenceOK(r),
         request[r].pc = "commit", request[r].op = "create_department"
  PROVE  NewDepartment(r) \in DepartmentRow /\ NewDepartment(r).name = Submitted(r).name
<1>1. "name" \in DOMAIN request[r].payload
  BY SubmittedType DEF Required
<1>2. Submitted(r)["name"] \in Keys
  BY <1>1, SubmittedType
<1>3. Given(r, "parent_id") \in DepartmentIds \cup {None}
  BY DEF ReferenceOK, Reference, UserOps, CreateUser
<1> QED
  BY <1>2, <1>3 DEF NewDepartment, DepartmentRow

(* An UPDATE of a user keeps the types and the e-mail address; one column  *)
(* is as submitted where that differs from what was read.                  *)
LEMMA UpdatedUser ==
  ASSUME NEW r \in Requests, Running(r), PayloadOK(r), ReferenceOK(r),
         request[r].pc = "commit", request[r].op = "update_user",
         request[r].row \in UserRow, users[request[r].target] \in UserRow
  PROVE  LET row == users[request[r].target] IN
         /\ Updated(r, row) \in UserRow
         /\ Updated(r, row).email = row.email
         /\ row = request[r].row =>
              /\ Updated(r, row).role = Assigned(r).role
              /\ Updated(r, row).is_active = Assigned(r).is_active
<1> DEFINE row == users[request[r].target]
           new == Updated(r, row)
           columns == {"email", "role", "department_id", "is_active"}
<1>1. /\ DOMAIN row = columns /\ DOMAIN request[r].row = columns
      /\ row.email \in Keys /\ row.role \in UserRoles
      /\ row.department_id \in DepartmentIds \cup {None} /\ row.is_active \in BOOLEAN
  BY DEF UserRow
<1>2. DOMAIN request[r].payload \subseteq {"role", "department_id", "is_active"}
  BY SubmittedType DEF Fields
<1>3. \A f \in columns : f \notin DOMAIN request[r].payload => new[f] = row[f]
  BY <1>1 DEF Updated, Dirty
<1>4. \A f \in columns : f \in DOMAIN request[r].payload =>
        Assigned(r)[f] = Submitted(r)[f] /\ (new[f] = Submitted(r)[f] \/ new[f] = row[f])
  BY <1>1 DEF Updated, Assigned
<1>5. \A f \in columns : row = request[r].row => new[f] = Assigned(r)[f]
  BY <1>1 DEF Updated, Assigned, Dirty
<1>6. "department_id" \in DOMAIN request[r].payload =>
        Submitted(r)["department_id"] \in DepartmentIds \cup {None}
  BY SubmittedType DEF ReferenceOK, Reference, Given, UserOps
<1>7. new["email"] = row["email"]
  BY <1>2, <1>3
<1>8. new["role"] \in UserRoles
  BY <1>1, <1>3, <1>4, SubmittedType
<1>9. new["is_active"] \in BOOLEAN
  BY <1>1, <1>3, <1>4, SubmittedType
<1>10. new["department_id"] \in DepartmentIds \cup {None}
  BY <1>1, <1>3, <1>4, <1>6
<1>11. new = [email |-> new["email"], role |-> new["role"],
              department_id |-> new["department_id"], is_active |-> new["is_active"]]
  BY <1>1 DEF Updated
<1>12. new \in UserRow
  BY <1>1, <1>7, <1>8, <1>9, <1>10, <1>11 DEF UserRow
<1> QED
  BY <1>5, <1>7, <1>12

(* The same for departments.                                               *)
LEMMA UpdatedDepartment ==
  ASSUME NEW r \in Requests, Running(r), PayloadOK(r), ReferenceOK(r),
         request[r].pc = "commit", request[r].op = "update_department",
         request[r].row \in DepartmentRow, departments[request[r].target] \in DepartmentRow
  PROVE  LET row == departments[request[r].target] IN
         /\ Updated(r, row) \in DepartmentRow
         /\ "name" \in Dirty(r) => Updated(r, row).name = Submitted(r).name
         /\ "name" \notin Dirty(r) => Updated(r, row).name = row.name
<1> DEFINE row == departments[request[r].target]
           new == Updated(r, row)
           columns == {"name", "parent_id", "is_active"}
<1>1. /\ DOMAIN row = columns /\ DOMAIN request[r].row = columns
      /\ row.name \in Keys /\ row.parent_id \in DepartmentIds \cup {None}
      /\ row.is_active \in BOOLEAN
  BY DEF DepartmentRow
<1>2. \A f \in columns : f \notin Dirty(r) => new[f] = row[f]
  BY <1>1 DEF Updated
<1>3. \A f \in columns : f \in Dirty(r) =>
        f \in DOMAIN request[r].payload /\ new[f] = Submitted(r)[f]
  BY <1>1 DEF Updated, Assigned, Dirty
<1>4. "parent_id" \in DOMAIN request[r].payload =>
        Submitted(r)["parent_id"] \in DepartmentIds \cup {None}
  BY SubmittedType DEF ReferenceOK, Reference, Given, UserOps, CreateUser
<1>5. new["name"] \in Keys
  BY <1>1, <1>2, <1>3, SubmittedType
<1>6. new["parent_id"] \in DepartmentIds \cup {None}
  BY <1>1, <1>2, <1>3, <1>4
<1>7. new["is_active"] \in BOOLEAN
  BY <1>1, <1>2, <1>3, SubmittedType
<1>8. new = [name |-> new["name"], parent_id |-> new["parent_id"], is_active |-> new["is_active"]]
  BY <1>1 DEF Updated
<1>9. new \in DepartmentRow
  BY <1>5, <1>6, <1>7, <1>8 DEF DepartmentRow
<1> QED
  BY <1>2, <1>3, <1>9
---------------------------------------------------------------------------
(* Preservation of the types.                                              *)

LEMMA InitInv == Init => TypeInv /\ KeyInv /\ FreshInv /\ MintInv
<1> SUFFICES ASSUME Init PROVE TypeInv /\ KeyInv /\ FreshInv /\ MintInv
  OBVIOUS
<1>1. \A r \in Requests : request[r] = NoRequest
  BY DEF Init
<1>2. RequestInv
  BY <1>1 DEF Init, RequestInv, RequestOK, PayloadOK, ReferenceOK, RowOK, NoRequest
<1>3. users \in [UserIds -> UserRow \cup {None}]
  BY AdministrationAssumption DEF Init, UserIds
<1>4. departments \in [DepartmentIds -> DepartmentRow \cup {None}]
  BY AdministrationAssumption DEF Init, DepartmentIds
<1>5. auditLog \in Seq({})
  BY DEF Init
<1>6. KeyInv
  BY AdministrationAssumption DEF Init, KeyInv
<1>7. FreshInv
  BY <1>1 DEF FreshInv, FreshOK, NoRequest
<1>8. MintInv
  BY AdministrationAssumption DEF Init, MintInv, UserIds
<1>9. TypeInv
  BY <1>2, <1>3, <1>4, <1>5 DEF TypeInv
<1> QED
  BY <1>6, <1>7, <1>8, <1>9

(* What is known of a request stays true while others commit.              *)
LEMMA OtherRequest ==
  ASSUME NEW s \in Requests, RequestOK(s),
         request'[s].op = request[s].op, request'[s].pc = request[s].pc,
         request'[s].target = request[s].target, request'[s].payload = request[s].payload,
         request'[s].row = request[s].row, request'[s].stale \in BOOLEAN,
         DOMAIN request'[s] = DOMAIN request[s],
         \A u \in UserIds : users[u] \in UserRow => users'[u] \in UserRow,
         \A d \in DepartmentIds : departments[d] \in DepartmentRow => departments'[d] \in DepartmentRow
  PROVE  RequestOK(s)'
<1>1. PayloadOK(s)'
  BY DEF RequestOK, PayloadOK, Targets
<1>2. ReferenceOK(s)'
  BY DEF RequestOK, ReferenceOK, Reference, Given
<1>3. RowOK(s)'
  <2>1. Running(s) => request[s].target \in Targets(s, request[s].op)
    BY DEF RequestOK, PayloadOK
  <2>2. Running(s) /\ request[s].op = "update_user" => request[s].target \in UserIds
    BY <2>1 DEF Targets, Creates, CreateUser
  <2>3. Running(s) /\ request[s].op = "update_department" => request[s].target \in DepartmentIds
    BY <2>1 DEF Targets, Creates, CreateUser
  <2> QED
    BY <2>2, <2>3 DEF RequestOK, RowOK
<1> QED
  BY <1>1, <1>2, <1>3 DEF RequestOK

(* A step that changes request r alone.                                    *)
LEMMA OneRequest ==
  ASSUME TypeInv, NEW r \in Requests, DOMAIN request' = Requests,
         \A s \in Requests \ {r} : request'[s] = request[s],
         UNCHANGED <<users, departments, auditLog>>, RequestOK(r)'
  PROVE  TypeInv'
<1>1. \A s \in Requests \ {r} : RequestOK(s)'
  BY OtherRequest DEF TypeInv, RequestInv, RequestOK
<1> QED
  BY <1>1 DEF TypeInv, RequestInv

LEMMA DoneOK ==
  ASSUME NEW r \in Requests, request'[r] = Done(r)
  PROVE  RequestOK(r)'
BY DEF RequestOK, PayloadOK, ReferenceOK, RowOK, Done, NoRequest

LEMMA EndType ==
  ASSUME TypeInv, NEW r \in Requests, End(r)
  PROVE  TypeInv'
<1>1. /\ DOMAIN request' = Requests /\ request'[r] = Done(r)
      /\ \A s \in Requests \ {r} : request'[s] = request[s]
  BY DEF End, TypeInv, RequestInv
<1> QED
  BY <1>1, OneRequest, DoneOK DEF End

(* Going on to a step whose conditions on the request hold.                *)
LEMMA ContinueType ==
  ASSUME TypeInv, NEW r \in Requests, Running(r), NEW step \in Steps, Continue(r, step),
         request[r].pc # "target", step # "target",
         step = "count" => request[r].op = "update_user",
         step = "key" => request[r].op # "update_user",
         step \in {"count", "commit"} \/ (step = "key" /\ request[r].op = "update_department")
           => Reference(r) \in DepartmentIds \cup {None}
  PROVE  TypeInv'
<1>1. /\ DOMAIN request' = Requests
      /\ \A s \in Requests \ {r} : request'[s] = request[s]
  BY DEF Continue, Goto, TypeInv, RequestInv
<1>2. /\ request'[r].pc = step /\ request'[r].op = request[r].op
      /\ request'[r].target = request[r].target /\ request'[r].payload = request[r].payload
      /\ request'[r].row = request[r].row /\ request'[r].stale = request[r].stale
      /\ DOMAIN request'[r] = DOMAIN request[r]
  BY DEF Continue, Goto, TypeInv, RequestInv
<1>3. RequestOK(r) /\ step \notin {"idle", "done"}
  BY DEF TypeInv, RequestInv, Steps
<1>4. PayloadOK(r)'
  BY <1>2, <1>3 DEF RequestOK, PayloadOK, Targets
<1>5. ReferenceOK(r)'
  <2>1. Reference(r)' = Reference(r)
    BY <1>2 DEF Reference, Given
  <2> QED
    BY <1>2, <2>1 DEF ReferenceOK
<1>6. RowOK(r)'
  BY <1>2, <1>3 DEF RequestOK, RowOK, Continue
<1>7. RequestOK(r)'
  BY <1>2, <1>3, <1>4, <1>5, <1>6 DEF RequestOK
<1> QED
  BY <1>1, <1>7, OneRequest DEF Continue
(* The steps before the commit.                                            *)
LEMMA ReceiveType ==
  ASSUME TypeInv, NEW r \in Requests, Receive(r)
  PROVE  TypeInv'
<1>a. PICK p \in Payloads : \E t \in Targets(r, p.op) : \E row \in RowsInSession(p.op, t) :
        request' = [request EXCEPT ![r] =
          [op |-> p.op, pc |-> IF p.op \in Creates THEN "key" ELSE "target", target |-> t,
           payload |-> p.fields, row |-> row, stale |-> FALSE]]
  BY DEF Receive
<1>b. PICK t \in Targets(r, p.op) : \E row \in RowsInSession(p.op, t) :
        request' = [request EXCEPT ![r] =
          [op |-> p.op, pc |-> IF p.op \in Creates THEN "key" ELSE "target", target |-> t,
           payload |-> p.fields, row |-> row, stale |-> FALSE]]
  BY <1>a
<1>1. PICK row \in RowsInSession(p.op, t) :
        request' = [request EXCEPT ![r] =
          [op |-> p.op, pc |-> IF p.op \in Creates THEN "key" ELSE "target", target |-> t,
           payload |-> p.fields, row |-> row, stale |-> FALSE]]
  BY <1>b
<1>2. request'[r] =
        [op |-> p.op, pc |-> IF p.op \in Creates THEN "key" ELSE "target", target |-> t,
         payload |-> p.fields, row |-> row, stale |-> FALSE]
  BY <1>1 DEF TypeInv, RequestInv
<1>3. p.op \in UserOps \cup DepartmentOps
  BY PayloadAssumption
<1>4. /\ row # None => p.op = "update_user" /\ row \in UserRow /\ users[t] \in UserRow
      /\ row \in UserRow \cup {None}
  <2>1. \A u \in ActiveSystemAdmins : users[u] \in UserRow
    BY DEF ActiveSystemAdmins, TypeInv
  <2> QED
    BY <2>1 DEF RowsInSession
<1>5. PayloadOK(r)'
  BY <1>2 DEF PayloadOK, Steps, Targets, Creates, CreateUser
<1>6. ReferenceOK(r)'
  BY <1>2, <1>3 DEF ReferenceOK, Creates, CreateUser, UserOps, DepartmentOps
<1>7. RowOK(r)'
  BY <1>2, <1>3, <1>4 DEF RowOK, Creates, CreateUser, UserOps, DepartmentOps, Receive
<1>8. RequestOK(r)'
  BY <1>2, <1>4, <1>5, <1>6, <1>7 DEF RequestOK
<1>9. DOMAIN request' = Requests /\ \A s \in Requests \ {r} : request'[s] = request[s]
  BY <1>1 DEF TypeInv, RequestInv
<1> QED
  BY <1>8, <1>9, OneRequest DEF Receive

LEMMA ReadTargetType ==
  ASSUME TypeInv, NEW r \in Requests, ReadTarget(r)
  PROVE  TypeInv'
<1> DEFINE t == request[r].target
           row == IF request[r].row # None THEN request[r].row
                  ELSE IF request[r].op = "update_user" THEN users[t] ELSE departments[t]
<1>1. CASE row = None \/ Given(r, "parent_id") = t
  BY <1>1, EndType DEF ReadTarget
<1>2. CASE ~(row = None \/ Given(r, "parent_id") = t)
  <2>1. /\ request' = [request EXCEPT ![r].row = row, ![r].pc = "reference"]
        /\ UNCHANGED <<users, departments, auditLog>>
        /\ request[r].pc = "target"
    BY <1>2 DEF ReadTarget
  <2>2. /\ request'[r].pc = "reference" /\ request'[r].op = request[r].op
        /\ request'[r].target = t /\ request'[r].payload = request[r].payload
        /\ request'[r].row = row /\ request'[r].stale = request[r].stale
        /\ DOMAIN request'[r] = DOMAIN request[r]
    BY <2>1 DEF TypeInv, RequestInv
  <2>3. DOMAIN request' = Requests /\ \A s \in Requests \ {r} : request'[s] = request[s]
    BY <2>1 DEF TypeInv, RequestInv
  <2>4. RequestOK(r)
    BY DEF TypeInv, RequestInv
  <2>5. Running(r) /\ PayloadOK(r)
    BY <2>1, <2>4 DEF RequestOK
  <2>6. request[r].op \in {"update_user", "update_department"}
    BY <2>1, <2>5, SubmittedType DEF PayloadOK, Creates, CreateUser, UserOps, DepartmentOps
  <2>7. t \in Targets(r, request[r].op)
    BY <2>5 DEF PayloadOK
  <2>8. /\ request[r].op = "update_user" => row \in UserRow /\ users[t] \in UserRow
        /\ request[r].op = "update_department" => row \in DepartmentRow /\ departments[t] \in DepartmentRow
    <3>1. ASSUME request[r].op = "update_user" PROVE row \in UserRow /\ users[t] \in UserRow
      <4>1. t \in UserIds
        BY <2>7, <3>1 DEF Targets, Creates, CreateUser
      <4>2. users[t] \in UserRow \cup {None}
        BY <4>1 DEF TypeInv
      <4>3. request[r].row # None => request[r].row \in UserRow /\ users[t] \in UserRow
        BY <2>4, <2>5, <3>1 DEF RequestOK, RowOK
      <4> QED
        BY <1>2, <3>1, <4>2, <4>3
    <3>2. ASSUME request[r].op = "update_department"
          PROVE  row \in DepartmentRow /\ departments[t] \in DepartmentRow
      <4>1. t \in DepartmentIds
        BY <2>7, <3>2 DEF Targets, Creates, CreateUser
      <4>2. departments[t] \in DepartmentRow \cup {None}
        BY <4>1 DEF TypeInv
      <4>3. request[r].row = None
        BY <2>1, <2>4, <2>5, <3>2 DEF RequestOK, RowOK
      <4> QED
        BY <1>2, <3>2, <4>2, <4>3
    <3> QED
      BY <3>1, <3>2
  <2>9. PayloadOK(r)'
    BY <2>2, <2>5 DEF PayloadOK, Targets, Steps
  <2>10. ReferenceOK(r)'
    BY <2>2 DEF ReferenceOK
  <2>11. RowOK(r)'
    BY <2>1, <2>2, <2>8 DEF RowOK
  <2>12. /\ request'[r].row \in UserRow \cup DepartmentRow \cup {None} /\ request'[r].stale \in BOOLEAN
         /\ DOMAIN request'[r] = {"op", "pc", "target", "payload", "row", "stale"}
    BY <2>2, <2>4, <2>6, <2>8 DEF RequestOK
  <2>13. RequestOK(r)'
    BY <2>9, <2>10, <2>11, <2>12 DEF RequestOK
  <2> QED
    BY <2>1, <2>3, <2>13, OneRequest
<1> QED
  BY <1>1, <1>2

LEMMA LookUpReferenceType ==
  ASSUME TypeInv, NEW r \in Requests, LookUpReference(r)
  PROVE  TypeInv'
<1>1. CASE Reference(r) # None /\ (Reference(r) \notin DepartmentIds \/ departments[Reference(r)] = None)
  BY <1>1, EndType DEF LookUpReference
<1>2. CASE ~(Reference(r) # None /\ (Reference(r) \notin DepartmentIds \/ departments[Reference(r)] = None))
  <2> DEFINE step == CASE request[r].op = "update_user" -> "count"
                       [] request[r].op = "update_department" -> "key"
                       [] OTHER -> "commit"
  <2>1. Continue(r, step) /\ request[r].pc = "reference"
    BY <1>2 DEF LookUpReference
  <2>2. /\ step \in Steps /\ step # "target" /\ (step = "count" => request[r].op = "update_user")
        /\ step = "key" => request[r].op # "update_user"
    BY DEF Steps
  <2>3. Reference(r) \in DepartmentIds \cup {None}
    BY <1>2
  <2> HIDE DEF step
  <2> QED
    BY <2>1, <2>2, <2>3, ContinueType
<1> QED
  BY <1>1, <1>2

LEMMA LookUpKeyType ==
  ASSUME TypeInv, NEW r \in Requests, LookUpKey(r)
  PROVE  TypeInv'
<1>1. CASE DOMAIN request[r].payload \cap {"email", "name"} # {} /\ KeyTaken(r)
  BY <1>1, EndType DEF LookUpKey
<1>2. CASE ~(DOMAIN request[r].payload \cap {"email", "name"} # {} /\ KeyTaken(r))
  <2> DEFINE step == IF request[r].op \in {"create_user", "create_department"}
                     THEN "reference" ELSE "commit"
  <2>1. Continue(r, step) /\ request[r].pc = "key"
    BY <1>2 DEF LookUpKey
  <2>2. RequestOK(r) /\ PayloadOK(r) /\ ReferenceOK(r)
    BY DEF TypeInv, RequestInv, RequestOK
  <2>3. ASSUME step = "commit" PROVE Reference(r) \in DepartmentIds \cup {None}
    <3>1. request[r].op \in {"create_admin", "update_user", "update_department"}
      BY <2>1, <2>2, <2>3, SubmittedType DEF UserOps, DepartmentOps, CreateUser
    <3>2. CASE request[r].op = "create_admin"
      <4>1. DOMAIN request[r].payload \subseteq {"email"}
        BY <2>1, <2>2, <3>2, SubmittedType DEF Fields
      <4> QED
        BY <3>2, <4>1 DEF Reference, Given, UserOps, CreateUser
    <3>3. CASE request[r].op = "update_department"
      BY <2>1, <2>2, <3>3 DEF ReferenceOK
    <3>4. request[r].op # "update_user"
      BY <2>1, <2>2 DEF PayloadOK
    <3> QED
      BY <3>1, <3>2, <3>3, <3>4
  <2>4. step \in Steps /\ step \in {"reference", "commit"}
    BY DEF Steps
  <2> HIDE DEF step
  <2> QED
    BY <2>1, <2>3, <2>4, ContinueType
<1> QED
  BY <1>1, <1>2

LEMMA CountSystemAdminsType ==
  ASSUME TypeInv, NEW r \in Requests, CountSystemAdmins(r)
  PROVE  TypeInv'
<1>1. CASE RemovesAdmin(r) /\ Cardinality(ActiveSystemAdmins) <= 1
  BY <1>1, EndType DEF CountSystemAdmins
<1>2. CASE ~(RemovesAdmin(r) /\ Cardinality(ActiveSystemAdmins) <= 1)
  <2>1. Continue(r, "commit") /\ request[r].pc = "count"
    BY <1>2 DEF CountSystemAdmins
  <2>2. Reference(r) \in DepartmentIds \cup {None}
    BY <2>1 DEF TypeInv, RequestInv, RequestOK, ReferenceOK
  <2>3. "commit" \in Steps
    BY DEF Steps
  <2> QED
    BY <2>1, <2>2, <2>3, ContinueType
<1> QED
  BY <1>1, <1>2
\* Audit row e is dated with the start of r and holds what r submitted.
WrittenBy(e, r) == e.created_at = r /\ \A f \in DOMAIN e.details : e.details[f] = Submitted(r)[f]

(* The audit rows of a request are about its target.                       *)
LEMMA RowsAboutTarget ==
  ASSUME NEW r \in Requests
  PROVE  \E T : /\ UserAuditRows(r) \in Seq(T) /\ DepartmentAuditRows(r) \in Seq(T)
                /\ \A e \in T : e.target = request[r].target /\ WrittenBy(e, r)
                /\ request[r].op = "update_user" =>
                     \A k \in DOMAIN UserAuditRows(r) : DOMAIN UserAuditRows(r)[k].details \subseteq Dirty(r)
<1> DEFINE e1 == AuditRow(r, "USER_CREATE", {"email", "role"})
           e2 == AuditRow(r, "USER_ROLE_CHANGE", Dirty(r) \ {"is_active"})
           e3 == AuditRow(r, IF Submitted(r).is_active THEN "USER_ACTIVATE" ELSE "USER_DEACTIVATE", {})
           e4 == AuditRow(r, "USER_UPDATE", Dirty(r))
           e5 == AuditRow(r, "DEPARTMENT_CREATE", {"name"})
           e6 == AuditRow(r, "DEPARTMENT_UPDATE", Dirty(r) \cup (DOMAIN request[r].payload \cap {"name"}))
           U == {e2, e3, e4}
           T == {e1, e2, e3, e4, e5, e6}
           a == IF "role" \in Dirty(r) THEN <<e2>> ELSE <<>>
           b == IF "is_active" \in Dirty(r) THEN <<e3>> ELSE <<>>
           c == IF Dirty(r) # {} THEN <<e4>> ELSE <<>>
<1>1. \A e \in T : e.target = request[r].target /\ WrittenBy(e, r)
  BY DEF AuditRow, WrittenBy
<1>2. \A e \in U : DOMAIN e.details \subseteq Dirty(r)
  BY DEF AuditRow
<1>3. UserAuditRows(r) = IF request[r].op = "create_admin" THEN <<>>
                         ELSE IF request[r].op = "create_user" THEN <<e1>> ELSE a \o b \o c
  BY DEF UserAuditRows
<1>4. \/ DepartmentAuditRows(r) = <<>> \/ DepartmentAuditRows(r) = <<e5>>
      \/ DepartmentAuditRows(r) = <<e6>>
  BY DEF DepartmentAuditRows
<1>5. U \subseteq T /\ e1 \in T /\ e5 \in T /\ e6 \in T
  OBVIOUS
<1>6. a \in Seq(U) /\ b \in Seq(U) /\ c \in Seq(U)
  <2> HIDE DEF e2, e3, e4
  <2>1. <<>> \in Seq(U) /\ <<e2>> \in Seq(U) /\ <<e3>> \in Seq(U) /\ <<e4>> \in Seq(U)
    OBVIOUS
  <2> HIDE DEF U
  <2> QED
    BY <2>1
<1> HIDE DEF a, b, c, U, T, e1, e2, e3, e4, e5, e6
<1>7. a \o b \o c \in Seq(U)
  BY <1>6
<1>8. a \o b \o c \in Seq(T)
  BY <1>5, <1>7, SeqMonotonic
<1>9. UserAuditRows(r) \in Seq(T)
  <2>1. <<>> \in Seq(T) /\ <<e1>> \in Seq(T)
    BY <1>5
  <2> QED
    BY <1>3, <1>8, <2>1
<1>10. DepartmentAuditRows(r) \in Seq(T)
  <2>1. <<>> \in Seq(T) /\ <<e5>> \in Seq(T) /\ <<e6>> \in Seq(T)
    BY <1>5
  <2> QED
    BY <1>4, <2>1
<1>11. ASSUME request[r].op = "update_user", NEW k \in DOMAIN UserAuditRows(r)
       PROVE  DOMAIN UserAuditRows(r)[k].details \subseteq Dirty(r)
  <2>1. UserAuditRows(r) \in Seq(U)
    BY <1>3, <1>7, <1>11
  <2>2. UserAuditRows(r)[k] \in U
    BY <2>1, LenProperties, ElementOfSeq
  <2> QED
    BY <1>2, <2>2
<1> QED
  BY <1>1, <1>9, <1>10, <1>11

(* The audit rows extend the log.                                          *)
LEMMA LogGrows ==
  ASSUME TypeInv, NEW r \in Requests, Running(r), PayloadOK(r),
         auditLog' = auditLog \o UserAuditRows(r) \/ auditLog' = auditLog \o DepartmentAuditRows(r)
  PROVE  \E S : /\ auditLog' \in Seq(S)
                /\ \A e \in S : e.target \in UserIds \cup DepartmentIds
<1>1. request[r].target \in UserIds \cup DepartmentIds
  BY DEF PayloadOK, Targets, UserIds
<1>2. PICK T : /\ UserAuditRows(r) \in Seq(T) /\ DepartmentAuditRows(r) \in Seq(T)
               /\ \A e \in T : e.target = request[r].target
  BY RowsAboutTarget
<1>3. PICK S : auditLog \in Seq(S) /\ \A e \in S : e.target \in UserIds \cup DepartmentIds
  BY DEF TypeInv
<1>4. auditLog \in Seq(S \cup T) /\ UserAuditRows(r) \in Seq(S \cup T) /\ DepartmentAuditRows(r) \in Seq(S \cup T)
  BY <1>2, <1>3, SeqMonotonic
<1>5. auditLog \o UserAuditRows(r) \in Seq(S \cup T) /\ auditLog \o DepartmentAuditRows(r) \in Seq(S \cup T)
  BY <1>4
<1>6. \A e \in S \cup T : e.target \in UserIds \cup DepartmentIds
  BY <1>1, <1>2, <1>3
<1> QED
  BY <1>5, <1>6

LEMMA CommitUserType ==
  ASSUME TypeInv, KeyInv, NEW r \in Requests, CommitUser(r)
  PROVE  TypeInv' /\ KeyInv'
<1> DEFINE t == request[r].target
           new == IF request[r].op \in CreateUser THEN NewUser(r) ELSE Updated(r, users[t])
<1>1. Running(r) /\ RequestOK(r) /\ PayloadOK(r) /\ ReferenceOK(r) /\ request[r].pc = "commit"
  BY DEF CommitUser, TypeInv, RequestInv, RequestOK
<1>2. request[r].op \in CreateUser \/ request[r].op = "update_user"
  BY DEF CommitUser, UserOps
<1>3. t \in UserIds
  BY <1>1, <1>2 DEF PayloadOK, Targets, Creates, CreateUser, UserIds
<1>4. users' = [users EXCEPT ![t] = new]
  BY DEF CommitUser
<1>5. ASSUME request[r].op = "update_user"
      PROVE  users[t] \in UserRow /\ new \in UserRow /\ new.email = users[t].email
  <2>1. request[r].row \in UserRow /\ users[t] \in UserRow
    BY <1>1, <1>5 DEF RequestOK, RowOK
  <2> QED
    BY <1>1, <1>5, <2>1, UpdatedUser DEF CreateUser
<1>6. ASSUME request[r].op \in CreateUser
      PROVE  new \in UserRow /\ \A u \in UserIds : users[u] # None => users[u].email # new.email
  BY <1>1, <1>6, NewUserType DEF CommitUser, KeyTaken
<1>7. new \in UserRow
  BY <1>2, <1>5, <1>6
<1> HIDE DEF new
<1>8. users' \in [UserIds -> UserRow \cup {None}]
  BY <1>4, <1>7 DEF TypeInv
<1>9. \A u \in UserIds : users'[u] = IF u = t THEN new ELSE users[u]
  BY <1>4 DEF TypeInv
<1>10. DOMAIN request' = Requests /\ request'[r] = Done(r)
  BY DEF CommitUser, EndStale
<1>11. \A s \in Requests \ {r} :
         \/ request'[s] = [request[s] EXCEPT !.stale = TRUE]
         \/ request'[s] = request[s]
  BY DEF CommitUser, EndStale
<1>12. \A s \in Requests \ {r} : RequestOK(s)'
  <2> TAKE s \in Requests \ {r}
  <2>1. /\ request'[s].op = request[s].op /\ request'[s].pc = request[s].pc
        /\ request'[s].target = request[s].target /\ request'[s].payload = request[s].payload
        /\ request'[s].row = request[s].row /\ DOMAIN request'[s] = DOMAIN request[s]
        /\ request'[s].stale \in {request[s].stale, TRUE}
    <3>1. DOMAIN request[s] = {"op", "pc", "target", "payload", "row", "stale"}
      BY DEF TypeInv, RequestInv, RequestOK
    <3>2. CASE request'[s] = [request[s] EXCEPT !.stale = TRUE]
      BY <3>1, <3>2
    <3> QED
      BY <1>11, <3>2
  <2>2. RequestOK(s)
    BY DEF TypeInv, RequestInv
  <2>3. request'[s].stale \in BOOLEAN
    BY <2>1, <2>2 DEF RequestOK
  <2>4. /\ \A u \in UserIds : users[u] \in UserRow => users'[u] \in UserRow
        /\ \A d \in DepartmentIds : departments[d] \in DepartmentRow => departments'[d] \in DepartmentRow
    BY <1>7, <1>9 DEF CommitUser
  <2> QED
    BY <2>1, <2>2, <2>3, <2>4, OtherRequest
<1>13. RequestOK(r)'
  BY <1>10, DoneOK
<1>14. TypeInv'
  BY <1>1, <1>8, <1>10, <1>12, <1>13, LogGrows DEF TypeInv, RequestInv, CommitUser
<1>15. KeyInv'
  <2>1. ASSUME NEW u \in UserIds, NEW v \in UserIds,
               users'[u] # None, users'[v] # None, users'[u].email = users'[v].email
        PROVE  u = v
    <3>1. CASE request[r].op = "update_user"
      <4>1. users[t] # None /\ new.email = users[t].email
        BY <1>5, <3>1, AdministrationAssumption
      <4> QED
        BY <1>9, <2>1, <4>1 DEF KeyInv
    <3>2. CASE request[r].op \in CreateUser
      BY <1>6, <1>9, <2>1, <3>2 DEF KeyInv
    <3> QED
      BY <1>2, <3>1, <3>2
  <2> QED
    BY <2>1 DEF KeyInv, CommitUser
<1> QED
  BY <1>14, <1>15

LEMMA CommitDepartmentType ==
  ASSUME TypeInv, KeyInv, NEW r \in Requests, CommitDepartment(r)
  PROVE  TypeInv' /\ KeyInv'
<1> DEFINE t == request[r].target
           new == IF request[r].op = "create_department" THEN NewDepartment(r)
                                                         ELSE Updated(r, departments[t])
<1>1. Running(r) /\ RequestOK(r) /\ PayloadOK(r) /\ ReferenceOK(r) /\ request[r].pc = "commit"
  BY DEF CommitDepartment, TypeInv, RequestInv, RequestOK
<1>2. request[r].op = "create_department" \/ request[r].op = "update_department"
  BY DEF CommitDepartment, DepartmentOps
<1>3. t \in DepartmentIds
  BY <1>1, <1>2 DEF PayloadOK, Targets, Creates, CreateUser, DepartmentIds
<1>4. departments' = [departments EXCEPT ![t] = new]
  BY DEF CommitDepartment
<1>5. ASSUME request[r].op = "update_department"
      PROVE  /\ departments[t] \in DepartmentRow /\ new \in DepartmentRow
             /\ "name" \in Dirty(r) => new.name = Submitted(r).name
             /\ "name" \notin Dirty(r) => new.name = departments[t].name
  <2>1. request[r].row \in DepartmentRow /\ departments[t] \in DepartmentRow
    BY <1>1, <1>5 DEF RequestOK, RowOK
  <2> QED
    BY <1>1, <1>5, <2>1, UpdatedDepartment
<1>6. ASSUME request[r].op = "create_department"
      PROVE  new \in DepartmentRow /\ new.name = Submitted(r).name
  BY <1>1, <1>6, NewDepartmentType
<1>7. new \in DepartmentRow
  BY <1>2, <1>5, <1>6
<1> HIDE DEF new
<1>8. departments' \in [DepartmentIds -> DepartmentRow \cup {None}]
  BY <1>4, <1>7 DEF TypeInv
<1>9. \A d \in DepartmentIds : departments'[d] = IF d = t THEN new ELSE departments[d]
  BY <1>4 DEF TypeInv
<1>10. /\ DOMAIN request' = Requests /\ request'[r] = Done(r)
       /\ \A s \in Requests \ {r} : request'[s] = request[s]
  BY DEF CommitDepartment, TypeInv, RequestInv
<1>11. \A s \in Requests \ {r} : RequestOK(s)'
  BY <1>7, <1>9, <1>10, OtherRequest DEF TypeInv, RequestInv, RequestOK, CommitDepartment
<1>12. RequestOK(r)'
  BY <1>10, DoneOK
<1>13. TypeInv'
  BY <1>1, <1>8, <1>10, <1>11, <1>12, LogGrows DEF TypeInv, RequestInv, CommitDepartment
<1>14. KeyInv'
  <2>1. request[r].op = "create_department" \/ "name" \in Dirty(r) =>
          \A d \in DepartmentIds \ {t} : departments[d] # None => departments[d].name # new.name
    BY <1>2, <1>5, <1>6 DEF CommitDepartment, KeyTaken, UserOps, CreateUser
  <2>2. request[r].op # "create_department" /\ "name" \notin Dirty(r) =>
          departments[t] # None /\ new.name = departments[t].name
    BY <1>2, <1>5, AdministrationAssumption
  <2>3. ASSUME NEW d \in DepartmentIds, NEW e \in DepartmentIds,
               departments'[d] # None, departments'[e] # None, departments'[d].name = departments'[e].name
        PROVE  d = e
    BY <1>9, <2>1, <2>2, <2>3 DEF KeyInv
  <2> QED
    BY <2>3 DEF KeyInv, CommitDepartment
<1> QED
  BY <1>13, <1>14
---------------------------------------------------------------------------
(* Preservation of the freshness of decisions and ids.                     *)

LEMMA AdminsFinite == IsFiniteSet(ActiveSystemAdmins) /\ Cardinality(ActiveSystemAdmins) \in Nat
BY AdministrationAssumption, FS_Subset, FS_CardinalityType DEF ActiveSystemAdmins

(* Requests of others, and steps that do not write users.                  *)
LEMMA FreshOthers ==
  ASSUME NEW s \in Requests, FreshOK(s), request'[s] = request[s], users' = users
  PROVE  FreshOK(s)'
<1>1. RemovesAdmin(s)' = RemovesAdmin(s)
  BY DEF RemovesAdmin, Assigned, Submitted
<1>2. ActiveSystemAdmins' = ActiveSystemAdmins
  BY DEF ActiveSystemAdmins
<1> QED
  BY <1>1, <1>2 DEF FreshOK

LEMMA EndFresh ==
  ASSUME TypeInv, FreshInv, MintInv, NEW r \in Requests, End(r)
  PROVE  FreshInv' /\ MintInv'
<1>1. /\ request'[r] = Done(r) /\ users' = users
      /\ \A s \in Requests \ {r} : request'[s] = request[s]
  BY DEF End, TypeInv, RequestInv
<1>2. FreshOK(r)'
  BY <1>1 DEF FreshOK, Done, NoRequest
<1>3. \A s \in Requests \ {r} : FreshOK(s)'
  BY <1>1, FreshOthers DEF FreshInv
<1>4. MintInv'
  BY <1>1 DEF MintInv, Done, NoRequest
<1> QED
  BY <1>2, <1>3, <1>4 DEF FreshInv

LEMMA ContinueFresh ==
  ASSUME TypeInv, FreshInv, MintInv, NEW r \in Requests, NEW step, Continue(r, step), Running(r),
         request[r].op = "update_user" /\ step = "commit" /\ RemovesAdmin(r)
           => Cardinality(ActiveSystemAdmins) > 1
  PROVE  FreshInv' /\ MintInv'
<1>1. /\ users' = users
      /\ \A s \in Requests \ {r} : request'[s] = request[s]
  BY DEF Continue, Goto, TypeInv, RequestInv
<1>2. /\ request'[r].pc = step /\ request'[r].op = request[r].op
      /\ request'[r].target = request[r].target /\ request'[r].payload = request[r].payload
      /\ request'[r].row = request[r].row /\ request'[r].stale = request[r].stale
  BY DEF Continue, Goto, TypeInv, RequestInv
<1>3. RemovesAdmin(r)' = RemovesAdmin(r)
  BY <1>2 DEF RemovesAdmin, Assigned, Submitted
<1>4. ActiveSystemAdmins' = ActiveSystemAdmins
  BY <1>1 DEF ActiveSystemAdmins
<1>5. FreshOK(r)'
  BY <1>1, <1>2, <1>3, <1>4 DEF FreshInv, FreshOK
<1>6. \A s \in Requests \ {r} : FreshOK(s)'
  BY <1>1, FreshOthers DEF FreshInv
<1>7. MintInv'
  BY <1>1 DEF MintInv
<1> QED
  BY <1>5, <1>6, <1>7 DEF FreshInv

LEMMA ReceiveFresh ==
  ASSUME TypeInv, FreshInv, MintInv, NEW r \in Requests, Receive(r)
  PROVE  FreshInv' /\ MintInv'
<1>1. PICK p \in Payloads : \E t \in Targets(r, p.op) : \E row \in RowsInSession(p.op, t) :
        request' = [request EXCEPT ![r] =
          [op |-> p.op, pc |-> IF p.op \in Creates THEN "key" ELSE "target", target |-> t,
           payload |-> p.fields, row |-> row, stale |-> FALSE]]
  BY DEF Receive
<1>2. PICK t \in Targets(r, p.op) : \E row \in RowsInSession(p.op, t) :
        request' = [request EXCEPT ![r] =
          [op |-> p.op, pc |-> IF p.op \in Creates THEN "key" ELSE "target", target |-> t,
           payload |-> p.fields, row |-> row, stale |-> FALSE]]
  BY <1>1
<1>3. PICK row \in RowsInSession(p.op, t) :
        request' = [request EXCEPT ![r] =
          [op |-> p.op, pc |-> IF p.op \in Creates THEN "key" ELSE "target", target |-> t,
           payload |-> p.fields, row |-> row, stale |-> FALSE]]
  BY <1>2
<1>4. row # None => row = users[t]
  BY DEF RowsInSession
<1>5. /\ users' = users
      /\ \A s \in Requests \ {r} : request'[s] = request[s]
  BY <1>3 DEF Receive, TypeInv, RequestInv
<1>6. request'[r].row = row /\ request'[r].target = t /\ request'[r].pc \in {"key", "target"}
  BY <1>3 DEF TypeInv, RequestInv
<1>7. FreshOK(r)'
  BY <1>4, <1>5, <1>6 DEF FreshOK
<1>8. \A s \in Requests \ {r} : FreshOK(s)'
  BY <1>5, FreshOthers DEF FreshInv
<1>9. MintInv'
  BY <1>5 DEF MintInv, Receive
<1> QED
  BY <1>7, <1>8, <1>9 DEF FreshInv

LEMMA ReadTargetFresh ==
  ASSUME TypeInv, FreshInv, MintInv, NEW r \in Requests, ReadTarget(r)
  PROVE  FreshInv' /\ MintInv'
<1> DEFINE t == request[r].target
           row == IF request[r].row # None THEN request[r].row
                  ELSE IF request[r].op = "update_user" THEN users[t] ELSE departments[t]
<1>1. CASE row = None \/ Given(r, "parent_id") = t
  BY <1>1, EndFresh DEF ReadTarget
<1>2. CASE ~(row = None \/ Given(r, "parent_id") = t)
  <2>1. /\ request' = [request EXCEPT ![r].row = row, ![r].pc = "reference"]
        /\ users' = users /\ request[r].pc = "target"
    BY <1>2 DEF ReadTarget
  <2>2. DOMAIN request[r] = {"op", "pc", "target", "payload", "row", "stale"}
    BY DEF TypeInv, RequestInv, RequestOK
  <2>3. /\ request'[r].pc = "reference" /\ request'[r].op = request[r].op
        /\ request'[r].target = t /\ request'[r].row = row /\ request'[r].stale = request[r].stale
    BY <2>1, <2>2 DEF TypeInv, RequestInv
  <2>4. \A s \in Requests \ {r} : request'[s] = request[s]
    BY <2>1 DEF TypeInv, RequestInv
  <2>5. FreshOK(r)'
    BY <2>1, <2>3 DEF FreshInv, FreshOK
  <2>6. \A s \in Requests \ {r} : FreshOK(s)'
    BY <2>1, <2>4, FreshOthers DEF FreshInv
  <2>7. MintInv'
    BY <2>1, <2>3, <2>4 DEF MintInv
  <2> QED
    BY <2>5, <2>6, <2>7 DEF FreshInv
<1> QED
  BY <1>1, <1>2

LEMMA LookUpReferenceFresh ==
  ASSUME TypeInv, FreshInv, MintInv, NEW r \in Requests, LookUpReference(r)
  PROVE  FreshInv' /\ MintInv'
<1>1. End(r) \/ \E step : Continue(r, step) /\ (request[r].op = "update_user" => step = "count")
  BY DEF LookUpReference
<1>2. ASSUME NEW step, Continue(r, step), request[r].op = "update_user" => step = "count"
      PROVE  FreshInv' /\ MintInv'
  BY <1>2, ContinueFresh DEF LookUpReference
<1> QED
  BY <1>1, <1>2, EndFresh

LEMMA LookUpKeyFresh ==
  ASSUME TypeInv, FreshInv, MintInv, NEW r \in Requests, LookUpKey(r)
  PROVE  FreshInv' /\ MintInv'
<1>1. request[r].pc = "key" /\ request[r].op # "update_user"
  BY DEF LookUpKey, TypeInv, RequestInv, RequestOK, PayloadOK
<1>2. End(r) \/ Continue(r, "reference") \/ Continue(r, "commit")
  BY DEF LookUpKey
<1> QED
  BY <1>1, <1>2, ContinueFresh, EndFresh

LEMMA CountSystemAdminsFresh ==
  ASSUME TypeInv, FreshInv, MintInv, NEW r \in Requests, CountSystemAdmins(r)
  PROVE  FreshInv' /\ MintInv'
<1>1. CASE RemovesAdmin(r) /\ Cardinality(ActiveSystemAdmins) <= 1
  BY <1>1, EndFresh DEF CountSystemAdmins
<1>2. CASE ~(RemovesAdmin(r) /\ Cardinality(ActiveSystemAdmins) <= 1)
  <2>1. Continue(r, "commit") /\ request[r].pc = "count"
    BY <1>2 DEF CountSystemAdmins
  <2>2. RemovesAdmin(r) => Cardinality(ActiveSystemAdmins) > 1
    BY <1>2, AdminsFinite
  <2> QED
    BY <2>1, <2>2, ContinueFresh
<1> QED
  BY <1>1, <1>2

LEMMA CommitUserFresh ==
  ASSUME TypeInv, FreshInv, MintInv, NEW r \in Requests, CommitUser(r)
  PROVE  FreshInv' /\ MintInv'
<1> DEFINE t == request[r].target
<1>1. request'[r] = Done(r)
  BY DEF CommitUser, EndStale
<1>2. \A s \in Requests \ {r} :
         \/ Running(s) /\ request'[s] = [request[s] EXCEPT !.stale = TRUE]
         \/ ~Running(s) /\ request'[s] = request[s]
  BY DEF CommitUser, EndStale
<1>3. ASSUME NEW s \in Requests \ {r}
      PROVE  /\ request'[s].pc = request[s].pc
             /\ request'[s].stale \/ ~Running(s)'
  <2>1. DOMAIN request[s] = {"op", "pc", "target", "payload", "row", "stale"}
    BY DEF TypeInv, RequestInv, RequestOK
  <2>2. CASE request'[s] = [request[s] EXCEPT !.stale = TRUE]
    BY <2>1, <2>2
  <2>3. CASE ~Running(s) /\ request'[s] = request[s]
    BY <2>3
  <2> QED
    BY <1>2, <2>2, <2>3
<1>4. FreshInv'
  BY <1>1, <1>3 DEF FreshInv, FreshOK, Done, NoRequest
<1>5. t = r \/ users[t] # None
  <2>1. Running(r) /\ RequestOK(r)
    BY DEF CommitUser, TypeInv, RequestInv
  <2>2. CASE request[r].op \in CreateUser
    BY <2>1, <2>2 DEF RequestOK, PayloadOK, Targets, Creates
  <2>3. CASE request[r].op = "update_user"
    <3>1. users[t] \in UserRow
      BY <2>1, <2>3 DEF RequestOK, RowOK, CommitUser
    <3> QED
      BY <3>1, AdministrationAssumption
  <2> QED
    BY <2>2, <2>3 DEF CommitUser, UserOps
<1>6. \A s \in Requests \ {r} : request[s].pc # "done" => users'[s] = users[s]
  BY <1>5 DEF CommitUser, TypeInv, UserIds, MintInv
<1>7. MintInv'
  BY <1>1, <1>3, <1>6 DEF MintInv, Done, NoRequest
<1> QED
  BY <1>4, <1>7

LEMMA CommitDepartmentFresh ==
  ASSUME TypeInv, FreshInv, MintInv, NEW r \in Requests, CommitDepartment(r)
  PROVE  FreshInv' /\ MintInv'
<1>1. /\ request'[r] = Done(r) /\ users' = users
      /\ \A s \in Requests \ {r} : request'[s] = request[s]
  BY DEF CommitDepartment, TypeInv, RequestInv
<1>2. FreshOK(r)'
  BY <1>1 DEF FreshOK, Done, NoRequest
<1>3. \A s \in Requests \ {r} : FreshOK(s)'
  BY <1>1, FreshOthers DEF FreshInv
<1>4. MintInv'
  BY <1>1 DEF MintInv, Done, NoRequest
<1> QED
  BY <1>2, <1>3, <1>4 DEF FreshInv

---------------------------------------------------------------------------
(* The theorems.                                                           *)

IInv == TypeInv /\ KeyInv /\ FreshInv /\ MintInv

LEMMA NextInv == IInv /\ [Next]_vars => IInv'
<1> SUFFICES ASSUME IInv, [Next]_vars PROVE IInv'
  OBVIOUS
<1> USE DEF IInv
<1>1. CASE UNCHANGED vars
  <2>1. UNCHANGED <<users, departments, auditLog, request>>
    BY <1>1 DEF vars
  <2>2. TypeInv'
    BY <2>1, OtherRequest DEF TypeInv, RequestInv, RequestOK
  <2>3. FreshInv'
    BY <2>1, FreshOthers DEF FreshInv
  <2> QED
    BY <2>1, <2>2, <2>3 DEF KeyInv, MintInv
<1>2. ASSUME NEW r \in Requests, users' = users, departments' = departments PROVE KeyInv'
  BY <1>2 DEF KeyInv
<1>3. ASSUME NEW r \in Requests, Receive(r) PROVE IInv'
  BY <1>2, <1>3, ReceiveType, ReceiveFresh DEF Receive
<1>4. ASSUME NEW r \in Requests, ReadTarget(r) PROVE IInv'
  <2>1. users' = users /\ departments' = departments
    BY <1>4 DEF ReadTarget, End
  <2> QED
    BY <1>2, <1>4, <2>1, ReadTargetType, ReadTargetFresh
<1>5. ASSUME NEW r \in Requests, LookUpReference(r) PROVE IInv'
  <2>1. users' = users /\ departments' = departments
    BY <1>5 DEF LookUpReference, End, Continue
  <2> QED
    BY <1>2, <1>5, <2>1, LookUpReferenceType, LookUpReferenceFresh
<1>6. ASSUME NEW r \in Requests, LookUpKey(r) PROVE IInv'
  <2>1. users' = users /\ departments' = departments
    BY <1>6 DEF LookUpKey, End, Continue
  <2> QED
    BY <1>2, <1>6, <2>1, LookUpKeyType, LookUpKeyFresh
<1>7. ASSUME NEW r \in Requests, CountSystemAdmins(r) PROVE IInv'
  <2>1. users' = users /\ departments' = departments
    BY <1>7 DEF CountSystemAdmins, End, Continue
  <2> QED
    BY <1>2, <1>7, <2>1, CountSystemAdminsType, CountSystemAdminsFresh
<1>8. ASSUME NEW r \in Requests, CommitUser(r) PROVE IInv'
  BY <1>8, CommitUserType, CommitUserFresh
<1>9. ASSUME NEW r \in Requests, CommitDepartment(r) PROVE IInv'
  BY <1>9, CommitDepartmentType, CommitDepartmentFresh
<1>10. ASSUME NEW r \in Requests, Fails(r) PROVE IInv'
  BY <1>2, <1>10, EndType, EndFresh DEF Fails, End
<1> QED
  BY <1>1, <1>3, <1>4, <1>5, <1>6, <1>7, <1>8, <1>9, <1>10 DEF Next

THEOREM InductiveInvariant == Spec => []IInv
BY InitInv, NextInv, PTL DEF Spec, IInv

(* Type correctness of administration.                                     *)
THEOREM TypeCorrect == Spec => []TypeOK
<1>1. IInv => TypeOK
  <2> SUFFICES ASSUME IInv PROVE TypeOK
    OBVIOUS
  <2>1. \A i \in DOMAIN auditLog : auditLog[i].target \in UserIds \cup DepartmentIds
    BY DEF IInv, TypeInv
  <2>2. ASSUME NEW r \in Requests, Running(r) PROVE request[r].op \in UserOps \cup DepartmentOps
    BY <2>2, SubmittedType DEF IInv, TypeInv, RequestInv, RequestOK
  <2> QED
    BY <2>1, <2>2 DEF IInv, TypeInv, TypeOK, RequestInv, RequestOK, PayloadOK
<1> QED
  BY <1>1, InductiveInvariant, PTL

(* E-mail addresses and department names stay unique, in every spelling.   *)
THEOREM KeysUnique == Spec => []UniqueKeys
<1>1. IInv => UniqueKeys
  <2> SUFFICES ASSUME IInv PROVE UniqueKeys
    OBVIOUS
  <2>1. \A k \in Keys : Canonical[k] = k
    BY AdministrationAssumption DEF Keys
  <2>2. \A u \in UserIds : users[u] # None => users[u].email \in Keys
    BY DEF IInv, TypeInv, UserRow
  <2>3. \A d \in DepartmentIds : departments[d] # None => departments[d].name \in Keys
    BY DEF IInv, TypeInv, DepartmentRow
  <2> QED
    BY <2>1, <2>2, <2>3 DEF IInv, KeyInv, UniqueKeys
<1> QED
  BY <1>1, InductiveInvariant, PTL

(* A commit that decided on data nobody has changed since leaves an active *)
(* administrator.                                                          *)
LEMMA FreshCommitKeepsAdmin ==
  ASSUME IInv, NEW r \in Requests, CommitUser(r), ~request[r].stale, AdminRemains
  PROVE  AdminRemains'
<1> DEFINE t == request[r].target
<1>1. Running(r) /\ RequestOK(r) /\ PayloadOK(r) /\ ReferenceOK(r) /\ request[r].pc = "commit"
  BY DEF CommitUser, IInv, TypeInv, RequestInv, RequestOK
<1>2. \A u \in UserIds \ {t} : users'[u] = users[u]
  BY DEF CommitUser, IInv, TypeInv
<1>3. CASE \E u \in ActiveSystemAdmins : u # t
  BY <1>2, <1>3 DEF ActiveSystemAdmins, AdminRemains
<1>4. CASE ActiveSystemAdmins = {t}
  <2>1. t \in UserIds /\ users[t] # None /\ users[t].role = "SYSTEM_ADMIN" /\ users[t].is_active
    BY <1>4 DEF ActiveSystemAdmins
  <2>2. request[r].op \notin CreateUser
    BY <1>1, <2>1 DEF PayloadOK, Targets, Creates, IInv, MintInv
  <2>3. request[r].op = "update_user"
    BY <2>2 DEF CommitUser, UserOps
  <2>4. request[r].row \in UserRow /\ users[t] \in UserRow
    BY <1>1, <2>3 DEF RequestOK, RowOK
  <2>5. request[r].row = users[t] /\ (RemovesAdmin(r) => Cardinality(ActiveSystemAdmins) > 1)
    BY <1>1, <2>3, <2>4, AdministrationAssumption DEF IInv, FreshInv, FreshOK
  <2>6. Cardinality(ActiveSystemAdmins) = 1
    BY <1>4, FS_Singleton
  <2>7. ~RemovesAdmin(r)
    BY <2>5, <2>6
  <2>8. Assigned(r).role = "SYSTEM_ADMIN" /\ Assigned(r).is_active
    BY <2>1, <2>5, <2>7 DEF RemovesAdmin
  <2>9. users'[t] = Updated(r, users[t])
    BY <2>1, <2>2 DEF CommitUser, IInv, TypeInv
  <2>10. /\ Updated(r, users[t]) \in UserRow /\ Updated(r, users[t]).role = "SYSTEM_ADMIN"
         /\ Updated(r, users[t]).is_active
    BY <1>1, <2>3, <2>4, <2>5, <2>8, UpdatedUser
  <2>11. t \in ActiveSystemAdmins'
    BY <2>1, <2>9, <2>10, AdministrationAssumption DEF ActiveSystemAdmins
  <2> QED
    BY <2>11 DEF AdminRemains
<1> QED
  BY <1>3, <1>4 DEF AdminRemains

(* The last administrator is only lost by a request that acted on data     *)
(* another commit had changed.                                             *)
THEOREM LastAdminNeedsOverlap == Spec => LastAdminLostOnlyByOverlap
<1>1. IInv /\ [Next]_vars =>
        [AdminRemains => AdminRemains' \/ \E r \in Requests : request[r].stale /\ CommitUser(r)]_vars
  <2> SUFFICES ASSUME IInv, [Next]_vars, AdminRemains,
                      ~(\E r \in Requests : request[r].stale /\ CommitUser(r))
               PROVE  AdminRemains'
    OBVIOUS
  <2>1. ASSUME users' = users PROVE AdminRemains'
    BY <2>1 DEF AdminRemains, ActiveSystemAdmins
  <2>2. CASE \E r \in Requests : CommitUser(r)
    BY <2>2, FreshCommitKeepsAdmin
  <2>3. CASE ~(\E r \in Requests : CommitUser(r))
    BY <2>1, <2>3 DEF Next, vars, Receive, ReadTarget, LookUpReference, LookUpKey, CountSystemAdmins,
                      CommitDepartment, Fails, End, Continue
  <2> QED
    BY <2>2, <2>3
<1> QED
  BY <1>1, InductiveInvariant, PTL DEF Spec, LastAdminLostOnlyByOverlap

---------------------------------------------------------------------------
(* The audit log replays the tables.                                       *)

\* Row i is the last that was committed on field f of t.
LastIn(log, i, t, f) ==
  i \in DOMAIN log /\ Records(log[i], t, f) /\ \A j \in DOMAIN log : Records(log[j], t, f) => j <= i
(* The last committed row on a field holds what the table holds, in the    *)
(* order of the commits.                                                   *)
ReplaysIn(log, row, initial, t, f) ==
  /\ \A i : LastIn(log, i, t, f) => row[f] = log[i].details[f]
  /\ (\E i \in DOMAIN log : Records(log[i], t, f)) => \E i : LastIn(log, i, t, f)
  /\ t \in DOMAIN initial /\ ~(\E i : LastIn(log, i, t, f)) => row[f] = initial[t][f]

UserFields == {"role", "is_active", "department_id"}
DepartmentFields == {"is_active", "parent_id"}

(* The log only speaks of rows that exist, an id is never both that of a   *)
(* user and of a department, and a request that has not ended has created  *)
(* neither: the first row under an id finds nothing about it in the log.   *)
Exists(t) == \/ t \in UserIds /\ users[t] # None
             \/ t \in DepartmentIds /\ departments[t] # None
LogInv ==
  /\ \A r \in Requests : request[r].pc # "done" => departments[r] = None
  /\ \A r \in Requests : users[r] = None \/ departments[r] = None
  /\ \A i \in DOMAIN auditLog : Exists(auditLog[i].target)
  /\ \A u \in UserIds : users[u] # None =>
       \A f \in UserFields : ReplaysIn(auditLog, users[u], InitialUsers, u, f)
  /\ \A d \in DepartmentIds : departments[d] # None =>
       \A f \in DepartmentFields : ReplaysIn(auditLog, departments[d], InitialDepartments, d, f)

(* Rows that do not record a field leave its last record where it was.     *)
LEMMA UnrecordedKeeps ==
  ASSUME NEW S, NEW log \in Seq(S), NEW rows \in Seq(S), NEW t, NEW f,
         \A k \in DOMAIN rows : ~Records(rows[k], t, f)
  PROVE  \A i : /\ LastIn(log \o rows, i, t, f) <=> LastIn(log, i, t, f)
                /\ LastIn(log, i, t, f) => (log \o rows)[i] = log[i]
                /\ i \in DOMAIN (log \o rows) /\ Records((log \o rows)[i], t, f) =>
                     i \in DOMAIN log /\ Records(log[i], t, f)
<1> DEFINE new == log \o rows
<1>1. /\ Len(log) \in Nat /\ Len(rows) \in Nat
      /\ DOMAIN log = 1 .. Len(log) /\ DOMAIN rows = 1 .. Len(rows)
  BY LenProperties
<1>2. /\ new \in Seq(S) /\ Len(new) = Len(log) + Len(rows)
      /\ \A i \in 1 .. Len(log) + Len(rows) :
           new[i] = IF i <= Len(log) THEN log[i] ELSE rows[i - Len(log)]
  BY ConcatProperties
<1>3. DOMAIN new = 1 .. Len(log) + Len(rows)
  BY <1>2, LenProperties
<1> HIDE DEF new
<1>4. \A i \in DOMAIN log : i \in DOMAIN new /\ new[i] = log[i]
  BY <1>1, <1>2, <1>3
<1>5. \A i \in DOMAIN new : Records(new[i], t, f) => i \in DOMAIN log
  <2> SUFFICES ASSUME NEW i \in DOMAIN new, i \notin DOMAIN log PROVE ~Records(new[i], t, f)
    OBVIOUS
  <2>1. i - Len(log) \in DOMAIN rows /\ new[i] = rows[i - Len(log)]
    BY <1>1, <1>2, <1>3
  <2> QED
    BY <2>1
<1>6. \A i : LastIn(new, i, t, f) <=> LastIn(log, i, t, f)
  BY <1>4, <1>5 DEF LastIn
<1>7. \A i \in DOMAIN new : Records(new[i], t, f) => i \in DOMAIN log /\ Records(log[i], t, f)
  BY <1>4, <1>5
<1> QED
  BY <1>4, <1>6, <1>7 DEF new, LastIn

(* The last record among the rows becomes the last record of the log.      *)
LEMMA RecordedLast ==
  ASSUME NEW S, NEW log \in Seq(S), NEW rows \in Seq(S), NEW t, NEW f, NEW k, LastIn(rows, k, t, f)
  PROVE  \A i : LastIn(log \o rows, i, t, f) <=> i = Len(log) + k
<1> DEFINE new == log \o rows
           last == Len(log) + k
<1>1. /\ Len(log) \in Nat /\ Len(rows) \in Nat
      /\ DOMAIN log = 1 .. Len(log) /\ DOMAIN rows = 1 .. Len(rows)
  BY LenProperties
<1>2. /\ new \in Seq(S) /\ Len(new) = Len(log) + Len(rows)
      /\ \A i \in 1 .. Len(log) + Len(rows) :
           new[i] = IF i <= Len(log) THEN log[i] ELSE rows[i - Len(log)]
  BY ConcatProperties
<1>3. DOMAIN new = 1 .. Len(log) + Len(rows)
  BY <1>2, LenProperties
<1> HIDE DEF new
<1>4. k \in 1 .. Len(rows) /\ Records(rows[k], t, f)
      /\ \A j \in 1 .. Len(rows) : Records(rows[j], t, f) => j <= k
  BY <1>1 DEF LastIn
<1>5. last \in DOMAIN new /\ Records(new[last], t, f)
  <2>1. last \in 1 .. Len(log) + Len(rows) /\ ~(last <= Len(log)) /\ last - Len(log) = k
    BY <1>1, <1>4
  <2>2. new[last] = rows[k]
    BY <1>2, <2>1
  <2> QED
    BY <1>3, <1>4, <2>1, <2>2
<1>6. ASSUME NEW j \in DOMAIN new, Records(new[j], t, f) PROVE j <= last
  <2>1. CASE j <= Len(log)
    BY <1>1, <1>3, <1>4, <2>1
  <2>2. CASE ~(j <= Len(log))
    <3>1. j - Len(log) \in 1 .. Len(rows) /\ new[j] = rows[j - Len(log)]
      BY <1>1, <1>2, <1>3, <2>2
    <3>2. j - Len(log) <= k
      BY <1>4, <1>6, <3>1
    <3> QED
      BY <1>1, <1>3, <1>4, <3>2
  <2> QED
    BY <2>1, <2>2
<1>7. LastIn(new, last, t, f)
  BY <1>5, <1>6 DEF LastIn
<1>8. ASSUME NEW i, LastIn(new, i, t, f) PROVE i = last
  <2>1. i \in DOMAIN new /\ i <= last /\ last <= i
    BY <1>5, <1>6, <1>8 DEF LastIn
  <2> QED
    BY <1>1, <1>3, <1>4, <2>1
<1> QED
  BY <1>7, <1>8 DEF new

(* Where the rows of a longer log come from.                               *)
LEMMA RowsOfConcat ==
  ASSUME NEW S, NEW log \in Seq(S), NEW rows \in Seq(S), NEW i \in DOMAIN (log \o rows)
  PROVE  \/ \E j \in DOMAIN log : (log \o rows)[i] = log[j]
         \/ \E k \in DOMAIN rows : (log \o rows)[i] = rows[k]
<1> DEFINE new == log \o rows
<1>1. /\ Len(log) \in Nat /\ Len(rows) \in Nat
      /\ DOMAIN log = 1 .. Len(log) /\ DOMAIN rows = 1 .. Len(rows)
  BY LenProperties
<1>2. /\ new \in Seq(S) /\ Len(new) = Len(log) + Len(rows)
      /\ \A n \in 1 .. Len(log) + Len(rows) :
           new[n] = IF n <= Len(log) THEN log[n] ELSE rows[n - Len(log)]
  BY ConcatProperties
<1>3. i \in 1 .. Len(log) + Len(rows)
  BY <1>2, LenProperties
<1> HIDE DEF new
<1>4. CASE i <= Len(log)
  BY <1>1, <1>2, <1>3, <1>4 DEF new
<1>5. CASE ~(i <= Len(log))
  <2>1. i - Len(log) \in DOMAIN rows /\ new[i] = rows[i - Len(log)]
    BY <1>1, <1>2, <1>3, <1>5
  <2> QED
    BY <2>1 DEF new
<1> QED
  BY <1>4, <1>5

(* A field that the rows do not record and the commit does not write.      *)
LEMMA ReplaysKept ==
  ASSUME NEW S, NEW log \in Seq(S), NEW rows \in Seq(S), NEW t, NEW f, NEW initial,
         NEW row, NEW new, ReplaysIn(log, row, initial, t, f), new[f] = row[f],
         \A k \in DOMAIN rows : ~Records(rows[k], t, f)
  PROVE  ReplaysIn(log \o rows, new, initial, t, f)
<1> DEFINE after == log \o rows
<1>1. \A i : /\ LastIn(after, i, t, f) <=> LastIn(log, i, t, f)
             /\ LastIn(log, i, t, f) => after[i] = log[i]
             /\ i \in DOMAIN after /\ Records(after[i], t, f) =>
                  i \in DOMAIN log /\ Records(log[i], t, f)
  BY UnrecordedKeeps
<1> HIDE DEF after
<1>2. ReplaysIn(after, new, initial, t, f)
  BY <1>1 DEF ReplaysIn
<1> QED
  BY <1>2 DEF after

(* A field of which neither the log nor the rows say anything, of a row    *)
(* that did not exist initially.                                           *)
LEMMA ReplaysUnrecorded ==
  ASSUME NEW S, NEW log \in Seq(S), NEW rows \in Seq(S), NEW t, NEW f, NEW initial, NEW new,
         t \notin DOMAIN initial, \A i \in DOMAIN log : log[i].target # t,
         \A k \in DOMAIN rows : ~Records(rows[k], t, f)
  PROVE  ReplaysIn(log \o rows, new, initial, t, f)
BY UnrecordedKeeps DEF ReplaysIn, LastIn, Records

(* A field that is written as the last of the rows that record it says.    *)
LEMMA ReplaysRecorded ==
  ASSUME NEW S, NEW log \in Seq(S), NEW rows \in Seq(S), NEW t, NEW f, NEW initial, NEW new, NEW k,
         LastIn(rows, k, t, f), new[f] = rows[k].details[f]
  PROVE  ReplaysIn(log \o rows, new, initial, t, f)
<1> DEFINE after == log \o rows
<1>1. \A i : LastIn(after, i, t, f) <=> i = Len(log) + k
  BY RecordedLast
<1>2. Len(log) \in Nat /\ Len(rows) \in Nat /\ k \in 1 .. Len(rows)
  BY LenProperties DEF LastIn
<1>3. \A i \in 1 .. Len(log) + Len(rows) :
        after[i] = IF i <= Len(log) THEN log[i] ELSE rows[i - Len(log)]
  BY ConcatProperties
<1> HIDE DEF after
<1>4. after[Len(log) + k] = rows[k]
  <2>1. /\ Len(log) + k \in 1 .. Len(log) + Len(rows) /\ ~(Len(log) + k <= Len(log))
        /\ Len(log) + k - Len(log) = k
    BY <1>2
  <2> QED
    BY <1>2, <1>3, <2>1
<1>5. ReplaysIn(after, new, initial, t, f)
  BY <1>1, <1>4 DEF ReplaysIn
<1> QED
  BY <1>5 DEF after

---------------------------------------------------------------------------
(* An update of a user ends with a row that records every field it writes. *)
LEMMA UpdateRecordedLast ==
  ASSUME NEW r \in Requests, request[r].op = "update_user", NEW f \in Dirty(r)
  PROVE  \E k : /\ LastIn(UserAuditRows(r), k, request[r].target, f)
                /\ UserAuditRows(r)[k].details[f] = Submitted(r)[f]
<1> DEFINE last == AuditRow(r, "USER_UPDATE", Dirty(r))
           e2 == AuditRow(r, "USER_ROLE_CHANGE", Dirty(r) \ {"is_active"})
           e3 == AuditRow(r, IF Submitted(r).is_active THEN "USER_ACTIVATE" ELSE "USER_DEACTIVATE", {})
           T == {e2, e3, last}
           a == IF "role" \in Dirty(r) THEN <<e2>> ELSE <<>>
           b == IF "is_active" \in Dirty(r) THEN <<e3>> ELSE <<>>
           rows == a \o b \o <<last>>
<1>1. UserAuditRows(r) = rows
  BY DEF UserAuditRows
<1>2. Records(last, request[r].target, f) /\ last.details[f] = Submitted(r)[f]
  BY DEF Records, AuditRow
<1> HIDE DEF last, e2, e3
<1>3. a \in Seq(T) /\ b \in Seq(T) /\ <<last>> \in Seq(T)
  <2>1. <<>> \in Seq(T) /\ <<e2>> \in Seq(T) /\ <<e3>> \in Seq(T) /\ <<last>> \in Seq(T)
    OBVIOUS
  <2> HIDE DEF T
  <2> QED
    BY <2>1
<1> HIDE DEF T, a, b
<1>4. a \o b \in Seq(T)
  BY <1>3
<1>5. /\ rows \in Seq(T) /\ Len(rows) = Len(a \o b) + 1 /\ Len(a \o b) \in Nat
      /\ rows[Len(rows)] = last
  <2> DEFINE front == a \o b
  <2>1. front \in Seq(T) /\ Len(front) \in Nat
    BY <1>4, LenProperties
  <2> HIDE DEF front
  <2>2. /\ front \o <<last>> \in Seq(T) /\ Len(front \o <<last>>) = Len(front) + 1
        /\ (front \o <<last>>)[Len(front) + 1] = last
    BY <1>3, <2>1
  <2> QED
    BY <2>1, <2>2 DEF front
<1> HIDE DEF rows
<1>6. DOMAIN rows = 1 .. Len(rows) /\ Len(rows) \in DOMAIN rows
  BY <1>5, LenProperties
<1>7. LastIn(rows, Len(rows), request[r].target, f)
  BY <1>2, <1>5, <1>6 DEF LastIn
<1> QED
  BY <1>1, <1>2, <1>5, <1>7

---------------------------------------------------------------------------
(* Preservation of the replay.                                             *)

LEMMA InitLog == Init => LogInv
<1> SUFFICES ASSUME Init PROVE LogInv
  OBVIOUS
<1>1. DOMAIN auditLog = {} /\ \A t, i, f : ~LastIn(auditLog, i, t, f)
  BY DEF Init, LastIn
<1>2. \A r \in Requests : users[r] = None /\ departments[r] = None
  BY AdministrationAssumption DEF Init, UserIds, DepartmentIds
<1>3. \A u \in UserIds : users[u] # None => u \in DOMAIN InitialUsers /\ users[u] = InitialUsers[u]
  BY DEF Init
<1>4. \A d \in DepartmentIds : departments[d] # None =>
        d \in DOMAIN InitialDepartments /\ departments[d] = InitialDepartments[d]
  BY DEF Init
<1>5. \A u \in UserIds : users[u] # None =>
        \A f \in UserFields : ReplaysIn(auditLog, users[u], InitialUsers, u, f)
  BY <1>1, <1>3 DEF ReplaysIn
<1>6. \A d \in DepartmentIds : departments[d] # None =>
        \A f \in DepartmentFields : ReplaysIn(auditLog, departments[d], InitialDepartments, d, f)
  BY <1>1, <1>4 DEF ReplaysIn
<1> QED
  BY <1>2, <1>5, <1>6 DEF Init, LogInv

(* A row that exists as a user does not exist as a department.             *)
LEMMA OneTable ==
  ASSUME LogInv, NEW t \in UserIds \cap DepartmentIds
  PROVE  t \in Requests /\ (users[t] = None \/ departments[t] = None)
BY AdministrationAssumption DEF LogInv, UserIds, DepartmentIds

LEMMA NoCommitLog ==
  ASSUME LogInv, UNCHANGED <<users, departments, auditLog>>,
         \A r \in Requests : request[r].pc = "done" => request'[r].pc = "done"
  PROVE  LogInv'
BY DEF LogInv, Exists

LEMMA CommitUserLog ==
  ASSUME IInv, LogInv, NEW r \in Requests, CommitUser(r)
  PROVE  LogInv'
<1> DEFINE t == request[r].target
           new == IF request[r].op \in CreateUser THEN NewUser(r) ELSE Updated(r, users[t])
           rows == UserAuditRows(r)
           log == auditLog
<1>1. Running(r) /\ RequestOK(r) /\ PayloadOK(r) /\ ReferenceOK(r) /\ request[r].pc = "commit"
  BY DEF CommitUser, IInv, TypeInv, RequestInv, RequestOK
<1>2. request[r].op \in CreateUser \/ request[r].op = "update_user"
  BY DEF CommitUser, UserOps
<1>3. t \in UserIds
  BY <1>1, <1>2 DEF PayloadOK, Targets, Creates, CreateUser, UserIds
<1>4. new \in UserRow
  BY <1>1, <1>2, NewUserType, UpdatedUser DEF RequestOK, RowOK, CreateUser
<1>5. PICK T : rows \in Seq(T) /\ \A e \in T : e.target = t
  BY RowsAboutTarget
<1>6. PICK S : log \in Seq(S)
  BY DEF IInv, TypeInv
<1>7. log \in Seq(S \cup T) /\ rows \in Seq(S \cup T)
  BY <1>5, <1>6, SeqMonotonic
<1>8. \A k \in DOMAIN rows : rows[k].target = t
  <2> TAKE k \in DOMAIN rows
  <2>1. rows[k] \in T
    BY <1>5, LenProperties, ElementOfSeq
  <2> QED
    BY <1>5, <2>1
<1>9. auditLog' = log \o rows /\ departments' = departments
  BY DEF CommitUser
<1>10. \A u \in UserIds : users'[u] = IF u = t THEN new ELSE users[u]
  BY DEF CommitUser, IInv, TypeInv
<1>11. new # None
  BY <1>4, AdministrationAssumption
<1>12. request[r].op \in CreateUser =>
         t = r /\ users[t] = None /\ departments[t] = None /\ \A i \in DOMAIN log : log[i].target # t
  BY <1>1 DEF PayloadOK, Targets, Creates, IInv, MintInv, LogInv, Exists
<1>13. request[r].op = "update_user" => users[t] \in UserRow /\ users[t] # None
  BY <1>1, AdministrationAssumption DEF RequestOK, RowOK
<1>14. \A s \in Requests : request'[s].pc # "done" => s # t /\ request[s].pc # "done"
  <2> TAKE s \in Requests
  <2>1. CASE s = r
    BY <2>1 DEF CommitUser, EndStale, Done, NoRequest
  <2>2. CASE s # r
    <3>1. request'[s].pc = request[s].pc
      <4>1. request'[s] = request[s] \/ request'[s] = [request[s] EXCEPT !.stale = TRUE]
        BY <2>2 DEF CommitUser, EndStale
      <4>2. DOMAIN request[s] = {"op", "pc", "target", "payload", "row", "stale"}
        BY DEF IInv, TypeInv, RequestInv, RequestOK
      <4> QED
        BY <4>1, <4>2
    <3>2. request[s].pc # "done" => users[s] = None
      BY DEF IInv, MintInv
    <3> QED
      BY <1>2, <1>12, <1>13, <2>2, <3>1, <3>2
  <2> QED
    BY <2>1, <2>2
<1>15. t \in Requests => departments[t] = None
  BY <1>2, <1>3, <1>12, <1>13, OneTable DEF DepartmentIds
<1>16. ASSUME NEW u \in UserIds, users'[u] # None, NEW f \in UserFields
       PROVE  ReplaysIn(log \o rows, users'[u], InitialUsers, u, f)
  <2>1. CASE u # t
    <3>1. ReplaysIn(log, users[u], InitialUsers, u, f) /\ users'[u] = users[u]
      BY <1>10, <1>16, <2>1 DEF LogInv
    <3>2. \A k \in DOMAIN rows : ~Records(rows[k], u, f)
      BY <1>8, <2>1 DEF Records
    <3> QED
      BY <1>7, <3>1, <3>2, ReplaysKept
  <2>2. CASE u = t /\ request[r].op = "update_user" /\ f \in Dirty(r)
    <3>1. PICK k : LastIn(rows, k, t, f) /\ rows[k].details[f] = Submitted(r)[f]
      BY <2>2, UpdateRecordedLast
    <3>2. new[f] = Submitted(r)[f]
      <4>1. f \in DOMAIN users[t] /\ f \in DOMAIN request[r].row /\ f \in DOMAIN request[r].payload
        BY <1>1, <1>13, <2>2 DEF RequestOK, RowOK, UserRow, Dirty, UserFields
      <4>2. new = Updated(r, users[t])
        BY <2>2 DEF CreateUser
      <4> QED
        BY <2>2, <4>1, <4>2 DEF Updated, Assigned
    <3> QED
      BY <1>3, <1>7, <1>10, <2>2, <3>1, <3>2, ReplaysRecorded
  <2>3. CASE u = t /\ request[r].op = "update_user" /\ f \notin Dirty(r)
    <3>1. ReplaysIn(log, users[t], InitialUsers, t, f)
      BY <1>3, <1>13, <2>3 DEF LogInv
    <3>2. \A k \in DOMAIN rows : ~Records(rows[k], t, f)
      BY <2>3, RowsAboutTarget DEF Records
    <3>3. new[f] = users[t][f]
      <4>1. f \in DOMAIN users[t]
        BY <1>13, <2>3 DEF UserRow, UserFields
      <4>2. new = Updated(r, users[t])
        BY <2>3 DEF CreateUser
      <4> QED
        BY <2>3, <4>1, <4>2 DEF Updated
    <3> HIDE DEF new, rows, log
    <3>4. ReplaysIn(log \o rows, new, InitialUsers, t, f)
      BY <1>7, <3>1, <3>2, <3>3, ReplaysKept
    <3> QED
      BY <1>3, <1>10, <2>3, <3>4
  <2>4. CASE u = t /\ request[r].op \in CreateUser
    <3>1. t \notin DOMAIN InitialUsers /\ \A i \in DOMAIN log : log[i].target # t
      BY <1>12, <2>4, AdministrationAssumption
    <3>2. CASE request[r].op = "create_user" /\ f = "role"
      <4>1. rows = <<AuditRow(r, "USER_CREATE", {"email", "role"})>>
        BY <3>2 DEF UserAuditRows
      <4>2. LastIn(rows, 1, t, f) /\ rows[1].details[f] = Submitted(r)[f]
        BY <3>2, <4>1 DEF LastIn, Records, AuditRow
      <4>3. new[f] = Submitted(r)[f]
        BY <2>4, <3>2 DEF NewUser
      <4>4. users'[u][f] = rows[1].details[f]
        BY <1>3, <1>10, <2>4, <4>2, <4>3
      <4> QED
        BY <1>7, <2>4, <4>2, <4>4, ReplaysRecorded
    <3>3. CASE ~(request[r].op = "create_user" /\ f = "role")
      <4>1. \A k \in DOMAIN rows : ~Records(rows[k], t, f)
        <5>1. CASE request[r].op = "create_admin"
          BY <5>1 DEF UserAuditRows
        <5>2. CASE request[r].op = "create_user"
          <6>1. rows = <<AuditRow(r, "USER_CREATE", {"email", "role"})>>
            BY <5>2 DEF UserAuditRows
          <6> QED
            BY <3>3, <5>2, <6>1 DEF Records, AuditRow, UserFields
        <5> QED
          BY <2>4, <5>1, <5>2 DEF CreateUser
      <4> QED
        BY <1>7, <2>4, <3>1, <4>1, ReplaysUnrecorded
    <3> QED
      BY <3>2, <3>3
  <2> QED
    BY <1>2, <2>1, <2>2, <2>3, <2>4
<1>17. ASSUME NEW d \in DepartmentIds, departments[d] # None, NEW f \in DepartmentFields
       PROVE  ReplaysIn(log \o rows, departments[d], InitialDepartments, d, f)
  <2>1. d # t
    BY <1>3, <1>15, <1>17, OneTable
  <2>2. ReplaysIn(log, departments[d], InitialDepartments, d, f)
    BY <1>17 DEF LogInv
  <2>3. \A k \in DOMAIN rows : ~Records(rows[k], d, f)
    BY <1>8, <2>1 DEF Records
  <2> QED
    BY <1>7, <2>2, <2>3, ReplaysKept
<1>18. (\A i \in DOMAIN auditLog : Exists(auditLog[i].target))'
  <2> DEFINE after == log \o rows
             ExistsAfter(x) == \/ x \in UserIds /\ users'[x] # None
                               \/ x \in DepartmentIds /\ departments'[x] # None
  <2>1. \A x : Exists(x) \/ x = t => ExistsAfter(x)
    BY <1>3, <1>9, <1>10, <1>11 DEF Exists
  <2>2. \A i \in DOMAIN after : after[i].target = t \/ Exists(after[i].target)
    BY <1>7, <1>8, RowsOfConcat DEF LogInv
  <2>3. auditLog' = after
    BY <1>9
  <2> HIDE DEF after
  <2>4. \A i \in DOMAIN auditLog' : ExistsAfter(auditLog'[i].target)
    BY <2>1, <2>2, <2>3
  <2> QED
    BY <2>4 DEF Exists
<1>19. /\ \A s \in Requests : request'[s].pc # "done" => departments'[s] = None
       /\ \A s \in Requests : users'[s] = None \/ departments'[s] = None
  <2>1. \A s \in Requests : s \in UserIds
    BY DEF UserIds
  <2> QED
    BY <1>9, <1>10, <1>14, <1>15, <2>1 DEF LogInv
<1> QED
  BY <1>9, <1>16, <1>17, <1>18, <1>19 DEF LogInv

LEMMA CommitDepartmentLog ==
  ASSUME IInv, LogInv, NEW r \in Requests, CommitDepartment(r)
  PROVE  LogInv'
<1> DEFINE t == request[r].target
           new == IF request[r].op = "create_department" THEN NewDepartment(r)
                                                         ELSE Updated(r, departments[t])
           rows == DepartmentAuditRows(r)
           log == auditLog
           row == AuditRow(r, "DEPARTMENT_UPDATE", Dirty(r) \cup (DOMAIN request[r].payload \cap {"name"}))
<1>1. Running(r) /\ RequestOK(r) /\ PayloadOK(r) /\ ReferenceOK(r) /\ request[r].pc = "commit"
  BY DEF CommitDepartment, IInv, TypeInv, RequestInv, RequestOK
<1>2. request[r].op = "create_department" \/ request[r].op = "update_department"
  BY DEF CommitDepartment, DepartmentOps
<1>3. t \in DepartmentIds
  BY <1>1, <1>2 DEF PayloadOK, Targets, Creates, CreateUser, DepartmentIds
<1>4. new \in DepartmentRow
  BY <1>1, <1>2, NewDepartmentType, UpdatedDepartment DEF RequestOK, RowOK
<1>5. PICK T : rows \in Seq(T) /\ \A e \in T : e.target = t
  BY RowsAboutTarget
<1>6. PICK S : log \in Seq(S)
  BY DEF IInv, TypeInv
<1>7. log \in Seq(S \cup T) /\ rows \in Seq(S \cup T)
  BY <1>5, <1>6, SeqMonotonic
<1>8. \A k \in DOMAIN rows : rows[k].target = t
  <2> TAKE k \in DOMAIN rows
  <2>1. rows[k] \in T
    BY <1>5, LenProperties, ElementOfSeq
  <2> QED
    BY <1>5, <2>1
<1>9. auditLog' = log \o rows /\ users' = users
  BY DEF CommitDepartment
<1>10. \A d \in DepartmentIds : departments'[d] = IF d = t THEN new ELSE departments[d]
  BY DEF CommitDepartment, IInv, TypeInv
<1>11. new # None
  BY <1>4, AdministrationAssumption
<1>12. request[r].op = "create_department" =>
         t = r /\ users[t] = None /\ departments[t] = None /\ \A i \in DOMAIN log : log[i].target # t
  BY <1>1 DEF PayloadOK, Targets, Creates, IInv, MintInv, LogInv, Exists
<1>13. request[r].op = "update_department" => departments[t] \in DepartmentRow /\ departments[t] # None
  BY <1>1, AdministrationAssumption DEF RequestOK, RowOK
<1>14. \A s \in Requests : request'[s].pc # "done" => s # t /\ departments[s] = None
  <2> TAKE s \in Requests
  <2>1. CASE s = r
    BY <2>1 DEF CommitDepartment, IInv, TypeInv, RequestInv, Done, NoRequest
  <2>2. CASE s # r
    <3>1. request'[s] = request[s]
      BY <2>2 DEF CommitDepartment
    <3>2. request[s].pc # "done" => departments[s] = None
      BY DEF LogInv
    <3> QED
      BY <1>2, <1>12, <1>13, <2>2, <3>1, <3>2
  <2> QED
    BY <2>1, <2>2
<1>15. t \in Requests => users[t] = None
  BY <1>2, <1>3, <1>12, <1>13, OneTable DEF UserIds
<1>16. ASSUME NEW d \in DepartmentIds, departments'[d] # None, NEW f \in DepartmentFields
       PROVE  ReplaysIn(log \o rows, departments'[d], InitialDepartments, d, f)
  <2>1. CASE d # t
    <3>1. ReplaysIn(log, departments[d], InitialDepartments, d, f) /\ departments'[d] = departments[d]
      BY <1>10, <1>16, <2>1 DEF LogInv
    <3>2. \A k \in DOMAIN rows : ~Records(rows[k], d, f)
      BY <1>8, <2>1 DEF Records
    <3> QED
      BY <1>7, <3>1, <3>2, ReplaysKept
  <2>2. CASE d = t /\ request[r].op = "update_department" /\ f \in Dirty(r)
    <3>1. rows = <<row>>
      BY <2>2 DEF DepartmentAuditRows
    <3>2. LastIn(rows, 1, t, f) /\ rows[1].details[f] = Submitted(r)[f]
      BY <2>2, <3>1 DEF LastIn, Records, AuditRow
    <3>3. new[f] = Submitted(r)[f]
      <4>1. f \in DOMAIN departments[t] /\ f \in DOMAIN request[r].row /\ f \in DOMAIN request[r].payload
        BY <1>1, <1>13, <2>2 DEF RequestOK, RowOK, DepartmentRow, Dirty, DepartmentFields
      <4>2. new = Updated(r, departments[t])
        BY <2>2
      <4> QED
        BY <2>2, <4>1, <4>2 DEF Updated, Assigned
    <3>4. departments'[d][f] = rows[1].details[f]
      BY <1>3, <1>10, <2>2, <3>2, <3>3
    <3> QED
      BY <1>7, <2>2, <3>2, <3>4, ReplaysRecorded
  <2>3. CASE d = t /\ request[r].op = "update_department" /\ f \notin Dirty(r)
    <3>1. ReplaysIn(log, departments[t], InitialDepartments, t, f)
      BY <1>3, <1>13, <2>3 DEF LogInv
    <3>2. \A k \in DOMAIN rows : ~Records(rows[k], t, f)
      <4>1. rows = <<row>> \/ rows = <<>>
        BY <2>3 DEF DepartmentAuditRows
      <4>2. ~Records(row, t, f)
        BY <2>3 DEF Records, AuditRow, DepartmentFields
      <4> QED
        BY <4>1, <4>2
    <3>3. new[f] = departments[t][f]
      <4>1. f \in DOMAIN departments[t]
        BY <1>13, <2>3 DEF DepartmentRow, DepartmentFields
      <4>2. new = Updated(r, departments[t])
        BY <2>3
      <4> QED
        BY <2>3, <4>1, <4>2 DEF Updated
    <3> HIDE DEF new, rows, log
    <3>4. ReplaysIn(log \o rows, new, InitialDepartments, t, f)
      BY <1>7, <3>1, <3>2, <3>3, ReplaysKept
    <3> QED
      BY <1>3, <1>10, <2>3, <3>4
  <2>4. CASE d = t /\ request[r].op = "create_department"
    <3>1. t \notin DOMAIN InitialDepartments /\ \A i \in DOMAIN log : log[i].target # t
      BY <1>12, <2>4, AdministrationAssumption
    <3>2. \A k \in DOMAIN rows : ~Records(rows[k], t, f)
      <4>1. rows = <<AuditRow(r, "DEPARTMENT_CREATE", {"name"})>>
        BY <2>4 DEF DepartmentAuditRows
      <4> QED
        BY <4>1 DEF Records, AuditRow, DepartmentFields
    <3> QED
      BY <1>7, <2>4, <3>1, <3>2, ReplaysUnrecorded
  <2> QED
    BY <1>2, <2>1, <2>2, <2>3, <2>4
<1>17. ASSUME NEW u \in UserIds, users[u] # None, NEW f \in UserFields
       PROVE  ReplaysIn(log \o rows, users[u], InitialUsers, u, f)
  <2>1. u # t
    BY <1>3, <1>15, <1>17, OneTable
  <2>2. ReplaysIn(log, users[u], InitialUsers, u, f)
    BY <1>17 DEF LogInv
  <2>3. \A k \in DOMAIN rows : ~Records(rows[k], u, f)
    BY <1>8, <2>1 DEF Records
  <2> QED
    BY <1>7, <2>2, <2>3, ReplaysKept
<1>18. (\A i \in DOMAIN auditLog : Exists(auditLog[i].target))'
  <2> DEFINE after == log \o rows
             ExistsAfter(x) == \/ x \in UserIds /\ users'[x] # None
                               \/ x \in DepartmentIds /\ departments'[x] # None
  <2>1. \A x : Exists(x) \/ x = t => ExistsAfter(x)
    BY <1>3, <1>9, <1>10, <1>11 DEF Exists
  <2>2. \A i \in DOMAIN after : after[i].target = t \/ Exists(after[i].target)
    BY <1>7, <1>8, RowsOfConcat DEF LogInv
  <2>3. auditLog' = after
    BY <1>9
  <2> HIDE DEF after
  <2>4. \A i \in DOMAIN auditLog' : ExistsAfter(auditLog'[i].target)
    BY <2>1, <2>2, <2>3
  <2> QED
    BY <2>4 DEF Exists
<1>19. /\ \A s \in Requests : request'[s].pc # "done" => departments'[s] = None
       /\ \A s \in Requests : users'[s] = None \/ departments'[s] = None
  <2>1. \A s \in Requests : s \in DepartmentIds
    BY DEF DepartmentIds
  <2> QED
    BY <1>9, <1>10, <1>14, <1>15, <2>1 DEF LogInv
<1> QED
  BY <1>9, <1>16, <1>17, <1>18, <1>19 DEF LogInv

LEMMA NextLog == IInv /\ LogInv /\ [Next]_vars => LogInv'
<1> SUFFICES ASSUME IInv, LogInv, [Next]_vars PROVE LogInv'
  OBVIOUS
<1>1. CASE UNCHANGED vars
  BY <1>1, NoCommitLog DEF vars
<1>2. ASSUME NEW r \in Requests, CommitUser(r) PROVE LogInv'
  BY <1>2, CommitUserLog
<1>3. ASSUME NEW r \in Requests, CommitDepartment(r) PROVE LogInv'
  BY <1>3, CommitDepartmentLog
<1>4. ASSUME NEW r \in Requests,
             \/ Receive(r) \/ ReadTarget(r) \/ LookUpReference(r) \/ LookUpKey(r)
             \/ CountSystemAdmins(r) \/ Fails(r)
      PROVE  LogInv'
  <2>1. UNCHANGED <<users, departments, auditLog>> /\ request[r].pc # "done"
    BY <1>4 DEF Receive, ReadTarget, LookUpReference, LookUpKey, CountSystemAdmins, Fails, End, Continue
  <2>2. \A s \in Requests \ {r} : request'[s] = request[s]
    BY <1>4 DEF Receive, ReadTarget, LookUpReference, LookUpKey, CountSystemAdmins, Fails, End, Continue,
                Goto, IInv, TypeInv, RequestInv
  <2> QED
    BY <2>1, <2>2, NoCommitLog
<1> QED
  BY <1>1, <1>2, <1>3, <1>4 DEF Next

---------------------------------------------------------------------------
(* From the order of the commits to the dates of the rows.                 *)

(* A row is dated with a request that has ended, and the rows of one       *)
(* request agree.                                                          *)
StampInv ==
  /\ \A i \in DOMAIN auditLog : /\ auditLog[i].created_at \in Requests
                                /\ request[auditLog[i].created_at].pc = "done"
  /\ \A i, j \in DOMAIN auditLog : auditLog[i].created_at = auditLog[j].created_at =>
       \A f \in DOMAIN auditLog[i].details \cap DOMAIN auditLog[j].details :
         auditLog[i].details[f] = auditLog[j].details[f]

LEMMA CommitStamps ==
  ASSUME IInv, StampInv, NEW r \in Requests, request[r].pc = "commit", request'[r].pc = "done",
         \A s \in Requests : request[s].pc = "done" => request'[s].pc = "done",
         NEW T, NEW rows \in Seq(T), \A e \in T : WrittenBy(e, r), auditLog' = auditLog \o rows
  PROVE  StampInv'
<1> DEFINE log == auditLog
           new == log \o rows
           Old(e) == e.created_at \in Requests /\ request[e.created_at].pc = "done"
<1>1. PICK S : log \in Seq(S)
  BY DEF IInv, TypeInv
<1>2. log \in Seq(S \cup T) /\ rows \in Seq(S \cup T)
  BY <1>1, SeqMonotonic
<1>3. \A k \in DOMAIN rows : WrittenBy(rows[k], r)
  <2> TAKE k \in DOMAIN rows
  <2>1. rows[k] \in T
    BY LenProperties, ElementOfSeq
  <2> QED
    BY <2>1
<1>4. \A j \in DOMAIN log : Old(log[j])
  BY DEF StampInv
<1>5. \A i \in DOMAIN new : (\E j \in DOMAIN log : new[i] = log[j]) \/ WrittenBy(new[i], r)
  BY <1>2, <1>3, RowsOfConcat
<1>6. auditLog' = new
  OBVIOUS
<1> HIDE DEF new
<1>7. ASSUME NEW i \in DOMAIN new
      PROVE  new[i].created_at \in Requests /\ request'[new[i].created_at].pc = "done"
  BY <1>4, <1>5 DEF WrittenBy
<1>8. ASSUME NEW i \in DOMAIN new, NEW j \in DOMAIN new, new[i].created_at = new[j].created_at,
             NEW f \in DOMAIN new[i].details \cap DOMAIN new[j].details
      PROVE  new[i].details[f] = new[j].details[f]
  <2>1. CASE WrittenBy(new[i], r) /\ WrittenBy(new[j], r)
    BY <2>1 DEF WrittenBy
  <2>2. CASE (\E k \in DOMAIN log : new[i] = log[k]) /\ (\E k \in DOMAIN log : new[j] = log[k])
    BY <1>8, <2>2 DEF StampInv
  <2>3. ASSUME NEW a \in DOMAIN new, NEW b \in DOMAIN new, NEW k \in DOMAIN log,
               new[a] = log[k], WrittenBy(new[b], r), new[a].created_at = new[b].created_at
        PROVE  FALSE
    BY <1>4, <2>3 DEF WrittenBy
  <2> QED
    BY <1>5, <1>8, <2>1, <2>2, <2>3
<1> QED
  BY <1>6, <1>7, <1>8 DEF StampInv

LEMMA NextStamps == IInv /\ StampInv /\ [Next]_vars => StampInv'
<1> SUFFICES ASSUME IInv, StampInv, [Next]_vars PROVE StampInv'
  OBVIOUS
<1>1. ASSUME auditLog' = auditLog,
             \A s \in Requests : request[s].pc = "done" => request'[s].pc = "done"
      PROVE  StampInv'
  BY <1>1 DEF StampInv
<1>2. CASE UNCHANGED vars
  BY <1>1, <1>2 DEF vars
<1>3. ASSUME NEW r \in Requests, CommitUser(r) PROVE StampInv'
  <2>1. request[r].pc = "commit" /\ auditLog' = auditLog \o UserAuditRows(r)
    BY <1>3 DEF CommitUser
  <2>2. request'[r].pc = "done"
    BY <1>3 DEF CommitUser, EndStale, Done, NoRequest
  <2>3. \A s \in Requests \ {r} : request[s].pc = "done" => request'[s].pc = "done"
    BY <1>3 DEF CommitUser, EndStale, Running
  <2> QED
    BY <2>1, <2>2, <2>3, RowsAboutTarget, CommitStamps
<1>4. ASSUME NEW r \in Requests, CommitDepartment(r) PROVE StampInv'
  <2>1. request[r].pc = "commit" /\ auditLog' = auditLog \o DepartmentAuditRows(r)
    BY <1>4 DEF CommitDepartment
  <2>2. request'[r].pc = "done" /\ \A s \in Requests \ {r} : request'[s] = request[s]
    BY <1>4 DEF CommitDepartment, Done, NoRequest, IInv, TypeInv, RequestInv
  <2> QED
    BY <2>1, <2>2, RowsAboutTarget, CommitStamps
<1>5. ASSUME NEW r \in Requests,
             \/ Receive(r) \/ ReadTarget(r) \/ LookUpReference(r) \/ LookUpKey(r)
             \/ CountSystemAdmins(r) \/ Fails(r)
      PROVE  StampInv'
  <2>1. auditLog' = auditLog /\ request[r].pc # "done"
    BY <1>5 DEF Receive, ReadTarget, LookUpReference, LookUpKey, CountSystemAdmins, Fails, End, Continue
  <2>2. \A s \in Requests \ {r} : request'[s] = request[s]
    BY <1>5 DEF Receive, ReadTarget, LookUpReference, LookUpKey, CountSystemAdmins, Fails, End, Continue,
                Goto, IInv, TypeInv, RequestInv
  <2> QED
    BY <1>1, <2>1, <2>2
<1> QED
  BY <1>2, <1>3, <1>4, <1>5 DEF Next

(* The row that was committed last is the one that is dated latest, or it  *)
(* overtook that one.                                                      *)
LEMMA ReplaysByDate ==
  ASSUME IInv, StampInv, NEW table, NEW initial, NEW t, NEW f,
         ReplaysIn(auditLog, table[t], initial, t, f)
  PROVE  Replays(table, initial, t, f)
<1>1. ASSUME NEW i \in DOMAIN auditLog, LatestRecord(i, t, f)
      PROVE  table[t][f] = auditLog[i].details[f] \/ Overtaken(i, t, f)
  <2>1. PICK j : LastIn(auditLog, j, t, f)
    BY <1>1 DEF LatestRecord, ReplaysIn
  <2>2. /\ j \in DOMAIN auditLog /\ Records(auditLog[j], t, f) /\ i <= j
        /\ Records(auditLog[i], t, f) /\ auditLog[j].created_at <= auditLog[i].created_at
    BY <1>1, <2>1 DEF LatestRecord, LastIn
  <2>3. table[t][f] = auditLog[j].details[f]
    BY <2>1 DEF ReplaysIn
  <2>4. auditLog[i].created_at \in Nat /\ auditLog[j].created_at \in Nat
    BY <2>2, AdministrationAssumption DEF StampInv
  <2>5. i \in Nat /\ j \in Nat
    BY <2>2, LenProperties DEF IInv, TypeInv
  <2>6. CASE auditLog[j].created_at = auditLog[i].created_at
    BY <2>2, <2>3, <2>6 DEF StampInv, Records
  <2>7. CASE auditLog[j].created_at < auditLog[i].created_at
    <3>1. j > i
      BY <2>2, <2>4, <2>5, <2>7
    <3> QED
      BY <2>2, <2>7, <3>1 DEF Overtaken
  <2> QED
    BY <2>2, <2>4, <2>6, <2>7
<1>2. ~(\E i \in DOMAIN auditLog : Records(auditLog[i], t, f)) => ~\E i : LastIn(auditLog, i, t, f)
  BY DEF LastIn
<1> QED
  BY <1>1, <1>2 DEF Replays, ReplaysIn

(* The audit log, read by the dates of its rows, explains the role, the    *)
(* activity and the department of a user and the activity and the parent   *)
(* of a department, for any number of overlapping administrators: only a   *)
(* change of the same field by a transaction that started earlier and      *)
(* committed later makes the latest row on a field differ from the table.  *)
THEOREM LogReplaysTables == Spec => []AuditReplaysTables
<1>1. IInv /\ LogInv /\ StampInv => AuditReplaysTables
  <2> SUFFICES ASSUME IInv, LogInv, StampInv PROVE AuditReplaysTables
    OBVIOUS
  <2>1. ASSUME NEW u \in UserIds, users[u] # None, NEW f \in {"role", "is_active", "department_id"}
        PROVE  Replays(users, InitialUsers, u, f)
    BY <2>1, ReplaysByDate DEF LogInv, UserFields
  <2>2. ASSUME NEW d \in DepartmentIds, departments[d] # None, NEW f \in {"is_active", "parent_id"}
        PROVE  Replays(departments, InitialDepartments, d, f)
    BY <2>2, ReplaysByDate DEF LogInv, DepartmentFields
  <2> QED
    BY <2>1, <2>2 DEF AuditReplaysTables
<1>2. Init => StampInv
  BY DEF Init, StampInv
<1> QED
  BY <1>1, <1>2, InitLog, NextLog, NextStamps, InductiveInvariant, PTL DEF Spec
=============================================================================
