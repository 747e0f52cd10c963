------------------------ MODULE DocumentAcl_proofs ------------------------
(***************************************************************************)
(* Proofs about sharing: the two decisions on access agree, a principal    *)
(* has a permission at most once, the audit log explains the ACL, and some *)
(* request can always go on until all have ended.                          *)
(***************************************************************************)
EXTENDS DocumentAcl, Naturals, FiniteSetTheorems, WellFoundedInduction, TLAPS

---------------------------------------------------------------------------
(* The two rules of documents/access.py.                                   *)

(* The SQL predicate of the lists and the Python rule of the single        *)
(* requests agree on every user, document, permission and ACL table.       *)
THEOREM PredicateAgrees ==
  ASSUME NEW user, NEW document, NEW E, NEW activeDepartments, NEW p
  PROVE  AccessPredicate(user, document, E, activeDepartments, p)
           <=> HasDocumentPermission(user, document,
                 GrantedPermissions(user, document, E, activeDepartments), p)
  <1> DEFINE Row(e, principal) == /\ e.document_id = document.id
                                  /\ e.principal = principal
                                  /\ e.permission \in ImpliedPermissions(p)
  <1>1. GrantedPermissions(user, document, E, activeDepartments) \cap ImpliedPermissions(p) # {}
          <=> \/ \E e \in E : Row(e, user.id)
              \/ /\ user.department_id # None /\ user.department_id \in activeDepartments
                 /\ \E e \in E : Row(e, user.department_id)
    BY DEF GrantedPermissions, Applies
  <1> QED
    BY <1>1 DEF AccessPredicate, HasDocumentPermission

(* A permission of any kind shows the metadata of the document.            *)
THEOREM AnyPermissionShowsMetadata ==
  ASSUME NEW user, NEW document, NEW granted, NEW p \in Permissions,
         HasDocumentPermission(user, document, granted, p)
  PROVE  HasDocumentPermission(user, document, granted, "VIEW_METADATA")
  BY DEF HasDocumentPermission, ImpliedPermissions, Permissions

(* No list shows a document that a single request refuses, nor hides one   *)
(* that it serves, in any state of the ACL.                                *)
THEOREM ListsAgree == Spec => []ListMatchesCheck
  <1>1. ListMatchesCheck
    BY PredicateAgrees DEF ListMatchesCheck, Granted
  <1> QED
    BY <1>1, PTL

---------------------------------------------------------------------------
(* The inductive invariant.                                                *)

After == {"rollback", "record", "done"}

(* What the step of a request says about the rest of its local state.      *)
LocalShape(q) ==
  /\ q.pc # "idle" => q.op \in {"grant", "revoke"}
  /\ q.pc \in {"principal", "find", "insert", "rollback", "record"} => q.op = "grant"
  /\ q.pc \in {"entry", "delete"} => q.op = "revoke"
  /\ q.pc \notin {"idle", "done"} => q.actor \in Users
  /\ q.op = "grant" => q.principal \in Principals
  /\ q.pc = "insert" => q.todo # <<>>
  /\ q.pc \notin {"find", "insert", "commit", "rollback"} => q.written = {}
LocalShapes == \A r \in Requests : LocalShape(request[r])

(* A grant writes rows of its own, a revoke the entry it names.            *)
OwnRows ==
  \A r \in Requests : \A e \in request[r].written :
    IF request[r].op = "grant"
    THEN /\ e.id = <<r, e.permission>>
         /\ e.principal = request[r].principal
    ELSE e \in request[r].entry

(* The unique indexes: no key is written twice by open transactions, nor   *)
(* by an open grant and a committed one.                                   *)
IndexesHold ==
  \A r \in Requests : request[r].op = "grant" =>
    \A e \in request[r].written :
      /\ \A f \in entries : ~SameKey(e, f)
      /\ \A s \in Requests \ {r} : request[s].op = "grant" =>
           \A f \in request[s].written : ~SameKey(e, f)

(* Every entry an audit row names was inserted by a grant that committed.  *)
AuditHasOrigin ==
  /\ \A a \in auditLog : /\ request[a.request].op \in {"grant", "revoke"}
                         /\ request[a.request].pc # "idle"
                         /\ a.entries \subseteq Audited("grant")
  /\ \A e \in Audited("grant") : request[e.id[1]].pc \in After
                                 /\ request[e.id[1]].op = "grant"

(* A revoke names an entry of an earlier grant, and the transaction that   *)
(* deletes it holds its row if it still exists.                            *)
RevokesHold ==
  \A r \in Requests :
    /\ request[r].entry \subseteq Audited("grant")
    /\ request[r].op = "revoke" /\ request[r].pc = "commit"
         => request[r].entry \cap entries \subseteq request[r].written

IInv == /\ TypeOK /\ LocalShapes /\ OwnRows /\ IndexesHold /\ AuditHasOrigin
        /\ RevokesHold /\ NoDuplicateEntries /\ AuditReplaysAcl

---------------------------------------------------------------------------
(* Quiet steps: one request moves on and writes no row.                    *)

Quiet(r) ==
  /\ request' \in [Requests -> RequestState]
  /\ \A s \in Requests \ {r} : request'[s] = request[s]
  /\ LocalShape(request'[r])
  /\ request'[r].written \subseteq request[r].written
  /\ request'[r].pc # "idle"
  /\ request[r].pc # "idle" => /\ request'[r].op = request[r].op
                               /\ request'[r].principal = request[r].principal
  /\ request[r].pc \in After => request'[r].pc \in After
  /\ request'[r].entry \subseteq Audited("grant")
  /\ request'[r].entry = request[r].entry \/ request'[r].written = {}
  /\ request'[r].op = "revoke" => request'[r].pc # "commit"

\* The audit log gains no success row.
NoSuccess ==
  /\ auditLog \subseteq auditLog'
  /\ \A a \in auditLog' \ auditLog :
       /\ a \in AuditRow /\ a.result = "failed" /\ a.entries = {}
       /\ request[a.request].op = "grant" /\ request[a.request].pc # "idle"

LEMMA QuietAudit ==
  ASSUME IInv, NEW r \in Requests, Quiet(r), NoSuccess
  PROVE  Audited("grant")' = Audited("grant") /\ Audited("revoke")' = Audited("revoke")
  <1>1. \A a \in auditLog : request'[a.request].op = request[a.request].op
    BY DEF IInv, AuditHasOrigin, Quiet, TypeOK, AuditRow
  <1>2. \A a \in auditLog' : a.result = "success" => a \in auditLog
    BY DEF NoSuccess
  <1> QED
    BY <1>1, <1>2 DEF Audited, NoSuccess

LEMMA QuietKeeps ==
  ASSUME IInv, NEW r \in Requests, Quiet(r), NoSuccess, UNCHANGED <<entries, active, deleted>>
  PROVE  IInv'
  <1>1. Audited("grant")' = Audited("grant") /\ Audited("revoke")' = Audited("revoke")
    BY QuietAudit
  <1>2. \A s \in Requests : request'[s].written \subseteq request[s].written
    BY DEF Quiet
  <1>3. \A s \in Requests : request[s].pc # "idle" =>
          /\ request'[s].op = request[s].op
          /\ request'[s].principal = request[s].principal
          /\ request'[s].pc # "idle"
    BY DEF Quiet
  <1>4. \A s \in Requests : request[s].pc = "idle" => request[s].written = {}
    BY DEF IInv, LocalShapes, LocalShape
  <1>5. TypeOK'
    BY DEF IInv, TypeOK, Quiet, NoSuccess
  <1>6. LocalShapes'
    BY DEF IInv, LocalShapes, Quiet
  <1>7. OwnRows'
    <2> SUFFICES ASSUME NEW s \in Requests, NEW e \in request'[s].written
                 PROVE  IF request'[s].op = "grant"
                        THEN e.id = <<s, e.permission>> /\ e.principal = request'[s].principal
                        ELSE e \in request'[s].entry
      BY DEF OwnRows
    <2>1. e \in request[s].written /\ request[s].pc # "idle"
      BY <1>2, <1>4
    <2>2. request'[s].entry = request[s].entry
      BY DEF Quiet
    <2> QED
      BY <1>3, <2>1, <2>2 DEF IInv, OwnRows
  <1>8. IndexesHold'
    <2>1. \A s \in Requests : request'[s].op = "grant" /\ request'[s].written # {}
            => request[s].op = "grant"
      BY <1>2, <1>3, <1>4
    <2> QED
      BY <1>2, <2>1 DEF IInv, IndexesHold, SameKey
  <1>9. AuditHasOrigin'
    <2>1. \A a \in auditLog' : a.request \in Requests
      BY <1>5 DEF TypeOK, AuditRow
    <2>2. \A a \in auditLog' : /\ request[a.request].op \in {"grant", "revoke"}
                               /\ request[a.request].pc # "idle"
                               /\ a.entries \subseteq Audited("grant")
      BY DEF IInv, AuditHasOrigin, NoSuccess
    <2>3. \A e \in Audited("grant") : e.id[1] \in Requests
      BY DEF Audited, IInv, TypeOK, AuditRow, Entry
    <2>4. \A e \in Audited("grant") : /\ request'[e.id[1]].pc \in After
                                      /\ request'[e.id[1]].op = "grant"
      BY <1>3, <2>3 DEF IInv, AuditHasOrigin, Quiet, After
    <2> QED
      BY <1>1, <1>3, <2>1, <2>2, <2>4 DEF AuditHasOrigin
  <1>10. RevokesHold'
    BY <1>1 DEF IInv, RevokesHold, Quiet
  <1>11. NoDuplicateEntries' /\ AuditReplaysAcl'
    BY <1>1 DEF IInv, NoDuplicateEntries, AuditReplaysAcl, SameKey
  <1> QED
    BY <1>5, <1>6, <1>7, <1>8, <1>9, <1>10, <1>11 DEF IInv

LEMMA NoRequestTyped == NoRequest \in RequestState
  <1>1. <<>> \in Seq(Permissions)
    OBVIOUS
  <1> QED
    BY <1>1 DEF NoRequest, RequestState, Steps

LEMMA EndIsQuiet ==
  ASSUME IInv, NEW r \in Requests, request[r].pc # "idle",
         NEW e \in Errors \cup {None}, End(r, e)
  PROVE  Quiet(r) /\ request'[r].pc = "done" /\ request'[r].written = {}
  <1>1. request[r] \in RequestState /\ LocalShape(request[r])
    BY DEF IInv, TypeOK, LocalShapes
  <1>2. Ended(r, e) \in RequestState
    BY <1>1, NoRequestTyped DEF Ended, RequestState, Steps
  <1>3. /\ request' = [request EXCEPT ![r] = Ended(r, e)]
        /\ request \in [Requests -> RequestState]
    BY DEF End, IInv, TypeOK
  <1>4. request'[r] = Ended(r, e) /\ \A s \in Requests \ {r} : request'[s] = request[s]
    BY <1>3
  <1>5. LocalShape(Ended(r, e))
    BY <1>1 DEF LocalShape, Ended, NoRequest
  <1> QED
    BY <1>2, <1>3, <1>4, <1>5 DEF Quiet, Ended, NoRequest, After

LEMMA GotoIsQuiet ==
  ASSUME IInv, NEW r \in Requests, NEW step \in Steps, Goto(r, step),
         step # "idle", request[r].pc \notin After, request[r].pc # "idle",
         LocalShape([request[r] EXCEPT !.pc = step]),
         step = "commit" => request[r].op = "grant"
  PROVE  Quiet(r)
  <1>1. request[r] \in RequestState /\ request \in [Requests -> RequestState]
    BY DEF IInv, TypeOK
  <1>2. /\ request' = [request EXCEPT ![r] = [request[r] EXCEPT !.pc = step]]
        /\ [request[r] EXCEPT !.pc = step] \in RequestState
    BY <1>1 DEF Goto, RequestState
  <1>3. /\ request'[r] = [request[r] EXCEPT !.pc = step]
        /\ \A s \in Requests \ {r} : request'[s] = request[s]
    BY <1>1, <1>2
  <1> QED
    BY <1>1, <1>2, <1>3 DEF Quiet, RequestState, IInv, RevokesHold

\* An exception in the transaction.
LEMMA RaiseIsQuiet ==
  ASSUME IInv, NEW r \in Requests, Raise(r),
         request[r].pc \in {"find", "insert", "delete", "commit"}
  PROVE  Quiet(r)
  <1>1. LocalShape(request[r]) /\ request[r] \in RequestState
    BY DEF IInv, LocalShapes, TypeOK
  <1>2. CASE request[r].op = "grant"
    <2>1. LocalShape([request[r] EXCEPT !.pc = "rollback"])
      BY <1>1, <1>2 DEF LocalShape, RequestState
    <2> QED
      BY <1>2, <2>1, GotoIsQuiet DEF Raise, Steps, After
  <1>3. CASE request[r].op # "grant"
    BY <1>3, EndIsQuiet DEF Raise, Errors
  <1> QED
    BY <1>2, <1>3

---------------------------------------------------------------------------
(* The steps.                                                              *)

LEMMA InitIInv == Init => IInv
  <1> SUFFICES ASSUME Init PROVE IInv
    OBVIOUS
  <1>1. TypeOK
    BY NoRequestTyped DEF Init, TypeOK
  <1>2. Audited("grant") = {} /\ Audited("revoke") = {}
    BY DEF Init, Audited
  <1>3. LocalShapes /\ OwnRows /\ IndexesHold
    BY AclAssumption DEF Init, NoRequest, LocalShapes, LocalShape, OwnRows, IndexesHold
  <1>4. AuditHasOrigin /\ RevokesHold
    BY <1>2 DEF Init, NoRequest, AuditHasOrigin, RevokesHold
  <1> QED
    BY <1>1, <1>2, <1>3, <1>4 DEF Init, IInv, NoDuplicateEntries, AuditReplaysAcl

\* The steps of a request that write no row.
QuietStep(r) ==
  \/ Receive(r) \/ CheckManageAcl(r) \/ FindPrincipal(r) \/ FindEntry(r)
  \/ DeadlockDetected(r) \/ FindRevoked(r) \/ StatementFails(r) \/ CommitFails(r)
  \/ Rollback(r) \/ RecordFailure(r)

LEMMA ReceiveIsQuiet ==
  ASSUME IInv, NEW r \in Requests, Receive(r)
  PROVE  Quiet(r)
  <1>1. request[r].pc = "idle" /\ request \in [Requests -> RequestState]
    BY DEF Receive, ReceiveGrant, ReceiveRevoke, Receives, IInv, TypeOK
  <1>2. CASE \E u \in Users, payload \in Payloads : ReceiveGrant(r, u, payload[1], payload[2])
    <2>1. PICK u \in Users, payload \in Payloads : ReceiveGrant(r, u, payload[1], payload[2])
      BY <1>2
    <2>2. payload[1] \in Principals /\ payload[2] \in Seq(Permissions)
      BY AclAssumption DEF Principals
    <2>3. request'[r] = [NoRequest EXCEPT !.op = "grant", !.pc = "permissions", !.actor = u,
                           !.principal = payload[1], !.permissions = payload[2],
                           !.todo = payload[2]]
          /\ \A s \in Requests \ {r} : request'[s] = request[s]
      BY <1>1, <2>1 DEF ReceiveGrant
    <2>4. request'[r] \in RequestState /\ LocalShape(request'[r])
      BY <2>2, <2>3, NoRequestTyped, ZenonT(40) DEF NoRequest, RequestState, Steps, LocalShape
    <2>5. request' \in [Requests -> RequestState]
      BY <1>1, <2>1, <2>3, <2>4 DEF ReceiveGrant
    <2> QED
      BY <1>1, <2>3, <2>4, <2>5 DEF Quiet, NoRequest, After
  <1>3. CASE \E u \in Users, a \in auditLog : \E e \in a.entries : ReceiveRevoke(r, u, e)
    <2>u. PICK u \in Users, a \in auditLog : \E e \in a.entries : ReceiveRevoke(r, u, e)
      BY <1>3
    <2>1. PICK e \in a.entries : ReceiveRevoke(r, u, e)
      BY <2>u
    <2>2. e \in Entry /\ e \in Audited("grant")
      BY DEF IInv, TypeOK, AuditRow, AuditHasOrigin
    <2>3. request'[r] = [NoRequest EXCEPT !.op = "revoke", !.pc = "permissions", !.actor = u,
                                          !.entry = {e}]
          /\ \A s \in Requests \ {r} : request'[s] = request[s]
      BY <1>1, <2>1 DEF ReceiveRevoke
    <2>4. request'[r] \in RequestState /\ LocalShape(request'[r])
      <3>1. {e} \in SUBSET Entry
        BY <2>2
      <3>2. request'[r] \in RequestState
        BY <2>3, <3>1, NoRequestTyped DEF RequestState, Steps
      <3>3. LocalShape(request'[r])
        BY <2>3 DEF NoRequest, LocalShape
      <3> QED
        BY <3>2, <3>3
    <2>5. request' \in [Requests -> RequestState]
      BY <1>1, <2>1, <2>3, <2>4 DEF ReceiveRevoke
    <2> QED
      BY <1>1, <2>2, <2>3, <2>4, <2>5 DEF Quiet, NoRequest, After
  <1> QED
    BY <1>2, <1>3 DEF Receive

LEMMA QuietSteps ==
  ASSUME IInv, NEW r \in Requests, QuietStep(r)
  PROVE  Quiet(r) /\ NoSuccess /\ UNCHANGED <<entries, active, deleted>>
  <1> DEFINE Goal == Quiet(r) /\ NoSuccess /\ UNCHANGED <<entries, active, deleted>>
  <1>0. LocalShape(request[r]) /\ request[r] \in RequestState
        /\ request \in [Requests -> RequestState]
    BY DEF IInv, LocalShapes, TypeOK
  <1>s. UNCHANGED auditLog => NoSuccess
    BY DEF NoSuccess
  <1>1. CASE Receive(r)
    BY <1>1, <1>s, ReceiveIsQuiet DEF Receive, ReceiveGrant, ReceiveRevoke
  <1>2. CASE CheckManageAcl(r)
    <2>1. CASE End(r, "refused")
      BY <1>2, <1>s, <2>1, EndIsQuiet DEF CheckManageAcl, Errors
    <2>2. CASE Goto(r, IF request[r].op = "grant" THEN "principal" ELSE "entry")
      <3> DEFINE step == IF request[r].op = "grant" THEN "principal" ELSE "entry"
      <3>1. LocalShape([request[r] EXCEPT !.pc = step]) /\ step \in Steps
        BY <1>0, <1>2 DEF CheckManageAcl, LocalShape, RequestState, Steps
      <3>2. Quiet(r)
        BY <1>2, <2>2, <3>1, GotoIsQuiet DEF CheckManageAcl, After
      <3> QED
        BY <1>2, <1>s, <3>2 DEF CheckManageAcl
    <2> QED
      BY <1>2, <2>1, <2>2 DEF CheckManageAcl
  <1>3. CASE FindPrincipal(r)
    <2>1. CASE Goto(r, "find")
      <3>1. LocalShape([request[r] EXCEPT !.pc = "find"]) /\ "find" \in Steps
        BY <1>0, <1>3 DEF FindPrincipal, LocalShape, RequestState, Steps
      <3>2. Quiet(r)
        BY <1>3, <2>1, <3>1, GotoIsQuiet DEF FindPrincipal, After
      <3> QED
        BY <1>3, <1>s, <3>2 DEF FindPrincipal
    <2>2. CASE End(r, "refused")
      BY <1>3, <1>s, <2>2, EndIsQuiet DEF FindPrincipal, Errors
    <2> QED
      BY <1>3, <2>1, <2>2 DEF FindPrincipal
  <1>4. CASE FindEntry(r)
    <2>1. CASE request[r].todo = <<>>
      <3>1. /\ LocalShape([request[r] EXCEPT !.pc = "commit"]) /\ "commit" \in Steps
            /\ request[r].op = "grant"
        BY <1>0, <1>4 DEF FindEntry, LocalShape, RequestState, Steps
      <3>2. Quiet(r)
        BY <1>4, <2>1, <3>1, GotoIsQuiet DEF FindEntry, After
      <3> QED
        BY <1>4, <1>s, <3>2 DEF FindEntry
    <2>2. CASE request[r].todo # <<>> /\ FoundEntry(r)
      <3> DEFINE next == [request[r] EXCEPT !.todo = Tail(request[r].todo)]
      <3>0. Tail(request[r].todo) \in Seq(Permissions)
        <4>1. request[r].todo \in Seq(Permissions)
          BY <1>0 DEF RequestState
        <4> QED
          BY <2>2, <4>1
      <3>1. next \in RequestState
        BY <1>0, <3>0 DEF RequestState
      <3>2. LocalShape(next)
        BY <1>0, <1>4 DEF FindEntry, LocalShape, RequestState
      <3>3. request' = [request EXCEPT ![r] = next]
        BY <1>0, <1>4, <2>2 DEF FindEntry
      <3>4. Quiet(r)
        BY <1>0, <1>4, <3>1, <3>2, <3>3 DEF Quiet, FindEntry, RequestState, After, IInv, RevokesHold
      <3> QED
        BY <1>4, <1>s, <3>4 DEF FindEntry
    <2>3. CASE request[r].todo # <<>> /\ ~FoundEntry(r)
      <3>1. LocalShape([request[r] EXCEPT !.pc = "insert"]) /\ "insert" \in Steps
        BY <1>0, <1>4, <2>3 DEF FindEntry, LocalShape, RequestState, Steps
      <3>2. Quiet(r)
        BY <1>4, <2>3, <3>1, GotoIsQuiet DEF FindEntry, After
      <3> QED
        BY <1>4, <1>s, <3>2 DEF FindEntry
    <2> QED
      BY <2>1, <2>2, <2>3
  <1>5. CASE DeadlockDetected(r)
    <2>1. request[r].pc \in {"insert", "delete"}
      BY <1>5 DEF DeadlockDetected, Deadlocked, WaitsFor
    <2> QED
      BY <1>5, <1>s, <2>1, RaiseIsQuiet DEF DeadlockDetected
  <1>6. CASE FindRevoked(r)
    <2>1. CASE Goto(r, "delete")
      <3>1. LocalShape([request[r] EXCEPT !.pc = "delete"]) /\ "delete" \in Steps
        BY <1>0, <1>6 DEF FindRevoked, LocalShape, RequestState, Steps
      <3>2. Quiet(r)
        BY <1>6, <2>1, <3>1, GotoIsQuiet DEF FindRevoked, After
      <3> QED
        BY <1>6, <1>s, <3>2 DEF FindRevoked
    <2>2. CASE End(r, "refused")
      BY <1>6, <1>s, <2>2, EndIsQuiet DEF FindRevoked, Errors
    <2> QED
      BY <1>6, <2>1, <2>2 DEF FindRevoked
  <1>7. CASE StatementFails(r)
    <2>1. CASE request[r].pc \in {"permissions", "principal", "entry"} /\ End(r, "database")
      BY <1>7, <1>s, <2>1, EndIsQuiet DEF StatementFails, Errors
    <2>2. CASE request[r].pc \in {"find", "insert", "delete"} /\ Raise(r)
      BY <1>7, <1>s, <2>2, RaiseIsQuiet DEF StatementFails
    <2> QED
      BY <1>7, <2>1, <2>2 DEF StatementFails
  <1>8. CASE CommitFails(r)
    BY <1>8, <1>s, RaiseIsQuiet DEF CommitFails
  <1>9. CASE Rollback(r)
    <2> DEFINE next == [request[r] EXCEPT !.pc = "record", !.written = {}]
    <2>1. next \in RequestState /\ LocalShape(next)
      BY <1>0, <1>9 DEF Rollback, LocalShape, RequestState, Steps
    <2>2. request' = [request EXCEPT ![r] = next]
      BY <1>0, <1>9 DEF Rollback
    <2>3. Quiet(r)
      BY <1>0, <1>9, <2>1, <2>2 DEF Quiet, Rollback, RequestState, After, IInv, RevokesHold
    <2> QED
      BY <1>9, <1>s, <2>3 DEF Rollback
  <1>10. CASE RecordFailure(r)
    <2>1. Quiet(r)
      BY <1>10, EndIsQuiet DEF RecordFailure, Errors
    <2>2. request[r].op = "grant" /\ request[r].pc # "idle"
      BY <1>0, <1>10 DEF RecordFailure, LocalShape
    <2>3. /\ Failure(r) \in AuditRow /\ Failure(r).request = r
          /\ Failure(r).result = "failed" /\ Failure(r).entries = {}
      BY <1>0, <1>10 DEF AuditRow, Failure, RecordFailure, LocalShape
    <2>4. NoSuccess
      BY <1>10, <2>2, <2>3 DEF NoSuccess, RecordFailure
    <2> QED
      BY <1>10, <2>1, <2>4 DEF RecordFailure
  <1> QED
    BY <1>1, <1>2, <1>3, <1>4, <1>5, <1>6, <1>7, <1>8, <1>9, <1>10 DEF QuietStep

\* The flush of a new row: nobody has its key, neither committed nor pending.
LEMMA InsertKeeps ==
  ASSUME IInv, NEW r \in Requests, InsertEntry(r)
  PROVE  IInv'
  <1> DEFINE n == NewEntry(r)
             next == [request[r] EXCEPT !.pc = "find", !.todo = Tail(request[r].todo),
                                        !.written = request[r].written \cup {n}]
  <1>0. /\ LocalShape(request[r]) /\ request[r] \in RequestState
        /\ request \in [Requests -> RequestState] /\ request[r].pc = "insert"
    BY DEF IInv, LocalShapes, TypeOK, InsertEntry
  <1>1. CASE \E e \in entries : SameKey(e, n)
    <2>1. Raise(r) /\ UNCHANGED <<entries, auditLog, active, deleted>>
      BY <1>1 DEF InsertEntry
    <2>2. Quiet(r)
      BY <1>0, <2>1, RaiseIsQuiet
    <2>3. NoSuccess
      BY <2>1 DEF NoSuccess
    <2> QED
      BY <2>1, <2>2, <2>3, QuietKeeps
  <1>2. CASE ~\E e \in entries : SameKey(e, n)
    <2>1. /\ request' = [request EXCEPT ![r] = next]
          /\ UNCHANGED <<entries, auditLog, active, deleted>>
      BY <1>0, <1>2 DEF InsertEntry
    <2>2. request[r].op = "grant" /\ request[r].todo # <<>> /\ request[r].principal \in Principals
      BY <1>0 DEF LocalShape
    <2>3. /\ request[r].todo \in Seq(Permissions)
          /\ Head(request[r].todo) \in Permissions
          /\ Tail(request[r].todo) \in Seq(Permissions)
      <3>1. request[r].todo \in Seq(Permissions)
        BY <1>0 DEF RequestState
      <3> QED
        BY <2>2, <3>1
    <2>4. n \in Entry /\ n.id = <<r, n.permission>> /\ n.principal = request[r].principal
      BY <2>2, <2>3 DEF NewEntry, Entry
    <2>5. next \in RequestState
      <3>1. request[r].written \cup {n} \in SUBSET Entry
        BY <1>0, <2>4 DEF RequestState
      <3> QED
        BY <1>0, <2>3, <3>1 DEF RequestState, Steps
    <2>6. LocalShape(next)
      BY <1>0, <2>2 DEF LocalShape, RequestState
    <2>7. request'[r] = next /\ \A s \in Requests \ {r} : request'[s] = request[s]
      BY <1>0, <2>1
    <2>8. /\ next.op = "grant" /\ next.pc = "find" /\ next.written = request[r].written \cup {n}
          /\ next.principal = request[r].principal /\ next.entry = request[r].entry
      BY <1>0, <2>2 DEF RequestState
    <2>9. \A s \in Requests \ {r} : \A f \in request[s].written : ~SameKey(f, n)
      BY <1>0, <2>1 DEF InsertEntry, Waiting, WaitsFor
    <2>10. \A s \in Requests : request'[s].op = request[s].op
      BY <2>2, <2>7, <2>8
    <2>11. Audited("grant")' = Audited("grant") /\ Audited("revoke")' = Audited("revoke")
      BY <2>1, <2>10 DEF Audited, IInv, TypeOK, AuditRow
    <2>12. TypeOK' /\ LocalShapes'
      BY <1>0, <2>1, <2>5, <2>6, <2>7 DEF IInv, TypeOK, LocalShapes
    <2>13. OwnRows'
      <3>1. \A e \in request'[r].written :
              e.id = <<r, e.permission>> /\ e.principal = request'[r].principal
        BY <2>2, <2>4, <2>7, <2>8 DEF IInv, OwnRows
      <3>2. ASSUME NEW s \in Requests \ {r}, NEW e \in request'[s].written
            PROVE  IF request'[s].op = "grant"
                   THEN e.id = <<s, e.permission>> /\ e.principal = request'[s].principal
                   ELSE e \in request'[s].entry
        BY <2>7, <3>2 DEF IInv, OwnRows
      <3> QED
        BY <2>2, <2>7, <2>8, <3>1, <3>2 DEF OwnRows
    <2>14. IndexesHold'
      BY <1>2, <2>1, <2>2, <2>7, <2>8, <2>9 DEF IInv, IndexesHold, SameKey
    <2>15. AuditHasOrigin'
      <3>1. \A a \in auditLog : a.request \in Requests
        BY DEF IInv, TypeOK, AuditRow
      <3>2. \A e \in Audited("grant") : e.id[1] \in Requests
        BY DEF Audited, IInv, TypeOK, AuditRow, Entry
      <3>3. \A e \in Audited("grant") : e.id[1] # r
        BY <1>0 DEF IInv, AuditHasOrigin, After
      <3> QED
        BY <2>1, <2>7, <2>8, <2>10, <2>11, <3>1, <3>2, <3>3 DEF IInv, AuditHasOrigin
    <2>16. RevokesHold'
      BY <2>1, <2>2, <2>7, <2>8, <2>11 DEF IInv, RevokesHold
    <2>17. NoDuplicateEntries' /\ AuditReplaysAcl'
      BY <2>1, <2>11 DEF IInv, NoDuplicateEntries, AuditReplaysAcl, SameKey
    <2> QED
      BY <2>12, <2>13, <2>14, <2>15, <2>16, <2>17 DEF IInv
  <1> QED
    BY <1>1, <1>2

\* The DELETE locks the row that its request names, if it still exists.
LEMMA DeleteKeeps ==
  ASSUME IInv, NEW r \in Requests, DeleteEntry(r)
  PROVE  IInv'
  <1> DEFINE held == request[r].entry \cap entries
             next == [request[r] EXCEPT !.pc = "commit", !.written = held]
  <1>0. /\ LocalShape(request[r]) /\ request[r] \in RequestState
        /\ request \in [Requests -> RequestState] /\ request[r].pc = "delete"
        /\ request[r].op = "revoke"
    BY DEF IInv, LocalShapes, LocalShape, TypeOK, DeleteEntry
  <1>1. request' = [request EXCEPT ![r] = next] /\ UNCHANGED <<entries, auditLog, active, deleted>>
    BY <1>0 DEF DeleteEntry
  <1>2. next \in RequestState /\ LocalShape(next)
    <2>1. held \in SUBSET Entry
      BY DEF IInv, TypeOK
    <2> QED
      BY <1>0, <2>1 DEF RequestState, Steps, LocalShape
  <1>3. request'[r] = next /\ \A s \in Requests \ {r} : request'[s] = request[s]
    BY <1>0, <1>1
  <1>4. /\ next.op = "revoke" /\ next.pc = "commit" /\ next.written = held
        /\ next.principal = request[r].principal /\ next.entry = request[r].entry
    BY <1>0 DEF RequestState
  <1>5. \A s \in Requests : request'[s].op = request[s].op
    BY <1>0, <1>3, <1>4
  <1>6. Audited("grant")' = Audited("grant") /\ Audited("revoke")' = Audited("revoke")
    BY <1>1, <1>5 DEF Audited, IInv, TypeOK, AuditRow
  <1>7. TypeOK' /\ LocalShapes'
    BY <1>0, <1>1, <1>2, <1>3 DEF IInv, TypeOK, LocalShapes
  <1>8. OwnRows' /\ RevokesHold'
    BY <1>1, <1>3, <1>4, <1>6 DEF IInv, OwnRows, RevokesHold
  <1>9. IndexesHold'
    BY <1>1, <1>3, <1>4 DEF IInv, IndexesHold, SameKey
  <1>10. AuditHasOrigin'
    <2>1. \A a \in auditLog : a.request \in Requests
      BY DEF IInv, TypeOK, AuditRow
    <2>2. \A e \in Audited("grant") : e.id[1] \in Requests
      BY DEF Audited, IInv, TypeOK, AuditRow, Entry
    <2>3. \A e \in Audited("grant") : e.id[1] # r
      BY <1>0 DEF IInv, AuditHasOrigin, After
    <2> QED
      BY <1>1, <1>3, <1>4, <1>5, <1>6, <2>1, <2>2, <2>3 DEF IInv, AuditHasOrigin
  <1>11. NoDuplicateEntries' /\ AuditReplaysAcl'
    BY <1>1, <1>6 DEF IInv, NoDuplicateEntries, AuditReplaysAcl, SameKey
  <1> QED
    BY <1>7, <1>8, <1>9, <1>10, <1>11 DEF IInv

\* What every outcome of a commit does to the request.
LEMMA CommitEnds ==
  ASSUME IInv, NEW r \in Requests, Commit(r)
  PROVE  /\ Quiet(r)
         /\ request[r].pc = "commit"
         /\ request'[r].written = {} /\ request'[r].pc \in After
         /\ \A s \in Requests : request'[s].op = request[s].op
  <1>0. /\ LocalShape(request[r]) /\ request[r] \in RequestState
        /\ request \in [Requests -> RequestState] /\ request[r].pc = "commit"
    BY DEF IInv, LocalShapes, TypeOK, Commit
  <1>1. CASE \E e \in {None, "database"} : End(r, e)
    <2>1. PICK e \in Errors \cup {None} : End(r, e)
      BY <1>1 DEF Errors
    <2> QED
      BY <1>0, <2>1, EndIsQuiet DEF Quiet, After
  <1>2. CASE request[r].op = "grant" /\ RaiseAfterCommit(r)
    <2> DEFINE next == [request[r] EXCEPT !.pc = "rollback", !.written = {}]
    <2>1. next \in RequestState /\ LocalShape(next)
      BY <1>0, <1>2 DEF LocalShape, RequestState, Steps
    <2>2. request' = [request EXCEPT ![r] = next]
      BY <1>0, <1>2 DEF RaiseAfterCommit
    <2>3. request'[r] = next /\ \A s \in Requests \ {r} : request'[s] = request[s]
      BY <1>0, <2>2
    <2> QED
      BY <1>0, <2>1, <2>2, <2>3 DEF Quiet, RequestState, After, IInv, RevokesHold
  <1> QED
    BY <1>1, <1>2 DEF Commit, RaiseAfterCommit

\* The commit of a grant: its rows and the audit row that names them.
LEMMA GrantKeeps ==
  ASSUME IInv, NEW r \in Requests, Commit(r), request[r].op = "grant"
  PROVE  IInv'
  <1> DEFINE W == request[r].written
  <1>0. /\ request \in [Requests -> RequestState] /\ request' \in [Requests -> RequestState]
        /\ request[r].pc = "commit" /\ request'[r].pc \in After /\ request'[r].written = {}
        /\ \A s \in Requests : request'[s].op = request[s].op
        /\ \A s \in Requests \ {r} : request'[s] = request[s]
        /\ LocalShape(request'[r])
        /\ request'[r].entry \subseteq Audited("grant")
    BY CommitEnds DEF IInv, TypeOK, Quiet
  <1>1. /\ entries' = entries \cup W
        /\ auditLog' = auditLog \cup {Success(r)}
        /\ UNCHANGED <<active, deleted>>
        /\ Success(r) = [request |-> r, actor |-> request[r].actor, result |-> "success",
                         entries |-> W]
    BY <1>0 DEF Commit, WriteEntries, Success
  <1>2. W \subseteq Entry /\ Success(r) \in AuditRow
    <2>1. W \subseteq Entry
      BY <1>0 DEF RequestState
    <2>2. request[r].actor \in Users
      BY <1>0 DEF IInv, LocalShapes, LocalShape
    <2> QED
      BY <1>1, <2>1, <2>2 DEF AuditRow
  <1>3. /\ Audited("grant")' = Audited("grant") \cup W
        /\ Audited("revoke")' = Audited("revoke")
    <2>1. \A a \in auditLog : a.request \in Requests
      BY DEF IInv, TypeOK, AuditRow
    <2>2. \A a \in auditLog : request'[a.request].op = request[a.request].op
      BY <1>0, <2>1
    <2>3. request'[r].op = "grant"
      BY <1>0
    <2> QED
      BY <1>1, <2>2, <2>3 DEF Audited
  <1>4. \A e \in W : e.id = <<r, e.permission>> /\ e.principal = request[r].principal
    BY DEF IInv, OwnRows
  <1>5. W \cap Audited("grant") = {}
    BY <1>0, <1>4 DEF IInv, AuditHasOrigin, After
  <1>6. Audited("revoke") \subseteq Audited("grant")
    BY DEF IInv, AuditHasOrigin, Audited
  <1>7. TypeOK'
    BY <1>0, <1>1, <1>2 DEF IInv, TypeOK
  <1>8. LocalShapes' /\ OwnRows'
    BY <1>0 DEF IInv, LocalShapes, OwnRows
  <1>9. IndexesHold'
    BY <1>0, <1>1 DEF IInv, IndexesHold, SameKey
  <1>10. AuditHasOrigin'
    <2>1. \A a \in auditLog : a.request \in Requests
      BY DEF IInv, TypeOK, AuditRow
    <2>2. \A a \in auditLog' : /\ request'[a.request].op \in {"grant", "revoke"}
                               /\ request'[a.request].pc # "idle"
                               /\ a.entries \subseteq Audited("grant")'
      BY <1>0, <1>1, <1>3, <2>1 DEF IInv, AuditHasOrigin, After
    <2>3. \A e \in Audited("grant") : e.id[1] \in Requests
      BY DEF Audited, IInv, TypeOK, AuditRow, Entry
    <2>4. \A e \in Audited("grant") : /\ request'[e.id[1]].pc \in After
                                      /\ request'[e.id[1]].op = "grant"
      BY <1>0, <2>3 DEF IInv, AuditHasOrigin
    <2>5. \A e \in W : request'[e.id[1]].pc \in After /\ request'[e.id[1]].op = "grant"
      BY <1>0, <1>4
    <2> QED
      BY <1>3, <2>2, <2>4, <2>5 DEF AuditHasOrigin
  <1>11. RevokesHold'
    <2> SUFFICES ASSUME NEW s \in Requests
                 PROVE  /\ request'[s].entry \subseteq Audited("grant")'
                        /\ request'[s].op = "revoke" /\ request'[s].pc = "commit"
                             => request'[s].entry \cap entries' \subseteq request'[s].written
      BY DEF RevokesHold
    <2>1. CASE s = r
      BY <1>0, <1>3, <2>1
    <2>2. CASE s # r
      <3>1. request[s].entry \subseteq Audited("grant") /\ request'[s] = request[s]
        BY <1>0, <2>2 DEF IInv, RevokesHold
      <3>2. request[s].entry \cap entries' = request[s].entry \cap entries
        BY <1>1, <1>5, <3>1
      <3> QED
        BY <1>3, <3>1, <3>2 DEF IInv, RevokesHold
    <2> QED
      BY <2>1, <2>2
  <1>12. NoDuplicateEntries'
    <2>1. \A e, f \in W : SameKey(e, f) => e = f
      BY <1>2, <1>4 DEF SameKey, Entry
    <2>2. \A e \in W, f \in entries : ~SameKey(e, f) /\ ~SameKey(f, e)
      BY DEF IInv, IndexesHold, SameKey
    <2> QED
      BY <1>1, <2>1, <2>2 DEF IInv, NoDuplicateEntries, SameKey
  <1>13. AuditReplaysAcl'
    BY <1>1, <1>3, <1>5, <1>6 DEF IInv, AuditReplaysAcl
  <1> QED
    BY <1>7, <1>8, <1>9, <1>10, <1>11, <1>12, <1>13 DEF IInv

\* The commit of a revoke: it deletes the entry its audit row names.
LEMMA RevokeKeeps ==
  ASSUME IInv, NEW r \in Requests, Commit(r), request[r].op # "grant"
  PROVE  IInv'
  <1> DEFINE W == request[r].written
             E == request[r].entry
  <1>0. /\ request \in [Requests -> RequestState] /\ request' \in [Requests -> RequestState]
        /\ request[r].pc = "commit" /\ request'[r].pc \in After /\ request'[r].written = {}
        /\ request[r].op = "revoke"
        /\ \A s \in Requests : request'[s].op = request[s].op
        /\ \A s \in Requests \ {r} : request'[s] = request[s]
        /\ LocalShape(request'[r])
        /\ request'[r].entry \subseteq Audited("grant")
    BY CommitEnds DEF IInv, TypeOK, Quiet, LocalShapes, LocalShape
  <1>1. /\ entries' = entries \ W
        /\ auditLog' = auditLog \cup {Success(r)}
        /\ UNCHANGED <<active, deleted>>
        /\ Success(r) = [request |-> r, actor |-> request[r].actor, result |-> "success",
                         entries |-> E]
    BY <1>0 DEF Commit, WriteEntries, Success
  <1>2. Success(r) \in AuditRow
    <2>1. E \subseteq Entry
      BY <1>0 DEF RequestState
    <2>2. request[r].actor \in Users
      BY <1>0 DEF IInv, LocalShapes, LocalShape
    <2> QED
      BY <1>1, <2>1, <2>2 DEF AuditRow
  <1>3. entries' = entries \ E
    <2>1. E \cap entries \subseteq W /\ W \subseteq E
      BY <1>0 DEF IInv, RevokesHold, OwnRows
    <2> QED
      BY <1>1, <2>1
  <1>4. /\ Audited("grant")' = Audited("grant")
        /\ Audited("revoke")' = Audited("revoke") \cup E
    <2>1. \A a \in auditLog : a.request \in Requests
      BY DEF IInv, TypeOK, AuditRow
    <2>2. \A a \in auditLog : request'[a.request].op = request[a.request].op
      BY <1>0, <2>1
    <2>3. request'[r].op = "revoke"
      BY <1>0
    <2> QED
      BY <1>1, <2>2, <2>3 DEF Audited
  <1>5. E \subseteq Audited("grant")
    BY DEF IInv, RevokesHold
  <1>6. TypeOK'
    BY <1>0, <1>1, <1>2 DEF IInv, TypeOK
  <1>7. LocalShapes' /\ OwnRows'
    BY <1>0 DEF IInv, LocalShapes, OwnRows
  <1>8. IndexesHold'
    BY <1>0, <1>1 DEF IInv, IndexesHold, SameKey
  <1>9. AuditHasOrigin'
    <2>1. \A a \in auditLog : a.request \in Requests
      BY DEF IInv, TypeOK, AuditRow
    <2>2. \A a \in auditLog' : /\ request'[a.request].op \in {"grant", "revoke"}
                               /\ request'[a.request].pc # "idle"
                               /\ a.entries \subseteq Audited("grant")
      BY <1>0, <1>1, <1>5, <2>1 DEF IInv, AuditHasOrigin, After
    <2>3. \A e \in Audited("grant") : e.id[1] \in Requests
      BY DEF Audited, IInv, TypeOK, AuditRow, Entry
    <2>4. \A e \in Audited("grant") : /\ request'[e.id[1]].pc \in After
                                      /\ request'[e.id[1]].op = "grant"
      BY <1>0, <2>3 DEF IInv, AuditHasOrigin
    <2> QED
      BY <1>4, <2>2, <2>4 DEF AuditHasOrigin
  <1>10. RevokesHold'
    <2>1. entries' \subseteq entries
      BY <1>1
    <2>2. request'[r].entry \subseteq Audited("grant")' /\ request'[r].pc # "commit"
      BY <1>0, <1>4 DEF After
    <2>3. ASSUME NEW s \in Requests \ {r}
          PROVE  /\ request'[s].entry \subseteq Audited("grant")'
                 /\ request'[s].op = "revoke" /\ request'[s].pc = "commit"
                      => request'[s].entry \cap entries' \subseteq request'[s].written
      BY <1>0, <1>4, <2>1, <2>3 DEF IInv, RevokesHold
    <2> QED
      BY <2>2, <2>3 DEF RevokesHold
  <1>11. NoDuplicateEntries' /\ AuditReplaysAcl'
    BY <1>3, <1>4 DEF IInv, NoDuplicateEntries, AuditReplaysAcl, SameKey
  <1> QED
    BY <1>6, <1>7, <1>8, <1>9, <1>10, <1>11 DEF IInv

\* The other services leave the ACL, its audit rows and the requests alone.
LEMMA OthersKeep ==
  ASSUME IInv, \/ DeleteDocument
               \/ \E p \in Volatile : ToggleActive(p)
               \/ UNCHANGED vars
  PROVE  IInv'
  <1>1. UNCHANGED <<entries, auditLog, request>>
    BY DEF DeleteDocument, ToggleActive, vars
  <1>2. active' \subseteq Principals /\ deleted' \in BOOLEAN
    BY AclAssumption DEF IInv, TypeOK, DeleteDocument, ToggleActive, vars, Principals
  <1>3. Audited("grant")' = Audited("grant") /\ Audited("revoke")' = Audited("revoke")
    BY <1>1 DEF Audited
  <1>4. TypeOK' /\ LocalShapes' /\ OwnRows' /\ NoDuplicateEntries' /\ IndexesHold'
    BY <1>1, <1>2 DEF IInv, TypeOK, LocalShapes, OwnRows, NoDuplicateEntries, IndexesHold
  <1>5. AuditHasOrigin' /\ RevokesHold' /\ AuditReplaysAcl'
    BY <1>1, <1>3 DEF IInv, AuditHasOrigin, RevokesHold, AuditReplaysAcl
  <1> QED
    BY <1>4, <1>5 DEF IInv

LEMMA NextKeepsIInv == IInv /\ [Next]_vars => IInv'
  <1> SUFFICES ASSUME IInv, [Next]_vars PROVE IInv'
    OBVIOUS
  <1>1. ASSUME NEW r \in Requests, QuietStep(r) PROVE IInv'
    BY <1>1, QuietSteps, QuietKeeps
  <1>2. ASSUME NEW r \in Requests, InsertEntry(r) PROVE IInv'
    BY <1>2, InsertKeeps
  <1>3. ASSUME NEW r \in Requests, DeleteEntry(r) PROVE IInv'
    BY <1>3, DeleteKeeps
  <1>4. ASSUME NEW r \in Requests, Commit(r) PROVE IInv'
    BY <1>4, GrantKeeps, RevokeKeeps
  <1>5. CASE DeleteDocument \/ (\E p \in Volatile : ToggleActive(p)) \/ UNCHANGED vars
    BY <1>5, OthersKeep
  <1> QED
    BY <1>1, <1>2, <1>3, <1>4, <1>5 DEF Next, Step, QuietStep

---------------------------------------------------------------------------
(* The results.                                                            *)

\* The inductive invariant holds in every behaviour.
THEOREM InductiveInvariant == Spec => []IInv
  BY InitIInv, NextKeepsIInv, PTL DEF Spec

(* The tables and the requests of sharing range over the values of TypeOK, *)
(* whatever fails and however requests interleave.                         *)
THEOREM TypeCorrect == Spec => []TypeOK
  <1>1. IInv => TypeOK
    BY DEF IInv
  <1> QED
    BY <1>1, InductiveInvariant, PTL

(* No two rows give the same permission to the same principal, for any     *)
(* number of concurrent grants and revokes.                                *)
THEOREM NoDuplicates == Spec => []NoDuplicateEntries
  <1>1. IInv => NoDuplicateEntries
    BY DEF IInv
  <1> QED
    BY <1>1, InductiveInvariant, PTL

(* Replaying the audit rows of the grants and revokes that succeeded gives *)
(* the ACL table, also after errors that follow a commit.                  *)
THEOREM AuditExplainsAcl == Spec => []AuditReplaysAcl
  <1>1. IInv => AuditReplaysAcl
    BY DEF IInv
  <1> QED
    BY <1>1, InductiveInvariant, PTL

---------------------------------------------------------------------------
(* An acknowledged grant is in effect. While a grant runs, each of its     *)
(* permissions is still to do, or a row for it was written by the grant or *)
(* committed by another one.                                               *)

Key(r, p, e) == e.principal = request[r].principal /\ e.permission = p
Handled(r, p) ==
  \/ \E j \in DOMAIN request[r].todo : request[r].todo[j] = p
  \/ \E e \in request[r].written \cup Audited("grant") : Key(r, p, e)
Unfinished(q) == q.pc \notin After \/ (q.pc = "done" /\ q.error = None)
Progress(r) ==
  request[r].op = "grant" =>
    /\ request[r].pc \in {"commit", "done"} => request[r].todo = <<>>
    /\ Unfinished(request[r]) =>
         \A i \in DOMAIN request[r].permissions : Handled(r, request[r].permissions[i])
GrantsProgress == \A r \in Requests : Progress(r)

\* Audit rows stay, and so does the operation of the request each is about.
LEMMA AuditedGrows ==
  ASSUME IInv, Next
  PROVE  Audited("grant") \subseteq Audited("grant")'
  <1>1. \A a \in auditLog : a.request \in Requests /\ request[a.request].pc # "idle"
    BY DEF IInv, TypeOK, AuditRow, AuditHasOrigin
  <1>2. ASSUME auditLog \subseteq auditLog',
               \A s \in Requests : request[s].pc # "idle" => request'[s].op = request[s].op
        PROVE  Audited("grant") \subseteq Audited("grant")'
    BY <1>1, <1>2 DEF Audited
  <1>3. ASSUME NEW r \in Requests, QuietStep(r)
        PROVE  Audited("grant") \subseteq Audited("grant")'
    BY <1>2, <1>3, QuietSteps DEF Quiet, NoSuccess
  <1>4. ASSUME NEW r \in Requests, Commit(r)
        PROVE  Audited("grant") \subseteq Audited("grant")'
    BY <1>2, <1>4, CommitEnds DEF Commit
  <1>5. ASSUME NEW r \in Requests, InsertEntry(r) \/ DeleteEntry(r)
        PROVE  Audited("grant") \subseteq Audited("grant")'
    <2>1. request \in [Requests -> RequestState] /\ request[r].pc # "idle" /\ UNCHANGED auditLog
      BY <1>5 DEF InsertEntry, DeleteEntry, IInv, TypeOK
    <2>2. CASE Raise(r) /\ request[r].pc = "insert"
      BY <1>2, <2>1, <2>2, RaiseIsQuiet DEF Quiet
    <2>3. CASE InsertEntry(r)
      <3>1. request[r].pc = "insert"
        BY <2>3 DEF InsertEntry
      <3>2. CASE Raise(r)
        BY <2>2, <3>1, <3>2
      <3>3. CASE request' = [request EXCEPT ![r].pc = "find", ![r].todo = Tail(@),
                                            ![r].written = @ \cup {NewEntry(r)}]
        BY <1>2, <2>1, <3>3 DEF RequestState
      <3> QED
        BY <2>3, <3>2, <3>3 DEF InsertEntry
    <2>4. CASE DeleteEntry(r)
      BY <1>2, <2>1, <2>4 DEF DeleteEntry, RequestState
    <2> QED
      BY <1>5, <2>3, <2>4
  <1>6. ASSUME DeleteDocument \/ \E p \in Volatile : ToggleActive(p)
        PROVE  Audited("grant") \subseteq Audited("grant")'
    BY <1>2, <1>6 DEF DeleteDocument, ToggleActive
  <1> QED
    BY <1>3, <1>4, <1>5, <1>6 DEF Next, Step, QuietStep

\* A request that ends with an error promises nothing.
LEMMA EndProgress ==
  ASSUME IInv, NEW r \in Requests, NEW e \in Errors, End(r, e)
  PROVE  Progress(r)'
  <1>1. request'[r] = Ended(r, e)
    BY DEF IInv, TypeOK, End
  <1> QED
    BY <1>1, AclAssumption DEF Progress, Unfinished, Ended, NoRequest, After

\* A step that only moves the program counter of the request.
LEMMA GotoProgress ==
  ASSUME IInv, GrantsProgress, NEW r \in Requests, NEW step \in Steps, Goto(r, step),
         Audited("grant") \subseteq Audited("grant")',
         request[r].pc \notin After, step # "done",
         step = "commit" => request[r].todo = <<>>
  PROVE  Progress(r)'
  <1>1. request[r] \in RequestState /\ request'[r] = [request[r] EXCEPT !.pc = step]
    BY DEF IInv, TypeOK, Goto
  <1>2. /\ request'[r].op = request[r].op /\ request'[r].pc = step
        /\ request'[r].todo = request[r].todo /\ request'[r].written = request[r].written
        /\ request'[r].permissions = request[r].permissions
        /\ request'[r].principal = request[r].principal
    BY <1>1 DEF RequestState
  <1>3. \A p : Handled(r, p) => Handled(r, p)'
    BY <1>2 DEF Handled, Key
  <1>4. Unfinished(request[r])
    BY DEF Unfinished
  <1> QED
    BY <1>2, <1>3, <1>4 DEF GrantsProgress, Progress

LEMMA RaiseProgress ==
  ASSUME IInv, GrantsProgress, NEW r \in Requests, Raise(r),
         Audited("grant") \subseteq Audited("grant")', request[r].pc \notin After
  PROVE  Progress(r)'
  BY EndProgress, GotoProgress DEF Raise, Errors, Steps

\* A permission leaves the list when there is a row for it.
LEMMA PopProgress ==
  ASSUME IInv, GrantsProgress, NEW r \in Requests,
         Audited("grant") \subseteq Audited("grant")',
         request[r].pc \in {"find", "insert"}, request[r].todo # <<>>,
         request'[r].op = request[r].op, request'[r].pc = "find",
         request'[r].principal = request[r].principal,
         request'[r].permissions = request[r].permissions,
         request'[r].todo = Tail(request[r].todo),
         request[r].written \subseteq request'[r].written,
         \E e \in request'[r].written \cup Audited("grant") : SameKey(e, NewEntry(r))
  PROVE  Progress(r)'
  <1>1. request[r] \in RequestState
    BY DEF IInv, TypeOK
  <1>2. request[r].todo \in Seq(Permissions)
    BY <1>1 DEF RequestState
  <1>3. ASSUME NEW p, Handled(r, p)
        PROVE  Handled(r, p)'
    <2>1. CASE \E j \in DOMAIN request[r].todo : request[r].todo[j] = p
      <3>1. PICK j \in DOMAIN request[r].todo : request[r].todo[j] = p
        BY <2>1
      <3>2. CASE j = 1
        <4>1. p = Head(request[r].todo)
          BY <1>2, <3>1, <3>2
        <4>2. PICK e \in request'[r].written \cup Audited("grant") : SameKey(e, NewEntry(r))
          OBVIOUS
        <4>3. e.principal = request[r].principal /\ e.permission = p
          BY <4>1, <4>2 DEF SameKey, NewEntry
        <4> QED
          BY <4>3 DEF Handled, Key
      <3>3. CASE j # 1
        <4> DEFINE rest == Tail(request[r].todo)
        <4>1. j - 1 \in DOMAIN rest /\ rest[j - 1] = p
          <5>1. Len(request[r].todo) \in Nat /\ j \in 2 .. Len(request[r].todo)
            BY <1>2, <3>1, <3>3
          <5>2. /\ DOMAIN rest = 1 .. (Len(request[r].todo) - 1)
                /\ \A k \in 1 .. (Len(request[r].todo) - 1) : rest[k] = request[r].todo[k + 1]
            BY <1>2
          <5>3. j - 1 \in 1 .. (Len(request[r].todo) - 1) /\ (j - 1) + 1 = j
            BY <5>1
          <5> QED
            BY <3>1, <5>2, <5>3
        <4> QED
          BY <4>1 DEF Handled
      <3> QED
        BY <3>2, <3>3
    <2>2. CASE \E e \in request[r].written \cup Audited("grant") : Key(r, p, e)
      BY <2>2 DEF Handled, Key
    <2> QED
      BY <1>3, <2>1, <2>2 DEF Handled
  <1>4. request[r].op = "grant" /\ Unfinished(request[r])
    BY DEF IInv, LocalShapes, LocalShape, Unfinished, After
  <1> QED
    BY <1>3, <1>4 DEF GrantsProgress, Progress

LEMMA StepProgress ==
  ASSUME IInv, GrantsProgress, Next, NEW r \in Requests,
         Receive(r) \/ Step(r) \/ StatementFails(r)
  PROVE  Progress(r)'
  <1>0. /\ Audited("grant") \subseteq Audited("grant")'
        /\ request[r] \in RequestState /\ request \in [Requests -> RequestState]
        /\ LocalShape(request[r])
        /\ entries \subseteq Audited("grant")
    BY AuditedGrows DEF IInv, TypeOK, LocalShapes, AuditReplaysAcl
  <1>1. CASE Receive(r)
    <2>1. CASE \E u \in Users, payload \in Payloads : ReceiveGrant(r, u, payload[1], payload[2])
      <3>1. PICK u \in Users, payload \in Payloads : ReceiveGrant(r, u, payload[1], payload[2])
        BY <2>1
      <3>2. /\ request'[r].pc = "permissions" /\ request'[r].todo = payload[2]
            /\ request'[r].permissions = payload[2]
        BY <1>0, <3>1 DEF ReceiveGrant, NoRequest
      <3> QED
        BY <3>2 DEF Progress, Handled
    <2>2. CASE \E u \in Users, a \in auditLog : \E e \in a.entries : ReceiveRevoke(r, u, e)
      <3>1. request'[r].op = "revoke"
        BY <1>0, <2>2 DEF ReceiveRevoke, NoRequest
      <3> QED
        BY <3>1 DEF Progress
    <2> QED
      BY <1>1, <2>1, <2>2 DEF Receive
  <1>2. CASE CheckManageAcl(r) \/ FindPrincipal(r) \/ FindRevoked(r)
    BY <1>0, <1>2, EndProgress, GotoProgress
    DEF CheckManageAcl, FindPrincipal, FindRevoked, Errors, Steps, After
  <1>3. CASE FindEntry(r)
    <2>1. CASE request[r].todo = <<>>
      BY <1>0, <1>3, <2>1, GotoProgress DEF FindEntry, Steps, After
    <2>2. CASE request[r].todo # <<>> /\ FoundEntry(r)
      <3>1. request' = [request EXCEPT ![r] = [request[r] EXCEPT !.todo = Tail(request[r].todo)]]
        BY <1>0, <1>3, <2>2 DEF FindEntry
      <3>2. /\ request'[r].op = request[r].op /\ request'[r].pc = request[r].pc
            /\ request'[r].principal = request[r].principal
            /\ request'[r].permissions = request[r].permissions
            /\ request'[r].todo = Tail(request[r].todo)
            /\ request'[r].written = request[r].written
        BY <1>0, <3>1 DEF RequestState
      <3>3. \E e \in request[r].written \cup Audited("grant") : SameKey(e, NewEntry(r))
        BY <1>0, <2>2 DEF FoundEntry
      <3> QED
        BY <1>0, <1>3, <2>2, <3>2, <3>3, PopProgress DEF FindEntry
    <2>3. CASE request[r].todo # <<>> /\ ~FoundEntry(r)
      BY <1>0, <1>3, <2>3, GotoProgress DEF FindEntry, Steps, After
    <2> QED
      BY <2>1, <2>2, <2>3
  <1>4. CASE InsertEntry(r)
    <2>1. CASE \E e \in entries : SameKey(e, NewEntry(r))
      BY <1>0, <1>4, <2>1, RaiseProgress DEF InsertEntry, After
    <2>2. CASE ~\E e \in entries : SameKey(e, NewEntry(r))
      <3>1. request' = [request EXCEPT ![r] = [request[r] EXCEPT !.pc = "find",
                 !.todo = Tail(request[r].todo), !.written = request[r].written \cup {NewEntry(r)}]]
        BY <1>0, <1>4, <2>2 DEF InsertEntry
      <3>2. /\ request'[r].op = request[r].op /\ request'[r].pc = "find"
            /\ request'[r].principal = request[r].principal
            /\ request'[r].permissions = request[r].permissions
            /\ request'[r].todo = Tail(request[r].todo)
            /\ request'[r].written = request[r].written \cup {NewEntry(r)}
        BY <1>0, <3>1 DEF RequestState
      <3>3. \E e \in request'[r].written \cup Audited("grant") : SameKey(e, NewEntry(r))
        BY <3>2 DEF SameKey
      <3>4. request[r].pc = "insert" /\ request[r].todo # <<>>
        BY <1>0, <1>4 DEF InsertEntry, LocalShape
      <3> QED
        BY <1>0, <3>2, <3>3, <3>4, PopProgress
    <2> QED
      BY <2>1, <2>2
  <1>5. CASE DeadlockDetected(r)
    BY <1>0, <1>5, RaiseProgress DEF DeadlockDetected, Deadlocked, WaitsFor, After
  <1>6. CASE DeleteEntry(r)
    <2>1. request[r].op = "revoke" /\ request'[r].op = request[r].op
      BY <1>0, <1>6 DEF DeleteEntry, LocalShape, RequestState
    <2> QED
      BY <2>1 DEF Progress
  <1>7. CASE StatementFails(r)
    BY <1>0, <1>7, EndProgress, RaiseProgress DEF StatementFails, Errors, After
  <1>8. CASE CommitFails(r)
    BY <1>0, <1>8, RaiseProgress DEF CommitFails, After
  <1>9. CASE Commit(r)
    <2>1. CASE request[r].op # "grant"
      BY <1>9, <2>1, CommitEnds DEF Progress
    <2>2. CASE RaiseAfterCommit(r) /\ request[r].op = "grant"
      <3>1. request'[r].pc = "rollback"
        BY <1>0, <2>2 DEF RaiseAfterCommit, RequestState
      <3> QED
        BY <3>1 DEF Progress, Unfinished, After
    <2>3. CASE End(r, None) /\ request[r].op = "grant"
      <3>1. request'[r] = Ended(r, None)
        BY <1>0, <2>3 DEF End
      <3>2. /\ request'[r].todo = <<>> /\ request'[r].permissions = request[r].permissions
            /\ request'[r].principal = request[r].principal
        BY <3>1 DEF Ended, NoRequest
      <3>3. request[r].pc = "commit" /\ request[r].todo = <<>> /\ Unfinished(request[r])
        BY <1>9, <2>3 DEF Commit, GrantsProgress, Progress, Unfinished, After
      <3>4. request[r].written \subseteq Audited("grant")'
        <4>1. Success(r) \in auditLog' /\ Success(r).request = r
              /\ Success(r).result = "success" /\ Success(r).entries = request[r].written
          BY <1>9, <2>3 DEF Commit, Success
        <4>2. request'[r].op = "grant"
          BY <1>9, <2>3, CommitEnds
        <4> QED
          BY <4>1, <4>2 DEF Audited
      <3>5. \A i \in DOMAIN request[r].permissions :
              \E e \in request[r].written \cup Audited("grant") : Key(r, request[r].permissions[i], e)
        BY <2>3, <3>3 DEF GrantsProgress, Progress, Handled
      <3> QED
        BY <1>0, <3>2, <3>4, <3>5 DEF Progress, Handled, Key
    <2>4. CASE End(r, "database")
      BY <2>4, EndProgress DEF Errors
    <2> QED
      BY <1>9, <2>1, <2>2, <2>3, <2>4 DEF Commit
  <1>10. CASE Rollback(r)
    <2>1. request'[r].pc = "record"
      BY <1>0, <1>10 DEF Rollback, RequestState
    <2> QED
      BY <2>1 DEF Progress, Unfinished, After
  <1>11. CASE RecordFailure(r)
    BY <1>11, EndProgress DEF RecordFailure, Errors
  <1> QED
    BY <1>1, <1>2, <1>3, <1>4, <1>5, <1>6, <1>7, <1>8, <1>9, <1>10, <1>11 DEF Step

\* A step of one request leaves the others alone.
LEMMA StepOfOne ==
  ASSUME IInv, NEW s \in Requests, Receive(s) \/ Step(s) \/ StatementFails(s),
         NEW r \in Requests, r # s
  PROVE  request'[r] = request[r]
  <1>1. CASE QuietStep(s)
    BY <1>1, QuietSteps DEF Quiet
  <1>2. CASE Commit(s)
    BY <1>2, CommitEnds DEF Quiet
  <1>3. CASE InsertEntry(s) \/ DeleteEntry(s)
    BY <1>3 DEF InsertEntry, DeleteEntry, Raise, Goto, End, IInv, TypeOK
  <1> QED
    BY <1>1, <1>2, <1>3 DEF Step, QuietStep

LEMMA NextKeepsProgress == IInv /\ GrantsProgress /\ [Next]_vars => GrantsProgress'
  <1> SUFFICES ASSUME IInv, GrantsProgress, [Next]_vars, NEW r \in Requests
               PROVE  Progress(r)'
    BY DEF GrantsProgress
  <1>1. CASE request'[r] = request[r] /\ Audited("grant") \subseteq Audited("grant")'
    BY <1>1 DEF GrantsProgress, Progress, Handled, Key, Unfinished
  <1>2. CASE UNCHANGED vars
    BY <1>1, <1>2 DEF vars, Audited
  <1>3. CASE DeleteDocument \/ \E p \in Volatile : ToggleActive(p)
    BY <1>1, <1>3 DEF DeleteDocument, ToggleActive, Audited
  <1>4. ASSUME NEW s \in Requests, Next, Receive(s) \/ Step(s) \/ StatementFails(s)
        PROVE  Progress(r)'
    <2>1. CASE s = r
      BY <1>4, <2>1, StepProgress
    <2>2. CASE s # r
      <3>1. request'[r] = request[r]
        BY <1>4, <2>2, StepOfOne
      <3> QED
        BY <1>1, <1>4, <3>1, AuditedGrows
    <2> QED
      BY <2>1, <2>2
  <1> QED
    BY <1>2, <1>3, <1>4 DEF Next

LEMMA ProgressMeansEffect == IInv /\ GrantsProgress => AckedGrantInEffect
  <1> SUFFICES ASSUME IInv, GrantsProgress, NEW r \in Requests,
                      request[r].op = "grant", request[r].pc = "done", request[r].error = None,
                      NEW i \in DOMAIN request[r].permissions
               PROVE  \E e \in entries \cup Audited("revoke") : Key(r, request[r].permissions[i], e)
    BY DEF AckedGrantInEffect, Key
  <1>1. request[r].todo = <<>> /\ Handled(r, request[r].permissions[i])
    BY DEF GrantsProgress, Progress, Unfinished
  <1>2. request[r].written = {}
    BY DEF IInv, LocalShapes, LocalShape
  <1>3. PICK e \in Audited("grant") : Key(r, request[r].permissions[i], e)
    BY <1>1, <1>2 DEF Handled
  <1>4. e \in entries \cup Audited("revoke")
    BY DEF IInv, AuditReplaysAcl
  <1> QED
    BY <1>3, <1>4

(* A grant that was answered 201 is in effect until somebody revokes it,   *)
(* whichever request inserted the rows it found or wrote.                  *)
THEOREM GrantsHold == Spec => []AckedGrantInEffect
  <1>1. Init => GrantsProgress
    BY AclAssumption DEF Init, GrantsProgress, Progress, NoRequest
  <1>2. Spec => []GrantsProgress
    BY <1>1, InductiveInvariant, NextKeepsProgress, PTL DEF Spec
  <1> QED
    BY <1>2, InductiveInvariant, ProgressMeansEffect, PTL

---------------------------------------------------------------------------
(* Who may share. Whoever has passed the check is entitled by his office   *)
(* or by a recorded grant, and stays so: the log only grows.               *)

MayShare(u) == ByOffice(u) \/ \E b \in Successes : Empowers(b, u)
Checked(q) == q.pc \notin {"idle", "permissions", "done"}
ChecksHold == \A r \in Requests : Checked(request[r]) => MayShare(request[r].actor)

LEMMA OperationsStay ==
  ASSUME IInv, [Next]_vars, NEW s \in Requests, request[s].pc # "idle"
  PROVE  request'[s].op = request[s].op
  <1>1. CASE request'[s] = request[s]
    BY <1>1
  <1>2. CASE Receive(s) \/ Step(s) \/ StatementFails(s)
    <2>1. CASE QuietStep(s)
      BY <2>1, QuietSteps DEF Quiet
    <2>2. CASE Commit(s)
      BY <2>2, CommitEnds
    <2>3. CASE InsertEntry(s) \/ DeleteEntry(s)
      <3>1. request[s].pc \in {"insert", "delete"} /\ request[s] \in RequestState
            /\ request \in [Requests -> RequestState]
        BY <2>3 DEF InsertEntry, DeleteEntry, IInv, TypeOK
      <3>2. CASE Raise(s)
        BY <3>1, <3>2, RaiseIsQuiet DEF Quiet
      <3>3. CASE request' = [request EXCEPT ![s].pc = "find", ![s].todo = Tail(@),
                                            ![s].written = @ \cup {NewEntry(s)}]
        BY <3>1, <3>3 DEF RequestState
      <3>4. CASE DeleteEntry(s)
        BY <3>1, <3>4 DEF DeleteEntry, RequestState
      <3> QED
        BY <2>3, <3>2, <3>3, <3>4 DEF InsertEntry
    <2> QED
      BY <1>2, <2>1, <2>2, <2>3 DEF Step, QuietStep
  <1> QED
    BY <1>1, <1>2, StepOfOne DEF Next, ToggleActive, DeleteDocument, vars

LEMMA MayShareLasts ==
  ASSUME IInv, Next, NEW u, MayShare(u)
  PROVE  MayShare(u)'
  <1>1. \A a \in auditLog : a.request \in Requests /\ request[a.request].pc # "idle"
    BY DEF IInv, TypeOK, AuditRow, AuditHasOrigin
  <1>2. auditLog \subseteq auditLog'
    <2>1. ASSUME NEW r \in Requests, QuietStep(r) PROVE auditLog \subseteq auditLog'
      BY <2>1, QuietSteps DEF NoSuccess
    <2>2. ASSUME NEW r \in Requests, InsertEntry(r) \/ DeleteEntry(r) \/ Commit(r)
          PROVE  auditLog \subseteq auditLog'
      BY <2>2 DEF InsertEntry, DeleteEntry, Commit
    <2> QED
      BY <2>1, <2>2 DEF Next, Step, QuietStep, ToggleActive, DeleteDocument
  <1>3. \A s \in Requests : request[s].pc # "idle" => request'[s].op = request[s].op
    BY OperationsStay
  <1> QED
    BY <1>1, <1>2, <1>3 DEF MayShare, Successes, Empowers, ByOffice

\* An entry of the table comes from a recorded grant.
LEMMA RightWasGiven ==
  ASSUME IInv, NEW u \in Users, "MANAGE_ACL" \in Granted(u)
  PROVE  MayShare(u)
  <1>1. PICK e \in entries : e.permission = "MANAGE_ACL" /\ e.principal \in {u, DepartmentOf[u]}
    BY DEF Granted, GrantedPermissions, Applies, User
  <1>2. e \in Audited("grant")
    BY DEF IInv, AuditReplaysAcl
  <1> QED
    BY <1>1, <1>2 DEF Audited, MayShare, Successes, Empowers

LEMMA CheckMeansRight ==
  ASSUME IInv, NEW r \in Requests, CheckManageAcl(r), request'[r].pc # "done"
  PROVE  MayShare(request[r].actor)
  <1> DEFINE u == request[r].actor
             actor == [User(u) EXCEPT !.is_active = TRUE]
             document == [Document EXCEPT !.is_deleted = FALSE]
  <1>1. u \in Users /\ request \in [Requests -> RequestState]
    BY DEF CheckManageAcl, IInv, TypeOK, LocalShapes, LocalShape
  <1>2. "MANAGE_ACL" \in EffectivePermissions(actor, document, Granted(u))
    BY <1>1 DEF CheckManageAcl, End, Ended, NoRequest
  <1>3. HasDocumentPermission(actor, document, Granted(u), "MANAGE_ACL")
    BY <1>2 DEF EffectivePermissions
  <1>4. /\ actor.role = Role[u] /\ actor.id = u /\ document.owner_id = Owner
    BY DEF User, Document
  <1>5. ByOffice(u) \/ "MANAGE_ACL" \in Granted(u)
    BY <1>3, <1>4 DEF HasDocumentPermission, ImpliedPermissions, ByOffice
  <1> QED
    BY <1>1, <1>5, RightWasGiven DEF MayShare

\* A request keeps its actor, and only the check lets it through.
LEMMA ActorStays ==
  ASSUME IInv, NEW r \in Requests, Receive(r) \/ Step(r) \/ StatementFails(r),
         Checked(request'[r])
  PROVE  /\ request'[r].actor = request[r].actor
         /\ Checked(request[r]) \/ CheckManageAcl(r)
  <1>0. request[r] \in RequestState /\ request \in [Requests -> RequestState]
    BY DEF IInv, TypeOK
  <1>1. ASSUME NEW step, Goto(r, step) PROVE request'[r].actor = request[r].actor
    BY <1>0, <1>1 DEF Goto, RequestState
  <1>2. ASSUME NEW e PROVE ~End(r, e)
    BY <1>0 DEF End, Ended, NoRequest, Checked
  <1>3. Raise(r) \/ RaiseAfterCommit(r) => request'[r].actor = request[r].actor
    BY <1>0, <1>1, <1>2 DEF Raise, RaiseAfterCommit, RequestState
  <1>4. ~Receive(r)
    <2>1. \A u, p, permissions : ~ReceiveGrant(r, u, p, permissions)
      BY <1>0 DEF ReceiveGrant, NoRequest, Checked
    <2>2. \A u, e : ~ReceiveRevoke(r, u, e)
      BY <1>0 DEF ReceiveRevoke, NoRequest, Checked
    <2> QED
      BY <2>1, <2>2 DEF Receive
  <1>5. CASE CheckManageAcl(r)
    BY <1>1, <1>2, <1>5 DEF CheckManageAcl
  <1>6. CASE FindPrincipal(r) \/ FindRevoked(r)
    BY <1>1, <1>2, <1>6 DEF FindPrincipal, FindRevoked, Checked
  <1>7. CASE FindEntry(r)
    <2>1. CASE request' = [request EXCEPT ![r].todo = Tail(@)]
      BY <1>0, <1>7, <2>1 DEF FindEntry, RequestState, Checked
    <2> QED
      BY <1>1, <1>7, <2>1 DEF FindEntry, Checked
  <1>8. CASE InsertEntry(r)
    <2>1. CASE request' = [request EXCEPT ![r].pc = "find", ![r].todo = Tail(@),
                                          ![r].written = @ \cup {NewEntry(r)}]
      BY <1>0, <1>8, <2>1 DEF InsertEntry, RequestState, Checked
    <2> QED
      BY <1>3, <1>8, <2>1 DEF InsertEntry, Checked
  <1>9. CASE DeleteEntry(r) \/ Rollback(r)
    BY <1>0, <1>9 DEF DeleteEntry, Rollback, RequestState, Checked
  <1>10. CASE DeadlockDetected(r)
    BY <1>3, <1>10 DEF DeadlockDetected, Deadlocked, WaitsFor, Checked
  <1>11. CASE Commit(r) \/ CommitFails(r)
    BY <1>2, <1>3, <1>11 DEF Commit, CommitFails, Checked
  <1>12. ~RecordFailure(r)
    BY <1>2 DEF RecordFailure
  <1>13. CASE StatementFails(r)
    <2>1. request[r].pc \in {"find", "insert", "delete"} /\ Raise(r)
      BY <1>2, <1>13 DEF StatementFails
    <2> QED
      BY <1>3, <2>1 DEF Checked
  <1> QED
    BY <1>4, <1>5, <1>6, <1>7, <1>8, <1>9, <1>10, <1>11, <1>12, <1>13 DEF Step

LEMMA ChecksStayTrue == IInv /\ ChecksHold /\ [Next]_vars => ChecksHold'
  <1> SUFFICES ASSUME IInv, ChecksHold, [Next]_vars, NEW r \in Requests, Checked(request'[r])
               PROVE  MayShare(request[r].actor)'
    BY DEF ChecksHold, Checked
  <1>1. CASE UNCHANGED vars
    BY <1>1 DEF vars, ChecksHold, Checked, MayShare, Successes, Empowers, ByOffice
  <1>2. ASSUME Next, request'[r].actor = request[r].actor, MayShare(request[r].actor)
        PROVE  MayShare(request[r].actor)'
    <2>1. PICK u : u = request[r].actor
      OBVIOUS
    <2>2. MayShare(u)'
      BY <1>2, <2>1, MayShareLasts
    <2> QED
      BY <1>2, <2>1, <2>2 DEF MayShare, Empowers, ByOffice
  <1>3. CASE Next /\ request'[r] = request[r]
    BY <1>2, <1>3 DEF ChecksHold, Checked
  <1>4. ASSUME Next, Receive(r) \/ Step(r) \/ StatementFails(r)
        PROVE  MayShare(request[r].actor)'
    <2>1. request'[r].actor = request[r].actor /\ (Checked(request[r]) \/ CheckManageAcl(r))
      BY <1>4, ActorStays
    <2>2. MayShare(request[r].actor)
      BY <2>1, CheckMeansRight DEF ChecksHold, Checked
    <2> QED
      BY <1>2, <1>4, <2>1, <2>2
  <1> QED
    BY <1>1, <1>3, <1>4, StepOfOne DEF Next, ToggleActive, DeleteDocument

\* A row of the log whose actor an earlier row entitles keeps the chains sound.
LEMMA ChainsStaySound ==
  IInv /\ ChecksHold /\ AuthorityIsGranted /\ [Next]_vars => AuthorityIsGranted'
  <1> SUFFICES ASSUME IInv, ChecksHold, AuthorityIsGranted, [Next]_vars
               PROVE  AuthorityIsGranted'
    OBVIOUS
  <1>1. \A a \in auditLog : a.request \in Requests /\ request[a.request].pc # "idle"
    BY DEF IInv, TypeOK, AuditRow, AuditHasOrigin
  <1>2. \A s \in Requests : request[s].pc # "idle" => request'[s].op = request[s].op
    BY OperationsStay
  <1>3. \A b \in auditLog : \A u : Empowers(b, u) => Empowers(b, u)'
    BY <1>1, <1>2 DEF Empowers
  <1>4. CASE Successes' = Successes
    BY <1>3, <1>4 DEF AuthorityIsGranted, Successes, ByOffice
  <1>5. ASSUME NEW r \in Requests, Commit(r)
        PROVE  AuthorityIsGranted'
    <2>1. PICK a : a = Success(r)
      OBVIOUS
    <2>2. Successes' = Successes \cup {a} /\ a.actor = request[r].actor
      BY <1>5, <2>1 DEF Commit, Success, Successes
    <2>3. ByOffice(a.actor) \/ \E b \in Successes : Empowers(b, a.actor)
      BY <1>5, <2>2 DEF Commit, ChecksHold, Checked, MayShare
    <2>4. CASE a \in Successes
      BY <1>4, <2>2, <2>4
    <2>5. CASE a \notin Successes
      <3> SUFFICES ASSUME NEW S \in SUBSET (Successes \cup {a}), S # {}
                   PROVE  \E x \in S : ByOffice(x.actor)
                             \/ \E b \in (Successes \cup {a}) \ S : Empowers(b, x.actor)'
        BY <2>2 DEF AuthorityIsGranted, ByOffice
      <3>1. CASE S = {a}
        <4>1. CASE ByOffice(a.actor)
          BY <3>1, <4>1
        <4>2. CASE \E b \in Successes : Empowers(b, a.actor)
          <5>1. PICK b \in Successes : Empowers(b, a.actor)
            BY <4>2
          <5>2. b \in (Successes \cup {a}) \ S
            BY <2>5, <3>1
          <5>3. Empowers(b, a.actor)'
            BY <1>3, <5>1 DEF Successes
          <5> QED
            BY <3>1, <5>2, <5>3
        <4> QED
          BY <2>3, <4>1, <4>2
      <3>2. CASE S # {a}
        <4>1. S \ {a} \in SUBSET Successes /\ S \ {a} # {}
          BY <3>2
        <4>2. PICK x \in S \ {a} :
                ByOffice(x.actor) \/ \E b \in Successes \ (S \ {a}) : Empowers(b, x.actor)
          BY <4>1 DEF AuthorityIsGranted
        <4>3. ASSUME NEW b \in Successes \ (S \ {a}), Empowers(b, x.actor)
              PROVE  b \in (Successes \cup {a}) \ S /\ Empowers(b, x.actor)'
          BY <1>3, <2>5, <4>3 DEF Successes
        <4> QED
          BY <4>2, <4>3
      <3> QED
        BY <3>1, <3>2
    <2> QED
      BY <2>4, <2>5
  <1>6. ASSUME NEW r \in Requests, QuietStep(r) PROVE Successes' = Successes
    BY <1>6, QuietSteps DEF NoSuccess, Successes
  <1>7. ASSUME NEW r \in Requests, InsertEntry(r) \/ DeleteEntry(r) PROVE Successes' = Successes
    BY <1>7 DEF InsertEntry, DeleteEntry, Successes
  <1>8. CASE UNCHANGED auditLog
    BY <1>8, <1>4 DEF Successes
  <1> QED
    BY <1>4, <1>5, <1>6, <1>7, <1>8 DEF Next, Step, QuietStep, ToggleActive, DeleteDocument, vars

(* Nobody shares the document on his own authority: every recorded change  *)
(* goes back, grant by grant, to the owner or a SYSTEM_ADMIN, for any      *)
(* number of users and requests and although the right is checked once and *)
(* used later (service.py:297).                                            *)
THEOREM AuthorityComesFromOffice == Spec => []AuthorityIsGranted
  <1>1. Init => ChecksHold
    BY DEF Init, NoRequest, ChecksHold, Checked
  <1>2. Init => AuthorityIsGranted
    BY DEF Init, AuthorityIsGranted, Successes
  <1>3. Spec => []ChecksHold
    BY <1>1, InductiveInvariant, ChecksStayTrue, PTL DEF Spec
  <1> QED
    BY <1>2, <1>3, InductiveInvariant, ChainsStaySound, PTL DEF Spec

---------------------------------------------------------------------------
(* How many steps a request takes. Together with NeverAllWaiting: as long  *)
(* as the program runs requests that can go on, all of them end.           *)

StepsAt(pc, n) ==
  CASE pc = "permissions" -> 2 * n + 6
    [] pc = "principal" -> 2 * n + 5
    [] pc = "find" -> 2 * n + 4
    [] pc = "insert" -> 2 * n + 3
    [] pc = "entry" -> 5
    [] pc = "delete" -> 4
    [] pc = "commit" -> 3
    [] pc = "rollback" -> 2
    [] pc = "record" -> 1
    [] pc \in {"idle", "done"} -> 0
\* The steps a request that runs can still take, at most.
StepsLeft(r) == StepsAt(request[r].pc, Len(request[r].todo))

LEMMA StepsAreNatural ==
  ASSUME NEW pc \in Steps, NEW n \in Nat
  PROVE  StepsAt(pc, n) \in Nat
  BY DEF StepsAt, Steps

\* A step that moves the program counter, or ends the request.
LEMMA MovesShrink ==
  ASSUME IInv, NEW r \in Requests, NEW step \in Steps \ {"idle"}, Runs(r),
         \/ Goto(r, step)
         \/ request' = [request EXCEPT ![r].pc = step, ![r].written = {}],
         StepsAt(step, Len(request[r].todo)) < StepsLeft(r)
  PROVE  StepsLeft(r)' < StepsLeft(r)
  <1>1. request[r] \in RequestState /\ request \in [Requests -> RequestState]
    BY DEF IInv, TypeOK
  <1>2. request'[r].pc = step /\ request'[r].todo = request[r].todo
    BY <1>1 DEF Goto, RequestState
  <1> QED
    BY <1>2 DEF StepsLeft

LEMMA EndShrinks ==
  ASSUME IInv, NEW r \in Requests, NEW e, Runs(r), End(r, e)
  PROVE  StepsLeft(r)' < StepsLeft(r)
  <1>1. request[r] \in RequestState /\ request \in [Requests -> RequestState]
    BY DEF IInv, TypeOK
  <1>2. request'[r].pc = "done"
    BY <1>1 DEF End, Ended, NoRequest
  <1>3. StepsLeft(r)' = 0
    BY <1>2 DEF StepsLeft, StepsAt
  <1>4. Len(request[r].todo) \in Nat /\ request[r].pc \in Steps \ {"idle", "done"}
    BY <1>1 DEF Runs, RequestState
  <1>5. StepsLeft(r) > 0
    BY <1>4 DEF StepsLeft, StepsAt, Steps
  <1> QED
    BY <1>3, <1>5

LEMMA RaiseShrinks ==
  ASSUME IInv, NEW r \in Requests, request[r].pc \in {"find", "insert", "delete", "commit"},
         Raise(r) \/ RaiseAfterCommit(r)
  PROVE  StepsLeft(r)' < StepsLeft(r)
  <1>1. Len(request[r].todo) \in Nat /\ Runs(r)
    BY DEF IInv, TypeOK, RequestState, Runs
  <1>2. StepsAt("rollback", Len(request[r].todo)) < StepsLeft(r)
    BY <1>1 DEF StepsLeft, StepsAt
  <1> QED
    BY <1>1, <1>2, MovesShrink, EndShrinks DEF Raise, RaiseAfterCommit, Steps

\* A permission leaves the list.
LEMMA PopShrinks ==
  ASSUME IInv, NEW r \in Requests, request[r].pc \in {"find", "insert"}, request[r].todo # <<>>,
         request'[r].pc = "find", request'[r].todo = Tail(request[r].todo)
  PROVE  StepsLeft(r)' < StepsLeft(r)
  <1>1. request[r].todo \in Seq(Permissions)
    BY DEF IInv, TypeOK, RequestState
  <1>2. Len(request[r].todo) \in Nat \ {0} /\ Len(request'[r].todo) = Len(request[r].todo) - 1
    BY <1>1
  <1> QED
    BY <1>2 DEF StepsLeft, StepsAt

LEMMA StepShrinks ==
  ASSUME IInv, NEW r \in Requests, Step(r) \/ StatementFails(r)
  PROVE  StepsLeft(r)' < StepsLeft(r)
  <1>0. /\ request[r] \in RequestState /\ request \in [Requests -> RequestState]
        /\ LocalShape(request[r])
    BY DEF IInv, TypeOK, LocalShapes
  <1>n. Len(request[r].todo) \in Nat
    BY <1>0 DEF RequestState
  <1>1. CASE CheckManageAcl(r)
    <2>1. request[r].pc = "permissions" /\ Runs(r)
      BY <1>1 DEF CheckManageAcl, Runs
    <2>2. \A step \in {"principal", "entry"} : StepsAt(step, Len(request[r].todo)) < StepsLeft(r)
      BY <1>n, <2>1 DEF StepsLeft, StepsAt
    <2>3. End(r, "refused") \/ \E step \in {"principal", "entry"} : Goto(r, step)
      BY <1>1 DEF CheckManageAcl
    <2> QED
      BY <2>1, <2>2, <2>3, MovesShrink, EndShrinks DEF Steps
  <1>2. CASE FindPrincipal(r)
    <2>1. request[r].pc = "principal" /\ Runs(r) /\ (Goto(r, "find") \/ End(r, "refused"))
      BY <1>2 DEF FindPrincipal, Runs
    <2>2. StepsAt("find", Len(request[r].todo)) < StepsLeft(r)
      BY <1>n, <2>1 DEF StepsLeft, StepsAt
    <2> QED
      BY <2>1, <2>2, MovesShrink, EndShrinks DEF Steps
  <1>3. CASE FindEntry(r)
    <2>1. request[r].pc = "find" /\ Runs(r)
      BY <1>3 DEF FindEntry, Runs
    <2>2. CASE request[r].todo = <<>>
      <3>1. StepsAt("commit", Len(request[r].todo)) < StepsLeft(r)
        BY <1>n, <2>1 DEF StepsLeft, StepsAt
      <3> QED
        BY <1>3, <2>1, <2>2, <3>1, MovesShrink DEF FindEntry, Steps
    <2>3. CASE request[r].todo # <<>> /\ ~FoundEntry(r)
      <3>1. StepsAt("insert", Len(request[r].todo)) < StepsLeft(r)
        BY <1>n, <2>1 DEF StepsLeft, StepsAt
      <3> QED
        BY <1>3, <2>1, <2>3, <3>1, MovesShrink DEF FindEntry, Steps
    <2>4. CASE request[r].todo # <<>> /\ FoundEntry(r)
      <3>1. request' = [request EXCEPT ![r] = [request[r] EXCEPT !.todo = Tail(request[r].todo)]]
        BY <1>0, <1>3, <2>4 DEF FindEntry
      <3>2. request'[r].pc = "find" /\ request'[r].todo = Tail(request[r].todo)
        BY <1>0, <2>1, <3>1 DEF RequestState
      <3> QED
        BY <2>1, <2>4, <3>2, PopShrinks
    <2> QED
      BY <2>2, <2>3, <2>4
  <1>4. CASE InsertEntry(r)
    <2>1. request[r].pc = "insert" /\ request[r].todo # <<>>
      BY <1>0, <1>4 DEF InsertEntry, LocalShape
    <2>2. CASE Raise(r)
      BY <2>1, <2>2, RaiseShrinks
    <2>3. CASE request' = [request EXCEPT ![r].pc = "find", ![r].todo = Tail(@),
                                          ![r].written = @ \cup {NewEntry(r)}]
      <3>1. request'[r].pc = "find" /\ request'[r].todo = Tail(request[r].todo)
        BY <1>0, <2>3 DEF RequestState
      <3> QED
        BY <2>1, <3>1, PopShrinks
    <2> QED
      BY <1>4, <2>2, <2>3 DEF InsertEntry
  <1>5. CASE DeadlockDetected(r)
    <2>1. request[r].pc \in {"insert", "delete"} /\ Raise(r)
      BY <1>5 DEF DeadlockDetected, Deadlocked, WaitsFor
    <2> QED
      BY <2>1, RaiseShrinks
  <1>6. CASE FindRevoked(r)
    <2>1. request[r].pc = "entry" /\ Runs(r) /\ (Goto(r, "delete") \/ End(r, "refused"))
      BY <1>6 DEF FindRevoked, Runs
    <2>2. StepsAt("delete", Len(request[r].todo)) < StepsLeft(r)
      BY <2>1 DEF StepsLeft, StepsAt
    <2> QED
      BY <2>1, <2>2, MovesShrink, EndShrinks DEF Steps
  <1>7. CASE DeleteEntry(r)
    <2>1. request[r].pc = "delete" /\ request'[r].pc = "commit"
      BY <1>0, <1>7 DEF DeleteEntry, RequestState
    <2> QED
      BY <2>1 DEF StepsLeft, StepsAt
  <1>8. CASE Commit(r)
    <2>1. request[r].pc = "commit" /\ Runs(r) /\ (RaiseAfterCommit(r) \/ \E e : End(r, e))
      BY <1>8 DEF Commit, Runs
    <2> QED
      BY <2>1, EndShrinks, RaiseShrinks
  <1>9. CASE CommitFails(r)
    BY <1>9, RaiseShrinks DEF CommitFails
  <1>10. CASE Rollback(r)
    <2>1. request[r].pc = "rollback" /\ request'[r].pc = "record"
      BY <1>0, <1>10 DEF Rollback, RequestState
    <2> QED
      BY <2>1 DEF StepsLeft, StepsAt
  <1>11. CASE RecordFailure(r)
    BY <1>11, EndShrinks DEF RecordFailure, Runs
  <1>12. CASE StatementFails(r)
    BY <1>12, EndShrinks, RaiseShrinks DEF StatementFails, Runs
  <1> QED
    BY <1>1, <1>2, <1>3, <1>4, <1>5, <1>6, <1>7, <1>8, <1>9, <1>10, <1>11, <1>12 DEF Step

(* A grant of n permissions and a revoke end after at most 2n + 6 steps of *)
(* their own, whatever fails and whoever makes them wait: the loop over    *)
(* the permissions (service.py:258) never goes back.                       *)
THEOREM BoundedSteps ==
  Spec => [][\A r \in Requests :
               /\ StepsLeft(r) \in Nat
               /\ request'[r] # request[r] =>
                    \/ StepsLeft(r)' < StepsLeft(r)
                    \/ /\ request[r].pc = "idle"
                       /\ StepsLeft(r)' = 2 * Len(request'[r].permissions) + 6]_vars
  <1>1. ASSUME IInv, NEW r \in Requests PROVE StepsLeft(r) \in Nat
    <2>1. request[r].pc \in Steps /\ Len(request[r].todo) \in Nat
      BY <1>1 DEF IInv, TypeOK, RequestState
    <2> QED
      BY <2>1, StepsAreNatural DEF StepsLeft
  <1>2. ASSUME IInv, NEW r \in Requests, Receive(r)
        PROVE  request[r].pc = "idle" /\ StepsLeft(r)' = 2 * Len(request'[r].permissions) + 6
    <2>1. request[r].pc = "idle" /\ request \in [Requests -> RequestState]
      BY <1>2 DEF Receive, ReceiveGrant, ReceiveRevoke, Receives, IInv, TypeOK
    <2>2. request'[r].pc = "permissions" /\ request'[r].todo = request'[r].permissions
      <3>1. ASSUME NEW u, NEW p, NEW permissions, ReceiveGrant(r, u, p, permissions)
            PROVE  request'[r].pc = "permissions" /\ request'[r].todo = request'[r].permissions
        BY <2>1, <3>1 DEF ReceiveGrant, NoRequest
      <3>2. ASSUME NEW u, NEW e, ReceiveRevoke(r, u, e)
            PROVE  request'[r].pc = "permissions" /\ request'[r].todo = request'[r].permissions
        BY <2>1, <3>2 DEF ReceiveRevoke, NoRequest
      <3> QED
        BY <1>2, <3>1, <3>2 DEF Receive
    <2> QED
      BY <2>1, <2>2 DEF StepsLeft, StepsAt
  <1>3. IInv /\ [Next]_vars =>
          [\A r \in Requests :
             /\ StepsLeft(r) \in Nat
             /\ request'[r] # request[r] =>
                  \/ StepsLeft(r)' < StepsLeft(r)
                  \/ /\ request[r].pc = "idle"
                     /\ StepsLeft(r)' = 2 * Len(request'[r].permissions) + 6]_vars
    <2> SUFFICES ASSUME IInv, Next, NEW r \in Requests, request'[r] # request[r]
                 PROVE  \/ StepsLeft(r)' < StepsLeft(r)
                        \/ /\ request[r].pc = "idle"
                           /\ StepsLeft(r)' = 2 * Len(request'[r].permissions) + 6
      BY <1>1
    <2>1. Receive(r) \/ Step(r) \/ StatementFails(r)
      BY StepOfOne DEF Next, ToggleActive, DeleteDocument
    <2> QED
      BY <1>2, <2>1, StepShrinks
  <1> QED
    BY <1>3, InductiveInvariant, PTL DEF Spec

---------------------------------------------------------------------------
(* Nobody waits for good. The requests served so far are finitely many. If *)
(* each of those that run waited for another one, a smallest set that      *)
(* nobody waits out of would be a circle, which PostgreSQL breaks.         *)

Served == {r \in Requests : request[r].pc # "idle"}
FinitelyServed == IsFiniteSet(Served)

LEMMA InitServed == Init => FinitelyServed
  <1> SUFFICES ASSUME Init PROVE FinitelyServed
    OBVIOUS
  <1>1. Served = {}
    BY DEF Init, Served, NoRequest
  <1> QED
    BY <1>1, FS_EmptySet DEF FinitelyServed

LEMMA NextKeepsServed == IInv /\ FinitelyServed /\ [Next]_vars => FinitelyServed'
  <1> SUFFICES ASSUME IInv, FinitelyServed, [Next]_vars PROVE FinitelyServed'
    OBVIOUS
  <1>1. CASE request' = request
    BY <1>1 DEF FinitelyServed, Served
  <1>2. ASSUME NEW s \in Requests, Receive(s) \/ Step(s) \/ StatementFails(s)
        PROVE  FinitelyServed'
    <2>1. Served' \in SUBSET (Served \cup {s})
      BY <1>2, StepOfOne DEF Served
    <2>2. IsFiniteSet(Served \cup {s})
      BY FS_AddElement DEF FinitelyServed
    <2> HIDE DEF Served
    <2> QED
      BY <2>1, <2>2, FS_Subset DEF FinitelyServed
  <1> QED
    BY <1>1, <1>2 DEF Next, ToggleActive, DeleteDocument, vars

\* Every member of C waits for another one.
Entangled(C) == \A r \in C : \E s \in C : WaitsFor(r, s)

\* A smallest set of that kind is a circle.
LEMMA SmallestIsCircle ==
  ASSUME NEW C \in SUBSET Requests, Entangled(C),
         \A B \in SUBSET C : B # {} /\ Entangled(B) => B = C,
         NEW r \in C
  PROVE  Deadlocked(r)
  <1>1. ASSUME NEW s \in C PROVE \E t \in C : WaitsFor(t, s)
    <2> SUFFICES ASSUME \A t \in C : ~WaitsFor(t, s) PROVE FALSE
      OBVIOUS
    <2>1. PICK t \in C : WaitsFor(s, t)
      BY DEF Entangled
    <2>2. t # s
      BY <2>1 DEF WaitsFor
    <2>3. Entangled(C \ {s})
      BY DEF Entangled
    <2>4. C \ {s} \in SUBSET C /\ C \ {s} # {} /\ C \ {s} # C
      BY <2>2
    <2> QED
      BY <2>3, <2>4
  <1> QED
    BY <1>1 DEF Deadlocked, Entangled

LEMMA FiniteMeansProgress == IInv /\ FinitelyServed => SomebodyCanGoOn
  <1> DEFINE running == {r \in Requests : Runs(r)}
  <1> SUFFICES ASSUME IInv, FinitelyServed, running # {}, \A r \in Requests : ~CanGoOn(r)
               PROVE  FALSE
    BY DEF SomebodyCanGoOn
  <1>1. IsFiniteSet(running) /\ running \in SUBSET Requests
    <2>1. running \in SUBSET Served
      BY DEF Runs, Served
    <2> HIDE DEF running
    <2> QED
      BY <2>1, FS_Subset DEF FinitelyServed, Served
  <1>2. Entangled(running)
    <2> SUFFICES ASSUME NEW r \in running PROVE \E s \in running : WaitsFor(r, s)
      BY DEF Entangled
    <2>1. PICK s \in Requests : WaitsFor(r, s)
      BY DEF CanGoOn, Waiting
    <2>2. request[s].written # {}
      BY <2>1 DEF WaitsFor
    <2>3. Runs(s)
      BY <2>2 DEF Runs, IInv, LocalShapes, LocalShape
    <2> QED
      BY <2>1, <2>3
  <1> HIDE DEF running
  <1> DEFINE D == {C \in SUBSET running : C # {} /\ Entangled(C)}
             R == StrictSubsetOrdering(running)
  <1>3. D \subseteq FiniteSubsetsOf(running) /\ D # {}
    <2>1. running \in D
      BY <1>2
    <2> QED
      BY <1>1, <2>1, FS_FiniteSubsetsOfFinite
  <1>4. PICK C \in D : \A B \in D : ~(<<B, C>> \in R)
    <2>1. IsWellFoundedOn(R, FiniteSubsetsOf(running))
      BY FS_StrictSubsetOrderingWellFounded
    <2> HIDE DEF D, R
    <2> QED
      BY <1>3, <2>1, WFMin
  <1>5. \A B \in SUBSET C : B # {} /\ Entangled(B) => B = C
    <2> TAKE B \in SUBSET C
    <2> HAVE B # {} /\ Entangled(B)
    <2>1. B \in D
      OBVIOUS
    <2>2. B # C => <<B, C>> \in R
      BY DEF StrictSubsetOrdering
    <2> QED
      BY <1>4, <2>1, <2>2
  <1>6. PICK r \in C : TRUE
    OBVIOUS
  <1>7. Deadlocked(r) /\ r \in Requests
    <2>1. C \in SUBSET Requests /\ Entangled(C)
      BY <1>1
    <2> QED
      BY <1>5, <1>6, <2>1, SmallestIsCircle
  <1>8. Runs(r)
    BY <1>4 DEF running
  <1> QED
    BY <1>7, <1>8 DEF CanGoOn

(* While a request runs, some running request is not waiting, or waits in  *)
(* a circle of which PostgreSQL cancels one: grants and revokes never all  *)
(* wait for good (service.py:265).                                         *)
THEOREM NeverAllWaiting == Spec => []SomebodyCanGoOn
  <1>1. Spec => []FinitelyServed
    BY InitServed, InductiveInvariant, NextKeepsServed, PTL DEF Spec
  <1> QED
    BY <1>1, InductiveInvariant, FiniteMeansProgress, PTL
===========================================================================
