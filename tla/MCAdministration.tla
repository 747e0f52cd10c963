-------------------------- MODULE MCAdministration --------------------------
(* Two administrators, a department and what clients may submit.           *)
EXTENDS Administration, TLC

CONSTANTS alice, bob, hr

MCInitialUsers ==
  LET Admin(mail) == [email |-> mail, role |-> "SYSTEM_ADMIN", department_id |-> None, is_active |-> TRUE]
  IN alice :> Admin("a@x") @@ bob :> Admin("b@x")
MCInitialDepartments == hr :> [name |-> "HR", parent_id |-> None, is_active |-> TRUE]

MCCanonical ==
  "a@x" :> "a@x" @@ "b@x" :> "b@x" @@ "c@x" :> "c@x" @@ " C@x" :> "c@x"
    @@ "HR" :> "HR" @@ "IT" :> "IT" @@ "IT " :> "IT"

UserPayloads ==
  { [op |-> "update_user", fields |-> [role |-> "USER"]],
    [op |-> "update_user", fields |-> [is_active |-> FALSE]],
    [op |-> "update_user", fields |-> [role |-> "SYSTEM_ADMIN", is_active |-> TRUE, department_id |-> hr]],
    [op |-> "create_user", fields |-> [email |-> "c@x", role |-> "SYSTEM_ADMIN", department_id |-> hr]],
    [op |-> "create_admin", fields |-> [email |-> " C@x"]] }
DepartmentPayloads ==
  { [op |-> "create_department", fields |-> [name |-> "IT "]],
    [op |-> "create_department", fields |-> [name |-> "IT", parent_id |-> hr]],
    [op |-> "update_department", fields |-> [name |-> "IT", is_active |-> FALSE]],
    [op |-> "update_department", fields |-> [parent_id |-> hr, is_active |-> TRUE]] }
MCPayloads == UserPayloads \cup DepartmentPayloads
=============================================================================
