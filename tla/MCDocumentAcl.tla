--------------------------- MODULE MCDocumentAcl ---------------------------
(* A document of owner, shared with the user boss, who is its department's *)
(* member, and with the department itself.                                 *)
EXTENDS DocumentAcl, TLC

CONSTANTS owner, boss, dept

MCRole == owner :> "USER" @@ boss :> "DEPARTMENT_MANAGER"
MCDepartmentOf == owner :> None @@ boss :> dept
MCPayloads ==
  { <<boss, <<"READ_CONTENT", "MANAGE_ACL">> >>,
    <<boss, <<"MANAGE_ACL", "READ_CONTENT">> >>,
    <<dept, <<"MANAGE_ACL">> >>,
    <<owner, <<"MANAGE_ACL">> >> }

Symmetry == Permutations(Requests)
===========================================================================
