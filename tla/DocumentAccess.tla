-------------------------- MODULE DocumentAccess --------------------------
(***************************************************************************)
(* Who may do what with a document: the rules of documents/access.py and   *)
(* the ACL query of DocumentRepository.granted_permissions. They are pure  *)
(* functions of a user row, a document row and the ACL table.              *)
(*                                                                         *)
(* The code decides twice, in two languages: has_document_permission in    *)
(* Python over the permissions one query returned, for one document, and   *)
(* build_document_access_predicate in SQL, for lists of documents. An ACL  *)
(* row names a user or a department; both are principals here.             *)
(***************************************************************************)
CONSTANT None   \* SQL NULL

Permissions == {"VIEW_METADATA", "READ_CONTENT", "UPLOAD_VERSION", "DELETE", "MANAGE_ACL"}
UserRoles == {"SYSTEM_ADMIN", "DOCUMENT_ADMIN", "DEPARTMENT_MANAGER", "USER"}

\* The permissions that satisfy a requested one: any of them shows metadata.
ImpliedPermissions(p) == IF p = "VIEW_METADATA" THEN Permissions ELSE {p}

(* An ACL row applies to its user, and to the members of its department    *)
(* while the department is active.                                         *)
Applies(e, user, activeDepartments) ==
  \/ e.principal = user.id
  \/ /\ user.department_id # None
     /\ e.principal = user.department_id
     /\ e.principal \in activeDepartments

GrantedPermissions(user, document, entries, activeDepartments) ==
  {e.permission : e \in {x \in entries : /\ x.document_id = document.id
                                        /\ Applies(x, user, activeDepartments)}}

\* A rule that asks for the permission itself, without its implications.
HasDocumentPermission_NotImplied(user, document, granted, p) ==
  /\ user.is_active /\ ~document.is_deleted
  /\ \/ user.role = "SYSTEM_ADMIN"
     \/ document.owner_id = user.id
     \/ /\ p = "VIEW_METADATA"
        /\ \/ user.role = "DOCUMENT_ADMIN"
           \/ /\ user.role = "DEPARTMENT_MANAGER"
              /\ user.department_id # None
              /\ user.department_id = document.department_id
     \/ p \in granted
HasDocumentPermission(user, document, granted, p) ==
  /\ user.is_active /\ ~document.is_deleted
  /\ \/ user.role = "SYSTEM_ADMIN"
     \/ document.owner_id = user.id
     \/ /\ p = "VIEW_METADATA"
        /\ \/ user.role = "DOCUMENT_ADMIN"
           \/ /\ user.role = "DEPARTMENT_MANAGER"
              /\ user.department_id # None
              /\ user.department_id = document.department_id
     \/ granted \cap ImpliedPermissions(p) # {}

EffectivePermissions(user, document, granted) ==
  {p \in Permissions : HasDocumentPermission(user, document, granted, p)}

(* The WHERE clause of document lists: an inactive user gets false(), a    *)
(* SYSTEM_ADMIN everything that is not deleted, and the others one         *)
(* disjunct per way to a document, the ACL rows in two EXISTS subqueries.  *)
AccessPredicate(user, document, entries, activeDepartments, p) ==
  LET Granted(principal) ==
        \E e \in entries : /\ e.document_id = document.id
                           /\ e.principal = principal
                           /\ e.permission \in ImpliedPermissions(p)
      IsMetadata == p = "VIEW_METADATA"
  IN
  /\ user.is_active
  /\ ~document.is_deleted
  /\ \/ user.role = "SYSTEM_ADMIN"
     \/ document.owner_id = user.id
     \/ IsMetadata /\ user.role = "DOCUMENT_ADMIN"
     \/ /\ IsMetadata /\ user.role = "DEPARTMENT_MANAGER"
        /\ user.department_id # None /\ document.department_id = user.department_id
     \/ Granted(user.id)
     \/ /\ user.department_id # None /\ user.department_id \in activeDepartments
        /\ Granted(user.department_id)
===========================================================================
