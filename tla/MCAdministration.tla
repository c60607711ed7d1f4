---------------------------- MODULE MCAdministration ----------------------------
(* A guild of a manager, who is also platform administrator, the owner of a      *)
(* session and a helper with a role; two commands at a time.                    *)
EXTENDS Administration, TLC

CONSTANTS manager, owner, helper, r1

FirstRoles == manager :> {} @@ owner :> {} @@ helper :> {r1}
\* Registered tools, with and without a place for the keys.
Registered == [source : {"none"}, pattern : {"group"}, names : {{}, Keys}, enabled : {"yes"}]
Symmetry == Permutations(Slots)
=============================================================================
