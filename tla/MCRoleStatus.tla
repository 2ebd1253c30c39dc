---------------------------- MODULE MCRoleStatus ----------------------------
(* Instances of RoleStatus. *)
EXTENDS RoleStatus, TLC

(* Processes are interchangeable. *)
Symmetry == Permutations(Proc)

=============================================================================
