--------------------------- MODULE MCRoleOwnership --------------------------
(* Instances of RoleOwnership: a user's Serve and Access, the system         *)
(* service's Serve and Access, and commands of both.                         *)
EXTENDS RoleOwnership, TLC

CONSTANTS userServe, userServe2, userAccess,
           sysServe, sysAccess, userCmd, sysCmd, user, root, key

MCRoleOf == [a \in Actor |-> IF a \in {userAccess, sysAccess} THEN "access" ELSE "serve"]
MCHomeOf == [a \in Actor |-> IF a \in {userServe, userServe2, userAccess, userCmd} THEN user ELSE root]
MCIdOf == [p \in Proc |-> key]
MCElevated == Actor \cap {sysServe, sysAccess, sysCmd}

(* All the starts, and those that differ with a command among them. *)
MCParties == {Proc} \cup {Actor \ {p} : p \in Proc \cap {userServe2, sysServe, userAccess}}

(* A user's two Serve starts are interchangeable. *)
Symmetry == Permutations({userServe, userServe2})

=============================================================================
