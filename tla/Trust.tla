------------------------------- MODULE Trust -------------------------------
(***************************************************************************)
(* The check a root service makes before it uses a path in a user's home   *)
(* (trust.rs): a walk from `/` that opens one component at a time without  *)
(* following links and looks at the owner and the mode of what it opened.  *)
(*                                                                         *)
(* A path is a sequence of components, `/` first. Each has an owner, a     *)
(* kind, whether group or others may write to it, and the sticky bit.      *)
(***************************************************************************)
EXTENDS Naturals, Sequences, SequencesExt

CONSTANTS User, Root

ASSUME TrustAssumption == Root \notin User

Component ==
    [owner : User \cup {Root}, kind : {"dir", "file", "link"},
     writable : BOOLEAN, sticky : BOOLEAN]

(* trusted: root, and the one user recorded at install time. *)
Trusted(owner, uid) == owner \in {Root, uid}

CheckParent_OwnerOnly(parent, child, uid) == Trusted(parent.owner, uid)

(* check_parent: nobody untrusted may replace the child. In a directory all  *)
(* can write to, the sticky bit keeps the child if a trusted user owns it.   *)
CheckParent(parent, child, uid) ==
    /\ Trusted(parent.owner, uid)
    /\ parent.writable => parent.sticky /\ Trusted(child.owner, uid)

(* check_final: the right kind, a trusted owner, no other writers. *)
CheckFinal(entry, uid, wantDir) ==
    /\ entry.kind = IF wantDir THEN "dir" ELSE "file"
    /\ Trusted(entry.owner, uid)
    /\ ~entry.writable

(* walk: every open refuses a link, and all but the last want a directory. *)
Walk(path, uid, wantDir) ==
    /\ \A i \in 1 .. Len(path) - 1 :
           /\ path[i].kind = "dir"
           /\ CheckParent(path[i], path[i + 1], uid)
    /\ CheckFinal(Last(path), uid, wantDir)

----------------------------------------------------------------------------
(* What the walk is for, without its order of checks: u can change what a    *)
(* reader of the path gets.                                                 *)
CanWrite(u, c) == c.owner = u \/ c.writable

CanReplace(u, parent, child) ==
    /\ CanWrite(u, parent)
    /\ parent.sticky => u \in {parent.owner, child.owner}

CanChange(u, path) ==
    \/ \E i \in DOMAIN path : path[i].kind = "link"
    \/ CanWrite(u, Last(path))
    \/ \E i \in 1 .. Len(path) - 1 :
           path[i].owner = u \/ CanReplace(u, path[i], path[i + 1])

(* Only root and uid decide what is at the path. *)
Safe(path, uid) == \A u \in User \ {uid} : ~CanChange(u, path)
============================================================================
