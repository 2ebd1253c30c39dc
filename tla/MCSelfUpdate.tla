--------------------------- MODULE MCSelfUpdate ----------------------------
(***************************************************************************)
(* Small instances of SelfUpdate: two updates, three releases of which one *)
(* lacks this platform, a released and a `-dev` executable to start from.  *)
(***************************************************************************)
EXTENDS SelfUpdate, TLC

Ask(to, insecure, yes, container) ==
    [to |-> to, insecure |-> insecure, yes |-> yes, container |-> container]

MCInitVer == {Release(1), [core |-> 2, dev |-> TRUE]}

(* Plain, by version, by something that is no version, unverified, over the *)
(* owner's head, in a container.                                            *)
MCRequest ==
    {Ask(Nothing, FALSE, FALSE, FALSE), Ask(Release(1), FALSE, FALSE, FALSE),
     Ask(Garbage, FALSE, FALSE, FALSE), Ask(Nothing, TRUE, FALSE, FALSE),
     Ask(Release(2), TRUE, FALSE, FALSE), Ask(Release(2), FALSE, TRUE, FALSE),
     Ask(Nothing, FALSE, TRUE, TRUE)}

(* The project's server and a mirror, Windows, and files others own. *)
MCSetting ==
    {[place |-> "local", windows |-> w, mirror |-> FALSE] : w \in BOOLEAN}
      \cup {[place |-> "local", windows |-> FALSE, mirror |-> TRUE]}
      \cup {[place |-> q, windows |-> FALSE, mirror |-> FALSE] : q \in {"usrbin", "homebrew"}}

MCNoAsset == {3}

Symmetry == Permutations(Proc)
=============================================================================
