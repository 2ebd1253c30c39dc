--------------------------- MODULE MCAccessReport --------------------------
(***************************************************************************)
(* A small instance of AccessReport: two direct addresses, which only the  *)
(* address tells apart, and one of a kind that is not reported.            *)
(***************************************************************************)
EXTENDS AccessReport

MCCand ==
    {[kind |-> "direct", addr |-> 1], [kind |-> "direct", addr |-> 2],
     [kind |-> "custom", addr |-> 3]}

(* A dial begins with 19 seconds of its budget left, the least in which an   *)
(* attempt for the third time is certain, or with nothing left.              *)
MCWaited == {11, CLIENT_CONNECT_DEADLINE}

(* peer_path_report step by step: filter_map, sort, and dedup of neighbours. *)
SortThenDedup(list) ==
    FoldLeft(LAMBDA kept, path : IF kept # <<>> /\ Last(kept) = path THEN kept
                                 ELSE Append(kept, path),
             <<>>, SortSeq(SelectSeq(list, Reportable), Before))

(* Where the sort tells any two paths apart, that gives the one row Reports  *)
(* allows, for every list of up to four paths, with a relay among them.      *)
Comparable(S) == \A a, b \in S : a # b => Before(a, b) \/ Before(b, a)
ASSUME ReportsAsComputed ==
    LET paths == Known(MCCand \cup {[kind |-> "relay", addr |-> 2]})
    IN  Comparable({p \in paths : Reportable(p)}) =>
            \A n \in 0 .. 4 : \A list \in [1 .. n -> paths] :
                Reports(list) = {SortThenDedup(list)}
=============================================================================
