--------------------------- MODULE MCConfigStore ---------------------------
(* Instances of ConfigStore for TLC: three writers of one access.toml.      *)
EXTENDS ConfigStore

CONSTANTS k0, k1    \* the key of a document in use, and one an edit brings

(* Each process stands for the key it generates too. *)
Keys == {k0, k1} \cup Proc
KeyOfProc == [p \in Proc |-> p]

Symmetry == Permutations(Proc)

Service(name, protocol, port, udp) ==
    [name |-> name, protocol |-> protocol, host |-> Absent, port |-> port,
     node_id |-> "id1", https |-> TRUE, udp |-> udp, multiplex |-> FALSE]

OneFlow == [NoUdp EXCEPT !["max_flows"] = 1]

(* A document in daily use: a key, an old entry and a UDP service whose      *)
(* explicit cap is below the default cap per peer.                          *)
InUse ==
    [EmptyDoc EXCEPT !.node = "table", !.secret_key = k0, !.services = "tables",
        !.entries = <<[Service("web", "tcp", 1, NoUdp) EXCEPT !.multiplex = TRUE],
                      Service("dns", "udp", 2, OneFlow)>>]

Unkeyed == [InUse EXCEPT !.secret_key = NoKey]

Texts ==
    {NoFile, Garbage, InUse, Unkeyed,
     [InUse EXCEPT !.secret_key = BadKey, !.services = "inline"]}

Edits ==
    {[InUse EXCEPT !.secret_key = k1, !.entries = SubSeq(@, 2, 2)],
     [Unkeyed EXCEPT !.entries[2].udp["max_flows"] = 0]}

SetReq(name, port, nodeId) ==
    [kind |-> "set", req |-> [name |-> name, host |-> Absent, port |-> port,
                              protocol |-> Absent, node_id |-> nodeId]]

Ops ==
    {SetReq("db", 1, "id1"), SetReq("dns", 2, "id2"),
     [kind |-> "rm", name |-> "web"],
     [kind |-> "keygen", yes |-> TRUE], [kind |-> "keygen", yes |-> FALSE],
     [kind |-> "run"], [kind |-> "edit"]}
============================================================================
