----------------------------- MODULE ConfigDoc -----------------------------
(***************************************************************************)
(* Role configuration documents, and what each `config` command makes of   *)
(* one: the schema (dto.rs), the edits (set_service.rs, remove_service.rs, *)
(* keygen.rs) and the effective UDP limits (settings.rs).                  *)
(*                                                                         *)
(* A text is NoFile (no file at the path), Garbage (not TOML) or a         *)
(* document: the [node] table, the shape of `services` and its entries.    *)
(* Comments and formatting are left out; every operator here keeps them.   *)
(***************************************************************************)
EXTENDS Integers, Sequences, SequencesExt

CONSTANTS
    Absent,             \* a key that is not in its table
    NoFile, Garbage,    \* the two texts that are not documents
    NoKey, BadKey,      \* an empty secret_key, and one that does not decode
    Key,                \* the secret keys that decode
    Name, NodeId,       \* the service names and node ids of the right form
    Host, DefaultHost,
    MaxPort,            \* 65535: the largest u16
    MaxIdle, MaxUdpFlows, MaxQueue,                       \* the schema's maxima
    DefaultIdle, DefaultFlows, DefaultPerPeer, DefaultQueue

ASSUME DocAssumption ==
    /\ {NoKey, BadKey} \cap Key = {}
    /\ {MaxPort, MaxIdle, MaxUdpFlows, MaxQueue} \subseteq Nat
    /\ DefaultHost \in Host
    /\ DefaultIdle \in 1 .. MaxIdle
    /\ DefaultFlows \in 1 .. MaxUdpFlows
    /\ DefaultPerPeer \in 1 .. MaxUdpFlows
    /\ DefaultQueue \in 1 .. MaxQueue

UdpField == {"idle_timeout", "max_flows", "max_flows_per_peer", "queue_depth"}

(* One [[services]] entry; a missing key is Absent. *)
Entry ==
    [name : Name \cup {"Bad", Absent}, protocol : {"tcp", "udp", "bad", Absent},
     host : Host \cup {Absent}, port : 0 .. MaxPort + 1 \cup {Absent},
     node_id : NodeId \cup {"bad", Absent}, https : BOOLEAN,
     udp : [UdpField -> Nat \cup {Absent}], multiplex : BOOLEAN]

Doc ==
    [node : {"absent", "table", "malformed"}, secret_key : Key \cup {NoKey, BadKey},
     https : BOOLEAN, token : {"ok", "blank", "spaced", Absent},
     streams : Nat \cup {Absent},
     services : {"absent", "tables", "inline", "malformed"}, entries : Seq(Entry)]

Text == Doc \cup {NoFile, Garbage}

NoUdp == [f \in UdpField |-> Absent]

EmptyDoc ==
    [node |-> "absent", secret_key |-> NoKey, https |-> TRUE, token |-> Absent,
     streams |-> Absent, services |-> "absent", entries |-> <<>>]

(* The document a writer starts from: a missing file reads as an empty one. *)
OrEmpty(text) == IF text = NoFile THEN EmptyDoc ELSE text

----------------------------------------------------------------------------
(* The schema. *)

MaxOf(f) ==
    CASE f = "idle_timeout" -> MaxIdle
      [] f = "queue_depth" -> MaxQueue
      [] OTHER -> MaxUdpFlows

(* UdpSettings::validate; only Serve has peers to cap and a queue per flow. *)
UdpValid(role, protocol, udp) ==
    IF protocol # "udp"
    THEN udp = NoUdp
    ELSE /\ \A f \in UdpField : udp[f] # Absent => udp[f] \in 1 .. MaxOf(f)
         /\ role = "access" => /\ udp["max_flows_per_peer"] = Absent
                               /\ udp["queue_depth"] = Absent
         /\ (udp["max_flows_per_peer"] # Absent /\ udp["max_flows"] # Absent)
                => udp["max_flows_per_peer"] <= udp["max_flows"]

(* The types serde needs: a field of the wrong type or missing is an error. *)
EntryTyped(role, e) ==
    /\ e.name # Absent
    /\ e.protocol \in {"tcp", "udp"}
    /\ e.port \in 0 .. MaxPort
    /\ role = "access" => e.node_id # Absent

EntryValid(role, e) ==
    /\ EntryTyped(role, e)
    /\ e.name \in Name
    /\ e.port # 0
    /\ role = "access" => e.node_id \in NodeId /\ e.https
    /\ UdpValid(role, e.protocol, e.udp)

NodeValid(d) ==
    /\ d.https
    /\ d.token \notin {"blank", "spaced"}
    /\ d.streams # 0

(* ServeConfig::validate and AccessConfig::validate. The secret key is not   *)
(* decoded here.                                                            *)
Validate(role, d) ==
    /\ NodeValid(d)
    /\ \A i \in DOMAIN d.entries : EntryValid(role, d.entries[i])
    /\ \A i, j \in DOMAIN d.entries : d.entries[i].name = d.entries[j].name => i = j

(* validate_role_doc: the text parses through the role's schema and is valid. *)
Valid(role, text) ==
    /\ text \notin {NoFile, Garbage}
    /\ text.node # "malformed"
    /\ text.services # "malformed"
    /\ Validate(role, text)

(* UdpLimits::from_overrides: the limits a service runs with. *)
Resolve(udp) ==
    LET Or(f, default) == IF udp[f] = Absent THEN default ELSE udp[f]
        flows == Or("max_flows", DefaultFlows)
        peer == Or("max_flows_per_peer", DefaultPerPeer)
    IN  [idle_timeout |-> Or("idle_timeout", DefaultIdle),
         max_flows |-> flows,
         max_flows_per_peer |-> IF peer > flows THEN flows ELSE peer,
         queue_depth |-> Or("queue_depth", DefaultQueue)]

(* The services the engine is handed: serve_settings and access_settings. *)
Settings(d) ==
    [i \in DOMAIN d.entries |->
        [name |-> d.entries[i].name, protocol |-> d.entries[i].protocol,
         udp |-> Resolve(d.entries[i].udp)]]

----------------------------------------------------------------------------
(* The edits. Each is the set of documents it may leave: a refused edit      *)
(* leaves none.                                                             *)

(* strip_retired_fields: `multiplex` goes from every entry of an array. *)
StripRetired(d) ==
    [d EXCEPT !.entries = [i \in DOMAIN d.entries |->
                              [d.entries[i] EXCEPT !.multiplex = FALSE]]]

(* existing_secret_key. *)
HasKey(text) ==
    /\ text \notin {NoFile, Garbage}
    /\ text.node = "table"
    /\ text.secret_key # NoKey

(* resolve_secret_key on the stored key. *)
Decodes(text) == text.secret_key \in Key

(* ensure_node_table, then the key; a [node] that is no table is refused. *)
WithKey(d, key) ==
    IF d.node = "malformed" THEN {}
    ELSE {[d EXCEPT !.node = "table", !.secret_key = key]}

IndexOfName(d, name) == {i \in DOMAIN d.entries : d.entries[i].name = name}

Created_Replaces(role, req, d) ==
    {[d EXCEPT !.services = "tables",
               !.entries = <<[name |-> req.name, protocol |-> "tcp", host |-> DefaultHost,
                              port |-> req.port, node_id |-> req.node_id, https |-> TRUE,
                              udp |-> NoUdp, multiplex |-> FALSE]>>]}

(* create: needs an address, and for Access a node id. *)
Created(role, req, d) ==
    IF req.port = Absent \/ (role = "access" /\ req.node_id = Absent) THEN {}
    ELSE {[d EXCEPT
            !.services = "tables",
            !.entries = Append(@,
                [name |-> req.name,
                 protocol |-> IF req.protocol = Absent THEN "tcp" ELSE req.protocol,
                 host |-> IF req.host = Absent THEN DefaultHost ELSE req.host,
                 port |-> req.port,
                 node_id |-> IF role = "access" THEN req.node_id ELSE Absent,
                 https |-> TRUE, udp |-> NoUdp, multiplex |-> FALSE])]}

(* update of one entry: only the fields that were passed and differ. The    *)
(* host is looked at only with a port, and then the old port must be a u16. *)
UpdatedEntry(req, e) ==
    LET curHost == IF e.host = Absent THEN DefaultHost ELSE e.host
        curProtocol == IF e.protocol = Absent THEN "tcp" ELSE e.protocol
        host == IF req.port = Absent \/ req.host \in {Absent, curHost} THEN e.host
                ELSE req.host
        protocol == IF req.protocol \in {Absent, curProtocol} THEN e.protocol
                    ELSE req.protocol
    IN  [e EXCEPT !.host = host,
                  !.port = IF req.port = Absent THEN e.port ELSE req.port,
                  !.protocol = protocol,
                  !.node_id = IF req.node_id = Absent THEN e.node_id ELSE req.node_id]

Updated(req, d, i) ==
    IF req.port # Absent /\ d.entries[i].port \notin 0 .. MaxPort THEN {}
    ELSE {[d EXCEPT !.entries[i] = UpdatedEntry(req, @)]}

(* set_service: create when no table has the name, update the first that    *)
(* has. `services` of another shape is refused.                             *)
SetService(role, req, d) ==
    LET found == IndexOfName(d, req.name)
    IN  IF d.services \in {"inline", "malformed"} THEN {}
        ELSE IF d.services = "absent" \/ found = {} THEN Created(role, req, d)
        ELSE Updated(req, d, CHOOSE i \in found : \A j \in found : i <= j)

(* remove_service: the first entry of that name. *)
RemoveService(name, d) ==
    LET found == IndexOfName(d, name)
    IN  IF d.services # "tables" \/ found = {} THEN {}
        ELSE {[d EXCEPT !.entries =
                  RemoveAt(@, CHOOSE i \in found : \A j \in found : i <= j)]}

----------------------------------------------------------------------------
(* Commands. *)

(* What one command makes of the text it reads under the writer lock: the    *)
(* texts it may write. `keygen` without consent, a `run` that finds a key,   *)
(* and a `set` that changes nothing write nothing. A write is stripped of    *)
(* retired fields and must be valid.                                        *)
Edited(role, c, text) ==
    LET d == OrEmpty(text)
    IN  CASE c.kind = "set" -> SetService(role, c.req, d) \ {d}
          [] c.kind = "rm" -> RemoveService(c.name, d)
          [] c.kind = "keygen" -> IF HasKey(d) /\ ~c.consent THEN {} ELSE WithKey(d, c.key)
          [] c.kind = "run" -> IF HasKey(d) THEN {} ELSE WithKey(d, c.key)

Result(role, c, text) ==
    IF c.kind = "edit"
    THEN IF text # c.base \/ c.text = Garbage THEN {}
         ELSE {t \in {StripRetired(OrEmpty(c.text))} : Valid(role, t)}
    ELSE IF text = Garbage THEN {}
         ELSE {t \in {StripRetired(d) : d \in Edited(role, c, text)} : Valid(role, t)}
============================================================================
