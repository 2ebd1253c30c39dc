--------------------------- MODULE AccessReport ----------------------------
(***************************************************************************)
(* One Access service and what an operator sees of it: the dial with its   *)
(* retries inside a client's budget, the log lines about the path of the   *)
(* connection, and the service's row in the status file.                   *)
(*                                                                         *)
(* iroh moves a connection between paths on its own, may forget a peer for *)
(* a while, and lists a peer's paths in any order, some of them twice. The *)
(* poller and the flush task look every five seconds; both compare what    *)
(* they see with what they saw last.                                       *)
(***************************************************************************)
EXTENDS Naturals, FiniteSets, Sequences, SequencesExt

CONSTANTS
    Cand,       \* the addresses iroh may know for the peer: [kind, addr]
    None,       \* no connection, no entry, no poller, no line
    Pending,    \* the log said "paths pending"
    Bindings,   \* the sets of addresses the endpoint's sockets may be bound to
    Bound,      \* those they are bound to at first
    Stats,      \* what the service's UDP statistics may read, at first 0 (for TCP always)
    Waited,     \* bound: the seconds of its budget a client may have used before it dials
    FailAfter,  \* bound: the seconds after which an attempt may fail
    MaxMoves,   \* bound: changes of the paths, the sockets and the statistics
    MaxDials,   \* bound: connections
    MaxFails    \* bound: saves that fail

ReportConstants ==
    /\ Cand \subseteq [kind : {"relay", "direct", "custom"}, addr : Nat]
    /\ \A S \in Bindings : S \subseteq Nat /\ IsFiniteSet(S)
    /\ Bound \in Bindings /\ 0 \in Stats
    /\ Waited \subseteq 0 .. 30 /\ FailAfter \subseteq Nat
    /\ {MaxMoves, MaxDials, MaxFails} \subseteq Nat

ASSUME ReportAssumption == ReportConstants

(* All times in seconds. *)
CLIENT_CONNECT_DEADLINE == 30
INITIAL_BACKOFF == 1
MAX_BACKOFF == 30
DIAL_ATTEMPT_STEP == 5
DIAL_ATTEMPT_MAX == 20

VARIABLES
    remote,   \* iroh's entry for the peer: the paths as it lists them, or None
    sockets,  \* the addresses the endpoint is bound to, which iroh lists in any order
    stats,    \* the service's UDP statistics
    dial,     \* the dial under way: where it is, its caller's clock when it began and
              \* now, its attempt and backoff
    conn,     \* the cached connection: None, "live" or "closed"
    poller,   \* the poller's baseline, or None
    shown,    \* the active paths the log last told of this connection
    flush,    \* the flush task: where it is and what it rendered
    last,     \* the row it saved last, or None
    file,     \* the service's row in the status file, or None
    moves, dials, fails

env == <<remote, sockets, stats, moves>>
flushVars == <<flush, last, file, fails>>
linkVars == <<dial, conn, poller, shown, dials>>
reportVars == <<env, flushVars, linkVars>>

Path(c, used) == [kind |-> c.kind, addr |-> c.addr, active |-> used]
Listing == Seq([kind : {"relay", "direct", "custom"}, addr : Nat, active : BOOLEAN])
Row == Seq([kind : {"relay", "direct"}, addr : Nat, active : BOOLEAN])

(* AccessServiceObservation: what the status file tells of the service. *)
Observation == [transports : Row, bound : Seq(Nat), udp : Stats]
Unconnected(udp) == [transports |-> <<>>, bound |-> <<>>, udp |-> udp]

NoDial == [at |-> "none", start |-> 0, now |-> 0, attempt |-> 0, backoff |-> 0]
Asleep == [at |-> "sleep", row |-> None]

ReportTypeOK ==
    /\ remote = None \/ remote \in Listing
    /\ sockets \in Bindings /\ stats \in Stats
    /\ dial.at \in {"none", "attempt", "report", "expired"}
    /\ dial.start \in 0 .. dial.now
    /\ dial.now \in 0 .. CLIENT_CONNECT_DEADLINE
    /\ dial.backoff \in 0 .. MAX_BACKOFF
    /\ conn \in {None, "live", "closed"}
    /\ poller = None \/ poller \in Row
    /\ shown \in {None, Pending} \cup SUBSET Cand
    /\ flush.at \in {"sleep", "query", "save"}
    /\ {flush.row, last, file} \subseteq Observation \cup {None}
    /\ moves \in 0 .. MaxMoves /\ dials \in 0 .. MaxDials /\ fails \in 0 .. MaxFails

(* The initial save has written a row without a connection, or failed. *)
ReportInit ==
    /\ remote = None
    /\ sockets = Bound /\ stats = 0
    /\ dial = NoDial
    /\ conn = None
    /\ poller = None
    /\ shown = None
    /\ flush = Asleep
    /\ \/ file = Unconnected(stats) /\ fails = 0
       \/ file = None /\ fails = 1 /\ fails <= MaxFails
    /\ last = file
    /\ moves = 0 /\ dials = 0

----------------------------------------------------------------------------
(* The report of a peer's paths. *)

(* classify_transport: only relay and direct paths are reported. *)
Reportable(c) == c.kind \in {"relay", "direct"}

KindOrder(k) == CASE k = "relay" -> 1 [] k = "direct" -> 2 [] OTHER -> 3

Before_NoTieBreak(a, b) ==
    \/ a.active /\ ~b.active
    \/ a.active = b.active /\ KindOrder(a.kind) < KindOrder(b.kind)

(* sort_transports: active ones first, then by kind, then by address. *)
Before(a, b) ==
    \/ a.active /\ ~b.active
    \/ /\ a.active = b.active
       /\ \/ KindOrder(a.kind) < KindOrder(b.kind)
          \/ a.kind = b.kind /\ a.addr < b.addr

(* No entry for the peer is an empty list. *)
Listed(list) == IF list = None THEN <<>> ELSE list

(* The paths peer_path_report reports of iroh's list. *)
Items(list) == {list[i] : i \in {j \in DOMAIN list : Reportable(list[j])}}

(* The rows that can come of iroh's list: dedup leaves each path once, and  *)
(* the sort leaves no two the wrong way round.                              *)
Reports(list) ==
    {row \in [1 .. Cardinality(Items(list)) -> Items(list)] :
        \A m, n \in DOMAIN row : m < n => row[m] # row[n] /\ ~Before(row[n], row[m])}

(* local_bound_addrs: the bound sockets, sorted, whatever the order they were *)
(* listed in.                                                                *)
Sorted(S) ==
    {row \in [1 .. Cardinality(S) -> S] : \A m, n \in DOMAIN row : m < n => row[m] < row[n]}

(* The active paths of a report. *)
ActiveSet(row) ==
    {[kind |-> row[i].kind, addr |-> row[i].addr] : i \in {j \in DOMAIN row : row[j].active}}
HasActive(row) == ActiveSet(row) # {}

(* diff_transports: order and idle paths do not matter. *)
Changed(before, after) == ActiveSet(before) # ActiveSet(after)

(* What an established line tells (render_established_paths). *)
Told(row) == IF HasActive(row) THEN ActiveSet(row) ELSE Pending

----------------------------------------------------------------------------
(* Dialling. *)

NextBackoff(ms) == IF 2 * ms > MAX_BACKOFF THEN MAX_BACKOFF ELSE 2 * ms

AttemptTimeout(n) ==
    IF DIAL_ATTEMPT_STEP * n > DIAL_ATTEMPT_MAX THEN DIAL_ATTEMPT_MAX ELSE DIAL_ATTEMPT_STEP * n

Earlier(a, b) == IF a < b THEN a ELSE b

Limit_Unbounded(d) == d.now + AttemptTimeout(d.attempt)

(* When the attempt under way is given up: its own bound or the deadline. *)
Limit(d) == Earlier(d.now + AttemptTimeout(d.attempt), CLIENT_CONNECT_DEADLINE)

(* A client finds no connection: get_or_dial. Its budget runs from when it   *)
(* was accepted, so the wait for the dial lock and a first connection that   *)
(* failed have used some of it; with nothing left no attempt is made.        *)
StartDial ==
    /\ conn = None /\ dial.at \in {"none", "expired"} /\ dials < MaxDials
    /\ \E t \in Waited :
           dial' = IF t < CLIENT_CONNECT_DEADLINE
                   THEN [at |-> "attempt", start |-> t, now |-> t, attempt |-> 1,
                         backoff |-> INITIAL_BACKOFF]
                   ELSE [NoDial EXCEPT !.at = "expired", !.start = t, !.now = t]
    /\ UNCHANGED <<env, flushVars, conn, poller, shown, dials>>

(* The dial succeeds in time: the connection is stored, and what watched an *)
(* older one is aborted.                                                    *)
AttemptSucceeds ==
    /\ dial.at = "attempt"
    /\ dial' = [NoDial EXCEPT !.at = "report"]
    /\ conn' = "live"
    /\ poller' = None
    /\ shown' = None
    /\ dials' = dials + 1
    /\ UNCHANGED <<env, flushVars>>

(* It fails at time t, at the latest at its limit: sleep, then try again,   *)
(* unless the deadline has passed by then.                                  *)
DialFails ==
    /\ dial.at = "attempt"
    /\ \E t \in {Limit(dial)} \cup {Earlier(dial.now + d, Limit(dial)) : d \in FailAfter} :
           LET wake == Earlier(t + dial.backoff, CLIENT_CONNECT_DEADLINE)
           IN dial' = IF wake = CLIENT_CONNECT_DEADLINE
                      THEN [dial EXCEPT !.at = "expired", !.now = wake]
                      ELSE [dial EXCEPT !.now = wake, !.attempt = @ + 1,
                                        !.backoff = NextBackoff(@)]
    /\ UNCHANGED <<env, flushVars, conn, poller, shown, dials>>

(* The client's deadline or the stop drops the future; a connection that is *)
(* stored already stays, without a poller and without a line.               *)
DialDropped ==
    /\ dial.at \in {"attempt", "report"}
    /\ dial' = NoDial
    /\ UNCHANGED <<env, flushVars, conn, poller, shown, dials>>

(* One snapshot for the established line and for the poller's baseline; the *)
(* poller is spawned only while the connection is still the cached one.     *)
Established ==
    /\ dial.at = "report"
    /\ dial' = NoDial
    /\ \E row \in Reports(Listed(remote)) :
           /\ poller' = IF conn # None THEN row ELSE poller
           /\ shown' = Told(row)
    /\ UNCHANGED <<env, flushVars, conn, dials>>

(* The connection dies; a client that meets it evicts it. *)
ConnCloses ==
    /\ conn = "live"
    /\ conn' = "closed"
    /\ UNCHANGED <<env, flushVars, dial, poller, shown, dials>>

InvalidateLink ==
    /\ conn = "closed"
    /\ conn' = None
    /\ UNCHANGED <<env, flushVars, dial, poller, shown, dials>>

----------------------------------------------------------------------------
(* The path-change poller. *)

PollerStep_ForgetsBaseline(base, row) ==
    IF ~HasActive(base) \/ ~HasActive(row) THEN [line |-> FALSE, next |-> row]
    ELSE [line |-> Changed(base, row), next |-> row]

PollerStep_IgnoresLosses(base, row) ==
    IF ~HasActive(base) THEN [line |-> FALSE, next |-> row]
    ELSE IF ActiveSet(row) \subseteq ActiveSet(base) THEN [line |-> FALSE, next |-> base]
    ELSE [line |-> TRUE, next |-> row]

(* poller_step: a baseline without an active path is replaced silently, a   *)
(* snapshot without one is ignored, and otherwise a change is one line.     *)
PollerStep(base, row) ==
    IF ~HasActive(base) THEN [line |-> FALSE, next |-> row]
    ELSE IF ~HasActive(row) THEN [line |-> FALSE, next |-> base]
    ELSE [line |-> Changed(base, row), next |-> row]

(* One tick; an entry that is missing is looked for again at the next one. *)
Poll ==
    /\ poller # None /\ conn = "live" /\ remote # None
    /\ \E row \in Reports(remote) :
           LET step == PollerStep(poller, row)
           IN /\ poller' = step.next
              /\ shown' = IF step.line THEN ActiveSet(step.next) ELSE shown
    /\ UNCHANGED <<env, flushVars, dial, conn, dials>>

(* closed() resolves. *)
PollerEnds ==
    /\ poller # None /\ conn # "live"
    /\ poller' = None
    /\ shown' = None
    /\ UNCHANGED <<env, flushVars, dial, conn, dials>>

----------------------------------------------------------------------------
(* The flush task. *)

Rendered(row) == flush' = [at |-> "save", row |-> row]

(* A tick: is there a connection? The lock is released before the query. *)
FlushTick ==
    /\ flush.at = "sleep"
    /\ IF conn = None THEN Rendered(Unconnected(stats))
       ELSE flush' = [at |-> "query", row |-> None]
    /\ UNCHANGED <<env, linkVars, last, file, fails>>

(* A peer that iroh has forgotten looks like one that is not connected. *)
FlushQuery ==
    /\ flush.at = "query"
    /\ \/ remote = None /\ Rendered(Unconnected(stats))
       \/ /\ remote # None
          /\ \E paths \in Reports(remote), addrs \in Sorted(sockets) :
                 Rendered([transports |-> paths, bound |-> addrs, udp |-> stats])
    /\ UNCHANGED <<env, linkVars, last, file, fails>>

FlushSave_RecordsFirst ==
    /\ flush.at = "save"
    /\ flush' = Asleep
    /\ last' = flush.row
    /\ \/ flush.row = last /\ UNCHANGED <<file, fails>>
       \/ flush.row # last /\ file' = flush.row /\ UNCHANGED fails
       \/ flush.row # last /\ fails < MaxFails /\ fails' = fails + 1 /\ UNCHANGED file
    /\ UNCHANGED <<env, linkVars>>

(* Nothing to do when nothing changed; otherwise save, and remember the row *)
(* only if the save succeeded.                                              *)
FlushSave ==
    /\ flush.at = "save"
    /\ flush' = Asleep
    /\ \/ flush.row = last /\ UNCHANGED <<last, file, fails>>
       \/ flush.row # last /\ file' = flush.row /\ last' = flush.row /\ UNCHANGED fails
       \/ /\ flush.row # last /\ fails < MaxFails
          /\ fails' = fails + 1 /\ UNCHANGED <<last, file>>
    /\ UNCHANGED <<env, linkVars>>

----------------------------------------------------------------------------
(* iroh. *)

(* A path is listed (perhaps a second time), dropped, taken into use or     *)
(* left, the list is reordered, or the peer is forgotten.                   *)
PathMoves ==
    /\ moves < MaxMoves
    /\ moves' = moves + 1
    /\ \/ \E c \in Cand, used \in BOOLEAN : remote' = Append(Listed(remote), Path(c, used))
       \/ \E i \in DOMAIN Listed(remote) :
              \/ remote' = RemoveAt(remote, i)
              \/ remote' = [remote EXCEPT ![i].active = ~@]
       \/ Len(Listed(remote)) > 1 /\ remote' = Append(Tail(remote), Head(remote))
       \/ remote # None /\ remote' = None
    /\ UNCHANGED <<sockets, stats, flushVars, linkVars>>

(* The endpoint is bound anew. *)
Rebind ==
    /\ moves < MaxMoves
    /\ moves' = moves + 1
    /\ sockets' \in Bindings \ {sockets}
    /\ UNCHANGED <<remote, stats, flushVars, linkVars>>

(* Flows come and go and datagrams are dropped. *)
StatsMove ==
    /\ moves < MaxMoves
    /\ moves' = moves + 1
    /\ stats' \in Stats \ {stats}
    /\ UNCHANGED <<remote, sockets, flushVars, linkVars>>

Dialling == StartDial \/ AttemptSucceeds \/ DialFails \/ DialDropped \/ Established
Flushing == FlushTick \/ FlushQuery \/ FlushSave

ReportNext ==
    \/ Dialling
    \/ ConnCloses \/ InvalidateLink
    \/ Poll \/ PollerEnds
    \/ Flushing
    \/ PathMoves \/ Rebind \/ StatsMove

(* Both tasks sleep five seconds and look again for as long as the role     *)
(* runs.                                                                    *)
ReportFairness == WF_reportVars(Poll) /\ WF_reportVars(Flushing)

ReportSpec == ReportInit /\ [][ReportNext]_reportVars /\ ReportFairness

----------------------------------------------------------------------------
(* Properties. *)

(* The attempts that fit into a budget even when each takes as long as it    *)
(* may: 5 s and a backoff of 1 s, then 10 s and 2 s.                         *)
LeastAttempts(budget) ==
    IF budget > 18 THEN 3 ELSE IF budget > 6 THEN 2 ELSE IF budget > 0 THEN 1 ELSE 0

(* A dial never outlives its caller's budget, of which the wait for the dial *)
(* lock is a part, and gives up only when it is used up; it has then tried   *)
(* as often as what was left of the budget allows at least, and at most five *)
(* times, however long each attempt took (connect_with_retry).               *)
DialWithinBudget ==
    /\ dial.at = "attempt" =>
           dial.now < Limit(dial) /\ Limit(dial) <= CLIENT_CONNECT_DEADLINE /\ dial.attempt <= 5
    /\ dial.at = "expired" =>
           /\ dial.now = CLIENT_CONNECT_DEADLINE
           /\ dial.attempt \in LeastAttempts(CLIENT_CONNECT_DEADLINE - dial.start) .. 5

(* The poller compares with what the log told last (unless that was that    *)
(* the paths are pending), so every line starts where the one before ended  *)
(* and a path that is briefly missing is never a line of its own.           *)
LogChains ==
    poller # None /\ shown # Pending => shown # {} /\ shown = ActiveSet(poller)

(* What a row tells: which paths, which sockets, which statistics. *)
Shows(row) == <<ToSet(row.transports), ToSet(row.bound), row.udp>>

(* Once there is a file it is rewritten only when what it tells of the       *)
(* service changed, in whatever order iroh lists the peer's paths and the    *)
(* endpoint's sockets, and however often it lists a path.                    *)
NoIdleRewrite ==
    [][file # file' /\ file # None => Shows(file) # Shows(file')]_reportVars

(* The paths iroh uses now. *)
ActiveNow == {c \in Cand : Reportable(c) /\ Path(c, TRUE) \in ToSet(Listed(remote))}

(* Once nothing changes any more, the file shows how things are: a save that *)
(* failed is made again.                                                     *)
StatusCatchesUp ==
    <>[](/\ file # None /\ file.udp = stats
         /\ IF conn = None \/ remote = None THEN file = Unconnected(stats)
            ELSE ActiveSet(file.transports) = ActiveNow /\ ToSet(file.bound) = sockets)

(* Once the paths stay as they are, a polled connection's last line names   *)
(* the active ones, unless they were pending when it was established.       *)
LogCatchesUp ==
    <>[](poller # None /\ conn = "live" /\ ActiveNow # {} => shown \in {Pending, ActiveNow})

(* The file and the log end up telling the present state.                    *)
CatchesUp == StatusCatchesUp /\ LogCatchesUp

(* The reports are well formed (only relay and direct paths: ReportTypeOK)   *)
(* and the log's lines follow on one another.                                *)
ReportsSound == ReportTypeOK /\ LogChains

----------------------------------------------------------------------------
(* What the proofs of these properties need to know of every state. *)

(* Where a dial is decides its attempt and its backoff, and when it can be.  *)
DialSchedule ==
    /\ dial.at = "attempt" =>
           /\ dial.start <= dial.now /\ dial.now < CLIENT_CONNECT_DEADLINE
           /\ \/ dial.attempt = 1 /\ dial.backoff = 1 /\ dial.now = dial.start
              \/ dial.attempt = 2 /\ dial.backoff = 2 /\ dial.now \in dial.start + 1 .. dial.start + 6
              \/ dial.attempt = 3 /\ dial.backoff = 4 /\ dial.now \in dial.start + 3 .. dial.start + 18
              \/ dial.attempt = 4 /\ dial.backoff = 8 /\ dial.start + 7 <= dial.now
              \/ dial.attempt = 5 /\ dial.backoff = 16 /\ dial.start + 15 <= dial.now
    /\ dial.at = "expired" =>
           /\ dial.now = CLIENT_CONNECT_DEADLINE
           /\ dial.attempt \in LeastAttempts(CLIENT_CONNECT_DEADLINE - dial.start) .. 5
    /\ dial.at \in {"none", "report"} => dial.start = 0

(* A row of a report: known paths, each before the next. *)
Known(S) == {Path(c, used) : c \in S, used \in BOOLEAN}
Rows ==
    {row \in Seq(Known({c \in Cand : Reportable(c)})) :
        \A m, n \in DOMAIN row : m < n => Before(row[m], row[n])}

(* The bound addresses, each before the next. *)
BoundRows ==
    {row \in Seq(Nat) : \A m, n \in DOMAIN row : m < n => row[m] < row[n]}

Observed == [transports : Rows, bound : BoundRows, udp : Stats]

DialState ==
    [at : {"none", "attempt", "report", "expired"}, start : 0 .. CLIENT_CONNECT_DEADLINE,
     now : 0 .. CLIENT_CONNECT_DEADLINE, attempt : 0 .. 5, backoff : 0 .. MAX_BACKOFF]

ReportInv ==
    /\ remote = None \/ remote \in Seq(Known(Cand))
    /\ sockets \in Bindings /\ stats \in Stats
    /\ dial \in DialState
    /\ DialSchedule
    /\ conn \in {None, "live", "closed"}
    /\ poller = None \/ poller \in Rows
    /\ shown \in {None, Pending} \cup SUBSET Cand
    /\ flush \in [at : {"sleep", "query", "save"}, row : Observed \cup {None}]
    /\ flush.at = "save" => flush.row \in Observed
    /\ last \in Observed \cup {None} /\ file \in Observed \cup {None}
    /\ moves \in 0 .. MaxMoves /\ dials \in 0 .. MaxDials /\ fails \in 0 .. MaxFails
    /\ dial.at = "attempt" => dials < MaxDials
    /\ dial.at = "report" => poller = None
    /\ LogChains

=============================================================================
