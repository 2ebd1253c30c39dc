# Verification of iroh-tunnel

TLA+ models of iroh-tunnel, the TLC runs that check them on small instances,
and TLAPS proofs of their main properties for all values of the constants.
Paths below are relative to the repository. `PROJECT.json` maps every
definition to the lines it models and lists the runs, the mutants, the
hazards, the findings and the theorems.

## The system

iroh-tunnel exposes a service behind NAT. **Serve** runs beside the service
and accepts QUIC connections, one ALPN per service; **Access** runs beside the
clients, dials Serve's NodeId and listens on a local port. A TCP client
becomes one bidirectional stream of the service's shared connection, a UDP
client one *flow* of its datagrams.

### Inventory

| Component | State | Operations | Hard behaviours | Correct when |
|---|---|---|---|---|
| UDP on Serve (`engine/serve/run_serve.rs`, `engine/udp/types.rs`) | flow table and highest identifier per connection, slot counters per service, queue per flow, sinks | receive, admit, open a socket, refuse, sweep, quarantine, release, stop | peers racing for slots, await between check and insert, stop in mid-open, late datagrams | counters exact, caps hold, identifiers never rebound, stop releases everything |
| UDP on Access (`engine/access/run_access.rs`, `engine/udp/types.rs`) | client table, current incarnation, cached connection, relay task | receive, dial, touch, send, expire, relay a reply, invalidate | incarnation change while a relay is sending, lost connections, identifier exhaustion | a reply reaches only the client its flow belongs to; a dead connection is evicted |
| TCP on Access: shared dialer (`engine/access/run_access.rs`) | cached connection, dial lock, auxiliary tasks | get_or_dial, open stream, invalidate, path poller | N clients and one dial, stale eviction, cancelled dials | one connection for N clients, a healthy one is never evicted |
| TCP pipes (`engine/tcp.rs`) | two copy directions, delivery acknowledgement | copy, half-close, await delivery | peer loss against clean close, acknowledgement timeout | half-close propagates, loss is reported |
| Shutdown (`engine/shutdown.rs`) | stop deadline, task sets, sinks | begin, drain, join, abort, reap | shared deadline, tasks spawned during the drain | every task joined or aborted within the deadline |
| Serve role (`engine/serve/run_serve.rs`, `engine/shutdown.rs`) | accept loop, connection supervisors, stream tasks, active counters, peer registry | accept, handshake, spawn, drain, join, abort, close | a task aborted before its first poll, a peer that reconnects, sinks spawned during shutdown | counters and registry exact, no task outlives its supervisor, stop ends within the grace |
| Role runtime and status file (`host/runtime/`, `host/status/`, `src/app.rs`, `src/lifecycle.rs`) | status file, flush task, exit watchdog | save, stop_flush, remove, forced exit, judge | a save in flight at removal, a successor's file, reused pids | a clean exit leaves no file, a successor's file stays, leftovers are not read as live |
| Role ownership (`host/ownership.rs`) | role and machine locks, owner record, published identity | claim, publish identity, probe, release | two starts, crash between steps, probe against claim | one process per role and tier |
| Retry and paths (`engine/runtime/support.rs`, `engine/conn_path/`) | clock, attempt and backoff of a dial; transports last reported; the status row | connect_with_retry, poller_step, render, save | flapping paths, a peer iroh forgets, failed saves | dials stay in their budget, log and file end up telling the present paths |
| Configuration (`host/config/`, `engine/settings.rs`) | the text of the role's file, its lock, `.rejected` | set, rm, keygen, edit, the first key, validation | a look without the lock and a commit under it, kills, power loss | the file is an atomic register; nothing overwrites what its author has not seen |
| Service management (`host/service/`) | registration, manager and process per scope; configuration paths | install, start, stop, restart, uninstall, status on systemd, launchd, BusyBox, Windows | native commands that fail half-way, another invocation, consent given for an older look | reports are true, installs take effect, a system service runs only from trusted paths |
| Self update (`host/update/`) | the executable, staged files | ask, download, verify, stage, replace | `latest` moving between requests, two updates, kills, power loss | a whole verified release that was asked for; nothing left staged |
| Command line (`src/`), GitHub action (`action-src/`) | - | parse, render, launch, wait for readiness | - | - |

Components interact in these ways. A role's `main` claims the role
(`RoleOwnership`), starts its status writer (`RoleStatus`) and runs `run_serve`
or `run_access`. `run_serve` spawns one supervisor per connection (`ServeRun`),
which for a UDP service runs the receive loop of `UdpServe`; `run_access`
spawns a TCP listener (`TcpAccess`) or a UDP listener (`UdpAccess`) per
service. One stop channel, whose value is the drain deadline, reaches all of
them. Other processes meet the role through files only: locks, owner records,
the status file, the configuration (`ConfigStore`), the registration and the
executable (`Service`, `SelfUpdate`).

## Modules

Each module has an `MC` module that names its model values, and one `.cfg` per
run. What is an *await* in the Rust code is a state of its task here, so that
other tasks act in between; what lies between two awaits is one action, except
where the code touches state that others can see in two steps (atomics, files).

**`UdpServe`** models `handle_udp_connection`: one receive loop per connection,
the shared counters of `UdpStats`, and what becomes of each flow's socket
(`unused -> reserved -> live -> sink -> releasing -> closed`, with `reserved
-> closed` when the open fails). The only await between a check and its use,
`open_upstream`, is the loop state `opening`, during which every other loop,
sink and timer may act. Identifiers arrive in any order, because the peer is
not trusted. `quarantine_ended` decrements two counters, which are two steps.

**`UdpAccess`** models `udp_listen_loop` with the dialer it uses and
`relay_peer_replies`. The loop's awaits are its states (`select`, `dial`,
`join`); the relay may be between looking a client up and sending to it when
the loop starts the next incarnation. `owner` is a history variable: who was
given flow f of incarnation k.

**`TcpAccess`** models `listen_loop`, the task of each client
(`handle_local_connection`, `open_client_stream`) and the `ServiceDialer` they
share. A client's phases are its awaits (`lock`, `dial`, `store`, `report`,
`open`, `evict`, `pipe`, `ack`), at each of which its deadline or stop can
cancel it and so drop what it holds. The dialer's state lock is held only in
synchronous sections; `rendering` is the one holder another task can meet.
Retries of `connect_with_retry` and the copying of bytes stay inside one phase.

**`ServeRun`** models `run_serve` from readiness to the closed endpoint:
`accept_loop` with its serial handshake, `handle_connection`, the stream tasks,
`ActiveStream` and `TrackedPeer` as drop guards, `QuarantineSinks`, and the
order in which shutdown joins them under one deadline. A UDP connection may
leave sinks behind when it ends; what happens inside is `UdpServe`'s matter.

**`RoleOwnership`** models `claim`, `publish_identity`, the drop of `RoleClaim`
and the probes of status and service commands. Every lock call and every file
operation is a step, and a process may crash at any of them: the kernel frees
its locks and its records stay. Locks have two tiers (one directory per user,
one for the machine); who may write the machine lock is a constant. Records
name processes, not pids: reuse of pids is `RoleStatus`'s matter.

**`RoleStatus`** models one role of one user over several processes: the lock
(reduced to its holder), the owner record, the saves of the flush task,
`stop_flush`, `finish_run`, the forced exit of `app.rs` and `lifecycle.rs`, and
`read_role_status` in its three reads. A save is a call on the blocking pool: it
outlives the task that awaits it and ends with its process. The removal may fail,
which the code ignores: such a run is `left`. Pids are chosen at the claim and
may be those of a dead process.

**`AccessReport`** models one Access service as its operator sees it:
`connect_with_retry` with its clock (in seconds) inside the client's budget, the
lines of `log_connection_path` and of the path poller, and the service's row as
the flush task renders and saves it. iroh's list of the peer's addresses is the
environment: it changes, repeats entries, or is gone for a while.
`peer_path_report`, `diff_transports` and `poller_step` are operators. The
report is stated as the one list its sort and dedup leave (`Reports`), and
`MCAccessReport` evaluates that this is what sorting and then deduplicating
computes. The row is what `render_access_status` compares and saves: the paths,
the bound sockets and the UDP statistics. The clock of a dial runs from the
client's accept, where `listen_loop` sets the deadline, so a dial starts with any
part of the budget used up: by waiting for another's dial, or by a first
connection that opened no stream.

**`ConfigDoc`** has the role documents as records and what every command makes
of one (`Result`): the schema of `dto.rs`, `set_service`, `remove_service`,
`keygen`, and the effective UDP limits. A text is a document, garbage or no
file; comments and formatting are left out.

**`ConfigSpec`** is the promise: a register that commands change one at a time,
each applied to the text that is there when it takes effect; a power loss may
bring back a text whose replacement was not synced.

**`ConfigStore`** is the code: processes that look without the lock, ask or run
the editor, take the lock or give up, read again, decide, write a temporary
file and rename it, with kills at every step and power losses. It implements
`ConfigSpec` with `text <- file, durable <- disk` (`ActsAsRegister`).

**`Trust`** is the path walk of `trust.rs` as operators, with a statement of
what the walk is for that does not mention the order of its checks.

**`Service`** models the service commands: the plan (every check and question,
one atomic step), then the native commands one at a time, each of which can
fail, over a host with a user's and a system scope. The four managers differ in
what their commands do to registration, manager and process. A backend may still
refuse what was planned, before it touches anything (`Accepts`): BusyBox without
root, Windows for a state directory or a path that a task cannot carry, which is
a flag of the request. The role process a manager starts claims the role, then
checks its configuration again; one that is told to stop may exit uncleanly, and
the restart policy of its registration then decides. Unit files are reduced to
that policy and the pin. Where each verb's commands
leave the host is written down here too (`OnCourse`): it is the invariant that
the proofs need.

**`SelfUpdate`** models `update`: the owner of the file, three requests that may
each fail or see another `latest`, checks of signature and checksum, a staged
file that is written, synced and renamed, with another update at the same time.
Signature checking is the library's; an archive is its own checksum.

**`UdpServeProofs`, `UdpAccessProofs`, `TcpAccessProofs`, `RoleStatusProofs`,
`ConfigStoreProofs`, `ServiceProofs`** and **`SelfUpdateProofs`** extend the
module they are named after with its inductive invariant and its theorems;
`TcpAccessProofs` also extends `AccessReport`, and **`RoleProofs`** extends
`RoleOwnership` and `ServeRun`. So that they can be extended together, the
specifications of `AccessReport` and `ServeRun` carry their component's name
(`ReportSpec`, `ServeSpec`).

A definition that no specification uses and whose name is that of the next one
with a suffix (`Sweep_FaultyEndsAll`, `Decide_NoConflict`) is what a plausible
slip would make of it; `PROJECT.json` names the property each one breaks.

## Runs

| Run | Instance | Shows |
|---|---|---|
| `udp_serve` | 2 connections, 3 identifiers each, 3 slots, 2 per peer, queue depth 0 (raised to 1) | `SlotAccounting`, `FlowBounds` (both caps and the queue), `NeverRebound`, `NoEviction`; live: `FlowsEnd` (idle flows are swept, stop releases all) |
| `udp_access` | 3 clients, 2 slots, 2 identifiers, 2 incarnations | `TableSound` (table consistent, of the current incarnation, counted), `ReplyAttribution`, `IdsNeverReused`; live: `DeadConnectionEvicted` |
| `tcp_access` | 2 clients, 3 connections dialled | `NothingOrphaned` (one connection, its tasks and no others, quiet at the end), `RetryOnFresh`, `HealthyNotEvicted`; live: `ClientAnswered` (a client is piped or told that it failed, whatever it waits for), `StopTerminates` |
| `serve_run` | 2 connections of up to 2 peers, 2 streams each, a TCP and a UDP service | `CountsExact` (active counters and peer registry), `NoOrphans`, `GraceRespected`; live: `TasksEnd` (stop ends the role, a lost peer's channels close) |
| `ownership` | 2 Serve and 1 Access start of one user, the system's Serve, one key, a status command, with and without a machine lock | `ClaimsHold` (one owner per role and tier), `RecordStays`, `NeverBothRun` |
| `ownership_identity` | a user's Serve, an elevated Access | a documented statement that the code does not keep (see Findings) |
| `status_safety` | 2 processes in turn, 2 pids, a status command | `SnapshotOwned` (a clean exit leaves nothing, a successor's file stays), `CurrentIsLive` |
| `status_live` | 1 process | live: `WatchdogExits` |
| `config_store` | 3 processes, 7 commands, 5 initial texts, 2 texts an editor may leave | `RunsSound` (runs agree on the stored key, effective limits work), `ActsAsRegister`, `EditOverItsBase`, `RotationByConsent`, `WritesOnlyItsPart` |
| `service` | 2 invocations, 4 platforms, 2 users with one configuration each, 1 event nobody asked the program for | `InstallWorks`, `ReportsTrue` (about the process when the report is made, and in every state after it), `SystemServiceTrusted`, `RetargetByConsent` |
| `update` | 2 updates, 3 releases of which one lacks this platform, 5 installations | `InstallationSound` (always whole and verified, nothing left staged), `FailsForAReason`, `InstallsWhatWasAsked` |
| `access_report` | dials that begin after 11 s or with the budget used up, 3 addresses, 2 sets of sockets, 2 statistics, 3 moves, 2 connections, 1 failed save | `DialWithinBudget`, `ReportsSound` (lines follow on one another), `NoIdleRewrite`; live: `CatchesUp` (log and file) |

A property named above with its parts is the conjunction of definitions of
their own in the module, the type invariant among them.

Bounds. Slot and table races need two parties and one more request than slots;
the identifier spaces are one larger than the caps, so that exhaustion, refusal
and reuse all happen. Two connections are what replacement needs: an old one,
whose tasks linger, and its successor; the third of `tcp_access` replaces one
that was itself a retry. Its two clients are the one that dials and the one that
waits or comes late; the proofs have any number. One process that leaves
something behind and one that finds it are what the file protocols need;
`ownership` adds the other role and the other tier: all four starts without the
status command, and three of them with it (`Parties`). In `config_store` two
writers make every conflict and the third makes a conflict with what the second
left. In `service` the second invocation only installs or removes: it is there
to change what the first has looked at. `update` needs a release to move to
while another is being fetched, and one that cannot be installed. In
`access_report` a dial that begins after 11 s has just the 19 s left in which a
third attempt is certain, and makes five when each fails at once; other times
are left to the proof. Three moves take a path away, bring it back and change it
once more; the two direct addresses are what the sort tells apart by address
alone. `MaxConn`, `MaxStreams`, `Attempts` (`ATTEMPTS`, lowered to 2),
`MaxEvents`, `MaxMoves`, `MaxDials`, `MaxFails`, `Waited` and `FailAfter` are
the bounds that the code does not have as limits of its own. The limits of the
configuration schema are lowered to 2 and 3. Deadlock is checked in `update` and
`access_report`; elsewhere a stopped role and a finished process stop.

Symmetry is used in `ownership`, `status_safety`, `config_store` and `update`,
which have no liveness property.

### Fairness

A spawned task keeps running, and a timer expires: this is what the runtime
gives, and nothing is assumed of peers, targets, operators, or of a channel that
may stay open for ever. `UdpServe`: sweep, the stop branch, the bounded
`open_upstream`, each sink (bounded by `QUARANTINE`). `UdpAccess`: the loop,
whose select is biased and polls the sweep before the socket (hence strong
fairness for the sweep); `DeadConnectionEvicted` is about clients that keep
sending, so it assumes that they do and that some of what they send fits.
`TcpAccess`: the listener and the clients wait for a FIFO lock whose holders
never wait (strong fairness), and a client's deadline is a timer; dials,
`open_bi` and the dial lock owe nothing. `ServeRun`: the role, the accept loop
(handshakes time out) and each supervisor. `RoleStatus`: the watchdog and the
short synchronous calls after it; draining, saving and closing are not fair,
they may hang. `AccessReport`: the poller and the flush task, which sleep five
seconds and look again; nothing is assumed of iroh, of clients or of saves
beyond the bound on failures.

## Findings

One statement of the repository is refuted by a run. `docs/how-it-works.md:91`
says that a Serve and an Access never run with one NodeId; a process that does
not hold the machine tier exclusively publishes its identity where an elevated
start, or another user's, does not look (`ownership_identity`).

Other statements that the models show to be stronger than the code, without a
run of their own:

- `docs/GLOSSARY.md:28` counts a quarantined flow against the peer's cap; the
  code compares that cap with the connection's live flows (`PeerCap`).
- The comment in `get_or_dial` (`run_access.rs:452`) says a deadline cannot
  discard a successful dial; the await on the state lock before the store is a
  point where it can (the `store` phase of `TcpAccess`).
- The removal at a forced exit is "pid-checked, so a file another process owns
  is left alone"; check and unlink are two steps and the claim is already
  dropped, so a successor's file can be removed.
- `config/edit.rs:41` keeps a rejected edit so that it is "not lost"; a busy lock
  or a failed write loses the edited text.
- `docs/services.md:105` asks before a retarget; on BusyBox a root `install
  --user` does not.

Observations the properties are worded around:

- Two probes can meet at the lock they test, and one then reports a role as
  running that nobody runs (`ownership.rs:643`); the shared machine claim is
  tried once, so a probe at that moment refuses a start (`ownership.rs:437`).
- A role whose record could not be written runs on (`ownership.rs:270`), unseen by
  the other role's identity check: `NeverBothRun` is about records that were
  written.
- Between a claim's lock and its record a crashed predecessor's record and
  snapshot can be read as current (the `sound` condition of `CurrentIsLive`).
- A save still on the blocking pool can recreate the status file after a forced
  exit has removed it (`CleanExitLeavesNothing` is about normal exits).
- `quarantine_ended` decrements two counters in two steps (`udp/types.rs:145`).
- The accept loop awaits handshakes one after the other (`run_serve.rs:483`), and
  `open_upstream` holds up its connection's receive loop (`run_serve.rs:921`).
- A Windows reinstall over a running task reports Started and keeps the old
  process, also one that is just ending, after which nothing runs. A launchd
  `bootout` is reported as Disabled although the plist, until
  it is removed, loads again at boot.
- A launchd job whose stop was reported stays loaded. When its process then exits
  uncleanly (the drain was abandoned, `lifecycle.rs:28`, or the signal came before
  there was a handler, `lifecycle.rs:80`), KeepAlive brings it back.
- Consent to a retarget is for the registration that was shown; another elevated
  invocation can still change it between the plan and the write.
- `update` compares with the version of its own process, so of two concurrent
  updates the one with the older `latest` can be renamed last. On Windows an
  update of a running executable is always refused. The directory is not synced
  after the rename, so a power loss can bring back the old executable.
- The GitHub action saves the child's pid some time after it spawned it; a
  cancellation in between leaves a process its clean-up does not know.

## Proofs

Every safety property that a passing run checks, invariant or action property,
is proved, for every value of the constants that the assumption named in the
module allows. Each proof has one layout: an inductive invariant (`Inv`,
`ServeInv`, `ReportInv`, `ServiceInv`) as a conjunction of named parts; that
it holds at first; lemmas per action or group of actions; that every step keeps
it; the theorem `Spec => []Inv`; and from it the properties that the runs check.
(For `UdpServe` the invariant is `Shape`, and the accounting is a second
induction on top of it.) TLC checked every invariant on a small instance before
it was proved.

| Module | Proved | Assumed of the constants |
|---|---|---|
| `UdpServeProofs` | `SlotAccounting`, `FlowBounds`, `NeverRebound`, `NoEviction` | finitely many connections, natural limits |
| `UdpAccessProofs` | `TableSound`, `ReplyAttribution`, `IdsNeverReused` | finitely many clients, natural limits |
| `TcpAccessProofs` | `NothingOrphaned`, `RetryOnFresh`, `HealthyNotEvicted` | finitely many clients, any number of connections |
| `TcpAccessProofs`, of `AccessReport` | `DialWithinBudget`, `ReportsSound`, `NoIdleRewrite` | any addresses of the three kinds, any times spent before a dial and in its attempts, any sockets and statistics, any bounds |
| `RoleProofs`, of `ServeRun` | `CountsExact`, `NoOrphans`, `GraceRespected` | finitely many connections, any peers, services, streams |
| `RoleProofs`, of `RoleOwnership` | `ClaimsHold`, `RecordStays`, `NeverBothRun` | processes and commands apart, each with one role and home; at least one attempt |
| `RoleStatusProofs` | `SnapshotOwned`, `CurrentIsLive` | finitely many processes, any pids |
| `ConfigStoreProofs` | `RunsSound`, `EditOverItsBase`, `RotationByConsent`, `WritesOnlyItsPart`, `ActsAsRegister` | commands of the command line's form, texts of the schema, defaults within natural limits |
| `ServiceProofs` | `InstallWorks`, `ReportsTrue`, `SystemServiceTrusted`, `RetargetByConsent` | any processes, users, configurations and requests; paths of any length; a file that can change can also get a valid document; the four platforms |
| `SelfUpdateProofs` | `InstallationSound`, `FailsForAReason`, `InstallsWhatWasAsked` | requests, settings and versions of their form; release 1 has an archive |

Every assumption also says that the placeholders (`None`, `Nothing`, `NoProc`)
are none of the values they stand in for. TLC evaluates the assumptions in the
runs.

What the invariants add to the properties, and why they need it:

- **UDP on Serve.** A loop that is opening has exactly one reserved slot, the
  one it names (`OpeningReserved`), and every identifier ever used is at or
  below its connection's `highest` (`MarkCoversUsed`). Without the first,
  `OpenDone` could make a second reservation of one flow live; without the
  second a fresh identifier could be one that was used. The counters rest on
  `ReleaseExact` and `QuarantineExact`: how a cardinality changes when a set of
  flows changes state together.
- **UDP on Access.** The dialer caches only the latest connection and the table
  moves only to later ones (`LaterConnections`); no identifier of a later
  connection, nor one from `next` on of the current one, was given out
  (`GivenInOrder`). These two orders make `owner` a function that is never
  overwritten, which is what a reply relayed after an incarnation change
  depends on.
- **TCP on Access.** A connection between its dial and its store is the latest
  and its dialer alone has it (`LatestIsPrivate`, from the dial lock), what
  `open_bi` failed on is dead (`FailedIsDead`), and after the eviction it is
  neither cached nor handed out again (`FailedIsGone`).
- **Serve role.** The connection in the accept loop's hands has no supervisor
  yet (`PendingUnsupervised`), and each state of `run_serve` knows what it has
  joined (`JoinedInOrder`). The counters are exact because each task is counted
  once when it is admitted and discounted once wherever it ends; the lemmas on
  cardinalities say so for one task and for all streams of a supervisor.
- **Role ownership.** Which locks are held in which phase (`UserHeld`,
  `MachineHeld`, `ProbeHeld`), that an exclusive hold is the only one
  (`Exclusive`), that the machine lock file exists for whoever owns it
  (`MachineFile`), whose records a directory carries (`WrittenClaimed`,
  `OwnRecords`, `Published`). `NeverBothRun` is not inductive: `OnePasses` is,
  which says it already of a probe that has passed the other's directory.
- **Status file.** When a save or a removal of a process may be under way
  (`NotYetWriting`, `WriterPlace`, `RemovalPlace`), that after an orderly removal
  the file is not its own (`RemovedStaysRemoved`), and for the status command
  that who was over at the probe stays over and has no record to be read
  (`ReaderExcludesGone`).
- **Configuration.** A process holds the lock from its second read to its end
  (`LockHeld`), and what it is about to write is a result of its command on the
  text that is in the file now (`Decided`). So the rename is the register's step
  and all others are stutters, which is the refinement of `ConfigSpec`. That a
  command leaves the entries it does not name (`WritesOnlyItsPart`) is stated by
  where each of them goes, one place up for those behind a removed entry; relay,
  token and stream limit stay as they are.
- **Retry and paths.** At each attempt the clock is where the schedule of
  backoffs, counted from when the dial began, allows it (`DialSchedule`), so that
  no attempt starts which could end after the budget and none that fits is left
  out; the lines logged continue one another (`LogChains`). The
  reports rest on facts about sorted lists: the order of the sort is total, a
  report has each path in one place, and equal sets of paths have equal reports
  (`ReportOfThePaths`), which is why an unchanged row is not written again.
  The same holds of the sorted list of bound sockets.
- **Service management.** `ServiceInv` says what each manager's host can look
  like (`HostOK`), what an invocation has decided and recorded at each of its
  states (`PlanOK`), and of every invocation nobody disturbed that its retarget
  is still allowed when it first writes (`StillAllowed`) and that it is on
  course: after command n of its verb, on its platform, the effects it has
  recorded are true and the host is where the next command needs it
  (`OnCourse`). `StepFollows` proves that for each command of each verb on each
  of the four managers, the failures half-way included; `Bystander` that no step
  of others moves an invocation which counts as undisturbed. `NotEnding` says of a
  command whose start is next that no process of its scope is on its way out, which
  the second part of `ReportsTrue` (`ReportedRightNow`) needs and the wait of the
  Windows restart provides.
  `SystemServiceTrusted` rests on `WalkSafe`: a path of any length that passes
  the walk of `trust.rs` can be changed by nobody but root and the pinned user.
- **Self update.** For each update: its owner and request were checked before
  it fetched (`Asked`); unless it is insecure, what it installs is listed in
  checksums that the release workflow signed, which from the project's own
  server are those of the release addressed or `latest` has moved (`Verified`);
  what its staging file holds (`Staging`).

Model-checked only: the liveness properties (`FlowsEnd`,
`DeadConnectionEvicted`, `ClientAnswered`, `StopTerminates`, `TasksEnd`,
`WatchdogExits`, `CatchesUp`), because fairness is outside the prover's reach;
and that `Reports` is what sorting and deduplicating computes, which is an
induction over lists.

## Not modelled

- The iroh endpoint, QUIC and relays: libraries. Their failures appear as lost
  connections, failed opens and failed handshakes.
- Datagram encoding, TOML syntax, path computation, rendering, the command line,
  `current_target`: pure functions without interleaving.
- Byte copying and half-close inside a TCP channel: the ends and failures of a
  pipe and its delivery acknowledgement are steps of `TcpAccess` and `ServeRun`.
- The GitHub action, the install scripts: launchers around the executable.

## Plan

Left to model, should the code grow there: both copy directions of a TCP pipe
with their half-close, and the two UDP sides composed over an unreliable channel.
Left to prove: that composition, once it is modelled. The liveness properties
wait for a prover that handles fairness.
