------------------------------ MODULE Service ------------------------------
(***************************************************************************)
(* `iroh-tunnel <role> service ...` for one role: several invocations of   *)
(* the command, each planning (every check, and the questions a person is  *)
(* asked) and then running native commands one at a time, over the service *)
(* manager of one of four platforms; and the service processes the manager *)
(* starts, which check their configuration again before they run.          *)
(*                                                                         *)
(* A registration names the configuration file and the user the service is *)
(* pinned to (None: not pinned). The per-user manager is the one of Caller.*)
(***************************************************************************)
EXTENDS Trust, FiniteSets

CONSTANTS Proc,         \* invocations of the command, one request each
          Caller,       \* the user whose per-user services are modelled
          Config,       \* configuration files
          DirOwner,     \* the owner of each configuration's directory
          HomeConfig,   \* each user's default configuration
          FileStates,   \* what each configuration and state directory may be
          InitFiles,    \* and what it is at first
          InitRegs,     \* system registrations the host may have at first
          Platforms,    \* the platforms looked at
          Requests,     \* the requests each invocation may make
          MaxEvents,    \* bound: crashes, runs by hand and changes by hand
          None

VARIABLES platform,  \* which backend this host has
          host,      \* per scope: the registration, the manager's view, the process
          fs,        \* configuration files (by name) and state directories (by user)
          fg,        \* a foreground run of the role: "none", or the tier it holds
          pc, req,   \* per invocation: where it is, and its request
          plan,      \* what it decided: scope and registration, or a retarget to confirm
          step,      \* the native command it is at
          applied,   \* the effects it reports
          quiet,     \* nobody else has changed the host since it was planned
          flaky,     \* a command of it failed by itself
          events     \* what happened that nobody asked this program for

vars == <<platform, host, fs, fg, pc, req, plan, step, applied, quiet, flaky, events>>

Scope == {"user", "system"}
Reg == [config : Config, pin : User \cup {Root, None}]
Effect == {"written", "enabled", "started", "stopped", "disabled", "removed"}
Verb == {"install", "uninstall", "start", "stop", "restart", "status"}
Consent == [previous : Reg \cup {None}, proposed : Reg]
Request ==
    [verb : Verb, scope : Scope \cup {None}, elevated : BOOLEAN, answers : BOOLEAN,
     config : Config \cup {None}, sudo : User \cup {Root, None},
     invoking : User \cup {Root, None}, consent : Consent \cup {None},
     fits_task : BOOLEAN]
Host ==
    [reg : Reg \cup {None}, loaded : Reg \cup {None}, enabled : BOOLEAN,
     blocked : BOOLEAN, svc : {"none", "starting", "up", "stopping", "failed"},
     from : Reg \cup {None}]
FileState == [path : Seq(Component) \ {<<>>}, doc : {"ok", "keyless", "bad"}]

ServiceConstants ==
    /\ Root \notin User /\ None \notin User \cup Config \cup Reg \cup {Root}
    /\ Caller \in User
    /\ DirOwner \in [Config -> User \cup {Root}]
    /\ HomeConfig \in [User -> Config]
    /\ InitFiles \in [Config \cup User -> FileState]
    /\ \A x \in Config \cup User :
          /\ InitFiles[x] \in FileStates[x] /\ FileStates[x] \subseteq FileState
          /\ \A v \in FileStates[x] : [v EXCEPT !.doc = "ok"] \in FileStates[x]
    /\ InitRegs \subseteq Reg
    /\ \A p \in Proc : Requests[p] \subseteq Request
    /\ Platforms \subseteq {"systemd", "launchd", "busybox", "windows"}
    /\ MaxEvents \in Nat

ASSUME ServiceAssumption == ServiceConstants

----------------------------------------------------------------------------
(* Who holds the role. A service of a tier, or a foreground run, holds it     *)
(* from the claim until the process is gone.                                 *)
Holds(h) == h.svc \in {"up", "stopping"}
Tier(s) == IF s = "user" THEN "user" ELSE "machine"
HeldIn(s) == Holds(host[s]) \/ fg = Tier(s)
RoleHeld == \E s \in Scope : HeldIn(s)

(* BusyBox has one system-wide script whatever the scope asked for. *)
HostScope(s) == IF platform = "busybox" THEN "system" ELSE s

Supported(s) == ~(platform = "windows" /\ s = "system")
Privileged(s, elevated) == s = "user" \/ elevated
DefaultScope(elevated) == IF elevated THEN "system" ELSE "user"

(* decide_install_scope; None: a person has to choose. *)
InstallScope(r) ==
    IF r.scope # None THEN r.scope
    ELSE IF platform = "windows" THEN "user"
    ELSE IF r.elevated THEN "system"
    ELSE IF r.answers THEN None
    ELSE "user"

(* The service would collide with one that holds the role in the other tier. *)
(* For a system install that is the tier of the account it is for; for a     *)
(* user-scope request on BusyBox, the one of root itself, which is empty.    *)
CrossScopeConflict(s, account) ==
    IF HostScope(s) = "user" THEN HeldIn("system")
    ELSE account = Caller /\ HeldIn("user")

----------------------------------------------------------------------------
(* Whose files a system service uses. "?" is an error, None is unknown. *)
SudoAccount(r) == IF r.sudo = Root THEN None ELSE r.sudo

TargetAccount(r) ==
    IF r.config # None
    THEN IF SudoAccount(r) \in {None, DirOwner[r.config]} THEN DirOwner[r.config] ELSE "?"
    ELSE IF SudoAccount(r) # None THEN SudoAccount(r) ELSE r.invoking

TargetReg(r, account) ==
    [config |-> IF r.config # None THEN r.config ELSE HomeConfig[account],
     pin |-> account]

HasConfig(r, account) == r.config # None \/ account \in User

UserReg(r) ==
    [config |-> IF r.config # None THEN r.config ELSE HomeConfig[Caller], pin |-> None]

(* check_installable_config, check_installable_text: a key may be missing. *)
Installable(reg) == fs[reg.config].doc # "bad"

(* The state directory of root is in order; the users' are what they are. *)
StateVerified(account) == account \in User => Walk(fs[account].path, account, TRUE)
ConfigVerified(reg) == Walk(fs[reg.config].path, reg.pin, FALSE)

(* The system registration there is. *)
Existing == host["system"].reg

(* The pin found in a registration; None when it has none. *)
PinOf(reg) == IF reg.pin = None THEN None ELSE reg

RetargetAllowed_AnyConsent(existing, new, consent) ==
    existing = None \/ existing.pin = new.pin \/ consent # None

(* retarget_decision: a consent counts for the pair it was given for. *)
RetargetAllowed(existing, new, consent) ==
    \/ existing = None
    \/ existing.pin = new.pin
    \/ consent = [previous |-> PinOf(existing), proposed |-> new]

----------------------------------------------------------------------------
(* What each backend runs, in order. A step that must succeed ends the       *)
(* operation when it fails; a gate ends it well when there is nothing to do. *)
(* Each step names the effects it reports.                                   *)
Must(cmd, says) == [cmd |-> cmd, kind |-> "must", says |-> says]
Try(cmd, says)  == [cmd |-> cmd, kind |-> "try", says |-> says]
Gate(cmd)       == [cmd |-> cmd, kind |-> "gate", says |-> {}]

(* The facts of `status` come from files and the role lock; the native tool  *)
(* is run for its text, whatever it answers.                                 *)
ShowStatus == <<Must("show", {})>>

EnableAndStart_EnableNow ==
    <<Must("reload", {}), Must("enable", {"enabled"}), Must("start", {"started"})>>

EnableAndStart ==
    <<Must("reload", {}), Must("enable", {"enabled"}), Must("restart", {"started"})>>

SystemdUninstall ==
    <<Try("stop", {"stopped"}), Try("disable", {"disabled"}), Must("remove", {"removed"}),
      Must("reload", {})>>

SystemdInstall == <<Must("write", {"written"})>> \o EnableAndStart

Systemd ==
    [install   |-> SystemdInstall,
     uninstall |-> SystemdUninstall,
     start     |-> <<Must("start", {"started"})>>,
     stop      |-> <<Must("stop", {"stopped"})>>,
     restart   |-> <<Must("restart", {"started"})>>,
     status    |-> ShowStatus]

Load ==
    <<Must("unblock", {}), Try("bootout", {}), Must("bootstrap", {"enabled", "started"})>>

LaunchdInstall == <<Must("write", {"written"})>> \o Load

Launchd ==
    [install   |-> LaunchdInstall,
     uninstall |-> <<Try("bootout", {"stopped", "disabled"}), Must("remove", {"removed"})>>,
     start     |-> <<Must("kickstart", {"started"})>>,
     stop      |-> <<Must("kill", {"stopped"})>>,
     restart   |-> <<Must("kickstart_k", {"started"})>>,
     status    |-> ShowStatus]

Busybox ==
    [install   |-> <<Must("write", {"written"}), Must("chmod", {"enabled"}),
                     Must("script_restart", {"started"})>>,
     uninstall |-> <<Try("script_stop", {"stopped"}), Must("remove", {"removed"})>>,
     start     |-> <<Must("script_start", {"started"})>>,
     stop      |-> <<Must("script_stop", {"stopped"})>>,
     restart   |-> <<Must("script_restart", {"started"})>>,
     status    |-> <<Must("script_status", {})>>]

WindowsStop == <<Must("listed", {}), Must("end", {"stopped"})>>
WindowsStart == <<Must("listed", {}), Must("run", {"started"})>>

WindowsRestart_NoWait == WindowsStop \o WindowsStart

(* `/End` returns before the process is gone: the restart waits for the role. *)
WindowsRestart == WindowsStop \o <<Must("wait", {})>> \o WindowsStart

Windows ==
    [install   |-> <<Must("whoami", {}), Must("create", {"enabled"}), Must("run", {"started"})>>,
     uninstall |-> <<Gate("listed"), Try("try_end", {"stopped"}), Must("delete", {"disabled"})>>,
     start     |-> WindowsStart,
     stop      |-> WindowsStop,
     restart   |-> WindowsRestart,
     status    |-> <<Must("listed", {})>> \o ShowStatus]

Backend ==
    [systemd |-> Systemd, launchd |-> Launchd, busybox |-> Busybox, windows |-> Windows]

Program(verb) == Backend[platform][verb]

----------------------------------------------------------------------------
(* What a native command may do to the host: whether it succeeds, whether    *)
(* its effects are reported, and what it leaves. Any command may also fail   *)
(* by itself and change nothing; one that stops and starts may fail between. *)
Alive(h) == h.svc \in {"starting", "up", "stopping"}
Started(h, reg) == [h EXCEPT !.svc = "starting", !.from = reg]
Halted(h) == [h EXCEPT !.svc = "none", !.from = None]

Done(h) == [ok |-> TRUE, did |-> TRUE, by |-> "host", host |-> h]
Idle(h) == [ok |-> TRUE, did |-> FALSE, by |-> "host", host |-> h]
Failed(h) == [ok |-> FALSE, did |-> FALSE, by |-> "host", host |-> h]
Broke(h) == [ok |-> FALSE, did |-> FALSE, by |-> "itself", host |-> h]

(* Files this program writes and removes itself, and the role lock it probes. *)
OwnStep(cmd, h, new) ==
    CASE cmd = "write" -> Done([h EXCEPT !.reg = new])
      [] cmd = "chmod" -> IF h.reg = None THEN Failed(h) ELSE Done(h)
      [] cmd = "remove" -> IF h.reg = None THEN Idle(h) ELSE Done([h EXCEPT !.reg = None])
      [] cmd = "wait" -> IF RoleHeld THEN Failed(h) ELSE Idle(h)

(* The init script: its own start, stop and pid file. *)
ScriptStep(cmd, h) ==
    IF h.reg = None THEN Failed(h)
    ELSE CASE cmd = "script_status" -> Idle(h)
           [] cmd = "script_stop" -> Done(Halted(h))
           [] cmd = "script_start" /\ Alive(h) -> Done(h)
           [] OTHER -> Done(Started(h, h.reg))

(* systemctl. A running unit whose file is gone can still be stopped. *)
SystemctlStep(cmd, h) ==
    CASE cmd = "reload" -> Done([h EXCEPT !.loaded = h.reg])
      [] cmd \in {"enable", "disable"} /\ h.reg # None ->
             Done([h EXCEPT !.enabled = (cmd = "enable")])
      [] cmd = "stop" /\ (h.loaded # None \/ Alive(h)) -> Done(Halted(h))
      [] cmd = "start" /\ h.loaded # None ->
             Done(IF Alive(h) THEN h ELSE Started(h, h.loaded))
      [] cmd = "restart" /\ h.loaded # None -> Done(Started(h, h.loaded))
      [] OTHER -> Failed(h)

(* launchctl. A label on the disable list, or one already loaded, cannot be  *)
(* bootstrapped; a signal to a loaded job without a process is no error.     *)
LaunchctlStep(cmd, h) ==
    CASE cmd = "unblock" -> Done([h EXCEPT !.blocked = FALSE])
      [] cmd = "bootout" /\ h.loaded # None -> Done(Halted([h EXCEPT !.loaded = None]))
      [] cmd = "bootstrap" /\ h.loaded = None /\ h.reg # None /\ ~h.blocked ->
             Done(Started([h EXCEPT !.loaded = h.reg], h.reg))
      [] cmd = "kickstart" /\ h.loaded # None ->
             Done(IF Alive(h) THEN h ELSE Started(h, h.loaded))
      [] cmd = "kickstart_k" /\ h.loaded # None -> Done(Started(h, h.loaded))
      [] cmd = "kill" /\ h.loaded # None ->
             IF Alive(h) THEN Done([h EXCEPT !.svc = "stopping"]) ELSE Idle(h)
      [] OTHER -> Failed(h)

(* schtasks. A run of a task that is still running is dropped (IgnoreNew);   *)
(* ending one that has no process is no error unless the role is held.       *)
SchtasksStep(cmd, h, new) ==
    CASE cmd = "whoami" -> Idle(h)
      [] cmd = "listed" -> IF h.reg = None THEN Failed(h) ELSE Idle(h)
      [] cmd = "create" -> Done([h EXCEPT !.reg = new, !.loaded = new])
      [] cmd = "run" /\ h.reg # None -> Done(IF Alive(h) THEN h ELSE Started(h, h.reg))
      [] cmd \in {"end", "try_end"} /\ h.reg # None /\ Alive(h) ->
             Done([h EXCEPT !.svc = "stopping"])
      [] cmd = "end" /\ ~(h.reg # None /\ Alive(h)) /\ ~RoleHeld -> Idle(h)
      [] cmd = "delete" /\ h.reg # None -> Done([h EXCEPT !.reg = None, !.loaded = None])
      [] OTHER -> Failed(h)

Outcomes(cmd, h, new) ==
    LET normal ==
            IF cmd = "show" THEN Idle(h)
            ELSE IF cmd \in {"write", "chmod", "remove", "wait"} THEN OwnStep(cmd, h, new)
            ELSE CASE platform = "busybox" -> ScriptStep(cmd, h)
                   [] platform = "systemd" -> SystemctlStep(cmd, h)
                   [] platform = "launchd" -> LaunchctlStep(cmd, h)
                   [] platform = "windows" -> SchtasksStep(cmd, h, new)
    IN  {normal, Broke(h)}
          \cup IF cmd \in {"restart", "kickstart_k", "script_restart"}
               THEN {Broke(Halted(h))} ELSE {}

----------------------------------------------------------------------------
(* Init: a host with nothing, a service installed by this version, or a      *)
(* system service from before registrations were pinned.                     *)
Nothing == [reg |-> None, loaded |-> None, enabled |-> FALSE, blocked |-> FALSE,
            svc |-> "none", from |-> None]

Installed(reg) ==
    [reg |-> reg, loaded |-> IF platform = "busybox" THEN None ELSE reg,
     enabled |-> platform = "systemd", blocked |-> FALSE, svc |-> "starting", from |-> reg]

InitialHosts ==
    {h \in [user : {Nothing, Installed([config |-> HomeConfig[Caller], pin |-> None])},
            system : {Nothing} \cup {Installed(r) : r \in InitRegs}] :
        /\ platform = "busybox" => h.user = Nothing
        /\ platform = "windows" => h.system = Nothing}

Init ==
    /\ platform \in Platforms
    /\ host \in InitialHosts
    /\ fs = InitFiles
    /\ fg = "none"
    /\ pc = [p \in Proc |-> "idle"]
    /\ req = [p \in Proc |-> None]
    /\ plan = [p \in Proc |-> None]
    /\ step = [p \in Proc |-> 0]
    /\ applied = [p \in Proc |-> {}]
    /\ quiet = [p \in Proc |-> FALSE]
    /\ flaky = [p \in Proc |-> FALSE]
    /\ events = 0

Goto(p, where) == pc' = [pc EXCEPT ![p] = where]
Decided == UNCHANGED <<platform, host, fs, fg, step, applied, flaky, events>>

(* An invocation starts with the request its flags and environment make.     *)
(* Root's own per-user manager and configuration are not modelled, so root   *)
(* asks for the user scope where there is no such manager, with a file.      *)
Begin(p) ==
    /\ pc[p] = "idle"
    /\ \E r \in Requests[p] :
          /\ r.elevated /\ r.scope = "user" =>
                 platform \in {"busybox", "windows"} /\ r.config # None
          /\ platform = "windows" => r.sudo = None
          /\ req' = [req EXCEPT ![p] = r]
    /\ Goto(p, "plan")
    /\ UNCHANGED <<plan, quiet>> /\ Decided

(* What a backend refuses before it touches anything, although the plan went *)
(* through. BusyBox asks for root, except to show the status; a Windows task *)
(* carries neither a state directory other than the default one nor a path   *)
(* with a quote or a percent sign, or one that is not Unicode (`fits_task`). *)
Accepts(r) ==
    /\ platform = "busybox" /\ r.verb # "status" => r.elevated
    /\ platform = "windows" /\ r.verb = "install" => r.fits_task

(* The plan is made: the native commands come next. *)
Execute(p, s, reg) ==
    /\ Goto(p, IF Accepts(req[p]) THEN "exec" ELSE "failed")
    /\ plan' = [plan EXCEPT ![p] = [scope |-> HostScope(s), reg |-> reg]]
    /\ quiet' = [quiet EXCEPT ![p] = TRUE]

Refuse(p) == Goto(p, "failed") /\ UNCHANGED <<plan, quiet>>
Ask(p, what) == Goto(p, what) /\ UNCHANGED <<plan, quiet>>

AskRetarget(p, previous, proposed) ==
    /\ Goto(p, "ask_retarget")
    /\ plan' = [plan EXCEPT ![p] = [previous |-> previous, proposed |-> proposed]]
    /\ UNCHANGED quiet

PlanUser(p, r) ==
    IF ~CrossScopeConflict("user", None) /\ Installable(UserReg(r))
    THEN Execute(p, "user", UserReg(r))
    ELSE Refuse(p)

(* plan_system_install: privilege, whose files, no role in that user's tier, *)
(* safe paths, a valid file, and last the registration there is.             *)
PlanSystem(p, r) ==
    LET account == TargetAccount(r)
        new == TargetReg(r, account)
        usable == /\ account # "?" /\ HasConfig(r, account)
                  /\ ~CrossScopeConflict("system", account)
                  /\ StateVerified(account) /\ ConfigVerified(new)
                  /\ Installable(new)
    IN  IF ~r.elevated THEN Refuse(p)
        ELSE IF account = None THEN IF r.answers THEN Ask(p, "ask_user") ELSE Refuse(p)
        ELSE IF ~usable THEN Refuse(p)
        ELSE IF RetargetAllowed(Existing, new, r.consent) THEN Execute(p, "system", new)
        ELSE AskRetarget(p, PinOf(Existing), new)

(* A verb on an existing service: support and privilege, and for start that  *)
(* the role does not run.                                                    *)
PlanVerb(p, r) ==
    LET s == IF r.scope # None THEN r.scope ELSE DefaultScope(r.elevated) IN
    IF /\ Supported(s) /\ Privileged(s, r.elevated)
       /\ r.verb = "start" => ~RoleHeld
    THEN Execute(p, s, None)
    ELSE Refuse(p)

Plan(p) ==
    /\ pc[p] = "plan"
    /\ LET r == req[p] IN
       IF r.verb # "install" THEN PlanVerb(p, r)
       ELSE IF InstallScope(r) = None THEN Ask(p, "ask_scope")
       ELSE IF ~Supported(InstallScope(r)) THEN Refuse(p)
       ELSE IF InstallScope(r) = "user" THEN PlanUser(p, r)
       ELSE PlanSystem(p, r)
    /\ UNCHANGED req /\ Decided

(* The answers. Every answered question goes back to the plan. *)
Replan(p, r) == req' = [req EXCEPT ![p] = r] /\ Goto(p, "plan")
NoAnswer(p) == UNCHANGED req /\ Goto(p, "failed")

AnswerScope(p) ==
    /\ pc[p] = "ask_scope"
    /\ NoAnswer(p) \/ \E s \in Scope : Replan(p, [req[p] EXCEPT !.scope = s])
    /\ UNCHANGED <<plan, quiet>> /\ Decided

AnswerUser(p) ==
    /\ pc[p] = "ask_user"
    /\ NoAnswer(p) \/ \E u \in User \cup {Root} : Replan(p, [req[p] EXCEPT !.invoking = u])
    /\ UNCHANGED <<plan, quiet>> /\ Decided

(* confirm_retarget shows what the plan saw; without a terminal there is     *)
(* nobody to ask.                                                           *)
AnswerRetarget(p) ==
    /\ pc[p] = "ask_retarget"
    /\ \/ NoAnswer(p)
       \/ req[p].answers /\ Replan(p, [req[p] EXCEPT !.consent = plan[p]])
    /\ UNCHANGED <<plan, quiet>> /\ Decided

----------------------------------------------------------------------------
(* One native command of the operation, with its effects recorded. *)
Recorded_Always(st, o) == st.says

Recorded(st, o) == IF o.did THEN st.says ELSE {}

After(st, o, rest) ==
    IF ~o.ok /\ st.kind = "gate" /\ o.by = "host" THEN "ok"
    ELSE IF ~o.ok /\ st.kind # "try" THEN "failed"
    ELSE IF rest = 0 THEN "ok" ELSE "exec"

Step(p) ==
    /\ pc[p] = "exec"
    /\ LET program == Program(req[p].verb)
           st == program[step[p] + 1]
           s == plan[p].scope
       IN  \E o \in Outcomes(st.cmd, host[s], plan[p].reg) :
              /\ host' = [host EXCEPT ![s] = o.host]
              /\ applied' = [applied EXCEPT ![p] = @ \cup Recorded(st, o)]
              /\ flaky' = [flaky EXCEPT ![p] = @ \/ o.by = "itself"]
              /\ step' = [step EXCEPT ![p] = @ + 1]
              /\ Goto(p, After(st, o, Len(program) - step[p] - 1))
              /\ quiet' = [q \in Proc |-> quiet[q] /\ (q = p \/ o.host = host[s])]
    /\ UNCHANGED <<platform, fs, fg, req, plan, events>>

----------------------------------------------------------------------------
Procs == UNCHANGED <<platform, pc, req, plan, step, applied, flaky>>
Event == events < MaxEvents /\ events' = events + 1

(* load_config of a service process: without a pin a root service is refused *)
(* (BusyBox gives it no way to tell that it is one); with a pin the paths    *)
(* are checked again and a key is never written.                             *)
UnpinnedService(s, reg) ==
    reg.pin = None /\ s = "system" /\ platform \in {"systemd", "launchd"}

Unsafe(s, reg) ==
    \/ UnpinnedService(s, reg)
    \/ reg.pin = None /\ ~Installable(reg)
    \/ /\ reg.pin # None
       /\ ~(StateVerified(reg.pin) /\ ConfigVerified(reg) /\ fs[reg.config].doc = "ok")

(* What the registration says about a process that exits: the unit names     *)
(* the exit of a role that is held, the plist and the task only a clean one, *)
(* and the init script is not run again.                                     *)
UnitRestarts(exit) == exit = "error"
PlistRestarts(exit) == exit # "clean"
TaskRestarts(exit) == exit # "clean"

Restarts(exit) ==
    \/ platform = "systemd" /\ UnitRestarts(exit)
    \/ platform = "launchd" /\ PlistRestarts(exit)
    \/ platform = "windows" /\ TaskRestarts(exit)

Exited(h, exit) == IF Restarts(exit) THEN [h EXCEPT !.svc = "failed"] ELSE Halted(h)

(* A new process claims the role, and only then looks at its configuration:  *)
(* a start that is refused writes no key.                                    *)
Launch(s) ==
    /\ host[s].svc = "starting"
    /\ LET h == host[s]
           runs == ~Unsafe(s, h.from) /\ ~RoleHeld
       IN  /\ host' = [host EXCEPT ![s] =
                          IF RoleHeld THEN Exited(h, "held")
                          ELSE IF Unsafe(s, h.from) THEN Exited(h, "error")
                          ELSE [h EXCEPT !.svc = "up"]]
           /\ fs' = IF runs THEN [fs EXCEPT ![h.from.config].doc = "ok"] ELSE fs
    /\ UNCHANGED <<fg, quiet, events>> /\ Procs

Crash(s) ==
    /\ host[s].svc = "up"
    /\ host' = [host EXCEPT ![s] = Exited(@, "error")]
    /\ UNCHANGED <<fs, fg, quiet>> /\ Procs /\ Event

(* Restart on failure, from what the manager has loaded. *)
Respawn(s) ==
    /\ host[s].svc = "failed" /\ host[s].loaded # None
    /\ host' = [host EXCEPT ![s] = Started(@, @.loaded)]
    /\ UNCHANGED <<fs, fg, quiet, events>> /\ Procs

(* A process that was told to stop drains and exits cleanly, or it does not: *)
(* the drain is abandoned, or it had no handler for the signal yet. launchd  *)
(* cannot tell that from a crash; a task that was ended is not run again.    *)
Exit(s) ==
    /\ host[s].svc = "stopping"
    /\ \E exit \in {"clean", "error"} :
          host' = [host EXCEPT ![s] = IF platform = "windows" THEN Halted(@)
                                      ELSE Exited(@, exit)]
    /\ UNCHANGED <<fs, fg, quiet, events>> /\ Procs

(* The role run by hand, and stopped. *)
Foreground ==
    /\ fg' \in IF fg # "none" THEN {"none"} ELSE IF RoleHeld THEN {} ELSE {"user", "machine"}
    /\ UNCHANGED <<host, fs, quiet>> /\ Procs /\ Event

(* `launchctl disable` by hand: it outlives the job and the plist. *)
Block(s) ==
    /\ platform = "launchd"
    /\ ~host[s].blocked
    /\ host' = [host EXCEPT ![s].blocked = TRUE]
    /\ quiet' = [p \in Proc |-> FALSE]
    /\ UNCHANGED <<fs, fg>> /\ Procs /\ Event

(* Someone edits a configuration or changes its owners and modes. *)
FileChanges(x) ==
    /\ fs' \in {[fs EXCEPT ![x] = v] : v \in FileStates[x]}
    /\ UNCHANGED <<host, fg, quiet>> /\ Procs /\ Event

Invocation(p) ==
    \/ Begin(p) \/ Plan(p)
    \/ AnswerScope(p) \/ AnswerUser(p) \/ AnswerRetarget(p)
    \/ Step(p)

ServiceProcess(s) == Launch(s) \/ Crash(s) \/ Respawn(s) \/ Exit(s)

Next ==
    \/ \E p \in Proc : Invocation(p)
    \/ \E s \in Scope : ServiceProcess(s) \/ Block(s)
    \/ Foreground
    \/ \E x \in Config \cup User : FileChanges(x)

Spec == Init /\ [][Next]_vars

----------------------------------------------------------------------------
(* Every variable holds what its place in the code can hold. *)
TypeOK ==
    /\ platform \in Platforms
    /\ host \in [Scope -> Host]
    /\ \A x \in Config \cup User : fs[x] \in FileStates[x]
    /\ fg \in {"none", "user", "machine"}
    /\ pc \in [Proc -> {"idle", "plan", "ask_scope", "ask_user", "ask_retarget",
                        "exec", "ok", "failed"}]
    /\ req \in [Proc -> Request \cup {None}]
    /\ plan \in [Proc -> [scope : Scope, reg : Reg \cup {None}] \cup Consent \cup {None}]
    /\ \A p \in Proc : step[p] \in 0 .. 6
    /\ applied \in [Proc -> SUBSET Effect]
    /\ events \in 0 .. MaxEvents
    /\ quiet \in [Proc -> BOOLEAN] /\ flaky \in [Proc -> BOOLEAN]

(* A system service runs a user's files as root only when the registration   *)
(* names that user, and only while nobody but root and that user can change  *)
(* what it reads and where it writes, whatever happened to the files since   *)
(* the install looked at them. (A BusyBox script from before the pin cannot  *)
(* be told from a foreground run.)                                           *)
SystemServiceTrusted ==
    [][LET reg == host["system"].from IN
       host["system"].svc = "starting" /\ host'["system"].svc = "up" =>
         /\ reg.pin = None => platform = "busybox"
         /\ reg.pin # None => /\ Safe(fs[reg.config].path, reg.pin)
                              /\ reg.pin \in User => Safe(fs[reg.pin].path, reg.pin)]_vars

(* The owner of a system registration changes only to what a person agreed   *)
(* to when shown that very registration and its replacement, unless another  *)
(* invocation wrote between the last look and the write. (A user-scope       *)
(* request on BusyBox is not asked at all.)                                  *)
Retargets(p) ==
    /\ step'[p] # step[p]
    /\ host["system"].reg # None /\ host'["system"].reg # None
    /\ host'["system"].reg.pin # host["system"].reg.pin

Agreed(p) ==
    req[p].consent = [previous |-> PinOf(host["system"].reg), proposed |-> plan[p].reg]

RetargetByConsent ==
    [][\A p \in Proc : Retargets(p) /\ quiet[p] /\ InstallScope(req[p]) = "system" => Agreed(p)]_vars

----------------------------------------------------------------------------
Ended(p, how) == pc[p] = how /\ plan[p] # None /\ quiet[p]
HostOf(p) == host[plan[p].scope]

(* Started at boot or at login without anybody asking. *)
AtBoot(h) == /\ h.reg # None /\ ~h.blocked
             /\ platform = "systemd" => h.enabled

(* An install that reports success, undisturbed, left the new registration   *)
(* in place, known to the manager and started at boot, and no process of the *)
(* old one behind: a reinstall over a running service takes effect. (Windows *)
(* drops the run of a task that still runs, so there the old process stays.) *)
InstallTakesEffect ==
    \A p \in Proc : Ended(p, "ok") /\ req[p].verb = "install" /\ platform # "windows" =>
        LET h == HostOf(p) IN
        /\ h.reg = plan[p].reg /\ AtBoot(h)
        /\ platform # "busybox" => h.loaded = h.reg
        /\ Alive(h) => h.from = h.reg

(* A planned install nobody disturbs fails only because a native command     *)
(* failed by itself, or because the backend refused it with nothing done:    *)
(* neither a disable list left by an earlier uninstall nor a job that is     *)
(* still loaded stands in its way.                                           *)
PlannedInstallSucceeds ==
    \A p \in Proc : Ended(p, "failed") /\ req[p].verb = "install" /\ ~flaky[p]
        => ~Accepts(req[p]) /\ step[p] = 0

(* An uninstall that reports success leaves nothing that starts by itself,   *)
(* and no process that comes back when it reported it stopped.               *)
UninstallForgets ==
    \A p \in Proc : Ended(p, "ok") /\ req[p].verb = "uninstall" =>
        LET h == HostOf(p) IN
        /\ h.reg = None /\ ~AtBoot(h)
        /\ platform = "systemd" => h.loaded = None
        /\ "stopped" \in applied[p] => h.svc \in {"none", "stopping"}

(* What an operation reports, whether it succeeded or not, is what it left:  *)
(* `applied` is how a caller learns where a failed operation got to. (The    *)
(* launchd backend reports a job it unloaded as disabled, although its plist *)
(* is loaded again at the next boot until the following step removes it. And *)
(* a job it sent the signal stays loaded: when it then exits uncleanly, it   *)
(* comes back after its stop was reported.)                                  *)
Down(h) == h.svc \in {"none", "stopping"}

True(done, h, new) ==
    /\ "written" \in done => h.reg = new
    /\ "removed" \in done => h.reg = None
    /\ "stopped" \in done /\ "started" \notin done =>
           Down(h) \/ (platform = "launchd" /\ h.loaded # None)
    /\ "disabled" \in done =>
           IF platform = "launchd" THEN h.loaded = None ELSE ~AtBoot(h)
    /\ "enabled" \in done => AtBoot(h)

ReportTruthful ==
    \A p \in Proc : Ended(p, "ok") \/ Ended(p, "failed") =>
        True(applied[p], HostOf(p), plan[p].reg)

(* An install nobody disturbs works, and what it reports took effect.        *)
InstallWorks == TypeOK /\ InstallTakesEffect /\ PlannedInstallSucceeds

(* Reports stay true, in particular that of an uninstall.                    *)
ReportsLast == ReportTruthful /\ UninstallForgets

(* At the moment it is made, the report of an undisturbed operation is right *)
(* about the process as well: one reported stopped is gone or on its way,    *)
(* one reported started is there and not on its way out, so a restart does   *)
(* not leave the role without a process. (On Windows the run of a task that  *)
(* is still ending is dropped, and an install reports it as started.)        *)
RightNow(p) ==
    LET h == host'[plan[p].scope] IN
    /\ "stopped" \in applied'[p] /\ "started" \notin applied'[p] => Down(h)
    /\ "started" \in applied'[p] =>
           Alive(h) /\ (h.svc = "stopping" => platform = "windows" /\ req[p].verb = "install")

ReportedRightNow ==
    [][\A p \in Proc : pc[p] = "exec" /\ pc'[p] # "exec" /\ quiet[p] => RightNow(p)]_vars

(* Reports are true when they are made, and what they tell stays true until  *)
(* someone else acts.                                                        *)
ReportsTrue == []ReportsLast /\ ReportedRightNow

----------------------------------------------------------------------------
(* What the proofs of these properties need to know of every state.          *)

(* Only launchd has a disable list, and no process of a job that is not      *)
(* loaded; BusyBox loads nothing; on Windows there are no system services;   *)
(* and the other two wait for a process they stop.                           *)
HostOK ==
    /\ \A s \in Scope :
          /\ host[s].svc = "starting" => host[s].from # None
          /\ platform = "busybox" => host[s].loaded = None
          /\ platform # "launchd" => ~host[s].blocked
          /\ platform = "launchd" /\ host[s].loaded = None => host[s].svc = "none"
          /\ host[s].svc = "stopping" => platform \in {"launchd", "windows"}
    /\ platform = "windows" => host["system"].svc = "none"

(* Before it is planned, an invocation has done nothing; then its plan is    *)
(* one of a scope, with a registration if it is an install. A start is the   *)
(* last command of its program.                                              *)
PlanOK(p) ==
    /\ pc[p] \in {"idle", "plan", "ask_scope", "ask_user", "ask_retarget"} =>
          step[p] = 0 /\ applied[p] = {} /\ ~flaky[p] /\ ~quiet[p]
    /\ pc[p] # "idle" => req[p] \in Request
    /\ pc[p] = "ask_retarget" => plan[p] \in Consent
    /\ pc[p] = "exec" \/ quiet[p] =>
          /\ plan[p] \in [scope : Scope, reg : Reg \cup {None}]
          /\ req[p].verb = "install" => plan[p].reg # None
          /\ platform = "windows" => plan[p].scope = "user"
    /\ pc[p] = "exec" => /\ step[p] < Len(Program(req[p].verb)) /\ Accepts(req[p])
                         /\ "started" \notin applied[p]
    /\ step[p] = 0 => applied[p] = {}

(* How far an undisturbed install has got: where it is after n commands, and *)
(* whether one of them failed by itself or the backend refused it.           *)
InstallAt(where, n, h, new, broke) ==
    /\ where = "exec" =>
          /\ n > (IF platform = "windows" THEN 1 ELSE 0) => h.reg = new
          /\ platform = "systemd" =>
                /\ n > 1 => h.loaded = new
                /\ n > 2 => h.enabled
          /\ platform = "launchd" =>
                /\ n > 1 => ~h.blocked
                /\ n > 2 => h.loaded = None \/ broke
    /\ where = "ok" /\ platform # "windows" =>
          /\ h.reg = new /\ AtBoot(h)
          /\ platform # "busybox" => h.loaded = new
          /\ Alive(h) => h.from = new
    /\ where = "failed" => broke

(* How far an undisturbed uninstall has got. *)
UninstallAt(where, n, h) ==
    /\ where = "exec" /\ platform = "systemd" /\ n > 2 => h.reg = None
    /\ where = "ok" => h.reg = None /\ (platform = "systemd" => h.loaded = None)

(* Each effect is reported by the verbs that have it, and launchd unloads    *)
(* what an uninstall stops.                                                  *)
EffectsOf(verb, done) ==
    /\ "written" \in done \/ "enabled" \in done => verb = "install"
    /\ "removed" \in done \/ "disabled" \in done => verb = "uninstall"
    /\ "started" \in done => verb # "uninstall"
    /\ "stopped" \in done => verb # "install"
    /\ platform = "launchd" /\ verb = "uninstall" /\ "stopped" \in done => "disabled" \in done

(* What is known of an invocation nobody disturbs. *)
OnCourse(verb, where, n, h, new, done, broke) ==
    /\ EffectsOf(verb, done) /\ True(done, h, new)
    /\ verb = "install" => InstallAt(where, n, h, new, broke)
    /\ verb = "uninstall" => UninstallAt(where, n, h)

(* The registration an undisturbed install is about to replace is still the  *)
(* one the plan looked at.                                                   *)
StillAllowed(p) ==
    pc[p] = "exec" /\ step[p] = 0 /\ req[p].verb = "install" /\ InstallScope(req[p]) = "system"
        => RetargetAllowed(Existing, plan[p].reg, req[p].consent)

(* A start, and the second half of a restart on Windows, never meet a        *)
(* process that is on its way out.                                           *)
NotEnding(p) ==
    /\ pc[p] = "exec"
    /\ \/ req[p].verb = "start"
       \/ platform = "windows" /\ req[p].verb = "restart" /\ step[p] > 2
    => HostOf(p).svc # "stopping"

(* Whether an invocation may have failed for a reason of its own. *)
Broken(p) == flaky[p] \/ (~Accepts(req[p]) /\ step[p] = 0)

Undisturbed(p) ==
    /\ StillAllowed(p) /\ NotEnding(p)
    /\ OnCourse(req[p].verb, pc[p], step[p], HostOf(p), plan[p].reg, applied[p],
                Broken(p))

ServiceInv ==
    /\ TypeOK /\ fs \in [Config \cup User -> FileState] /\ step \in [Proc -> 0 .. 6]
    /\ HostOK
    /\ \A p \in Proc : PlanOK(p) /\ (quiet[p] => Undisturbed(p))

============================================================================
