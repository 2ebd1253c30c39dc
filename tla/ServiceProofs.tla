--------------------------- MODULE ServiceProofs ----------------------------
(***************************************************************************)
(* Proofs about Service for any users, directories, configurations and     *)
(* requests, any number of invocations at once, and the four platforms.    *)
(*                                                                         *)
(* The invariant says of every invocation nobody disturbed how far its     *)
(* program has got and what that makes true of the host.  Its proof goes   *)
(* down to the commands: what each command of each service manager can     *)
(* leave (the Outcomes lemmas), that each command of each verb's program   *)
(* keeps the invocation on course (StepFollows), and that the steps of     *)
(* others, processes, files and answers leave it there.  That a system     *)
(* service is trusted rests on WalkSafe, about trust.rs alone.             *)
(***************************************************************************)
EXTENDS Service, SequenceTheorems, TLAPS

(* What the walk accepts, only root and the given user can change. *)
LEMMA WalkSafe ==
    ASSUME Root \notin User, NEW path \in Seq(Component) \ {<<>>}, NEW uid,
           NEW wantDir \in BOOLEAN, Walk(path, uid, wantDir)
    PROVE  Safe(path, uid)
<1> DEFINE n == Len(path)
<1>1. n \in Nat \ {0} /\ DOMAIN path = 1 .. n
  BY LenProperties, EmptySeq
<1>2. Last(path) = path[n]
  BY DEF Last
<1>3. \A i \in 1 .. n - 1 : path[i].kind = "dir" /\ CheckParent(path[i], path[i + 1], uid)
  BY DEF Walk
<1>4. CheckFinal(path[n], uid, wantDir)
  BY <1>2 DEF Walk
<1>5. \A i \in DOMAIN path : path[i].kind # "link"
  BY <1>1, <1>3, <1>4 DEF CheckFinal
<1>6. SUFFICES ASSUME NEW u \in User \ {uid}, CanChange(u, path) PROVE FALSE
  BY DEF Safe
<1>7. u # Root
  OBVIOUS
<1>8. ~CanWrite(u, Last(path))
  BY <1>2, <1>4, <1>7 DEF CanWrite, CheckFinal, Trusted
<1>9. ASSUME NEW i \in 1 .. n - 1
      PROVE  path[i].owner # u /\ ~CanReplace(u, path[i], path[i + 1])
  BY <1>3, <1>7 DEF CheckParent, Trusted, CanReplace, CanWrite
<1> QED
  BY <1>5, <1>6, <1>8, <1>9 DEF CanChange

-----------------------------------------------------------------------------
(* The programs of an install. *)
LEMMA InstallProgram ==
    ASSUME NEW P, P = Program("install")
    PROVE  /\ platform = "systemd" =>
                /\ Len(P) = 4 /\ P[1] = Must("write", {"written"})
                /\ P[2] = Must("reload", {})
                /\ P[3] = Must("enable", {"enabled"}) /\ P[4] = Must("restart", {"started"})
           /\ platform = "launchd" =>
                /\ Len(P) = 4 /\ P[1] = Must("write", {"written"})
                /\ P[2] = Must("unblock", {})
                /\ P[3] = Try("bootout", {})
                /\ P[4] = Must("bootstrap", {"enabled", "started"})
           /\ platform = "busybox" =>
                /\ Len(P) = 3 /\ P[1] = Must("write", {"written"})
                /\ P[2] = Must("chmod", {"enabled"})
                /\ P[3] = Must("script_restart", {"started"})
           /\ platform = "windows" =>
                /\ Len(P) = 3 /\ P[1] = Must("whoami", {})
                /\ P[2] = Must("create", {"enabled"}) /\ P[3] = Must("run", {"started"})
<1>1. CASE platform = "systemd"
  <2>1. P = <<Must("write", {"written"})>>
            \o <<Must("reload", {}), Must("enable", {"enabled"}),
                 Must("restart", {"started"})>>
    BY <1>1 DEF Program, Backend, Systemd, SystemdInstall, EnableAndStart
  <2> QED
    BY <1>1, <2>1
<1>2. CASE platform = "launchd"
  <2>1. P = <<Must("write", {"written"})>> \o <<Must("unblock", {}), Try("bootout", {}),
                                               Must("bootstrap", {"enabled", "started"})>>
    BY <1>2 DEF Program, Backend, Launchd, LaunchdInstall, Load
  <2> QED
    BY <1>2, <2>1
<1>3. CASE platform = "busybox"
  BY <1>3 DEF Program, Backend, Busybox
<1>4. CASE platform = "windows"
  BY <1>4 DEF Program, Backend, Windows
<1> QED
  BY <1>1, <1>2, <1>3, <1>4

(* The programs of an uninstall. *)
LEMMA UninstallProgram ==
    ASSUME NEW P, P = Program("uninstall")
    PROVE  /\ platform = "systemd" =>
                /\ Len(P) = 4 /\ P[1] = Try("stop", {"stopped"})
                /\ P[2] = Try("disable", {"disabled"})
                /\ P[3] = Must("remove", {"removed"}) /\ P[4] = Must("reload", {})
           /\ platform = "launchd" =>
                /\ Len(P) = 2 /\ P[1] = Try("bootout", {"stopped", "disabled"})
                /\ P[2] = Must("remove", {"removed"})
           /\ platform = "busybox" =>
                /\ Len(P) = 2 /\ P[1] = Try("script_stop", {"stopped"})
                /\ P[2] = Must("remove", {"removed"})
           /\ platform = "windows" =>
                /\ Len(P) = 3 /\ P[1] = Gate("listed") /\ P[2] = Try("try_end", {"stopped"})
                /\ P[3] = Must("delete", {"disabled"})
<1>1. CASE platform = "systemd"
  BY <1>1 DEF Program, Backend, Systemd, SystemdUninstall
<1>2. CASE platform = "launchd"
  BY <1>2 DEF Program, Backend, Launchd
<1>3. CASE platform = "busybox"
  BY <1>3 DEF Program, Backend, Busybox
<1>4. CASE platform = "windows"
  BY <1>4 DEF Program, Backend, Windows
<1> QED
  BY <1>1, <1>2, <1>3, <1>4

(* The programs of the other verbs on Windows. *)
LEMMA WindowsPrograms ==
    ASSUME platform = "windows", NEW verb, NEW P, P = Program(verb)
    PROVE  /\ verb = "start" =>
                Len(P) = 2 /\ P[1] = Must("listed", {}) /\ P[2] = Must("run", {"started"})
           /\ verb = "stop" =>
                Len(P) = 2 /\ P[1] = Must("listed", {}) /\ P[2] = Must("end", {"stopped"})
           /\ verb = "restart" =>
                /\ Len(P) = 5 /\ P[1] = Must("listed", {}) /\ P[2] = Must("end", {"stopped"})
                /\ P[3] = Must("wait", {}) /\ P[4] = Must("listed", {})
                /\ P[5] = Must("run", {"started"})
           /\ verb = "status" =>
                Len(P) = 2 /\ P[1] = Must("listed", {}) /\ P[2] = Must("show", {})
<1>1. CASE verb = "start"
  <2>1. P = <<Must("listed", {}), Must("run", {"started"})>>
    BY <1>1 DEF Program, Backend, Windows, WindowsStart
  <2> QED
    BY <1>1, <2>1
<1>2. CASE verb = "stop"
  <2>1. P = <<Must("listed", {}), Must("end", {"stopped"})>>
    BY <1>2 DEF Program, Backend, Windows, WindowsStop
  <2> QED
    BY <1>2, <2>1
<1>3. CASE verb = "restart"
  <2>1. P = (<<Must("listed", {}), Must("end", {"stopped"})>> \o <<Must("wait", {})>>)
              \o <<Must("listed", {}), Must("run", {"started"})>>
    BY <1>3 DEF Program, Backend, Windows, WindowsRestart, WindowsStop, WindowsStart
  <2> QED
    BY <1>3, <2>1
<1>4. CASE verb = "status"
  <2>1. P = <<Must("listed", {})>> \o <<Must("show", {})>>
    BY <1>4 DEF Program, Backend, Windows, ShowStatus
  <2> QED
    BY <1>4, <2>1
<1> QED
  BY <1>1, <1>2, <1>3, <1>4

(* Elsewhere each of them is one command. *)
LEMMA OneCommand ==
    ASSUME platform \in {"systemd", "launchd", "busybox"},
           NEW verb \in {"start", "stop", "restart", "status"}, NEW P, P = Program(verb)
    PROVE  /\ Len(P) = 1
           /\ platform = "launchd" /\ verb # "start" => P[1].cmd # "kickstart"
<1>1. CASE platform = "systemd"
  BY <1>1 DEF Program, Backend, Systemd, ShowStatus
<1>2. CASE platform = "launchd"
  <2>1. P = CASE verb = "start" -> <<Must("kickstart", {"started"})>>
              [] verb = "stop" -> <<Must("kill", {"stopped"})>>
              [] verb = "restart" -> <<Must("kickstart_k", {"started"})>>
              [] OTHER -> <<Must("show", {})>>
    BY <1>2 DEF Program, Backend, Launchd, ShowStatus
  <2> QED
    BY <2>1 DEF Must
<1>3. CASE platform = "busybox"
  BY <1>3 DEF Program, Backend, Busybox
<1> QED
  BY <1>1, <1>2, <1>3

(* The programs of the other verbs: they start, stop or show. *)
OtherSteps ==
    [systemd |-> {Must("start", {"started"}), Must("stop", {"stopped"}),
                  Must("restart", {"started"}), Must("show", {})},
     launchd |-> {Must("kickstart", {"started"}), Must("kill", {"stopped"}),
                  Must("kickstart_k", {"started"}), Must("show", {})},
     busybox |-> {Must("script_start", {"started"}), Must("script_stop", {"stopped"}),
                  Must("script_restart", {"started"}), Must("script_status", {})},
     windows |-> {Must("listed", {}), Must("run", {"started"}), Must("end", {"stopped"}),
                  Must("wait", {}), Must("show", {})}]

(* The commands of the other verbs are of the kinds OtherSteps lists. *)
LEMMA OtherPrograms ==
    ASSUME platform \in {"systemd", "launchd", "busybox", "windows"},
           NEW verb \in {"start", "stop", "restart", "status"},
           NEW P, P = Program(verb)
    PROVE  /\ Len(P) \in 1 .. 5
           /\ \A n \in 1 .. Len(P) : P[n] \in OtherSteps[platform]
<1>1. CASE platform = "systemd"
  <2>0. OtherSteps[platform] = {Must("start", {"started"}), Must("stop", {"stopped"}),
                                 Must("restart", {"started"}), Must("show", {})}
    BY <1>1 DEF OtherSteps
  <2>1. CASE verb = "start"
    <3>1. P = <<Must("start", {"started"})>>
      BY <1>1, <2>1 DEF Program, Backend, Systemd, ShowStatus
    <3>2. Len(P) = 1 /\ P[1] = Must("start", {"started"})
      BY <3>1
    <3> QED
      BY <2>0, <3>2
  <2>2. CASE verb = "stop"
    <3>1. P = <<Must("stop", {"stopped"})>>
      BY <1>1, <2>2 DEF Program, Backend, Systemd, ShowStatus
    <3>2. Len(P) = 1 /\ P[1] = Must("stop", {"stopped"})
      BY <3>1
    <3> QED
      BY <2>0, <3>2
  <2>3. CASE verb = "restart"
    <3>1. P = <<Must("restart", {"started"})>>
      BY <1>1, <2>3 DEF Program, Backend, Systemd, ShowStatus
    <3>2. Len(P) = 1 /\ P[1] = Must("restart", {"started"})
      BY <3>1
    <3> QED
      BY <2>0, <3>2
  <2>4. CASE verb = "status"
    <3>1. P = <<Must("show", {})>>
      BY <1>1, <2>4 DEF Program, Backend, Systemd, ShowStatus
    <3>2. Len(P) = 1 /\ P[1] = Must("show", {})
      BY <3>1
    <3> QED
      BY <2>0, <3>2
  <2> QED
    BY <2>1, <2>2, <2>3, <2>4
<1>2. CASE platform = "launchd"
  <2>0. OtherSteps[platform] = {Must("kickstart", {"started"}), Must("kill", {"stopped"}),
                                 Must("kickstart_k", {"started"}), Must("show", {})}
    BY <1>2 DEF OtherSteps
  <2>1. CASE verb = "start"
    <3>1. P = <<Must("kickstart", {"started"})>>
      BY <1>2, <2>1 DEF Program, Backend, Launchd, ShowStatus
    <3>2. Len(P) = 1 /\ P[1] = Must("kickstart", {"started"})
      BY <3>1
    <3> QED
      BY <2>0, <3>2
  <2>2. CASE verb = "stop"
    <3>1. P = <<Must("kill", {"stopped"})>>
      BY <1>2, <2>2 DEF Program, Backend, Launchd, ShowStatus
    <3>2. Len(P) = 1 /\ P[1] = Must("kill", {"stopped"})
      BY <3>1
    <3> QED
      BY <2>0, <3>2
  <2>3. CASE verb = "restart"
    <3>1. P = <<Must("kickstart_k", {"started"})>>
      BY <1>2, <2>3 DEF Program, Backend, Launchd, ShowStatus
    <3>2. Len(P) = 1 /\ P[1] = Must("kickstart_k", {"started"})
      BY <3>1
    <3> QED
      BY <2>0, <3>2
  <2>4. CASE verb = "status"
    <3>1. P = <<Must("show", {})>>
      BY <1>2, <2>4 DEF Program, Backend, Launchd, ShowStatus
    <3>2. Len(P) = 1 /\ P[1] = Must("show", {})
      BY <3>1
    <3> QED
      BY <2>0, <3>2
  <2> QED
    BY <2>1, <2>2, <2>3, <2>4
<1>3. CASE platform = "busybox"
  <2>0. OtherSteps[platform] =
          {Must("script_start", {"started"}), Must("script_stop", {"stopped"}),
           Must("script_restart", {"started"}), Must("script_status", {})}
    BY <1>3 DEF OtherSteps
  <2>1. CASE verb = "start"
    <3>1. P = <<Must("script_start", {"started"})>>
      BY <1>3, <2>1 DEF Program, Backend, Busybox
    <3>2. Len(P) = 1 /\ P[1] = Must("script_start", {"started"})
      BY <3>1
    <3> QED
      BY <2>0, <3>2
  <2>2. CASE verb = "stop"
    <3>1. P = <<Must("script_stop", {"stopped"})>>
      BY <1>3, <2>2 DEF Program, Backend, Busybox
    <3>2. Len(P) = 1 /\ P[1] = Must("script_stop", {"stopped"})
      BY <3>1
    <3> QED
      BY <2>0, <3>2
  <2>3. CASE verb = "restart"
    <3>1. P = <<Must("script_restart", {"started"})>>
      BY <1>3, <2>3 DEF Program, Backend, Busybox
    <3>2. Len(P) = 1 /\ P[1] = Must("script_restart", {"started"})
      BY <3>1
    <3> QED
      BY <2>0, <3>2
  <2>4. CASE verb = "status"
    <3>1. P = <<Must("script_status", {})>>
      BY <1>3, <2>4 DEF Program, Backend, Busybox
    <3>2. Len(P) = 1 /\ P[1] = Must("script_status", {})
      BY <3>1
    <3> QED
      BY <2>0, <3>2
  <2> QED
    BY <2>1, <2>2, <2>3, <2>4
<1>4. CASE platform = "windows"
  <2>0. OtherSteps[platform] = {Must("listed", {}), Must("run", {"started"}),
                                Must("end", {"stopped"}), Must("wait", {}), Must("show", {})}
    BY <1>4 DEF OtherSteps
  <2> QED
    BY <1>4, <2>0, WindowsPrograms
<1> QED
  BY <1>1, <1>2, <1>3, <1>4

-----------------------------------------------------------------------------
(* What the commands of systemd do, unless they fail by themselves. *)
LEMMA SystemctlOutcomes ==
    ASSUME platform = "systemd", NEW h, NEW new
    PROVE  /\ \A o \in Outcomes("write", h, new) :
                 o = Broke(h) \/ o = Done([h EXCEPT !.reg = new])
           /\ \A o \in Outcomes("reload", h, new) :
                 o = Broke(h) \/ o = Done([h EXCEPT !.loaded = h.reg])
           /\ \A o \in Outcomes("enable", h, new) :
                 o = Broke(h)
                 \/ o = (IF h.reg # None
                         THEN Done([h EXCEPT !.enabled = TRUE])
                         ELSE Failed(h))
           /\ \A o \in Outcomes("restart", h, new) :
                 o = Broke(h) \/ o = Broke(Halted(h))
                 \/ o = (IF h.loaded # None
                         THEN Done(Started(h, h.loaded))
                         ELSE Failed(h))
           /\ \A o \in Outcomes("stop", h, new) :
                 o = Broke(h)
                 \/ o = (IF h.loaded # None \/ Alive(h)
                         THEN Done(Halted(h))
                         ELSE Failed(h))
           /\ \A o \in Outcomes("disable", h, new) :
                 o = Broke(h)
                 \/ o = (IF h.reg # None
                         THEN Done([h EXCEPT !.enabled = FALSE])
                         ELSE Failed(h))
           /\ \A o \in Outcomes("remove", h, new) :
                 o = Broke(h)
                 \/ o = (IF h.reg = None THEN Idle(h) ELSE Done([h EXCEPT !.reg = None]))
           /\ \A o \in Outcomes("start", h, new) :
                 o = Broke(h)
                 \/ o = (IF h.loaded # None
                         THEN Done(IF Alive(h) THEN h ELSE Started(h, h.loaded))
                         ELSE Failed(h))
           /\ \A o \in Outcomes("show", h, new) :
                 o = Broke(h) \/ o = Idle(h)
  BY DEF Outcomes, OwnStep, SystemctlStep

(* What the commands of launchd do, unless they fail by themselves. *)
LEMMA LaunchctlOutcomes ==
    ASSUME platform = "launchd", NEW h, NEW new
    PROVE  /\ \A o \in Outcomes("write", h, new) :
                 o = Broke(h) \/ o = Done([h EXCEPT !.reg = new])
           /\ \A o \in Outcomes("unblock", h, new) :
                 o = Broke(h) \/ o = Done([h EXCEPT !.blocked = FALSE])
           /\ \A o \in Outcomes("bootout", h, new) :
                 o = Broke(h)
                 \/ o = (IF h.loaded # None
                         THEN Done(Halted([h EXCEPT !.loaded = None]))
                         ELSE Failed(h))
           /\ \A o \in Outcomes("bootstrap", h, new) :
                 o = Broke(h)
                 \/ o = (IF h.loaded = None /\ h.reg # None /\ ~h.blocked
                         THEN Done(Started([h EXCEPT !.loaded = h.reg], h.reg))
                         ELSE Failed(h))
           /\ \A o \in Outcomes("remove", h, new) :
                 o = Broke(h)
                 \/ o = (IF h.reg = None THEN Idle(h) ELSE Done([h EXCEPT !.reg = None]))
           /\ \A o \in Outcomes("kickstart", h, new) :
                 o = Broke(h)
                 \/ o = (IF h.loaded # None
                         THEN Done(IF Alive(h) THEN h ELSE Started(h, h.loaded))
                         ELSE Failed(h))
           /\ \A o \in Outcomes("kickstart_k", h, new) :
                 o = Broke(h) \/ o = Broke(Halted(h))
                 \/ o = (IF h.loaded # None
                         THEN Done(Started(h, h.loaded))
                         ELSE Failed(h))
           /\ \A o \in Outcomes("kill", h, new) :
                 o = Broke(h)
                 \/ o = (IF h.loaded # None
                         THEN (IF Alive(h) THEN Done([h EXCEPT !.svc = "stopping"])
                                          ELSE Idle(h))
                         ELSE Failed(h))
           /\ \A o \in Outcomes("show", h, new) :
                 o = Broke(h) \/ o = Idle(h)
  BY DEF Outcomes, OwnStep, LaunchctlStep

(* What the commands of BusyBox do, unless they fail by themselves. *)
LEMMA ScriptOutcomes ==
    ASSUME platform = "busybox", NEW h, NEW new
    PROVE  /\ \A o \in Outcomes("write", h, new) :
                 o = Broke(h) \/ o = Done([h EXCEPT !.reg = new])
           /\ \A o \in Outcomes("chmod", h, new) :
                 o = Broke(h) \/ o = (IF h.reg = None THEN Failed(h) ELSE Done(h))
           /\ \A o \in Outcomes("script_restart", h, new) :
                 o = Broke(h) \/ o = Broke(Halted(h))
                 \/ o = (IF h.reg = None THEN Failed(h) ELSE Done(Started(h, h.reg)))
           /\ \A o \in Outcomes("script_stop", h, new) :
                 o = Broke(h) \/ o = (IF h.reg = None THEN Failed(h) ELSE Done(Halted(h)))
           /\ \A o \in Outcomes("remove", h, new) :
                 o = Broke(h)
                 \/ o = (IF h.reg = None THEN Idle(h) ELSE Done([h EXCEPT !.reg = None]))
           /\ \A o \in Outcomes("script_start", h, new) :
                 o = Broke(h)
                 \/ o = (IF h.reg = None
                         THEN Failed(h)
                         ELSE Done(IF Alive(h) THEN h ELSE Started(h, h.reg)))
           /\ \A o \in Outcomes("script_status", h, new) :
                 o = Broke(h) \/ o = (IF h.reg = None THEN Failed(h) ELSE Idle(h))
  BY DEF Outcomes, OwnStep, ScriptStep

(* What the commands of Windows do, unless they fail by themselves. *)
LEMMA SchtasksOutcomes ==
    ASSUME platform = "windows", NEW h, NEW new
    PROVE  /\ \A o \in Outcomes("whoami", h, new) :
                 o = Broke(h) \/ o = Idle(h)
           /\ \A o \in Outcomes("create", h, new) :
                 o = Broke(h) \/ o = Done([h EXCEPT !.reg = new, !.loaded = new])
           /\ \A o \in Outcomes("run", h, new) :
                 o = Broke(h)
                 \/ o = (IF h.reg # None
                         THEN Done(IF Alive(h) THEN h ELSE Started(h, h.reg))
                         ELSE Failed(h))
           /\ \A o \in Outcomes("listed", h, new) :
                 o = Broke(h) \/ o = (IF h.reg = None THEN Failed(h) ELSE Idle(h))
           /\ \A o \in Outcomes("try_end", h, new) :
                 o = Broke(h)
                 \/ o = (IF h.reg # None /\ Alive(h)
                         THEN Done([h EXCEPT !.svc = "stopping"])
                         ELSE Failed(h))
           /\ \A o \in Outcomes("delete", h, new) :
                 o = Broke(h)
                 \/ o = (IF h.reg # None
                         THEN Done([h EXCEPT !.reg = None, !.loaded = None])
                         ELSE Failed(h))
           /\ \A o \in Outcomes("end", h, new) :
                 o = Broke(h)
                 \/ o = (IF h.reg # None /\ Alive(h)
                         THEN Done([h EXCEPT !.svc = "stopping"])
                         ELSE IF RoleHeld
                         THEN Failed(h)
                         ELSE Idle(h))
           /\ \A o \in Outcomes("wait", h, new) :
                 o = Broke(h) \/ o = (IF RoleHeld THEN Failed(h) ELSE Idle(h))
           /\ \A o \in Outcomes("show", h, new) :
                 o = Broke(h) \/ o = Idle(h)
  BY DEF Outcomes, OwnStep, SchtasksStep

-----------------------------------------------------------------------------
(* A host as HostOK has it. *)
HostGood(h) ==
    /\ h \in Host
    /\ h.svc = "starting" => h.from # None
    /\ platform = "busybox" => h.loaded = None
    /\ platform # "launchd" => ~h.blocked
    /\ platform = "launchd" /\ h.loaded = None => h.svc = "none"
    /\ h.svc = "stopping" => platform \in {"launchd", "windows"}

(* The fields of a host. *)
Looks(h, reg, loaded, enabled, blocked, svc, from) ==
    /\ h.reg = reg /\ h.loaded = loaded /\ h.enabled = enabled
    /\ h.blocked = blocked /\ h.svc = svc /\ h.from = from

(* A registration written or removed changes that field only; *)
LEMMA RegSet ==
    ASSUME NEW h \in Host, NEW r \in Reg \cup {None}, NEW g, g = [h EXCEPT !.reg = r]
    PROVE  g \in Host /\ Looks(g, r, h.loaded, h.enabled, h.blocked, h.svc, h.from)
  BY DEF Host, Looks

(* ... the same for what the manager has loaded, *)
LEMMA LoadedSet ==
    ASSUME NEW h \in Host, NEW r \in Reg \cup {None}, NEW g, g = [h EXCEPT !.loaded = r]
    PROVE  g \in Host /\ Looks(g, h.reg, r, h.enabled, h.blocked, h.svc, h.from)
  BY DEF Host, Looks

(* ... for both at once, *)
LEMMA BothSet ==
    ASSUME NEW h \in Host, NEW r \in Reg \cup {None}, NEW g,
           g = [h EXCEPT !.reg = r, !.loaded = r]
    PROVE  g \in Host /\ Looks(g, r, r, h.enabled, h.blocked, h.svc, h.from)
  BY DEF Host, Looks

(* ... for the start at boot, *)
LEMMA EnabledSet ==
    ASSUME NEW h \in Host, NEW r \in BOOLEAN, NEW g, g = [h EXCEPT !.enabled = r]
    PROVE  g \in Host /\ Looks(g, h.reg, h.loaded, r, h.blocked, h.svc, h.from)
  BY DEF Host, Looks

(* ... for launchd's disable list, *)
LEMMA BlockedSet ==
    ASSUME NEW h \in Host, NEW r \in BOOLEAN, NEW g, g = [h EXCEPT !.blocked = r]
    PROVE  g \in Host /\ Looks(g, h.reg, h.loaded, h.enabled, r, h.svc, h.from)
  BY DEF Host, Looks

(* ... for the service process, *)
LEMMA SvcSet ==
    ASSUME NEW h \in Host, NEW r \in {"none", "starting", "up", "stopping", "failed"},
           NEW g, g = [h EXCEPT !.svc = r]
    PROVE  g \in Host /\ Looks(g, h.reg, h.loaded, h.enabled, h.blocked, r, h.from)
  BY DEF Host, Looks

(* ... for a start, *)
LEMMA StartedFrom ==
    ASSUME NEW h \in Host, NEW r \in Reg \cup {None}, NEW g, g = Started(h, r)
    PROVE  g \in Host /\ Looks(g, h.reg, h.loaded, h.enabled, h.blocked, "starting", r)
  BY DEF Host, Looks, Started

(* ... and for a stop. *)
LEMMA HaltedHost ==
    ASSUME NEW h \in Host, NEW g, g = Halted(h)
    PROVE  g \in Host /\ Looks(g, h.reg, h.loaded, h.enabled, h.blocked, "none", None)
  BY DEF Host, Looks, Halted

-----------------------------------------------------------------------------
(* What a command leaves, whoever else is at work: a good host; a process    *)
(* only by a start that is reported, none by a stop that is; and another     *)
(* registration only by an install (its first command, except on Windows).   *)
Leaves(verb, n, h, new, g, said) ==
    /\ HostGood(g) /\ said \subseteq Effect
    /\ g.svc \in {h.svc, "none", "stopping"} \/ (g.svc = "starting" /\ "started" \in said)
    /\ "stopped" \in said => g.svc \in {"none", "stopping"}
    /\ platform = "launchd" =>
           g.loaded = h.loaded \/ g.svc \in {"none", "stopping"} \/ "started" \in said
    /\ g.reg \in {h.reg, None}
       \/ (verb = "install" /\ (n = 0 \/ platform = "windows") /\ g.reg = new)

(* A command whose outcome is as it should be, and leaves an invocation that *)
(* nobody disturbs on course.                                                *)
Follows(verb, n, rest, st, h, new, done, broke, o) ==
    /\ Leaves(verb, n, h, new, o.host, Recorded(st, o)) /\ o.by \in {"host", "itself"}
    /\ OnCourse(verb, "exec", n, h, new, done, broke) =>
           OnCourse(verb, After(st, o, rest), n + 1, o.host, new,
                    done \cup Recorded(st, o), broke \/ o.by = "itself")

(* A command that must succeed, changed nothing that was reported, and ends  *)
(* the operation: it failed by itself, or it belongs to no install.          *)
LEMMA EndsHere ==
    ASSUME NEW verb, NEW n \in Nat, NEW rest, NEW h, HostGood(h), NEW new, NEW done,
           NEW broke \in BOOLEAN, NEW cmd, NEW says, NEW o,
           \/ o = Broke(h)
           \/ o = Failed(h) /\ verb # "install"
    PROVE  Follows(verb, n, rest, Must(cmd, says), h, new, done, broke, o)
<1>1. ~o.ok /\ ~o.did /\ o.host = h /\ o.by \in {"host", "itself"}
      /\ (verb = "install" => o.by = "itself")
  BY DEF Broke, Failed
<1>2. Recorded(Must(cmd, says), o) = {} /\ After(Must(cmd, says), o, rest) = "failed"
  BY <1>1 DEF Recorded, After, Must
<1>3. Leaves(verb, n, h, new, h, {})
  BY DEF Leaves
<1>4. ASSUME OnCourse(verb, "exec", n, h, new, done, broke)
      PROVE  OnCourse(verb, "failed", n + 1, h, new, done, broke \/ o.by = "itself")
  BY <1>1, <1>4 DEF OnCourse, InstallAt, UninstallAt
<1>5. done \cup {} = done
  OBVIOUS
<1> QED
  BY <1>1, <1>2, <1>3, <1>4, <1>5 DEF Follows

(* The same for one that had stopped the service when it failed by itself.   *)
LEMMA EndsHalted ==
    ASSUME NEW verb, verb \notin {"uninstall"}, NEW n \in Nat, NEW rest, NEW h, HostGood(h),
           NEW new, NEW done,
           NEW broke \in BOOLEAN, NEW cmd, NEW says, NEW o, o = Broke(Halted(h))
    PROVE  Follows(verb, n, rest, Must(cmd, says), h, new, done, broke, o)
<1>1. PICK g : g = Halted(h)
  OBVIOUS
<1>2. g \in Host /\ Looks(g, h.reg, h.loaded, h.enabled, h.blocked, "none", None)
  BY <1>1, HaltedHost DEF HostGood
<1>3. ~o.ok /\ ~o.did /\ o.host = g /\ o.by = "itself"
  BY <1>1 DEF Broke
<1>4. Recorded(Must(cmd, says), o) = {} /\ After(Must(cmd, says), o, rest) = "failed"
  BY <1>3 DEF Recorded, After, Must
<1>5. Leaves(verb, n, h, new, g, {})
  BY <1>2 DEF Leaves, HostGood, Looks
<1>6. OnCourse(verb, "exec", n, h, new, done, broke) =>
          OnCourse(verb, "failed", n + 1, g, new, done, TRUE)
  BY <1>2 DEF OnCourse, Looks, True, Down, AtBoot, InstallAt, UninstallAt
<1>7. done \cup {} = done
  OBVIOUS
<1> QED
  BY <1>3, <1>4, <1>5, <1>6, <1>7 DEF Follows

(* One command of an install under systemd. *)
LEMMA SystemdInstalls ==
    ASSUME None \notin Reg, platform = "systemd", NEW h, HostGood(h), NEW new \in Reg,
           NEW done \in SUBSET Effect, NEW broke \in BOOLEAN,
           NEW n \in 0 .. 3, NEW rest, rest = 4 - n - 1, NEW st,
           st = Program("install")[n + 1],
           NEW o \in Outcomes(st.cmd, h, new)
    PROVE  Follows("install", n, rest, st, h, new, done, broke, o)
<1>1. CASE n = 0
  <2>1. st = Must("write", {"written"}) /\ st.cmd = "write"
    BY <1>1, InstallProgram DEF Must
  <2>2. PICK g : g = [h EXCEPT !.reg = new]
    OBVIOUS
  <2>3. o = Broke(h) \/ o = Done(g)
    BY <2>1, <2>2, SystemctlOutcomes
  <2>4. g \in Host /\ Looks(g, new, h.loaded, h.enabled, h.blocked, h.svc, h.from)
    BY <2>2, RegSet DEF HostGood, Host
  <2>5. CASE o = Done(g)
    <3>1. o.host = g /\ o.by = "host" /\ Recorded(st, o) = {"written"}
          /\ After(st, o, 3) = "exec"
      BY <2>1, <2>5 DEF Done, Recorded, After, Must
    <3>2. Leaves("install", 0, h, new, g, {"written"})
      BY <2>4, <2>5 DEF Leaves, HostGood, Looks, Effect
    <3>3. OnCourse("install", "exec", 0, h, new, done, broke) =>
              OnCourse("install", "exec", 1, g, new, done \cup {"written"}, broke)
      BY <2>4, <2>5 DEF OnCourse, Looks, EffectsOf, True, Down, AtBoot, InstallAt, Alive, HostGood
    <3> QED
      BY <1>1, <3>1, <3>2, <3>3 DEF Follows
  <2> QED
    BY <2>1, <2>3, <2>5, EndsHere
<1>2. CASE n = 1
  <2>1. st = Must("reload", {}) /\ st.cmd = "reload"
    BY <1>2, InstallProgram DEF Must
  <2>2. PICK g : g = [h EXCEPT !.loaded = h.reg]
    OBVIOUS
  <2>3. o = Broke(h) \/ o = Done(g)
    BY <2>1, <2>2, SystemctlOutcomes
  <2>4. g \in Host /\ Looks(g, h.reg, h.reg, h.enabled, h.blocked, h.svc, h.from)
    BY <2>2, LoadedSet DEF HostGood, Host
  <2>5. CASE o = Done(g)
    <3>1. o.host = g /\ o.by = "host" /\ Recorded(st, o) = {}
          /\ After(st, o, 2) = "exec"
      BY <2>1, <2>5 DEF Done, Recorded, After, Must
    <3>2. Leaves("install", 1, h, new, g, {})
      BY <2>4, <2>5 DEF Leaves, HostGood, Looks, Effect
    <3>3. OnCourse("install", "exec", 1, h, new, done, broke) =>
              OnCourse("install", "exec", 2, g, new, done \cup {}, broke)
      BY <2>4, <2>5 DEF OnCourse, Looks, EffectsOf, True, Down, AtBoot, InstallAt, Alive, HostGood
    <3> QED
      BY <1>2, <3>1, <3>2, <3>3 DEF Follows
  <2> QED
    BY <2>1, <2>3, <2>5, EndsHere
<1>3. CASE n = 2
  <2>1. st = Must("enable", {"enabled"}) /\ st.cmd = "enable"
    BY <1>3, InstallProgram DEF Must
  <2>2. PICK g : g = [h EXCEPT !.enabled = TRUE]
    OBVIOUS
  <2>3. o = Broke(h) \/ (h.reg # None /\ o = Done(g)) \/ (h.reg = None /\ o = Failed(h))
    BY <2>1, <2>2, SystemctlOutcomes
  <2>4. g \in Host /\ Looks(g, h.reg, h.loaded, TRUE, h.blocked, h.svc, h.from)
    BY <2>2, EnabledSet DEF HostGood, Host
  <2>5. CASE h.reg # None /\ o = Done(g)
    <3>1. o.host = g /\ o.by = "host" /\ Recorded(st, o) = {"enabled"}
          /\ After(st, o, 1) = "exec"
      BY <2>1, <2>5 DEF Done, Recorded, After, Must
    <3>2. Leaves("install", 2, h, new, g, {"enabled"})
      BY <2>4, <2>5 DEF Leaves, HostGood, Looks, Effect
    <3>3. OnCourse("install", "exec", 2, h, new, done, broke) =>
              OnCourse("install", "exec", 3, g, new, done \cup {"enabled"}, broke)
      BY <2>4, <2>5 DEF OnCourse, Looks, EffectsOf, True, Down, AtBoot, InstallAt, Alive, HostGood
    <3> QED
      BY <1>3, <3>1, <3>2, <3>3 DEF Follows
  <2>6. CASE h.reg = None /\ o = Failed(h)
    <3>1. o.host = h /\ o.by = "host" /\ Recorded(st, o) = {}
          /\ After(st, o, 1) = "failed"
      BY <2>1, <2>6 DEF Failed, Recorded, After, Must
    <3>2. Leaves("install", 2, h, new, h, {})
      BY <2>6 DEF Leaves, HostGood, Looks, Effect
    <3>3. OnCourse("install", "exec", 2, h, new, done, broke) =>
              OnCourse("install", "failed", 3, h, new, done \cup {}, broke)
      BY <2>6 DEF OnCourse, Looks, EffectsOf, True, Down, AtBoot, InstallAt, Alive, HostGood
    <3> QED
      BY <1>3, <3>1, <3>2, <3>3 DEF Follows
  <2> QED
    BY <2>1, <2>3, <2>5, <2>6, EndsHere
<1>4. CASE n = 3
  <2>1. st = Must("restart", {"started"}) /\ st.cmd = "restart"
    BY <1>4, InstallProgram DEF Must
  <2>2. PICK g : g = Started(h, h.loaded)
    OBVIOUS
  <2>3. o = Broke(h) \/ o = Broke(Halted(h)) \/ (h.loaded # None /\ o = Done(g))
        \/ (h.loaded = None /\ o = Failed(h))
    BY <2>1, <2>2, SystemctlOutcomes
  <2>4. g \in Host /\ Looks(g, h.reg, h.loaded, h.enabled, h.blocked, "starting", h.loaded)
    BY <2>2, StartedFrom DEF HostGood, Host
  <2>5. CASE o = Broke(Halted(h))
    BY <2>1, <2>5, EndsHalted
  <2>6. CASE h.loaded # None /\ o = Done(g)
    <3>1. o.host = g /\ o.by = "host" /\ Recorded(st, o) = {"started"}
          /\ After(st, o, 0) = "ok"
      BY <2>1, <2>6 DEF Done, Recorded, After, Must
    <3>2. Leaves("install", 3, h, new, g, {"started"})
      BY <2>4, <2>6 DEF Leaves, HostGood, Looks, Effect
    <3>3. OnCourse("install", "exec", 3, h, new, done, broke) =>
              OnCourse("install", "ok", 4, g, new, done \cup {"started"}, broke)
      BY <2>4, <2>6 DEF OnCourse, Looks, EffectsOf, True, Down, AtBoot, InstallAt, Alive, HostGood
    <3> QED
      BY <1>4, <3>1, <3>2, <3>3 DEF Follows
  <2>7. CASE h.loaded = None /\ o = Failed(h)
    <3>1. o.host = h /\ o.by = "host" /\ Recorded(st, o) = {}
          /\ After(st, o, 0) = "failed"
      BY <2>1, <2>7 DEF Failed, Recorded, After, Must
    <3>2. Leaves("install", 3, h, new, h, {})
      BY <2>7 DEF Leaves, HostGood, Looks, Effect
    <3>3. OnCourse("install", "exec", 3, h, new, done, broke) =>
              OnCourse("install", "failed", 4, h, new, done \cup {}, broke)
      BY <2>7 DEF OnCourse, Looks, EffectsOf, True, Down, AtBoot, InstallAt, Alive, HostGood
    <3> QED
      BY <1>4, <3>1, <3>2, <3>3 DEF Follows
  <2> QED
    BY <2>1, <2>3, <2>5, <2>6, <2>7, EndsHere
<1> QED
  BY <1>1, <1>2, <1>3, <1>4

(* One command of an install under launchd. *)
LEMMA LaunchdInstalls ==
    ASSUME None \notin Reg, platform = "launchd", NEW h, HostGood(h), NEW new \in Reg,
           NEW done \in SUBSET Effect, NEW broke \in BOOLEAN,
           NEW n \in 0 .. 3, NEW rest, rest = 4 - n - 1, NEW st,
           st = Program("install")[n + 1],
           NEW o \in Outcomes(st.cmd, h, new)
    PROVE  Follows("install", n, rest, st, h, new, done, broke, o)
<1>1. CASE n = 0
  <2>1. st = Must("write", {"written"}) /\ st.cmd = "write"
    BY <1>1, InstallProgram DEF Must
  <2>2. PICK g : g = [h EXCEPT !.reg = new]
    OBVIOUS
  <2>3. o = Broke(h) \/ o = Done(g)
    BY <2>1, <2>2, LaunchctlOutcomes
  <2>4. g \in Host /\ Looks(g, new, h.loaded, h.enabled, h.blocked, h.svc, h.from)
    BY <2>2, RegSet DEF HostGood, Host
  <2>5. CASE o = Done(g)
    <3>1. o.host = g /\ o.by = "host" /\ Recorded(st, o) = {"written"}
          /\ After(st, o, 3) = "exec"
      BY <2>1, <2>5 DEF Done, Recorded, After, Must
    <3>2. Leaves("install", 0, h, new, g, {"written"})
      BY <2>4, <2>5 DEF Leaves, HostGood, Looks, Effect
    <3>3. OnCourse("install", "exec", 0, h, new, done, broke) =>
              OnCourse("install", "exec", 1, g, new, done \cup {"written"}, broke)
      BY <2>4, <2>5 DEF OnCourse, Looks, EffectsOf, True, Down, AtBoot, InstallAt, Alive, HostGood
    <3> QED
      BY <1>1, <3>1, <3>2, <3>3 DEF Follows
  <2> QED
    BY <2>1, <2>3, <2>5, EndsHere
<1>2. CASE n = 1
  <2>1. st = Must("unblock", {}) /\ st.cmd = "unblock"
    BY <1>2, InstallProgram DEF Must
  <2>2. PICK g : g = [h EXCEPT !.blocked = FALSE]
    OBVIOUS
  <2>3. o = Broke(h) \/ o = Done(g)
    BY <2>1, <2>2, LaunchctlOutcomes
  <2>4. g \in Host /\ Looks(g, h.reg, h.loaded, h.enabled, FALSE, h.svc, h.from)
    BY <2>2, BlockedSet DEF HostGood, Host
  <2>5. CASE o = Done(g)
    <3>1. o.host = g /\ o.by = "host" /\ Recorded(st, o) = {}
          /\ After(st, o, 2) = "exec"
      BY <2>1, <2>5 DEF Done, Recorded, After, Must
    <3>2. Leaves("install", 1, h, new, g, {})
      BY <2>4, <2>5 DEF Leaves, HostGood, Looks, Effect
    <3>3. OnCourse("install", "exec", 1, h, new, done, broke) =>
              OnCourse("install", "exec", 2, g, new, done \cup {}, broke)
      BY <2>4, <2>5 DEF OnCourse, Looks, EffectsOf, True, Down, AtBoot, InstallAt, Alive, HostGood
    <3> QED
      BY <1>2, <3>1, <3>2, <3>3 DEF Follows
  <2> QED
    BY <2>1, <2>3, <2>5, EndsHere
<1>3. CASE n = 2
  <2>1. st = Try("bootout", {}) /\ st.cmd = "bootout"
    BY <1>3, InstallProgram DEF Try
  <2>2. PICK k : k = [h EXCEPT !.loaded = None]
    OBVIOUS
  <2>3. PICK g : g = Halted(k)
    OBVIOUS
  <2>4. o = Broke(h) \/ (h.loaded # None /\ o = Done(g)) \/ (h.loaded = None /\ o = Failed(h))
    BY <2>1, <2>2, <2>3, LaunchctlOutcomes
  <2>5. k \in Host /\ Looks(k, h.reg, None, h.enabled, h.blocked, h.svc, h.from)
    BY <2>2, LoadedSet DEF HostGood, Host
  <2>6. g \in Host /\ Looks(g, h.reg, None, h.enabled, h.blocked, "none", None)
    BY <2>5, <2>3, HaltedHost DEF HostGood, Host, Looks
  <2>7. CASE o = Broke(h)
    <3>1. o.host = h /\ o.by = "itself" /\ Recorded(st, o) = {}
          /\ After(st, o, 1) = "exec"
      BY <2>1, <2>7 DEF Broke, Recorded, After, Try
    <3>2. Leaves("install", 2, h, new, h, {})
      BY <2>7 DEF Leaves, HostGood, Looks, Effect
    <3>3. OnCourse("install", "exec", 2, h, new, done, broke) =>
              OnCourse("install", "exec", 3, h, new, done \cup {}, broke \/ o.by = "itself")
      BY <2>7, <3>1 DEF OnCourse, Looks, EffectsOf, True, Down, AtBoot, InstallAt, Alive, HostGood
    <3> QED
      BY <1>3, <3>1, <3>2, <3>3 DEF Follows
  <2>8. CASE h.loaded # None /\ o = Done(g)
    <3>1. o.host = g /\ o.by = "host" /\ Recorded(st, o) = {}
          /\ After(st, o, 1) = "exec"
      BY <2>1, <2>8 DEF Done, Recorded, After, Try
    <3>2. Leaves("install", 2, h, new, g, {})
      BY <2>6, <2>8 DEF Leaves, HostGood, Looks, Effect
    <3>3. OnCourse("install", "exec", 2, h, new, done, broke) =>
              OnCourse("install", "exec", 3, g, new, done \cup {}, broke)
      BY <2>6, <2>8 DEF OnCourse, Looks, EffectsOf, True, Down, AtBoot, InstallAt, Alive, HostGood
    <3> QED
      BY <1>3, <3>1, <3>2, <3>3 DEF Follows
  <2>9. CASE h.loaded = None /\ o = Failed(h)
    <3>1. o.host = h /\ o.by = "host" /\ Recorded(st, o) = {}
          /\ After(st, o, 1) = "exec"
      BY <2>1, <2>9 DEF Failed, Recorded, After, Try
    <3>2. Leaves("install", 2, h, new, h, {})
      BY <2>9 DEF Leaves, HostGood, Looks, Effect
    <3>3. OnCourse("install", "exec", 2, h, new, done, broke) =>
              OnCourse("install", "exec", 3, h, new, done \cup {}, broke)
      BY <2>9 DEF OnCourse, Looks, EffectsOf, True, Down, AtBoot, InstallAt, Alive, HostGood
    <3> QED
      BY <1>3, <3>1, <3>2, <3>3 DEF Follows
  <2> QED
    BY <2>4, <2>7, <2>8, <2>9
<1>4. CASE n = 3
  <2>1. st = Must("bootstrap", {"enabled", "started"}) /\ st.cmd = "bootstrap"
    BY <1>4, InstallProgram DEF Must
  <2>2. PICK k : k = [h EXCEPT !.loaded = h.reg]
    OBVIOUS
  <2>3. PICK g : g = Started(k, h.reg)
    OBVIOUS
  <2>4. o = Broke(h) \/ (h.loaded = None /\ h.reg # None /\ ~h.blocked /\ o = Done(g))
        \/ (~(h.loaded = None /\ h.reg # None /\ ~h.blocked) /\ o = Failed(h))
    BY <2>1, <2>2, <2>3, LaunchctlOutcomes
  <2>5. k \in Host /\ Looks(k, h.reg, h.reg, h.enabled, h.blocked, h.svc, h.from)
    BY <2>2, LoadedSet DEF HostGood, Host
  <2>6. g \in Host /\ Looks(g, h.reg, h.reg, h.enabled, h.blocked, "starting", h.reg)
    BY <2>5, <2>3, StartedFrom DEF HostGood, Host, Looks
  <2>7. CASE h.loaded = None /\ h.reg # None /\ ~h.blocked /\ o = Done(g)
    <3>1. o.host = g /\ o.by = "host" /\ Recorded(st, o) = {"enabled", "started"}
          /\ After(st, o, 0) = "ok"
      BY <2>1, <2>7 DEF Done, Recorded, After, Must
    <3>2. Leaves("install", 3, h, new, g, {"enabled", "started"})
      BY <2>6, <2>7 DEF Leaves, HostGood, Looks, Effect
    <3>3. OnCourse("install", "exec", 3, h, new, done, broke) =>
              OnCourse("install", "ok", 4, g, new, done \cup {"enabled", "started"}, broke)
      BY <2>6, <2>7 DEF OnCourse, Looks, EffectsOf, True, Down, AtBoot, InstallAt, Alive, HostGood
    <3> QED
      BY <1>4, <3>1, <3>2, <3>3 DEF Follows
  <2>8. CASE ~(h.loaded = None /\ h.reg # None /\ ~h.blocked) /\ o = Failed(h)
    <3>1. o.host = h /\ o.by = "host" /\ Recorded(st, o) = {}
          /\ After(st, o, 0) = "failed"
      BY <2>1, <2>8 DEF Failed, Recorded, After, Must
    <3>2. Leaves("install", 3, h, new, h, {})
      BY <2>8 DEF Leaves, HostGood, Looks, Effect
    <3>3. OnCourse("install", "exec", 3, h, new, done, broke) =>
              OnCourse("install", "failed", 4, h, new, done \cup {}, broke)
      BY <2>8 DEF OnCourse, Looks, EffectsOf, True, Down, AtBoot, InstallAt, Alive, HostGood
    <3> QED
      BY <1>4, <3>1, <3>2, <3>3 DEF Follows
  <2> QED
    BY <2>1, <2>4, <2>7, <2>8, EndsHere
<1> QED
  BY <1>1, <1>2, <1>3, <1>4

(* One command of an install on BusyBox. *)
LEMMA BusyboxInstalls ==
    ASSUME None \notin Reg, platform = "busybox", NEW h, HostGood(h), NEW new \in Reg,
           NEW done \in SUBSET Effect, NEW broke \in BOOLEAN,
           NEW n \in 0 .. 2, NEW rest, rest = 3 - n - 1, NEW st,
           st = Program("install")[n + 1],
           NEW o \in Outcomes(st.cmd, h, new)
    PROVE  Follows("install", n, rest, st, h, new, done, broke, o)
<1>1. CASE n = 0
  <2>1. st = Must("write", {"written"}) /\ st.cmd = "write"
    BY <1>1, InstallProgram DEF Must
  <2>2. PICK g : g = [h EXCEPT !.reg = new]
    OBVIOUS
  <2>3. o = Broke(h) \/ o = Done(g)
    BY <2>1, <2>2, ScriptOutcomes
  <2>4. g \in Host /\ Looks(g, new, h.loaded, h.enabled, h.blocked, h.svc, h.from)
    BY <2>2, RegSet DEF HostGood, Host
  <2>5. CASE o = Done(g)
    <3>1. o.host = g /\ o.by = "host" /\ Recorded(st, o) = {"written"}
          /\ After(st, o, 2) = "exec"
      BY <2>1, <2>5 DEF Done, Recorded, After, Must
    <3>2. Leaves("install", 0, h, new, g, {"written"})
      BY <2>4, <2>5 DEF Leaves, HostGood, Looks, Effect
    <3>3. OnCourse("install", "exec", 0, h, new, done, broke) =>
              OnCourse("install", "exec", 1, g, new, done \cup {"written"}, broke)
      BY <2>4, <2>5 DEF OnCourse, Looks, EffectsOf, True, Down, AtBoot, InstallAt, Alive, HostGood
    <3> QED
      BY <1>1, <3>1, <3>2, <3>3 DEF Follows
  <2> QED
    BY <2>1, <2>3, <2>5, EndsHere
<1>2. CASE n = 1
  <2>1. st = Must("chmod", {"enabled"}) /\ st.cmd = "chmod"
    BY <1>2, InstallProgram DEF Must
  <2>2. o = Broke(h) \/ (h.reg # None /\ o = Done(h)) \/ (h.reg = None /\ o = Failed(h))
    BY <2>1, ScriptOutcomes
  <2>3. CASE h.reg # None /\ o = Done(h)
    <3>1. o.host = h /\ o.by = "host" /\ Recorded(st, o) = {"enabled"}
          /\ After(st, o, 1) = "exec"
      BY <2>1, <2>3 DEF Done, Recorded, After, Must
    <3>2. Leaves("install", 1, h, new, h, {"enabled"})
      BY <2>3 DEF Leaves, HostGood, Looks, Effect
    <3>3. OnCourse("install", "exec", 1, h, new, done, broke) =>
              OnCourse("install", "exec", 2, h, new, done \cup {"enabled"}, broke)
      BY <2>3 DEF OnCourse, Looks, EffectsOf, True, Down, AtBoot, InstallAt, Alive, HostGood
    <3> QED
      BY <1>2, <3>1, <3>2, <3>3 DEF Follows
  <2>4. CASE h.reg = None /\ o = Failed(h)
    <3>1. o.host = h /\ o.by = "host" /\ Recorded(st, o) = {}
          /\ After(st, o, 1) = "failed"
      BY <2>1, <2>4 DEF Failed, Recorded, After, Must
    <3>2. Leaves("install", 1, h, new, h, {})
      BY <2>4 DEF Leaves, HostGood, Looks, Effect
    <3>3. OnCourse("install", "exec", 1, h, new, done, broke) =>
              OnCourse("install", "failed", 2, h, new, done \cup {}, broke)
      BY <2>4 DEF OnCourse, Looks, EffectsOf, True, Down, AtBoot, InstallAt, Alive, HostGood
    <3> QED
      BY <1>2, <3>1, <3>2, <3>3 DEF Follows
  <2> QED
    BY <2>1, <2>2, <2>3, <2>4, EndsHere
<1>3. CASE n = 2
  <2>1. st = Must("script_restart", {"started"}) /\ st.cmd = "script_restart"
    BY <1>3, InstallProgram DEF Must
  <2>2. PICK g : g = Started(h, h.reg)
    OBVIOUS
  <2>3. o = Broke(h) \/ o = Broke(Halted(h)) \/ (h.reg # None /\ o = Done(g))
        \/ (h.reg = None /\ o = Failed(h))
    BY <2>1, <2>2, ScriptOutcomes
  <2>7. CASE o = Broke(Halted(h))
    BY <2>1, <2>7, EndsHalted
  <2>4. g \in Host /\ Looks(g, h.reg, h.loaded, h.enabled, h.blocked, "starting", h.reg)
    BY <2>2, StartedFrom DEF HostGood, Host
  <2>5. CASE h.reg # None /\ o = Done(g)
    <3>1. o.host = g /\ o.by = "host" /\ Recorded(st, o) = {"started"}
          /\ After(st, o, 0) = "ok"
      BY <2>1, <2>5 DEF Done, Recorded, After, Must
    <3>2. Leaves("install", 2, h, new, g, {"started"})
      BY <2>4, <2>5 DEF Leaves, HostGood, Looks, Effect
    <3>3. OnCourse("install", "exec", 2, h, new, done, broke) =>
              OnCourse("install", "ok", 3, g, new, done \cup {"started"}, broke)
      BY <2>4, <2>5 DEF OnCourse, Looks, EffectsOf, True, Down, AtBoot, InstallAt, Alive, HostGood
    <3> QED
      BY <1>3, <3>1, <3>2, <3>3 DEF Follows
  <2>6. CASE h.reg = None /\ o = Failed(h)
    <3>1. o.host = h /\ o.by = "host" /\ Recorded(st, o) = {}
          /\ After(st, o, 0) = "failed"
      BY <2>1, <2>6 DEF Failed, Recorded, After, Must
    <3>2. Leaves("install", 2, h, new, h, {})
      BY <2>6 DEF Leaves, HostGood, Looks, Effect
    <3>3. OnCourse("install", "exec", 2, h, new, done, broke) =>
              OnCourse("install", "failed", 3, h, new, done \cup {}, broke)
      BY <2>6 DEF OnCourse, Looks, EffectsOf, True, Down, AtBoot, InstallAt, Alive, HostGood
    <3> QED
      BY <1>3, <3>1, <3>2, <3>3 DEF Follows
  <2> QED
    BY <2>1, <2>3, <2>5, <2>6, <2>7, EndsHere
<1> QED
  BY <1>1, <1>2, <1>3

(* One command of an install on Windows. *)
LEMMA WindowsInstalls ==
    ASSUME None \notin Reg, platform = "windows", NEW h, HostGood(h), NEW new \in Reg,
           NEW done \in SUBSET Effect, NEW broke \in BOOLEAN,
           NEW n \in 0 .. 2, NEW rest, rest = 3 - n - 1, NEW st,
           st = Program("install")[n + 1],
           NEW o \in Outcomes(st.cmd, h, new)
    PROVE  Follows("install", n, rest, st, h, new, done, broke, o)
<1>1. CASE n = 0
  <2>1. st = Must("whoami", {}) /\ st.cmd = "whoami"
    BY <1>1, InstallProgram DEF Must
  <2>2. o = Broke(h) \/ o = Idle(h)
    BY <2>1, SchtasksOutcomes
  <2>3. CASE o = Idle(h)
    <3>1. o.host = h /\ o.by = "host" /\ Recorded(st, o) = {}
          /\ After(st, o, 2) = "exec"
      BY <2>1, <2>3 DEF Idle, Recorded, After, Must
    <3>2. Leaves("install", 0, h, new, h, {})
      BY <2>3 DEF Leaves, HostGood, Looks, Effect
    <3>3. OnCourse("install", "exec", 0, h, new, done, broke) =>
              OnCourse("install", "exec", 1, h, new, done \cup {}, broke)
      BY <2>3 DEF OnCourse, Looks, EffectsOf, True, Down, AtBoot, InstallAt, Alive, HostGood
    <3> QED
      BY <1>1, <3>1, <3>2, <3>3 DEF Follows
  <2> QED
    BY <2>1, <2>2, <2>3, EndsHere
<1>2. CASE n = 1
  <2>1. st = Must("create", {"enabled"}) /\ st.cmd = "create"
    BY <1>2, InstallProgram DEF Must
  <2>2. PICK g : g = [h EXCEPT !.reg = new, !.loaded = new]
    OBVIOUS
  <2>3. o = Broke(h) \/ o = Done(g)
    BY <2>1, <2>2, SchtasksOutcomes
  <2>4. g \in Host /\ Looks(g, new, new, h.enabled, h.blocked, h.svc, h.from)
    BY <2>2, BothSet DEF HostGood, Host
  <2>5. CASE o = Done(g)
    <3>1. o.host = g /\ o.by = "host" /\ Recorded(st, o) = {"enabled"}
          /\ After(st, o, 1) = "exec"
      BY <2>1, <2>5 DEF Done, Recorded, After, Must
    <3>2. Leaves("install", 1, h, new, g, {"enabled"})
      BY <2>4, <2>5 DEF Leaves, HostGood, Looks, Effect
    <3>3. OnCourse("install", "exec", 1, h, new, done, broke) =>
              OnCourse("install", "exec", 2, g, new, done \cup {"enabled"}, broke)
      BY <2>4, <2>5 DEF OnCourse, Looks, EffectsOf, True, Down, AtBoot, InstallAt, Alive, HostGood
    <3> QED
      BY <1>2, <3>1, <3>2, <3>3 DEF Follows
  <2> QED
    BY <2>1, <2>3, <2>5, EndsHere
<1>3. CASE n = 2
  <2>1. st = Must("run", {"started"}) /\ st.cmd = "run"
    BY <1>3, InstallProgram DEF Must
  <2>2. PICK g : g = Started(h, h.reg)
    OBVIOUS
  <2>3. o = Broke(h) \/ (h.reg # None /\ (o = Done(g) \/ o = Done(h)))
        \/ (h.reg = None /\ o = Failed(h))
    BY <2>1, <2>2, SchtasksOutcomes
  <2>4. g \in Host /\ Looks(g, h.reg, h.loaded, h.enabled, h.blocked, "starting", h.reg)
    BY <2>2, StartedFrom DEF HostGood, Host
  <2>5. CASE h.reg # None /\ o = Done(g)
    <3>1. o.host = g /\ o.by = "host" /\ Recorded(st, o) = {"started"}
          /\ After(st, o, 0) = "ok"
      BY <2>1, <2>5 DEF Done, Recorded, After, Must
    <3>2. Leaves("install", 2, h, new, g, {"started"})
      BY <2>4, <2>5 DEF Leaves, HostGood, Looks, Effect
    <3>3. OnCourse("install", "exec", 2, h, new, done, broke) =>
              OnCourse("install", "ok", 3, g, new, done \cup {"started"}, broke)
      BY <2>4, <2>5 DEF OnCourse, Looks, EffectsOf, True, Down, AtBoot, InstallAt, Alive, HostGood
    <3> QED
      BY <1>3, <3>1, <3>2, <3>3 DEF Follows
  <2>6. CASE h.reg # None /\ o = Done(h)
    <3>1. o.host = h /\ o.by = "host" /\ Recorded(st, o) = {"started"}
          /\ After(st, o, 0) = "ok"
      BY <2>1, <2>6 DEF Done, Recorded, After, Must
    <3>2. Leaves("install", 2, h, new, h, {"started"})
      BY <2>6 DEF Leaves, HostGood, Looks, Effect
    <3>3. OnCourse("install", "exec", 2, h, new, done, broke) =>
              OnCourse("install", "ok", 3, h, new, done \cup {"started"}, broke)
      BY <2>6 DEF OnCourse, Looks, EffectsOf, True, Down, AtBoot, InstallAt, Alive, HostGood
    <3> QED
      BY <1>3, <3>1, <3>2, <3>3 DEF Follows
  <2>7. CASE h.reg = None /\ o = Failed(h)
    <3>1. o.host = h /\ o.by = "host" /\ Recorded(st, o) = {}
          /\ After(st, o, 0) = "failed"
      BY <2>1, <2>7 DEF Failed, Recorded, After, Must
    <3>2. Leaves("install", 2, h, new, h, {})
      BY <2>7 DEF Leaves, HostGood, Looks, Effect
    <3>3. OnCourse("install", "exec", 2, h, new, done, broke) =>
              OnCourse("install", "failed", 3, h, new, done \cup {}, broke)
      BY <2>7 DEF OnCourse, Looks, EffectsOf, True, Down, AtBoot, InstallAt, Alive, HostGood
    <3> QED
      BY <1>3, <3>1, <3>2, <3>3 DEF Follows
  <2> QED
    BY <2>1, <2>3, <2>5, <2>6, <2>7, EndsHere
<1> QED
  BY <1>1, <1>2, <1>3

(* One command of an uninstall under systemd. *)
LEMMA SystemdUninstalls ==
    ASSUME None \notin Reg, platform = "systemd", NEW h, HostGood(h), NEW new,
           NEW done \in SUBSET Effect, NEW broke \in BOOLEAN,
           NEW n \in 0 .. 3, NEW rest, rest = 4 - n - 1, NEW st,
           st = Program("uninstall")[n + 1],
           NEW o \in Outcomes(st.cmd, h, new)
    PROVE  Follows("uninstall", n, rest, st, h, new, done, broke, o)
<1>1. CASE n = 0
  <2>1. st = Try("stop", {"stopped"}) /\ st.cmd = "stop"
    BY <1>1, UninstallProgram DEF Try
  <2>2. PICK g : g = Halted(h)
    OBVIOUS
  <2>3. o = Broke(h) \/ ((h.loaded # None \/ Alive(h)) /\ o = Done(g))
        \/ (~(h.loaded # None \/ Alive(h)) /\ o = Failed(h))
    BY <2>1, <2>2, SystemctlOutcomes
  <2>4. g \in Host /\ Looks(g, h.reg, h.loaded, h.enabled, h.blocked, "none", None)
    BY <2>2, HaltedHost DEF HostGood, Host
  <2>5. CASE o = Broke(h)
    <3>1. o.host = h /\ o.by = "itself" /\ Recorded(st, o) = {}
          /\ After(st, o, 3) = "exec"
      BY <2>1, <2>5 DEF Broke, Recorded, After, Try
    <3>2. Leaves("uninstall", 0, h, new, h, {})
      BY <2>5 DEF Leaves, HostGood, Looks, Effect
    <3>3. OnCourse("uninstall", "exec", 0, h, new, done, broke) =>
              OnCourse("uninstall", "exec", 1, h, new, done \cup {}, broke \/ o.by = "itself")
      BY <2>5, <3>1 DEF OnCourse, Looks, EffectsOf, True, Down, AtBoot, UninstallAt, Alive, HostGood
    <3> QED
      BY <1>1, <3>1, <3>2, <3>3 DEF Follows
  <2>6. CASE (h.loaded # None \/ Alive(h)) /\ o = Done(g)
    <3>1. o.host = g /\ o.by = "host" /\ Recorded(st, o) = {"stopped"}
          /\ After(st, o, 3) = "exec"
      BY <2>1, <2>6 DEF Done, Recorded, After, Try
    <3>2. Leaves("uninstall", 0, h, new, g, {"stopped"})
      BY <2>4, <2>6 DEF Leaves, HostGood, Looks, Effect
    <3>3. OnCourse("uninstall", "exec", 0, h, new, done, broke) =>
              OnCourse("uninstall", "exec", 1, g, new, done \cup {"stopped"}, broke)
      BY <2>4, <2>6 DEF OnCourse, Looks, EffectsOf, True, Down, AtBoot, UninstallAt, Alive, HostGood
    <3> QED
      BY <1>1, <3>1, <3>2, <3>3 DEF Follows
  <2>7. CASE (~(h.loaded # None \/ Alive(h))) /\ o = Failed(h)
    <3>1. o.host = h /\ o.by = "host" /\ Recorded(st, o) = {}
          /\ After(st, o, 3) = "exec"
      BY <2>1, <2>7 DEF Failed, Recorded, After, Try
    <3>2. Leaves("uninstall", 0, h, new, h, {})
      BY <2>7 DEF Leaves, HostGood, Looks, Effect
    <3>3. OnCourse("uninstall", "exec", 0, h, new, done, broke) =>
              OnCourse("uninstall", "exec", 1, h, new, done \cup {}, broke)
      BY <2>7 DEF OnCourse, Looks, EffectsOf, True, Down, AtBoot, UninstallAt, Alive, HostGood
    <3> QED
      BY <1>1, <3>1, <3>2, <3>3 DEF Follows
  <2> QED
    BY <2>3, <2>5, <2>6, <2>7
<1>2. CASE n = 1
  <2>1. st = Try("disable", {"disabled"}) /\ st.cmd = "disable"
    BY <1>2, UninstallProgram DEF Try
  <2>2. PICK g : g = [h EXCEPT !.enabled = FALSE]
    OBVIOUS
  <2>3. o = Broke(h) \/ (h.reg # None /\ o = Done(g)) \/ (h.reg = None /\ o = Failed(h))
    BY <2>1, <2>2, SystemctlOutcomes
  <2>4. g \in Host /\ Looks(g, h.reg, h.loaded, FALSE, h.blocked, h.svc, h.from)
    BY <2>2, EnabledSet DEF HostGood, Host
  <2>5. CASE o = Broke(h)
    <3>1. o.host = h /\ o.by = "itself" /\ Recorded(st, o) = {}
          /\ After(st, o, 2) = "exec"
      BY <2>1, <2>5 DEF Broke, Recorded, After, Try
    <3>2. Leaves("uninstall", 1, h, new, h, {})
      BY <2>5 DEF Leaves, HostGood, Looks, Effect
    <3>3. OnCourse("uninstall", "exec", 1, h, new, done, broke) =>
              OnCourse("uninstall", "exec", 2, h, new, done \cup {}, broke \/ o.by = "itself")
      BY <2>5, <3>1 DEF OnCourse, Looks, EffectsOf, True, Down, AtBoot, UninstallAt, Alive, HostGood
    <3> QED
      BY <1>2, <3>1, <3>2, <3>3 DEF Follows
  <2>6. CASE h.reg # None /\ o = Done(g)
    <3>1. o.host = g /\ o.by = "host" /\ Recorded(st, o) = {"disabled"}
          /\ After(st, o, 2) = "exec"
      BY <2>1, <2>6 DEF Done, Recorded, After, Try
    <3>2. Leaves("uninstall", 1, h, new, g, {"disabled"})
      BY <2>4, <2>6 DEF Leaves, HostGood, Looks, Effect
    <3>3. OnCourse("uninstall", "exec", 1, h, new, done, broke) =>
              OnCourse("uninstall", "exec", 2, g, new, done \cup {"disabled"}, broke)
      BY <2>4, <2>6 DEF OnCourse, Looks, EffectsOf, True, Down, AtBoot, UninstallAt, Alive, HostGood
    <3> QED
      BY <1>2, <3>1, <3>2, <3>3 DEF Follows
  <2>7. CASE h.reg = None /\ o = Failed(h)
    <3>1. o.host = h /\ o.by = "host" /\ Recorded(st, o) = {}
          /\ After(st, o, 2) = "exec"
      BY <2>1, <2>7 DEF Failed, Recorded, After, Try
    <3>2. Leaves("uninstall", 1, h, new, h, {})
      BY <2>7 DEF Leaves, HostGood, Looks, Effect
    <3>3. OnCourse("uninstall", "exec", 1, h, new, done, broke) =>
              OnCourse("uninstall", "exec", 2, h, new, done \cup {}, broke)
      BY <2>7 DEF OnCourse, Looks, EffectsOf, True, Down, AtBoot, UninstallAt, Alive, HostGood
    <3> QED
      BY <1>2, <3>1, <3>2, <3>3 DEF Follows
  <2> QED
    BY <2>3, <2>5, <2>6, <2>7
<1>3. CASE n = 2
  <2>1. st = Must("remove", {"removed"}) /\ st.cmd = "remove"
    BY <1>3, UninstallProgram DEF Must
  <2>2. PICK g : g = [h EXCEPT !.reg = None]
    OBVIOUS
  <2>3. o = Broke(h) \/ (h.reg = None /\ o = Idle(h)) \/ (h.reg # None /\ o = Done(g))
    BY <2>1, <2>2, SystemctlOutcomes
  <2>4. g \in Host /\ Looks(g, None, h.loaded, h.enabled, h.blocked, h.svc, h.from)
    BY <2>2, RegSet DEF HostGood, Host
  <2>5. CASE h.reg = None /\ o = Idle(h)
    <3>1. o.host = h /\ o.by = "host" /\ Recorded(st, o) = {}
          /\ After(st, o, 1) = "exec"
      BY <2>1, <2>5 DEF Idle, Recorded, After, Must
    <3>2. Leaves("uninstall", 2, h, new, h, {})
      BY <2>5 DEF Leaves, HostGood, Looks, Effect
    <3>3. OnCourse("uninstall", "exec", 2, h, new, done, broke) =>
              OnCourse("uninstall", "exec", 3, h, new, done \cup {}, broke)
      BY <2>5 DEF OnCourse, Looks, EffectsOf, True, Down, AtBoot, UninstallAt, Alive, HostGood
    <3> QED
      BY <1>3, <3>1, <3>2, <3>3 DEF Follows
  <2>6. CASE h.reg # None /\ o = Done(g)
    <3>1. o.host = g /\ o.by = "host" /\ Recorded(st, o) = {"removed"}
          /\ After(st, o, 1) = "exec"
      BY <2>1, <2>6 DEF Done, Recorded, After, Must
    <3>2. Leaves("uninstall", 2, h, new, g, {"removed"})
      BY <2>4, <2>6 DEF Leaves, HostGood, Looks, Effect
    <3>3. OnCourse("uninstall", "exec", 2, h, new, done, broke) =>
              OnCourse("uninstall", "exec", 3, g, new, done \cup {"removed"}, broke)
      BY <2>4, <2>6 DEF OnCourse, Looks, EffectsOf, True, Down, AtBoot, UninstallAt, Alive, HostGood
    <3> QED
      BY <1>3, <3>1, <3>2, <3>3 DEF Follows
  <2> QED
    BY <2>1, <2>3, <2>5, <2>6, EndsHere
<1>4. CASE n = 3
  <2>1. st = Must("reload", {}) /\ st.cmd = "reload"
    BY <1>4, UninstallProgram DEF Must
  <2>2. PICK g : g = [h EXCEPT !.loaded = h.reg]
    OBVIOUS
  <2>3. o = Broke(h) \/ o = Done(g)
    BY <2>1, <2>2, SystemctlOutcomes
  <2>4. g \in Host /\ Looks(g, h.reg, h.reg, h.enabled, h.blocked, h.svc, h.from)
    BY <2>2, LoadedSet DEF HostGood, Host
  <2>5. CASE o = Done(g)
    <3>1. o.host = g /\ o.by = "host" /\ Recorded(st, o) = {}
          /\ After(st, o, 0) = "ok"
      BY <2>1, <2>5 DEF Done, Recorded, After, Must
    <3>2. Leaves("uninstall", 3, h, new, g, {})
      BY <2>4, <2>5 DEF Leaves, HostGood, Looks, Effect
    <3>3. OnCourse("uninstall", "exec", 3, h, new, done, broke) =>
              OnCourse("uninstall", "ok", 4, g, new, done \cup {}, broke)
      BY <2>4, <2>5 DEF OnCourse, Looks, EffectsOf, True, Down, AtBoot, UninstallAt, Alive, HostGood
    <3> QED
      BY <1>4, <3>1, <3>2, <3>3 DEF Follows
  <2> QED
    BY <2>1, <2>3, <2>5, EndsHere
<1> QED
  BY <1>1, <1>2, <1>3, <1>4

(* One command of an uninstall under launchd. *)
LEMMA LaunchdUninstalls ==
    ASSUME None \notin Reg, platform = "launchd", NEW h, HostGood(h), NEW new,
           NEW done \in SUBSET Effect, NEW broke \in BOOLEAN,
           NEW n \in 0 .. 1, NEW rest, rest = 2 - n - 1, NEW st,
           st = Program("uninstall")[n + 1],
           NEW o \in Outcomes(st.cmd, h, new)
    PROVE  Follows("uninstall", n, rest, st, h, new, done, broke, o)
<1>1. CASE n = 0
  <2>1. st = Try("bootout", {"stopped", "disabled"}) /\ st.cmd = "bootout"
    BY <1>1, UninstallProgram DEF Try
  <2>2. PICK k : k = [h EXCEPT !.loaded = None]
    OBVIOUS
  <2>3. PICK g : g = Halted(k)
    OBVIOUS
  <2>4. o = Broke(h) \/ (h.loaded # None /\ o = Done(g)) \/ (h.loaded = None /\ o = Failed(h))
    BY <2>1, <2>2, <2>3, LaunchctlOutcomes
  <2>5. k \in Host /\ Looks(k, h.reg, None, h.enabled, h.blocked, h.svc, h.from)
    BY <2>2, LoadedSet DEF HostGood, Host
  <2>6. g \in Host /\ Looks(g, h.reg, None, h.enabled, h.blocked, "none", None)
    BY <2>5, <2>3, HaltedHost DEF HostGood, Host, Looks
  <2>7. CASE o = Broke(h)
    <3>1. o.host = h /\ o.by = "itself" /\ Recorded(st, o) = {}
          /\ After(st, o, 1) = "exec"
      BY <2>1, <2>7 DEF Broke, Recorded, After, Try
    <3>2. Leaves("uninstall", 0, h, new, h, {})
      BY <2>7 DEF Leaves, HostGood, Looks, Effect
    <3>3. OnCourse("uninstall", "exec", 0, h, new, done, broke) =>
              OnCourse("uninstall", "exec", 1, h, new, done \cup {}, broke \/ o.by = "itself")
      BY <2>7, <3>1 DEF OnCourse, Looks, EffectsOf, True, Down, AtBoot, UninstallAt, Alive, HostGood
    <3> QED
      BY <1>1, <3>1, <3>2, <3>3 DEF Follows
  <2>8. CASE h.loaded # None /\ o = Done(g)
    <3>1. o.host = g /\ o.by = "host" /\ Recorded(st, o) = {"stopped", "disabled"}
          /\ After(st, o, 1) = "exec"
      BY <2>1, <2>8 DEF Done, Recorded, After, Try
    <3>2. Leaves("uninstall", 0, h, new, g, {"stopped", "disabled"})
      BY <2>6, <2>8 DEF Leaves, HostGood, Looks, Effect
    <3>3. OnCourse("uninstall", "exec", 0, h, new, done, broke) =>
              OnCourse("uninstall", "exec", 1, g, new, done \cup {"stopped", "disabled"},
                       broke)
      BY <2>6, <2>8 DEF OnCourse, Looks, EffectsOf, True, Down, AtBoot, UninstallAt, Alive, HostGood
    <3> QED
      BY <1>1, <3>1, <3>2, <3>3 DEF Follows
  <2>9. CASE h.loaded = None /\ o = Failed(h)
    <3>1. o.host = h /\ o.by = "host" /\ Recorded(st, o) = {}
          /\ After(st, o, 1) = "exec"
      BY <2>1, <2>9 DEF Failed, Recorded, After, Try
    <3>2. Leaves("uninstall", 0, h, new, h, {})
      BY <2>9 DEF Leaves, HostGood, Looks, Effect
    <3>3. OnCourse("uninstall", "exec", 0, h, new, done, broke) =>
              OnCourse("uninstall", "exec", 1, h, new, done \cup {}, broke)
      BY <2>9 DEF OnCourse, Looks, EffectsOf, True, Down, AtBoot, UninstallAt, Alive, HostGood
    <3> QED
      BY <1>1, <3>1, <3>2, <3>3 DEF Follows
  <2> QED
    BY <2>4, <2>7, <2>8, <2>9
<1>2. CASE n = 1
  <2>1. st = Must("remove", {"removed"}) /\ st.cmd = "remove"
    BY <1>2, UninstallProgram DEF Must
  <2>2. PICK g : g = [h EXCEPT !.reg = None]
    OBVIOUS
  <2>3. o = Broke(h) \/ (h.reg = None /\ o = Idle(h)) \/ (h.reg # None /\ o = Done(g))
    BY <2>1, <2>2, LaunchctlOutcomes
  <2>4. g \in Host /\ Looks(g, None, h.loaded, h.enabled, h.blocked, h.svc, h.from)
    BY <2>2, RegSet DEF HostGood, Host
  <2>5. CASE h.reg = None /\ o = Idle(h)
    <3>1. o.host = h /\ o.by = "host" /\ Recorded(st, o) = {}
          /\ After(st, o, 0) = "ok"
      BY <2>1, <2>5 DEF Idle, Recorded, After, Must
    <3>2. Leaves("uninstall", 1, h, new, h, {})
      BY <2>5 DEF Leaves, HostGood, Looks, Effect
    <3>3. OnCourse("uninstall", "exec", 1, h, new, done, broke) =>
              OnCourse("uninstall", "ok", 2, h, new, done \cup {}, broke)
      BY <2>5 DEF OnCourse, Looks, EffectsOf, True, Down, AtBoot, UninstallAt, Alive, HostGood
    <3> QED
      BY <1>2, <3>1, <3>2, <3>3 DEF Follows
  <2>6. CASE h.reg # None /\ o = Done(g)
    <3>1. o.host = g /\ o.by = "host" /\ Recorded(st, o) = {"removed"}
          /\ After(st, o, 0) = "ok"
      BY <2>1, <2>6 DEF Done, Recorded, After, Must
    <3>2. Leaves("uninstall", 1, h, new, g, {"removed"})
      BY <2>4, <2>6 DEF Leaves, HostGood, Looks, Effect
    <3>3. OnCourse("uninstall", "exec", 1, h, new, done, broke) =>
              OnCourse("uninstall", "ok", 2, g, new, done \cup {"removed"}, broke)
      BY <2>4, <2>6 DEF OnCourse, Looks, EffectsOf, True, Down, AtBoot, UninstallAt, Alive, HostGood
    <3> QED
      BY <1>2, <3>1, <3>2, <3>3 DEF Follows
  <2> QED
    BY <2>1, <2>3, <2>5, <2>6, EndsHere
<1> QED
  BY <1>1, <1>2

(* One command of an uninstall on BusyBox. *)
LEMMA BusyboxUninstalls ==
    ASSUME None \notin Reg, platform = "busybox", NEW h, HostGood(h), NEW new,
           NEW done \in SUBSET Effect, NEW broke \in BOOLEAN,
           NEW n \in 0 .. 1, NEW rest, rest = 2 - n - 1, NEW st,
           st = Program("uninstall")[n + 1],
           NEW o \in Outcomes(st.cmd, h, new)
    PROVE  Follows("uninstall", n, rest, st, h, new, done, broke, o)
<1>1. CASE n = 0
  <2>1. st = Try("script_stop", {"stopped"}) /\ st.cmd = "script_stop"
    BY <1>1, UninstallProgram DEF Try
  <2>2. PICK g : g = Halted(h)
    OBVIOUS
  <2>3. o = Broke(h) \/ (h.reg # None /\ o = Done(g)) \/ (h.reg = None /\ o = Failed(h))
    BY <2>1, <2>2, ScriptOutcomes
  <2>4. g \in Host /\ Looks(g, h.reg, h.loaded, h.enabled, h.blocked, "none", None)
    BY <2>2, HaltedHost DEF HostGood, Host
  <2>5. CASE o = Broke(h)
    <3>1. o.host = h /\ o.by = "itself" /\ Recorded(st, o) = {}
          /\ After(st, o, 1) = "exec"
      BY <2>1, <2>5 DEF Broke, Recorded, After, Try
    <3>2. Leaves("uninstall", 0, h, new, h, {})
      BY <2>5 DEF Leaves, HostGood, Looks, Effect
    <3>3. OnCourse("uninstall", "exec", 0, h, new, done, broke) =>
              OnCourse("uninstall", "exec", 1, h, new, done \cup {}, broke \/ o.by = "itself")
      BY <2>5, <3>1 DEF OnCourse, Looks, EffectsOf, True, Down, AtBoot, UninstallAt, Alive, HostGood
    <3> QED
      BY <1>1, <3>1, <3>2, <3>3 DEF Follows
  <2>6. CASE h.reg # None /\ o = Done(g)
    <3>1. o.host = g /\ o.by = "host" /\ Recorded(st, o) = {"stopped"}
          /\ After(st, o, 1) = "exec"
      BY <2>1, <2>6 DEF Done, Recorded, After, Try
    <3>2. Leaves("uninstall", 0, h, new, g, {"stopped"})
      BY <2>4, <2>6 DEF Leaves, HostGood, Looks, Effect
    <3>3. OnCourse("uninstall", "exec", 0, h, new, done, broke) =>
              OnCourse("uninstall", "exec", 1, g, new, done \cup {"stopped"}, broke)
      BY <2>4, <2>6 DEF OnCourse, Looks, EffectsOf, True, Down, AtBoot, UninstallAt, Alive, HostGood
    <3> QED
      BY <1>1, <3>1, <3>2, <3>3 DEF Follows
  <2>7. CASE h.reg = None /\ o = Failed(h)
    <3>1. o.host = h /\ o.by = "host" /\ Recorded(st, o) = {}
          /\ After(st, o, 1) = "exec"
      BY <2>1, <2>7 DEF Failed, Recorded, After, Try
    <3>2. Leaves("uninstall", 0, h, new, h, {})
      BY <2>7 DEF Leaves, HostGood, Looks, Effect
    <3>3. OnCourse("uninstall", "exec", 0, h, new, done, broke) =>
              OnCourse("uninstall", "exec", 1, h, new, done \cup {}, broke)
      BY <2>7 DEF OnCourse, Looks, EffectsOf, True, Down, AtBoot, UninstallAt, Alive, HostGood
    <3> QED
      BY <1>1, <3>1, <3>2, <3>3 DEF Follows
  <2> QED
    BY <2>3, <2>5, <2>6, <2>7
<1>2. CASE n = 1
  <2>1. st = Must("remove", {"removed"}) /\ st.cmd = "remove"
    BY <1>2, UninstallProgram DEF Must
  <2>2. PICK g : g = [h EXCEPT !.reg = None]
    OBVIOUS
  <2>3. o = Broke(h) \/ (h.reg = None /\ o = Idle(h)) \/ (h.reg # None /\ o = Done(g))
    BY <2>1, <2>2, ScriptOutcomes
  <2>4. g \in Host /\ Looks(g, None, h.loaded, h.enabled, h.blocked, h.svc, h.from)
    BY <2>2, RegSet DEF HostGood, Host
  <2>5. CASE h.reg = None /\ o = Idle(h)
    <3>1. o.host = h /\ o.by = "host" /\ Recorded(st, o) = {}
          /\ After(st, o, 0) = "ok"
      BY <2>1, <2>5 DEF Idle, Recorded, After, Must
    <3>2. Leaves("uninstall", 1, h, new, h, {})
      BY <2>5 DEF Leaves, HostGood, Looks, Effect
    <3>3. OnCourse("uninstall", "exec", 1, h, new, done, broke) =>
              OnCourse("uninstall", "ok", 2, h, new, done \cup {}, broke)
      BY <2>5 DEF OnCourse, Looks, EffectsOf, True, Down, AtBoot, UninstallAt, Alive, HostGood
    <3> QED
      BY <1>2, <3>1, <3>2, <3>3 DEF Follows
  <2>6. CASE h.reg # None /\ o = Done(g)
    <3>1. o.host = g /\ o.by = "host" /\ Recorded(st, o) = {"removed"}
          /\ After(st, o, 0) = "ok"
      BY <2>1, <2>6 DEF Done, Recorded, After, Must
    <3>2. Leaves("uninstall", 1, h, new, g, {"removed"})
      BY <2>4, <2>6 DEF Leaves, HostGood, Looks, Effect
    <3>3. OnCourse("uninstall", "exec", 1, h, new, done, broke) =>
              OnCourse("uninstall", "ok", 2, g, new, done \cup {"removed"}, broke)
      BY <2>4, <2>6 DEF OnCourse, Looks, EffectsOf, True, Down, AtBoot, UninstallAt, Alive, HostGood
    <3> QED
      BY <1>2, <3>1, <3>2, <3>3 DEF Follows
  <2> QED
    BY <2>1, <2>3, <2>5, <2>6, EndsHere
<1> QED
  BY <1>1, <1>2

(* One command of an uninstall on Windows. *)
LEMMA WindowsUninstalls ==
    ASSUME None \notin Reg, platform = "windows", NEW h, HostGood(h), NEW new,
           NEW done \in SUBSET Effect, NEW broke \in BOOLEAN,
           NEW n \in 0 .. 2, NEW rest, rest = 3 - n - 1, NEW st,
           st = Program("uninstall")[n + 1],
           NEW o \in Outcomes(st.cmd, h, new)
    PROVE  Follows("uninstall", n, rest, st, h, new, done, broke, o)
<1>1. CASE n = 0
  <2>1. st = Gate("listed") /\ st.cmd = "listed"
    BY <1>1, UninstallProgram DEF Gate
  <2>2. o = Broke(h) \/ (h.reg = None /\ o = Failed(h)) \/ (h.reg # None /\ o = Idle(h))
    BY <2>1, SchtasksOutcomes
  <2>3. CASE o = Broke(h)
    <3>1. o.host = h /\ o.by = "itself" /\ Recorded(st, o) = {}
          /\ After(st, o, 2) = "failed"
      BY <2>1, <2>3 DEF Broke, Recorded, After, Gate
    <3>2. Leaves("uninstall", 0, h, new, h, {})
      BY <2>3 DEF Leaves, HostGood, Looks, Effect
    <3>3. OnCourse("uninstall", "exec", 0, h, new, done, broke) =>
              OnCourse("uninstall", "failed", 1, h, new, done \cup {}, broke \/ o.by = "itself")
      BY <2>3, <3>1 DEF OnCourse, Looks, EffectsOf, True, Down, AtBoot, UninstallAt, Alive, HostGood
    <3> QED
      BY <1>1, <3>1, <3>2, <3>3 DEF Follows
  <2>4. CASE h.reg = None /\ o = Failed(h)
    <3>1. o.host = h /\ o.by = "host" /\ Recorded(st, o) = {}
          /\ After(st, o, 2) = "ok"
      BY <2>1, <2>4 DEF Failed, Recorded, After, Gate
    <3>2. Leaves("uninstall", 0, h, new, h, {})
      BY <2>4 DEF Leaves, HostGood, Looks, Effect
    <3>3. OnCourse("uninstall", "exec", 0, h, new, done, broke) =>
              OnCourse("uninstall", "ok", 1, h, new, done \cup {}, broke)
      BY <2>4 DEF OnCourse, Looks, EffectsOf, True, Down, AtBoot, UninstallAt, Alive, HostGood
    <3> QED
      BY <1>1, <3>1, <3>2, <3>3 DEF Follows
  <2>5. CASE h.reg # None /\ o = Idle(h)
    <3>1. o.host = h /\ o.by = "host" /\ Recorded(st, o) = {}
          /\ After(st, o, 2) = "exec"
      BY <2>1, <2>5 DEF Idle, Recorded, After, Gate
    <3>2. Leaves("uninstall", 0, h, new, h, {})
      BY <2>5 DEF Leaves, HostGood, Looks, Effect
    <3>3. OnCourse("uninstall", "exec", 0, h, new, done, broke) =>
              OnCourse("uninstall", "exec", 1, h, new, done \cup {}, broke)
      BY <2>5 DEF OnCourse, Looks, EffectsOf, True, Down, AtBoot, UninstallAt, Alive, HostGood
    <3> QED
      BY <1>1, <3>1, <3>2, <3>3 DEF Follows
  <2> QED
    BY <2>2, <2>3, <2>4, <2>5
<1>2. CASE n = 1
  <2>1. st = Try("try_end", {"stopped"}) /\ st.cmd = "try_end"
    BY <1>2, UninstallProgram DEF Try
  <2>2. PICK g : g = [h EXCEPT !.svc = "stopping"]
    OBVIOUS
  <2>3. o = Broke(h) \/ (h.reg # None /\ Alive(h) /\ o = Done(g))
        \/ (~(h.reg # None /\ Alive(h)) /\ o = Failed(h))
    BY <2>1, <2>2, SchtasksOutcomes
  <2>4. g \in Host /\ Looks(g, h.reg, h.loaded, h.enabled, h.blocked, "stopping", h.from)
    BY <2>2, SvcSet DEF HostGood, Host
  <2>5. CASE o = Broke(h)
    <3>1. o.host = h /\ o.by = "itself" /\ Recorded(st, o) = {}
          /\ After(st, o, 1) = "exec"
      BY <2>1, <2>5 DEF Broke, Recorded, After, Try
    <3>2. Leaves("uninstall", 1, h, new, h, {})
      BY <2>5 DEF Leaves, HostGood, Looks, Effect
    <3>3. OnCourse("uninstall", "exec", 1, h, new, done, broke) =>
              OnCourse("uninstall", "exec", 2, h, new, done \cup {}, broke \/ o.by = "itself")
      BY <2>5, <3>1 DEF OnCourse, Looks, EffectsOf, True, Down, AtBoot, UninstallAt, Alive, HostGood
    <3> QED
      BY <1>2, <3>1, <3>2, <3>3 DEF Follows
  <2>6. CASE h.reg # None /\ Alive(h) /\ o = Done(g)
    <3>1. o.host = g /\ o.by = "host" /\ Recorded(st, o) = {"stopped"}
          /\ After(st, o, 1) = "exec"
      BY <2>1, <2>6 DEF Done, Recorded, After, Try
    <3>2. Leaves("uninstall", 1, h, new, g, {"stopped"})
      BY <2>4, <2>6 DEF Leaves, HostGood, Looks, Effect
    <3>3. OnCourse("uninstall", "exec", 1, h, new, done, broke) =>
              OnCourse("uninstall", "exec", 2, g, new, done \cup {"stopped"}, broke)
      BY <2>4, <2>6 DEF OnCourse, Looks, EffectsOf, True, Down, AtBoot, UninstallAt, Alive, HostGood
    <3> QED
      BY <1>2, <3>1, <3>2, <3>3 DEF Follows
  <2>7. CASE ~(h.reg # None /\ Alive(h)) /\ o = Failed(h)
    <3>1. o.host = h /\ o.by = "host" /\ Recorded(st, o) = {}
          /\ After(st, o, 1) = "exec"
      BY <2>1, <2>7 DEF Failed, Recorded, After, Try
    <3>2. Leaves("uninstall", 1, h, new, h, {})
      BY <2>7 DEF Leaves, HostGood, Looks, Effect
    <3>3. OnCourse("uninstall", "exec", 1, h, new, done, broke) =>
              OnCourse("uninstall", "exec", 2, h, new, done \cup {}, broke)
      BY <2>7 DEF OnCourse, Looks, EffectsOf, True, Down, AtBoot, UninstallAt, Alive, HostGood
    <3> QED
      BY <1>2, <3>1, <3>2, <3>3 DEF Follows
  <2> QED
    BY <2>3, <2>5, <2>6, <2>7
<1>3. CASE n = 2
  <2>1. st = Must("delete", {"disabled"}) /\ st.cmd = "delete"
    BY <1>3, UninstallProgram DEF Must
  <2>2. PICK g : g = [h EXCEPT !.reg = None, !.loaded = None]
    OBVIOUS
  <2>3. o = Broke(h) \/ (h.reg # None /\ o = Done(g)) \/ (h.reg = None /\ o = Failed(h))
    BY <2>1, <2>2, SchtasksOutcomes
  <2>4. g \in Host /\ Looks(g, None, None, h.enabled, h.blocked, h.svc, h.from)
    BY <2>2, BothSet DEF HostGood, Host
  <2>5. CASE h.reg # None /\ o = Done(g)
    <3>1. o.host = g /\ o.by = "host" /\ Recorded(st, o) = {"disabled"}
          /\ After(st, o, 0) = "ok"
      BY <2>1, <2>5 DEF Done, Recorded, After, Must
    <3>2. Leaves("uninstall", 2, h, new, g, {"disabled"})
      BY <2>4, <2>5 DEF Leaves, HostGood, Looks, Effect
    <3>3. OnCourse("uninstall", "exec", 2, h, new, done, broke) =>
              OnCourse("uninstall", "ok", 3, g, new, done \cup {"disabled"}, broke)
      BY <2>4, <2>5 DEF OnCourse, Looks, EffectsOf, True, Down, AtBoot, UninstallAt, Alive, HostGood
    <3> QED
      BY <1>3, <3>1, <3>2, <3>3 DEF Follows
  <2>6. CASE h.reg = None /\ o = Failed(h)
    <3>1. o.host = h /\ o.by = "host" /\ Recorded(st, o) = {}
          /\ After(st, o, 0) = "failed"
      BY <2>1, <2>6 DEF Failed, Recorded, After, Must
    <3>2. Leaves("uninstall", 2, h, new, h, {})
      BY <2>6 DEF Leaves, HostGood, Looks, Effect
    <3>3. OnCourse("uninstall", "exec", 2, h, new, done, broke) =>
              OnCourse("uninstall", "failed", 3, h, new, done \cup {}, broke)
      BY <2>6 DEF OnCourse, Looks, EffectsOf, True, Down, AtBoot, UninstallAt, Alive, HostGood
    <3> QED
      BY <1>3, <3>1, <3>2, <3>3 DEF Follows
  <2> QED
    BY <2>1, <2>3, <2>5, <2>6, EndsHere
<1> QED
  BY <1>1, <1>2, <1>3

-----------------------------------------------------------------------------
(* The other verbs report starts and stops, nothing else. *)
LEMMA OthersOnCourse ==
    ASSUME NEW verb \in {"start", "stop", "restart", "status"}, NEW n \in Nat, NEW rest,
           NEW st,
           NEW h, NEW new, NEW done \in SUBSET Effect, NEW broke \in BOOLEAN, NEW o,
           o.by \in {"host", "itself"},
           Recorded(st, o) \in {{}, {"started"}, {"stopped"}},
           Leaves(verb, n, h, new, o.host, Recorded(st, o))
    PROVE  Follows(verb, n, rest, st, h, new, done, broke, o)
<1>1. ASSUME NEW g, NEW said \in {{}, {"started"}, {"stopped"}},
             Leaves(verb, n, h, new, g, said),
             OnCourse(verb, "exec", n, h, new, done, broke)
      PROVE  EffectsOf(verb, done \cup said) /\ True(done \cup said, g, new)
  BY <1>1 DEF OnCourse, EffectsOf, True, Down, Leaves
<1> QED
  BY <1>1 DEF Follows, OnCourse

(* One command of the other verbs under systemd. *)
LEMMA SystemdOthers ==
    ASSUME None \notin Reg, platform = "systemd",
           NEW verb \in {"start", "stop", "restart", "status"},
           NEW h, HostGood(h), NEW new, NEW done \in SUBSET Effect, NEW broke \in BOOLEAN,
           NEW n \in Nat, NEW rest, NEW st \in OtherSteps[platform],
           NEW o \in Outcomes(st.cmd, h, new)
    PROVE  Follows(verb, n, rest, st, h, new, done, broke, o)
<1>0. OtherSteps[platform] = {Must("start", {"started"}), Must("stop", {"stopped"}),
                              Must("restart", {"started"}), Must("show", {})}
  BY DEF OtherSteps
<1>1. CASE st = Must("start", {"started"})
  <2>1. st.cmd = "start"
    BY <1>1 DEF Must
  <2>2. PICK g : g = Started(h, h.loaded)
    OBVIOUS
  <2>3. \/ o = Broke(h)
        \/ (h.loaded # None /\ o = Done(g))
        \/ (h.loaded # None /\ o = Done(h))
        \/ o = Failed(h)
    BY <2>1, <2>2, SystemctlOutcomes
  <2>4. g \in Host /\ Looks(g, h.reg, h.loaded, h.enabled, h.blocked, "starting", h.loaded)
    BY <2>2, StartedFrom DEF HostGood, Host
  <2>5. CASE h.loaded # None /\ o = Done(g)
    <3>1. o.host = g /\ o.by = "host" /\ Recorded(st, o) = {"started"}
      BY <1>1, <2>5 DEF Done, Recorded, Must
    <3>2. Leaves(verb, n, h, new, g, {"started"})
      BY <2>4, <2>5 DEF Leaves, HostGood, Looks, Effect
    <3> QED
      BY <3>1, <3>2, OthersOnCourse
  <2>6. CASE h.loaded # None /\ o = Done(h)
    <3>1. o.host = h /\ o.by = "host" /\ Recorded(st, o) = {"started"}
      BY <1>1, <2>6 DEF Done, Recorded, Must
    <3>2. Leaves(verb, n, h, new, h, {"started"})
      BY <2>6 DEF Leaves, HostGood, Looks, Effect
    <3> QED
      BY <3>1, <3>2, OthersOnCourse
  <2>7. CASE o = Broke(h) \/ o = Failed(h)
    BY <1>1, <2>7, EndsHere
  <2> QED
    BY <2>3, <2>5, <2>6, <2>7
<1>2. CASE st = Must("stop", {"stopped"})
  <2>1. st.cmd = "stop"
    BY <1>2 DEF Must
  <2>2. PICK g : g = Halted(h)
    OBVIOUS
  <2>3. o = Broke(h) \/ ((h.loaded # None \/ Alive(h)) /\ o = Done(g)) \/ o = Failed(h)
    BY <2>1, <2>2, SystemctlOutcomes
  <2>4. g \in Host /\ Looks(g, h.reg, h.loaded, h.enabled, h.blocked, "none", None)
    BY <2>2, HaltedHost DEF HostGood, Host
  <2>5. CASE (h.loaded # None \/ Alive(h)) /\ o = Done(g)
    <3>1. o.host = g /\ o.by = "host" /\ Recorded(st, o) = {"stopped"}
      BY <1>2, <2>5 DEF Done, Recorded, Must
    <3>2. Leaves(verb, n, h, new, g, {"stopped"})
      BY <2>4, <2>5 DEF Leaves, HostGood, Looks, Effect
    <3> QED
      BY <3>1, <3>2, OthersOnCourse
  <2>6. CASE o = Broke(h) \/ o = Failed(h)
    BY <1>2, <2>6, EndsHere
  <2> QED
    BY <2>3, <2>5, <2>6
<1>3. CASE st = Must("restart", {"started"})
  <2>1. st.cmd = "restart"
    BY <1>3 DEF Must
  <2>2. PICK g : g = Started(h, h.loaded)
    OBVIOUS
  <2>3. o = Broke(h) \/ o = Broke(Halted(h)) \/ (h.loaded # None /\ o = Done(g))
        \/ o = Failed(h)
    BY <2>1, <2>2, SystemctlOutcomes
  <2>4. g \in Host /\ Looks(g, h.reg, h.loaded, h.enabled, h.blocked, "starting", h.loaded)
    BY <2>2, StartedFrom DEF HostGood, Host
  <2>5. CASE h.loaded # None /\ o = Done(g)
    <3>1. o.host = g /\ o.by = "host" /\ Recorded(st, o) = {"started"}
      BY <1>3, <2>5 DEF Done, Recorded, Must
    <3>2. Leaves(verb, n, h, new, g, {"started"})
      BY <2>4, <2>5 DEF Leaves, HostGood, Looks, Effect
    <3> QED
      BY <3>1, <3>2, OthersOnCourse
  <2>6. CASE o = Broke(Halted(h))
    BY <1>3, <2>6, EndsHalted
  <2>7. CASE o = Broke(h) \/ o = Failed(h)
    BY <1>3, <2>7, EndsHere
  <2> QED
    BY <2>3, <2>5, <2>6, <2>7
<1>4. CASE st = Must("show", {})
  <2>1. st.cmd = "show"
    BY <1>4 DEF Must
  <2>2. o = Broke(h) \/ o = Idle(h)
    BY <2>1, SystemctlOutcomes
  <2>3. CASE o = Idle(h)
    <3>1. o.host = h /\ o.by = "host" /\ Recorded(st, o) = {}
      BY <1>4, <2>3 DEF Idle, Recorded, Must
    <3>2. Leaves(verb, n, h, new, h, {})
      BY <2>3 DEF Leaves, HostGood, Looks, Effect
    <3> QED
      BY <3>1, <3>2, OthersOnCourse
  <2>4. CASE o = Broke(h)
    BY <1>4, <2>4, EndsHere
  <2> QED
    BY <2>2, <2>3, <2>4
<1> QED
  BY <1>0, <1>1, <1>2, <1>3, <1>4

(* One command of the other verbs under launchd. *)
LEMMA LaunchdOthers ==
    ASSUME None \notin Reg, platform = "launchd",
           NEW verb \in {"start", "stop", "restart", "status"},
           NEW h, HostGood(h), NEW new, NEW done \in SUBSET Effect, NEW broke \in BOOLEAN,
           NEW n \in Nat, NEW rest, NEW st \in OtherSteps[platform],
           NEW o \in Outcomes(st.cmd, h, new)
    PROVE  Follows(verb, n, rest, st, h, new, done, broke, o)
<1>0. OtherSteps[platform] = {Must("kickstart", {"started"}), Must("kill", {"stopped"}),
                              Must("kickstart_k", {"started"}), Must("show", {})}
  BY DEF OtherSteps
<1>1. CASE st = Must("kickstart", {"started"})
  <2>1. st.cmd = "kickstart"
    BY <1>1 DEF Must
  <2>2. PICK g : g = Started(h, h.loaded)
    OBVIOUS
  <2>3. \/ o = Broke(h)
        \/ (h.loaded # None /\ o = Done(g))
        \/ (h.loaded # None /\ o = Done(h))
        \/ o = Failed(h)
    BY <2>1, <2>2, LaunchctlOutcomes
  <2>4. g \in Host /\ Looks(g, h.reg, h.loaded, h.enabled, h.blocked, "starting", h.loaded)
    BY <2>2, StartedFrom DEF HostGood, Host
  <2>5. CASE h.loaded # None /\ o = Done(g)
    <3>1. o.host = g /\ o.by = "host" /\ Recorded(st, o) = {"started"}
      BY <1>1, <2>5 DEF Done, Recorded, Must
    <3>2. Leaves(verb, n, h, new, g, {"started"})
      BY <2>4, <2>5 DEF Leaves, HostGood, Looks, Effect
    <3> QED
      BY <3>1, <3>2, OthersOnCourse
  <2>6. CASE h.loaded # None /\ o = Done(h)
    <3>1. o.host = h /\ o.by = "host" /\ Recorded(st, o) = {"started"}
      BY <1>1, <2>6 DEF Done, Recorded, Must
    <3>2. Leaves(verb, n, h, new, h, {"started"})
      BY <2>6 DEF Leaves, HostGood, Looks, Effect
    <3> QED
      BY <3>1, <3>2, OthersOnCourse
  <2>7. CASE o = Broke(h) \/ o = Failed(h)
    BY <1>1, <2>7, EndsHere
  <2> QED
    BY <2>3, <2>5, <2>6, <2>7
<1>2. CASE st = Must("kill", {"stopped"})
  <2>1. st.cmd = "kill"
    BY <1>2 DEF Must
  <2>2. PICK g : g = [h EXCEPT !.svc = "stopping"]
    OBVIOUS
  <2>3. \/ o = Broke(h)
        \/ (h.loaded # None /\ o = Done(g))
        \/ (h.loaded # None /\ o = Idle(h))
        \/ o = Failed(h)
    BY <2>1, <2>2, LaunchctlOutcomes
  <2>4. g \in Host /\ Looks(g, h.reg, h.loaded, h.enabled, h.blocked, "stopping", h.from)
    BY <2>2, SvcSet DEF HostGood, Host
  <2>5. CASE h.loaded # None /\ o = Done(g)
    <3>1. o.host = g /\ o.by = "host" /\ Recorded(st, o) = {"stopped"}
      BY <1>2, <2>5 DEF Done, Recorded, Must
    <3>2. Leaves(verb, n, h, new, g, {"stopped"})
      BY <2>4, <2>5 DEF Leaves, HostGood, Looks, Effect
    <3> QED
      BY <3>1, <3>2, OthersOnCourse
  <2>6. CASE h.loaded # None /\ o = Idle(h)
    <3>1. o.host = h /\ o.by = "host" /\ Recorded(st, o) = {}
      BY <1>2, <2>6 DEF Idle, Recorded, Must
    <3>2. Leaves(verb, n, h, new, h, {})
      BY <2>6 DEF Leaves, HostGood, Looks, Effect
    <3> QED
      BY <3>1, <3>2, OthersOnCourse
  <2>7. CASE o = Broke(h) \/ o = Failed(h)
    BY <1>2, <2>7, EndsHere
  <2> QED
    BY <2>3, <2>5, <2>6, <2>7
<1>3. CASE st = Must("kickstart_k", {"started"})
  <2>1. st.cmd = "kickstart_k"
    BY <1>3 DEF Must
  <2>2. PICK g : g = Started(h, h.loaded)
    OBVIOUS
  <2>3. o = Broke(h) \/ o = Broke(Halted(h)) \/ (h.loaded # None /\ o = Done(g))
        \/ o = Failed(h)
    BY <2>1, <2>2, LaunchctlOutcomes
  <2>4. g \in Host /\ Looks(g, h.reg, h.loaded, h.enabled, h.blocked, "starting", h.loaded)
    BY <2>2, StartedFrom DEF HostGood, Host
  <2>5. CASE h.loaded # None /\ o = Done(g)
    <3>1. o.host = g /\ o.by = "host" /\ Recorded(st, o) = {"started"}
      BY <1>3, <2>5 DEF Done, Recorded, Must
    <3>2. Leaves(verb, n, h, new, g, {"started"})
      BY <2>4, <2>5 DEF Leaves, HostGood, Looks, Effect
    <3> QED
      BY <3>1, <3>2, OthersOnCourse
  <2>6. CASE o = Broke(Halted(h))
    BY <1>3, <2>6, EndsHalted
  <2>7. CASE o = Broke(h) \/ o = Failed(h)
    BY <1>3, <2>7, EndsHere
  <2> QED
    BY <2>3, <2>5, <2>6, <2>7
<1>4. CASE st = Must("show", {})
  <2>1. st.cmd = "show"
    BY <1>4 DEF Must
  <2>2. o = Broke(h) \/ o = Idle(h)
    BY <2>1, LaunchctlOutcomes
  <2>3. CASE o = Idle(h)
    <3>1. o.host = h /\ o.by = "host" /\ Recorded(st, o) = {}
      BY <1>4, <2>3 DEF Idle, Recorded, Must
    <3>2. Leaves(verb, n, h, new, h, {})
      BY <2>3 DEF Leaves, HostGood, Looks, Effect
    <3> QED
      BY <3>1, <3>2, OthersOnCourse
  <2>4. CASE o = Broke(h)
    BY <1>4, <2>4, EndsHere
  <2> QED
    BY <2>2, <2>3, <2>4
<1> QED
  BY <1>0, <1>1, <1>2, <1>3, <1>4

(* One command of the other verbs on BusyBox. *)
LEMMA BusyboxOthers ==
    ASSUME None \notin Reg, platform = "busybox",
           NEW verb \in {"start", "stop", "restart", "status"},
           NEW h, HostGood(h), NEW new, NEW done \in SUBSET Effect, NEW broke \in BOOLEAN,
           NEW n \in Nat, NEW rest, NEW st \in OtherSteps[platform],
           NEW o \in Outcomes(st.cmd, h, new)
    PROVE  Follows(verb, n, rest, st, h, new, done, broke, o)
<1>0. OtherSteps[platform] =
          {Must("script_start", {"started"}), Must("script_stop", {"stopped"}),
           Must("script_restart", {"started"}), Must("script_status", {})}
  BY DEF OtherSteps
<1>1. CASE st = Must("script_start", {"started"})
  <2>1. st.cmd = "script_start"
    BY <1>1 DEF Must
  <2>2. PICK g : g = Started(h, h.reg)
    OBVIOUS
  <2>3. \/ o = Broke(h)
        \/ (h.reg # None /\ o = Done(g))
        \/ (h.reg # None /\ o = Done(h))
        \/ o = Failed(h)
    BY <2>1, <2>2, ScriptOutcomes
  <2>4. g \in Host /\ Looks(g, h.reg, h.loaded, h.enabled, h.blocked, "starting", h.reg)
    BY <2>2, StartedFrom DEF HostGood, Host
  <2>5. CASE h.reg # None /\ o = Done(g)
    <3>1. o.host = g /\ o.by = "host" /\ Recorded(st, o) = {"started"}
      BY <1>1, <2>5 DEF Done, Recorded, Must
    <3>2. Leaves(verb, n, h, new, g, {"started"})
      BY <2>4, <2>5 DEF Leaves, HostGood, Looks, Effect
    <3> QED
      BY <3>1, <3>2, OthersOnCourse
  <2>6. CASE h.reg # None /\ o = Done(h)
    <3>1. o.host = h /\ o.by = "host" /\ Recorded(st, o) = {"started"}
      BY <1>1, <2>6 DEF Done, Recorded, Must
    <3>2. Leaves(verb, n, h, new, h, {"started"})
      BY <2>6 DEF Leaves, HostGood, Looks, Effect
    <3> QED
      BY <3>1, <3>2, OthersOnCourse
  <2>7. CASE o = Broke(h) \/ o = Failed(h)
    BY <1>1, <2>7, EndsHere
  <2> QED
    BY <2>3, <2>5, <2>6, <2>7
<1>2. CASE st = Must("script_stop", {"stopped"})
  <2>1. st.cmd = "script_stop"
    BY <1>2 DEF Must
  <2>2. PICK g : g = Halted(h)
    OBVIOUS
  <2>3. o = Broke(h) \/ (h.reg # None /\ o = Done(g)) \/ o = Failed(h)
    BY <2>1, <2>2, ScriptOutcomes
  <2>4. g \in Host /\ Looks(g, h.reg, h.loaded, h.enabled, h.blocked, "none", None)
    BY <2>2, HaltedHost DEF HostGood, Host
  <2>5. CASE h.reg # None /\ o = Done(g)
    <3>1. o.host = g /\ o.by = "host" /\ Recorded(st, o) = {"stopped"}
      BY <1>2, <2>5 DEF Done, Recorded, Must
    <3>2. Leaves(verb, n, h, new, g, {"stopped"})
      BY <2>4, <2>5 DEF Leaves, HostGood, Looks, Effect
    <3> QED
      BY <3>1, <3>2, OthersOnCourse
  <2>6. CASE o = Broke(h) \/ o = Failed(h)
    BY <1>2, <2>6, EndsHere
  <2> QED
    BY <2>3, <2>5, <2>6
<1>3. CASE st = Must("script_restart", {"started"})
  <2>1. st.cmd = "script_restart"
    BY <1>3 DEF Must
  <2>2. PICK g : g = Started(h, h.reg)
    OBVIOUS
  <2>3. o = Broke(h) \/ o = Broke(Halted(h)) \/ (h.reg # None /\ o = Done(g))
        \/ o = Failed(h)
    BY <2>1, <2>2, ScriptOutcomes
  <2>7. CASE o = Broke(Halted(h))
    BY <1>3, <2>7, EndsHalted
  <2>4. g \in Host /\ Looks(g, h.reg, h.loaded, h.enabled, h.blocked, "starting", h.reg)
    BY <2>2, StartedFrom DEF HostGood, Host
  <2>5. CASE h.reg # None /\ o = Done(g)
    <3>1. o.host = g /\ o.by = "host" /\ Recorded(st, o) = {"started"}
      BY <1>3, <2>5 DEF Done, Recorded, Must
    <3>2. Leaves(verb, n, h, new, g, {"started"})
      BY <2>4, <2>5 DEF Leaves, HostGood, Looks, Effect
    <3> QED
      BY <3>1, <3>2, OthersOnCourse
  <2>6. CASE o = Broke(h) \/ o = Failed(h)
    BY <1>3, <2>6, EndsHere
  <2> QED
    BY <2>3, <2>5, <2>6, <2>7
<1>4. CASE st = Must("script_status", {})
  <2>1. st.cmd = "script_status"
    BY <1>4 DEF Must
  <2>2. o = Broke(h) \/ (h.reg # None /\ o = Idle(h)) \/ o = Failed(h)
    BY <2>1, ScriptOutcomes
  <2>3. CASE h.reg # None /\ o = Idle(h)
    <3>1. o.host = h /\ o.by = "host" /\ Recorded(st, o) = {}
      BY <1>4, <2>3 DEF Idle, Recorded, Must
    <3>2. Leaves(verb, n, h, new, h, {})
      BY <2>3 DEF Leaves, HostGood, Looks, Effect
    <3> QED
      BY <3>1, <3>2, OthersOnCourse
  <2>4. CASE o = Broke(h) \/ o = Failed(h)
    BY <1>4, <2>4, EndsHere
  <2> QED
    BY <2>2, <2>3, <2>4
<1> QED
  BY <1>0, <1>1, <1>2, <1>3, <1>4

(* One command of the other verbs on Windows. *)
LEMMA WindowsOthers ==
    ASSUME None \notin Reg, platform = "windows",
           NEW verb \in {"start", "stop", "restart", "status"},
           NEW h, HostGood(h), NEW new, NEW done \in SUBSET Effect, NEW broke \in BOOLEAN,
           NEW n \in Nat, NEW rest, NEW st \in OtherSteps[platform],
           NEW o \in Outcomes(st.cmd, h, new)
    PROVE  Follows(verb, n, rest, st, h, new, done, broke, o)
<1>0. OtherSteps[platform] = {Must("listed", {}), Must("run", {"started"}),
                              Must("end", {"stopped"}), Must("wait", {}), Must("show", {})}
  BY DEF OtherSteps
<1>1. CASE st = Must("listed", {})
  <2>1. st.cmd = "listed"
    BY <1>1 DEF Must
  <2>2. o = Broke(h) \/ (h.reg # None /\ o = Idle(h)) \/ o = Failed(h)
    BY <2>1, SchtasksOutcomes
  <2>3. CASE h.reg # None /\ o = Idle(h)
    <3>1. o.host = h /\ o.by = "host" /\ Recorded(st, o) = {}
      BY <1>1, <2>3 DEF Idle, Recorded, Must
    <3>2. Leaves(verb, n, h, new, h, {})
      BY <2>3 DEF Leaves, HostGood, Looks, Effect
    <3> QED
      BY <3>1, <3>2, OthersOnCourse
  <2>4. CASE o = Broke(h) \/ o = Failed(h)
    BY <1>1, <2>4, EndsHere
  <2> QED
    BY <2>2, <2>3, <2>4
<1>2. CASE st = Must("run", {"started"})
  <2>1. st.cmd = "run"
    BY <1>2 DEF Must
  <2>2. PICK g : g = Started(h, h.reg)
    OBVIOUS
  <2>3. \/ o = Broke(h)
        \/ (h.reg # None /\ o = Done(g))
        \/ (h.reg # None /\ o = Done(h))
        \/ o = Failed(h)
    BY <2>1, <2>2, SchtasksOutcomes
  <2>4. g \in Host /\ Looks(g, h.reg, h.loaded, h.enabled, h.blocked, "starting", h.reg)
    BY <2>2, StartedFrom DEF HostGood, Host
  <2>5. CASE h.reg # None /\ o = Done(g)
    <3>1. o.host = g /\ o.by = "host" /\ Recorded(st, o) = {"started"}
      BY <1>2, <2>5 DEF Done, Recorded, Must
    <3>2. Leaves(verb, n, h, new, g, {"started"})
      BY <2>4, <2>5 DEF Leaves, HostGood, Looks, Effect
    <3> QED
      BY <3>1, <3>2, OthersOnCourse
  <2>6. CASE h.reg # None /\ o = Done(h)
    <3>1. o.host = h /\ o.by = "host" /\ Recorded(st, o) = {"started"}
      BY <1>2, <2>6 DEF Done, Recorded, Must
    <3>2. Leaves(verb, n, h, new, h, {"started"})
      BY <2>6 DEF Leaves, HostGood, Looks, Effect
    <3> QED
      BY <3>1, <3>2, OthersOnCourse
  <2>7. CASE o = Broke(h) \/ o = Failed(h)
    BY <1>2, <2>7, EndsHere
  <2> QED
    BY <2>3, <2>5, <2>6, <2>7
<1>3. CASE st = Must("end", {"stopped"})
  <2>1. st.cmd = "end"
    BY <1>3 DEF Must
  <2>2. PICK g : g = [h EXCEPT !.svc = "stopping"]
    OBVIOUS
  <2>3. o = Broke(h) \/ o = Done(g) \/ o = Idle(h) \/ o = Failed(h)
    BY <2>1, <2>2, SchtasksOutcomes
  <2>4. g \in Host /\ Looks(g, h.reg, h.loaded, h.enabled, h.blocked, "stopping", h.from)
    BY <2>2, SvcSet DEF HostGood, Host
  <2>5. CASE o = Done(g)
    <3>1. o.host = g /\ o.by = "host" /\ Recorded(st, o) = {"stopped"}
      BY <1>3, <2>5 DEF Done, Recorded, Must
    <3>2. Leaves(verb, n, h, new, g, {"stopped"})
      BY <2>4, <2>5 DEF Leaves, HostGood, Looks, Effect
    <3> QED
      BY <3>1, <3>2, OthersOnCourse
  <2>6. CASE o = Idle(h)
    <3>1. o.host = h /\ o.by = "host" /\ Recorded(st, o) = {}
      BY <1>3, <2>6 DEF Idle, Recorded, Must
    <3>2. Leaves(verb, n, h, new, h, {})
      BY <2>6 DEF Leaves, HostGood, Looks, Effect
    <3> QED
      BY <3>1, <3>2, OthersOnCourse
  <2>7. CASE o = Broke(h) \/ o = Failed(h)
    BY <1>3, <2>7, EndsHere
  <2> QED
    BY <2>3, <2>5, <2>6, <2>7
<1>4. CASE st = Must("wait", {})
  <2>1. st.cmd = "wait"
    BY <1>4 DEF Must
  <2>2. o = Broke(h) \/ o = Idle(h) \/ o = Failed(h)
    BY <2>1, SchtasksOutcomes
  <2>3. CASE o = Idle(h)
    <3>1. o.host = h /\ o.by = "host" /\ Recorded(st, o) = {}
      BY <1>4, <2>3 DEF Idle, Recorded, Must
    <3>2. Leaves(verb, n, h, new, h, {})
      BY <2>3 DEF Leaves, HostGood, Looks, Effect
    <3> QED
      BY <3>1, <3>2, OthersOnCourse
  <2>4. CASE o = Broke(h) \/ o = Failed(h)
    BY <1>4, <2>4, EndsHere
  <2> QED
    BY <2>2, <2>3, <2>4
<1>5. CASE st = Must("show", {})
  <2>1. st.cmd = "show"
    BY <1>5 DEF Must
  <2>2. o = Broke(h) \/ o = Idle(h)
    BY <2>1, SchtasksOutcomes
  <2>3. CASE o = Idle(h)
    <3>1. o.host = h /\ o.by = "host" /\ Recorded(st, o) = {}
      BY <1>5, <2>3 DEF Idle, Recorded, Must
    <3>2. Leaves(verb, n, h, new, h, {})
      BY <2>3 DEF Leaves, HostGood, Looks, Effect
    <3> QED
      BY <3>1, <3>2, OthersOnCourse
  <2>4. CASE o = Broke(h)
    BY <1>5, <2>4, EndsHere
  <2> QED
    BY <2>2, <2>3, <2>4
<1> QED
  BY <1>0, <1>1, <1>2, <1>3, <1>4, <1>5

-----------------------------------------------------------------------------
(* Every command of every verb follows. *)
LEMMA StepFollows ==
    ASSUME ServiceConstants, ServiceInv, NEW p \in Proc, pc[p] = "exec",
           NEW P, P = Program(req[p].verb), NEW st, st = P[step[p] + 1],
           NEW o \in Outcomes(st.cmd, host[plan[p].scope], plan[p].reg)
    PROVE  /\ Follows(req[p].verb, step[p], Len(P) - step[p] - 1, st, host[plan[p].scope],
                      plan[p].reg, applied[p], Broken(p), o)
           /\ Len(P) \in Nat /\ step[p] \in 0 .. 4 /\ step[p] < Len(P)
<1>1. /\ platform \in {"systemd", "launchd", "busybox", "windows"}
      /\ req[p] \in Request /\ step[p] \in Nat /\ step[p] < Len(P)
      /\ plan[p] \in [scope : Scope, reg : Reg \cup {None}]
      /\ req[p].verb = "install" => plan[p].reg \in Reg
  BY DEF ServiceConstants, ServiceInv, TypeOK, PlanOK, Broken
<1>2. PICK h, rest : h = host[plan[p].scope] /\ rest = Len(P) - step[p] - 1
  OBVIOUS
<1>3. HostGood(h) /\ None \notin Reg
  BY <1>1, <1>2 DEF ServiceConstants, ServiceInv, TypeOK, HostOK, HostGood
<1>4. req[p].verb \in Verb
  BY <1>1 DEF Request
<1>0. applied[p] \in SUBSET Effect /\ Broken(p) \in BOOLEAN
  BY DEF ServiceInv, TypeOK, Broken
<1>5. CASE req[p].verb = "install"
  <2>1. P = Program("install") /\ st = Program("install")[step[p] + 1]
    BY <1>5
  <2>6. plan[p].reg \in Reg
    BY <1>1, <1>5
  <2>2. CASE platform = "systemd"
    <3>1. Len(P) = 4
      BY <2>1, <2>2, InstallProgram
    <3>2. step[p] \in 0 .. 3
      BY <1>1, <3>1
    <3>3. rest = 4 - step[p] - 1
      BY <1>2, <3>1
    <3>4. Follows("install", step[p], rest, st, h, plan[p].reg, applied[p], Broken(p), o)
      BY <1>0, <1>2, <1>3, <2>1, <2>6, <2>2, <3>2, <3>3, SystemdInstalls
    <3> QED
      BY <1>2, <1>5, <3>1, <3>2, <3>4
  <2>3. CASE platform = "launchd"
    <3>1. Len(P) = 4
      BY <2>1, <2>3, InstallProgram
    <3>2. step[p] \in 0 .. 3
      BY <1>1, <3>1
    <3>3. rest = 4 - step[p] - 1
      BY <1>2, <3>1
    <3>4. Follows("install", step[p], rest, st, h, plan[p].reg, applied[p], Broken(p), o)
      BY <1>0, <1>2, <1>3, <2>1, <2>6, <2>3, <3>2, <3>3, LaunchdInstalls
    <3> QED
      BY <1>2, <1>5, <3>1, <3>2, <3>4
  <2>4. CASE platform = "busybox"
    <3>1. Len(P) = 3
      BY <2>1, <2>4, InstallProgram
    <3>2. step[p] \in 0 .. 2
      BY <1>1, <3>1
    <3>3. rest = 3 - step[p] - 1
      BY <1>2, <3>1
    <3>4. Follows("install", step[p], rest, st, h, plan[p].reg, applied[p], Broken(p), o)
      BY <1>0, <1>2, <1>3, <2>1, <2>6, <2>4, <3>2, <3>3, BusyboxInstalls
    <3> QED
      BY <1>2, <1>5, <3>1, <3>2, <3>4
  <2>5. CASE platform = "windows"
    <3>1. Len(P) = 3
      BY <2>1, <2>5, InstallProgram
    <3>2. step[p] \in 0 .. 2
      BY <1>1, <3>1
    <3>3. rest = 3 - step[p] - 1
      BY <1>2, <3>1
    <3>4. Follows("install", step[p], rest, st, h, plan[p].reg, applied[p], Broken(p), o)
      BY <1>0, <1>2, <1>3, <2>1, <2>6, <2>5, <3>2, <3>3, WindowsInstalls
    <3> QED
      BY <1>2, <1>5, <3>1, <3>2, <3>4
  <2> QED
    BY <1>1, <2>2, <2>3, <2>4, <2>5
<1>6. CASE req[p].verb = "uninstall"
  <2>1. P = Program("uninstall") /\ st = Program("uninstall")[step[p] + 1]
    BY <1>6
  <2>2. CASE platform = "systemd"
    <3>1. Len(P) = 4
      BY <2>1, <2>2, UninstallProgram
    <3>2. step[p] \in 0 .. 3
      BY <1>1, <3>1
    <3>3. rest = 4 - step[p] - 1
      BY <1>2, <3>1
    <3>4. Follows("uninstall", step[p], rest, st, h, plan[p].reg, applied[p], Broken(p), o)
      BY <1>0, <1>2, <1>3, <2>1, <2>2, <3>2, <3>3, SystemdUninstalls
    <3> QED
      BY <1>2, <1>6, <3>1, <3>2, <3>4
  <2>3. CASE platform = "launchd"
    <3>1. Len(P) = 2
      BY <2>1, <2>3, UninstallProgram
    <3>2. step[p] \in 0 .. 1
      BY <1>1, <3>1
    <3>3. rest = 2 - step[p] - 1
      BY <1>2, <3>1
    <3>4. Follows("uninstall", step[p], rest, st, h, plan[p].reg, applied[p], Broken(p), o)
      BY <1>0, <1>2, <1>3, <2>1, <2>3, <3>2, <3>3, LaunchdUninstalls
    <3> QED
      BY <1>2, <1>6, <3>1, <3>2, <3>4
  <2>4. CASE platform = "busybox"
    <3>1. Len(P) = 2
      BY <2>1, <2>4, UninstallProgram
    <3>2. step[p] \in 0 .. 1
      BY <1>1, <3>1
    <3>3. rest = 2 - step[p] - 1
      BY <1>2, <3>1
    <3>4. Follows("uninstall", step[p], rest, st, h, plan[p].reg, applied[p], Broken(p), o)
      BY <1>0, <1>2, <1>3, <2>1, <2>4, <3>2, <3>3, BusyboxUninstalls
    <3> QED
      BY <1>2, <1>6, <3>1, <3>2, <3>4
  <2>5. CASE platform = "windows"
    <3>1. Len(P) = 3
      BY <2>1, <2>5, UninstallProgram
    <3>2. step[p] \in 0 .. 2
      BY <1>1, <3>1
    <3>3. rest = 3 - step[p] - 1
      BY <1>2, <3>1
    <3>4. Follows("uninstall", step[p], rest, st, h, plan[p].reg, applied[p], Broken(p), o)
      BY <1>0, <1>2, <1>3, <2>1, <2>5, <3>2, <3>3, WindowsUninstalls
    <3> QED
      BY <1>2, <1>6, <3>1, <3>2, <3>4
  <2> QED
    BY <1>1, <2>2, <2>3, <2>4, <2>5
<1>7. CASE req[p].verb \in {"start", "stop", "restart", "status"}
  <2>0. PICK verb : verb = req[p].verb
    OBVIOUS
  <2>1. Len(P) \in 1 .. 5 /\ \A i \in 1 .. Len(P) : P[i] \in OtherSteps[platform]
    BY <1>1, <1>7, <2>0, OtherPrograms
  <2>2. step[p] + 1 \in 1 .. Len(P)
    BY <1>1, <2>1
  <2>3. st \in OtherSteps[platform]
    BY <2>1, <2>2
  <2>4. step[p] \in 0 .. 4 /\ Len(P) \in Nat
    <3>1. Len(P) \in 1 .. 5
      BY <2>1
    <3>2. step[p] \in Nat /\ step[p] < Len(P)
      BY <1>1
    <3> QED
      BY <3>1, <3>2
  <2>5. Follows(verb, step[p], rest, st, h, plan[p].reg, applied[p], Broken(p), o)
    BY <1>0, <1>1, <1>2, <1>3, <1>7, <2>0, <2>3, SystemdOthers, LaunchdOthers,
       BusyboxOthers, WindowsOthers
  <2> QED
    BY <1>1, <1>2, <2>0, <2>4, <2>5
<1> QED
  BY <1>4, <1>5, <1>6, <1>7 DEF Verb

(* What is known of an invocation depends on nothing but the platform. *)
LEMMA SameCourse ==
    ASSUME platform' = platform, NEW verb, NEW where, NEW n, NEW h, NEW new, NEW done,
           NEW broke,
           OnCourse(verb, where, n, h, new, done, broke)
    PROVE  OnCourse(verb, where, n, h, new, done, broke)'
  BY DEF OnCourse, EffectsOf, True, Down, AtBoot, InstallAt, UninstallAt

(* An invocation that is not at work, or not disturbed, and whose part of    *)
(* the state did not change, is where it was.                                *)
LEMMA Bystander ==
    ASSUME NEW q \in Proc, PlanOK(q), platform' = platform, pc'[q] = pc[q], req'[q] = req[q],
           plan'[q] = plan[q], step'[q] = step[q], applied'[q] = applied[q],
           flaky'[q] = flaky[q], quiet'[q] => quiet[q]
    PROVE  /\ PlanOK(q)'
           /\ (quiet[q] => Undisturbed(q)) /\ (quiet'[q] => host' = host)
                 => (quiet'[q] => Undisturbed(q)')
<1>1. PlanOK(q)'
  <2>1. Program(req[q].verb)' = Program(req[q].verb)
    BY DEF Program, Backend, Systemd, SystemdInstall, EnableAndStart, SystemdUninstall,
           Launchd, LaunchdInstall, Load, Busybox, Windows, WindowsStop, WindowsStart,
           WindowsRestart, ShowStatus, Must, Try, Gate
  <2>2. Accepts(req[q])' = Accepts(req[q])
    BY DEF Accepts
  <2> QED
    BY <2>1, <2>2 DEF PlanOK
<1>2. ASSUME quiet[q], quiet'[q], Undisturbed(q), host' = host
      PROVE  Undisturbed(q)'
  <2>1. StillAllowed(q)'
    BY <1>2 DEF Undisturbed, StillAllowed, InstallScope, RetargetAllowed, Existing, PinOf
  <2>2. HostOf(q)' = HostOf(q) /\ Broken(q)' = Broken(q)
    BY <1>2 DEF HostOf, Broken, Accepts
  <2>3. OnCourse(req[q].verb, pc[q], step[q], HostOf(q), plan[q].reg, applied[q],
                 Broken(q))'
    BY <1>2, <2>2, SameCourse DEF Undisturbed
  <2>4. NotEnding(q)'
    BY <1>2, <2>2 DEF Undisturbed, NotEnding
  <2> QED
    BY <2>1, <2>3, <2>4 DEF Undisturbed
<1> QED
  BY <1>1, <1>2

(* A command that starts and reports it leaves a process: a new one, or, if  *)
(* it is not a restart, one that was there.                                  *)
LEMMA StartOutcome ==
    ASSUME NEW h \in Host, NEW new, NEW cmd, NEW o \in Outcomes(cmd, h, new), o.did
    PROVE  /\ \/ platform = "systemd" /\ cmd = "restart"
              \/ platform = "launchd" /\ cmd \in {"bootstrap", "kickstart_k"}
              \/ platform = "busybox" /\ cmd = "script_restart"
              => o.host.svc = "starting"
           /\ \/ platform = "systemd" /\ cmd = "start"
              \/ platform = "launchd" /\ cmd = "kickstart"
              \/ platform = "busybox" /\ cmd = "script_start"
              \/ platform = "windows" /\ cmd = "run"
              => o.host.svc = "starting" \/ (o.host = h /\ Alive(h))
<1>1. \A k, r : k \in Host => Started(k, r).svc = "starting"
  BY DEF Started, Host
<1>2. [h EXCEPT !.loaded = h.reg] \in Host
  BY LoadedSet DEF Host
<1>3. \A k : ~Broke(k).did /\ ~Failed(k).did /\ Done(k).host = k
  BY DEF Broke, Failed, Done
<1>4. ASSUME platform = "systemd", cmd = "restart"
      PROVE  o.host.svc = "starting"
  <2>1. o = Broke(h) \/ o = Broke(Halted(h)) \/ o = Failed(h)
        \/ o = Done(Started(h, h.loaded))
    BY <1>4, SystemctlOutcomes
  <2> QED
    BY <1>1, <1>3, <2>1
<1>5. ASSUME platform = "launchd", cmd = "bootstrap"
      PROVE  o.host.svc = "starting"
  <2>1. o = Broke(h) \/ o = Failed(h)
        \/ o = Done(Started([h EXCEPT !.loaded = h.reg], h.reg))
    BY <1>5, LaunchctlOutcomes
  <2> QED
    BY <1>1, <1>2, <1>3, <2>1
<1>6. ASSUME platform = "launchd", cmd = "kickstart_k"
      PROVE  o.host.svc = "starting"
  <2>1. o = Broke(h) \/ o = Broke(Halted(h)) \/ o = Failed(h)
        \/ o = Done(Started(h, h.loaded))
    BY <1>6, LaunchctlOutcomes
  <2> QED
    BY <1>1, <1>3, <2>1
<1>7. ASSUME platform = "busybox", cmd = "script_restart"
      PROVE  o.host.svc = "starting"
  <2>1. o = Broke(h) \/ o = Broke(Halted(h)) \/ o = Failed(h)
        \/ o = Done(Started(h, h.reg))
    BY <1>7, ScriptOutcomes
  <2> QED
    BY <1>1, <1>3, <2>1
<1>8. ASSUME \/ platform = "systemd" /\ cmd = "start"
             \/ platform = "launchd" /\ cmd = "kickstart"
             \/ platform = "busybox" /\ cmd = "script_start"
             \/ platform = "windows" /\ cmd = "run"
      PROVE  o.host.svc = "starting" \/ (o.host = h /\ Alive(h))
  <2>1. \/ o = Broke(h) \/ o = Failed(h)
        \/ o = Done(IF Alive(h) THEN h ELSE Started(h, h.loaded))
        \/ o = Done(IF Alive(h) THEN h ELSE Started(h, h.reg))
    <3>1. CASE platform = "systemd" /\ cmd = "start"
      BY <3>1, SystemctlOutcomes
    <3>2. CASE platform = "launchd" /\ cmd = "kickstart"
      BY <3>2, LaunchctlOutcomes
    <3>3. CASE platform = "busybox" /\ cmd = "script_start"
      BY <3>3, ScriptOutcomes
    <3>4. CASE platform = "windows" /\ cmd = "run"
      BY <3>4, SchtasksOutcomes
    <3> QED
      BY <1>8, <3>1, <3>2, <3>3, <3>4
  <2> QED
    BY <1>1, <1>3, <2>1
<1> QED
  BY <1>4, <1>5, <1>6, <1>7, <1>8

(* The commands that report a start, and where they are. *)
LEMMA StartsLast ==
    ASSUME platform \in {"systemd", "launchd", "busybox", "windows"},
           NEW verb \in Verb, NEW P, P = Program(verb), NEW n \in Nat, n < Len(P),
           NEW st, st = P[n + 1], "started" \in st.says
    PROVE  /\ n + 1 = Len(P)
           /\ platform = "systemd" => st.cmd \in {"restart", "start"}
           /\ platform = "launchd" =>
                 \/ st.cmd \in {"bootstrap", "kickstart_k"}
                 \/ st.cmd = "kickstart" /\ verb = "start"
           /\ platform = "busybox" => st.cmd \in {"script_restart", "script_start"}
           /\ platform = "windows" =>
                 /\ st.cmd = "run" /\ verb \in {"install", "start", "restart"}
                 /\ verb = "restart" => n > 2
<1>0. \A c, e : /\ Must(c, e).cmd = c /\ Must(c, e).says = e
                /\ Try(c, e).cmd = c /\ Try(c, e).says = e /\ Gate(c).says = {}
  BY DEF Must, Try, Gate
<1>1. CASE verb = "install"
  <2>1. Len(P) \in {3, 4}
    BY <1>1, InstallProgram
  <2>2. n \in {0, 1, 2, 3}
    BY <2>1
  <2>3. CASE platform = "systemd"
    <3>1. n = 3 /\ Len(P) = 4 /\ st.cmd = "restart"
      BY <1>0, <1>1, <2>2, <2>3, InstallProgram
    <3> QED
      BY <2>3, <3>1
  <2>4. CASE platform = "launchd"
    <3>1. n = 3 /\ Len(P) = 4 /\ st.cmd = "bootstrap"
      BY <1>0, <1>1, <2>2, <2>4, InstallProgram
    <3> QED
      BY <2>4, <3>1
  <2>5. CASE platform = "busybox"
    <3>1. n = 2 /\ Len(P) = 3 /\ st.cmd = "script_restart"
      BY <1>0, <1>1, <2>2, <2>5, InstallProgram
    <3> QED
      BY <2>5, <3>1
  <2>6. CASE platform = "windows"
    <3>1. n = 2 /\ Len(P) = 3 /\ st.cmd = "run"
      BY <1>0, <1>1, <2>2, <2>6, InstallProgram
    <3> QED
      BY <1>1, <2>6, <3>1
  <2> QED
    BY <2>3, <2>4, <2>5, <2>6
<1>2. CASE verb = "uninstall"
  <2>1. Len(P) \in {2, 3, 4}
    BY <1>2, UninstallProgram
  <2>2. n \in {0, 1, 2, 3}
    BY <2>1
  <2> QED
    BY <1>0, <1>2, <2>1, <2>2, UninstallProgram
<1>3. CASE verb \in {"start", "stop", "restart", "status"} /\ platform # "windows"
  <2>1. Len(P) = 1 /\ (platform = "launchd" /\ verb # "start" => P[1].cmd # "kickstart")
    BY <1>3, OneCommand
  <2>2. n = 0
    BY <2>1
  <2>3. st \in OtherSteps[platform]
    BY <1>3, <2>1, <2>2, OtherPrograms
  <2>4. CASE platform = "systemd"
    BY <1>0, <2>1, <2>2, <2>3, <2>4 DEF OtherSteps
  <2>5. CASE platform = "launchd"
    BY <1>0, <2>1, <2>2, <2>3, <2>5 DEF OtherSteps
  <2>6. CASE platform = "busybox"
    BY <1>0, <2>1, <2>2, <2>3, <2>6 DEF OtherSteps
  <2> QED
    BY <1>3, <2>4, <2>5, <2>6
<1>4. CASE verb \in {"start", "stop", "restart", "status"} /\ platform = "windows"
  <2>1. CASE verb = "start"
    <3>1. n \in {0, 1} /\ Len(P) = 2
      BY <1>4, <2>1, WindowsPrograms
    <3>2. n = 1 /\ st.cmd = "run"
      BY <1>0, <1>4, <2>1, <3>1, WindowsPrograms
    <3> QED
      BY <1>4, <2>1, <3>1, <3>2
  <2>2. CASE verb = "restart"
    <3>1. n \in {0, 1, 2, 3, 4} /\ Len(P) = 5
      BY <1>4, <2>2, WindowsPrograms
    <3>2. n = 4 /\ st.cmd = "run"
      BY <1>0, <1>4, <2>2, <3>1, WindowsPrograms
    <3> QED
      BY <1>4, <2>2, <3>1, <3>2
  <2>3. CASE verb \in {"stop", "status"}
    <3>1. n \in {0, 1}
      BY <1>4, <2>3, WindowsPrograms
    <3>2. st.says \in {{}, {"stopped"}}
      BY <1>0, <1>4, <2>3, <3>1, WindowsPrograms
    <3> QED
      BY <3>2
  <2> QED
    BY <1>4, <2>1, <2>2, <2>3
<1> QED
  BY <1>1, <1>2, <1>3, <1>4 DEF Verb

(* Before its last command, a start asks Windows whether there is a task, and *)
(* the second half of a restart waits for the role and then asks the same.   *)
LEMMA BeforeStart ==
    ASSUME platform \in {"systemd", "launchd", "busybox", "windows"},
           NEW verb \in {"start", "restart"}, NEW P, P = Program(verb),
           NEW n \in Nat, n + 1 < Len(P), NEW st, st = P[n + 1],
           verb = "restart" => platform = "windows" /\ n > 1
    PROVE  /\ platform = "windows" /\ st.kind = "must"
           /\ \/ st.cmd = "listed" /\ (verb = "start" \/ n > 2)
              \/ st.cmd = "wait"
<1>1. platform = "windows"
  <2>1. SUFFICES ASSUME platform \in {"systemd", "launchd", "busybox"} PROVE FALSE
    OBVIOUS
  <2>2. Len(P) = 1
    BY <2>1, OneCommand
  <2> QED
    BY <2>2
<1>2. CASE verb = "start"
  <2>1. Len(P) = 2 /\ P[1] = Must("listed", {})
    BY <1>1, <1>2, WindowsPrograms
  <2>2. n = 0
    BY <2>1
  <2> QED
    BY <1>1, <1>2, <2>1, <2>2 DEF Must
<1>3. CASE verb = "restart"
  <2>1. Len(P) = 5 /\ P[3] = Must("wait", {}) /\ P[4] = Must("listed", {})
    BY <1>1, <1>3, WindowsPrograms
  <2>2. n \in {2, 3}
    <3>1. n > 1
      BY <1>3
    <3> QED
      BY <2>1, <3>1
  <2> QED
    BY <1>1, <2>1, <2>2 DEF Must
<1> QED
  BY <1>2, <1>3

(* One native command. *)
LEMMA StepKeeps ==
    ASSUME ServiceConstants, ServiceInv, NEW p \in Proc, Step(p)
    PROVE  ServiceInv'
<1> DEFINE program == Program(req[p].verb)
           command == program[step[p] + 1]
           scope == plan[p].scope
<1>0. PICK o \in Outcomes(command.cmd, host[scope], plan[p].reg) :
        /\ host' = [host EXCEPT ![scope] = o.host]
        /\ applied' = [applied EXCEPT ![p] = @ \cup Recorded(command, o)]
        /\ flaky' = [flaky EXCEPT ![p] = @ \/ o.by = "itself"]
        /\ step' = [step EXCEPT ![p] = @ + 1]
        /\ Goto(p, After(command, o, Len(program) - step[p] - 1))
        /\ quiet' = [q \in Proc |-> quiet[q] /\ (q = p \/ o.host = host[scope])]
  BY DEF Step
<1>1. PICK P, st, s : P = program /\ st = command /\ s = scope
  OBVIOUS
<1>2. /\ o \in Outcomes(st.cmd, host[s], plan[p].reg)
      /\ host' = [host EXCEPT ![s] = o.host]
      /\ applied' = [applied EXCEPT ![p] = @ \cup Recorded(st, o)]
      /\ flaky' = [flaky EXCEPT ![p] = @ \/ o.by = "itself"]
      /\ step' = [step EXCEPT ![p] = @ + 1]
      /\ pc' = [pc EXCEPT ![p] = After(st, o, Len(P) - step[p] - 1)]
      /\ quiet' = [q \in Proc |-> quiet[q] /\ (q = p \/ o.host = host[s])]
  BY <1>0, <1>1 DEF Goto
<1>3. pc[p] = "exec" /\ UNCHANGED <<platform, fs, fg, req, plan, events>>
  BY DEF Step
<1>4. /\ Follows(req[p].verb, step[p], Len(P) - step[p] - 1, st, host[s], plan[p].reg,
                 applied[p], Broken(p), o)
      /\ Len(P) \in Nat /\ step[p] \in 0 .. 4 /\ step[p] < Len(P)
  BY <1>1, <1>2, <1>3, StepFollows
<1>5. /\ Leaves(req[p].verb, step[p], host[s], plan[p].reg, o.host, Recorded(st, o))
      /\ o.by \in {"host", "itself"}
  BY <1>4 DEF Follows
<1>6. s \in Scope /\ (platform = "windows" => s = "user")
  BY <1>1, <1>3 DEF ServiceInv, PlanOK
<1>7. HostOK' /\ host' \in [Scope -> Host]
  BY <1>2, <1>3, <1>5, <1>6 DEF Leaves, HostGood, HostOK, ServiceInv, TypeOK, Scope
<1>8. After(st, o, Len(P) - step[p] - 1) \in {"exec", "ok", "failed"}
  BY DEF After
<1>9. step' \in [Proc -> 0 .. 6] /\ applied' \in [Proc -> SUBSET Effect]
  <2>1. step[p] + 1 \in 0 .. 6
    BY <1>4
  <2>2. applied[p] \subseteq Effect /\ Recorded(st, o) \subseteq Effect
    BY <1>5 DEF Leaves, ServiceInv, TypeOK
  <2> QED
    BY <1>2, <2>1, <2>2 DEF ServiceInv, TypeOK
<1>10. quiet' \in [Proc -> BOOLEAN] /\ flaky' \in [Proc -> BOOLEAN]
  BY <1>2 DEF ServiceInv, TypeOK
<1>11. TypeOK'
  BY <1>2, <1>3, <1>7, <1>8, <1>9, <1>10 DEF TypeOK, ServiceInv
<1>12. ASSUME NEW q \in Proc, q # p
       PROVE  PlanOK(q)' /\ (quiet'[q] => Undisturbed(q)')
  <2>1. pc'[q] = pc[q] /\ step'[q] = step[q] /\ applied'[q] = applied[q]
        /\ flaky'[q] = flaky[q]
    BY <1>2, <1>12 DEF ServiceInv, TypeOK
  <2>2. quiet'[q] => quiet[q] /\ o.host = host[s]
    BY <1>2, <1>12 DEF ServiceInv, TypeOK
  <2>3. o.host = host[s] => host' = host
    BY <1>2, <1>6 DEF ServiceInv, TypeOK
  <2> QED
    BY <1>3, <2>1, <2>2, <2>3, Bystander DEF ServiceInv
<1>13. /\ pc'[p] = After(st, o, Len(P) - step[p] - 1) /\ step'[p] = step[p] + 1
       /\ applied'[p] = applied[p] \cup Recorded(st, o)
       /\ flaky'[p] = (flaky[p] \/ o.by = "itself") /\ quiet'[p] = quiet[p]
       /\ HostOf(p)' = o.host /\ HostOf(p) = host[s]
  BY <1>1, <1>2, <1>3, <1>6 DEF ServiceInv, TypeOK, HostOf
<1>14. PlanOK(p)'
  <2>1. P = Program(req[p].verb)'
    BY <1>1, <1>3
    DEF Program, Backend, Systemd, SystemdInstall, EnableAndStart, SystemdUninstall,
        Launchd, LaunchdInstall, Load, Busybox, Windows, WindowsStop, WindowsStart,
        WindowsRestart, ShowStatus, Must, Try, Gate
  <2>2. After(st, o, Len(P) - step[p] - 1) = "exec" => step[p] + 1 < Len(P)
    BY <1>4 DEF After
  <2>3. After(st, o, Len(P) - step[p] - 1) = "exec" => "started" \notin applied'[p]
    <3>1. "started" \in Recorded(st, o) => "started" \in st.says
      BY DEF Recorded
    <3>2. "started" \in st.says => step[p] + 1 = Len(P)
      <4>1. PICK verb, n : verb = req[p].verb /\ n = step[p]
        OBVIOUS
      <4>2. verb \in Verb /\ platform \in {"systemd", "launchd", "busybox", "windows"}
        BY <1>3, <4>1 DEF ServiceInv, PlanOK, Request, TypeOK, ServiceConstants
      <4>3. n \in Nat /\ n < Len(P) /\ P = Program(verb) /\ st = P[n + 1]
        BY <1>1, <1>4, <4>1
      <4> QED
        BY <4>1, <4>2, <4>3, StartsLast
    <3>3. "started" \notin applied[p]
      BY <1>3 DEF ServiceInv, PlanOK
    <3>4. After(st, o, Len(P) - step[p] - 1) = "exec" => "started" \notin Recorded(st, o)
      BY <1>4, <2>2, <3>1, <3>2
    <3> QED
      BY <1>13, <3>3, <3>4
  <2>4. Accepts(req[p])' /\ step'[p] # 0
    BY <1>3, <1>4, <1>13 DEF ServiceInv, PlanOK, Accepts
  <2> QED
    BY <1>3, <1>8, <1>13, <2>1, <2>2, <2>3, <2>4 DEF PlanOK, ServiceInv
<1>15. ASSUME quiet'[p] PROVE Undisturbed(p)'
  <2>1. OnCourse(req[p].verb, "exec", step[p], host[s], plan[p].reg, applied[p], Broken(p))
    BY <1>3, <1>13, <1>15 DEF ServiceInv, Undisturbed, Broken
  <2>2. PICK where, n, done, broke, h :
          /\ where = pc'[p] /\ n = step'[p] /\ done = applied'[p] /\ h = o.host
          /\ broke = (Broken(p) \/ o.by = "itself")
    OBVIOUS
  <2>3. OnCourse(req[p].verb, where, n, h, plan[p].reg, done, broke)
    BY <1>4, <1>13, <2>1, <2>2 DEF Follows
  <2>4. OnCourse(req[p].verb, pc[p], step[p], HostOf(p), plan[p].reg, applied[p],
                 Broken(p))'
    <3>1. Broken(p)' = broke
      <4>1. Accepts(req[p]) /\ flaky[p] \in BOOLEAN
        BY <1>3 DEF ServiceInv, PlanOK, TypeOK
      <4>2. step'[p] # 0
        BY <1>4, <1>13
      <4>3. Broken(p) = flaky[p]
        BY <4>1 DEF Broken
      <4>4. Broken(p)' = flaky'[p]
        BY <1>10, <4>2 DEF Broken
      <4> QED
        BY <1>13, <2>2, <4>3, <4>4
    <3> QED
      BY <1>3, <1>13, <2>2, <2>3, <3>1, SameCourse
  <2>5. StillAllowed(p)'
    BY <1>4, <1>13 DEF StillAllowed
  <2>6. NotEnding(p)'
    <3>1. SUFFICES ASSUME After(st, o, Len(P) - step[p] - 1) = "exec",
                          \/ req[p].verb = "start"
                          \/ platform = "windows" /\ req[p].verb = "restart" /\ step[p] + 1 > 2
                   PROVE  o.host.svc # "stopping"
      BY <1>3, <1>13 DEF NotEnding
    <3>2. NotEnding(p)
      BY <1>13, <1>15 DEF ServiceInv, Undisturbed
    <3>3. PICK verb, m : verb = req[p].verb /\ m = step[p]
      OBVIOUS
    <3>4. platform \in {"systemd", "launchd", "busybox", "windows"}
      BY DEF ServiceInv, TypeOK, ServiceConstants
    <3>5. m \in Nat /\ m + 1 < Len(P) /\ P = Program(verb) /\ st = P[m + 1]
      <4>1. Len(P) - step[p] - 1 # 0
        BY <3>1 DEF After
      <4> QED
        BY <1>1, <1>4, <3>3, <4>1
    <3>6. verb \in {"start", "restart"} /\ (verb = "restart" => platform = "windows" /\ m > 1)
      BY <1>4, <3>1, <3>3
    <3>7. /\ platform = "windows" /\ st.kind = "must"
          /\ (st.cmd = "listed" /\ (verb = "start" \/ m > 2)) \/ st.cmd = "wait"
      BY <3>4, <3>5, <3>6, BeforeStart
    <3>8. PICK g, reg : g = host[s] /\ reg = plan[p].reg
      OBVIOUS
    <3>9. o \in Outcomes(st.cmd, g, reg) /\ o.ok
      BY <1>2, <3>1, <3>7, <3>8 DEF After
    <3>10. CASE st.cmd = "listed" /\ (verb = "start" \/ m > 2)
      <4>1. o = Broke(g) \/ o = Failed(g) \/ o = Idle(g)
        BY <3>7, <3>9, <3>10, SchtasksOutcomes
      <4>2. o.host = g
        BY <4>1 DEF Broke, Failed, Idle
      <4>3. g.svc # "stopping"
        BY <1>3, <1>13, <3>2, <3>3, <3>6, <3>7, <3>8, <3>10 DEF NotEnding
      <4> QED
        BY <4>2, <4>3
    <3>11. CASE st.cmd = "wait"
      <4>1. o = Broke(g) \/ o = Failed(g) \/ (o = Idle(g) /\ ~RoleHeld)
        BY <3>7, <3>9, <3>11, SchtasksOutcomes
      <4>2. o.host = g /\ ~RoleHeld
        BY <3>9, <4>1 DEF Broke, Failed, Idle
      <4> QED
        BY <1>6, <3>8, <4>2 DEF RoleHeld, HeldIn, Holds
    <3> QED
      BY <3>7, <3>10, <3>11
  <2> QED
    BY <2>4, <2>5, <2>6 DEF Undisturbed
<1> QED
  BY <1>3, <1>7, <1>9, <1>11, <1>12, <1>14, <1>15 DEF ServiceInv

(* The processes of the services. None of them changes what is registered,   *)
(* none is told to stop, and one that has been or is gone does not come back *)
(* unless it is a job launchd has loaded.                                    *)
HostSame(h, g) ==
    /\ g.reg = h.reg /\ g.loaded = h.loaded /\ g.enabled = h.enabled /\ g.blocked = h.blocked
    /\ Down(h) => Down(g) \/ (platform = "launchd" /\ h.loaded # None)
    /\ g.svc = "stopping" => h.svc = "stopping"
    /\ Alive(g) => \/ Alive(h) /\ g.from = h.from
                   \/ h.loaded # None /\ g.from = h.loaded /\ ~Alive(h)

(* A change to a service process leaves every invocation on course. *)
LEMMA StaysOnCourse ==
    ASSUME platform' = platform, NEW verb, NEW where, NEW n, NEW h, NEW g, NEW new, NEW done,
           NEW broke, HostSame(h, g), platform = "busybox" => h.loaded = None,
           OnCourse(verb, where, n, h, new, done, broke)
    PROVE  OnCourse(verb, where, n, g, new, done, broke)'
  BY DEF OnCourse, EffectsOf, True, Down, AtBoot, InstallAt, UninstallAt, HostSame, Alive

(* A host that keeps every invocation on course. *)
LEMMA ProcessKeeps ==
    ASSUME ServiceConstants, ServiceInv, NEW s \in Scope, NEW g, HostGood(g),
           HostSame(host[s], g), platform = "windows" /\ s = "system" => g.svc = "none",
           host' = [host EXCEPT ![s] = g],
           UNCHANGED <<platform, pc, req, plan, step, applied, flaky, quiet, fg>>,
           fs' \in [Config \cup User -> FileState],
           \A x \in Config \cup User : fs'[x] \in FileStates[x],
           events' \in 0 .. MaxEvents
    PROVE  ServiceInv'
<1>1. HostOK' /\ host' \in [Scope -> Host]
  BY DEF HostGood, HostOK, ServiceInv, TypeOK, Scope
<1>2. TypeOK' /\ step' \in [Proc -> 0 .. 6]
  BY <1>1 DEF TypeOK, ServiceInv
<1>3. \A q \in Proc : PlanOK(q)'
  BY Bystander DEF ServiceInv
<1>4. ASSUME NEW q \in Proc, quiet[q] PROVE Undisturbed(q)'
  <2>1. plan[q].scope \in Scope
    BY <1>4 DEF ServiceInv, PlanOK
  <2>2. StillAllowed(q)'
    <3>1. host'["system"].reg = host["system"].reg
      BY DEF ServiceInv, TypeOK, Scope, HostSame
    <3>2. StillAllowed(q)
      BY <1>4 DEF ServiceInv, Undisturbed
    <3> QED
      BY <3>1, <3>2 DEF StillAllowed, InstallScope, RetargetAllowed, Existing, PinOf
  <2>3. PICK h, k : h = HostOf(q) /\ k = HostOf(q)'
    OBVIOUS
  <2>4. HostSame(h, k) /\ (platform = "busybox" => h.loaded = None)
    BY <2>1, <2>3 DEF ServiceInv, TypeOK, HostOK, HostOf, HostSame, Alive, Down
  <2>5. Broken(q)' = Broken(q)
    BY DEF Broken, Accepts
  <2>6. OnCourse(req[q].verb, pc[q], step[q], h, plan[q].reg, applied[q],
                 Broken(q))
    BY <1>4, <2>3 DEF ServiceInv, Undisturbed
  <2>7. OnCourse(req[q].verb, pc[q], step[q], HostOf(q), plan[q].reg, applied[q],
                 Broken(q))'
    BY <2>3, <2>4, <2>5, <2>6, StaysOnCourse
  <2>8. NotEnding(q)'
    BY <1>4, <2>3, <2>4 DEF ServiceInv, Undisturbed, NotEnding, HostSame
  <2> QED
    BY <2>2, <2>7, <2>8 DEF Undisturbed
<1> QED
  BY <1>1, <1>2, <1>3, <1>4 DEF ServiceInv

(* The processes. *)
LEMMA LaunchKeeps ==
    ASSUME ServiceConstants, ServiceInv, NEW s \in Scope, Launch(s)
    PROVE  ServiceInv'
<1>1. PICK h : h = host[s]
  OBVIOUS
<1>2. PICK g : g = host'[s]
  OBVIOUS
<1>3. HostGood(h) /\ h.svc = "starting" /\ h.from \in Reg
      /\ ~(platform = "windows" /\ s = "system")
  BY <1>1 DEF Launch, ServiceInv, TypeOK, HostOK, HostGood, Host
<1>4. /\ host' = [host EXCEPT ![s] = g]
      /\ \/ g = Halted(h) \/ g = [h EXCEPT !.svc = "failed"] \/ g = [h EXCEPT !.svc = "up"]
  BY <1>1, <1>2 DEF Launch, Exited, ServiceInv, TypeOK
<1>5. HostGood(g) /\ HostSame(h, g)
  <2>1. CASE g = Halted(h)
    BY <1>3, <2>1, HaltedHost DEF HostGood, HostSame, Looks, Alive, Down
  <2>2. CASE g = [h EXCEPT !.svc = "failed"]
    BY <1>3, <2>2, SvcSet DEF HostGood, HostSame, Looks, Alive, Down
  <2>3. CASE g = [h EXCEPT !.svc = "up"]
    BY <1>3, <2>3, SvcSet DEF HostGood, HostSame, Looks, Alive, Down
  <2> QED
    BY <1>4, <2>1, <2>2, <2>3
<1>6. /\ fs' \in [Config \cup User -> FileState]
      /\ \A x \in Config \cup User : fs'[x] \in FileStates[x]
  <2>1. PICK c : c = h.from.config
    OBVIOUS
  <2>2. c \in Config
    BY <1>3, <2>1 DEF Reg
  <2>3. fs' = fs \/ fs' = [fs EXCEPT ![c].doc = "ok"]
    BY <1>1, <2>1 DEF Launch
  <2>4. PICK v : v = [fs[c] EXCEPT !.doc = "ok"]
    OBVIOUS
  <2>5. v \in FileStates[c] /\ v \in FileState
    BY <2>2, <2>4 DEF ServiceConstants, ServiceInv, TypeOK
  <2>6. [fs EXCEPT ![c].doc = "ok"] = [fs EXCEPT ![c] = v]
    BY <2>4
  <2> QED
    BY <2>2, <2>3, <2>5, <2>6 DEF ServiceInv, TypeOK
<1>7. UNCHANGED <<platform, pc, req, plan, step, applied, flaky, quiet, fg, events>>
  BY DEF Launch, Procs
<1> QED
  BY <1>1, <1>3, <1>4, <1>5, <1>6, <1>7, ProcessKeeps DEF ServiceInv, TypeOK

(* A process that crashes or ends keeps the invariant. *)
LEMMA CrashKeeps ==
    ASSUME ServiceConstants, ServiceInv, NEW s \in Scope, Crash(s) \/ Exit(s)
    PROVE  ServiceInv'
<1>1. PICK h : h = host[s]
  OBVIOUS
<1>2. PICK g : g = host'[s]
  OBVIOUS
<1>3. HostGood(h) /\ h.svc \in {"up", "stopping"} /\ ~(platform = "windows" /\ s = "system")
  BY <1>1 DEF Crash, Exit, ServiceInv, TypeOK, HostOK, HostGood, Host
<1>4. /\ host' = [host EXCEPT ![s] = g]
      /\ \/ g = Halted(h)
         \/ g = [h EXCEPT !.svc = "failed"] /\ (h.svc = "stopping" => platform = "launchd")
  <2>1. CASE Crash(s)
    <3>1. host' = [host EXCEPT ![s] = Exited(h, "error")] /\ h.svc = "up"
      BY <1>1, <2>1 DEF Crash
    <3>2. g = Exited(h, "error")
      BY <1>2, <3>1 DEF ServiceInv, TypeOK
    <3>3. host' = [host EXCEPT ![s] = g]
      BY <3>1, <3>2
    <3>4. g = Halted(h) \/ g = [h EXCEPT !.svc = "failed"]
      BY <3>2 DEF Exited
    <3> QED
      BY <3>1, <3>3, <3>4
  <2>2. CASE Exit(s)
    <3>1. PICK exit \in {"clean", "error"} :
            host' = [host EXCEPT ![s] = IF platform = "windows" THEN Halted(h)
                                        ELSE Exited(h, exit)]
      BY <1>1, <2>2 DEF Exit
    <3>2. g = IF platform = "windows" THEN Halted(h) ELSE Exited(h, exit)
      BY <1>2, <3>1 DEF ServiceInv, TypeOK
    <3>3. host' = [host EXCEPT ![s] = g]
      BY <3>1, <3>2
    <3>4. platform \in {"launchd", "windows"}
      BY <1>1, <1>3, <2>2 DEF Exit, HostGood
    <3>5. g = Halted(h) \/ (g = [h EXCEPT !.svc = "failed"] /\ platform = "launchd")
      BY <3>2, <3>4 DEF Exited
    <3> QED
      BY <3>3, <3>5
  <2> QED
    BY <2>1, <2>2
<1>5. HostGood(g) /\ HostSame(h, g)
  <2>1. CASE g = Halted(h)
    BY <1>3, <2>1, HaltedHost DEF HostGood, HostSame, Looks, Alive, Down
  <2>2. CASE g = [h EXCEPT !.svc = "failed"] /\ (h.svc = "stopping" => platform = "launchd")
    BY <1>3, <2>2, SvcSet DEF HostGood, HostSame, Looks, Alive, Down
  <2> QED
    BY <1>4, <2>1, <2>2
<1>6. UNCHANGED <<platform, pc, req, plan, step, applied, flaky, quiet, fg, fs>>
  BY DEF Crash, Exit, Procs
<1>7. events' \in 0 .. MaxEvents
  BY DEF Crash, Exit, Event, ServiceInv, TypeOK, ServiceConstants
<1> QED
  BY <1>1, <1>3, <1>4, <1>5, <1>6, <1>7, ProcessKeeps DEF ServiceInv, TypeOK

(* A process its manager starts again keeps it. *)
LEMMA RespawnKeeps ==
    ASSUME ServiceConstants, ServiceInv, NEW s \in Scope, Respawn(s)
    PROVE  ServiceInv'
<1>1. PICK h : h = host[s]
  OBVIOUS
<1>2. PICK g : g = Started(h, h.loaded)
  OBVIOUS
<1>3. /\ HostGood(h) /\ h.svc = "failed" /\ h.loaded # None /\ h.loaded \in Reg \cup {None}
      /\ ~(platform = "windows" /\ s = "system")
  BY <1>1 DEF Respawn, ServiceInv, TypeOK, HostOK, HostGood, Host
<1>4. host' = [host EXCEPT ![s] = g]
  BY <1>1, <1>2 DEF Respawn
<1>5. HostGood(g) /\ HostSame(h, g)
  BY <1>2, <1>3, StartedFrom DEF HostGood, HostSame, Looks, Alive, Down
<1>6. UNCHANGED <<platform, pc, req, plan, step, applied, flaky, quiet, fg, fs, events>>
  BY DEF Respawn, Procs
<1> QED
  BY <1>1, <1>3, <1>4, <1>5, <1>6, ProcessKeeps DEF ServiceInv, TypeOK

(* A foreground run that starts or ends keeps it. *)
LEMMA ForegroundKeeps ==
    ASSUME ServiceConstants, ServiceInv, Foreground
    PROVE  ServiceInv'
<1>1. /\ UNCHANGED <<platform, pc, req, plan, step, applied, flaky, quiet, fs, host>>
      /\ fg' \in {"none", "user", "machine"} /\ events' \in 0 .. MaxEvents
  BY DEF Foreground, Procs, Event, ServiceInv, TypeOK, ServiceConstants
<1>2. HostOK' /\ TypeOK' /\ step' \in [Proc -> 0 .. 6]
      /\ fs' \in [Config \cup User -> FileState]
  BY <1>1 DEF HostOK, TypeOK, ServiceInv
<1> QED
  BY <1>1, <1>2, Bystander DEF ServiceInv

(* A change to a file keeps it. *)
LEMMA FileKeeps ==
    ASSUME ServiceConstants, ServiceInv, NEW x \in Config \cup User, FileChanges(x)
    PROVE  ServiceInv'
<1>1. /\ UNCHANGED <<platform, pc, req, plan, step, applied, flaky, quiet, fg, host>>
      /\ events' \in 0 .. MaxEvents
  BY DEF FileChanges, Procs, Event, ServiceInv, TypeOK, ServiceConstants
<1>2. PICK v \in FileStates[x] : fs' = [fs EXCEPT ![x] = v]
  BY DEF FileChanges
<1>3. v \in FileState
  BY DEF ServiceConstants
<1>4. /\ fs' \in [Config \cup User -> FileState]
      /\ \A y \in Config \cup User : fs'[y] \in FileStates[y]
  BY <1>2, <1>3 DEF ServiceInv, TypeOK
<1>5. HostOK' /\ TypeOK' /\ step' \in [Proc -> 0 .. 6]
  BY <1>1, <1>4 DEF HostOK, TypeOK, ServiceInv
<1> QED
  BY <1>1, <1>4, <1>5, Bystander DEF ServiceInv

(* The disable list. *)
LEMMA BlockKeeps ==
    ASSUME ServiceConstants, ServiceInv, NEW s \in Scope, Block(s)
    PROVE  ServiceInv'
<1>1. PICK g : g = [host[s] EXCEPT !.blocked = TRUE]
  OBVIOUS
<1>2. /\ UNCHANGED <<platform, pc, req, plan, step, applied, flaky, fg, fs>>
      /\ events' \in 0 .. MaxEvents /\ quiet' = [p \in Proc |-> FALSE]
      /\ platform = "launchd" /\ host' = [host EXCEPT ![s] = g]
  BY <1>1 DEF Block, Procs, Event, ServiceInv, TypeOK, ServiceConstants
<1>3. g \in Host /\ g.svc = host[s].svc /\ g.from = host[s].from /\ g.loaded = host[s].loaded
  <2>1. host[s] \in Host
    BY DEF ServiceInv, TypeOK
  <2> QED
    BY <1>1, <2>1 DEF Host
<1>4. HostOK' /\ host' \in [Scope -> Host]
  BY <1>2, <1>3 DEF HostOK, ServiceInv, TypeOK, Scope
<1>5. TypeOK' /\ step' \in [Proc -> 0 .. 6] /\ fs' \in [Config \cup User -> FileState]
  BY <1>2, <1>4 DEF TypeOK, ServiceInv
<1>6. ASSUME NEW q \in Proc PROVE PlanOK(q)' /\ ~quiet'[q]
  BY <1>2, Bystander DEF ServiceInv
<1> QED
  BY <1>4, <1>5, <1>6 DEF ServiceInv

-----------------------------------------------------------------------------
(* What an invocation may become before its native commands: it asks, it is  *)
(* refused, or its plan is made.                                             *)
Deciding(p, r, where, decided) ==
    /\ UNCHANGED <<platform, host, fs, fg, step, applied, flaky, events>>
    /\ req' = [req EXCEPT ![p] = r] /\ pc' = [pc EXCEPT ![p] = where]
    /\ plan' = [plan EXCEPT ![p] = decided]

(* An invocation that has only decided is undisturbed by itself. *)
LEMMA DecidingKeeps ==
    ASSUME ServiceConstants, ServiceInv, NEW p \in Proc, NEW r \in Request,
           NEW where \in {"plan", "ask_scope", "ask_user", "ask_retarget", "failed"},
           NEW decided \in [scope : Scope, reg : Reg \cup {None}] \cup Consent \cup {None},
           where = "ask_retarget" => decided \in Consent,
           pc[p] \in {"idle", "plan", "ask_scope", "ask_user", "ask_retarget"},
           Deciding(p, r, where, decided), UNCHANGED quiet
    PROVE  ServiceInv'
<1>1. HostOK' /\ TypeOK' /\ step' \in [Proc -> 0 .. 6]
      /\ fs' \in [Config \cup User -> FileState]
  BY DEF Deciding, HostOK, TypeOK, ServiceInv
<1>2. ASSUME NEW q \in Proc, q # p
      PROVE  PlanOK(q)' /\ (quiet'[q] => Undisturbed(q)')
  <2>1. pc'[q] = pc[q] /\ req'[q] = req[q] /\ plan'[q] = plan[q]
    BY <1>2 DEF Deciding, ServiceInv, TypeOK
  <2> QED
    BY <2>1, Bystander DEF Deciding, ServiceInv
<1>3. PlanOK(p)' /\ ~quiet'[p]
  <2>1. pc'[p] = where /\ req'[p] = r /\ plan'[p] = decided /\ ~quiet[p]
    BY DEF Deciding, ServiceInv, TypeOK, PlanOK
  <2>2. step[p] = 0 /\ applied[p] = {} /\ ~flaky[p]
    BY DEF ServiceInv, PlanOK
  <2> QED
    BY <2>1, <2>2 DEF PlanOK, Deciding
<1> QED
  BY <1>1, <1>2, <1>3 DEF ServiceInv

(* Every verb has a command. *)
LEMMA ProgramNotEmpty ==
    ASSUME platform \in {"systemd", "launchd", "busybox", "windows"}, NEW verb \in Verb
    PROVE  Len(Program(verb)) \in Nat /\ 0 < Len(Program(verb))
<1>1. CASE verb = "install"
  BY <1>1, InstallProgram
<1>2. CASE verb = "uninstall"
  BY <1>2, UninstallProgram
<1>3. CASE verb \in {"start", "stop", "restart", "status"}
  <2>1. Len(Program(verb)) \in 1 .. 5
    BY <1>3, OtherPrograms
  <2> QED
    BY <2>1
<1> QED
  BY <1>1, <1>2, <1>3 DEF Verb

(* A plan that is made starts on course. *)
LEMMA ExecuteKeeps ==
    ASSUME ServiceConstants, ServiceInv, NEW p \in Proc, pc[p] = "plan", NEW s \in Scope,
           NEW reg,
           Execute(p, s, reg), platform = "windows" => s = "user",
           IF req[p].verb = "install" THEN reg \in Reg ELSE reg = None,
           req[p].verb = "install" /\ InstallScope(req[p]) = "system" =>
               RetargetAllowed(Existing, reg, req[p].consent),
           req[p].verb = "start" => ~RoleHeld,
           UNCHANGED req, Decided
    PROVE  ServiceInv'
<1>1. PICK where, sc : /\ where = IF Accepts(req[p]) THEN "exec" ELSE "failed"
                       /\ sc = HostScope(s)
  OBVIOUS
<1>2. /\ pc' = [pc EXCEPT ![p] = where] /\ where \in {"exec", "failed"}
      /\ plan' = [plan EXCEPT ![p] = [scope |-> sc, reg |-> reg]]
      /\ quiet' = [quiet EXCEPT ![p] = TRUE]
      /\ UNCHANGED <<platform, host, fs, fg, req, step, applied, flaky, events>>
  BY <1>1 DEF Execute, Goto, Decided
<1>3. sc \in Scope /\ (platform = "windows" => sc = "user")
  BY <1>1 DEF HostScope, Scope
<1>4. PICK d : d = [scope |-> sc, reg |-> reg]
  OBVIOUS
<1>5. d \in [scope : Scope, reg : Reg \cup {None}] /\ d.scope = sc /\ d.reg = reg
  BY <1>3, <1>4
<1>6. HostOK' /\ TypeOK' /\ step' \in [Proc -> 0 .. 6]
      /\ fs' \in [Config \cup User -> FileState]
  BY <1>2, <1>4, <1>5 DEF HostOK, TypeOK, ServiceInv
<1>7. ASSUME NEW q \in Proc, q # p
      PROVE  PlanOK(q)' /\ (quiet'[q] => Undisturbed(q)')
  <2>1. pc'[q] = pc[q] /\ plan'[q] = plan[q] /\ quiet'[q] = quiet[q]
    BY <1>2, <1>7 DEF ServiceInv, TypeOK
  <2> QED
    BY <1>2, <2>1, Bystander DEF ServiceInv
<1>8. /\ pc'[p] = where /\ req'[p] = req[p] /\ plan'[p] = d /\ quiet'[p]
      /\ step'[p] = 0 /\ applied'[p] = {} /\ ~flaky'[p] /\ req[p] \in Request
  BY <1>2, <1>4 DEF ServiceInv, TypeOK, PlanOK
<1>9. PlanOK(p)'
  <2>1. PICK verb : verb = req[p].verb
    OBVIOUS
  <2>2. verb \in Verb /\ platform \in {"systemd", "launchd", "busybox", "windows"}
    BY <1>8, <2>1 DEF Request, ServiceConstants, ServiceInv, TypeOK
  <2>3. Len(Program(verb)) \in Nat /\ 0 < Len(Program(verb))
    BY <2>2, ProgramNotEmpty
  <2>4. Program(verb)' = Program(verb)
    BY <1>2
    DEF Program, Backend, Systemd, SystemdInstall, EnableAndStart, SystemdUninstall,
        Launchd, LaunchdInstall, Load, Busybox, Windows, WindowsStop, WindowsStart,
        WindowsRestart, ShowStatus, Must, Try, Gate
  <2>5. (step[p] < Len(Program(req[p].verb)))'
    BY <1>8, <2>1, <2>3, <2>4
  <2>6. req[p].verb = "install" => reg # None
    BY DEF ServiceConstants
  <2>7. pc'[p] = "exec" => Accepts(req[p])'
    BY <1>1, <1>2, <1>8 DEF Accepts
  <2> QED
    BY <1>2, <1>3, <1>5, <1>8, <2>5, <2>6, <2>7 DEF PlanOK
<1>10. Undisturbed(p)'
  <2>1. StillAllowed(p)'
    BY <1>2, <1>5, <1>8 DEF StillAllowed, InstallScope, RetargetAllowed, Existing, PinOf
  <2>2. PICK h, broke : h = HostOf(p)' /\ broke = (~Accepts(req[p]))
    OBVIOUS
  <2>3. OnCourse(req[p].verb, where, 0, h, reg, {}, broke)
    <3>1. where = "exec" \/ (where = "failed" /\ broke)
      BY <1>1, <2>2
    <3>2. EffectsOf(req[p].verb, {}) /\ True({}, h, reg)
      BY DEF EffectsOf, True, Down
    <3>3. InstallAt(where, 0, h, reg, broke) /\ UninstallAt(where, 0, h)
      BY <3>1 DEF InstallAt, UninstallAt
    <3> QED
      BY <3>2, <3>3 DEF OnCourse
  <2>4. OnCourse(req[p].verb, where, 0, h, reg, {}, broke)'
    BY <1>2, <2>3, SameCourse
  <2>5. Broken(p)' = broke
    BY <1>2, <1>8, <2>2 DEF Broken, Accepts
  <2>6. NotEnding(p)'
    <3>1. HostOf(p)' = host[sc]
      BY <1>2, <1>5, <1>8 DEF HostOf
    <3>2. ~RoleHeld => host[sc].svc # "stopping"
      BY <1>3 DEF RoleHeld, HeldIn, Holds
    <3> QED
      BY <1>2, <1>8, <3>1, <3>2 DEF NotEnding
  <2> QED
    BY <1>2, <1>5, <1>8, <2>1, <2>2, <2>4, <2>5, <2>6 DEF Undisturbed
<1> QED
  BY <1>6, <1>7, <1>9, <1>10 DEF ServiceInv

(* An invocation begins. *)
LEMMA BeginKeeps ==
    ASSUME ServiceConstants, ServiceInv, NEW p \in Proc, Begin(p)
    PROVE  ServiceInv'
<1>1. PICK r \in Requests[p] : req' = [req EXCEPT ![p] = r]
  BY DEF Begin
<1>2. r \in Request
  BY DEF ServiceConstants
<1>3. plan[p] \in [scope : Scope, reg : Reg \cup {None}] \cup Consent \cup {None}
  BY DEF ServiceInv, TypeOK
<1>4. plan' = [plan EXCEPT ![p] = plan[p]]
  BY DEF Begin, ServiceInv, TypeOK
<1>5. Deciding(p, r, "plan", plan[p]) /\ UNCHANGED quiet /\ pc[p] = "idle"
  BY <1>1, <1>4 DEF Begin, Deciding, Decided, Goto
<1> QED
  BY <1>2, <1>3, <1>5, DecidingKeeps

(* An invocation that asks or is refused. *)
LEMMA WaitsKeeps ==
    ASSUME ServiceConstants, ServiceInv, NEW p \in Proc, NEW r \in Request,
           pc[p] \in {"plan", "ask_scope", "ask_user", "ask_retarget"},
           NEW where \in {"plan", "ask_scope", "ask_user", "failed"},
           Goto(p, where), req' = [req EXCEPT ![p] = r], UNCHANGED <<plan, quiet>>, Decided
    PROVE  ServiceInv'
<1>1. plan[p] \in [scope : Scope, reg : Reg \cup {None}] \cup Consent \cup {None}
  BY DEF ServiceInv, TypeOK
<1>2. plan' = [plan EXCEPT ![p] = plan[p]]
  BY DEF ServiceInv, TypeOK
<1>3. Deciding(p, r, where, plan[p])
  BY <1>2 DEF Deciding, Decided, Goto
<1> QED
  BY <1>1, <1>3, DecidingKeeps

(* The answers. *)
LEMMA AnswerKeeps ==
    ASSUME ServiceConstants, ServiceInv, NEW p \in Proc,
           AnswerScope(p) \/ AnswerUser(p) \/ AnswerRetarget(p)
    PROVE  ServiceInv'
<1>1. /\ pc[p] \in {"ask_scope", "ask_user", "ask_retarget"} /\ req[p] \in Request
      /\ UNCHANGED <<plan, quiet>> /\ Decided
  BY DEF AnswerScope, AnswerUser, AnswerRetarget, ServiceInv, PlanOK
<1>2. CASE NoAnswer(p)
  <2>1. Goto(p, "failed") /\ req' = [req EXCEPT ![p] = req[p]]
    BY <1>2 DEF NoAnswer, ServiceInv, TypeOK
  <2> QED
    BY <1>1, <2>1, WaitsKeeps
<1>3. CASE \E r \in Request : Replan(p, r)
  <2>1. PICK r \in Request : Replan(p, r)
    BY <1>3
  <2> QED
    BY <1>1, <2>1, WaitsKeeps DEF Replan
<1>4. NoAnswer(p) \/ \E r \in Request : Replan(p, r)
  <2>1. CASE AnswerScope(p)
    <3>1. \A s \in Scope : [req[p] EXCEPT !.scope = s] \in Request
      BY <1>1 DEF Request
    <3> QED
      BY <2>1, <3>1 DEF AnswerScope
  <2>2. CASE AnswerUser(p)
    <3>1. \A u \in User \cup {Root} : [req[p] EXCEPT !.invoking = u] \in Request
      BY <1>1 DEF Request
    <3> QED
      BY <2>2, <3>1 DEF AnswerUser
  <2>3. CASE AnswerRetarget(p)
    <3>1. plan[p] \in Consent
      BY <2>3 DEF AnswerRetarget, ServiceInv, PlanOK
    <3>2. [req[p] EXCEPT !.consent = plan[p]] \in Request
      BY <1>1, <3>1 DEF Request
    <3> QED
      BY <2>3, <3>2 DEF AnswerRetarget
  <2> QED
    BY <2>1, <2>2, <2>3
<1> QED
  BY <1>2, <1>3, <1>4

(* The account a system install is for, and the registration it would write. *)
LEMMA TargetType ==
    ASSUME ServiceConstants, NEW r \in Request, NEW account, account = TargetAccount(r),
           account # None, account # "?", HasConfig(r, account)
    PROVE  TargetReg(r, account) \in Reg
<1>1. /\ r.config \in Config \cup {None} /\ r.sudo \in User \cup {Root, None}
      /\ r.invoking \in User \cup {Root, None}
  BY DEF Request
<1>2. SudoAccount(r) \in User \cup {None}
  BY <1>1 DEF SudoAccount
<1>3. account \in User \cup {Root, None}
  BY <1>1, <1>2 DEF TargetAccount, ServiceConstants
<1>4. PICK c : c = IF r.config # None THEN r.config ELSE HomeConfig[account]
  OBVIOUS
<1>5. c \in Config
  BY <1>1, <1>4 DEF HasConfig, ServiceConstants
<1>6. TargetReg(r, account) = [config |-> c, pin |-> account]
  BY <1>4 DEF TargetReg
<1> QED
  BY <1>3, <1>5, <1>6 DEF Reg

(* The plan of an install for the caller. *)
LEMMA PlanUserKeeps ==
    ASSUME ServiceConstants, ServiceInv, NEW p \in Proc, pc[p] = "plan", req[p] \in Request,
           req[p].verb = "install", InstallScope(req[p]) = "user", PlanUser(p, req[p]),
           UNCHANGED req, Decided
    PROVE  ServiceInv'
<1>1. req' = [req EXCEPT ![p] = req[p]]
  BY DEF ServiceInv, TypeOK
<1>2. CASE Refuse(p)
  BY <1>1, <1>2, WaitsKeeps DEF Refuse
<1>3. CASE Execute(p, "user", UserReg(req[p]))
  <2>1. req[p].config \in Config \cup {None}
    BY DEF Request
  <2>2. PICK c : c = IF req[p].config # None THEN req[p].config ELSE HomeConfig[Caller]
    OBVIOUS
  <2>3. c \in Config
    BY <2>1, <2>2 DEF ServiceConstants
  <2>4. UserReg(req[p]) = [config |-> c, pin |-> None]
    BY <2>2 DEF UserReg
  <2>5. UserReg(req[p]) \in Reg
    BY <2>3, <2>4 DEF Reg
  <2>6. "user" \in Scope /\ InstallScope(req[p]) # "system"
    BY DEF Scope
  <2> QED
    BY <1>3, <2>5, <2>6, ExecuteKeeps
<1> QED
  BY <1>2, <1>3 DEF PlanUser

(* The plan of a system install. *)
LEMMA PlanSystemKeeps ==
    ASSUME ServiceConstants, ServiceInv, NEW p \in Proc, pc[p] = "plan", req[p] \in Request,
           req[p].verb = "install", Supported("system"), PlanSystem(p, req[p]),
           UNCHANGED req, Decided
    PROVE  ServiceInv'
<1>1. req' = [req EXCEPT ![p] = req[p]]
  BY DEF ServiceInv, TypeOK
<1>2. PICK account, new : account = TargetAccount(req[p]) /\ new = TargetReg(req[p], account)
  OBVIOUS
<1>3. CASE Refuse(p)
  BY <1>1, <1>3, WaitsKeeps DEF Refuse
<1>4. CASE Ask(p, "ask_user")
  BY <1>1, <1>4, WaitsKeeps DEF Ask
<1>5. ASSUME account # None, account # "?", HasConfig(req[p], account)
      PROVE  new \in Reg
  BY <1>2, <1>5, TargetType
<1>6. CASE new \in Reg /\ RetargetAllowed(Existing, new, req[p].consent)
           /\ Execute(p, "system", new)
  <2>1. "system" \in Scope /\ platform # "windows"
    BY DEF Scope, Supported
  <2> QED
    BY <1>6, <2>1, ExecuteKeeps
<1>7. CASE new \in Reg /\ ~RetargetAllowed(Existing, new, req[p].consent)
           /\ AskRetarget(p, PinOf(Existing), new)
  <2>1. Existing \in Reg
    BY <1>7 DEF RetargetAllowed, Existing, ServiceInv, TypeOK, Scope, Host
  <2>2. PICK d : d = [previous |-> PinOf(Existing), proposed |-> new]
    OBVIOUS
  <2>3. d \in Consent
    BY <1>7, <2>1, <2>2 DEF Consent, PinOf
  <2>4. Deciding(p, req[p], "ask_retarget", d) /\ UNCHANGED quiet
    BY <1>1, <1>7, <2>2 DEF Deciding, AskRetarget, Goto, Decided
  <2> QED
    BY <2>3, <2>4, DecidingKeeps
<1> QED
  BY <1>2, <1>3, <1>4, <1>5, <1>6, <1>7 DEF PlanSystem

(* The plan of another verb. *)
LEMMA PlanVerbKeeps ==
    ASSUME ServiceConstants, ServiceInv, NEW p \in Proc, pc[p] = "plan", req[p] \in Request,
           req[p].verb # "install", PlanVerb(p, req[p]), UNCHANGED req, Decided
    PROVE  ServiceInv'
<1>1. req' = [req EXCEPT ![p] = req[p]]
  BY DEF ServiceInv, TypeOK
<1>2. PICK s : s = IF req[p].scope # None THEN req[p].scope ELSE DefaultScope(req[p].elevated)
  OBVIOUS
<1>3. s \in Scope
  BY <1>2 DEF Request, DefaultScope, Scope
<1>4. CASE Refuse(p)
  BY <1>1, <1>4, WaitsKeeps DEF Refuse
<1>5. CASE Supported(s) /\ (req[p].verb = "start" => ~RoleHeld) /\ Execute(p, s, None)
  BY <1>3, <1>5, ExecuteKeeps DEF Supported, Scope
<1> QED
  BY <1>2, <1>4, <1>5 DEF PlanVerb

(* Every plan keeps the invariant. *)
LEMMA PlanKeeps ==
    ASSUME ServiceConstants, ServiceInv, NEW p \in Proc, Plan(p)
    PROVE  ServiceInv'
<1>1. pc[p] = "plan" /\ req[p] \in Request /\ UNCHANGED req /\ Decided
  BY DEF Plan, ServiceInv, PlanOK
<1>2. req' = [req EXCEPT ![p] = req[p]]
  BY <1>1 DEF ServiceInv, TypeOK
<1>3. InstallScope(req[p]) \in Scope \cup {None}
  BY <1>1 DEF InstallScope, Request, Scope
<1>4. CASE Refuse(p)
  BY <1>1, <1>2, <1>4, WaitsKeeps DEF Refuse
<1>5. CASE Ask(p, "ask_scope")
  BY <1>1, <1>2, <1>5, WaitsKeeps DEF Ask
<1>6. CASE req[p].verb # "install" /\ PlanVerb(p, req[p])
  BY <1>1, <1>6, PlanVerbKeeps
<1>7. CASE req[p].verb = "install" /\ InstallScope(req[p]) = "user" /\ PlanUser(p, req[p])
  BY <1>1, <1>7, PlanUserKeeps
<1>8. CASE req[p].verb = "install" /\ Supported("system") /\ PlanSystem(p, req[p])
  BY <1>1, <1>8, PlanSystemKeeps
<1> QED
  BY <1>3, <1>4, <1>5, <1>6, <1>7, <1>8 DEF Plan, Scope

(* The invariant holds at first. *)
LEMMA ServiceInit ==
    ASSUME ServiceConstants, Init
    PROVE  ServiceInv
<1>1. Nothing \in Host /\ Nothing.svc = "none" /\ ~Nothing.blocked /\ Nothing.loaded = None
  BY DEF Nothing, Host
<1>2. ASSUME NEW r \in Reg
      PROVE  /\ Installed(r) \in Host /\ Installed(r).from = r /\ ~Installed(r).blocked
             /\ platform = "busybox" => Installed(r).loaded = None
             /\ platform = "launchd" => Installed(r).loaded # None
             /\ Installed(r).svc = "starting"
  BY DEF Installed, Host, ServiceConstants
<1>3. [config |-> HomeConfig[Caller], pin |-> None] \in Reg
  BY DEF ServiceConstants, Reg
<1>4. /\ host["user"] = Nothing \/ \E r \in Reg : host["user"] = Installed(r)
      /\ host["system"] = Nothing \/ \E r \in Reg : host["system"] = Installed(r)
      /\ platform = "windows" => host["system"] = Nothing
  BY <1>3 DEF Init, InitialHosts, ServiceConstants
<1>5. host \in [Scope -> Host]
  <2>1. DOMAIN host = Scope /\ host = [s \in Scope |-> host[s]]
    BY DEF Init, InitialHosts, Scope
  <2>2. host["user"] \in Host /\ host["system"] \in Host
    BY <1>1, <1>2, <1>4
  <2> QED
    BY <2>1, <2>2 DEF Scope
<1>6. HostOK
  BY <1>1, <1>2, <1>4 DEF HostOK, Scope, ServiceConstants
<1>7. TypeOK /\ step \in [Proc -> 0 .. 6] /\ fs \in [Config \cup User -> FileState]
  BY <1>5 DEF Init, TypeOK, ServiceConstants
<1>8. \A p \in Proc : PlanOK(p) /\ ~quiet[p]
  BY DEF Init, PlanOK
<1> QED
  BY <1>6, <1>7, <1>8 DEF ServiceInv

(* Every step keeps it. *)
LEMMA ServiceNext ==
    ASSUME ServiceConstants, ServiceInv, [Next]_vars
    PROVE  ServiceInv'
<1>1. ASSUME NEW p \in Proc, Invocation(p) PROVE ServiceInv'
  BY <1>1, BeginKeeps, PlanKeeps, AnswerKeeps, StepKeeps DEF Invocation
<1>2. ASSUME NEW s \in Scope, ServiceProcess(s) \/ Block(s) PROVE ServiceInv'
  BY <1>2, LaunchKeeps, CrashKeeps, RespawnKeeps, BlockKeeps DEF ServiceProcess
<1>3. CASE UNCHANGED vars
  <2>1. HostOK' /\ TypeOK' /\ step' \in [Proc -> 0 .. 6]
        /\ fs' \in [Config \cup User -> FileState]
    BY <1>3 DEF vars, HostOK, TypeOK, ServiceInv
  <2> QED
    BY <1>3, <2>1, Bystander DEF vars, ServiceInv
<1> QED
  BY <1>1, <1>2, <1>3, ForegroundKeeps, FileKeeps DEF Next

(* The inductive invariant: what is known of the host, of every plan, and of *)
(* every invocation nobody disturbs, at each of its commands.                *)
THEOREM ServiceInvHolds == Spec => []ServiceInv
<1> USE ServiceAssumption
<1>1. Init => ServiceInv
  BY ServiceInit
<1>2. ServiceInv /\ [Next]_vars => ServiceInv'
  BY ServiceNext
<1> QED
  BY <1>1, <1>2, PTL DEF Spec

(* What the invariant says of an invocation that ended. *)
LEMMA EndedOnCourse ==
    ASSUME ServiceConstants, ServiceInv, NEW p \in Proc, quiet[p]
    PROVE  OnCourse(req[p].verb, pc[p], step[p], HostOf(p), plan[p].reg, applied[p],
                    Broken(p))
  BY DEF ServiceInv, Undisturbed

(* An install nobody disturbs works, and what it reports took effect.        *)
THEOREM InstallWorksHolds == Spec => []InstallWorks
<1> USE ServiceAssumption
<1>1. ServiceInv => InstallWorks
  <2> SUFFICES ASSUME ServiceInv PROVE InstallWorks
    OBVIOUS
  <2>1. TypeOK
    BY DEF ServiceInv
  <2>2. InstallTakesEffect
    <3>1. SUFFICES ASSUME NEW p \in Proc, Ended(p, "ok"), req[p].verb = "install",
                          platform # "windows"
                   PROVE  /\ HostOf(p).reg = plan[p].reg /\ AtBoot(HostOf(p))
                          /\ platform # "busybox" => HostOf(p).loaded = HostOf(p).reg
                          /\ Alive(HostOf(p)) => HostOf(p).from = HostOf(p).reg
      BY DEF InstallTakesEffect
    <3>2. InstallAt("ok", step[p], HostOf(p), plan[p].reg, Broken(p))
      BY <3>1, EndedOnCourse DEF Ended, OnCourse
    <3> QED
      BY <3>1, <3>2 DEF InstallAt
  <2>3. PlannedInstallSucceeds
    <3>1. SUFFICES ASSUME NEW p \in Proc, Ended(p, "failed"), req[p].verb = "install",
          ~flaky[p]
                   PROVE  ~Accepts(req[p]) /\ step[p] = 0
      BY DEF PlannedInstallSucceeds
    <3>2. InstallAt("failed", step[p], HostOf(p), plan[p].reg,
                    Broken(p))
      BY <3>1, EndedOnCourse DEF Ended, OnCourse
    <3> QED
      BY <3>1, <3>2 DEF InstallAt, Broken
  <2> QED
    BY <2>1, <2>2, <2>3 DEF InstallWorks
<1>2. Spec => []ServiceInv
  BY ServiceInvHolds
<1> QED
  BY <1>1, <1>2, PTL

(* What an operation reports is what it left, and an uninstall leaves        *)
(* nothing that starts by itself.                                            *)
THEOREM ReportsLastHolds == Spec => []ReportsLast
<1> USE ServiceAssumption
<1>1. ServiceInv => ReportsLast
  <2> SUFFICES ASSUME ServiceInv PROVE ReportsLast
    OBVIOUS
  <2>1. ReportTruthful
    BY EndedOnCourse DEF ReportTruthful, Ended, OnCourse
  <2>2. UninstallForgets
    <3>1. SUFFICES ASSUME NEW p \in Proc, Ended(p, "ok"), req[p].verb = "uninstall"
                   PROVE  /\ HostOf(p).reg = None /\ ~AtBoot(HostOf(p))
                          /\ platform = "systemd" => HostOf(p).loaded = None
                          /\ "stopped" \in applied[p] =>
                                 HostOf(p).svc \in {"none", "stopping"}
      BY DEF UninstallForgets
    <3>2. /\ UninstallAt("ok", step[p], HostOf(p)) /\ "started" \notin applied[p]
          /\ True(applied[p], HostOf(p), plan[p].reg)
          /\ platform = "launchd" /\ "stopped" \in applied[p] => "disabled" \in applied[p]
      BY <3>1, EndedOnCourse DEF Ended, OnCourse, EffectsOf
    <3> QED
      BY <3>1, <3>2 DEF UninstallAt, AtBoot, True, Down
  <2> QED
    BY <2>1, <2>2 DEF ReportsLast
<1>2. Spec => []ServiceInv
  BY ServiceInvHolds
<1> QED
  BY <1>1, <1>2, PTL

(* A command of an invocation, as the invariant has it. *)
LEMMA StepLeaves ==
    ASSUME ServiceConstants, ServiceInv, NEW p \in Proc, Step(p)
    PROVE  /\ pc[p] = "exec" /\ plan[p].scope \in Scope
           /\ \E g, said :
                 /\ Leaves(req[p].verb, step[p], host[plan[p].scope], plan[p].reg, g, said)
                 /\ host' = [host EXCEPT ![plan[p].scope] = g]
<1> DEFINE program == Program(req[p].verb)
           command == program[step[p] + 1]
           scope == plan[p].scope
<1>0. PICK o \in Outcomes(command.cmd, host[scope], plan[p].reg) :
        host' = [host EXCEPT ![scope] = o.host]
  BY DEF Step
<1>1. PICK P, st, s : P = program /\ st = command /\ s = scope
  OBVIOUS
<1>2. o \in Outcomes(st.cmd, host[s], plan[p].reg) /\ host' = [host EXCEPT ![s] = o.host]
  BY <1>0, <1>1
<1>3. pc[p] = "exec" /\ plan[p].scope \in Scope
  BY DEF Step, ServiceInv, PlanOK
<1>4. Follows(req[p].verb, step[p], Len(P) - step[p] - 1, st, host[s], plan[p].reg,
              applied[p], Broken(p), o)
  BY <1>1, <1>2, <1>3, StepFollows
<1>5. Leaves(req[p].verb, step[p], host[s], plan[p].reg, o.host, Recorded(st, o))
  BY <1>4 DEF Follows
<1>6. Leaves(req[p].verb, step[p], host[plan[p].scope], plan[p].reg, o.host, Recorded(st, o))
      /\ host' = [host EXCEPT ![plan[p].scope] = o.host]
  BY <1>1, <1>2, <1>5
<1> QED
  BY <1>3, <1>6

(* A system service that comes up was vetted in that very step. *)
LEMMA UpIsVetted ==
    ASSUME ServiceConstants, ServiceInv, Next,
           host["system"].svc = "starting", host'["system"].svc = "up"
    PROVE  ~Unsafe("system", host["system"].from) /\ platform # "windows"
           /\ host["system"].from \in Reg
<1>0. host \in [Scope -> Host] /\ host' # host
  BY DEF ServiceInv, TypeOK
<1>1. platform # "windows" /\ host["system"].from \in Reg
  BY <1>0 DEF ServiceInv, HostOK, Scope, Host
<1>2. ASSUME NEW p \in Proc, Invocation(p) PROVE FALSE
  <2>1. CASE Step(p)
    <3>1. PICK s, g, said :
            /\ s \in Scope
            /\ Leaves(req[p].verb, step[p], host[s], plan[p].reg, g, said)
            /\ host' = [host EXCEPT ![s] = g]
      BY <2>1, StepLeaves
    <3>2. g.svc # "up" \/ g.svc = host[s].svc
      BY <3>1 DEF Leaves
    <3> QED
      BY <1>0, <3>1, <3>2 DEF Scope
  <2>2. CASE ~Step(p)
    BY <1>0, <1>2, <2>2
    DEF Invocation, Begin, Plan, AnswerScope, AnswerUser, AnswerRetarget, Decided
  <2> QED
    BY <2>1, <2>2
<1>3. ASSUME NEW s \in Scope, Block(s) \/ Crash(s) \/ Respawn(s) \/ Exit(s) PROVE FALSE
  <2>1. PICK g : host' = [host EXCEPT ![s] = g] /\ (g.svc # "up" \/ g.svc = host[s].svc)
    <3>1. CASE Block(s)
      <4>1. PICK g : g = [host[s] EXCEPT !.blocked = TRUE]
        OBVIOUS
      <4>2. host' = [host EXCEPT ![s] = g] /\ g.svc = host[s].svc
        BY <1>0, <3>1, <4>1 DEF Block, Host
      <4> QED
        BY <4>2
    <3>2. CASE Crash(s) \/ Exit(s)
      <4>1. \/ host' = [host EXCEPT ![s] = Halted(host[s])]
            \/ \E exit : host' = [host EXCEPT ![s] = Exited(host[s], exit)]
        BY <3>2 DEF Crash, Exit
      <4>2. Halted(host[s]).svc # "up" /\ \A exit : Exited(host[s], exit).svc # "up"
        BY <1>0 DEF Exited, Halted, Host
      <4> QED
        BY <4>1, <4>2
    <3>3. CASE Respawn(s)
      <4>1. host' = [host EXCEPT ![s] = Started(host[s], host[s].loaded)]
        BY <3>3 DEF Respawn
      <4>2. Started(host[s], host[s].loaded).svc # "up"
        BY <1>0 DEF Started, Host
      <4> QED
        BY <4>1, <4>2
    <3> QED
      BY <1>3, <3>1, <3>2, <3>3
  <2> QED
    BY <1>0, <2>1 DEF Scope
<1>4. ASSUME NEW s \in Scope, Launch(s), s # "system" PROVE FALSE
  <2>1. host'["system"] = host["system"]
    BY <1>0, <1>4 DEF Launch, Scope
  <2> QED
    BY <2>1
<1>5. ASSUME Launch("system") PROVE ~Unsafe("system", host["system"].from)
  <2>1. SUFFICES ASSUME Unsafe("system", host["system"].from) PROVE FALSE
    OBVIOUS
  <2>2. \E exit : host' = [host EXCEPT !["system"] = Exited(host["system"], exit)]
    BY <1>5, <2>1 DEF Launch
  <2>3. \A exit : Exited(host["system"], exit).svc # "up"
    BY <1>0 DEF Exited, Halted, Host, Scope
  <2> QED
    BY <1>0, <2>2, <2>3 DEF Scope
<1>6. ASSUME Foreground \/ \E x \in Config \cup User : FileChanges(x) PROVE FALSE
  BY <1>0, <1>6 DEF Foreground, FileChanges
<1> QED
  BY <1>1, <1>2, <1>3, <1>4, <1>5, <1>6 DEF Next, ServiceProcess

(* A system service runs a user's files as root only when the registration   *)
(* names that user, and only while nobody but root and that user can change  *)
(* what it reads and where it writes (load_config walks both again).         *)
THEOREM SystemServiceTrustedHolds == Spec => SystemServiceTrusted
<1> USE ServiceAssumption
<1>1. ASSUME ServiceInv, Next, NEW reg, reg = host["system"].from,
             host["system"].svc = "starting", host'["system"].svc = "up"
      PROVE  /\ reg.pin = None => platform = "busybox"
             /\ reg.pin # None => /\ Safe(fs[reg.config].path, reg.pin)
                                  /\ reg.pin \in User => Safe(fs[reg.pin].path, reg.pin)
  <2>1. ~Unsafe("system", reg) /\ platform # "windows" /\ reg \in Reg
    BY <1>1, UpIsVetted
  <2>2. reg.pin = None => platform = "busybox"
    BY <1>1, <2>1 DEF Unsafe, UnpinnedService, ServiceInv, TypeOK, ServiceConstants
  <2>3. reg.pin # None => StateVerified(reg.pin) /\ ConfigVerified(reg)
    BY <2>1 DEF Unsafe
  <2>4. /\ Root \notin User /\ reg.config \in Config
        /\ \A x \in Config \cup User : fs[x].path \in Seq(Component) \ {<<>>}
    BY <1>1, <2>1 DEF Reg, ServiceConstants, ServiceInv, FileState
  <2>5. reg.pin # None => Safe(fs[reg.config].path, reg.pin)
    BY <2>3, <2>4, WalkSafe DEF ConfigVerified
  <2>6. reg.pin # None /\ reg.pin \in User => Safe(fs[reg.pin].path, reg.pin)
    BY <2>3, <2>4, WalkSafe DEF StateVerified
  <2> QED
    BY <2>2, <2>5, <2>6
<1>2. ServiceInv /\ [Next]_vars =>
        [LET reg == host["system"].from IN
         host["system"].svc = "starting" /\ host'["system"].svc = "up" =>
           /\ reg.pin = None => platform = "busybox"
           /\ reg.pin # None => /\ Safe(fs[reg.config].path, reg.pin)
                                /\ reg.pin \in User => Safe(fs[reg.pin].path, reg.pin)]_vars
  BY <1>1
<1>3. Spec => []ServiceInv
  BY ServiceInvHolds
<1> QED
  BY <1>2, <1>3, PTL DEF Spec, SystemServiceTrusted

(* Only the command of an invocation itself moves it on. *)
LEMMA OwnStepOnly ==
    ASSUME ServiceConstants, ServiceInv, Next, NEW p \in Proc, step'[p] # step[p]
    PROVE  Step(p)
<1>1. ASSUME NEW q \in Proc, Invocation(q), ~Step(q) PROVE FALSE
  BY <1>1 DEF Invocation, Begin, Plan, AnswerScope, AnswerUser, AnswerRetarget, Decided
<1>2. ASSUME NEW q \in Proc, Step(q), q # p PROVE FALSE
  <2>1. step' = [step EXCEPT ![q] = step[q] + 1]
    BY <1>2 DEF Step
  <2> QED
    BY <1>2, <2>1 DEF ServiceInv
<1>3. ASSUME NEW s \in Scope, ServiceProcess(s) \/ Block(s) PROVE FALSE
  BY <1>3 DEF ServiceProcess, Launch, Crash, Respawn, Exit, Block, Procs
<1>4. ASSUME Foreground \/ \E x \in Config \cup User : FileChanges(x) PROVE FALSE
  BY <1>4 DEF Foreground, FileChanges, Procs
<1> QED
  BY <1>1, <1>2, <1>3, <1>4 DEF Next

(* The owner of a system registration changes only to what a person agreed   *)
(* to, unless another invocation wrote between the plan and the write.       *)
THEOREM RetargetByConsentHolds == Spec => RetargetByConsent
<1> USE ServiceAssumption
<1>1. ASSUME ServiceInv, Next, NEW p \in Proc, Retargets(p), quiet[p],
             InstallScope(req[p]) = "system"
      PROVE  Agreed(p)
  <2>1. Step(p)
    BY <1>1, OwnStepOnly DEF Retargets
  <2>2. pc[p] = "exec" /\ plan[p].scope \in Scope /\ host \in [Scope -> Host]
    BY <1>1, <2>1, StepLeaves DEF ServiceInv, TypeOK
  <2>3. PICK g, said :
          /\ Leaves(req[p].verb, step[p], host[plan[p].scope], plan[p].reg, g, said)
          /\ host' = [host EXCEPT ![plan[p].scope] = g]
    BY <1>1, <2>1, StepLeaves
  <2>4. plan[p].scope = "system" /\ g = host'["system"]
    BY <1>1, <2>2, <2>3 DEF Scope, Retargets
  <2>7. platform # "windows"
    BY <1>1, <2>2, <2>4 DEF ServiceInv, PlanOK
  <2>5. req[p].verb = "install" /\ step[p] = 0 /\ g.reg = plan[p].reg
    BY <1>1, <2>3, <2>4, <2>7 DEF Leaves, Retargets
  <2>6. RetargetAllowed(host["system"].reg, plan[p].reg, req[p].consent)
    BY <1>1, <2>2, <2>5 DEF ServiceInv, Undisturbed, StillAllowed, Existing
  <2> QED
    BY <1>1, <2>4, <2>5, <2>6 DEF RetargetAllowed, Retargets, Agreed
<1>2. ASSUME UNCHANGED vars, NEW p \in Proc PROVE ~Retargets(p)
  BY <1>2 DEF vars, Retargets
<1>3. ServiceInv /\ [Next]_vars =>
        [\A p \in Proc : Retargets(p) /\ quiet[p] /\ InstallScope(req[p]) = "system"
             => Agreed(p)]_vars
  BY <1>1, <1>2
<1>4. Spec => []ServiceInv
  BY ServiceInvHolds
<1> QED
  BY <1>3, <1>4, PTL DEF Spec, RetargetByConsent

(* Only its own commands end an invocation that is at work. *)
LEMMA EndsByStep ==
    ASSUME ServiceConstants, ServiceInv, Next, NEW p \in Proc, pc[p] = "exec", pc'[p] # "exec"
    PROVE  Step(p)
<1>0. pc \in [Proc -> {"idle", "plan", "ask_scope", "ask_user", "ask_retarget", "exec", "ok",
                       "failed"}]
  BY DEF ServiceInv, TypeOK
<1>1. ASSUME NEW q \in Proc, Invocation(q), ~Step(q) PROVE FALSE
  <2>1. pc[q] # "exec"
    BY <1>1 DEF Invocation, Begin, Plan, AnswerScope, AnswerUser, AnswerRetarget
  <2>2. \E where : pc' = [pc EXCEPT ![q] = where]
    BY <1>1 DEF Invocation, Begin, Plan, PlanVerb, PlanUser, PlanSystem, AskRetarget, Execute,
                Refuse, Ask, AnswerScope, AnswerUser, AnswerRetarget, NoAnswer, Replan, Goto
  <2> QED
    BY <1>0, <2>1, <2>2
<1>2. ASSUME NEW q \in Proc, Step(q), q # p PROVE FALSE
  <2>1. \E where : pc' = [pc EXCEPT ![q] = where]
    BY <1>2 DEF Step, Goto
  <2> QED
    BY <1>0, <1>2, <2>1
<1>3. ASSUME NEW s \in Scope, ServiceProcess(s) \/ Block(s) PROVE FALSE
  BY <1>3 DEF ServiceProcess, Launch, Crash, Respawn, Exit, Block, Procs
<1>4. ASSUME Foreground \/ \E x \in Config \cup User : FileChanges(x) PROVE FALSE
  BY <1>4 DEF Foreground, FileChanges, Procs
<1> QED
  BY <1>1, <1>2, <1>3, <1>4 DEF Next

(* The command that ends an operation leaves the process as the operation    *)
(* reports it: a restart that is reported found the old process gone.        *)
LEMMA EndsRight ==
    ASSUME ServiceConstants, ServiceInv, NEW p \in Proc, Step(p), quiet[p]
    PROVE  RightNow(p)
<1> DEFINE program == Program(req[p].verb)
           command == program[step[p] + 1]
           scope == plan[p].scope
<1>0. PICK o \in Outcomes(command.cmd, host[scope], plan[p].reg) :
        /\ host' = [host EXCEPT ![scope] = o.host]
        /\ applied' = [applied EXCEPT ![p] = @ \cup Recorded(command, o)]
        /\ quiet' = [q \in Proc |-> quiet[q] /\ (q = p \/ o.host = host[scope])]
  BY DEF Step
<1>1. PICK P, st, s, verb, n, reg, h, cmd :
        /\ P = program /\ st = command /\ s = scope /\ verb = req[p].verb /\ n = step[p]
        /\ reg = plan[p].reg /\ h = host[s] /\ cmd = st.cmd
  OBVIOUS
<1>2. o \in Outcomes(cmd, h, reg) /\ P = Program(verb) /\ st = P[n + 1]
  BY <1>0, <1>1
<1>3. pc[p] = "exec" /\ UNCHANGED <<platform, fs, fg, req, plan, events>>
  BY DEF Step
<1>4. /\ Follows(verb, n, Len(P) - n - 1, st, h, reg, applied[p], Broken(p), o)
      /\ Len(P) \in Nat /\ n \in 0 .. 4 /\ n < Len(P)
  BY <1>1, <1>2, <1>3, StepFollows
<1>5. s \in Scope /\ verb \in Verb /\ h \in Host
      /\ platform \in {"systemd", "launchd", "busybox", "windows"}
  BY <1>1, <1>3 DEF ServiceInv, PlanOK, Request, TypeOK, ServiceConstants
<1>6. /\ applied'[p] = applied[p] \cup Recorded(st, o) /\ quiet'[p]
      /\ host'[s] = o.host /\ s = plan[p].scope /\ verb = req[p].verb
  BY <1>0, <1>1, <1>5 DEF ServiceInv, TypeOK
<1>7. /\ "started" \notin applied[p] /\ (n = 0 => applied[p] = {})
      /\ (h.svc = "stopping" => platform \in {"launchd", "windows"}) /\ NotEnding(p)
  BY <1>1, <1>3, <1>5 DEF ServiceInv, PlanOK, HostOK, Undisturbed
<1>8. EffectsOf(verb, applied'[p]) /\ True(applied'[p], o.host, reg)
  <2>1. OnCourse(verb, "exec", n, h, reg, applied[p], Broken(p))
    BY <1>1, <1>3 DEF ServiceInv, Undisturbed, HostOf
  <2> QED
    BY <1>4, <1>6, <2>1 DEF Follows, OnCourse
<1>9. ASSUME "stopped" \in applied'[p], "started" \notin applied'[p] PROVE Down(o.host)
  <2>1. SUFFICES ASSUME platform = "launchd", o.host.loaded # None PROVE Down(o.host)
    BY <1>8, <1>9 DEF True
  <2>2. verb \in {"start", "stop", "restart", "status"}
    BY <1>5, <1>8, <1>9, <2>1 DEF EffectsOf, True, Verb
  <2>3. Len(P) = 1
    BY <1>2, <2>1, <2>2, OneCommand
  <2>4. n = 0
    BY <1>4, <2>3
  <2>5. "stopped" \in Recorded(st, o)
    BY <1>6, <1>7, <1>9, <2>4
  <2> QED
    BY <1>4, <2>5 DEF Follows, Leaves, Down
<1>10. ASSUME "started" \in applied'[p]
       PROVE  /\ Alive(o.host)
              /\ o.host.svc = "stopping" => platform = "windows" /\ verb = "install"
  <2>1. "started" \in Recorded(st, o)
    BY <1>6, <1>7, <1>10
  <2>2. o.did /\ "started" \in st.says
    BY <2>1 DEF Recorded
  <2>3. n \in Nat
    BY <1>4
  <2>4. /\ platform = "systemd" => cmd \in {"restart", "start"}
        /\ platform = "launchd" =>
              \/ cmd \in {"bootstrap", "kickstart_k"}
              \/ cmd = "kickstart" /\ verb = "start"
        /\ platform = "busybox" => cmd \in {"script_restart", "script_start"}
        /\ platform = "windows" =>
              /\ cmd = "run" /\ verb \in {"install", "start", "restart"}
              /\ verb = "restart" => n > 2
    <3>1. cmd = st.cmd
      BY <1>1
    <3>2. n < Len(P)
      BY <1>4
    <3> HIDE DEF program, command, scope
    <3>3. /\ platform = "systemd" => st.cmd \in {"restart", "start"}
          /\ platform = "launchd" =>
                \/ st.cmd \in {"bootstrap", "kickstart_k"}
                \/ st.cmd = "kickstart" /\ verb = "start"
          /\ platform = "busybox" => st.cmd \in {"script_restart", "script_start"}
          /\ platform = "windows" =>
                /\ st.cmd = "run" /\ verb \in {"install", "start", "restart"}
                /\ verb = "restart" => n > 2
      BY <1>2, <1>5, <2>2, <2>3, <3>2, StartsLast
    <3> QED
      BY <3>1, <3>3
  <2>5. /\ \/ platform = "systemd" /\ cmd = "restart"
           \/ platform = "launchd" /\ cmd \in {"bootstrap", "kickstart_k"}
           \/ platform = "busybox" /\ cmd = "script_restart"
           => o.host.svc = "starting"
        /\ \/ platform = "systemd" /\ cmd = "start"
           \/ platform = "launchd" /\ cmd = "kickstart"
           \/ platform = "busybox" /\ cmd = "script_start"
           \/ platform = "windows" /\ cmd = "run"
           => o.host.svc = "starting" \/ (o.host = h /\ Alive(h))
    BY <1>2, <1>5, <2>2, StartOutcome
  <2>6. CASE o.host.svc = "starting"
    BY <2>6 DEF Alive
  <2>7. CASE o.host = h /\ Alive(h) /\ h.svc # "starting"
    <3>1. SUFFICES ASSUME h.svc = "stopping"
                   PROVE  platform = "windows" /\ verb = "install"
      BY <2>7
    <3>2. /\ platform = "launchd" => verb = "start"
          /\ platform = "windows" => verb = "install" \/ verb = "start"
                                     \/ (verb = "restart" /\ n > 2)
      BY <2>4, <2>5, <2>7
    <3>3. \/ verb = "start"
          \/ platform = "windows" /\ verb = "restart" /\ n > 2
          => h.svc # "stopping"
      BY <1>1, <1>3, <1>7 DEF NotEnding, HostOf
    <3> QED
      BY <1>7, <3>1, <3>2, <3>3
  <2> QED
    BY <1>5, <2>4, <2>5, <2>6, <2>7
<1> QED
  BY <1>6, <1>9, <1>10 DEF RightNow

(* At the moment it is made, the report of an undisturbed operation is right *)
(* about the process: `stopped` is gone or going, `started` is there to      *)
(* stay, but for the install over a Windows task that is still ending.       *)
THEOREM ReportedRightNowHolds == Spec => ReportedRightNow
<1> USE ServiceAssumption
<1>1. ASSUME ServiceInv, Next, NEW p \in Proc, pc[p] = "exec", pc'[p] # "exec", quiet[p]
      PROVE  RightNow(p)
  BY <1>1, EndsByStep, EndsRight
<1>2. ASSUME UNCHANGED vars, NEW p \in Proc PROVE ~(pc[p] = "exec" /\ pc'[p] # "exec")
  BY <1>2 DEF vars
<1>3. ServiceInv /\ [Next]_vars =>
        [\A p \in Proc : pc[p] = "exec" /\ pc'[p] # "exec" /\ quiet[p] => RightNow(p)]_vars
  BY <1>1, <1>2
<1>4. Spec => []ServiceInv
  BY ServiceInvHolds
<1> QED
  BY <1>3, <1>4, PTL DEF Spec, ReportedRightNow

(* ReportsTrue: what an undisturbed operation reports is right when it ends,  *)
(* and stays so, for all values of the constants.                             *)
THEOREM ReportsTrueHolds == Spec => ReportsTrue
  BY ReportsLastHolds, ReportedRightNowHolds, PTL DEF ReportsTrue

=============================================================================
