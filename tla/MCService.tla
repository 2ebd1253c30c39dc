----------------------------- MODULE MCService -----------------------------
(***************************************************************************)
(* Two users with one configuration each, two invocations of the command.  *)
(* The paths are `/`, a directory and the file: a private home, a sticky   *)
(* directory everybody writes to, and a home its group can write to.       *)
(***************************************************************************)
EXTENDS Service

CONSTANTS u1, u2, root, c1, c2, p1, p2

Dir(owner, writable, sticky) ==
    [owner |-> owner, kind |-> "dir", writable |-> writable, sticky |-> sticky]
File(owner) == [owner |-> owner, kind |-> "file", writable |-> FALSE, sticky |-> FALSE]
Slash == Dir(root, FALSE, FALSE)

MCDirOwner == [c \in Config |-> IF c = c1 THEN u1 ELSE u2]
MCHomeConfig == [u \in User |-> IF u = u1 THEN c1 ELSE c2]
MCInitFiles ==
    [x \in {c1, c2, u1, u2} |->
        CASE x = c1 -> [path |-> <<Slash, Dir(u1, FALSE, FALSE), File(u1)>>, doc |-> "ok"]
          [] x = c2 -> [path |-> <<Slash, Dir(u2, FALSE, FALSE), File(u2)>>, doc |-> "ok"]
          [] OTHER  -> [path |-> <<Slash, Dir(x, FALSE, FALSE)>>, doc |-> "ok"]]
MCFileStates ==
    [x \in {c1, c2, u1, u2} |-> {MCInitFiles[x]} \cup
        CASE x = c1 -> {[path |-> <<Slash, Dir(root, TRUE, TRUE), File(u1)>>, doc |-> "ok"],
                        [path |-> <<Slash, Dir(u1, TRUE, FALSE), File(u1)>>, doc |-> "ok"]}
          [] x = c2 -> {[MCInitFiles[c2] EXCEPT !.doc = d] : d \in {"bad", "keyless"}}
          [] x = u1 -> {[path |-> <<Slash, Dir(u1, TRUE, FALSE)>>, doc |-> "ok"]}
          [] x = u2 -> {}]
MCInitRegs == {[config |-> c1, pin |-> u1], [config |-> c2, pin |-> None]}

(* Requests with a field or two away from the plainest one. *)
Plain(verb, elevated) ==
    [verb |-> verb, scope |-> None, elevated |-> elevated, answers |-> TRUE,
     config |-> None, sudo |-> None, invoking |-> None, consent |-> None,
     fits_task |-> TRUE]
AnyRequest ==
    {Plain("install", FALSE), Plain("install", TRUE),
     [Plain("install", TRUE) EXCEPT !.config = c2],
     [Plain("install", TRUE) EXCEPT !.config = c2, !.sudo = u1],
     [Plain("install", TRUE) EXCEPT !.sudo = u2, !.answers = FALSE],
     [Plain("install", TRUE) EXCEPT !.scope = "user", !.config = c1],
     [Plain("install", FALSE) EXCEPT !.scope = "user", !.fits_task = FALSE],
     Plain("start", FALSE), Plain("stop", TRUE), Plain("restart", FALSE),
     Plain("status", FALSE)}
    \cup {Plain("uninstall", e) : e \in BOOLEAN}
MCRequests ==
    [p \in Proc |-> IF p = p1 THEN AnyRequest
                    ELSE {[Plain("install", TRUE) EXCEPT !.config = c1],
                          Plain("uninstall", TRUE)}]
============================================================================
