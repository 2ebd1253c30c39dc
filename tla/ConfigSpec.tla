----------------------------- MODULE ConfigSpec -----------------------------
(***************************************************************************)
(* What the configuration store promises (CFG-04): the file is a register  *)
(* that commands change one at a time, each applied to the text that is    *)
(* there when it takes effect. A power loss may bring back a text that was *)
(* replaced but whose replacement had not reached the disk.                *)
(***************************************************************************)
EXTENDS ConfigDoc

CONSTANTS
    role,       \* the role whose file this is
    InitText,   \* the texts the file may start with
    Command,    \* the commands, other than edits, that may be applied
    EditText    \* the texts an edit may put in place of the current one

VARIABLES
    text,       \* what a reader of the file sees
    durable     \* what a power loss may leave

Init == text \in InitText /\ durable = {text}

(* One command takes effect on the current text. *)
Apply(c) == text' \in Result(role, c, text) /\ durable' = durable \cup {text'}

Sync == text' = text /\ durable' = {text}

PowerLoss == text' \in durable /\ durable' = {text'}

Edit(t) == Apply([kind |-> "edit", base |-> text, text |-> t])

Next ==
    \/ \E c \in Command : Apply(c)
    \/ \E t \in EditText : Edit(t)
    \/ Sync
    \/ PowerLoss

Spec == Init /\ [][Next]_<<text, durable>>
============================================================================
