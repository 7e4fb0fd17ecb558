------------------------------- MODULE Relay -------------------------------
(***************************************************************************)
(* What the remote-write proxy promises: a message that was accepted has   *)
(* been sent on its way to every target before its sender was told, each   *)
(* copy arrives at most once, and an answer is never revised.  It does not *)
(* promise delivery: copies that are on their way are lost when the        *)
(* process ends, whatever the sender was told.                             *)
(***************************************************************************)
CONSTANTS Messages, Targets

VARIABLES
    up,         \* the process runs
    copies,     \* the copy of a message for a target
    answers     \* what the sender of a message was told

vars == <<up, copies, answers>>

Init ==
    /\ up = TRUE
    /\ copies = [m \in Messages |-> [t \in Targets |-> "none"]]
    /\ answers = [m \in Messages |-> "none"]

Launch(m, t) ==
    /\ up /\ answers[m] = "none" /\ copies[m][t] = "none"
    /\ copies' = [copies EXCEPT ![m][t] = "sent"]
    /\ UNCHANGED <<up, answers>>

\* The outcome is known, good or bad.
Settle(m, t) ==
    /\ up /\ copies[m][t] = "sent"
    /\ copies' = [copies EXCEPT ![m][t] = "settled"]
    /\ UNCHANGED <<up, answers>>

Accept(m) ==
    /\ up /\ answers[m] = "none"
    /\ \A t \in Targets : copies[m][t] # "none"
    /\ answers' = [answers EXCEPT ![m] = "accepted"]
    /\ UNCHANGED <<up, copies>>

Refuse(m) ==
    /\ up /\ answers[m] = "none"
    /\ answers' = [answers EXCEPT ![m] = "failed"]
    /\ UNCHANGED <<up, copies>>

End == up /\ up' = FALSE /\ UNCHANGED <<copies, answers>>

Next ==
    \/ \E m \in Messages, t \in Targets : Launch(m, t) \/ Settle(m, t)
    \/ \E m \in Messages : Accept(m) \/ Refuse(m)
    \/ End

Spec == Init /\ [][Next]_vars
=============================================================================
