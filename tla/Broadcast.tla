----------------------------- MODULE Broadcast -----------------------------
(***************************************************************************)
(* What a fan-out promises its caller: one answer, given once.  The answer *)
(* is "all" only if every target had confirmed the message by then, and    *)
(* "failed" only if one had not; and it is final: behind it no target is   *)
(* contacted any more and no confirmation is taken.  A target that was     *)
(* contacted may still accept the message after the caller was told of a   *)
(* failure.                                                                *)
(***************************************************************************)
CONSTANT Targets

VARIABLES
    contacted,      \* targets the message was sent to
    accepted,       \* targets that have accepted it
    confirmed,      \* targets whose acceptance has come back
    answer          \* what the caller was told

vars == <<contacted, accepted, confirmed, answer>>

Init == contacted = {} /\ accepted = {} /\ confirmed = {} /\ answer = "none"

Contact(t) ==
    /\ answer = "none" /\ t \in Targets \ contacted
    /\ contacted' = contacted \cup {t}
    /\ UNCHANGED <<accepted, confirmed, answer>>

Accept(t) ==
    /\ t \in contacted \ accepted
    /\ accepted' = accepted \cup {t}
    /\ UNCHANGED <<contacted, confirmed, answer>>

Confirm(t) ==
    /\ answer = "none" /\ t \in accepted \ confirmed
    /\ confirmed' = confirmed \cup {t}
    /\ UNCHANGED <<contacted, accepted, answer>>

AnswerAll ==
    /\ answer = "none" /\ Targets # {} /\ confirmed = Targets
    /\ answer' = "all"
    /\ UNCHANGED <<contacted, accepted, confirmed>>

AnswerFailed ==
    /\ answer = "none" /\ (Targets # {} => confirmed # Targets)
    /\ answer' = "failed"
    /\ UNCHANGED <<contacted, accepted, confirmed>>

Next ==
    \/ \E t \in Targets : Contact(t) \/ Accept(t) \/ Confirm(t)
    \/ AnswerAll
    \/ AnswerFailed

Spec == Init /\ [][Next]_vars
=============================================================================
