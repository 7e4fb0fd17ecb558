---------------------------- MODULE MCLogChannel ----------------------------
(* Model checking of LogChannel on small instances. *)
EXTENDS LogChannel

Unset == [set |-> FALSE, err |-> FALSE, v |-> 0]
Valid(n) == [set |-> TRUE, err |-> FALSE, v |-> n]
Invalid(n) == [set |-> TRUE, err |-> TRUE, v |-> n]

\* LOG_MAX_COUNT unset, a number, not a number, and a number out of range.
MCEnvMaxCount == {Unset, Valid(1), Invalid(0), Invalid(MaxInt), Invalid(-MaxInt - 1)}

\* LOG_INTERVAL unset, a duration, and not a duration.
MCEnvInterval == {Unset, Valid(1), Invalid(0)}

=============================================================================
