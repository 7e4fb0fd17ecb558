------------------------------ MODULE MCFanout ------------------------------
(* Model checking of Fanout: three endpoints, one of which may be unusable. *)
EXTENDS Fanout
=============================================================================
