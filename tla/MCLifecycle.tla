---------------------------- MODULE MCLifecycle -----------------------------
(* Model checking of Lifecycle: a public request of any kind, one on the    *)
(* internal server, a write with two endpoints, with and without TLS.  One  *)
(* signal can arrive before, in and after every step, and one that comes    *)
(* while another is pending changes nothing.                                *)
EXTENDS Lifecycle
=============================================================================
