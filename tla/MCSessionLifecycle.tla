------------------------- MODULE MCSessionLifecycle -------------------------
(***************************************************************************)
(* SessionLifecycle for TLC: requests and session ids are interchangeable. *)
(***************************************************************************)
EXTENDS SessionLifecycle

Interchangeable == Permutations(Session) \cup Permutations(Request)

=============================================================================
