---------------------------- MODULE MCGuestFiles ----------------------------
(* Values of the constants of GuestFiles for model checking: environments  *)
(* of up to three variables.                                               *)
EXTENDS GuestFiles

Standard == 0..4
Short    == UNION {[1..n -> Kinds] : n \in 0..3}
=============================================================================
