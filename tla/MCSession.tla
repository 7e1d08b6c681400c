------------------------------ MODULE MCSession ------------------------------
(* Two desktops and two phones for the instances TLC checks. *)
EXTENDS WireMicSession

CONSTANTS a, b, p, q

=============================================================================
