---------------------------- MODULE MCDefaultMic ----------------------------
(* Two real microphones, the second named as the first with a suffix. *)
EXTENDS DefaultMic

CONSTANTS mic, mic2

NamedAlike == {<<mic, mic2>>}

=============================================================================
