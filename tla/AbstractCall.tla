---------------------------- MODULE AbstractCall ----------------------------
(***************************************************************************)
(* What calls promise to those who hear and to those who speak.            *)
(*                                                                         *)
(* A call is granted in the very step in which the desktop it goes to      *)
(* starts to play it, and that desktop plays nobody else; only a granted   *)
(* call becomes a conversation, once for each grant, and only then does    *)
(* its caller speak.  Any call may end at any moment, and any sound too.   *)
(* The answer takes its time, so a grant and the conversation are two      *)
(* steps, and a caller that gave up meanwhile leaves a grant nobody takes. *)
(***************************************************************************)
CONSTANTS
  Calls, Devices, Desktops,
  NoCall,    \* heard by a desktop that plays nobody
  NoLine     \* the line of a call that was never made

VARIABLES
  stage,     \* [Calls -> {"idle", "calling", "granted", "talking", "over"}]
  line,      \* [Calls -> who calls, whom, and the call this one continues]
  heard,     \* [Desktops -> the call whose microphone the desktop plays]
  speaking   \* the desktops that send their microphone

CallInit ==
  /\ stage = [c \in Calls |-> "idle"]
  /\ line = [c \in Calls |-> NoLine]
  /\ heard = [h \in Desktops |-> NoCall]
  /\ speaking = {}

\* Some desktops fall silent.
Hush(desktops) == heard' = [h \in Desktops |-> IF h \in desktops THEN NoCall ELSE heard[h]]

\* A new call, for which its caller may leave others.
Ring(c, ended) ==
  /\ stage[c] = "idle"
  /\ stage' = [k \in Calls |-> IF k = c THEN "calling"
                               ELSE IF k \in ended THEN "over" ELSE stage[k]]
  /\ \E from \in Devices, to \in Desktops, id \in Calls :
       line' = [line EXCEPT ![c] = [from |-> from, to |-> to, id |-> id]]
  /\ UNCHANGED <<heard, speaking>>

\* The desktop that was called plays the call from here on.
Grant(c, after) ==
  LET h == line[c].to
  IN  /\ stage[c] \in {"calling", "over"}
      /\ stage' = [stage EXCEPT ![c] = after]
      /\ heard[h] = NoCall
      /\ heard' = [heard EXCEPT ![h] = line[c].id]
      /\ speaking' = speaking \ {h}
      /\ UNCHANGED line

\* The caller learns that its call was granted, and may begin to speak.
Talk(c, desktops) ==
  /\ stage[c] = "granted"
  /\ stage' = [stage EXCEPT ![c] = "talking"]
  /\ speaking' \in SUBSET (speaking \cup ({line[c].from} \cap Desktops))
  /\ Hush(desktops)
  /\ UNCHANGED line

\* Calls end, and desktops stop to play or to speak.
HangUp(ended, desktops) ==
  /\ stage' = [k \in Calls |-> IF k \in ended THEN "over" ELSE stage[k]]
  /\ speaking' \in SUBSET speaking
  /\ Hush(desktops)
  /\ UNCHANGED line

Made == {c \in Calls : stage[c] # "idle"}

CallNext ==
  \/ \E c \in Calls, ended \in SUBSET Made : Ring(c, ended)
  \/ \E c \in Calls, after \in {"granted", "over"} : Grant(c, after)
  \/ \E c \in Calls, desktops \in SUBSET Desktops : Talk(c, desktops)
  \/ \E ended \in SUBSET Made, desktops \in SUBSET Desktops : HangUp(ended, desktops)

CallSpec == CallInit /\ [][CallNext]_<<stage, line, heard, speaking>>

=============================================================================
