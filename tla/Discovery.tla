----------------------------- MODULE Discovery -----------------------------
(***************************************************************************)
(* How the devices of a network find each other: the two DiscoveryService  *)
(* classes, and the lists of devices their connection managers keep.       *)
(*                                                                         *)
(* Each service broadcasts an announce every announce interval, answers an *)
(* announce it hears with a reply to that one device, marks a device       *)
(* Offline after some missed announces and later forgets it.  A desktop    *)
(* does all of it on its event loop, a handler at a time; on a phone it is *)
(* the loop of run(), with the other threads stopping it, asking for a new *)
(* socket and probing a host in between.                                   *)
(*                                                                         *)
(* A tick of the clock is one announce interval; when in it a timer fires  *)
(* is open.  The network loses what it likes, and a datagram overtaken by  *)
(* a later one of the same sender to the same receiver is lost too.        *)
(***************************************************************************)
EXTENDS Integers

CONSTANTS
  Desktops, Phones,
  Old,             \* the devices that speak another protocol version
  Muffled,         \* the devices whose broadcasts reach nobody
  OfflineAfter,    \* kOfflineAfterMissedAnnounces
  RemoveAfter      \* kRemoveAfterSilenceMs, in announce intervals

Devices == Desktops \cup Phones

ASSUME DiscoveryAssumption ==
  /\ Desktops \cap Phones = {}
  /\ OfflineAfter \in Nat /\ RemoveAfter \in Nat
  /\ 0 < OfflineAfter /\ OfflineAfter < RemoveAfter

VARIABLES
  running,         \* running_
  open,            \* the socket is bound in the operating system
  bound,           \* bound_, of a desktop
  rebind,          \* rebindTimer_ is active, or rebindRequested_
  thread,          \* where run() of a phone is
  late,            \* an interval ended since that loop read the clock
  status,          \* devices_ of the service
  silence,         \* intervals since lastSeen, up to RemoveAfter + 1
  list,            \* devices_ of the connection manager
  lan,             \* the network works: binding and sending succeed
  mail             \* mail[e][f]: the datagram on its way from e to f

socketVars == <<open, bound, rebind>>
tableVars  == <<status, silence, list>>
vars == <<running, socketVars, thread, late, tableVars, lan, mail>>

Nobody == [e \in Devices |-> "None"]
Never  == [e \in Devices |-> 0]
NoMail == [e \in Devices |-> "none"]

Init ==
  /\ running = [e \in Devices |-> FALSE]
  /\ open = [e \in Devices |-> FALSE]
  /\ bound = [d \in Desktops |-> FALSE]
  /\ rebind = [e \in Devices |-> FALSE]
  /\ thread = [p \in Phones |-> "none"]
  /\ late = [p \in Phones |-> FALSE]
  /\ status = [e \in Devices |-> Nobody]
  /\ silence = [e \in Devices |-> Never]
  /\ list = [e \in Devices |-> Nobody]
  /\ lan = TRUE
  /\ mail = [e \in Devices |-> NoMail]

\* What a bind or a broadcast may return.
Outcome == IF lan THEN {TRUE} ELSE BOOLEAN

SameVersion(e, f) == (e \in Old) <=> (f \in Old)

\* broadcast, sendDatagram: by every interface, to everybody.
Broadcast(e, kind) ==
  IF e \in Muffled THEN mail
  ELSE [mail EXCEPT ![e] = [f \in Devices |-> IF f = e THEN "none" ELSE kind]]

\* f takes the datagram from e; the announce is answered, a reply never is.
Taken(f, e) == [mail EXCEPT ![e][f] = "none"]
\* Mutant: replies are answered too.
AnsweredAlways(f, e) == [Taken(f, e) EXCEPT ![f][e] = "reply"]
\* Mutant: nothing is answered.
Unanswered(f, e) == Taken(f, e)
Answered(f, e) ==
  IF mail[e][f] = "announce" THEN [Taken(f, e) EXCEPT ![f][e] = "reply"] ELSE Taken(f, e)

\* Mutant: a device that speaks again stays marked as it was.
HearQuietly(f, e) ==
  /\ status' = [status EXCEPT ![f][e] = IF @ = "None" THEN "Online" ELSE @]
  /\ silence' = [silence EXCEPT ![f][e] = 0]
\* handlePacket, from the point where the device is known to count.
Hear(f, e) ==
  /\ status' = [status EXCEPT ![f][e] = "Online"]
  /\ silence' = [silence EXCEPT ![f][e] = 0]

\* Mutant: a device that is already offline is not looked at again.
SweptOnline(e, age) ==
  [f \in Devices |->
    IF status[e][f] = "Online" /\ age[f] >= OfflineAfter THEN "Offline" ELSE status[e][f]]
\* The table of e after a sweep that sees these ages.
Swept(e, age) ==
  [f \in Devices |->
    IF status[e][f] = "None" \/ age[f] >= RemoveAfter THEN "None"
    ELSE IF age[f] >= OfflineAfter THEN "Offline" ELSE status[e][f]]

Forgotten(e, table) ==
  [silence EXCEPT ![e] = [f \in Devices |-> IF table[f] = "None" THEN 0 ELSE @[f]]]

-----------------------------------------------------------------------------
(* A desktop *)

Start(d) ==
  /\ ~running[d]
  /\ running' = [running EXCEPT ![d] = TRUE]
  /\ open' = [open EXCEPT ![d] = TRUE]
  /\ bound' = [bound EXCEPT ![d] = TRUE]
  /\ UNCHANGED <<rebind, thread, late, tableVars, lan, mail>>

Stop(d) ==
  /\ running[d]
  /\ running' = [running EXCEPT ![d] = FALSE]
  /\ open' = [open EXCEPT ![d] = FALSE]
  /\ bound' = [bound EXCEPT ![d] = FALSE]
  /\ rebind' = [rebind EXCEPT ![d] = FALSE]
  /\ status' = [status EXCEPT ![d] = Nobody]
  /\ silence' = [silence EXCEPT ![d] = Never]
  /\ list' = [list EXCEPT ![d] = Nobody]
  /\ UNCHANGED <<thread, late, lan, mail>>

\* Mutant: the socket is given up and the timer not started.
GiveUp(d) == bound' = [bound EXCEPT ![d] = FALSE] /\ UNCHANGED rebind
\* scheduleRebind
ScheduleRebind(d) ==
  /\ bound' = [bound EXCEPT ![d] = FALSE]
  /\ rebind' = [rebind EXCEPT ![d] = TRUE]

\* sendAnnounce over a bound socket.
BroadcastAnnounce(d) ==
  \/ /\ bound' = [bound EXCEPT ![d] = TRUE]
     /\ rebind' = [rebind EXCEPT ![d] = FALSE]
     /\ mail' = Broadcast(d, "announce")
  \/ /\ FALSE \in Outcome
     /\ ScheduleRebind(d)
     /\ UNCHANGED mail

\* announceTimer_, the first announce after 250 ms, refreshNow.
Announce(d) ==
  /\ running[d]
  /\ \/ bound[d] /\ open[d] /\ BroadcastAnnounce(d)
     \/ ~(bound[d] /\ open[d]) /\ ScheduleRebind(d) /\ UNCHANGED mail
  /\ UNCHANGED <<running, open, thread, late, tableVars, lan>>

\* onRebindTimer
Retry(d) ==
  /\ running[d] /\ rebind[d]
  /\ \/ /\ open' = [open EXCEPT ![d] = TRUE]
        /\ BroadcastAnnounce(d)
     \/ /\ FALSE \in Outcome
        /\ open' = [open EXCEPT ![d] = FALSE]
        /\ bound' = [bound EXCEPT ![d] = FALSE]
        /\ UNCHANGED <<rebind, mail>>
  /\ UNCHANGED <<running, thread, late, tableVars, lan>>

\* sendInvite: a broadcast meant for one phone, whose failure is only reported.
Invite(d, p) ==
  /\ running[d]
  /\ \/ /\ bound[d] /\ open[d]
        /\ mail' = IF d \in Muffled THEN mail ELSE [mail EXCEPT ![d][p] = "invite"]
        /\ UNCHANGED <<bound, rebind>>
     \/ ~(bound[d] /\ open[d]) /\ ScheduleRebind(d) /\ UNCHANGED mail
  /\ UNCHANGED <<running, open, thread, late, tableVars, lan>>

\* handlePacket; the manager's list follows each signal.
Receive(d, e) ==
  /\ running[d] /\ open[d] /\ mail[e][d] # "none"
  /\ IF SameVersion(d, e)
     THEN /\ mail' = IF bound[d] THEN Answered(d, e) ELSE Taken(d, e)
          /\ Hear(d, e)
          /\ list' = [list EXCEPT ![d][e] = "Online"]
     ELSE /\ mail' = Taken(d, e)
          /\ UNCHANGED tableVars
  /\ UNCHANGED <<running, socketVars, thread, late, lan>>

\* onSweepTimer
Sweep(d) ==
  /\ running[d]
  /\ LET table == Swept(d, silence[d]) IN
       /\ status' = [status EXCEPT ![d] = table]
       /\ silence' = Forgotten(d, table)
       /\ list' = [list EXCEPT ![d] = table]
  /\ UNCHANGED <<running, socketVars, thread, late, lan, mail>>

-----------------------------------------------------------------------------
(* A phone *)

PhoneStart(p) ==
  /\ thread[p] = "none"
  /\ running' = [running EXCEPT ![p] = TRUE]
  /\ open' = [open EXCEPT ![p] = TRUE]
  /\ thread' = [thread EXCEPT ![p] = "top"]
  /\ UNCHANGED <<bound, rebind, late, tableVars, lan, mail>>

\* stop: the caller waits for the loop to notice.
PhoneStop(p) ==
  /\ running[p]
  /\ running' = [running EXCEPT ![p] = FALSE]
  /\ UNCHANGED <<socketVars, thread, late, tableVars, lan, mail>>

\* The loop ends, and stop cleans up behind it.
PhoneEnd(p) ==
  /\ thread[p] = "top" /\ ~running[p]
  /\ thread' = [thread EXCEPT ![p] = "none"]
  /\ open' = [open EXCEPT ![p] = FALSE]
  /\ rebind' = [rebind EXCEPT ![p] = FALSE]
  /\ status' = [status EXCEPT ![p] = Nobody]
  /\ silence' = [silence EXCEPT ![p] = Never]
  /\ list' = [list EXCEPT ![p] = Nobody]
  /\ UNCHANGED <<running, bound, late, lan, mail>>

\* requestRebind
RequestRebind(p) ==
  /\ running[p]
  /\ rebind' = [rebind EXCEPT ![p] = TRUE]
  /\ UNCHANGED <<running, open, bound, thread, late, tableVars, lan, mail>>

\* The loop up to recvfrom, with a socket that is open or opens: a new one is
\* announced at once, an old one every announce interval.
Turn(p, announces) ==
  /\ thread[p] = "top" /\ running[p]
  /\ IF rebind[p] THEN announces ELSE open[p]
  /\ open' = [open EXCEPT ![p] = TRUE]
  /\ rebind' = [rebind EXCEPT ![p] = FALSE]
  /\ mail' = IF announces THEN Broadcast(p, "announce") ELSE mail
  /\ late' = [late EXCEPT ![p] = FALSE]
  /\ thread' = [thread EXCEPT ![p] = "receive"]
  /\ UNCHANGED <<running, bound, tableVars, lan>>

\* The socket does not open: the loop asks itself to try again in a second.
TurnClosed(p) ==
  /\ thread[p] = "top" /\ running[p]
  /\ rebind[p] /\ FALSE \in Outcome
  /\ open' = [open EXCEPT ![p] = FALSE]
  /\ UNCHANGED <<running, bound, rebind, thread, late, tableVars, lan, mail>>

\* recvfrom and handlePacket.  Announces of any version count; an invite may
\* put the desktop on the manager's list.
PhoneReceive(p, e) ==
  /\ thread[p] = "receive" /\ mail[e][p] # "none"
  /\ mail' = Answered(p, e)
  /\ IF mail[e][p] # "invite"
     THEN /\ Hear(p, e)
          /\ list' = [list EXCEPT ![p] = status'[p]]
     ELSE \/ UNCHANGED tableVars
          \/ /\ SameVersion(p, e) /\ list[p][e] = "None"
             /\ list' = [list EXCEPT ![p][e] = "Online"]
             /\ UNCHANGED <<status, silence>>
  /\ thread' = [thread EXCEPT ![p] = "sweep"]
  /\ UNCHANGED <<running, socketVars, late, lan>>

ReceiveTimeout(p) ==
  /\ thread[p] = "receive"
  /\ thread' = [thread EXCEPT ![p] = "sweep"]
  /\ UNCHANGED <<running, socketVars, late, tableVars, lan, mail>>

\* The sweep uses the time read at the top of the loop.
PhoneSweep(p) ==
  /\ thread[p] = "sweep"
  /\ LET now   == [f \in Devices |-> silence[p][f] - IF late[p] THEN 1 ELSE 0]
         table == Swept(p, now)
     IN /\ status' = [status EXCEPT ![p] = table]
        /\ silence' = Forgotten(p, table)
        /\ list' = IF table = status[p] THEN list ELSE [list EXCEPT ![p] = table]
  /\ thread' = [thread EXCEPT ![p] = "top"]
  /\ UNCHANGED <<running, socketVars, late, lan, mail>>

\* That time is less than a second after the last sweep.
NoSweep(p) ==
  /\ thread[p] = "sweep"
  /\ thread' = [thread EXCEPT ![p] = "top"]
  /\ UNCHANGED <<running, socketVars, late, tableVars, lan, mail>>

\* probeHost: an announce to one address, from the app's thread.
Probe(p, d) ==
  /\ running[p] /\ open[p]
  /\ mail' = [mail EXCEPT ![p][d] = "announce"]
  /\ UNCHANGED <<running, socketVars, thread, late, tableVars, lan>>

-----------------------------------------------------------------------------
(* The world *)

\* An interval ends.  The loop of a phone turns several times in one.
Tick ==
  /\ \A p \in Phones : thread[p] \in {"receive", "sweep"} => ~late[p]
  /\ silence' = [e \in Devices |-> [f \in Devices |->
       IF status[e][f] = "None" \/ silence[e][f] > RemoveAfter THEN silence[e][f]
       ELSE silence[e][f] + 1]]
  /\ late' = [p \in Phones |-> thread[p] \in {"receive", "sweep"}]
  /\ UNCHANGED <<running, socketVars, thread, status, list, lan, mail>>

Lose(e, f) ==
  /\ mail[e][f] # "none"
  /\ mail' = Taken(f, e)
  /\ UNCHANGED <<running, socketVars, thread, late, tableVars, lan>>

LanChanges ==
  /\ lan' = ~lan
  /\ UNCHANGED <<running, socketVars, thread, late, tableVars, mail>>

DesktopNext(d) ==
  \/ Start(d) \/ Stop(d) \/ Announce(d) \/ Retry(d) \/ Sweep(d)
  \/ \E p \in Phones : Invite(d, p)
  \/ \E e \in Devices : Receive(d, e)

Loop(p) ==
  \/ PhoneEnd(p) \/ Turn(p, TRUE) \/ Turn(p, FALSE) \/ TurnClosed(p)
  \/ \E e \in Devices : PhoneReceive(p, e)
  \/ ReceiveTimeout(p) \/ PhoneSweep(p) \/ NoSweep(p)

PhoneNext(p) ==
  \/ PhoneStart(p) \/ PhoneStop(p) \/ RequestRebind(p) \/ Loop(p)
  \/ \E d \in Desktops : Probe(p, d)

Next ==
  \/ \E d \in Desktops : DesktopNext(d)
  \/ \E p \in Phones : PhoneNext(p)
  \/ Tick \/ LanChanges
  \/ \E e, f \in Devices : Lose(e, f)

Read(e, f) ==
  /\ mail[e][f] \in {"announce", "reply"}
  /\ \/ f \in Desktops /\ Receive(f, e)
     \/ f \in Phones /\ PhoneReceive(f, e)

\* Timers fire, loops turn and in some turns announce and sweep, and of the
\* announces and replies that keep coming to an open socket some are read.
Fairness ==
  /\ WF_vars(Tick)
  /\ \A d \in Desktops : WF_vars(Announce(d)) /\ WF_vars(Sweep(d)) /\ WF_vars(Retry(d))
  /\ \A p \in Phones :
       WF_vars(Loop(p)) /\ SF_vars(Turn(p, TRUE)) /\ SF_vars(PhoneSweep(p))
  /\ \A e \in Devices : \A f \in Devices \ {e} :
       []<>(mail[e][f] \in {"announce", "reply"} /\ open[f]) => []<><<Read(e, f)>>_vars

Spec == Init /\ [][Next]_vars /\ Fairness

-----------------------------------------------------------------------------
(* Properties *)

\* Type invariant: the ranges of the fields of both services.
TypeOK ==
  /\ running \in [Devices -> BOOLEAN] /\ open \in [Devices -> BOOLEAN]
  /\ bound \in [Desktops -> BOOLEAN] /\ rebind \in [Devices -> BOOLEAN]
  /\ thread \in [Phones -> {"none", "top", "receive", "sweep"}]
  /\ late \in [Phones -> BOOLEAN]
  /\ status \in [Devices -> [Devices -> {"None", "Online", "Offline"}]]
  /\ silence \in [Devices -> [Devices -> 0 .. RemoveAfter + 1]]
  /\ list \in [Devices -> [Devices -> {"None", "Online", "Offline"}]]
  /\ lan \in BOOLEAN
  /\ mail \in [Devices -> [Devices -> {"none", "announce", "reply", "invite"}]]

\* A desktop that runs has a socket it can announce with or a timer that will
\* get it one, and never both: no failed send or bind leaves it silent for good
\* (scheduleRebind without the timer), and no success leaves the timer
\* replacing a good socket every second (onRebindTimer without its stop).
BoundOrRetrying ==
  \A d \in Desktops :
    /\ bound[d] => open[d]
    /\ running[d] => (rebind[d] <=> ~bound[d])
    /\ ~running[d] => ~open[d] /\ ~rebind[d]

\* What is listed is what was heard: a device shown as Offline has been silent
\* for as long as that takes, also where the sweep uses an old clock; the
\* manager's list agrees with the service's table on every device in it, and has
\* more only on a phone, which lists whoever invites it; a service that stopped
\* lists nobody, whatever its thread was still doing.
TableIsTrue ==
  \A e, f \in Devices :
    /\ status[e][f] = "Offline" => silence[e][f] >= OfflineAfter
    /\ status[e][f] # "None" => list[e][f] = status[e][f]
    /\ list[e][f] # "None" /\ status[e][f] = "None" => e \in Phones
    /\ list[e][f] # "None" => IF e \in Phones THEN thread[e] # "none" ELSE running[e]

\* "A reply is never answered, so the two devices exchange at most one extra
\* datagram per announce": taking a datagram off the network puts none back,
\* or a reply where it was an announce.
AnswersEnd ==
  [][\A e \in Devices : \A f \in Devices \ {e} :
       mail[e][f] # "none" /\ mail'[e][f] = "none" =>
         \/ mail'[f][e] = mail[f][e]
         \/ mail[e][f] = "announce" /\ mail'[f][e] = "reply"]_vars

\* Two devices that stay on a network that works keep finding each other, even
\* if the broadcasts of one of them never arrive: "it only has to work in one
\* of the two directions".  The rebind after a failed send is part of it.
PeerFound ==
  \A d \in Desktops : \A e \in Devices \ {d} :
    <>[](running[d] /\ running[e] /\ lan /\ SameVersion(d, e)
         /\ ~({d, e} \subseteq Muffled)) =>
      []<>(list[d][e] = "Online") /\ []<>(list[e][d] = "Online")

\* A device that is gone for good leaves the table of those who stay, although
\* a last datagram of it may arrive late and although a new socket, a stop and
\* a restart may come between the sweeps.
GoneForgotten ==
  \A d, e \in Devices :
    <>[](running[d] /\ ~running[e]) => <>[](status[d][e] = "None")

=============================================================================
