-------------------------- MODULE Discovery_proofs --------------------------
(***************************************************************************)
(* Theorems about Discovery.                                               *)
(***************************************************************************)
EXTENDS Discovery, TLAPS

IInv == TypeOK /\ BoundOrRetrying /\ TableIsTrue

LEMMA InitInv == Init => IInv
  BY DiscoveryAssumption
  DEF Init, IInv, TypeOK, BoundOrRetrying, TableIsTrue, Devices, Nobody, Never, NoMail

Mails == [Devices -> [Devices -> {"none", "announce", "reply", "invite"}]]

\* The fields that tell the truth or not, and the others: the provers like them
\* apart.
Flags ==
  /\ running \in [Devices -> BOOLEAN] /\ open \in [Devices -> BOOLEAN]
  /\ bound \in [Desktops -> BOOLEAN] /\ rebind \in [Devices -> BOOLEAN]
  /\ late \in [Phones -> BOOLEAN] /\ lan \in BOOLEAN
Fields ==
  /\ thread \in [Phones -> {"none", "top", "receive", "sweep"}]
  /\ status \in [Devices -> [Devices -> {"None", "Online", "Offline"}]]
  /\ silence \in [Devices -> [Devices -> 0 .. RemoveAfter + 1]]
  /\ list \in [Devices -> [Devices -> {"None", "Online", "Offline"}]]
  /\ mail \in Mails

LEMMA TypesNext == TypeOK' <=> Flags' /\ Fields'
  BY DEF TypeOK, Flags, Fields, Mails, Mails

LEMMA OldMail == TypeOK => mail \in Mails
  BY DEF TypeOK, Mails

LEMMA BroadcastType ==
  ASSUME TypeOK, NEW e \in Devices, NEW kind \in {"announce", "reply", "invite"}
  PROVE  Broadcast(e, kind) \in Mails
  BY DEF TypeOK, Broadcast, Mails

LEMMA AnsweredType ==
  ASSUME TypeOK, NEW e \in Devices, NEW f \in Devices
  PROVE  /\ Answered(f, e) \in Mails
         /\ Taken(f, e) \in Mails
  BY DEF TypeOK, Answered, Taken, Mails

\* A table that hears a device has the right types, changes one entry to Online
\* and restarts its silence.
LEMMA HearEffect ==
  ASSUME TypeOK, NEW f \in Devices, NEW e \in Devices, Hear(f, e)
  PROVE  /\ status' \in [Devices -> [Devices -> {"None", "Online", "Offline"}]]
         /\ silence' \in [Devices -> [Devices -> 0 .. RemoveAfter + 1]]
         /\ status'[f][e] = "Online"
         /\ \A g, h \in Devices : <<g, h>> # <<f, e>> =>
              status'[g][h] = status[g][h] /\ silence'[g][h] = silence[g][h]
  <1>1. status' \in [Devices -> [Devices -> {"None", "Online", "Offline"}]]
    BY DEF TypeOK, Hear
  <1>2. silence' \in [Devices -> [Devices -> 0 .. RemoveAfter + 1]]
    BY DiscoveryAssumption DEF TypeOK, Hear
  <1>3. status'[f][e] = "Online"
    BY DEF TypeOK, Hear
  <1>4. ASSUME NEW g \in Devices, NEW h \in Devices, <<g, h>> # <<f, e>>
        PROVE  status'[g][h] = status[g][h] /\ silence'[g][h] = silence[g][h]
    BY <1>4 DEF TypeOK, Hear
  <1>. QED BY <1>1, <1>2, <1>3, <1>4

LEMMA StartInv ==
  ASSUME IInv, NEW d \in Desktops, Start(d)
  PROVE  IInv'
  <1>. d \in Devices /\ d \notin Phones
    BY DiscoveryAssumption DEF Devices
  <1>1. Flags'
    BY Zenon DEF IInv, TypeOK, Flags, Start, socketVars, tableVars
  <1>2. Fields'
    BY DiscoveryAssumption DEF IInv, TypeOK, Fields, Mails, Start, socketVars, tableVars
  <1>3. BoundOrRetrying'
    BY DiscoveryAssumption DEF IInv, TypeOK, BoundOrRetrying, Devices, Start, socketVars, tableVars
  <1>4. TableIsTrue'
    BY DiscoveryAssumption DEF IInv, TypeOK, TableIsTrue, Devices, Start, socketVars, tableVars
  <1>. QED BY <1>1, <1>2, <1>3, <1>4, TypesNext DEF IInv

LEMMA StopInv ==
  ASSUME IInv, NEW d \in Desktops, Stop(d)
  PROVE  IInv'
  <1>. d \in Devices /\ d \notin Phones
    BY DiscoveryAssumption DEF Devices
  <1>1. Flags'
    BY Zenon DEF IInv, TypeOK, Flags, Stop, Nobody, Never, socketVars, tableVars
  <1>2. Fields'
    BY DiscoveryAssumption DEF IInv, TypeOK, Fields, Mails, Stop, Nobody, Never, socketVars, tableVars
  <1>3. BoundOrRetrying'
    BY DiscoveryAssumption DEF IInv, TypeOK, BoundOrRetrying, Devices, Stop, Nobody, Never, socketVars, tableVars
  <1>4. TableIsTrue'
    BY DiscoveryAssumption DEF IInv, TypeOK, TableIsTrue, Devices, Stop, Nobody, Never, socketVars, tableVars
  <1>. QED BY <1>1, <1>2, <1>3, <1>4, TypesNext DEF IInv

LEMMA AnnounceInv ==
  ASSUME IInv, NEW d \in Desktops, Announce(d)
  PROVE  IInv'
  <1>. d \in Devices /\ d \notin Phones
    BY DiscoveryAssumption DEF Devices
  <1>1. Flags'
    BY Zenon DEF IInv, TypeOK, Flags, Announce, BroadcastAnnounce, ScheduleRebind, socketVars, tableVars
  <1>m. mail' \in Mails
    BY BroadcastType, OldMail DEF IInv, Announce, BroadcastAnnounce
  <1>2. Fields'
    BY <1>m, DiscoveryAssumption DEF IInv, TypeOK, Fields, Announce, tableVars
  <1>3. BoundOrRetrying'
    BY DiscoveryAssumption DEF IInv, TypeOK, BoundOrRetrying, Devices, Announce, BroadcastAnnounce, ScheduleRebind, socketVars, tableVars
  <1>4. TableIsTrue'
    BY DiscoveryAssumption DEF IInv, TypeOK, TableIsTrue, Devices, Announce, BroadcastAnnounce, ScheduleRebind, socketVars, tableVars
  <1>. QED BY <1>1, <1>2, <1>3, <1>4, TypesNext DEF IInv

LEMMA RetryInv ==
  ASSUME IInv, NEW d \in Desktops, Retry(d)
  PROVE  IInv'
  <1>. d \in Devices /\ d \notin Phones
    BY DiscoveryAssumption DEF Devices
  <1>1. Flags'
    BY Zenon DEF IInv, TypeOK, Flags, Retry, BroadcastAnnounce, ScheduleRebind, socketVars, tableVars
  <1>m. mail' \in Mails
    BY BroadcastType, OldMail DEF IInv, Retry, BroadcastAnnounce
  <1>2. Fields'
    BY <1>m, DiscoveryAssumption DEF IInv, TypeOK, Fields, Retry, tableVars
  <1>3. BoundOrRetrying'
    BY DiscoveryAssumption DEF IInv, TypeOK, BoundOrRetrying, Devices, Retry, BroadcastAnnounce, ScheduleRebind, socketVars, tableVars
  <1>4. TableIsTrue'
    BY DiscoveryAssumption DEF IInv, TypeOK, TableIsTrue, Devices, Retry, BroadcastAnnounce, ScheduleRebind, socketVars, tableVars
  <1>. QED BY <1>1, <1>2, <1>3, <1>4, TypesNext DEF IInv

LEMMA InviteInv ==
  ASSUME IInv, NEW d \in Desktops, NEW p \in Phones, Invite(d, p)
  PROVE  IInv'
  <1>. d \in Devices /\ d \notin Phones /\ p \in Devices
    BY DiscoveryAssumption DEF Devices
  <1>1. Flags'
    BY Zenon DEF IInv, TypeOK, Flags, Invite, ScheduleRebind, socketVars, tableVars
  <1>m. mail' \in Mails
    <2>1. CASE UNCHANGED mail
      BY <2>1, OldMail DEF IInv
    <2>2. CASE mail' = [mail EXCEPT ![d][p] = "invite"]
      BY <2>2, OldMail DEF IInv, Mails
    <2>. QED BY <2>1, <2>2 DEF Invite
  <1>2. Fields'
    BY <1>m, DiscoveryAssumption DEF IInv, TypeOK, Fields, Invite, tableVars
  <1>3. BoundOrRetrying'
    BY DiscoveryAssumption DEF IInv, TypeOK, BoundOrRetrying, Devices, Invite, ScheduleRebind, socketVars, tableVars
  <1>4. TableIsTrue'
    BY DiscoveryAssumption DEF IInv, TypeOK, TableIsTrue, Devices, Invite, ScheduleRebind, socketVars, tableVars
  <1>. QED BY <1>1, <1>2, <1>3, <1>4, TypesNext DEF IInv

LEMMA ReceiveInv ==
  ASSUME IInv, NEW d \in Desktops, NEW e \in Devices, Receive(d, e)
  PROVE  IInv'
  <1>. d \in Devices /\ d \notin Phones
    BY DiscoveryAssumption DEF Devices
  <1>1. Flags'
    BY Zenon DEF IInv, TypeOK, Flags, Receive, Hear, socketVars, tableVars
  <1>m. mail' \in Mails
    BY AnsweredType DEF IInv, Receive
  <1>2. Fields'
    <2>1. CASE UNCHANGED tableVars
      BY <1>m, <2>1 DEF IInv, TypeOK, Fields, Receive, tableVars
    <2>2. CASE Hear(d, e) /\ list' = [list EXCEPT ![d][e] = "Online"]
      <3>1. /\ status' \in [Devices -> [Devices -> {"None", "Online", "Offline"}]]
            /\ silence' \in [Devices -> [Devices -> 0 .. RemoveAfter + 1]]
        BY <2>2, HearEffect DEF IInv
      <3>2. list' \in [Devices -> [Devices -> {"None", "Online", "Offline"}]]
        BY <2>2, <3>1 DEF IInv, TypeOK
      <3>. QED BY <1>m, <3>1, <3>2 DEF IInv, TypeOK, Fields, Receive
    <2>. QED BY <2>1, <2>2 DEF Receive, SameVersion
  <1>3. BoundOrRetrying'
    BY DiscoveryAssumption DEF IInv, TypeOK, BoundOrRetrying, Devices, Receive, Hear, socketVars, tableVars
  <1>4. TableIsTrue'
    <2>1. CASE UNCHANGED tableVars
      BY <2>1 DEF IInv, TypeOK, TableIsTrue, Receive, tableVars
    <2>2. CASE Hear(d, e) /\ list' = [list EXCEPT ![d][e] = "Online"]
      <3>1. list'[d][e] = "Online" /\ running[d]
        BY <2>2 DEF IInv, TypeOK, Receive
      <3>2. \A g, h \in Devices : <<g, h>> # <<d, e>> => list'[g][h] = list[g][h]
        BY <2>2 DEF IInv, TypeOK
      <3>3. /\ status'[d][e] = "Online"
            /\ \A g, h \in Devices : <<g, h>> # <<d, e>> =>
                 status'[g][h] = status[g][h] /\ silence'[g][h] = silence[g][h]
        BY <2>2, HearEffect DEF IInv
      <3>4. UNCHANGED <<running, thread>>
        BY DEF Receive
      <3>. QED BY <3>1, <3>2, <3>3, <3>4 DEF IInv, TableIsTrue
    <2>. QED BY <2>1, <2>2 DEF Receive
  <1>. QED BY <1>1, <1>2, <1>3, <1>4, TypesNext DEF IInv

LEMMA SweepInv ==
  ASSUME IInv, NEW d \in Desktops, Sweep(d)
  PROVE  IInv'
  <1>. d \in Devices /\ d \notin Phones
    BY DiscoveryAssumption DEF Devices
  <1>1. Flags'
    BY Zenon DEF IInv, TypeOK, Flags, Sweep, Swept, Forgotten, socketVars, tableVars
  <1>2. Fields'
    BY DiscoveryAssumption DEF IInv, TypeOK, Fields, Mails, Sweep, Swept, Forgotten, socketVars, tableVars
  <1>3. BoundOrRetrying'
    BY DiscoveryAssumption DEF IInv, TypeOK, BoundOrRetrying, Devices, Sweep, Swept, Forgotten, socketVars, tableVars
  <1>4. TableIsTrue'
    BY DiscoveryAssumption DEF IInv, TypeOK, TableIsTrue, Devices, Sweep, Swept, Forgotten, socketVars, tableVars
  <1>. QED BY <1>1, <1>2, <1>3, <1>4, TypesNext DEF IInv

LEMMA PhoneStartInv ==
  ASSUME IInv, NEW p \in Phones, PhoneStart(p)
  PROVE  IInv'
  <1>. p \in Devices /\ p \notin Desktops
    BY DiscoveryAssumption DEF Devices
  <1>1. Flags'
    BY Zenon DEF IInv, TypeOK, Flags, PhoneStart, socketVars, tableVars
  <1>2. Fields'
    BY DiscoveryAssumption DEF IInv, TypeOK, Fields, Mails, PhoneStart, socketVars, tableVars
  <1>3. BoundOrRetrying'
    BY DiscoveryAssumption DEF IInv, TypeOK, BoundOrRetrying, Devices, PhoneStart, socketVars, tableVars
  <1>4. TableIsTrue'
    BY DiscoveryAssumption DEF IInv, TypeOK, TableIsTrue, Devices, PhoneStart, socketVars, tableVars
  <1>. QED BY <1>1, <1>2, <1>3, <1>4, TypesNext DEF IInv

LEMMA PhoneStopInv ==
  ASSUME IInv, NEW p \in Phones, PhoneStop(p)
  PROVE  IInv'
  <1>. p \in Devices /\ p \notin Desktops
    BY DiscoveryAssumption DEF Devices
  <1>1. Flags'
    BY Zenon DEF IInv, TypeOK, Flags, PhoneStop, socketVars, tableVars
  <1>2. Fields'
    BY DiscoveryAssumption DEF IInv, TypeOK, Fields, Mails, PhoneStop, socketVars, tableVars
  <1>3. BoundOrRetrying'
    BY DiscoveryAssumption DEF IInv, TypeOK, BoundOrRetrying, Devices, PhoneStop, socketVars, tableVars
  <1>4. TableIsTrue'
    BY DiscoveryAssumption DEF IInv, TypeOK, TableIsTrue, Devices, PhoneStop, socketVars, tableVars
  <1>. QED BY <1>1, <1>2, <1>3, <1>4, TypesNext DEF IInv

LEMMA PhoneEndInv ==
  ASSUME IInv, NEW p \in Phones, PhoneEnd(p)
  PROVE  IInv'
  <1>. p \in Devices /\ p \notin Desktops
    BY DiscoveryAssumption DEF Devices
  <1>1. Flags'
    BY Zenon DEF IInv, TypeOK, Flags, PhoneEnd, Nobody, Never, socketVars, tableVars
  <1>2. Fields'
    BY DiscoveryAssumption DEF IInv, TypeOK, Fields, Mails, PhoneEnd, Nobody, Never, socketVars, tableVars
  <1>3. BoundOrRetrying'
    BY DiscoveryAssumption DEF IInv, TypeOK, BoundOrRetrying, Devices, PhoneEnd, Nobody, Never, socketVars, tableVars
  <1>4. TableIsTrue'
    BY DiscoveryAssumption DEF IInv, TypeOK, TableIsTrue, Devices, PhoneEnd, Nobody, Never, socketVars, tableVars
  <1>. QED BY <1>1, <1>2, <1>3, <1>4, TypesNext DEF IInv

LEMMA RequestRebindInv ==
  ASSUME IInv, NEW p \in Phones, RequestRebind(p)
  PROVE  IInv'
  <1>. p \in Devices /\ p \notin Desktops
    BY DiscoveryAssumption DEF Devices
  <1>1. Flags'
    BY Zenon DEF IInv, TypeOK, Flags, RequestRebind, socketVars, tableVars
  <1>2. Fields'
    BY DiscoveryAssumption DEF IInv, TypeOK, Fields, Mails, RequestRebind, socketVars, tableVars
  <1>3. BoundOrRetrying'
    BY DiscoveryAssumption DEF IInv, TypeOK, BoundOrRetrying, Devices, RequestRebind, socketVars, tableVars
  <1>4. TableIsTrue'
    BY DiscoveryAssumption DEF IInv, TypeOK, TableIsTrue, Devices, RequestRebind, socketVars, tableVars
  <1>. QED BY <1>1, <1>2, <1>3, <1>4, TypesNext DEF IInv

LEMMA TurnInv ==
  ASSUME IInv, NEW p \in Phones, NEW announces \in BOOLEAN, Turn(p, announces)
  PROVE  IInv'
  <1>. p \in Devices /\ p \notin Desktops
    BY DiscoveryAssumption DEF Devices
  <1>1. Flags'
    BY Zenon DEF IInv, TypeOK, Flags, Turn, socketVars, tableVars
  <1>2. Fields'
    BY DiscoveryAssumption, BroadcastType DEF IInv, TypeOK, Fields, Mails, Turn, socketVars, tableVars
  <1>3. BoundOrRetrying'
    BY DiscoveryAssumption DEF IInv, TypeOK, BoundOrRetrying, Devices, Turn, socketVars, tableVars
  <1>4. TableIsTrue'
    BY DiscoveryAssumption DEF IInv, TypeOK, TableIsTrue, Devices, Turn, socketVars, tableVars
  <1>. QED BY <1>1, <1>2, <1>3, <1>4, TypesNext DEF IInv

LEMMA TurnClosedInv ==
  ASSUME IInv, NEW p \in Phones, TurnClosed(p)
  PROVE  IInv'
  <1>. p \in Devices /\ p \notin Desktops
    BY DiscoveryAssumption DEF Devices
  <1>1. Flags'
    BY Zenon DEF IInv, TypeOK, Flags, TurnClosed, socketVars, tableVars
  <1>2. Fields'
    BY DiscoveryAssumption DEF IInv, TypeOK, Fields, Mails, TurnClosed, socketVars, tableVars
  <1>3. BoundOrRetrying'
    BY DiscoveryAssumption DEF IInv, TypeOK, BoundOrRetrying, Devices, TurnClosed, socketVars, tableVars
  <1>4. TableIsTrue'
    BY DiscoveryAssumption DEF IInv, TypeOK, TableIsTrue, Devices, TurnClosed, socketVars, tableVars
  <1>. QED BY <1>1, <1>2, <1>3, <1>4, TypesNext DEF IInv

LEMMA PhoneReceiveInv ==
  ASSUME IInv, NEW p \in Phones, NEW e \in Devices, PhoneReceive(p, e)
  PROVE  IInv'
  <1>. p \in Devices /\ p \notin Desktops
    BY DiscoveryAssumption DEF Devices
  <1>1. Flags'
    BY Zenon DEF IInv, TypeOK, Flags, PhoneReceive, Hear, socketVars, tableVars
  <1>m. mail' \in Mails
    BY AnsweredType DEF IInv, PhoneReceive
  <1>2. Fields'
    <2>1. CASE /\ UNCHANGED <<status, silence>>
               /\ list' = list \/ list' = [list EXCEPT ![p][e] = "Online"]
      <3>1. list' \in [Devices -> [Devices -> {"None", "Online", "Offline"}]]
        <4>1. list \in [Devices -> [Devices -> {"None", "Online", "Offline"}]]
          BY DEF IInv, TypeOK
        <4>2. CASE list' = list
          BY <4>1, <4>2
        <4>3. CASE list' = [list EXCEPT ![p][e] = "Online"]
          BY <4>1, <4>3
        <4>. QED BY <2>1, <4>2, <4>3
      <3>2. thread' \in [Phones -> {"none", "top", "receive", "sweep"}]
        BY DEF IInv, TypeOK, PhoneReceive
      <3>. QED BY <1>m, <2>1, <3>1, <3>2 DEF IInv, TypeOK, Fields
    <2>2. CASE Hear(p, e) /\ list' = [list EXCEPT ![p] = status'[p]]
      <3>1. /\ status' \in [Devices -> [Devices -> {"None", "Online", "Offline"}]]
            /\ silence' \in [Devices -> [Devices -> 0 .. RemoveAfter + 1]]
        BY <2>2, HearEffect DEF IInv
      <3>2. list' \in [Devices -> [Devices -> {"None", "Online", "Offline"}]]
        BY <2>2, <3>1 DEF IInv, TypeOK
      <3>3. thread' \in [Phones -> {"none", "top", "receive", "sweep"}]
        BY DEF IInv, TypeOK, PhoneReceive
      <3>. QED BY <1>m, <3>1, <3>2, <3>3 DEF Fields
    <2>. QED BY <2>1, <2>2 DEF PhoneReceive, tableVars
  <1>3. BoundOrRetrying'
    BY DiscoveryAssumption DEF IInv, TypeOK, BoundOrRetrying, Devices, PhoneReceive, Hear, socketVars, tableVars
  <1>4. TableIsTrue'
    BY DiscoveryAssumption DEF IInv, TypeOK, TableIsTrue, Devices, PhoneReceive, Hear, socketVars, tableVars
  <1>. QED BY <1>1, <1>2, <1>3, <1>4, TypesNext DEF IInv

LEMMA ReceiveTimeoutInv ==
  ASSUME IInv, NEW p \in Phones, ReceiveTimeout(p)
  PROVE  IInv'
  <1>. p \in Devices /\ p \notin Desktops
    BY DiscoveryAssumption DEF Devices
  <1>1. Flags'
    BY Zenon DEF IInv, TypeOK, Flags, ReceiveTimeout, socketVars, tableVars
  <1>2. Fields'
    BY DiscoveryAssumption DEF IInv, TypeOK, Fields, Mails, ReceiveTimeout, socketVars, tableVars
  <1>3. BoundOrRetrying'
    BY DiscoveryAssumption DEF IInv, TypeOK, BoundOrRetrying, Devices, ReceiveTimeout, socketVars, tableVars
  <1>4. TableIsTrue'
    BY DiscoveryAssumption DEF IInv, TypeOK, TableIsTrue, Devices, ReceiveTimeout, socketVars, tableVars
  <1>. QED BY <1>1, <1>2, <1>3, <1>4, TypesNext DEF IInv

LEMMA PhoneSweepInv ==
  ASSUME IInv, NEW p \in Phones, PhoneSweep(p)
  PROVE  IInv'
  <1>. p \in Devices /\ p \notin Desktops
    BY DiscoveryAssumption DEF Devices
  <1>1. Flags'
    BY Zenon DEF IInv, TypeOK, Flags, PhoneSweep, Swept, Forgotten, socketVars, tableVars
  <1>2. Fields'
    BY DiscoveryAssumption DEF IInv, TypeOK, Fields, Mails, PhoneSweep, Swept, Forgotten, socketVars, tableVars
  <1>3. BoundOrRetrying'
    BY DiscoveryAssumption DEF IInv, TypeOK, BoundOrRetrying, Devices, PhoneSweep, Swept, Forgotten, socketVars, tableVars
  <1>4. TableIsTrue'
    <2> DEFINE now   == [f \in Devices |-> silence[p][f] - IF late[p] THEN 1 ELSE 0]
               table == Swept(p, now)
    <2>1. /\ status' = [status EXCEPT ![p] = table]
          /\ silence' = Forgotten(p, table)
          /\ list' = IF table = status[p] THEN list ELSE [list EXCEPT ![p] = table]
          /\ UNCHANGED running
      BY DEF PhoneSweep
    <2>2. \A f \in Devices :
            /\ now[f] <= silence[p][f]
            /\ table[f] = "Offline" => status[p][f] # "None" /\ silence[p][f] >= OfflineAfter
            /\ table[f] # "None" => status[p][f] # "None"
      <3>1. \A f \in Devices : silence[p][f] \in Int /\ now[f] \in Int /\ now[f] <= silence[p][f]
        BY DiscoveryAssumption DEF IInv, TypeOK
      <3>. QED BY <3>1, DiscoveryAssumption DEF IInv, TableIsTrue, Swept
    <2>3. thread[p] = "sweep" /\ thread' = [thread EXCEPT ![p] = "top"]
      BY DEF PhoneSweep
    <2> HIDE DEF table
    <2>4. ASSUME NEW f \in Devices, NEW g \in Devices, f # p
          PROVE  /\ status'[f][g] = status[f][g] /\ silence'[f][g] = silence[f][g]
                 /\ list'[f][g] = list[f][g]
      BY <2>1, <2>4 DEF IInv, TypeOK, Forgotten
    <2>5. ASSUME NEW g \in Devices
          PROVE  /\ status'[p][g] = table[g]
                 /\ table[g] # "None" => silence'[p][g] = silence[p][g]
                 /\ list'[p] = table \/ (list' = list /\ table = status[p])
      <3>1. status'[p][g] = table[g]
        BY <2>1 DEF IInv, TypeOK
      <3>2. table[g] # "None" => silence'[p][g] = silence[p][g]
        BY <2>1 DEF IInv, TypeOK, Forgotten
      <3>3. list'[p] = table \/ (list' = list /\ table = status[p])
        BY <2>1 DEF IInv, TypeOK
      <3>. QED BY <3>1, <3>2, <3>3
    <2>6. thread'[p] = "top" /\ \A f \in Phones \ {p} : thread'[f] = thread[f]
      BY <2>3 DEF IInv, TypeOK
    <2> SUFFICES ASSUME NEW f \in Devices, NEW g \in Devices
                 PROVE  /\ status'[f][g] = "Offline" => silence'[f][g] >= OfflineAfter
                        /\ status'[f][g] # "None" => list'[f][g] = status'[f][g]
                        /\ list'[f][g] # "None" /\ status'[f][g] = "None" => f \in Phones
                        /\ list'[f][g] # "None" =>
                             IF f \in Phones THEN thread'[f] # "none" ELSE running'[f]
      BY DEF TableIsTrue
    <2>7. CASE f = p
      BY <2>2, <2>5, <2>6, <2>7 DEF IInv, TableIsTrue
    <2>8. CASE f # p
      BY <2>1, <2>4, <2>6, <2>8 DEF IInv, TableIsTrue
    <2>. QED BY <2>7, <2>8
  <1>. QED BY <1>1, <1>2, <1>3, <1>4, TypesNext DEF IInv

LEMMA NoSweepInv ==
  ASSUME IInv, NEW p \in Phones, NoSweep(p)
  PROVE  IInv'
  <1>. p \in Devices /\ p \notin Desktops
    BY DiscoveryAssumption DEF Devices
  <1>1. Flags'
    BY Zenon DEF IInv, TypeOK, Flags, NoSweep, socketVars, tableVars
  <1>2. Fields'
    BY DiscoveryAssumption DEF IInv, TypeOK, Fields, Mails, NoSweep, socketVars, tableVars
  <1>3. BoundOrRetrying'
    BY DiscoveryAssumption DEF IInv, TypeOK, BoundOrRetrying, Devices, NoSweep, socketVars, tableVars
  <1>4. TableIsTrue'
    BY DiscoveryAssumption DEF IInv, TypeOK, TableIsTrue, Devices, NoSweep, socketVars, tableVars
  <1>. QED BY <1>1, <1>2, <1>3, <1>4, TypesNext DEF IInv

LEMMA ProbeInv ==
  ASSUME IInv, NEW p \in Phones, NEW d \in Desktops, Probe(p, d)
  PROVE  IInv'
  <1>. p \in Devices /\ p \notin Desktops /\ d \in Devices
    BY DiscoveryAssumption DEF Devices
  <1>1. Flags'
    BY Zenon DEF IInv, TypeOK, Flags, Probe, socketVars, tableVars
  <1>2. Fields'
    BY DiscoveryAssumption DEF IInv, TypeOK, Fields, Mails, Probe, socketVars, tableVars
  <1>3. BoundOrRetrying'
    BY DiscoveryAssumption DEF IInv, TypeOK, BoundOrRetrying, Devices, Probe, socketVars, tableVars
  <1>4. TableIsTrue'
    BY DiscoveryAssumption DEF IInv, TypeOK, TableIsTrue, Devices, Probe, socketVars, tableVars
  <1>. QED BY <1>1, <1>2, <1>3, <1>4, TypesNext DEF IInv

LEMMA TickInv ==
  ASSUME IInv, Tick
  PROVE  IInv'
  <1>1. Flags'
    BY DEF IInv, TypeOK, Flags, Tick, socketVars
  <1>2. Fields'
    BY DiscoveryAssumption DEF IInv, TypeOK, Fields, Mails, Tick, socketVars, tableVars
  <1>3. BoundOrRetrying'
    BY DiscoveryAssumption DEF IInv, TypeOK, BoundOrRetrying, Devices, Tick, socketVars, tableVars
  <1>4. TableIsTrue'
    BY DiscoveryAssumption DEF IInv, TypeOK, TableIsTrue, Devices, Tick, socketVars, tableVars
  <1>. QED BY <1>1, <1>2, <1>3, <1>4, TypesNext DEF IInv

LEMMA LoseInv ==
  ASSUME IInv, NEW e \in Devices, NEW f \in Devices, Lose(e, f)
  PROVE  IInv'
  <1>. e \in Devices
    BY DiscoveryAssumption DEF Devices
  <1>1. Flags'
    BY Zenon DEF IInv, TypeOK, Flags, Lose, socketVars, tableVars
  <1>2. Fields'
    BY DiscoveryAssumption, AnsweredType DEF IInv, TypeOK, Fields, Mails, Lose, socketVars, tableVars
  <1>3. BoundOrRetrying'
    BY DiscoveryAssumption DEF IInv, TypeOK, BoundOrRetrying, Devices, Lose, socketVars, tableVars
  <1>4. TableIsTrue'
    BY DiscoveryAssumption DEF IInv, TypeOK, TableIsTrue, Devices, Lose, socketVars, tableVars
  <1>. QED BY <1>1, <1>2, <1>3, <1>4, TypesNext DEF IInv

LEMMA LanChangesInv ==
  ASSUME IInv, LanChanges
  PROVE  IInv'
  <1>1. Flags'
    BY Zenon DEF IInv, TypeOK, Flags, LanChanges, socketVars, tableVars
  <1>2. Fields'
    BY DiscoveryAssumption DEF IInv, TypeOK, Fields, Mails, LanChanges, socketVars, tableVars
  <1>3. BoundOrRetrying'
    BY DiscoveryAssumption DEF IInv, TypeOK, BoundOrRetrying, Devices, LanChanges, socketVars, tableVars
  <1>4. TableIsTrue'
    BY DiscoveryAssumption DEF IInv, TypeOK, TableIsTrue, Devices, LanChanges, socketVars, tableVars
  <1>. QED BY <1>1, <1>2, <1>3, <1>4, TypesNext DEF IInv

LEMMA StepInv == IInv /\ [Next]_vars => IInv'
  <1> SUFFICES ASSUME IInv, [Next]_vars PROVE IInv'
    OBVIOUS
  <1>1. ASSUME NEW d \in Desktops, DesktopNext(d) PROVE IInv'
    BY <1>1, StartInv, StopInv, AnnounceInv, RetryInv, InviteInv, ReceiveInv, SweepInv
    DEF DesktopNext
  <1>2. ASSUME NEW p \in Phones, Loop(p) PROVE IInv'
    BY <1>2, PhoneEndInv, TurnInv, TurnClosedInv, PhoneReceiveInv, ReceiveTimeoutInv,
       PhoneSweepInv, NoSweepInv
    DEF Loop
  <1>3. ASSUME NEW p \in Phones, PhoneNext(p) PROVE IInv'
    BY <1>2, <1>3, PhoneStartInv, PhoneStopInv, RequestRebindInv, ProbeInv DEF PhoneNext
  <1>4. CASE UNCHANGED vars
    BY <1>4 DEF IInv, TypeOK, BoundOrRetrying, TableIsTrue, vars, socketVars, tableVars
  <1>. QED BY <1>1, <1>3, <1>4, TickInv, LanChangesInv, LoseInv DEF Next

\* What an exchange of two devices may look like in one step.
Exchange(e, f) ==
  mail[e][f] # "none" /\ mail'[e][f] = "none" =>
    \/ mail'[f][e] = mail[f][e]
    \/ mail[e][f] = "announce" /\ mail'[f][e] = "reply"

LEMMA BroadcastExchange ==
  ASSUME TypeOK, NEW g \in Devices, mail' = Broadcast(g, "announce"),
         NEW e \in Devices, NEW f \in Devices \ {e}
  PROVE  Exchange(e, f)
  BY DEF TypeOK, Broadcast, Exchange

LEMMA AnsweredExchange ==
  ASSUME TypeOK, NEW g \in Devices, NEW h \in Devices,
         mail' \in {Answered(g, h), Taken(g, h)}, mail[h][g] # "none",
         NEW e \in Devices, NEW f \in Devices \ {e}
  PROVE  Exchange(e, f)
  <1>1. CASE mail' = Taken(g, h)
    BY <1>1 DEF TypeOK, Taken, Exchange
  <1>2. CASE mail[h][g] = "announce" /\ mail' = [Taken(g, h) EXCEPT ![g][h] = "reply"]
    BY <1>2 DEF TypeOK, Taken, Exchange
  <1>. QED BY <1>1, <1>2 DEF Answered

LEMMA PutExchange ==
  ASSUME TypeOK, NEW g \in Devices, NEW h \in Devices, NEW kind, kind # "none",
         mail' = [mail EXCEPT ![g][h] = kind],
         NEW e \in Devices, NEW f \in Devices \ {e}
  PROVE  Exchange(e, f)
  BY DEF TypeOK, Exchange

LEMMA Exchanges ==
  ASSUME TypeOK, [Next]_vars, NEW e \in Devices, NEW f \in Devices \ {e}
  PROVE  Exchange(e, f)
  <1>1. CASE UNCHANGED mail
    BY <1>1 DEF Exchange
  <1>2. ASSUME NEW d \in Desktops, DesktopNext(d) PROVE Exchange(e, f)
    <2>. d \in Devices BY DEF Devices
    <2>1. CASE Start(d) \/ Stop(d) \/ Sweep(d)
      BY <1>1, <2>1 DEF Start, Stop, Sweep
    <2>2. CASE Announce(d) \/ Retry(d)
      BY <1>1, <2>2, BroadcastExchange DEF Announce, Retry, BroadcastAnnounce
    <2>3. ASSUME NEW p \in Phones, Invite(d, p) PROVE Exchange(e, f)
      <3>. p \in Devices BY DEF Devices
      <3>. QED BY <1>1, <2>3, PutExchange DEF Invite
    <2>4. ASSUME NEW g \in Devices, Receive(d, g) PROVE Exchange(e, f)
      BY <2>4, AnsweredExchange DEF Receive
    <2>. QED BY <1>2, <2>1, <2>2, <2>3, <2>4 DEF DesktopNext
  <1>3. ASSUME NEW p \in Phones, PhoneNext(p) PROVE Exchange(e, f)
    <2>. p \in Devices BY DEF Devices
    <2>1. CASE \/ PhoneStart(p) \/ PhoneStop(p) \/ PhoneEnd(p) \/ RequestRebind(p)
               \/ TurnClosed(p) \/ ReceiveTimeout(p) \/ PhoneSweep(p) \/ NoSweep(p)
      BY <1>1, <2>1 DEF PhoneStart, PhoneStop, PhoneEnd, RequestRebind, TurnClosed,
         ReceiveTimeout, PhoneSweep, NoSweep
    <2>2. ASSUME NEW announces \in BOOLEAN, Turn(p, announces) PROVE Exchange(e, f)
      BY <1>1, <2>2, BroadcastExchange DEF Turn
    <2>3. ASSUME NEW g \in Devices, PhoneReceive(p, g) PROVE Exchange(e, f)
      BY <2>3, AnsweredExchange DEF PhoneReceive
    <2>4. ASSUME NEW d \in Desktops, Probe(p, d) PROVE Exchange(e, f)
      <3>. d \in Devices BY DEF Devices
      <3>. QED BY <2>4, PutExchange DEF Probe
    <2>. QED BY <1>3, <2>1, <2>2, <2>3, <2>4 DEF PhoneNext, Loop
  <1>4. ASSUME NEW g \in Devices, NEW h \in Devices, Lose(g, h) PROVE Exchange(e, f)
    BY <1>4, AnsweredExchange DEF Lose
  <1>5. CASE Tick \/ LanChanges
    BY <1>1, <1>5 DEF Tick, LanChanges
  <1>. QED BY <1>1, <1>2, <1>3, <1>4, <1>5 DEF Next, vars

LEMMA Inductive == Spec => []IInv
  BY InitInv, StepInv, PTL DEF Spec

\* Every field of both services keeps its range, for any number of devices of
\* any versions and any timeouts.
THEOREM TypeCorrect == Spec => []TypeOK
  BY Inductive, PTL DEF IInv

\* A desktop's discovery never goes quiet without a timer to bring it back.
THEOREM BoundOrRetryingHolds == Spec => []BoundOrRetrying
  BY Inductive, PTL DEF IInv

\* The lists agree with the tables and the tables with what was heard.
THEOREM TableIsTrueHolds == Spec => []TableIsTrue
  BY Inductive, PTL DEF IInv

\* No exchange of two devices outlives the announce that started it and one
\* reply, however many devices answer each other.
THEOREM AnswersEndHolds == Spec => AnswersEnd
  <1>1. TypeOK /\ [Next]_vars =>
          [\A e \in Devices : \A f \in Devices \ {e} : Exchange(e, f)]_vars
    BY Exchanges
  <1>. QED BY <1>1, TypeCorrect, PTL DEF Spec, AnswersEnd, Exchange

=============================================================================
