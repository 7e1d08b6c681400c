------------------------------ MODULE PhoneApp ------------------------------
(***************************************************************************)
(* The Android app around the phone's native code: MainActivity and its    *)
(* WireMicViewModel, NetworkBinder, the functions of WireMicNative.cpp and *)
(* StreamingForegroundService.                                             *)
(*                                                                         *)
(* Three threads.  The main thread runs the life cycle, the buttons and    *)
(* the service, one handler at a time; a handler that other threads can    *)
(* look into is a list of steps it still has to take.  ConnectivityThread  *)
(* runs the callbacks of every NetworkBinder, one at a time.  Discovery's  *)
(* thread opens a new socket.  A native function is one step, for it holds *)
(* gManagerMutex.                                                          *)
(*                                                                         *)
(* Of the native side there is what the app can tell: PhoneManager has the *)
(* connection in detail, Discovery the datagrams.  There is one computer,  *)
(* so a DeviceInfo that is set again is the same one, and StateFlow tells  *)
(* nobody.  Taking a network callback and entering its lock is one step.   *)
(***************************************************************************)
EXTENDS Sequences, Integers

CONSTANTS
  Lans, Vpn,       \* the networks: Wi-Fi and Ethernet, and the VPN
  Default,         \* no pin: what the routing table says
  MaxModels        \* bound: the ViewModels there are at a time

ASSUME AppAssumption ==
  Vpn \notin Lans /\ Default \notin Lans /\ MaxModels \in Nat

Models  == 1 .. MaxModels
Nets    == Lans \cup {Vpn}
Threads == {"main", "worker"}

VARIABLES
  live,            \* the ViewModels whose activity is not destroyed
  started,         \* started, of each ViewModel
  told,            \* what the callbacks of its binder know to be up
  registered, lan, vpns, bound,   \* that binder: lanNetwork, vpnCount, boundNetwork
  pin,             \* what the process is bound to
  steps, who,      \* what each thread still has to do, and for which ViewModel
  want,            \* desired, of the reconcile each thread is in
  manager,         \* gManager is not null
  sock,            \* the network discovery's socket is on, or "closed", or "none"
  rebind,          \* rebindRequested_
  listener,        \* gListener: whose, 0 when null
  link,            \* "none", or a session that streams: "again" when a screen still
                   \* showed an earlier one, otherwise "new"
  device,          \* activeDevice of each ViewModel is not null
  served,          \* what its LaunchedEffect last ran for: "none", "null" or "set"
  service,         \* the service is in the foreground
  command,         \* what it is about to be told
  untold,          \* the last pin was announced to nobody
  shared,          \* a hotspot kept each binder's last look from the pin (history)
  crossed          \* two threads owed the pin of one binder at a time, and none has
                   \* been made in order since (history)

lifeVars    == <<live, started>>
binderVars  == <<told, registered, lan, vpns, bound>>
threadVars  == <<steps, who>>
nativeVars  == <<manager, sock, rebind>>
callVars    == <<listener, link, device, served>>
serviceVars == <<service, command>>
historyVars == <<untold, shared, crossed>>
vars == <<lifeVars, binderVars, pin, threadVars, want, nativeVars, callVars,
          serviceVars, historyVars>>

\* A process begins: for the launcher, or because START_STICKY brings back the
\* service of one that was killed.
Init ==
  /\ live = {} /\ started = [m \in Models |-> FALSE]
  /\ told = [m \in Models |-> {}] /\ registered = [m \in Models |-> FALSE]
  /\ lan = [m \in Models |-> Default] /\ vpns = [m \in Models |-> 0]
  /\ bound = [m \in Models |-> Default] /\ pin = Default
  /\ steps = [t \in Threads |-> <<>>] /\ who = [t \in Threads |-> 0]
  /\ want = [t \in Threads |-> Default]
  /\ manager = FALSE /\ sock = "none" /\ rebind = FALSE
  /\ listener = 0 /\ link = "none"
  /\ device = [m \in Models |-> FALSE] /\ served = [m \in Models |-> "none"]
  /\ service = FALSE /\ command \in {"none", "start"}
  /\ untold = FALSE /\ shared = [m \in Models |-> FALSE] /\ crossed = FALSE

Idle(t)   == steps[t] = <<>>
At(t, s)  == ~Idle(t) /\ Head(steps[t]) = s
Begin(t, m, todo) ==
  /\ steps' = [steps EXCEPT ![t] = todo]
  /\ who' = [who EXCEPT ![t] = m]

\* A thread is done with the next n steps.
Skip(t, n) ==
  /\ steps' = [steps EXCEPT ![t] = SubSeq(@, n + 1, Len(@))]
  /\ who' = [who EXCEPT ![t] = IF Len(steps[t]) = n THEN 0 ELSE @]
Step(t) == Skip(t, 1)

\* The activity on the screen.
Top(m) == m \in live /\ \A o \in live : o <= m

Reconcile == <<"decide", "pin", "notify">>

-----------------------------------------------------------------------------
(* NetworkBinder *)

\* A thread has decided for the binder of m, and not yet pinned.
Owes(t, m) == At(t, "pin") /\ who[t] = m

Told(m, n) ==
  /\ Idle("worker") /\ registered[m]
  /\ told' = [told EXCEPT ![m] = IF n \in @ THEN @ \ {n} ELSE @ \cup {n}]
  /\ Begin("worker", m, Reconcile)
  /\ shared' = [shared EXCEPT ![m] = FALSE]
  /\ UNCHANGED <<lifeVars, registered, bound, pin, want, nativeVars, callVars,
                 serviceVars, untold, crossed>>

WithoutLan(m, n) == IF lan[m] = n THEN Default ELSE lan[m]

\* onAvailable or onLost of a network: nothing is said of one twice.
LanCallback(m, n) ==
  /\ n \in Lans
  /\ lan' = [lan EXCEPT ![m] = IF n \in told[m] THEN WithoutLan(m, n) ELSE n]
  /\ UNCHANGED vpns
  /\ Told(m, n)

VpnCallback(m) ==
  /\ vpns' = [vpns EXCEPT ![m] = IF Vpn \notin told[m] THEN @ + 1
                                 ELSE IF @ > 0 THEN @ - 1 ELSE @]
  /\ UNCHANGED lan
  /\ Told(m, Vpn)

\* Mutant: the process is never bound to a network.
NeverPins(m, sharing) == Default
Wanted(m, sharing) == IF vpns[m] > 0 /\ ~sharing THEN lan[m] ELSE Default

\* The critical section; when nothing changes there is nothing left to do.
\* isSharingConnection was asked before, and no callback tells of a hotspot.
Decide(t) ==
  /\ At(t, "decide")
  /\ \E sharing \in BOOLEAN :
       LET m == who[t]
           desired == Wanted(m, sharing) IN
         /\ shared' = [shared EXCEPT ![m] = sharing /\ vpns[m] > 0 /\ lan[m] # Default]
         /\ IF desired = bound[m]
            THEN Skip(t, 3) /\ UNCHANGED <<bound, want, crossed>>
            ELSE /\ bound' = [bound EXCEPT ![m] = desired]
                 /\ want' = [want EXCEPT ![t] = desired]
                 /\ crossed' = (crossed \/ \E u \in Threads \ {t} : Owes(u, m))
                 /\ Skip(t, 1)
  /\ UNCHANGED <<lifeVars, told, registered, lan, vpns, pin, nativeVars, callVars,
                 serviceVars, untold>>

\* The pin t is about to make is what its binder decided last, and nobody else
\* owes one.
InOrder(t) ==
  /\ registered[who[t]] /\ want[t] = bound[who[t]]
  /\ \A u \in Threads \ {t} : ~At(u, "pin")

BindProcess(t) ==
  /\ At(t, "pin")
  /\ pin' = want[t]
  /\ crossed' = (crossed /\ ~InOrder(t))
  /\ want' = [want EXCEPT ![t] = Default]
  /\ Step(t)
  /\ UNCHANGED <<lifeVars, binderVars, nativeVars, callVars, serviceVars, untold,
                 shared>>

\* onBoundNetworkChanged of a ViewModel that has been started.
AskForSocket(t) == rebind \/ (started[who[t]] /\ manager)

Notify(t) ==
  /\ At(t, "notify")
  /\ rebind' = AskForSocket(t)
  /\ untold' = ~started[who[t]]
  /\ Step(t)
  /\ UNCHANGED <<lifeVars, binderVars, pin, want, manager, sock, callVars,
                 serviceVars, shared, crossed>>

Register ==
  /\ At("main", "bind")
  /\ registered' = [registered EXCEPT ![who["main"]] = TRUE]
  /\ Step("main")
  /\ UNCHANGED <<lifeVars, told, lan, vpns, bound, pin, want, nativeVars, callVars,
                 serviceVars, historyVars>>

\* unbind, up to the end of its critical section.
Unregister ==
  /\ At("main", "unbind")
  /\ LET m == who["main"] IN
       /\ registered' = [registered EXCEPT ![m] = FALSE] /\ told' = [told EXCEPT ![m] = {}]
       /\ lan' = [lan EXCEPT ![m] = Default] /\ vpns' = [vpns EXCEPT ![m] = 0]
       /\ bound' = [bound EXCEPT ![m] = Default]
       /\ shared' = [shared EXCEPT ![m] = FALSE]
       /\ crossed' = (crossed \/ Owes("worker", m))
  /\ Step("main")
  /\ UNCHANGED <<lifeVars, pin, want, nativeVars, callVars, serviceVars, untold>>

\* bindProcessToNetwork(null), of which nobody is told.
Unpin ==
  /\ At("main", "unpin")
  /\ pin' = Default
  /\ crossed' = (crossed /\ At("worker", "pin"))
  /\ Step("main")
  /\ UNCHANGED <<lifeVars, binderVars, want, nativeVars, callVars, serviceVars,
                 untold, shared>>

Reconciling(t) == Decide(t) \/ BindProcess(t) \/ Notify(t)

-----------------------------------------------------------------------------
(* MainActivity and WireMicViewModel *)

\* The launcher, or the notification, which puts a second activity on the first.
Create ==
  /\ Idle("main")
  /\ \E m \in Models \ {who["worker"]} :
       (\A o \in live : o < m) /\ live' = live \cup {m}
  /\ UNCHANGED <<started, binderVars, pin, threadVars, want, nativeVars, callVars,
                 serviceVars, historyVars>>

\* start, by onCreate or once the permissions are granted.
Start(m) ==
  /\ Idle("main") /\ Top(m) /\ ~started[m]
  /\ started' = [started EXCEPT ![m] = TRUE]
  /\ Begin("main", m, <<"bind">> \o Reconcile \o <<"boot">>)
  /\ UNCHANGED <<live, binderVars, pin, want, nativeVars, callVars, serviceVars,
                 historyVars>>

Ending == <<"halt", "unbind", "unpin">>

\* A change of configuration: onDestroy, and an onCreate with the same ViewModel.
Recreate(m) ==
  /\ Idle("main") /\ Top(m)
  /\ served' = [served EXCEPT ![m] = "none"]
  /\ Begin("main", m, Ending)
  /\ UNCHANGED <<lifeVars, binderVars, pin, want, nativeVars, listener, link,
                 device, serviceVars, historyVars>>

\* The activity is gone for good: onCleared, then the rest of onDestroy.  Another
\* one may have come before.
Destroy(m) ==
  /\ Idle("main") /\ m \in live
  /\ live' = live \ {m}
  /\ served' = [served EXCEPT ![m] = "none"]
  /\ Begin("main", m, <<"deafen", "unbind", "unpin", "halt", "unpin">>)
  /\ UNCHANGED <<started, binderVars, pin, want, nativeVars, listener, link, device,
                 serviceVars, historyVars>>

\* nativeSetListener(this) and nativeStart, whose result nobody looks at; the
\* manager it may replace stops.
Boot ==
  /\ At("main", "boot")
  /\ manager' = TRUE /\ rebind' = FALSE /\ listener' = who["main"] /\ link' = "none"
  /\ sock' \in {pin, "none"} /\ untold' = FALSE
  /\ Step("main")
  /\ UNCHANGED <<lifeVars, binderVars, pin, want, device, served, serviceVars,
                 shared, crossed>>

\* The beginning of stop, with nativeStop; no closedCallback_ comes of it.
Halt ==
  /\ At("main", "halt")
  /\ started' = [started EXCEPT ![who["main"]] = FALSE]
  /\ manager' = FALSE /\ sock' = "none" /\ rebind' = FALSE /\ link' = "none"
  /\ untold' = FALSE
  /\ Step("main")
  /\ UNCHANGED <<live, binderVars, pin, want, listener, device, served, serviceVars,
                 shared, crossed>>

\* nativeSetListener(null), in onCleared: with the ViewModel its activeDevice is gone.
Deafen ==
  /\ At("main", "deafen")
  /\ listener' = 0
  /\ device' = [device EXCEPT ![who["main"]] = FALSE]
  /\ Step("main")
  /\ UNCHANGED <<lifeVars, binderVars, pin, want, nativeVars, link, served,
                 serviceVars, historyVars>>

MainStep == Register \/ Unregister \/ Unpin \/ Boot \/ Halt \/ Deafen

-----------------------------------------------------------------------------
(* The native side *)

\* run() of discovery serves a rebind; a socket that does not open is tried again.
Reopen ==
  /\ rebind /\ sock # "none"
  /\ \/ sock' = pin /\ rebind' = FALSE
     \/ sock' = "closed" /\ rebind' = TRUE
  /\ untold' = FALSE
  /\ UNCHANGED <<lifeVars, binderVars, pin, threadVars, want, manager, callVars,
                 serviceVars, shared, crossed>>

\* The Refresh button.
RefreshDevices ==
  /\ Idle("main") /\ live # {} /\ manager
  /\ rebind' = TRUE
  /\ UNCHANGED <<lifeVars, binderVars, pin, threadVars, want, manager, sock,
                 callVars, serviceVars, historyVars>>

\* activeDevice of the listener, if there is one.
Heard(set) == [m \in Models |-> IF m = listener THEN set ELSE device[m]]

\* A screen has asked for its notification, and will not for an equal device.
Unforgotten == \E m \in live : served[m] = "set"

\* establishedCallback_.
Established ==
  /\ manager /\ sock # "none" /\ link = "none"
  /\ link' = (IF Unforgotten THEN "again" ELSE "new") /\ device' = Heard(TRUE)
  /\ UNCHANGED <<lifeVars, binderVars, pin, threadVars, want, nativeVars, listener,
                 served, serviceVars, historyVars>>

\* closedCallback_, or failedCallback_ of a lost connection.
Ended ==
  /\ link # "none"
  /\ link' = "none" /\ device' = Heard(FALSE)
  /\ UNCHANGED <<lifeVars, binderVars, pin, threadVars, want, nativeVars, listener,
                 served, serviceVars, historyVars>>

\* connect, during a session or in vain: failedCallback_, whatever goes on.
ConnectFails ==
  /\ Idle("main") /\ live # {} /\ manager
  /\ device' = Heard(FALSE)
  /\ UNCHANGED <<lifeVars, binderVars, pin, threadVars, want, nativeVars, listener,
                 link, served, serviceVars, historyVars>>

\* disconnect: no callback says that the session has ended.
Disconnect ==
  /\ Idle("main") /\ \E m \in live : Top(m) /\ device[m]
  /\ link' = "none"
  /\ UNCHANGED <<lifeVars, binderVars, pin, threadVars, want, nativeVars, listener,
                 device, served, serviceVars, historyVars>>

-----------------------------------------------------------------------------
(* StreamingForegroundService *)

Now(m) == IF device[m] THEN "set" ELSE "null"

\* LaunchedEffect(activeDevice) of the activity on the screen.
Effect(m) ==
  /\ Idle("main") /\ Top(m) /\ command = "none" /\ served[m] # Now(m)
  /\ served' = [served EXCEPT ![m] = Now(m)]
  /\ command' = IF device[m] THEN "start" ELSE "stop"
  /\ UNCHANGED <<lifeVars, binderVars, pin, threadVars, want, nativeVars, listener,
                 link, device, service, historyVars>>

\* onStartCommand, in the foreground.
ShowNotification ==
  /\ Idle("main") /\ command = "start"
  /\ command' = "none" /\ service' = TRUE
  /\ UNCHANGED <<lifeVars, binderVars, pin, threadVars, want, nativeVars, callVars,
                 historyVars>>

\* Mutant: the session goes on when the service cannot.
StillLinked == link
Unlinked == "none"

\* nativeDisconnect and stopSelf: onStartCommand when the system refuses a
\* foreground start, or handleStopAction.
EndItself ==
  /\ Idle("main")
  /\ \/ command = "start" /\ command' = "none"
     \/ service /\ UNCHANGED command
  /\ link' = Unlinked /\ service' = FALSE
  /\ UNCHANGED <<lifeVars, binderVars, pin, threadVars, want, nativeVars, listener,
                 device, served, historyVars>>

\* stopService.
StopService ==
  /\ Idle("main") /\ command = "stop"
  /\ command' = "none" /\ service' = FALSE
  /\ UNCHANGED <<lifeVars, binderVars, pin, threadVars, want, nativeVars, callVars,
                 historyVars>>

Next ==
  \/ \E m \in Models :
       \/ \E n \in Lans : LanCallback(m, n)
       \/ VpnCallback(m)
       \/ Start(m) \/ Recreate(m) \/ Destroy(m) \/ Effect(m)
  \/ \E t \in Threads : Reconciling(t)
  \/ MainStep \/ Create
  \/ Reopen \/ RefreshDevices \/ Established \/ Ended \/ ConnectFails \/ Disconnect
  \/ ShowNotification \/ EndItself \/ StopService

Spec == Init /\ [][Next]_vars

-----------------------------------------------------------------------------

\* What a thread can have to do.
Tasks ==
  {"bind", "decide", "pin", "notify", "boot", "halt", "unbind", "unpin", "deafen"}

\* Every variable keeps its type.
TypeOK ==
  /\ live \subseteq Models /\ started \in [Models -> BOOLEAN]
  /\ registered \in [Models -> BOOLEAN]
  /\ told \in [Models -> SUBSET Nets]
  /\ lan \in [Models -> Lans \cup {Default}] /\ bound \in [Models -> Lans \cup {Default}]
  /\ vpns \in [Models -> {0, 1}] /\ pin \in Lans \cup {Default}
  /\ steps \in [Threads -> Seq(Tasks)] /\ who \in [Threads -> {0} \cup Models]
  /\ want \in [Threads -> Lans \cup {Default}]
  /\ manager \in BOOLEAN /\ sock \in Lans \cup {Default, "closed", "none"}
  /\ rebind \in BOOLEAN /\ listener \in {0} \cup Models /\ link \in {"none", "new", "again"}
  /\ device \in [Models -> BOOLEAN] /\ served \in [Models -> {"none", "null", "set"}]
  /\ service \in BOOLEAN /\ command \in {"none", "start", "stop"}
  /\ untold \in BOOLEAN /\ shared \in [Models -> BOOLEAN] /\ crossed \in BOOLEAN

Quiet == \A t \in Threads : Idle(t)

\* A socket stays on the network it was opened on: whenever discovery's is on
\* another one than new sockets would be, it is about to be reopened.  The one
\* exception is a pin by a callback that outlived its ViewModel.
SocketFollows ==
  Quiet /\ manager /\ sock \notin {"none", "closed"} /\ ~rebind => sock = pin \/ untold

\* What NetworkBinder is for, in both directions: it decides for a network only
\* while it knows of a VPN, and only for one it knows to be up; and while it knows
\* of a VPN it decides for the network it has, unless its last look saw a hotspot.
FollowsRule(m) ==
  /\ bound[m] # Default => {bound[m], Vpn} \subseteq told[m]
  /\ Vpn \in told[m] /\ ~shared[m] => bound[m] = lan[m]

\* Every registered binder does, and the process is bound to what one of them
\* decided, unless two threads pinned for one out of order and none has pinned in
\* order since (NetworkBinder.kt:144 is outside the lock).
PinFollowsRule ==
  Quiet /\ manager =>
    /\ \A m \in Models : registered[m] => FollowsRule(m)
    /\ crossed \/ \E m \in Models : registered[m] /\ pin = bound[m]

\* Once both threads are idle, discovery is on the network the process is pinned
\* to and the pin is the one NetworkBinder's rule asks for, whatever the order of
\* VPNs, networks, activities and callbacks; but for the pins nobody was told of
\* (untold) and those made out of order (crossed).
OnTheRightNetwork == SocketFollows /\ PinFollowsRule

\* MainActivity.kt:120: a session that began on a screen that showed none (link is
\* "new"), and that the activity on top shows, has its notification once the main
\* thread has caught up, whatever activities, hang-ups and refusals come between.
\* It does not speak of a session that began while a screen still showed an
\* earlier one ("again"), which may stream without (README, section 5), nor of
\* one that no screen shows.
NotInSecret ==
  \A m \in Models :
    Top(m) /\ Idle("main") /\ command = "none" /\ link = "new" /\ served[m] = "set"
      => service

=============================================================================
