# WireMic in TLA+

WireMic turns a phone, or another desktop, into a microphone: a Linux desktop
finds devices on the LAN, a device asks to connect over a TLS control channel,
and once the desktop's user has accepted, encrypted audio flows over UDP into a
virtual microphone. This directory holds a TLA+ model of the parts of that
program whose behaviour depends on order, timing and failure, the TLC
configurations that check it, and TLAPS proofs about it. Paths below are
relative to the repository; `linux-app/src/` is left out where it is clear.

## 1. The system

| Component | State | Operations | Talks to |
|---|---|---|---|
| `core/ConnectionManager` (desktop) | `hasActiveConnection_`, `activeConnection_` (state, device, request id), `pendingIncoming_`, `invitedDeviceId_`, reconnect timer, flag and deadline, `controlClient_`, audio objects | request, invite, approve, reject, disconnect, stop; slots of server, client and timers | owns the next five; raises signals to `AppController` |
| `network/ControlServer` | `sessions_` (socket -> session), `requestToSocket_` | accept, reject, disconnectClient, stop; message and disconnect slots | signals `connectRequestReceived`, `clientDisconnected` |
| `network/ControlClient` | socket, `sessionActive_`, `lossReported_`, timeout and keepalive timers | connectToDevice, disconnectFromDevice; slots | signals `responseReceived`, `timedOut`, `connectionLost`, `remoteDisconnected` |
| `ui/AppController` with the approval dialog | `pendingRequest_` | connect, accept, reject, disconnect | calls the manager; its lambdas follow the manager's signals |
| `core/security/TrustedDeviceStore` | pinned devices, JSON file | Trust, Revoke, IsTrusted | called by the manager |
| `network/DiscoveryService` | device table, socket, three timers | announce, reply, invite, sweep, rebind | UDP; signals the manager |
| `audio/JitterBuffer`, `audio/AudioReceiver` | frames by sequence number, playout point, target depth, playout clock | Push, Pop, playout tick | UDP in, PCM to the virtual microphone |
| `platform/*VirtualMic` | sample queue or ring, writer thread, real-time callback | start, stop, pushSamples | PulseAudio, PipeWire |
| `shared/audio/PcmRingBuffer` | storage, two atomic indices | Write, Read, Discard | capture callback and sender thread of the phone |
| `platform/DefaultMicControl`, `platform/VirtualMicBackend` and the settings page | the remembered default (settings file), the default sources of the audio servers | publish on every server, make default, restore | `pactl`, `pw-metadata` |
| phone: `core/ConnectionManager`, `network/ControlClient`, `network/DiscoveryService`, `audio/AudioSender` (`android-app/app/src/main/cpp`) | the same in threads and locks | dial, hang up, stream | desktops; Kotlin app through JNI |
| the Android app (`android-app/app/src/main/kotlin`, `cpp/jni`) | the activity's ViewModel, `NetworkBinder`, the process-wide `gManager` and `gListener`, the foreground service | start, stop, recreate, connect, disconnect, bind to a network | the phone's manager; ConnectivityManager; Android's life cycle |

On the desktop everything but the audio threads runs on one Qt event loop, so a
slot is atomic and a signal is a direct call; what is concurrent is the two
ends of each connection, the network, the users and the timers. On the phone
every client has a thread.

### What is hard, and what makes each part correct

* **Sockets and requests.** A request id names a request at the server, a
  pending request or the active connection at the manager, and a dialog; a
  reconnect reuses it on a new socket while the old one may still be alive.
  Correct: whatever still mentions an id has a live socket behind it, and when
  the socket goes, all of them go.
* **Two views of one session.** Timeout against late answer, hang-up against
  approval, both dialling at once, a loss one end has not noticed. Correct: once
  nothing is in flight both ends agree, and nobody stays busy with nothing that
  could free it.
* **Timers.** Request timeout, invite timeout, keepalive, reconnect window.
  Correct: every waiting state ends.
* **Trust.** Devices are pinned as a side effect of accepting. Correct: only
  with the consent of the desktop's user.
* **Audio under loss.** Reordered, duplicated and lost packets, a playout clock
  fed by a timer. Correct: each slot is played at most once and in order, a
  frame that came in time is never concealed, latency stays bounded.
* **Audio between threads.** Lock-free indices and a writer thread with a
  condition variable. Correct: no sample read before it was written or lost
  without being counted, and stopping terminates.
* **Discovery.** Announces against the sweep, rebinding. Correct: statuses
  follow what was heard, a service without a socket is about to try again, and no
  two devices answer each other for ever.
* **The default microphone.** Two buttons change a setting of each audio server,
  servers and microphones come and go, the application crashes. Correct: the
  user's real microphone is one button away, and a program that records keeps
  recording.
* **The app around the phone's code.** A ViewModel, a binder and a screen per
  activity, one manager and one network pin per process, three threads. Correct:
  discovery's socket is on the network that reaches the computer, and no session
  streams without its notification.

`PROJECT.json` lists these at their lines under `hazards`, with the properties
that cover each and, where none does, why.

## 2. The modules

| Module | Models | State |
|---|---|---|
| `ControlChannel` | one connection per `connectToDevice` call: `ControlClient`, the TCP stream each way, `ControlServer`'s session and `requestToSocket_` | `conn`, `requestToSocket` |
| `ConnectionManager` (extends it) | the manager of each desktop, the dialog above it, the trust store, user actions and timers | `mgr` |
| `WireMicSession` (extends it) | composition: each step of an end of a channel with the slot it raises, the network, phones, `Spec`, fairness and all properties | |
| `AbstractCall` | what calls promise to those who hear and those who speak | the stage and the ends of each call, whom each desktop plays, who speaks |
| `MCSession` | two desktops and two phones for TLC | |
| `WireMicSession_proofs` | theorems about `WireMicSession` | |
| `JitterBuffer` | `Push`, `Pop` and the depth of the buffer | `buffer`, `playoutSequence`, `hasPlayoutPoint`, `targetDepth`, ... |
| `AudioReceiver` (extends it) | arrivals, the playout clock and the timer tick | the clock, what is owed, a history of what was emitted |
| `AudioReceiver_proofs` | theorems about both | |
| `PcmRingBuffer` | the lock-free ring, each operation in steps | the two indices, the cells, where each side is inside an operation |
| `BoundedFifo` | what the ring promises | a sequence |
| `AudioSender` (extends `PcmRingBuffer`) | the phone's capture (`AAudioCapture`) and its callback, the sender's start, thread and teardown | the stream, the three threads, the semaphore, the counters |
| `AudioSender_proofs` | theorems about both | |
| `PhoneManager` | the phone's `ConnectionManager` against the thread of its `ControlClient` | the claim and state, the client's flags, sender and microphone, the app's device |
| `PhoneManager_proofs` | theorems about it | |
| `PulseAudioVirtualMic` | the desktop's microphone on PulseAudio, over several lives of the process | the server's modules, the queue, where the main thread and the writer are |
| `PipeWireVirtualMic` | the desktop's microphone on PipeWire: its ring between the main thread and PipeWire's data thread | the two positions, the cells, the frame being copied, `primed_` |
| `PipeWireVirtualMic_proofs` | theorems about it | |
| `Discovery` | the two `DiscoveryService` classes and the device lists above them | sockets and rebinding, tables with the silence of each device, one datagram per ordered pair |
| `Discovery_proofs` | theorems about it | |
| `DefaultMic` | publishing and the default microphone: `DefaultMicControl`, `CompositeBackend`, the settings page's buttons | the kind of machine, its servers, the default configured in each graph, the recorder, the settings file, whether the button to restore is there |
| `MCDefaultMic` (extends it) | two microphones, one named as part of the other | |
| `DesktopMic_proofs` | theorems about `PulseAudioVirtualMic` and `DefaultMic` | |
| `PhoneApp` | activities and ViewModels, `NetworkBinder`, the JNI functions, the foreground service | the steps each thread has left, the binder's fields, the pin, the socket's network, activeDevice |
| `PhoneApp_proofs` | theorems about it | |

Apart from the modules of the session and those of the two audio paths, which
extend each other, the modules do not share state: what one needs from another
(a stream of packets, a microphone that a session owns, a desktop that answers,
a session that begins) is the environment of its own module.

### Correspondence: the session

`conn[c]` is one connection. `cli` is the client's phase: `dialing` and
`requested` have `timeoutTimer_` running, `session` is `sessionActive_` with
`keepAliveTimer_`, `spent` is an open socket without any timer (refused, or
told DISCONNECT, or lost by keepalive), `closed` a closed socket whose object
still exists, `gone` a destroyed object. `srv` is the server's socket:
`open` and `closing` (after `disconnectFromHost`) are in `sessions_`. `bound`
says that the session's `requestId` is not empty. `toServer` and `toClient` are
the streams, with `FIN` for the end of the stream. `link` is the network.

`mgr[h]` is one manager; the fields are named in the module. Each operator
(`OnIncomingRequest`, `OnClientDisconnected`, `OnOutgoingResponse`,
`OnConnectionLost`, ...) is one slot, as a function from the record before it to
the record after it; `WireMicSession` applies the slot in the same step in which
the channel raises the signal.

Abstractions that a reader should know of:

* A request id is a UUID in the code; here it is the number of the connection
  that first carried it, so a redial is `req # c`. The device of
  `activeConnection_` follows from the id (`PeerOf`). A connection carries one
  request, which is all the clients in the repository send.
* TCP accept and the TLS handshake are one step (`TlsEstablished`), fingerprint
  checks always succeed, messages are well formed, keepalives appear only when
  three in a row stayed unanswered.
* `ReconnectTicks` counts the retry ticks before `reconnectDeadline_` (14 in the
  code). When the instance has used up its connections, ticks pass without a
  dial.
* `inviteTimer_` runs exactly while an invite is out. Discovery always
  delivers or fails at once. `onInviteReceived` is left out on desktops: a
  desktop invites only devices that do not listen.
* A redial without an id, possible only when an invite clears the id while
  the reconnect timer runs, is left out.
* The Disconnect button exists only while Streaming and the Connect button of
  the device a request concerns is disabled; the settings do not change.
* Audio is whether a receiver or a sender exists; either may fail to start
  (`AudioMayFail`).
* Of a phone the model has the wire behaviour of its `ControlClient`; its app
  is a user that dials, one connection at a time, and hangs up.
* A host that quits does not come back in the same run; its trust store stays.

### Correspondence: the playout

`JitterBuffer` holds its variables under the names of the class. A packet is its
sequence number: payload and `dtx` follow from it. Of the jitter estimator the
model keeps the decision (`targetDepth_` one frame deeper, one less, or as it
was), not the arithmetic. The loop that drops the oldest frame runs at most
once, because `Push` adds one. In `AudioReceiver` time is counted in frames and a
playout tick is an opening step, which settles how many frames are due, and one
step for each frame: no datagram is read between them, the desktop has one event
loop. `stop()`, decoding and its errors are left out, and so is the phone's copy
of the buffer, which nothing there uses.

### Correspondence: the phone's audio

`Write`, `Read` and `Discard` are taken apart at what the other side can observe:
read the indices, touch the cells, publish the index. Interleaving these steps is
enough because every publication is a release that the other side acquires, and
the plain accesses between them never touch one cell, which is `NoRace`. In
`AudioSender` the device thread runs the callback (a callback may have several
slices), the worker runs `senderLoop`, and the third thread is `start()` and
`stop()`. `start()` opens the microphone first, because only an open stream has a
format, and lets the callback look at its samples last (`OpenCapture`, `Start`);
until then it may fail (`StartFails`). The stream may break down at any moment
(`StreamBreaks`): nothing calls back then, and nothing opens it again. A sender
object is started once (`core/ConnectionManager.cpp:205` makes a new one for each
session), so the system comes to rest after `stop()` and deadlock is not checked.
External assumption: `capture_->stop()` returns when no callback is running.
OpenSL ES as a second way to the microphone, resampling, encoding and the socket
are left out.
Samples of a frame that is not yet complete stay in `pending_` and are not
counted by `droppedSamples`; the model counts them as sent.

### Correspondence: the phone's manager

`caller` is the thread inside `requestConnection` or `disconnectActive`, `thread`
the one inside `ControlClient::run`; the values of each are the places between
two accesses the other can observe. Clients and requests are numbered alike, so
that "the response is for the active request" is `activeId = self`. One caller at
a time: `gManagerMutex` serialises the app's calls; an invite comes on the
discovery thread without it, and the model lets it in when nobody else is (with
two callers `controlClient_` is written by two threads, which is undefined).
`stop()`, which is `disconnectActive` and destruction, the trust store, malformed
messages, the device list and an accept without a session, which no desktop
sends, are left out. When `disconnectActive` resets `audioSender_` between its
creation and its start the code is undefined; the model takes the outcome in
which nothing starts. `late` is a history of the opposite order: the client whose accept
was handled while `disconnectActive` waited for its thread, so that the sender it made
is stopped by nobody.

### Correspondence: the virtual microphone

`main` is the place of the main thread in `start`, `pushSamples` and `stop`,
`writer` the place of `writerLoop`: `test` before the predicate of the wait,
`dozing` after it was false and before the thread sleeps, with `queueMutex_`
held, `asleep`, and `write` inside `pa_simple_write`. Frames are numbered in the
order of `pushSamples`. A crash ends the process anywhere: the server drops the
stream and keeps the modules. `pactl` may fail to list, load or unload (`missed`
remembers that a listing or unloading did). The stream finds its sink by name. The
server itself stays up; buffer sizes are left out.

### Correspondence: PipeWire's microphone

The main thread is inside `pushSamples`, one sample at a time (`Put`) and one
publication of `writePosition_` at the end (`Publish`); the data thread is inside
`fillBuffer`: it reads both positions, drops what exceeds `kMaxBuffered`, decides
whether the cushion is full (`Plays`), copies and publishes. Nothing orders the
two but the two atomic positions, and the writer does not look at the reader's:
the assumption `MaxBuffered + MaxAhead <= RingSize` says how much may be pushed
while one callback runs before the reader's cells are overwritten. With the code's
sizes that is 1.9 s of sound in one callback. Formats, channel layouts and strides are left out; negotiation is an event.

### Correspondence: discovery

A tick of the clock is one announce interval, in which each running service
announces and sweeps, in any order with everything else, and by which every table
ages; fairness takes the place of the timers' due times. A desktop's handlers are atomic, a
phone's `run()` is taken apart at `running_`, the rebind request and its socket.
The network holds one datagram per ordered pair: a later one of the same pair
overtakes it, which is a loss. `lan` says whether binding and sending succeed.
`Old` devices speak another protocol version (the run has none: one phone and
one desktop fit the time). `Muffled` are those whose broadcasts reach nobody. A
desktop that is invited from the list stays on the phone's list until the next
change. A replugged interface that leaves `joinedGroups_` equal
(`network/DiscoveryService.cpp:178`) is left out.

### Correspondence: the default microphone

`MakeWireMicDefault` and `RestoreDefault` do not ask which server they talk to: they
try PulseAudio's door (`pactl`) and then PipeWire's (`pw-metadata`, `pw-cli`). `machine`
says what is behind the doors: one server (`pulse`, `pipewire`), two with a graph and a
default each (`both`), or PipeWire serving PulseAudio, one graph with one default behind
both (`shared`). `Configured` is what the two doors' commands leave there, the later over
the earlier one. `Exists` is the code's search for a name anywhere in a listing: a
microphone is also found by a name that is part of another's (`PartOf`), and on a
`shared` machine `PipeWireNodeExists` finds the playback stream of the PulseAudio
backend, which is opened under the name of the node that PipeWire's backend would
publish (`PulseAudioVirtualMic.cpp:349-350`), so that both branches run (`Listed`).
`Reported` is what the code reads as the old default: what is in effect from `pactl`,
what was configured from `pw-metadata`.

A click on "make default" or "restore" is one step, with the doors whose commands
succeeded; a server may be away, and the application may crash before and after.
`stored` is `kPreviousMicKey` of the settings file, a name for each door; `was` is the
real microphone that the button took behind each. A program on PulseAudio records from
the device it was started on, or from the default it was moved to.

### Correspondence: the Android app

`steps[t]` is what is left of the handler a thread is in; for the main thread
`start` and `onDestroy`, for ConnectivityThread one network callback. A native
function is one step under `gManagerMutex`; `viewModelScope` starts on the main
thread, so `nativeStart` belongs to `start`. `told[m]` is what the callbacks of
a binder have been told: the networks themselves may be anything at any time, and
so may a hotspot, which no callback reports (`Decide` reads either value). `Create`
is a tap on the launcher or on the notification, whose intent opens a second
activity on the first; `Destroy` may come late, after the next activity's
`onCreate`. `link` is a session of `PhoneManager`; it is "again" when it begins
while a screen's `LaunchedEffect` has already run for the computer of an earlier
one. `shared` and `crossed` are histories: that the last look of a binder found
a hotspot in the way of the pin, and that two threads owed the pin of one binder at a
time (`Owes`) and none was made in order since (`InOrder`). `Init` includes the service
that START_STICKY brings back after the system has killed the process.

## 3. The runs

Deadlock is not checked where the instance's connections, frames, samples or
requests can be used up while nobody acts: the system rests. It is checked in
`phone_app`, where somebody can always open or close something.

| Run | Instance | Shows |
|---|---|---|
| `desktops_lossy` | 2 desktops, 2 connections, links fail and heal, `a` may quit, `a` auto-connects, `b`'s audio may fail, fair | `SocketsHeld`, `WaitingStatesEnd`, `ReceiverHasCaller`, `TrustHasConsent`, `CallsAreGranted` (refinement of `AbstractCall`), `ReconnectEnds` |
| `desktop_phones` | 1 desktop, 2 phones (one of another protocol version), 3 connections, audio may fail | `PhoneIsHeard`, `StateIsTrue` |
| `desktops_calm` | 2 desktops, 3 connections, the network never fails, fair | `ActiveHasChannel`, `RequestEnds`, `HangUpIsHeard` |
| `playout` | 9 frames, one of them silence, in any order, repeated or lost; a buffer of 6; the timer late or early | `BufferIsWhatIsDue`, `ClockIsPaid`, `SlotsAreTrue`, `LatencyIsBounded`, `PlayoutProceeds` |
| `phone_audio` | ring of 3, reads of 2, backlog of 2, 6 samples | `NoRace`, `NoSampleVanishes`, `QueueIsFifo` (refinement of `BoundedFifo`), `SamplesMove`, `StopReturns` |
| `phone_calls` | 3 requests | `HangUpIsFinal`, `CallIsReal`, `HangUpReturns`, `LossIsNoticed` |
| `virtual_mic` | 3 lives, a queue of 2, 5 frames, 3 module numbers | `StreamOutlivesWriter`, `ServerIsClean`, `OnlyOverflowLoses`, `FramesMove` |
| `mic_stop` | 1 life, 2 frames | violation, section 5 |
| `pipewire_mic` | a ring of 7, a cushion of 3, at most 4 behind, 12 samples in each of 2 lives | `SamplesAreTrue`, `HeardInOrder`, `SamplesFlow` |
| `discovery` | a desktop and a phone whose broadcasts nobody hears; offline after 1 interval, forgotten after 2 | `BoundOrRetrying`, `TableIsTrue`, `PeerFound`, `GoneForgotten` |
| `default_mic` | all four kinds of machine, two real microphones, one named as part of the other | `OneButtonAway`, `RecorderKeepsMic` |
| `phone_app` | two ViewModels at a time, one LAN and a VPN | `OnTheRightNetwork`, `NotInSecret` |

Some of these are conjunctions of facts that belong together and are named in
their module: `SocketsHeld` (a request that waits, that is mapped or that is
played has a live socket, and the dialog shows one that waits), `StateIsTrue` (on the called desktop, Idle is inactive and Streaming is active),
`SlotsAreTrue` (slots in order, only real gaps concealed), `NoSampleVanishes`
(every sample is sent, counted as dropped or still there, and nothing is left
after `stop`), `CallIsReal` (`StreamingIsReal` and `MicIsHeard`) and
`OnTheRightNetwork` (`SocketFollows` and `PinFollowsRule`).

**Bounds.** Two connections are enough for a call each way, for crossing calls
and for a session with its redial, which is what the properties of
`desktops_lossy` are about; three (a session, its redial, a call from the other
side) with every failure do not fit the five minutes a run should take, so three
are used where the network holds. One reconnect tick before the deadline makes
the redial, its timeout and the deadline all happen. Properties that fail in a
larger world are checked in the world where they hold: `StateIsTrue`
and `PhoneIsHeard` on one desktop, which is only called, by phones, which do not
reconnect (at a calling end `StateIsTrue` is false), `RequestEnds` where nobody quits,
`OneButtonAway` on machines with one door; section 5 says what breaks them.

`MaxSeq` = 8 in `playout` is enough for the overflow of a buffer of six, for a
jump of the playout point and for a repeat of what was already played; `MaxLate`
and `MaxAhead` bound how late a tick and how early a frame may be. In
`phone_audio` six samples go round a ring of three (four cells) and wrap it, and
a backlog of two makes the worker discard. Three requests in `phone_calls` are a
session, its successor whose sender replaces the first one's, and one that meets
the leftovers of both; `created` is the only counter, and the theorems of section
4 hold for any number. Three lives in `virtual_mic` are one that crashes, one
whose sweep misses something and one that finds that; five frames overflow a
queue of two more than once. Twelve samples in `pipewire_mic` go round its ring
of seven and let the reader fall behind by more than it may; the second life meets
the cells of the first. One desktop and one phone are the two kinds of device and
every kind of datagram; the theorems hold for any number of both. Two microphones
in `default_mic` are the one before and the one the user chooses later. In
`phone_app` the second ViewModel is the one that meets what the first has left in
the process; numbers are used again, so there is no last activity.

**Fairness** (`FairSpec`). Weak fairness per connection for the client's and for
the server's event processing, and per host for its timers: Qt's event loops run,
a link that is up delivers, armed timers fire. None for users, phones, outages,
healing or socket errors: an outage may last, and a socket that never writes
need not notice. `playout` assumes that the timer goes on firing (WF of
`Playout`), `phone_audio` that each of the three threads is scheduled,
`phone_calls` that the caller and the client's thread are: every wait of the
latter has a socket timeout. `virtual_mic` assumes that both threads are scheduled
and that a sink which exists is drained, as a null sink is; it does not assume
spurious wake-ups, which no library promises. `pipewire_mic` assumes that PipeWire negotiates and keeps
asking; `discovery` that the clock, timers and loops run and that of the datagrams
that keep coming to an open socket some are read. Nothing makes packets arrive, the user act or the
desktop speak.

Each property has a mutant in `PROJECT.json`: a changed definition under which
its run fails. The mutated forms stand beside the originals, marked "Mutant".

## 4. What is proved

All proofs are about every value of the constants, from the assumptions stated
in the modules. Each shows an inductive invariant that TLC checked first, then
what follows from it.

**The session.** `WireMicSession_proofs` proves, for any set of desktops and phones, any
settings, any number of connections and any reconnect window, from the module's
assumptions on the constants alone:

| Theorem | States |
|---|---|
| `TypeInvariant`, `TypeCorrect` | `TypeOK`, strengthened with what a used connection names |
| `PromptAlwaysPending` | `PromptIsPending`, the dialog's part of `SocketsHeld` |
| `SessionInvariant` | the inductive invariant below |
| `SocketsAlwaysHeld` | `SocketsHeld`: `MappedSocketInSessions`, `PendingHasSocket`, `PromptIsPending`, `ReceiverHasSocket` |
| `WaitingAlwaysEnds` | `WaitingStatesEnd` |
| `TrustAlwaysHasConsent` | `TrustHasConsent`, about steps |
| `ReceiverAlwaysHasCaller` | `ReceiverHasCaller` |
| `LoneStateIsTrue`, `PhoneAlwaysHeard` | `StateIsTrue` and `PhoneIsHeard`, with `OneDesktop` |
| `CallInvariant` | the inductive invariant of the refinement |
| `SessionImplementsCall` | `CallsAreGranted`: every behaviour is one of `AbstractCall` |
| `CalmActiveHasChannel` | `ActiveHasChannel`, with `NothingLost` |

`LoneStateIsTrue`, `PhoneAlwaysHeard` and `CalmActiveHasChannel` have the hypothesis that makes their property true, and that the
run has too: `OneDesktop` (any number of phones call one desktop, so nobody
redials and no desktop is a calling end) and `NothingLost` (`~MayDrop` and `MayQuit = {}`: no link fails and no
desktop quits). Section 5 says what happens without them.

Of the four parts of `SocketsHeld` only the dialog's follows from the types of a
manager (`Wellformed`); none of the others is inductive. `requestToSocket` may only
lose an entry together with what the manager still believes about that id, so
`SessionInv` states them together, and adds that a manager's ids are ids of
connections that were opened, that an entry's socket is bound to exactly that
id, and that a socket that is not in `sessions_` is not bound. `TypeInv` adds to `TypeOK` what a used
connection always names, because without it `PeerOf` and `ClientReplaced` have
no type. The proof goes action by action over lemmas on what each operation of
`ControlChannel` keeps (`ClientOps`, `ServerOps`, `DroppedOp`) and on what each
slot does to a manager.

The rest goes along two classifications, proved once. `ManagerStep` says which
slot, user or timer can have changed one manager in a step of the system, and
`ConnStep` what can have happened to one connection; a property of one end is then
a statement about a record and its successor. `Waits` (in `WaitsInv`) is such a
statement, and so is the one about `trusted`. `Flow` (in `FlowInv`) relates the
phases of the two ends of a connection and the streams between them: which
messages can be on their way at all, and that an end that went away has said so.
On it rest

* `CallerInv`: whoever a desktop plays is in the session, or something is on its
  way to tell one of the two;
* `LoneInv` and `PlayedInv`: a desktop that only phones call is active exactly in
  the states that say so, and every connection its server answered is the one it
  plays, on the socket it has in `requestToSocket`;
* `CalmInv`: while nothing is lost every request is its own socket, no client
  closes without its manager knowing, and an active manager has a live client or
  the mapped socket of a caller that talks;
* `CallInv`: an ACCEPT is sent once, to a call that did not have one yet, never
  behind a session that has begun; a desktop has at most one request in its dialog
  and none while it plays somebody; and a call that was granted is not one that
  waits there.

**The abstract call.** `AbstractCall` knows calls, whom each desktop plays and who
speaks, and has four steps: a call is made (`Ring`), the desktop it goes to grants
it and plays it from that step on (`Grant`), the caller takes the grant and may speak
(`Talk`), calls and sounds end (`HangUp`). `WireMicSession` maps a connection to a call:
it is granted while an ACCEPT is on its way to a client that has not read it, talking in
the client's phase `session`, and over when neither can happen any more; a desktop plays
`activeConnection_` while `audioReceiver_` exists. `SessionImplementsCall` shows that
every step of the session is one of these or leaves the mapped state as it is. Each
operation of the two ends is first classed by what it does to one connection:
`HushedClient` and `HushedServer` (it ends the call, or nothing is seen of it),
`GrantedServer` and `TakenOnce`; each slot by what it does to the sound (`Fades`,
`Softens`). Five lemmas then say when a step of the whole system is a step of the
abstract call (`QuietStep`, `TakingStep`, `GrantingStep`, `RingingStep` and
`ReplacingStep`), and the actions of `Next` cite them. `Grant` needs all of `CallInv`:
that the desktop plays nobody comes from `hasActiveConnection_` on the way through
`onIncomingRequest`, but on the way through the dialog only from the fact that a desktop
which plays somebody has emptied its dialog; and that the approved call was not granted
before from the fact that it still waits. The proof brought out why `Grant` may start
from a call that is over: an approval can be sent to a client that has given up, and
the desktop then plays silence until the socket is gone (`ReceiverHasCaller` says that
it will be told); or behind the REJECT of an earlier answer on a socket that is closing,
because a redial that is declined while the prompt of the one before it is still shown
takes its place in `requestToSocket_`.

**The playout.** `AudioReceiver_proofs` proves `TypeOK`, `BufferIsWhatIsDue`,
`ClockIsPaid`, `SlotsAreTrue` and `LatencyIsBounded`. The
invariant adds that a frame is emitted only
behind the playout point (`EmittedIsBehind`), that one ahead of it never was
(`Fresh`) and that a tick under way owes what the clock says (`TickIsSound`).
`PushEffect`, `PopNotReadyEffect` and `PopFrameEffect` state once what the two
operations do to the buffer, and every step of the receiver cites them.

**The ring and the sender.** `AudioSender_proofs` shows that what a Write has
still to fill and a Read has still to fetch are disjoint cells (`SidesApart`),
whatever the capacity, and proves `TypeOK`, `NoRace`,
`NoSampleVanishes` and that the ring implements `BoundedFifo`
(`QueueIsFifo`): `RingInv` counts cells from the read index, because the
position in the storage wraps and the distance does not, and says which cells
hold which samples at every point inside an operation.

**The phone's manager.** `PhoneManager_proofs` proves `TypeOK`, `HangUpIsFinal`
and `CallIsReal`. Each speaks of a moment of rest; the invariant says for every place inside a call or a callback what is
still to be done: whom the numbers name (`Numbers`), until when a request's claim
stands (`Claims`), that a thread whose request was given up can do no more than
end (`Over` in `Flags`), which places still have to leave Streaming (`Streams`)
or to switch the microphone off (`Captures`), that outside them a session that is active
says Streaming (`Spoken`), and that a sender made while a hang-up waits for the thread is
the one `late` names (`Hushed`). `MicIsHeard` excepts that sender: it is left capturing in
Idle (section 5), and without the exception the property is false.

**The virtual microphone.** `DesktopMic_proofs` proves `TypeOK`,
`StreamOutlivesWriter`, `ServerIsClean` and `OnlyOverflowLoses`. The invariant says
where the two threads can be together (`Threads`), what the server holds at every
place of the main thread (`Server`), that the queue is the end of what was pushed
and lies after what was written (`Order`), and that a writer ends only by an error
or with an empty queue after `stop` (`Endings`).

**The default microphone.** `DesktopMic_proofs` also proves `RecorderKeepsMic`, for
any machines and microphones, and `OneButtonAway`, which speaks of machines with one
door, PulseAudio's or PipeWire's alone: with two doors, also to one graph, it is false
(section 5). The invariant adds to the types that the button to restore is there exactly
while something is remembered, that a process that is gone runs no backend, and that on a
machine with one door the server's default and the settings file hold names of real
microphones or the virtual one's own, and nothing for the other door (`OwnNames`).
`MakeDefaultEffect` and `RestoreEffect` say what a click found, remembered and put back:
with one door the first click remembers all it takes, and a further one either finds a
real microphone again or, by `Remembered`, leaves the file alone.

**PipeWire's microphone.** `PipeWireVirtualMic_proofs` proves `TypeOK`
(`CountsKeepRanges`), `SamplesAreTrue` and `HeardInOrder`, from the one assumption
on the sizes named in section 2. The invariant counts in positions that never
wrap: during a callback the writer gets at most `MaxAhead` past where the reader
found it, so the cell of every position the reader may still copy holds the sample
of that position.

**Discovery.** `Discovery_proofs` proves, for any desktops, phones, versions and
silences, `TypeOK`, `BoundOrRetrying`, `TableIsTrue` and `AnswersEnd`, which no run
repeats: a reply is never answered, so a datagram a device takes leaves at most one
other behind, and that one ends there. The invariant ties the age of an entry to its status at every
place of the phone's loop, where the clock it read may be an interval old.

**The Android app.** `PhoneApp_proofs` proves `TypeOK`, `OnTheRightNetwork` and
`NotInSecret` for any networks and any number of ViewModels. Both properties speak
of moments when the threads are idle, so the invariant speaks of every place inside
a handler. `Places` lists what can be left of each handler, which makes the lists
of steps a finite program counter. `Sockets` says that a socket on the wrong network
is owed a `notify` or the end of an activity, and that an activity that is not
destroyed unpins only after `nativeStop`. `Shown` is what the screen and the service
owe each other. `Binder` ties the fields of one `NetworkBinder`: what is not registered knows nothing;
what it bound to is up beside a VPN, or a callback is about to decide again; and beside a
VPN it is bound to the network it has, unless its last look saw a hotspot (`shared`) or a
decision is still to come. `Pins` says who moves the pin, as long as no two threads owe
the pin of one binder (`crossed`): what a thread is about to pin is what its binder
decided, the two threads are never about to pin for the same one, and a pin that has to
be somebody's decision is one or is about to be. The proofs keep two exceptions of the
code: a pin that was announced to nobody (`untold`) and the pins made out of order, from
there until the next one in order (`crossed`); section 5 says how they come about.
`NotInSecret` has two of its own, a session that began on a screen that still showed an
earlier one (`link` is "again") and one that no screen shows.

**Only model-checked**: the liveness properties `ReconnectEnds`, `RequestEnds`,
`HangUpIsHeard`, `PlayoutProceeds`, `SamplesMove`, `StopReturns`, `HangUpReturns`,
`LossIsNoticed`, `FramesMove`, `SamplesFlow`, `PeerFound`, `GoneForgotten`. Liveness
under fairness and `ENABLED` are beyond the prover, and so is induction over data.
Every invariant and every action property of a passing run is stated by a theorem.

## 5. Where the code and its documents or tests disagree

* `mic_stop`: `stop` clears `writerRunning_` and notifies without `queueMutex_`;
  when the writer is between its test and its sleep it misses both, and the join
  never returns (`platform/PulseAudioVirtualMic.cpp:375-377`;
  `platform/tests/virtual_mic_test.cpp:52-53`).

Weaknesses met while modelling. No run of the project shows them; where
constants or a property are given, TLC does.

* At the reconnect deadline `onReconnectTick` leaves the redialling client alive;
  its late ACCEPT sets Streaming with `hasActiveConnection_` false
  (`core/ConnectionManager.cpp:829-838`, `:802`). Two desktops, two connections
  and `MayDrop` TRUE violate `StateIsTrue`, which is therefore claimed of the called
  desktop only.
* A connection closed before it was answered raises no signal, so RequestSent
  never ends (`network/ControlClient.cpp:201-212`; `docs/PROTOCOL.md:154-155`).
  With two connections and `MayQuit` = {b}, `RequestEnds` fails in `desktops_calm`.
* `disconnectActive` asks a stale `controlClient_` and never tells the caller
  (`core/ConnectionManager.cpp:871-879`), so a caller goes on streaming into
  nothing: two desktops that call each other one after the other.
* The phone's `disconnectActive` stops a sender that the thread it joins afterwards
  is about to create: an accept handled meanwhile leaves the microphone capturing
  in Idle (`android-app/app/src/main/cpp/core/ConnectionManager.cpp:259-273`,
  `:204-212`; the action is called "Stop Streaming", `strings.xml:6`). `MicIsHeard`
  without its exception `late` fails in `phone_calls`.
* `SettingsPage.cpp:315-318` promises the way back in one button, and on machines with
  two doors it can be lost: `OneButtonAway` without `machine \in Doors` fails for each.
  - Where PipeWire serves PulseAudio (`shared`) one click sets PulseAudio's default to the
    virtual microphone and then, because `PipeWireNodeExists` finds the backend's own
    playback stream, PipeWire's to a node that is no source. It remembers
    `wiremic_virtual_mic`, the default it has itself just set, as PipeWire's old one
    (`DefaultMicControl.cpp:212-231`). Restoring puts the real microphone back through the
    first door and the virtual one through the second, and removes the key
    (`DefaultMicControl.cpp:252-263`). A second click while no real microphone is in effect
    finds nothing behind PulseAudio's door and stores `wiremic_virtual_mic` for PipeWire's
    over the real name.
  - With two servers (`both`) a second click after a half failure or a choice in one graph
    remembers that graph only, and a restore that succeeds at one door forgets the other.
* A restart of the audio server leaves the backend `running_`, so `ensureVirtualMic`
  does not publish the microphone again. `PipeWireVirtualMic` documents that it goes
  back to waiting whenever it runs out, and a buffer that runs out in its middle
  leaves `primed_` set.
* A phone takes announces of any protocol version
  (`android-app/app/src/main/cpp/network/DiscoveryService.cpp:332`), a desktop
  does not.
* The phone's notification opens a second activity (its intent is not the
  launcher's, `StreamingForegroundService.kt:113-117`). The second ViewModel's
  `nativeStart` replaces the manager, which ends the session whose notification was
  tapped; when that activity is closed, the first one is left without a manager
  and a listener, and `started` keeps it from starting again. `nativeStart`'s
  result is ignored (`WireMicViewModel.kt:65`): an app whose discovery could not
  open its socket shows an empty list for ever.
* A session that begins while the app still shows the same computer, which a
  hang-up leaves there, changes nothing for StateFlow: when the hang-up came from
  the notification, or the system had refused the service, it streams without one.
  A refused second request (ALREADY_CONNECTED) ends the service under a session that
  goes on. `NotInSecret` speaks of the other sessions.
* A redial that is accepted after the reconnect deadline streams while
  `hasActiveConnection_` is false. When that session's link fails too, the desktop
  reconnects and still takes calls: a prompt then overwrites `activeConnection_`, and
  the answer to the next redial pins, under the new caller's name, the fingerprint of
  the desktop that was redialled (`core/ConnectionManager.cpp:788-792`), a device
  trusted that nobody approved. `TrustHasConsent` names the case (`Redialled`). It
  takes four connections, a call, two redials and the other caller's: a search that
  TLC is held to along that path shows the pin in 26 states, and the two and three
  connections of the runs do not reach it. It was met in the proof, whose
  lemma on the answer to a request (`ConsentStep`) is false without `Redialled`.
* A microphone that is unplugged, or taken by another application, ends the
  callbacks and no more: `OnStreamError` writes a `lastError_` that nobody reads
  after `start()`, so the phone goes on showing a session that is silent
  (`AAudioCapture.cpp:123-128`).
* A hotspot that goes on or off calls no `reconcile`; the pin follows at the next
  change of a network (`shared` in `PhoneApp`). `NetworkBinder` pins outside its lock
  (`NetworkBinder.kt:144`): where `start` or `unbind` on the main thread meets a callback,
  the older decision may pin last and stands until the next pin in order (`crossed`), and
  a callback that outlives its ViewModel pins without telling anybody (`untold`). Without
  `crossed` the run finds 14 states in which the decision at start-up pins after that of
  a VPN's callback.
* `NetworkBinder` remembers the last LAN only: when it goes while an earlier one is still
  up, `lanNetwork` is null and nothing is pinned under a VPN (`NetworkBinder.kt:57-69`).
  The rule that `PinFollowsRule` holds it to is about the network it knows.
* A redial that the responder refuses because it still holds the old session ends
  the reconnect inside its window (`core/ConnectionManager.cpp:541-544`, `:776-784`),
  where `docs/PROTOCOL.md:136-138` has it go on for up to 30 s.
* `connectionFailed` of an unrelated outgoing call closes the approval dialog while
  the request stays pending and blocks everybody else (`ui/AppController.cpp:169-178`).
* An approval whose audio fails while an outgoing call is being dialled leaves Idle
  with `hasActiveConnection_` set.
* The server never expects keepalives: a caller behind a dead link keeps the desktop
  busy.
* A failed write ends the virtual microphone's writer while `running_` stays true, so
  `ensureVirtualMic` never publishes it again (`PulseAudioVirtualMic.cpp:417-421`).
* A phone whose TLS handshake or first write fails calls only `errorCallback_`
  (`ControlClient.cpp:189-205` of the phone): `hasActiveConnection_` stays set, the
  state stays RequestSent, every further request is refused, and Disconnect is not
  offered. `SetUpFails` is that step; `HangUpIsFinal` and `StreamingIsReal` hold in
  spite of it.
* After Disconnect nobody tells the phone's app, which goes on showing the device it
  was sending to (`core/ConnectionManager.cpp:259-273` of the phone,
  `WireMicViewModel.kt:102-104`); a second tap on Connect while streaming clears that
  device (ALREADY_CONNECTED goes through `failedCallback_`).
* At its greatest depth the jitter buffer gets shallower while the jitter is high,
  where `docs/PROTOCOL.md` 4.3 has it shrink after stability.

## 6. Not modelled

* TLS, certificates, JSON and framing, codecs, resampling and encryption: pure
  functions over bytes or numbers, or libraries. The trust store's file: a crash
  inside `Save` loses the pins, which costs renewed approvals only.
* The desktop's audio sender and its capture backend: device I/O whose order of
  starting and stopping the manager's model has as one step.
* Windows and screens, apart from the dialog, the settings page's two buttons and
  what the app does when `activeDevice` changes. Connecting to a typed address on
  the phone, and its permissions.
* The data race on `gListener` (`WireMicNative.cpp:59`), and two callers inside the
  phone's `requestConnection` at once: undefined behaviour the models leave out by
  letting one in at a time.
* Clocks that jump, disks that fill, processes starved for longer than the timeouts.

What would be worth adding: the desktop's capture thread against its sender, the
writer thread of the virtual microphone after a failed write, and what a crash inside
`TrustedDeviceStore::Save` costs.
