----------------------------- MODULE DefaultMic -----------------------------
(***************************************************************************)
(* The virtual microphone among the others of the machine: where the       *)
(* desktop application publishes it, and the two buttons of the settings   *)
(* page that make it the default one and put the old default back.         *)
(*                                                                         *)
(* The application knows two doors, PulseAudio's (pactl) and PipeWire's    *)
(* (pw-metadata, pw-cli), and the buttons try both.  Behind them is a      *)
(* graph with a default: one of its own each where both servers run side   *)
(* by side ("both"), but the same one where PipeWire serves PulseAudio     *)
(* ("shared").                                                             *)
(*                                                                         *)
(* Of the servers the model assumes that they keep the default that was    *)
(* chosen, use another device while it is not there, and answer queries    *)
(* while they run, that pactl sets no default that is not there, and that  *)
(* nobody else changes a default while a click's commands run.  A          *)
(* microphone that is plugged in is in every graph.                        *)
(***************************************************************************)
EXTENDS Integers

CONSTANTS
  Machines,          \* the kinds of machine considered
  Mics,              \* real microphones
  PartOf,            \* the pairs of them whose first name is a part of the second
  kPulseSourceName,  \* the name the virtual one is published under at each door
  kPipeWireNodeName,
  None

ASSUME DefaultAssumption ==
  /\ Machines \subseteq {"pulse", "pipewire", "both", "shared"}
  /\ PartOf \subseteq Mics \X Mics
  /\ kPulseSourceName \notin Mics /\ kPipeWireNodeName \notin Mics
  /\ None \notin Mics \cup {kPulseSourceName, kPipeWireNodeName}
  /\ kPulseSourceName # kPipeWireNodeName

Doors == {"pulse", "pipewire"}
Devices == Mics \cup {kPulseSourceName, kPipeWireNodeName}

\* Where each backend publishes.
WireMic == [x \in Doors |-> IF x = "pulse" THEN kPulseSourceName ELSE kPipeWireNodeName]

VARIABLES
  machine,    \* its kind
  servers,    \* the doors behind which a server answers
  plugged,    \* the microphones that are connected
  published,  \* the backends whose device is in the graph
  chosen,     \* the default configured in each graph
  recorder,   \* what a program on PulseAudio records from
  app,        \* whether the application runs
  running,    \* the backends of virtualMic_ that are running
  stored,     \* kPreviousMicKey of the settings file, a name for each door
  offered,    \* restoreMicButton_ is enabled
  was         \* the microphone the button took behind each door (history)

graphVars == <<machine, servers, plugged, published, chosen, recorder>>
appVars == <<app, running, stored, offered>>
defaultVars == <<graphVars, appVars, was>>

Nothing == [x \in Doors |-> None]
Some(names) == \E x \in Doors : names[x] # None

DoorsHere == IF machine \in Doors THEN {machine} ELSE Doors
\* A graph is named for a door it lies behind.
GraphOf(x) == IF machine = "shared" THEN "pipewire" ELSE x

\* The devices a program of a graph can record from.
Sources(g) == plugged \cup {WireMic[x] : x \in {y \in published : GraphOf(y) = g}}

\* What the programs of a graph may get when they ask for the default.
Effective(g, c) ==
  IF c[g] \in Sources(g) THEN {c[g]}
  ELSE IF plugged # {} THEN plugged
  ELSE IF Sources(g) # {} THEN Sources(g)
  ELSE {None}

\* PulseDefault reports what is in effect, PipeWireDefault what was configured
\* if anything was.
Reported(x, c) ==
  IF x = "pipewire" /\ c[x] # None THEN {c[x]} ELSE Effective(GraphOf(x), c)

\* pactl lists the sources.  pw-cli lists every node: where PipeWire serves
\* PulseAudio also the playback stream of the PulseAudio backend, which is opened
\* under config_.nodeName.
Listed(x) ==
  Sources(GraphOf(x)) \cup
    (IF x = "pipewire" /\ machine = "shared" /\ "pulse" \in running \cap published
     THEN {kPipeWireNodeName} ELSE {})

\* SourceExists, PipeWireNodeExists: the name is looked for anywhere in the listing.
Exists(x, d) == x \in servers /\ \E e \in Listed(x) : e = d \/ <<d, e>> \in PartOf

\* The defaults after both doors' commands, pactl's first.
Configured(doors, name) ==
  [g \in Doors |->
     IF g = "pipewire" /\ g \in doors THEN name[g]
     ELSE IF "pulse" \in doors /\ g = GraphOf("pulse") THEN name["pulse"]
     ELSE chosen[g]]

DefaultInit ==
  /\ machine \in Machines
  /\ servers \in SUBSET DoorsHere /\ plugged \in SUBSET Mics
  /\ machine = "shared" /\ "pulse" \in servers => "pipewire" \in servers
  /\ published = {} /\ recorder = None
  /\ chosen \in [Doors -> Mics \cup {None}]
  /\ \A g \in Doors : chosen[g] # None => g \in {GraphOf(x) : x \in DoorsHere}
  /\ app = "off" /\ running = {}
  /\ stored = Nothing /\ offered = FALSE
  /\ was = Nothing

-----------------------------------------------------------------------------
(* Publishing *)

\* DetectAllAudioServers: of two doors to one graph PulseAudio's is taken.
Kinds == IF machine = "shared" /\ "pulse" \in servers THEN {"pulse"} ELSE servers

\* A program keeps the source it opened unless that is made anew or goes.
Remade(doors) ==
  recorder' = IF \E x \in doors : recorder = WireMic[x] THEN None ELSE recorder

\* CreateVirtualMicOnAllServers and CompositeBackend::start: a backend for each
\* kind, and enough if one starts.  PulseAudio's first unloads what a crash has
\* left, and may fail before or after that.
Publish(started, cleared) ==
  /\ started \subseteq Kinds /\ cleared \subseteq Kinds
  /\ running' = started
  /\ published' = (published \ cleared) \cup started
  /\ Remade(started \cup cleared)

\* ConnectionManager::start, behind which the settings page is built.
Start(started, cleared) ==
  /\ app = "off"
  /\ app' = "on"
  /\ Publish(started, cleared)
  /\ offered' = Some(stored)
  /\ UNCHANGED <<machine, servers, plugged, chosen, stored, was>>

\* Mutant: the microphone is made anew for each session.
EnsureAnew(started, cleared) ==
  /\ app = "on"
  /\ Publish(started, cleared)
  /\ UNCHANGED <<machine, servers, plugged, chosen, app, stored, offered, was>>
\* ensureVirtualMic when a session begins: nothing to do if any backend runs.
EnsureVirtualMic(started, cleared) ==
  /\ app = "on" /\ running = {}
  /\ Publish(started, cleared)
  /\ UNCHANGED <<machine, servers, plugged, chosen, app, stored, offered, was>>

\* ConnectionManager::stop and destroyVirtualMic
Quit ==
  /\ app = "on"
  /\ app' = "off" /\ running' = {} /\ offered' = FALSE
  /\ published' = published \ running
  /\ Remade(running)
  /\ UNCHANGED <<machine, servers, plugged, chosen, stored, was>>

\* PulseAudio keeps the modules of a program that has died.
AppDies ==
  /\ app = "on"
  /\ app' = "off" /\ running' = {} /\ offered' = FALSE
  /\ published' = published \ {"pipewire"}
  /\ Remade({"pipewire"})
  /\ UNCHANGED <<machine, servers, plugged, chosen, stored, was>>

-----------------------------------------------------------------------------
(* The buttons *)

\* MoveRecordingStreamsTo: a stream that cannot be moved stays.
Move(doors, d) ==
  IF "pulse" \in doors /\ recorder # None THEN recorder' \in {recorder, d}
  ELSE UNCHANGED recorder

\* Mutant: what was remembered is replaced even if nothing was found.
ReplaceAlways(found) == found
\* makeVirtualMicDefault: a click that finds nothing to remember keeps the old.
Remembered(found) == IF Some(found) THEN found ELSE stored

\* makeVirtualMicDefault and MakeWireMicDefault, when the doors in changed take
\* the new default.  PipeWire's old one is read after PulseAudio's was set, and
\* each is remembered whether it changed or not.
MakeDefault(changed) ==
  LET on == {x \in Doors : Exists(x, WireMic[x])}
      midway == Configured(changed \ {"pipewire"}, WireMic)
  IN
  /\ app = "on"
  /\ changed # {} /\ changed \subseteq on
  /\ \E p \in Reported("pulse", chosen), w \in Reported("pipewire", midway) :
       LET current == [x \in Doors |-> IF x = "pulse" THEN p ELSE w]
           found == [x \in Doors |->
                       IF x \in on /\ current[x] # WireMic[x] THEN current[x] ELSE None]
       IN  /\ stored' = Remembered(found)
           /\ was' = [x \in Doors |->
                        IF x \in changed /\ found[x] \in Mics THEN found[x] ELSE was[x]]
  /\ chosen' = Configured(changed, WireMic)
  /\ Move(changed, WireMic["pulse"])
  /\ offered' = Some(stored')
  /\ UNCHANGED <<machine, servers, plugged, published, app, running>>

\* restorePreviousMic and RestoreDefault, when the doors in restored take the old
\* default back.  The key is removed if any did: of a door whose microphone was
\* not there, the old default is forgotten.
Restore(restored) ==
  /\ app = "on" /\ offered
  /\ restored # {} /\ restored \subseteq {x \in Doors : Exists(x, stored[x])}
  /\ "pulse" \in restored => stored["pulse"] \in Sources(GraphOf("pulse"))
  /\ chosen' = Configured(restored, stored)
  /\ Move(restored, stored["pulse"])
  /\ stored' = Nothing /\ offered' = FALSE
  /\ was' = [x \in Doors |-> IF x \in restored THEN None ELSE was[x]]
  /\ UNCHANGED <<machine, servers, plugged, published, app, running>>

-----------------------------------------------------------------------------
(* The machine and its user *)

Choose(x, d) ==
  /\ x \in servers /\ d \in Sources(GraphOf(x))
  /\ chosen' = [chosen EXCEPT ![GraphOf(x)] = d]
  /\ was' = [y \in Doors |-> IF d \in Mics /\ GraphOf(y) = GraphOf(x) THEN None ELSE was[y]]
  /\ UNCHANGED <<machine, servers, plugged, published, recorder, appVars>>

Record(d) ==
  /\ "pulse" \in servers
  /\ d \in Sources(GraphOf("pulse")) \cup {None}
  /\ recorder' = d
  /\ UNCHANGED <<machine, servers, plugged, published, chosen, appVars, was>>

Plug(m) ==
  /\ m \notin plugged
  /\ plugged' = plugged \cup {m}
  /\ UNCHANGED <<machine, servers, published, chosen, recorder, appVars, was>>

Unplug(m) ==
  /\ m \in plugged
  /\ plugged' = plugged \ {m}
  /\ recorder' = IF recorder = m THEN None ELSE recorder
  /\ UNCHANGED <<machine, servers, published, chosen, appVars, was>>

ServerStarts(x) ==
  /\ x \in DoorsHere \ servers
  /\ machine = "shared" /\ x = "pulse" => "pipewire" \in servers
  /\ servers' = servers \cup {x}
  /\ UNCHANGED <<machine, plugged, published, chosen, recorder, appVars, was>>

\* The backend is not told, and keeps running.  A PulseAudio that PipeWire serves
\* goes with it.
ServerStops(x) ==
  LET gone == IF machine = "shared" /\ x = "pipewire" THEN Doors ELSE {x} IN
  /\ x \in servers
  /\ servers' = servers \ gone /\ published' = published \ gone
  /\ IF "pulse" \in gone THEN recorder' = None ELSE UNCHANGED recorder
  /\ UNCHANGED <<machine, plugged, chosen, appVars, was>>

Application ==
  \/ \E started, cleared \in SUBSET Doors :
       Start(started, cleared) \/ EnsureVirtualMic(started, cleared)
  \/ Quit
  \/ AppDies

Buttons == \E doors \in SUBSET Doors : MakeDefault(doors) \/ Restore(doors)

Machine ==
  \/ \E x \in Doors : ServerStarts(x) \/ ServerStops(x) \/ \E d \in Devices : Choose(x, d)
  \/ \E m \in Mics : Plug(m) \/ Unplug(m)
  \/ \E d \in Devices \cup {None} : Record(d)

DefaultNext == Application \/ Buttons \/ Machine

DefaultSpec == DefaultInit /\ [][DefaultNext]_defaultVars

-----------------------------------------------------------------------------
(* Properties *)

\* Type invariant.
DefaultTypeOK ==
  /\ machine \in Machines
  /\ servers \subseteq DoorsHere /\ plugged \subseteq Mics /\ published \subseteq servers
  /\ chosen \in [Doors -> Devices \cup {None}] /\ recorder \in Devices \cup {None}
  /\ app \in {"off", "on"} /\ running \subseteq Doors /\ offered \in BOOLEAN
  /\ stored \in [Doors -> Devices \cup {None}] /\ was \in [Doors -> Mics \cup {None}]

\* SettingsPage.cpp:315, on a machine with one door: through closing, crashes and
\* further clicks, the user is one button away from the microphone the button
\* took: it is the one the settings file names, and the other button is there to
\* press.  On a machine with two doors this does not hold (README, section 5).
OneButtonAway ==
  machine \in Doors =>
    /\ \A x \in Doors : was[x] # None => stored[x] = was[x]
    /\ app = "on" /\ Some(was) => offered

\* ConnectionManager.cpp:142: a program that records from the microphone this run
\* published on PulseAudio keeps it through every session, also where another
\* backend has failed or lost its server; it loses it only with the application
\* or its own server, or by the user's choice.
RecorderKeepsMic ==
  [][recorder = kPulseSourceName /\ "pulse" \in running /\ recorder' # kPulseSourceName =>
       \/ Quit
       \/ "pulse" \notin servers'
       \/ \E doors \in SUBSET Doors : Restore(doors)
       \/ \E d \in Devices \cup {None} : Record(d)]_defaultVars

=============================================================================
