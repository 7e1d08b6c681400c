CONSTANTS
  mic = mic
  mic2 = mic2
  Machines = {"pulse", "pipewire", "both", "shared"}
  Mics = {mic, mic2}
  PartOf <- NamedAlike
  kPulseSourceName = kPulseSourceName
  kPipeWireNodeName = kPipeWireNodeName
  None = None
SPECIFICATION DefaultSpec
INVARIANT OneButtonAway
PROPERTY RecorderKeepsMic
CHECK_DEADLOCK FALSE
