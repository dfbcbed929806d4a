------------------------- MODULE MCKeyboardOutput -------------------------
\* Finite instances of KeyboardOutput, with the program's own tokens: two that share a
\* HID usage, one that Windows knows and HID does not, one the other way round, and the
\* two Control keys of the recording dialog, which share a virtual-key code.
EXTENDS KeyboardOutput

CONSTANTS s1, s2, d1, d2

MCDeviceOf == [s \in Source |-> IF s = s1 THEN d1 ELSE d2]
MCUsage == {"A", "MINUS", "LEFT_CONTROL", "RIGHT_CONTROL"}
MCModifier == {"LEFT_CONTROL", "RIGHT_CONTROL"}
MCVk == {"A", "CONTROL", "LCONTROL", "MUTE"}

MCUsageOf ==
  [t \in Token |->
     CASE t = "VK_A" -> "A"
       [] t = "VK_MINUS" -> "MINUS"
       [] t \in {"VK_CONTROL_L", "VK_LCONTROL"} -> "LEFT_CONTROL"
       [] t = "VK_CONTROL_R" -> "RIGHT_CONTROL"
       [] OTHER -> NoUsage]

MCVkOf ==
  [t \in Token |->
     CASE t = "VK_A" -> "A"
       [] t \in {"VK_CONTROL_L", "VK_CONTROL_R"} -> "CONTROL"
       [] t = "VK_LCONTROL" -> "LCONTROL"
       [] t = "VK_VOLUME_MUTE" -> "MUTE"
       [] OTHER -> NoVk]

\* Keys that only one of the two sinks knows, and two that overflow a report of one key.
SinkEdges == {<<s1, "VK_A">>, <<s2, "VK_MINUS">>, <<s2, "VK_VOLUME_MUTE">>}

\* Two tokens of one HID usage.
TwinEdges == {<<s1, "VK_CONTROL_L">>, <<s2, "VK_LCONTROL">>, <<s2, "VK_A">>}

\* One key on both controllers, known to both sinks, and one that HID lacks, for two callers.
StartEdges == {<<s1, "VK_A">>, <<s2, "VK_A">>, <<s2, "VK_VOLUME_MUTE">>}

AllEdges == SinkEdges \cup TwinEdges \cup StartEdges

\* Left and right Control, one on each controller.
ControlEdges == {<<s1, "VK_CONTROL_L">>, <<s2, "VK_CONTROL_R">>}

\* A behaviour keeps to some of the mappings; where the start-up worker runs besides the
\* GUI these are few and the system stays awake.
VARIABLE scene

InScene ==
  \/ scene = "sinks" /\ pressed \subseteq SinkEdges /\ \A c \in Caller \ {Gui} : turn[c] = "idle"
  \/ scene = "twins" /\ pressed \subseteq TwinEdges /\ \A c \in Caller \ {Gui} : turn[c] = "idle"
  \/ scene = "starts" /\ pressed \subseteq StartEdges /\ power = "awake" /\ suspended = {}

SceneInit == KeyboardInit /\ scene \in {"sinks", "twins", "starts"}
SceneNext == KeyboardNext /\ UNCHANGED scene /\ InScene'
SceneSpec == SceneInit /\ [][SceneNext]_<<keyboardVars, scene>>

\* The run with ControlEdges keeps to no scene.
AnySpec == KeyboardInit /\ scene = "any" /\ [][KeyboardNext /\ UNCHANGED scene]_<<keyboardVars, scene>>

=============================================================================
