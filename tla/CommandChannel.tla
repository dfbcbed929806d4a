--------------------------- MODULE CommandChannel ---------------------------
(***************************************************************************)
(* The commands of one controller over Bluetooth, src/src/controller.py:   *)
(* initialize() and pair() write them one after the other and wait for     *)
(* each answer.  The callback of the answers knows only the id of the      *)
(* command that waits, so an answer that comes after its command timed out *)
(* may be taken for the next one's.  Calibration that was read is kept in  *)
(* a cache for the next connection.                                        *)
(*                                                                         *)
(* External: the controller, which executes commands and answers in the    *)
(* order they came; a write or an answer may be lost.  Input mode, input   *)
(* notifications and the drop of the link are left out (SystemBtRoute has  *)
(* the last).  One stick stands for both.                                  *)
(***************************************************************************)
EXTENDS Naturals, Sequences, FiniteSets

CONSTANTS
  InitIds,       \* the ids of sw2_init_commands, in order
  Failures,      \* consecutive failures that abort initialize(), 3 in the code
  InfoAttempts,  \* attempts to read the controller info, 3 in the code
  PairCommands,  \* the commands of pair(), 4 in the code
  Connections    \* bound: connections

\* The first commands set up a bond too, and the commands after that one are told from it
\* and from those before it: as many as may fail in a row, the bond among them.
ASSUME ChannelAssumption ==
  /\ InitIds \in Seq(STRING) /\ InitIds # <<>>
  /\ Failures \in Nat \ {0} /\ PairCommands \in Nat \ {0}
  /\ \A p \in DOMAIN InitIds : InitIds[p] = "pair" =>
       /\ p + Failures <= Len(InitIds) + 1
       /\ \A k \in DOMAIN InitIds, j \in 1 .. p :
            p < k /\ k < p + Failures => InitIds[k] # InitIds[j]

VARIABLES
  stage,     \* what the connection does: "init", "info", "user", "factory", "pair",
             \* or how it ended: "idle", "ready" or "failed"
  nth,       \* the command of the stage, or the attempt
  failed,    \* _sw2_consec_fail
  future,    \* response_future: "none", "pending" or "done", with the answer
  issued,    \* (history) commands so far
  toPad,     \* commands on their way
  fromPad,   \* answers on their way
  info,      \* controller_info: "none" or the address its bytes came from
  stick,     \* stick_calibration: "none", "centered" or an address
  cached,    \* controller_fast_cache_entries: the stick calibration, or "none"
  bonded,    \* the commands of pair() the controller has executed, in this connection
  hasUser,   \* the controller has a calibration of the user
  connections

padVars == <<toPad, fromPad, bonded, hasUser>>
heldVars == <<info, stick, cached>>
channelVars == <<stage, nth, failed, future, issued, padVars, heldVars, connections>>

ChannelInit ==
  /\ stage = "idle" /\ nth = 1 /\ failed = 0 /\ future = [st |-> "none"] /\ issued = 0
  /\ toPad = <<>> /\ fromPad = <<>> /\ bonded = {}
  /\ info = "none" /\ stick = "none" /\ cached = "none"
  /\ hasUser \in BOOLEAN /\ connections = 0

NoFuture == [st |-> "none"]
Waiting == [st |-> "pending"]

Ended == {"idle", "ready", "failed"}

\* The id of the command of a stage, and what tells it from others of that id.
Command ==
  CASE stage = "init" -> [id |-> InitIds[nth], arg |-> "init", n |-> nth]
    [] stage = "pair" -> [id |-> "pair", arg |-> "pair", n |-> nth]
    [] OTHER -> [id |-> "memory", arg |-> stage, n |-> 1]

ChannelTypeOK ==
  /\ stage \in Ended \cup {"init", "info", "user", "factory", "pair"}
  /\ failed \in 0 .. Failures - 1 /\ Len(toPad) + Len(fromPad) <= issued
  /\ (stage \in Ended => future = NoFuture) /\ bonded \subseteq 1 .. PairCommands
  /\ stick \in {"none", "centered", "user", "factory"}

-----------------------------------------------------------------------------
(* write_command *)

\* The command goes out, or is lost on the way.
CommandWritten ==
  /\ stage \notin Ended /\ future = NoFuture
  /\ future' = Waiting /\ issued' = issued + 1
  /\ toPad' \in {Append(toPad, Command), toPad}
  /\ UNCHANGED <<stage, nth, failed, fromPad, bonded, hasUser, heldVars, connections>>

\* (mutation) whatever comes is the answer
AnyAnswer(answer) == TRUE

\* command_response_callback: only the id is compared.
Expected(answer) == answer.id = Command.id

AnswerArrives ==
  /\ fromPad # <<>> /\ fromPad' = Tail(fromPad)
  /\ IF future = Waiting /\ Expected(Head(fromPad))
     THEN future' = [st |-> "done", answer |-> Head(fromPad)]
     ELSE UNCHANGED future
  /\ UNCHANGED <<stage, nth, failed, issued, toPad, bonded, hasUser, heldVars, connections>>

-----------------------------------------------------------------------------
(* initialize and pair, after a command *)

Goes(next, n) == stage' = next /\ nth' = n

\* After the cached metadata were looked for: the PID alone decides.
AfterInit ==
  IF cached # "none"
  THEN Goes("pair", 1) /\ stick' = cached /\ info' = "info" /\ UNCHANGED cached
  ELSE Goes("info", 1) /\ UNCHANGED heldVars

\* A calibration that was read is cached, the default is not.
AfterStick(value) ==
  /\ Goes("pair", 1)
  /\ stick' = value
  /\ cached' = IF value = "centered" THEN cached ELSE value
  /\ UNCHANGED info

\* The command was answered and its status is good.
Continues(answer) ==
  CASE stage = "init" ->
         /\ failed' = 0
         /\ IF nth < Len(InitIds) THEN Goes("init", nth + 1) /\ UNCHANGED heldVars ELSE AfterInit
    [] stage = "info" -> Goes("user", 1) /\ info' = answer.arg /\ UNCHANGED <<failed, stick, cached>>
    [] stage = "user" /\ ~hasUser -> Goes("factory", 1) /\ UNCHANGED <<failed, heldVars>>
    [] stage \in {"user", "factory"} /\ (stage = "user" => hasUser) ->
         AfterStick(answer.arg) /\ UNCHANGED failed
    [] OTHER ->
         /\ IF nth < PairCommands THEN Goes("pair", nth + 1) ELSE Goes("ready", 1)
         /\ UNCHANGED <<failed, heldVars>>

\* It raised: some failures of the first commands are tolerated, the info is read again,
\* a calibration that cannot be read is replaced, anything else ends the connection.
Raises ==
  CASE stage = "init" /\ failed + 1 < Failures ->
         /\ failed' = failed + 1
         /\ IF nth < Len(InitIds) THEN Goes("init", nth + 1) /\ UNCHANGED heldVars ELSE AfterInit
    [] stage = "info" /\ nth < InfoAttempts -> Goes("info", nth + 1) /\ UNCHANGED <<failed, heldVars>>
    [] stage \in {"user", "factory"} -> AfterStick("centered") /\ UNCHANGED failed
    [] OTHER -> Goes("failed", 1) /\ UNCHANGED <<failed, heldVars>>

\* (mutation) the bytes of any address will do
AnyAddress(answer) == TRUE

\* read_memory looks whether the bytes are those of its address.
OwnAddress(answer) == answer.id = "memory" => answer.arg = stage

Answered ==
  /\ future.st = "done" /\ future' = NoFuture
  /\ IF future.answer.good /\ OwnAddress(future.answer) THEN Continues(future.answer) ELSE Raises
  /\ UNCHANGED <<issued, padVars, connections>>

TimesOut ==
  /\ future = Waiting /\ future' = NoFuture
  /\ Raises
  /\ UNCHANGED <<issued, padVars, connections>>

-----------------------------------------------------------------------------
(* The controller *)

PadExecutes ==
  /\ toPad # <<>> /\ toPad' = Tail(toPad)
  /\ LET c == Head(toPad)
         answer(good) == [id |-> c.id, arg |-> c.arg, n |-> c.n, good |-> good]
     IN  \/ /\ fromPad' \in {Append(fromPad, answer(TRUE)), fromPad}
            /\ bonded' = IF c.arg = "pair" THEN bonded \cup {c.n} ELSE bonded
         \/ fromPad' = Append(fromPad, answer(FALSE)) /\ UNCHANGED bonded
  /\ UNCHANGED <<stage, nth, failed, future, issued, hasUser, heldVars, connections>>

\* A new connection: what was under way is gone.
ChannelOpens ==
  /\ stage \in Ended /\ connections < Connections
  /\ connections' = connections + 1
  /\ Goes("init", 1) /\ failed' = 0
  /\ toPad' = <<>> /\ fromPad' = <<>> /\ bonded' = {} /\ issued' = 0
  /\ info' = "none" /\ stick' = "none"
  /\ UNCHANGED <<future, hasUser, cached>>

ChannelNext ==
  \/ CommandWritten \/ AnswerArrives \/ Answered \/ TimesOut \/ PadExecutes \/ ChannelOpens
  \/ stage \in Ended /\ connections = Connections /\ UNCHANGED channelVars

ChannelSpec == ChannelInit /\ [][ChannelNext]_channelVars

-----------------------------------------------------------------------------

\* However late answers come: the info is the controller's, a calibration that is used or
\* cached is the user's own if there is one, and a pairing that is reported done was
\* executed to its last command.
ReadHonestly ==
  /\ info \in {"none", "info"}
  /\ {stick, cached} \subseteq {"none", "centered", IF hasUser THEN "user" ELSE "factory"}
  /\ cached # "centered"
  /\ stage = "ready" => bonded = 1 .. PairCommands

\* A connection that succeeded is honest, and every variable keeps its type: no more is
\* under way than was issued, and nothing waits for an answer once it has ended.
InitHonest == ChannelTypeOK /\ ReadHonestly

=============================================================================
