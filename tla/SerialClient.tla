---------------------------- MODULE SerialClient ----------------------------
(***************************************************************************)
(* The manager commands of ESP32S3SerialClient (src/src/usb_serial_bridge  *)
(* .py): callers of several threads ask the bridge for its status, or tell *)
(* it to shut down, one at a time under MANAGER_COMMAND_LOCK, and wait for *)
(* the next answer the reader has put into one queue.  The port may be     *)
(* lost and opened again by the reader or by whoever writes next.          *)
(*                                                                         *)
(* External: the firmware, which answers commands in order and drops what  *)
(* its output queue cannot take.  Events and reports, which never enter    *)
(* that queue, are left out (SerialFraming tells them apart).              *)
(***************************************************************************)
EXTENDS Naturals, Sequences, FiniteSets, SequencesExt

CONSTANTS
  Asker,        \* the callers: the session's poll, the GUI's, the exit
  NoAsker,      \* the lock is free
  Exit,         \* the caller of quiesce_and_disconnect
  MaxCommands   \* bound: commands written

ASSUME SerialAssumption == NoAsker \notin Asker

VARIABLES
  port,        \* is_connected and the handle: "closed", "open" or "lost"
  serialReader,\* the read thread: "off", "reading" or "reopening"
  holder,      \* MANAGER_COMMAND_LOCK
  asking,      \* what each caller does: "idle", "locked" or "waiting"
  command,     \* the number of the command it has written
  written,     \* commands so far
  toBridge,    \* commands the firmware has not answered
  fromBridge,  \* answers the reader has not read
  responses,   \* _response_queue
  abandoned,   \* (history) commands whose caller gave up waiting
  stray,       \* (history) for each caller: those whose answer was under way when it began
  answered,    \* (history) the command whose answer it got last, 0 for none
  quiesced     \* what quiesce_and_disconnect returned: "no", "yes" or "unconfirmed"

portVars == <<port, serialReader>>
askVars == <<holder, asking, command, written, abandoned, stray, answered, quiesced>>
wireVars == <<toBridge, fromBridge, responses>>
serialVars == <<portVars, askVars, wireVars>>

SerialInit ==
  /\ port = "closed" /\ serialReader = "off"
  /\ holder = NoAsker /\ asking = [a \in Asker |-> "idle"]
  /\ command = [a \in Asker |-> 0] /\ written = 0
  /\ toBridge = <<>> /\ fromBridge = <<>> /\ responses = <<>>
  /\ abandoned = {} /\ stray = [a \in Asker |-> {}]
  /\ answered = [a \in Asker |-> 0] /\ quiesced = "no"

SerialTypeOK ==
  /\ port \in {"closed", "open", "lost"} /\ serialReader \in {"off", "reading", "reopening"}
  /\ asking \in [Asker -> {"idle", "locked", "waiting"}]
  /\ command \in [Asker -> 0 .. written] /\ answered \in [Asker -> 0 .. written]
  /\ holder \in Asker \cup {NoAsker} /\ (port = "open" => serialReader # "off")

-----------------------------------------------------------------------------
(* The port *)

\* open() and _ensure_read_thread(), by whoever writes
Opens ==
  /\ port' = IF port = "closed" THEN "open" ELSE port
  /\ serialReader' = IF serialReader = "off" THEN "reading" ELSE serialReader

\* The bridge is unplugged, or the machine sleeps.
PortFails ==
  /\ port = "open" /\ port' = "lost"
  /\ toBridge' = <<>> /\ fromBridge' = <<>>
  /\ UNCHANGED <<serialReader, askVars, responses>>

\* _try_reopen, entered when a read raises; it retries until the port is there.
ReaderNotices ==
  /\ port = "lost" /\ serialReader = "reading"
  /\ port' = "closed" /\ serialReader' = "reopening"
  /\ UNCHANGED <<askVars, wireVars>>

ReaderReopens ==
  /\ serialReader = "reopening"
  /\ port' = "open" /\ serialReader' = "reading"
  /\ UNCHANGED <<askVars, wireVars>>

-----------------------------------------------------------------------------
(* send_manager_command *)

\* The call returns: with an answer, or "".
Returns(a) ==
  /\ holder' = NoAsker
  /\ asking' = [asking EXCEPT ![a] = "idle"]

Takes(a) ==
  /\ asking[a] = "idle" /\ holder = NoAsker /\ written < MaxCommands
  /\ a = Exit => quiesced = "no"

\* (mutation) what is in the queue stays there
NotDrained == UNCHANGED responses

\* The lock is taken, the port opened, old answers thrown away.
Drained == responses' = <<>>

AskBegins(a) ==
  /\ Takes(a)
  /\ Opens
  /\ holder' = a /\ asking' = [asking EXCEPT ![a] = "locked"]
  /\ stray' = [stray EXCEPT ![a] = abandoned \cap ToSet(toBridge \o fromBridge)]
  /\ answered' = [answered EXCEPT ![a] = 0]
  /\ Drained
  /\ UNCHANGED <<command, written, abandoned, quiesced, toBridge, fromBridge>>

\* The port cannot be opened.
AskRefused(a) ==
  /\ Takes(a) /\ port = "closed"
  /\ quiesced' = IF a = Exit THEN "unconfirmed" ELSE quiesced
  /\ UNCHANGED <<portVars, wireVars, holder, asking, command, written, abandoned, stray, answered>>

AskWrites(a) ==
  /\ asking[a] = "locked" /\ port = "open"
  /\ asking' = [asking EXCEPT ![a] = "waiting"]
  /\ written' = written + 1
  /\ command' = [command EXCEPT ![a] = written']
  /\ toBridge' = Append(toBridge, written')
  /\ UNCHANGED <<portVars, holder, abandoned, stray, answered, quiesced, fromBridge, responses>>

AskWriteFails(a) ==
  /\ asking[a] = "locked" /\ port # "open"
  /\ Returns(a)
  /\ quiesced' = IF a = Exit THEN "unconfirmed" ELSE quiesced
  /\ UNCHANGED <<portVars, wireVars, command, written, abandoned, stray, answered>>

\* The next answer is taken for the answer.  quiesce_and_disconnect looks whether it is
\* the shutdown's own.
AskAnswered(a) ==
  /\ asking[a] = "waiting" /\ responses # <<>>
  /\ answered' = [answered EXCEPT ![a] = Head(responses)]
  /\ responses' = Tail(responses)
  /\ Returns(a)
  /\ abandoned' = IF Head(responses) = command[a] THEN abandoned ELSE abandoned \cup {command[a]}
  /\ quiesced' = CASE a # Exit -> quiesced
                   [] Head(responses) = command[a] -> "yes"
                   [] OTHER -> "unconfirmed"
  /\ UNCHANGED <<portVars, command, written, stray, toBridge, fromBridge>>

AskTimesOut(a) ==
  /\ asking[a] = "waiting" /\ responses = <<>>
  /\ Returns(a)
  /\ abandoned' = abandoned \cup {command[a]}
  /\ quiesced' = IF a = Exit THEN "unconfirmed" ELSE quiesced
  /\ UNCHANGED <<portVars, wireVars, command, written, stray, answered>>

-----------------------------------------------------------------------------
(* The bridge and the reader *)

BridgeAnswers ==
  /\ toBridge # <<>> /\ port = "open"
  /\ toBridge' = Tail(toBridge)
  /\ fromBridge' \in {Append(fromBridge, Head(toBridge)), fromBridge}
  /\ UNCHANGED <<portVars, askVars, responses>>

ReaderQueues ==
  /\ serialReader = "reading" /\ port = "open" /\ fromBridge # <<>>
  /\ responses' = Append(responses, Head(fromBridge))
  /\ fromBridge' = Tail(fromBridge)
  /\ UNCHANGED <<portVars, askVars, toBridge>>

SerialNext ==
  \/ PortFails \/ ReaderNotices \/ ReaderReopens \/ BridgeAnswers \/ ReaderQueues
  \/ \E a \in Asker :
       \/ AskBegins(a) \/ AskRefused(a) \/ AskWrites(a) \/ AskWriteFails(a)
       \/ AskAnswered(a) \/ AskTimesOut(a)
  \/ written = MaxCommands /\ holder = NoAsker /\ UNCHANGED serialVars

SerialSpec == SerialInit /\ [][SerialNext]_serialVars

-----------------------------------------------------------------------------

\* "Responses can't get mixed up": a caller gets the answer to its own command.  The one
\* way it gets another's is an answer that was still under way, after its caller had given
\* up, when this command began; one that waits in the queue by then is never taken.
AnswersMatch ==
  \A a \in Asker : answered[a] # 0 => answered[a] \in {command[a]} \cup stray[a]

\* What a caller is told is the answer it asked for, and every variable keeps its type: no
\* caller has or got a number that was never written, and an open port has a reader.
OwnAnswers == SerialTypeOK /\ AnswersMatch

=============================================================================
