---------------------------- MODULE UsbHidClient ----------------------------
(***************************************************************************)
(* USBHIDClient of a wired GameCube pad, src/src/usb_hid_controller.py: the *)
(* motor is switched by the edges a producer submits, written by one       *)
(* thread over the vendor interface or, once that has failed, over HID; a  *)
(* second thread reads input.  Both reopen the handle in place when they   *)
(* meet a fault, one at a time, and disconnect() closes it for good while  *)
(* they may still be at it.                                                *)
(*                                                                         *)
(* External: the pad, which plays what a write carried, and forgets it     *)
(* when it browns out.  Pacing, traces and the translation of reports are  *)
(* left out.                                                               *)
(***************************************************************************)
EXTENDS Naturals

CONSTANTS
  RecoverAttempts,  \* _MAX_RECOVER_ATTEMPTS, 3 in the code
  StallWrites       \* _STALL_WRITE_STREAK, 20 in the code

ASSUME UsbAssumption == RecoverAttempts \in Nat /\ StallWrites \in Nat

VARIABLES
  usbDev,     \* dev: "open" or "closed"
  readStop,   \* _read_stop
  told,       \* _disconnect_notified
  closing,    \* disconnect(): "no", "joining" or "done"
  padSlot,    \* _rumble_slot: "none", "on" or "off"
  followup,   \* _gc_rumble_followup
  desired,    \* _gc_rumble_desired_active, "none" for None
  rumbleWake, \* _rumble_wake
  rumbleStop, \* _rumble_stop
  ioPause,    \* _io_pause
  padWriter,  \* the writer: "off", "waiting", "writing", "written" or "reopening"
  sending,    \* what it writes, and whether a follow-up waits and the write succeeded
  padReader,  \* the reader: "off", "reading" or "reopening"
  recovery,   \* inside _reopen_locked: "no", "sleeping", "opened" or "cleared"
  attempts,   \* _recover_attempts
  stalled,    \* _stall_streak
  hidOk,      \* _hid_rumble_ok
  bulk,       \* the vendor interface: "absent", "live" or "failed"
  bulkLast,   \* _last_usb_rumble_command
  padMotor    \* what the pad does

faultVars == <<readStop, told, closing, ioPause, padReader, recovery, attempts>>
edgeVars == <<padSlot, followup, desired, rumbleWake>>
writeVars == <<padWriter, sending, stalled, hidOk, bulk, bulkLast, padMotor>>
usbVars == <<usbDev, faultVars, edgeVars, rumbleStop, writeVars>>

Edges == {"on", "off"}
NoFrame == [edge |-> "none", more |-> FALSE, ok |-> FALSE]

\* After initialize(): the reader runs, the writer starts with the first edge.
UsbInit ==
  /\ usbDev = "open" /\ readStop = FALSE /\ told = FALSE /\ closing = "no"
  /\ padSlot = "none" /\ followup = "none" /\ desired = "off"
  /\ rumbleWake = FALSE /\ rumbleStop = FALSE /\ ioPause = FALSE
  /\ padWriter = "off" /\ sending = NoFrame /\ padReader = "reading"
  /\ recovery = "no" /\ attempts = 0 /\ stalled = 0 /\ hidOk = FALSE
  /\ bulk \in {"absent", "live"} /\ bulkLast = "none" /\ padMotor = "off"

UsbTypeOK ==
  /\ usbDev \in {"open", "closed"} /\ closing \in {"no", "joining", "done"}
  /\ {padSlot, followup, desired, bulkLast} \subseteq Edges \cup {"none"}
  /\ padWriter \in {"off", "waiting", "writing", "written", "reopening"}
  /\ padReader \in {"off", "reading", "reopening"}
  /\ recovery \in {"no", "sleeping", "opened", "cleared"} /\ attempts \in 0 .. RecoverAttempts
  /\ stalled \in 0 .. StallWrites /\ padMotor \in Edges
  /\ followup # "none" => padSlot # "none" \* an edge never overtakes another
  /\ ~(padReader = "reopening" /\ padWriter = "reopening")

-----------------------------------------------------------------------------
(* The producer *)

\* _submit_gamecube_rumble_write: a repeated state carries nothing new; one opposite
\* edge is kept behind the one that waits.
PadSubmit(e) ==
  /\ closing # "done" /\ e # desired
  /\ desired' = e
  /\ padSlot' = IF padSlot = "none" THEN e ELSE padSlot
  /\ followup' = IF padSlot \in {"none", e} THEN "none" ELSE e
  /\ rumbleWake' = TRUE
  /\ padWriter' = IF padWriter = "off" THEN "waiting" ELSE padWriter
  /\ rumbleStop' = (padWriter # "off" /\ rumbleStop)
  /\ UNCHANGED <<usbDev, faultVars, sending, stalled, hidOk, bulk, bulkLast, padMotor>>

-----------------------------------------------------------------------------
(* _reopen, by the reader or the writer *)

MayReopen == recovery = "no" /\ ~readStop /\ attempts < RecoverAttempts

BeginsReopen ==
  /\ MayReopen
  /\ attempts' = attempts + 1 /\ recovery' = "sleeping"
  /\ ioPause' = TRUE /\ usbDev' = "closed"

\* (mutation) the handle is opened although disconnect() has begun
OpensRegardless == usbDev' = "open" /\ recovery' = "opened"

\* After the backoff.
OpensAgain == ~readStop /\ usbDev' = "open" /\ recovery' = "opened"

\* (mutation) the desired state of before the fault is kept
KeepsDesired == padSlot' = "none" /\ followup' = "none" /\ UNCHANGED desired

\* The edges of before the fault are forgotten; the next one is accepted whatever it is.
SendsDesiredAgain == padSlot' = "none" /\ followup' = "none" /\ desired' = "none"

Reopens ==
  /\ recovery = "sleeping" /\ OpensAgain
  /\ UNCHANGED <<readStop, told, closing, ioPause, padReader, attempts, edgeVars, rumbleStop, writeVars>>

\* The worker goes on: the reader with its loop, the writer with the end of its write.
WorkerResumes ==
  /\ padReader' = IF padReader = "reopening" THEN "reading" ELSE padReader
  /\ padWriter' = IF padWriter = "reopening" THEN "written" ELSE padWriter

ReopenClears ==
  /\ recovery = "opened" /\ SendsDesiredAgain
  /\ recovery' = "cleared" /\ stalled' = 0
  /\ UNCHANGED <<usbDev, readStop, told, closing, ioPause, padReader, attempts, rumbleWake,
                 rumbleStop, padWriter, sending, hidOk, bulk, bulkLast, padMotor>>

ReopenDone ==
  /\ recovery = "cleared" /\ recovery' = "no" /\ ioPause' = FALSE
  /\ WorkerResumes
  /\ UNCHANGED <<usbDev, readStop, told, closing, attempts, edgeVars, rumbleStop, sending,
                 stalled, hidOk, bulk, bulkLast, padMotor>>

\* _notify_disconnect: the writer is stopped, the handle closed, the discoverer told.
Tells ==
  /\ told' = TRUE
  /\ IF readStop \/ told THEN UNCHANGED <<usbDev, rumbleStop, rumbleWake>>
     ELSE usbDev' = "closed" /\ rumbleStop' = TRUE /\ rumbleWake' = TRUE

\* disconnect() has begun, or the device cannot be opened.  A reader then ends the
\* session; a writer goes on as after any failed write.
ReopenFails ==
  /\ recovery = "sleeping" /\ recovery' = "no" /\ ioPause' = FALSE
  /\ IF padReader = "reopening"
     THEN padReader' = "off" /\ Tells /\ UNCHANGED padWriter
     ELSE padWriter' = "written" /\ UNCHANGED <<padReader, told, usbDev, rumbleStop, rumbleWake>>
  /\ UNCHANGED <<readStop, closing, attempts, padSlot, followup, desired, sending, stalled,
                 hidOk, bulk, bulkLast, padMotor>>

-----------------------------------------------------------------------------
(* _read_loop *)

\* Input has flowed for _RECOVER_SETTLE: the attempts are refunded.
ReadSettles ==
  /\ padReader = "reading" /\ ~readStop /\ ~ioPause /\ usbDev = "open" /\ attempts > 0
  /\ attempts' = 0 /\ stalled' = 0
  /\ UNCHANGED <<usbDev, readStop, told, closing, ioPause, padReader, recovery, edgeVars,
                 rumbleStop, padWriter, sending, hidOk, bulk, bulkLast, padMotor>>

\* A read raises, or no report has come for _STALL_TIMEOUT.  A pad that browned out has
\* stopped its motor.
ReadFaults ==
  /\ padReader = "reading" /\ ~readStop /\ ~ioPause /\ usbDev = "open"
  /\ padMotor' \in {padMotor, "off"}
  /\ IF MayReopen
     THEN padReader' = "reopening" /\ BeginsReopen /\ UNCHANGED <<told, rumbleStop, rumbleWake>>
     ELSE padReader' = "off" /\ Tells /\ UNCHANGED <<attempts, recovery, ioPause>>
  /\ UNCHANGED <<readStop, closing, padSlot, followup, desired, padWriter, sending, stalled,
                 hidOk, bulk, bulkLast>>

\* disconnect(), or the handle is gone: the loop ends and tells nobody.
ReadEnds ==
  /\ padReader = "reading" /\ (readStop \/ (~ioPause /\ usbDev = "closed"))
  /\ padReader' = "off"
  /\ UNCHANGED <<usbDev, readStop, told, closing, ioPause, recovery, attempts, edgeVars,
                 rumbleStop, writeVars>>

-----------------------------------------------------------------------------
(* _gamecube_rumble_write_loop *)

WriterStops ==
  /\ padWriter = "waiting" /\ rumbleWake /\ rumbleStop
  /\ padWriter' = "off"
  /\ UNCHANGED <<usbDev, faultVars, edgeVars, rumbleStop, sending, stalled, hidOk, bulk, bulkLast,
                 padMotor>>

\* While the handle is swapped the wake-up is spent on nothing.
WriterStandsDown ==
  /\ padWriter = "waiting" /\ rumbleWake /\ ~rumbleStop /\ ioPause
  /\ rumbleWake' = FALSE
  /\ UNCHANGED <<usbDev, faultVars, padSlot, followup, desired, rumbleStop, writeVars>>

WriterTakes ==
  /\ padWriter = "waiting" /\ rumbleWake /\ ~rumbleStop /\ ~ioPause
  /\ rumbleWake' = FALSE
  /\ padSlot' = followup /\ followup' = "none"
  /\ IF padSlot = "none" THEN UNCHANGED <<padWriter, sending>>
     ELSE /\ padWriter' = "writing"
          /\ sending' = [edge |-> padSlot, more |-> followup # "none", ok |-> FALSE]
  /\ UNCHANGED <<usbDev, faultVars, desired, rumbleStop, stalled, hidOk, bulk, bulkLast, padMotor>>

\* A command equal to the last one accepted is not sent again (an active one only for
\* 100 ms, which a reopening outlasts).
WritesBulk ==
  /\ bulk = "live"
  /\ padMotor' = IF sending.edge = "off" /\ bulkLast = "off" THEN padMotor ELSE sending.edge
  /\ bulkLast' = sending.edge
  /\ padWriter' = "written" /\ sending' = [sending EXCEPT !.ok = TRUE]
  /\ UNCHANGED <<usbDev, faultVars, stalled, hidOk, bulk>>

\* The vendor interface, once failed, is not tried again.
BulkAfter == IF bulk = "live" THEN "failed" ELSE bulk

WritesHid ==
  /\ usbDev = "open" /\ ~readStop
  /\ bulk' = BulkAfter /\ padMotor' = sending.edge
  /\ hidOk' = TRUE /\ stalled' = 0 /\ attempts' = 0
  /\ padWriter' = "written" /\ sending' = [sending EXCEPT !.ok = TRUE]
  /\ UNCHANGED <<usbDev, readStop, told, closing, ioPause, padReader, recovery, bulkLast>>

\* A run of rejected writes is healed by reopening.
WriteRejected ==
  /\ bulk' = BulkAfter
  /\ IF hidOk /\ stalled + 1 >= StallWrites
     THEN /\ stalled' = 0
          /\ IF MayReopen
             THEN BeginsReopen /\ padWriter' = "reopening"
             ELSE padWriter' = "written" /\ UNCHANGED <<usbDev, attempts, recovery, ioPause>>
     ELSE /\ stalled' = IF stalled < StallWrites THEN stalled + 1 ELSE stalled
          /\ padWriter' = "written"
          /\ UNCHANGED <<usbDev, attempts, recovery, ioPause>>
  /\ UNCHANGED <<readStop, told, closing, padReader, sending, hidOk, bulkLast, padMotor>>

\* _write_rumble_frame
WriterWrites ==
  /\ padWriter = "writing"
  /\ WritesBulk \/ WritesHid \/ WriteRejected
  /\ UNCHANGED <<edgeVars, rumbleStop>>

\* (mutation) a failed write counts as done
ForgetsFailure == UNCHANGED desired

\* A failed write may be retried by the next identical update.
AllowsRetry ==
  desired' = IF ~sending.ok /\ desired = sending.edge THEN "none" ELSE desired

WriterFinishes ==
  /\ padWriter = "written" /\ AllowsRetry
  /\ rumbleWake' = (rumbleWake \/ sending.more)
  /\ padWriter' = IF rumbleStop THEN "off" ELSE "waiting"
  /\ sending' = NoFrame
  /\ UNCHANGED <<usbDev, faultVars, padSlot, followup, rumbleStop, stalled, hidOk, bulk, bulkLast, padMotor>>

-----------------------------------------------------------------------------
(* disconnect *)

DisconnectBegins ==
  /\ closing = "no" /\ closing' = "joining"
  /\ readStop' = TRUE /\ told' = TRUE /\ rumbleStop' = TRUE /\ rumbleWake' = TRUE
  /\ UNCHANGED <<usbDev, ioPause, padReader, recovery, attempts, padSlot, followup, desired, writeVars>>

\* The joins give up after half a second, which a backoff or a blocked write outlasts.
DisconnectCloses ==
  /\ closing = "joining" /\ closing' = "done"
  /\ usbDev' = "closed"
  /\ UNCHANGED <<readStop, told, ioPause, padReader, recovery, attempts, edgeVars, rumbleStop, writeVars>>

UsbNext ==
  \/ \E e \in Edges : PadSubmit(e)
  \/ Reopens \/ ReopenClears \/ ReopenDone \/ ReopenFails
  \/ ReadSettles \/ ReadFaults \/ ReadEnds
  \/ WriterStops \/ WriterStandsDown \/ WriterTakes \/ WriterWrites \/ WriterFinishes
  \/ DisconnectBegins \/ DisconnectCloses
  \/ closing = "done" /\ UNCHANGED usbVars

UsbSpec == UsbInit /\ [][UsbNext]_usbVars

-----------------------------------------------------------------------------

\* When the writer has nothing left to do and the handle was not lost, the motor is in the
\* state the last update asked for; otherwise the next identical update is let through.
\* (An edge accepted while a reopening ends can be left in the slot; see the README.)
MotorFollows ==
  padWriter = "waiting" /\ ~rumbleWake /\ padSlot = "none" /\ desired # "none"
    /\ recovery = "no" /\ ~told => padMotor = desired

\* Once disconnect() has returned, no worker that outlived it opens the handle again; and
\* every variable keeps its type: both workers are never inside _reopen, and the counts of
\* attempts and of rejected writes stay within their limits.
ClosedForGood == UsbTypeOK /\ (closing = "done" => usbDev = "closed")

=============================================================================
