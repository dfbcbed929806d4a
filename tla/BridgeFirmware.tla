---------------------------- MODULE BridgeFirmware ----------------------------
(***************************************************************************)
(* The channel table of the ESP32-S3 bridge (main.c of the Bluedroid       *)
(* build) as the host sees it over USB CDC: events leave in order through  *)
(* s_out_queue, a command takes effect when it is sent.  A channel is      *)
(* reserved by "conn", opened once the scanner has stopped, and published  *)
(* when its input notifications are enabled.                               *)
(*                                                                         *)
(* External: the radio and the controllers.  An open may succeed or fail,  *)
(* and a link may go down at any moment; that covers the disconnect queue, *)
(* whose only effect is that a link goes down.  The scanner's own schedule *)
(* is left out: an advertisement may be reported at any moment.            *)
(***************************************************************************)
EXTENDS Naturals, Sequences, FiniteSets

CONSTANTS
  Mac,       \* Bluetooth addresses of the controllers
  NoMac,     \* the address of a channel that is not in use
  Chans,     \* MAX_CH, 8 in the firmware
  OutQueue   \* bound: events under way to the host (s_out_queue holds 24)

ASSUME FirmwareAssumption ==
  /\ NoMac \notin Mac
  /\ Chans \in Nat \ {0}
  /\ OutQueue \in Nat \ {0}

VARIABLES
  fw,         \* s_ch: the address a channel is used for, and how far it is
  pendingConn,\* s_pending_conn
  toHost      \* events on their way to the host

chVars == <<fw, pendingConn>>
fwVars == <<chVars, toHost>>

Chan == 0 .. Chans - 1
NoChan == Chans
Unused == [mac |-> NoMac, st |-> "free"]

Used(ch) == fw[ch].st # "free"
FreeChans == {ch \in Chan : ~Used(ch)}
LowestOf(S) == CHOOSE ch \in S : \A d \in S : ch <= d

\* ch_by_bda: the lowest channel in use for m
ChByBda(m) == LowestOf({ch \in Chan : Used(ch) /\ fw[ch].mac = m})

\* ch_active_mask: what "status lite" reports in ble_channels
ActiveMask == {ch \in Chan : fw[ch].st = "ready"}

\* The device has a link through the bridge.
FwLinked(m) == \E ch \in Chan : fw[ch].mac = m /\ fw[ch].st \in {"open", "ready"}

\* out_json: an event that finds s_out_queue full is lost.
Emit(e) == toHost' = IF Len(toHost) < OutQueue THEN Append(toHost, e) ELSE toHost

FwInit ==
  /\ fw = [ch \in Chan |-> Unused]
  /\ pendingConn = NoChan
  /\ toHost = <<>>

FwTypeOK ==
  /\ fw \in [Chan -> [mac : Mac \cup {NoMac}, st : {"free", "reserved", "open", "ready"}]]
  /\ pendingConn \in Chan \cup {NoChan}

-----------------------------------------------------------------------------
(* handle_command; a "disc" only queues the channel, see above *)

\* do_conn: reserve the lowest free channel and stop the scanner.  A request that
\* was still waiting for the scanner is forgotten, its channel stays reserved.
DoConn(m) ==
  IF FreeChans = {}
  THEN UNCHANGED chVars
  ELSE /\ fw' = [fw EXCEPT ![LowestOf(FreeChans)] = [mac |-> m, st |-> "reserved"]]
       /\ pendingConn' = LowestOf(FreeChans)

\* do_disc_all: a request that waits for the scanner is cancelled; every other
\* channel is queued for a disconnect.
DoDiscAll ==
  /\ pendingConn' = NoChan
  /\ fw' = IF pendingConn = NoChan THEN fw ELSE [fw EXCEPT ![pendingConn] = Unused]

-----------------------------------------------------------------------------
(* Events of the Bluetooth stack *)

\* open_pending_conn, once the scanner has stopped.  When the open does not even
\* start, the channel is freed and nobody is told.
FwOpen ==
  /\ pendingConn # NoChan
  /\ pendingConn' = NoChan
  /\ \E chan \in {[fw[pendingConn] EXCEPT !.st = "open"], Unused} :
       fw' = [fw EXCEPT ![pendingConn] = IF Used(pendingConn) THEN chan ELSE @]
  /\ UNCHANGED toHost

\* publish_channel_ready
FwReady(ch) ==
  /\ fw[ch].st = "open"
  /\ fw' = [fw EXCEPT ![ch].st = "ready"]
  /\ Emit([ev |-> "connected", ch |-> ch, mac |-> fw[ch].mac])
  /\ UNCHANGED pendingConn

\* OPEN_EVT with an error
FwOpenFails(ch) ==
  /\ fw[ch].st = "open"
  /\ fw' = [fw EXCEPT ![ch] = Unused]
  /\ Emit([ev |-> "connect_fail", ch |-> ch, mac |-> fw[ch].mac])
  /\ UNCHANGED pendingConn

\* DISCONNECT_EVT, routed by the address
FwLinkDown(m) ==
  LET ch == ChByBda(m) IN
  /\ FwLinked(m)
  /\ fw' = [fw EXCEPT ![ch] = Unused]
  /\ Emit([ev |-> IF fw[ch].st = "ready" THEN "disconnected" ELSE "connect_fail",
           ch |-> ch, mac |-> m])
  /\ UNCHANGED pendingConn

\* gap_cb: the advertisement of a controller that has no link
FwScanResult(m) ==
  /\ ~FwLinked(m)
  /\ Emit([ev |-> "scan_result", ch |-> NoChan, mac |-> m])
  /\ UNCHANGED chVars

=============================================================================
