---------------------------- MODULE SerialFraming ----------------------------
(***************************************************************************)
(* The reader of the ESP32 bridge, _read_loop and _dispatch_binary_packet  *)
(* of src/src/usb_serial_bridge.py: one byte stream carries text lines and *)
(* binary frames, and is read in chunks of any size while the firmware     *)
(* goes on sending.  A turn of the inner loop is one step.                 *)
(*                                                                         *)
(* The firmware's encoding (out_json, send_report_frame,                   *)
(* send_notify_handle_frame and the older form) is Encoded.                *)
(***************************************************************************)
EXTENDS Naturals, Sequences

CONSTANTS
  Message,        \* what the firmware may send, see Sendable
  MaxSent,        \* bound: how many messages it sends
  Channels,       \* MAX_ESP32S3_CHANNELS, 8 in the code
  ReportSize      \* NINTENDO_REPORT_SIZE, 64 in the code

Byte == 0 .. 255
Newline == 10
Sync1 == 170
Sync2 == 85

\* Bytes of a line: neither its end nor the beginning of a frame.
Text(s) ==
  \A i \in 1 .. Len(s) : s[i] # Newline /\ ~(i < Len(s) /\ s[i] = Sync1 /\ s[i + 1] = Sync2)

\* A message: a text line, a command's answer, an input report without or with the handle
\* of its characteristic, or a report in the older form (channel 0 only); a frame may have
\* bytes of a line that was cut off in front of it (noise).
Sendable(m) ==
  /\ m \in [kind : {"line", "ack", "input", "notify", "legacy"}, channel : 0 .. Channels - 1,
            handle : Seq(Byte), payload : Seq(Byte), noise : Seq(Byte)]
  /\ Len(m.handle) = IF m.kind = "notify" THEN 2 ELSE 0
  /\ m.kind \in {"line", "legacy"} => m.channel = 0
  /\ IF m.kind = "line" THEN m.noise = <<>> /\ Text(m.payload)
                        ELSE Text(m.noise) /\ Len(m.payload) \in 1 .. ReportSize

ASSUME FramingAssumption ==
  /\ Channels \in 1 .. 62 /\ ReportSize \in 1 .. 252 /\ MaxSent \in Nat
  /\ \A m \in Message : Sendable(m)

VARIABLES
  sent,      \* the messages
  stream,    \* their bytes that are not read yet
  buf,       \* the reader's buffer
  parsing,   \* it is inside the inner loop
  received   \* what it made of them

framingVars == <<sent, stream, buf, parsing, received>>

FrameOf(m) ==
  LET n == Len(m.payload) IN
  CASE m.kind = "ack" -> <<Sync1, Sync2, n + 1, 128 + m.channel + 1>> \o m.payload
    [] m.kind = "input" -> <<Sync1, Sync2, n + 1, m.channel + 1>> \o m.payload
    [] m.kind = "notify" -> (<<Sync1, Sync2, n + 3, 64 + m.channel + 1>> \o m.handle) \o m.payload
    [] m.kind = "legacy" -> <<Sync1, Sync2, n, 0>> \o m.payload

Encoded(m) == IF m.kind = "line" THEN Append(m.payload, Newline) ELSE m.noise \o FrameOf(m)

FramingTypeOK ==
  /\ sent \in Seq(Message) /\ stream \in Seq(Byte) /\ buf \in Seq(Byte) /\ parsing \in BOOLEAN
  /\ received \in Seq([kind : {"line", "ack", "input", "notify"}, channel : 0 .. Channels - 1,
                       handle : Seq(Byte), payload : Seq(Byte)])

FramingInit ==
  sent = <<>> /\ stream = <<>> /\ buf = <<>> /\ parsing = FALSE /\ received = <<>>

FirmwareSends ==
  /\ Len(sent) < MaxSent
  /\ \E m \in Message : sent' = Append(sent, m) /\ stream' = stream \o Encoded(m)
  /\ UNCHANGED <<buf, parsing, received>>

\* read(waiting) or, with nothing waiting, read(1)
ReadsChunk ==
  /\ ~parsing
  /\ \E n \in 1 .. Len(stream) :
       /\ buf' = buf \o SubSeq(stream, 1, n)
       /\ stream' = SubSeq(stream, n + 1, Len(stream))
  /\ parsing' = TRUE
  /\ UNCHANGED <<sent, received>>

\* buf.find: the first of some places; 0 is not found
First(at) == IF at = {} THEN 0 ELSE CHOOSE i \in at : \A j \in at : i <= j
NewlineAt(s) == First({i \in 1 .. Len(s) : s[i] = Newline})
SyncAt(s) == First({i \in 1 .. Len(s) : i < Len(s) /\ s[i] = Sync1 /\ s[i + 1] = Sync2})

Rest(n) == SubSeq(buf, n + 1, Len(buf))
Delivers(m) == received' = Append(received, m)

\* (mutation) the newline is looked for first, wherever the frame starts
LineAnywhere(s) == NewlineAt(s) > 0

LineFirst(s) == NewlineAt(s) > 0 /\ (SyncAt(s) = 0 \/ NewlineAt(s) < SyncAt(s))

TakesLine ==
  /\ parsing /\ LineFirst(buf)
  /\ Delivers([kind |-> "line", channel |-> 0, handle |-> <<>>,
               payload |-> SubSeq(buf, 1, NewlineAt(buf) - 1)])
  /\ buf' = Rest(NewlineAt(buf))
  /\ UNCHANGED <<sent, stream, parsing>>

\* Bytes before a frame that are no line
Resyncs ==
  /\ parsing /\ ~LineFirst(buf) /\ SyncAt(buf) > 1
  /\ buf' = Rest(SyncAt(buf) - 1)
  /\ UNCHANGED <<sent, stream, parsing, received>>

\* The frame at the front: how long it is, and its data, the older form brought to the
\* newer one.
Current(s) == s[3] >= 2 /\ s[4] % 128 \in 1 .. Channels
Legacy(s) == s[3] <= ReportSize /\ s[4] < Channels
FrameSize(s) ==
  IF Len(s) >= 4 /\ ~Current(s) /\ Legacy(s) THEN 4 + s[3] ELSE 3 + s[3]
FrameData(s) ==
  IF Len(s) >= 4 /\ ~Current(s) /\ Legacy(s)
  THEN <<s[4] + 1>> \o SubSeq(s, 5, FrameSize(s)) ELSE SubSeq(s, 4, FrameSize(s))

FrameComplete(s) == SyncAt(s) = 1 /\ Len(s) >= 3 /\ Len(s) >= FrameSize(s)

\* _dispatch_binary_packet: the high bit marks an answer, the next one a frame with a
\* handle; the channel counts from 1.  Whatever has no channel is channel 0's input; a
\* frame that is too short for its handle is dropped.
Ack(d) == d[1] >= 128
Routed(d) == ~Ack(d) /\ d[1] >= 64
ChannelOf(d) == IF Routed(d) THEN d[1] % 64 ELSE d[1] % 128
Dropped(d) == d = <<>> \/ (ChannelOf(d) \in 1 .. Channels /\ Routed(d) /\ Len(d) < 3)
Decoded(d) ==
  LET message(kind, channel, handle, n) ==
        [kind |-> kind, channel |-> channel, handle |-> handle, payload |-> SubSeq(d, n, Len(d))]
  IN  IF ChannelOf(d) \notin 1 .. Channels
        THEN message("input", 0, <<>>, IF d[1] = 5 THEN 2 ELSE 1)
      ELSE IF Ack(d) THEN message("ack", ChannelOf(d) - 1, <<>>, 2)
      ELSE IF Routed(d) THEN message("notify", ChannelOf(d) - 1, SubSeq(d, 2, 3), 4)
      ELSE message("input", ChannelOf(d) - 1, <<>>, 2)

TakesFrame ==
  /\ parsing /\ ~LineFirst(buf) /\ FrameComplete(buf)
  /\ LET d == FrameData(buf) IN
     IF Dropped(d) THEN UNCHANGED received ELSE Delivers(Decoded(d))
  /\ buf' = Rest(FrameSize(buf))
  /\ UNCHANGED <<sent, stream, parsing>>

\* The inner loop breaks: the rest of a line or of a frame is still to come.
WaitsForMore ==
  /\ parsing /\ ~LineFirst(buf)
  /\ SyncAt(buf) = 0 \/ (SyncAt(buf) = 1 /\ ~FrameComplete(buf))
  /\ parsing' = FALSE
  /\ UNCHANGED <<sent, stream, buf, received>>

FramingNext ==
  \/ FirmwareSends \/ ReadsChunk \/ TakesLine \/ Resyncs \/ TakesFrame \/ WaitsForMore
  \/ Len(sent) = MaxSent /\ stream = <<>> /\ ~parsing /\ UNCHANGED framingVars

FramingSpec == FramingInit /\ [][FramingNext]_framingVars

-----------------------------------------------------------------------------

\* What a message is to the rest of the program: the older form is input.
Meaning(m) == [kind |-> IF m.kind = "legacy" THEN "input" ELSE m.kind, channel |-> m.channel,
               handle |-> m.handle, payload |-> m.payload]

\* However the stream is cut into chunks, and whatever bytes the payloads have, what the
\* reader delivers are the messages sent, in order, whole and once, and when it has read
\* everything none is missing; and every variable keeps its type.
MessagesAsSent ==
  /\ FramingTypeOK
  /\ Len(received) <= Len(sent)
  /\ \A i \in 1 .. Len(received) : received[i] = Meaning(sent[i])
  /\ stream = <<>> /\ ~parsing => Len(received) = Len(sent)

=============================================================================
