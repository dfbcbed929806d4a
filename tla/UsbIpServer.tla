----------------------------- MODULE UsbIpServer -----------------------------
(***************************************************************************)
(* The requests (URBs) of a virtual DualSense, src/src/usbip_server.py and *)
(* usbip_dualsense_server.py: the thread that reads the socket leaves      *)
(* those of HID input, audio output and microphone to three loops (it      *)
(* answers any other itself, and never marks it: left out); answers go out *)
(* directly or through the priority queue of the TX writer.  The host may withdraw a request (UNLINK) and   *)
(* may reset a stream at any time, and the connection may break and be     *)
(* made anew while the loops hold requests of the old one.                 *)
(*                                                                         *)
(* External: the host, which numbers the requests of a connection from 1.  *)
(* Payloads, pacing, the audio clock, stop() and the bound of 4096 marks   *)
(* are left out.                                                           *)
(***************************************************************************)
EXTENDS Naturals, Sequences

CONSTANT
  Requests   \* bound: the requests of each connection

VARIABLES
  attached,  \* connections so far
  link,      \* the last: "off", "up", "broken" (not noticed yet) or "dead" (_dead_socket_ids)
  urbKind,      \* of each request: "none" (not submitted), "hid", "out" or "mic"
  place,     \* where it is: "none", "queued", "held" by its loop, in the "tx" queue or "gone"
  marked,    \* _pending_seqnums
  unlinked,  \* _unlinked_seqnums
  unlinkDue, \* RET_UNLINKs in the TX queue: "none", "reset" (-ECONNRESET) or "zero"
  wire,      \* what the host got for each request, in order
  mixed      \* (history) numbers whose marks a request of an older connection took

urbVars == <<attached, link, urbKind, place, marked, unlinked, unlinkDue, wire, mixed>>

Attachments == Len(Requests)
Urb == UNION {{a} \X (1 .. Requests[a]) : a \in 1 .. Attachments}
Number(u) == u[2]
Here(u) == u[1] = attached
Audio == {"out", "mic"}

UrbInit ==
  /\ attached = 0 /\ link = "off"
  /\ urbKind = [u \in Urb |-> "none"] /\ place = [u \in Urb |-> "none"]
  /\ marked = {} /\ unlinked = {} /\ mixed = {}
  /\ unlinkDue = [u \in Urb |-> "none"] /\ wire = [u \in Urb |-> <<>>]

UrbTypeOK ==
  /\ urbKind \in [Urb -> {"none", "hid", "out", "mic"}]
  /\ place \in [Urb -> {"none", "queued", "held", "tx", "gone"}]
  /\ unlinkDue \in [Urb -> {"none", "reset", "zero"}]
  /\ marked \cup unlinked \cup mixed \subseteq {Number(u) : u \in Urb}
  /\ \A u \in Urb : (urbKind[u] = "none") = (place[u] = "none") /\ Len(wire[u]) <= 2

-----------------------------------------------------------------------------
(* The marks of deferred requests, kept by number *)

\* (mutation) a claim that looks at the requests still pending only
OutOfPending(N) == {}

\* _claim_urb_completion: the requests of N that are not to be answered.
Withdrawn(N) == unlinked \cap N

\* It takes the marks away, for whatever connection they were made.
Unmark(U) ==
  /\ marked' = marked \ {Number(u) : u \in U}
  /\ unlinked' = unlinked \ {Number(u) : u \in U}
  /\ mixed' = mixed \cup {Number(u) : u \in {v \in U : ~ Here(v) /\ Number(v) \in marked \cup unlinked}}

\* Those of U that are claimed and whose connection is not known to be dead
Answerable(U) == {u \in U : Here(u) /\ link \in {"up", "broken"} /\ Number(u) \notin Withdrawn({Number(u)})}

\* What the host has got after answer was sent for the requests of U.
Received(U, answer) ==
  [u \in Urb |-> IF u \in U /\ Here(u) /\ link = "up" THEN Append(wire[u], answer) ELSE wire[u]]

Leave(U) == [u \in Urb |-> IF u \in U THEN "gone" ELSE place[u]]

ClaimAndSend(U) ==
  /\ Unmark(U) /\ place' = Leave(U)
  /\ wire' = Received(Answerable(U), "submit")

-----------------------------------------------------------------------------
(* The socket's thread *)

\* _handle_submit of a request that is deferred
UrbSubmitted(u, k) ==
  /\ Here(u) /\ link = "up" /\ urbKind[u] = "none"
  /\ \A n \in 1 .. Number(u) - 1 : urbKind[<<attached, n>>] # "none"
  /\ urbKind' = [urbKind EXCEPT ![u] = k]
  /\ place' = [place EXCEPT ![u] = "queued"]
  /\ marked' = marked \cup {Number(u)}
  /\ UNCHANGED <<attached, link, unlinked, unlinkDue, wire, mixed>>

\* _mark_urb_unlinked, and the answer to the UNLINK itself.
UrbUnlinked(u) ==
  /\ Here(u) /\ link = "up" /\ urbKind[u] # "none"
  /\ unlinkDue[u] = "none" /\ \A i \in DOMAIN wire[u] : wire[u][i] = "submit"
  /\ unlinkDue' = [unlinkDue EXCEPT ![u] = IF Number(u) \in marked THEN "reset" ELSE "zero"]
  /\ unlinked' = IF Number(u) \in marked THEN unlinked \cup {Number(u)} ELSE unlinked
  /\ UNCHANGED <<attached, link, urbKind, place, marked, wire, mixed>>

QueuedOf(k) == {u \in Urb : urbKind[u] = k /\ place[u] = "queued"}
InTxOf(k) == {u \in Urb : urbKind[u] = k /\ place[u] = "tx"}

\* (mutation) a reset that throws the queue of its stream away
DropsQueue(k, clear) ==
  /\ Unmark(QueuedOf(k)) /\ place' = Leave(QueuedOf(k)) /\ UNCHANGED wire

\* _drain_audio_queue: every request of the stream is answered at once, those of the
\* microphone through the TX queue; CLEAR_FEATURE sends what is in there as well.
CompletesQueue(k, clear) ==
  IF k = "out" THEN ClaimAndSend(QueuedOf(k))
  ELSE IF clear THEN ClaimAndSend(QueuedOf(k) \cup InTxOf(k))
  ELSE /\ place' = [u \in Urb |-> IF u \in QueuedOf(k) THEN "tx" ELSE place[u]]
       /\ UNCHANGED <<marked, unlinked, wire, mixed>>

\* SET_INTERFACE with alternate setting 0, or CLEAR_FEATURE(ENDPOINT_HALT).
StreamReset(k, clear) ==
  /\ link = "up" /\ QueuedOf(k) \cup InTxOf(k) # {}
  /\ CompletesQueue(k, clear)
  /\ UNCHANGED <<attached, link, urbKind, unlinkDue>>

-----------------------------------------------------------------------------
(* The loops *)

\* The queues are FIFO, and each loop holds one request.
IsNext(u) ==
  /\ place[u] = "queued" /\ \A v \in Urb : urbKind[v] = urbKind[u] => place[v] # "held"
  /\ \A v \in QueuedOf(urbKind[u]) : v[1] > u[1] \/ (v[1] = u[1] /\ v[2] >= u[2])

\* _in_urb_loop claims the request before it waits for its time ...
HidTaken(u) ==
  /\ urbKind[u] = "hid" /\ IsNext(u)
  /\ Unmark({u})
  /\ place' = [place EXCEPT ![u] = IF Number(u) \in Withdrawn({Number(u)}) THEN "gone" ELSE "held"]
  /\ UNCHANGED <<attached, link, urbKind, unlinkDue, wire>>

\* ... and answers it whatever has happened meanwhile.
HidAnswered(u) ==
  /\ urbKind[u] = "hid" /\ place[u] = "held"
  /\ place' = Leave({u}) /\ wire' = Received({u}, "submit")
  /\ UNCHANGED <<attached, link, urbKind, marked, unlinked, unlinkDue, mixed>>

AudioTaken(u) ==
  /\ urbKind[u] \in Audio /\ IsNext(u)
  /\ place' = [place EXCEPT ![u] = "held"]
  /\ UNCHANGED <<attached, link, urbKind, marked, unlinked, unlinkDue, wire, mixed>>

\* _send_iso_reply: audio output is claimed and sent under send_lock.
OutAnswered(u) ==
  /\ urbKind[u] = "out" /\ place[u] = "held"
  /\ ClaimAndSend({u})
  /\ UNCHANGED <<attached, link, urbKind, unlinkDue>>

\* The microphone's answer goes to the TX queue unless its socket is dead.
MicQueued(u) ==
  /\ urbKind[u] = "mic" /\ place[u] = "held"
  /\ IF Here(u) /\ link # "dead"
     THEN place' = [place EXCEPT ![u] = "tx"] /\ UNCHANGED <<marked, unlinked, wire, mixed>>
     ELSE ClaimAndSend({u})
  /\ UNCHANGED <<attached, link, urbKind, unlinkDue>>

\* _tx_writer_loop, in the order of the priorities: RET_UNLINK before the microphone.
UnlinkSent(u) ==
  /\ unlinkDue[u] # "none"
  /\ unlinkDue' = [unlinkDue EXCEPT ![u] = "none"]
  /\ wire' = Received({u}, unlinkDue[u])
  /\ UNCHANGED <<attached, link, urbKind, place, marked, unlinked, mixed>>

NoUnlinkDue == \A u \in Urb : unlinkDue[u] = "none"

MicSent(u) ==
  /\ NoUnlinkDue /\ urbKind[u] = "mic" /\ place[u] = "tx"
  /\ ClaimAndSend({u})
  /\ UNCHANGED <<attached, link, urbKind, unlinkDue>>

-----------------------------------------------------------------------------
(* The connection *)

\* The host is gone: nothing reaches it any more, and what it got is forgotten.
LinkBreaks ==
  /\ link = "up" /\ link' = "broken"
  /\ unlinkDue' = [u \in Urb |-> "none"] /\ wire' = [u \in Urb |-> <<>>]
  /\ UNCHANGED <<attached, urbKind, place, marked, unlinked, mixed>>

AudioWaiting == UNION {QueuedOf(k) \cup InTxOf(k) : k \in Audio}

\* _mark_socket_dead: audio that waits is claimed and dropped, HID input stays queued.
DeathNoticed ==
  /\ link = "broken" /\ link' = "dead"
  /\ Unmark(AudioWaiting) /\ place' = Leave(AudioWaiting)
  /\ UNCHANGED <<attached, urbKind, unlinkDue, wire>>

\* _handle_client of the next connection: _mark_socket_alive drops what audio is left,
\* _reset_urb_tracking forgets the marks.
Attaches ==
  /\ link \in {"off", "dead"} /\ attached < Attachments
  /\ attached' = attached + 1 /\ link' = "up"
  /\ LET left == {u \in Urb : place[u] \in {"queued", "held"}} \ AudioWaiting
     IN  /\ urbKind' = [u \in Urb |-> IF u \in left THEN urbKind[u] ELSE "none"]
         /\ place' = [u \in Urb |-> IF u \in left THEN place[u] ELSE "none"]
  /\ marked' = {} /\ unlinked' = {} /\ mixed' = {}
  /\ UNCHANGED <<unlinkDue, wire>>

UrbNext ==
  \/ \E u \in Urb :
       \/ \E k \in {"hid", "out", "mic"} : UrbSubmitted(u, k)
       \/ UrbUnlinked(u)
  \/ \E k \in Audio, clear \in BOOLEAN : StreamReset(k, clear)
  \/ \E u \in Urb :
       \/ HidTaken(u) \/ HidAnswered(u) \/ AudioTaken(u) \/ OutAnswered(u)
       \/ MicQueued(u) \/ UnlinkSent(u) \/ MicSent(u)
  \/ LinkBreaks \/ DeathNoticed \/ Attaches
  \/ link = "dead" /\ attached = Attachments /\ UNCHANGED urbVars

UrbSpec == UrbInit /\ [][UrbNext]_urbVars

-----------------------------------------------------------------------------

Index(u, answers) == {i \in DOMAIN wire[u] : wire[u][i] \in answers}

\* A request is answered once: no second RET_SUBMIT, none after a RET_UNLINK that says it
\* was cancelled and, for audio, none after any; and as long as the connection lives a
\* request that was neither answered nor cancelled is in some queue or hand.  Numbers
\* whose marks a leftover of an older connection took are excepted, see the README.
AnsweredOnce ==
  \A u \in Urb : ~ (Here(u) /\ Number(u) \in mixed) =>
    /\ \A i, j \in Index(u, {"submit"}) : i = j
    /\ \A i \in Index(u, IF urbKind[u] \in Audio THEN {"reset", "zero"} ELSE {"reset"}),
          j \in Index(u, {"submit"}) : j < i /\ wire[u][i] = "zero"
    /\ Here(u) /\ link = "up" /\ place[u] = "gone" =>
         wire[u] # <<>> \/ unlinkDue[u] = "reset"

\* Each request gets one completion, and every variable keeps its type: no mark is of a
\* number nobody uses, and the host gets two answers of one number at most, however the
\* marks are mixed up.
OneCompletion == UrbTypeOK /\ AnsweredOnce

=============================================================================
