---------------------------- MODULE ClientProofs ----------------------------
(***************************************************************************)
(* The host's side of the links to a controller, whatever the numbers of   *)
(* attempts, callers, commands, sides and confirmations: ClosedForGood and *)
(* MotorFollows of the wired GameCube pad, OwnAnswers of the bridge's      *)
(* serial client, InitHonest of the Bluetooth command channel, then        *)
(* PairRumblePlays of the pair's rumble worker, SilentWhenAsleep of the    *)
(* bridge's dispatcher and MessagesAsSent of the serial reader's parser.   *)
(* None is inductive by itself.  Promised says for every step of the pad's *)
(* writer where the last update that was let through is; DueKnown, to whom *)
(* the answers that may still come belong; InitInOrder and PairInOrder,    *)
(* which commands' answers may be late, and that an id tells them apart    *)
(* where it has to; SideOk, for a side whose last transition was an        *)
(* activation and for one whose last was a stop, what the write in flight  *)
(* and the motor may still be; DispatchInv, what the dispatcher knew when  *)
(* it went to sleep; FramingInv, that the parser always stands at the      *)
(* beginning of a message or of its frame, so that it never takes a byte   *)
(* of a payload for the head of one.                                       *)
(***************************************************************************)
EXTENDS UsbHidClient, SerialClient, CommandChannel, SystemBtPairRumble, RumbleDispatcher,
        SerialFraming, FiniteSetTheorems, SequenceTheorems, TLAPS

UsbFlags == readStop \in BOOLEAN /\ told \in BOOLEAN /\ rumbleStop \in BOOLEAN /\ rumbleWake \in BOOLEAN

UsbTyped ==
  /\ UsbFlags
  /\ usbDev \in {"open", "closed"} /\ closing \in {"no", "joining", "done"}
  /\ padSlot \in Edges \cup {"none"} /\ followup \in Edges \cup {"none"} /\ desired \in Edges \cup {"none"}
  /\ bulkLast \in Edges \cup {"none"} /\ padMotor \in Edges /\ bulk \in {"absent", "live", "failed"}
  /\ sending \in [edge : Edges \cup {"none"}, more : BOOLEAN, ok : BOOLEAN]
  /\ padWriter \in {"off", "waiting", "writing", "written", "reopening"}
  /\ padReader \in {"off", "reading", "reopening"}
  /\ recovery \in {"no", "sleeping", "opened", "cleared"}
  /\ followup # "none" => padSlot # "none"

\* Only the end of the session stops the writer, and disconnect() forbids reopening before
\* it closes the handle.
SessionEnds ==
  /\ ~told => ~rumbleStop
  /\ closing # "no" => readStop
  /\ closing = "done" => usbDev = "closed"

\* One worker at a time is inside _reopen_locked.
OneReopens ==
  /\ recovery # "no" <=> padReader = "reopening" \/ padWriter = "reopening"
  /\ ~(padReader = "reopening" /\ padWriter = "reopening")

WriterHolds ==
  /\ padWriter \in {"writing", "reopening"} => ~sending.ok
  /\ padWriter = "writing" => sending.edge \in Edges

\* As long as the vendor interface lives, an off it accepted is still true.
BulkOffTrue == bulk = "live" /\ bulkLast = "off" => padMotor = "off"

\* Where the last accepted update is: in the slots, in the writer's hand, or in the motor; an
\* update whose write failed is forgotten when the write ends.  A reader's fault may stop the
\* motor, and reopening then forgets what was accepted.
Promised ==
  ~told /\ desired # "none" /\ (padReader = "reopening" => recovery = "cleared") =>
    /\ padSlot # "none" => desired = (IF followup = "none" THEN padSlot ELSE followup)
    /\ padSlot = "none" /\ padWriter \in {"off", "waiting"} => padMotor = desired
    /\ padSlot = "none" /\ padWriter \in {"writing", "reopening"} => sending.edge = desired
    /\ padSlot = "none" /\ padWriter = "written" =>
         IF sending.ok THEN padMotor = desired ELSE sending.edge = desired

UsbInv == UsbTyped /\ SessionEnds /\ OneReopens /\ WriterHolds /\ BulkOffTrue /\ Promised

\* _reopen keeps the invariant, whichever worker is in it.
LEMMA ReopenSteps ==
  ASSUME UsbInv, Reopens \/ ReopenClears \/ ReopenDone \/ ReopenFails
  PROVE  UsbInv'
<1>1. CASE Reopens
  BY <1>1 DEF Reopens, OpensAgain, edgeVars, writeVars, UsbInv,
     UsbTyped, UsbFlags, SessionEnds, OneReopens, WriterHolds, BulkOffTrue, Promised
<1>2. CASE ReopenClears
  BY <1>2 DEF ReopenClears, SendsDesiredAgain, UsbInv,
     UsbTyped, UsbFlags, SessionEnds, OneReopens, WriterHolds, BulkOffTrue, Promised
<1>3. CASE ReopenDone
  BY <1>3 DEF ReopenDone, WorkerResumes, edgeVars, UsbInv,
     UsbTyped, UsbFlags, SessionEnds, OneReopens, WriterHolds, BulkOffTrue, Promised
<1>4. CASE ReopenFails
  <2>1. UsbTyped'
    <3>1. UsbFlags'
      BY <1>4 DEF ReopenFails, Tells, Edges, UsbInv, UsbTyped, UsbFlags
    <3> QED BY <1>4, <3>1 DEF ReopenFails, Tells, Edges, UsbInv, UsbTyped
  <2>2. SessionEnds'
    BY <1>4 DEF ReopenFails, Tells, Edges, UsbInv, UsbTyped, UsbFlags, SessionEnds
  <2>3. OneReopens'
    BY <1>4 DEF ReopenFails, Tells, Edges, UsbInv, UsbTyped, UsbFlags, OneReopens
  <2>4. WriterHolds'
    BY <1>4 DEF ReopenFails, Tells, Edges, UsbInv, UsbTyped, UsbFlags, WriterHolds
  <2>5. BulkOffTrue'
    BY <1>4 DEF ReopenFails, Tells, Edges, UsbInv, UsbTyped, UsbFlags, BulkOffTrue
  <2>6. Promised'
    BY <1>4 DEF ReopenFails, Tells, Edges, UsbInv, UsbTyped, UsbFlags, SessionEnds, OneReopens, WriterHolds, Promised
  <2> QED BY <2>1, <2>2, <2>3, <2>4, <2>5, <2>6 DEF UsbInv
<1> QED BY <1>1, <1>2, <1>3, <1>4

\* So does the read loop.
LEMMA ReadSteps ==
  ASSUME UsbInv, ReadSettles \/ ReadFaults \/ ReadEnds
  PROVE  UsbInv'
<1>1. CASE ReadSettles
  BY <1>1 DEF ReadSettles, edgeVars, UsbInv,
     UsbTyped, UsbFlags, SessionEnds, OneReopens, WriterHolds, BulkOffTrue, Promised
<1>2. CASE ReadFaults
  <2>1. UsbTyped'
    <3>1. UsbFlags'
      BY <1>2 DEF ReadFaults, MayReopen, BeginsReopen, Tells, Edges, UsbInv, UsbTyped, UsbFlags
    <3> QED BY <1>2, <3>1 DEF ReadFaults, MayReopen, BeginsReopen, Tells, Edges, UsbInv, UsbTyped
  <2>2. SessionEnds'
    BY <1>2 DEF ReadFaults, MayReopen, BeginsReopen, Tells, Edges, UsbInv, UsbTyped, UsbFlags, SessionEnds
  <2>3. OneReopens'
    BY <1>2 DEF ReadFaults, MayReopen, BeginsReopen, Tells, Edges, UsbInv, UsbTyped, UsbFlags, OneReopens
  <2>4. WriterHolds'
    BY <1>2 DEF ReadFaults, MayReopen, BeginsReopen, Tells, Edges, UsbInv, UsbTyped, UsbFlags, WriterHolds
  <2>5. BulkOffTrue'
    BY <1>2 DEF ReadFaults, MayReopen, BeginsReopen, Tells, Edges, UsbInv, UsbTyped, UsbFlags, BulkOffTrue
  <2>6. Promised'
    BY <1>2 DEF ReadFaults, MayReopen, BeginsReopen, Tells, Edges, UsbInv, UsbTyped, UsbFlags, SessionEnds, OneReopens, WriterHolds, Promised
  <2> QED BY <2>1, <2>2, <2>3, <2>4, <2>5, <2>6 DEF UsbInv
<1>3. CASE ReadEnds
  BY <1>3 DEF ReadEnds, edgeVars, writeVars, UsbInv,
     UsbTyped, UsbFlags, SessionEnds, OneReopens, WriterHolds, BulkOffTrue, Promised
<1> QED BY <1>1, <1>2, <1>3

\* So does the writer's loop around its write.
LEMMA WriterSteps ==
  ASSUME UsbInv, WriterStops \/ WriterStandsDown \/ WriterTakes \/ WriterFinishes
  PROVE  UsbInv'
<1>1. CASE WriterStops
  BY <1>1 DEF WriterStops, faultVars, edgeVars, UsbInv,
     UsbTyped, UsbFlags, SessionEnds, OneReopens, WriterHolds, BulkOffTrue, Promised
<1>2. CASE WriterStandsDown
  <2>1. UsbTyped'
    <3>1. UsbFlags'
      BY <1>2 DEF WriterStandsDown, faultVars, writeVars, UsbInv, UsbTyped, UsbFlags
    <3> QED BY <1>2, <3>1 DEF WriterStandsDown, faultVars, writeVars, UsbInv, UsbTyped
  <2>2. SessionEnds'
    BY <1>2 DEF WriterStandsDown, faultVars, writeVars, UsbInv, UsbTyped, UsbFlags, SessionEnds
  <2>3. OneReopens'
    BY <1>2 DEF WriterStandsDown, faultVars, writeVars, UsbInv, UsbTyped, UsbFlags, OneReopens
  <2>4. WriterHolds'
    BY <1>2 DEF WriterStandsDown, faultVars, writeVars, UsbInv, UsbTyped, UsbFlags, WriterHolds
  <2>5. BulkOffTrue'
    BY <1>2 DEF WriterStandsDown, faultVars, writeVars, UsbInv, UsbTyped, UsbFlags, BulkOffTrue
  <2>6. Promised'
    BY <1>2 DEF WriterStandsDown, faultVars, writeVars, UsbInv, UsbTyped, UsbFlags, SessionEnds, OneReopens, WriterHolds, Promised
  <2> QED BY <2>1, <2>2, <2>3, <2>4, <2>5, <2>6 DEF UsbInv
<1>3. CASE WriterTakes
  <2>1. UsbTyped'
    <3>1. UsbFlags'
      BY <1>3 DEF WriterTakes, faultVars, Edges, UsbInv, UsbTyped, UsbFlags
    <3>2. sending' \in [edge : Edges \cup {"none"}, more : BOOLEAN, ok : BOOLEAN]
      <4>1. PICK more \in BOOLEAN : more = (followup # "none")
        OBVIOUS
      <4>2. sending' = sending \/ sending' = [edge |-> padSlot, more |-> more, ok |-> FALSE]
        BY <1>3, <4>1 DEF WriterTakes
      <4>3. padSlot \in Edges \cup {"none"} /\ sending \in [edge : Edges \cup {"none"}, more : BOOLEAN, ok : BOOLEAN]
        BY DEF UsbInv, UsbTyped
      <4>4. [edge |-> padSlot, more |-> more, ok |-> FALSE] \in [edge : Edges \cup {"none"}, more : BOOLEAN, ok : BOOLEAN]
        BY <4>1, <4>3
      <4>5. CASE sending' = sending
        BY <4>3, <4>5
      <4>6. CASE sending' = [edge |-> padSlot, more |-> more, ok |-> FALSE]
        BY <4>4, <4>6
      <4> QED BY <4>2, <4>5, <4>6
    <3>3. padWriter' \in {"waiting", "writing"} /\ padSlot' = followup /\ followup' = "none"
          /\ UNCHANGED <<faultVars, desired, bulk, bulkLast, padMotor, usbDev>>
      BY <1>3 DEF WriterTakes
    <3> QED BY <3>1, <3>2, <3>3 DEF faultVars, UsbInv, UsbTyped
  <2>2. SessionEnds'
    BY <1>3 DEF WriterTakes, faultVars, Edges, UsbInv, UsbTyped, UsbFlags, SessionEnds
  <2>3. OneReopens'
    BY <1>3 DEF WriterTakes, faultVars, Edges, UsbInv, UsbTyped, UsbFlags, OneReopens
  <2>4. WriterHolds'
    BY <1>3 DEF WriterTakes, faultVars, Edges, UsbInv, UsbTyped, UsbFlags, WriterHolds
  <2>5. BulkOffTrue'
    BY <1>3 DEF WriterTakes, faultVars, Edges, UsbInv, UsbTyped, UsbFlags, BulkOffTrue
  <2>6. Promised'
    BY <1>3 DEF WriterTakes, faultVars, Edges, UsbInv, UsbTyped, UsbFlags, SessionEnds, OneReopens, WriterHolds, Promised
  <2> QED BY <2>1, <2>2, <2>3, <2>4, <2>5, <2>6 DEF UsbInv
<1>4. CASE WriterFinishes
  BY <1>4 DEF WriterFinishes, AllowsRetry, NoFrame, faultVars, UsbInv,
     UsbTyped, UsbFlags, SessionEnds, OneReopens, WriterHolds, BulkOffTrue, Promised
<1> QED BY <1>1, <1>2, <1>3, <1>4

\* So does the write: it plays what it carries, or fails and keeps it in hand.
LEMMA WriteKeeps ==
  ASSUME UsbInv, WriterWrites
  PROVE  UsbInv'
<1>1. /\ padWriter = "writing" /\ sending \in [edge : Edges \cup {"none"}, more : BOOLEAN, ok : BOOLEAN]
      /\ ~sending.ok /\ sending.edge \in Edges /\ padReader \in {"off", "reading", "reopening"}
      /\ UNCHANGED <<padSlot, followup, desired, rumbleWake, rumbleStop>>
  BY DEF UsbInv, UsbTyped, UsbFlags, WriterHolds, WriterWrites, edgeVars
<1>2. ASSUME NEW f, f = [sending EXCEPT !.ok = TRUE]
      PROVE  f \in [edge : Edges \cup {"none"}, more : BOOLEAN, ok : BOOLEAN] /\ f.ok /\ f.edge = sending.edge
  BY <1>1, <1>2
<1>3. CASE WritesBulk
  <2>1. /\ sending' \in [edge : Edges \cup {"none"}, more : BOOLEAN, ok : BOOLEAN] /\ sending'.ok
        /\ padWriter' = "written" /\ bulkLast' = sending.edge
        /\ padMotor' = (IF sending.edge = "off" /\ bulkLast = "off" THEN padMotor ELSE sending.edge)
        /\ bulk = "live" /\ UNCHANGED <<usbDev, readStop, told, closing, padReader, recovery, bulk>>
    BY <1>2, <1>3 DEF WritesBulk, faultVars
  <2>2. padMotor' = sending.edge
    BY <2>1 DEF UsbInv, BulkOffTrue
  <2> QED BY <1>1, <2>1, <2>2 DEF UsbInv, UsbTyped, UsbFlags, SessionEnds, OneReopens, WriterHolds, BulkOffTrue, Promised, Edges
<1>4. CASE WritesHid
  <2>1. /\ sending' \in [edge : Edges \cup {"none"}, more : BOOLEAN, ok : BOOLEAN] /\ sending'.ok
        /\ padWriter' = "written" /\ bulk' \in {"absent", "failed"} /\ padMotor' = sending.edge
        /\ UNCHANGED <<usbDev, readStop, told, closing, padReader, recovery, bulkLast>>
    BY <1>2, <1>4 DEF WritesHid, BulkAfter, UsbInv, UsbTyped, UsbFlags
  <2> QED BY <1>1, <2>1 DEF UsbInv, UsbTyped, UsbFlags, SessionEnds, OneReopens, WriterHolds, BulkOffTrue, Promised, Edges
<1>5. CASE WriteRejected
  <2>1. /\ bulk' \in {"absent", "failed"} /\ UNCHANGED <<readStop, told, closing, padReader, sending, bulkLast, padMotor>>
        /\ \/ padWriter' = "written" /\ UNCHANGED <<usbDev, recovery>>
           \/ /\ recovery = "no" /\ ~readStop /\ recovery' = "sleeping" /\ usbDev' = "closed"
              /\ padWriter' = "reopening"
    BY <1>5 DEF WriteRejected, BulkAfter, MayReopen, BeginsReopen, UsbInv, UsbTyped, UsbFlags
  <2> QED BY <1>1, <2>1 DEF UsbInv, UsbTyped, UsbFlags, SessionEnds, OneReopens, WriterHolds, BulkOffTrue, Promised, Edges
<1> QED BY <1>3, <1>4, <1>5 DEF WriterWrites

\* So do the producer and disconnect().
LEMMA SubmitSteps ==
  ASSUME UsbInv, (\E e \in Edges : PadSubmit(e)) \/ DisconnectBegins \/ DisconnectCloses
  PROVE  UsbInv'
<1>1. ASSUME NEW e \in Edges, PadSubmit(e) PROVE UsbInv'
  BY <1>1 DEF PadSubmit, faultVars, UsbInv, Edges,
     UsbTyped, UsbFlags, SessionEnds, OneReopens, WriterHolds, BulkOffTrue, Promised
<1>2. CASE DisconnectBegins
  BY <1>2 DEF DisconnectBegins, writeVars, UsbInv,
     UsbTyped, UsbFlags, SessionEnds, OneReopens, WriterHolds, BulkOffTrue, Promised
<1>3. CASE DisconnectCloses
  BY <1>3 DEF DisconnectCloses, edgeVars, writeVars, UsbInv,
     UsbTyped, UsbFlags, SessionEnds, OneReopens, WriterHolds, BulkOffTrue, Promised
<1> QED BY <1>1, <1>2, <1>3

\* UsbInv holds throughout.
LEMMA UsbInvariant == UsbSpec => []UsbInv
<1>1. UsbInit => UsbInv
  <2> SUFFICES ASSUME UsbInit PROVE UsbInv
    OBVIOUS
  <2>1. UsbTyped
    BY DEF UsbInit, NoFrame, Edges, UsbTyped, UsbFlags
  <2>2. SessionEnds /\ WriterHolds
    BY DEF UsbInit, SessionEnds, WriterHolds
  <2>3. OneReopens
    BY DEF UsbInit, OneReopens
  <2>4. BulkOffTrue /\ Promised
    BY DEF UsbInit, BulkOffTrue, Promised
  <2> QED BY <2>1, <2>2, <2>3, <2>4 DEF UsbInv
<1>2. UsbInv /\ [UsbNext]_usbVars => UsbInv'
  <2>1. CASE UsbInv /\ UNCHANGED usbVars
    BY <2>1 DEF usbVars, faultVars, edgeVars, writeVars, UsbInv,
       UsbTyped, UsbFlags, SessionEnds, OneReopens, WriterHolds, BulkOffTrue, Promised
  <2> QED BY <2>1, ReopenSteps, ReadSteps, WriterSteps, WriteKeeps, SubmitSteps DEF UsbNext
<1> QED BY <1>1, <1>2, PTL DEF UsbSpec

\* MotorFollows: a writer at rest over a handle that was not lost has brought the motor to
\* the last update, or will let the same update through again.
THEOREM MotorObeys == UsbSpec => []MotorFollows
<1>1. UsbInv => MotorFollows
  BY DEF UsbInv, OneReopens, Promised, MotorFollows
<1> QED BY <1>1, UsbInvariant, PTL

\* What _recover_attempts and _stall_streak count stays within their limits.
Counted == attempts \in 0 .. RecoverAttempts /\ stalled \in 0 .. StallWrites

LEMMA CountedSteps == Counted /\ [UsbNext]_usbVars => Counted'
<1> SUFFICES ASSUME Counted, [UsbNext]_usbVars PROVE Counted'
  OBVIOUS
<1>1. RecoverAttempts \in Nat /\ StallWrites \in Nat
  BY UsbAssumption
<1>2. CASE UNCHANGED <<attempts, stalled>>
  BY <1>2 DEF Counted
<1>3. CASE ReopenClears
  BY <1>1, <1>3 DEF ReopenClears, Counted
<1>4. CASE ReadSettles
  BY <1>1, <1>4 DEF ReadSettles, Counted
<1>5. CASE ReadFaults
  <2>1. UNCHANGED stalled /\ (UNCHANGED attempts \/ (attempts < RecoverAttempts /\ attempts' = attempts + 1))
    BY <1>5 DEF ReadFaults, MayReopen, BeginsReopen
  <2> QED BY <1>1, <2>1 DEF Counted
<1>6. CASE WriterWrites
  <2>1. CASE WritesBulk
    BY <2>1 DEF WritesBulk, faultVars, Counted
  <2>2. CASE WritesHid
    BY <1>1, <2>2 DEF WritesHid, Counted
  <2>3. CASE WriteRejected
    <3>1. /\ UNCHANGED attempts \/ (attempts < RecoverAttempts /\ attempts' = attempts + 1)
          /\ stalled' \in {0, stalled} \/ (stalled < StallWrites /\ stalled' = stalled + 1)
      BY <2>3 DEF WriteRejected, MayReopen, BeginsReopen
    <3> QED BY <1>1, <3>1 DEF Counted
  <2> QED BY <1>6, <2>1, <2>2, <2>3 DEF WriterWrites
<1>7. CASE \E e \in Edges : PadSubmit(e)
  BY <1>2, <1>7 DEF PadSubmit, faultVars
<1>8. CASE Reopens \/ ReopenDone \/ ReopenFails \/ ReadEnds
  BY <1>2, <1>8 DEF Reopens, ReopenDone, ReopenFails, ReadEnds, writeVars
<1>9. CASE WriterStops \/ WriterStandsDown \/ WriterTakes \/ WriterFinishes
  BY <1>2, <1>9 DEF WriterStops, WriterStandsDown, WriterTakes, WriterFinishes, faultVars, writeVars
<1>10. CASE DisconnectBegins \/ DisconnectCloses \/ UNCHANGED usbVars
  BY <1>2, <1>10 DEF DisconnectBegins, DisconnectCloses, writeVars, usbVars, faultVars
<1> QED BY <1>3, <1>4, <1>5, <1>6, <1>7, <1>8, <1>9, <1>10 DEF UsbNext

\* UsbTypeOK: whatever faults the reader and the writer meet, one of them at a time reopens
\* the handle, and no more often than it may.
THEOREM UsbTypeCorrect == UsbSpec => []UsbTypeOK
<1>1. UsbInit => Counted
  BY UsbAssumption DEF UsbInit, Counted
<1>2. UsbInv /\ Counted => UsbTypeOK
  BY DEF UsbInv, UsbTyped, OneReopens, Counted, UsbTypeOK
<1> QED BY <1>1, <1>2, CountedSteps, UsbInvariant, PTL DEF UsbSpec

\* ClosedForGood: what disconnect() has closed stays closed.
THEOREM StaysClosed == UsbSpec => []ClosedForGood
<1>1. UsbInv /\ UsbTypeOK => ClosedForGood
  BY DEF UsbInv, SessionEnds, ClosedForGood
<1> QED BY <1>1, UsbInvariant, UsbTypeCorrect, PTL

-----------------------------------------------------------------------------
(* The bridge's serial client *)

\* No entry is in a sequence twice.
Once(s) == \A i, j \in DOMAIN s : s[i] = s[j] => i = j

\* Taking the first entry of a queue leaves the others.
LEMMA TailSet ==
  ASSUME NEW S, NEW s \in Seq(S), s # <<>>
  PROVE  /\ Tail(s) \in Seq(S) /\ Head(s) \in S
         /\ ToSet(s) = {Head(s)} \cup ToSet(Tail(s))
         /\ Once(s) => Once(Tail(s)) /\ Head(s) \notin ToSet(Tail(s))
<1>1. /\ Tail(s) \in Seq(S) /\ Head(s) \in S /\ Head(s) = s[1]
      /\ Len(s) \in Nat \ {0} /\ Len(Tail(s)) = Len(s) - 1
  OBVIOUS
<1>2. \A n \in 1 .. Len(Tail(s)) : Tail(s)[n] = s[n + 1]
  OBVIOUS
<1>3. DOMAIN s = 1 .. Len(s) /\ DOMAIN Tail(s) = 1 .. Len(Tail(s))
  BY <1>1
<1>4. ToSet(s) \subseteq {Head(s)} \cup ToSet(Tail(s))
  <2> SUFFICES ASSUME NEW i \in 1 .. Len(s)
               PROVE  s[i] \in {Head(s)} \cup {Tail(s)[n] : n \in 1 .. Len(Tail(s))}
    BY <1>3 DEF ToSet
  <2>1. CASE i = 1
    BY <2>1, <1>1
  <2>2. CASE i # 1
    <3>1. i - 1 \in 1 .. Len(Tail(s)) /\ (i - 1) + 1 = i
      BY <2>2, <1>1
    <3>2. Tail(s)[i - 1] = s[i]
      BY <3>1, <1>2
    <3> QED BY <3>1, <3>2
  <2> QED BY <2>1, <2>2
<1>5. {Head(s)} \cup ToSet(Tail(s)) \subseteq ToSet(s)
  BY <1>1, <1>2, <1>3 DEF ToSet
<1>6. ASSUME Once(s) PROVE Once(Tail(s)) /\ Head(s) \notin ToSet(Tail(s))
  <2>1. \A i, j \in 1 .. Len(s) : s[i] = s[j] => i = j
    BY <1>6, <1>3 DEF Once
  <2>2. \A i, j \in 1 .. Len(Tail(s)) : Tail(s)[i] = Tail(s)[j] => i = j
    BY <2>1, <1>1, <1>2
  <2>3. \A i \in 1 .. Len(Tail(s)) : Tail(s)[i] # s[1]
    BY <2>1, <1>1, <1>2
  <2> QED BY <2>2, <2>3, <1>1, <1>3 DEF Once, ToSet
<1> QED BY <1>1, <1>4, <1>5, <1>6

\* Putting an entry last adds it.
LEMMA AppendSet ==
  ASSUME NEW S, NEW s \in Seq(S), NEW x \in S
  PROVE  /\ Append(s, x) \in Seq(S)
         /\ ToSet(Append(s, x)) = ToSet(s) \cup {x}
         /\ Once(s) /\ x \notin ToSet(s) => Once(Append(s, x))
<1>1. /\ Append(s, x) \in Seq(S) /\ Len(s) \in Nat /\ Len(Append(s, x)) = Len(s) + 1
      /\ Append(s, x)[Len(s) + 1] = x
  OBVIOUS
<1>2. \A n \in 1 .. Len(s) : Append(s, x)[n] = s[n]
  OBVIOUS
<1>3. DOMAIN s = 1 .. Len(s) /\ DOMAIN Append(s, x) = 1 .. (Len(s) + 1)
  BY <1>1
<1>4. \A n \in 1 .. (Len(s) + 1) : n \in 1 .. Len(s) \/ n = Len(s) + 1
  BY <1>1
<1>5. ToSet(Append(s, x)) = ToSet(s) \cup {x}
  <2>1. ToSet(Append(s, x)) \subseteq ToSet(s) \cup {x}
    BY <1>1, <1>2, <1>3, <1>4 DEF ToSet
  <2>2. ToSet(s) \cup {x} \subseteq ToSet(Append(s, x))
    BY <1>1, <1>2, <1>3 DEF ToSet
  <2> QED BY <2>1, <2>2
<1>6. ASSUME Once(s), x \notin ToSet(s) PROVE Once(Append(s, x))
  <2>1. /\ \A i, j \in 1 .. Len(s) : s[i] = s[j] => i = j
        /\ \A i \in 1 .. Len(s) : s[i] # x
    BY <1>6, <1>3 DEF Once, ToSet
  <2> QED BY <2>1, <1>1, <1>2, <1>3, <1>4 DEF Once
<1> QED BY <1>1, <1>5, <1>6

LEMMA ConcatSet ==
  ASSUME NEW S, NEW s \in Seq(S), NEW t \in Seq(S)
  PROVE  ToSet(s \o t) = ToSet(s) \cup ToSet(t)
<1>1. /\ s \o t \in Seq(S) /\ Len(s) \in Nat /\ Len(t) \in Nat /\ Len(s \o t) = Len(s) + Len(t)
      /\ DOMAIN s = 1 .. Len(s) /\ DOMAIN t = 1 .. Len(t) /\ DOMAIN (s \o t) = 1 .. (Len(s) + Len(t))
  OBVIOUS
<1>2. \A n \in 1 .. (Len(s) + Len(t)) : (s \o t)[n] = IF n <= Len(s) THEN s[n] ELSE t[n - Len(s)]
  BY <1>1
<1>3. ToSet(s \o t) \subseteq ToSet(s) \cup ToSet(t)
  <2> SUFFICES ASSUME NEW n \in 1 .. (Len(s) + Len(t))
               PROVE  (s \o t)[n] \in ToSet(s) \cup ToSet(t)
    BY <1>1 DEF ToSet
  <2>1. CASE n <= Len(s)
    BY <2>1, <1>1, <1>2 DEF ToSet
  <2>2. CASE ~(n <= Len(s))
    <3>1. n - Len(s) \in 1 .. Len(t) /\ (s \o t)[n] = t[n - Len(s)]
      BY <2>2, <1>1, <1>2
    <3> QED BY <3>1, <1>1 DEF ToSet
  <2> QED BY <2>1, <2>2
<1>4. ToSet(s) \subseteq ToSet(s \o t)
  <2>1. \A n \in 1 .. Len(s) : n \in 1 .. (Len(s) + Len(t)) /\ (s \o t)[n] = s[n]
    BY <1>1, <1>2
  <2> QED BY <2>1, <1>1 DEF ToSet
<1>5. ToSet(t) \subseteq ToSet(s \o t)
  <2> SUFFICES ASSUME NEW n \in 1 .. Len(t)
               PROVE  t[n] \in ToSet(s \o t)
    BY <1>1 DEF ToSet
  <2>1. n + Len(s) \in 1 .. (Len(s) + Len(t)) /\ ~(n + Len(s) <= Len(s)) /\ (n + Len(s)) - Len(s) = n
    BY <1>1
  <2>2. (s \o t)[n + Len(s)] = t[n]
    BY <2>1, <1>2
  <2> QED BY <2>1, <2>2, <1>1 DEF ToSet
<1> QED BY <1>3, <1>4, <1>5

LEMMA EmptySet == ToSet(<<>>) = {} /\ Once(<<>>) /\ \A S : <<>> \in Seq(S)
<1>1. DOMAIN <<>> = {} /\ \A S : <<>> \in Seq(S)
  OBVIOUS
<1> QED BY <1>1 DEF ToSet, Once

SerialTyped ==
  /\ port \in {"closed", "open", "lost"} /\ serialReader \in {"off", "reading", "reopening"}
  /\ holder \in Asker \cup {NoAsker} /\ asking \in [Asker -> {"idle", "locked", "waiting"}]
  /\ written \in Nat /\ command \in [Asker -> Nat] /\ answered \in [Asker -> Nat]
  /\ toBridge \in Seq(Nat) /\ fromBridge \in Seq(Nat) /\ responses \in Seq(Nat)
  /\ abandoned \subseteq Nat /\ stray \in [Asker -> SUBSET Nat]

\* The commands that still may bring an answer.
Due == ToSet(responses) \cup ToSet(fromBridge) \cup ToSet(toBridge)

\* Each of them is in one place, once.
DueOnce ==
  /\ Once(responses) /\ Once(fromBridge) /\ Once(toBridge)
  /\ ToSet(responses) \cap ToSet(fromBridge) = {}
  /\ ToSet(responses) \cap ToSet(toBridge) = {}
  /\ ToSet(fromBridge) \cap ToSet(toBridge) = {}
  /\ \A m \in Due : m <= written

\* A call under way has the lock.
LockHeld == \A a \in Asker : asking[a] # "idle" <=> holder = a

\* Whose answers are due: the command of the caller that waits, and those of callers that
\* gave up before it began.
DueKnown ==
  /\ holder = NoAsker => Due \subseteq abandoned
  /\ \A a \in Asker :
       /\ stray[a] \subseteq abandoned
       /\ asking[a] # "idle" => answered[a] = 0
       /\ asking[a] = "locked" => Due \subseteq stray[a]
       /\ asking[a] = "waiting" => Due \subseteq stray[a] \cup {command[a]}

SerialInv == SerialTyped /\ DueOnce /\ LockHeld /\ DueKnown /\ AnswersMatch


\* The invariant of what the callers do survives a step of the wire that makes up no answer.
LEMMA WireKeeps ==
  ASSUME SerialInv, UNCHANGED askVars, Due' \subseteq Due
  PROVE  LockHeld' /\ DueKnown' /\ AnswersMatch'
<1>1. LockHeld' /\ AnswersMatch'
  BY DEF askVars, SerialInv, LockHeld, AnswersMatch
<1>2. DueKnown'
  BY DEF askVars, SerialInv, DueKnown
<1> QED BY <1>1, <1>2

\* The bridge, its cable and the reader move an answer on or lose it.
LEMMA WireSteps ==
  ASSUME SerialInv, PortFails \/ ReaderNotices \/ ReaderReopens \/ BridgeAnswers \/ ReaderQueues
  PROVE  SerialInv'
<1> SUFFICES SerialTyped' /\ DueOnce' /\ UNCHANGED askVars /\ Due' \subseteq Due
  BY WireKeeps DEF SerialInv
<1> USE DEF SerialInv
<1>1. CASE PortFails
  BY <1>1, EmptySet DEF PortFails, askVars, SerialTyped, DueOnce, Due
<1>2. CASE ReaderNotices \/ ReaderReopens
  BY <1>2 DEF ReaderNotices, ReaderReopens, askVars, wireVars, SerialTyped, DueOnce, Due
<1>3. CASE BridgeAnswers
  <2>1. /\ toBridge' = Tail(toBridge) /\ fromBridge' \in {Append(fromBridge, Head(toBridge)), fromBridge}
        /\ toBridge # <<>> /\ UNCHANGED <<portVars, askVars, responses>>
    BY <1>3 DEF BridgeAnswers
  <2>2. /\ Tail(toBridge) \in Seq(Nat) /\ Head(toBridge) \in Nat
        /\ ToSet(toBridge) = {Head(toBridge)} \cup ToSet(Tail(toBridge))
        /\ Once(Tail(toBridge)) /\ Head(toBridge) \notin ToSet(Tail(toBridge))
    BY <2>1, TailSet DEF SerialTyped, DueOnce
  <2>3. /\ Append(fromBridge, Head(toBridge)) \in Seq(Nat)
        /\ ToSet(Append(fromBridge, Head(toBridge))) = ToSet(fromBridge) \cup {Head(toBridge)}
        /\ Once(Append(fromBridge, Head(toBridge)))
    BY <2>2, AppendSet DEF SerialTyped, DueOnce
  <2>4. SerialTyped'
    BY <2>1, <2>2, <2>3 DEF SerialTyped, portVars, askVars
  <2>5. Due' \subseteq Due
    BY <2>1, <2>2, <2>3 DEF Due
  <2>6. DueOnce'
    <3>1. \A m \in Due' : m <= written'
      BY <2>1, <2>5 DEF DueOnce, askVars
    <3>2. /\ Once(fromBridge')
          /\ ToSet(fromBridge') \subseteq ToSet(fromBridge) \cup {Head(toBridge)}
      BY <2>1, <2>3 DEF DueOnce
    <3> QED BY <2>1, <2>2, <3>1, <3>2 DEF DueOnce
  <2> QED BY <2>1, <2>4, <2>5, <2>6
<1>4. CASE ReaderQueues
  <2>1. /\ fromBridge' = Tail(fromBridge) /\ responses' = Append(responses, Head(fromBridge))
        /\ fromBridge # <<>> /\ UNCHANGED <<portVars, askVars, toBridge>>
    BY <1>4 DEF ReaderQueues
  <2>2. /\ Tail(fromBridge) \in Seq(Nat) /\ Head(fromBridge) \in Nat
        /\ ToSet(fromBridge) = {Head(fromBridge)} \cup ToSet(Tail(fromBridge))
        /\ Once(Tail(fromBridge)) /\ Head(fromBridge) \notin ToSet(Tail(fromBridge))
    BY <2>1, TailSet DEF SerialTyped, DueOnce
  <2>3. /\ Append(responses, Head(fromBridge)) \in Seq(Nat)
        /\ ToSet(Append(responses, Head(fromBridge))) = ToSet(responses) \cup {Head(fromBridge)}
        /\ Once(Append(responses, Head(fromBridge)))
    BY <2>2, AppendSet DEF SerialTyped, DueOnce
  <2>4. SerialTyped'
    BY <2>1, <2>2, <2>3 DEF SerialTyped, portVars, askVars
  <2>5. Due' \subseteq Due
    BY <2>1, <2>2, <2>3 DEF Due
  <2>6. DueOnce'
    BY <2>1, <2>2, <2>3, <2>5 DEF DueOnce, askVars
  <2> QED BY <2>1, <2>4, <2>5, <2>6
<1> QED BY <1>1, <1>2, <1>3, <1>4

\* A call begins: what the queue held is thrown away, what is under way is its strays.
LEMMA AskBeginsSteps ==
  ASSUME SerialInv, NEW a \in Asker, AskBegins(a)
  PROVE  SerialInv'
<1> USE DEF SerialInv
<1>1. /\ holder = NoAsker /\ asking[a] = "idle" /\ holder' = a
      /\ asking' = [asking EXCEPT ![a] = "locked"]
      /\ stray' = [stray EXCEPT ![a] = abandoned \cap ToSet(toBridge \o fromBridge)]
      /\ answered' = [answered EXCEPT ![a] = 0] /\ responses' = <<>>
      /\ UNCHANGED <<command, written, abandoned, quiesced, toBridge, fromBridge>>
  BY DEF AskBegins, Takes, Drained
<1>2. SerialTyped'
  <2>1. port' \in {"closed", "open", "lost"} /\ serialReader' \in {"off", "reading", "reopening"}
    BY DEF AskBegins, Opens, SerialTyped
  <2>2. holder' \in Asker \cup {NoAsker} /\ responses' \in Seq(Nat)
    BY <1>1, EmptySet
  <2>3. stray' \in [Asker -> SUBSET Nat]
    BY <1>1 DEF SerialTyped
  <2>4. asking' \in [Asker -> {"idle", "locked", "waiting"}] /\ answered' \in [Asker -> Nat]
    BY <1>1 DEF SerialTyped
  <2> QED BY <1>1, <2>1, <2>2, <2>3, <2>4 DEF SerialTyped
<1>3. /\ ToSet(toBridge \o fromBridge) = ToSet(toBridge) \cup ToSet(fromBridge)
      /\ Due' = ToSet(toBridge) \cup ToSet(fromBridge)
  BY <1>1, ConcatSet, EmptySet DEF SerialTyped, Due
<1>4. DueOnce'
  BY <1>1, <1>3, EmptySet DEF DueOnce, Due
<1>5. LockHeld'
  BY <1>1, SerialAssumption DEF LockHeld, SerialTyped
<1>6. Due' \subseteq abandoned
  BY <1>1, <1>3 DEF DueKnown, Due
<1>7. stray'[a] = Due' /\ answered'[a] = 0 /\ asking'[a] = "locked"
  BY <1>1, <1>3, <1>6 DEF SerialTyped
<1>8. DueKnown' /\ AnswersMatch'
  <2>1. holder' # NoAsker
    BY <1>1, SerialAssumption
  <2> SUFFICES ASSUME NEW b \in Asker
               PROVE  /\ stray'[b] \subseteq abandoned'
                      /\ asking'[b] # "idle" => answered'[b] = 0
                      /\ asking'[b] = "locked" => Due' \subseteq stray'[b]
                      /\ asking'[b] = "waiting" => Due' \subseteq stray'[b] \cup {command'[b]}
                      /\ answered'[b] # 0 => answered'[b] \in {command'[b]} \cup stray'[b]
    BY <2>1 DEF DueKnown, AnswersMatch
  <2>2. CASE b = a
    BY <2>2, <1>1, <1>6, <1>7
  <2>3. CASE b # a
    <3>1. /\ asking'[b] = asking[b] /\ stray'[b] = stray[b] /\ answered'[b] = answered[b]
          /\ command'[b] = command[b]
      BY <2>3, <1>1 DEF SerialTyped
    <3>2. asking[b] = "idle"
      BY <1>1, SerialAssumption DEF LockHeld, SerialTyped
    <3> QED BY <3>1, <3>2, <1>1 DEF DueKnown, AnswersMatch
  <2> QED BY <2>2, <2>3
<1> QED BY <1>2, <1>4, <1>5, <1>8

\* The command is written: its answer is due, and no other of its number.
LEMMA AskWritesSteps ==
  ASSUME SerialInv, NEW a \in Asker, AskWrites(a)
  PROVE  SerialInv'
<1> USE DEF SerialInv
<1>1. /\ asking[a] = "locked" /\ asking' = [asking EXCEPT ![a] = "waiting"]
      /\ written' = written + 1 /\ command' = [command EXCEPT ![a] = written']
      /\ toBridge' = Append(toBridge, written')
      /\ UNCHANGED <<portVars, holder, abandoned, stray, answered, quiesced, fromBridge, responses>>
  BY DEF AskWrites
<1>2. written' \in Nat /\ \A m \in Due : m \in Nat /\ m < written'
  <2>1. \A m \in Due : m \in Nat
    BY DEF SerialTyped, Due, ToSet
  <2> QED BY <2>1, <1>1 DEF SerialTyped, DueOnce
<1>3. written' \notin Due
  BY <1>2
<1>4. /\ toBridge' \in Seq(Nat) /\ ToSet(toBridge') = ToSet(toBridge) \cup {written'}
      /\ Once(toBridge')
  BY <1>1, <1>2, <1>3, AppendSet DEF SerialTyped, DueOnce, Due
<1>5. Due' = Due \cup {written'}
  BY <1>1, <1>4 DEF Due
<1>6. SerialTyped'
  BY <1>1, <1>2, <1>4 DEF SerialTyped, portVars
<1>7. DueOnce'
  <2>1. \A m \in Due' : m <= written'
    BY <1>2, <1>5
  <2> QED BY <2>1, <1>1, <1>3, <1>4 DEF DueOnce, Due
<1>8. LockHeld'
  BY <1>1 DEF LockHeld, SerialTyped
<1>9. DueKnown' /\ AnswersMatch'
  <2>1. holder = a /\ holder # NoAsker
    BY <1>1, SerialAssumption DEF LockHeld
  <2> SUFFICES ASSUME NEW b \in Asker
               PROVE  /\ stray'[b] \subseteq abandoned'
                      /\ asking'[b] # "idle" => answered'[b] = 0
                      /\ asking'[b] = "locked" => Due' \subseteq stray'[b]
                      /\ asking'[b] = "waiting" => Due' \subseteq stray'[b] \cup {command'[b]}
                      /\ answered'[b] # 0 => answered'[b] \in {command'[b]} \cup stray'[b]
    BY <2>1, <1>1 DEF DueKnown, AnswersMatch
  <2>2. CASE b = a
    <3>1. asking'[a] = "waiting" /\ command'[a] = written' /\ answered'[a] = 0 /\ Due \subseteq stray[a]
      BY <1>1 DEF SerialTyped, DueKnown
    <3> QED BY <2>2, <3>1, <1>1, <1>5 DEF DueKnown
  <2>3. CASE b # a
    <3>1. asking'[b] = asking[b] /\ command'[b] = command[b]
      BY <2>3, <1>1 DEF SerialTyped
    <3>2. asking[b] = "idle"
      BY <2>1, <2>3 DEF LockHeld, SerialTyped
    <3> QED BY <3>1, <3>2, <1>1 DEF DueKnown, AnswersMatch
  <2> QED BY <2>2, <2>3
<1> QED BY <1>6, <1>7, <1>8, <1>9

\* A call ends.  What is due then is due to callers that gave up.
LEMMA AskEnds ==
  ASSUME SerialInv, NEW a \in Asker, holder = a, Returns(a),
         UNCHANGED <<portVars, command, written, stray>>,
         abandoned \subseteq abandoned', abandoned' \subseteq Nat, Due' \subseteq abandoned', Due' \subseteq Due,
         answered' \in [Asker -> Nat],
         \A b \in Asker : answered'[b] # 0 => answered'[b] \in {command[b]} \cup stray[b],
         responses' \in Seq(Nat), UNCHANGED <<toBridge, fromBridge>>,
         ToSet(responses') \subseteq ToSet(responses), Once(responses')
  PROVE  SerialInv'
<1> USE DEF SerialInv
<1>1. holder' = NoAsker /\ asking' = [asking EXCEPT ![a] = "idle"]
  BY DEF Returns
<1>2. \A b \in Asker : asking'[b] = "idle"
  BY <1>1 DEF SerialTyped, LockHeld
<1>3. SerialTyped'
  BY <1>1 DEF SerialTyped, portVars
<1>4. DueOnce'
  BY DEF DueOnce
<1>5. LockHeld'
  BY <1>1, <1>2, SerialAssumption DEF LockHeld
<1>6. DueKnown' /\ AnswersMatch'
  BY <1>1, <1>2 DEF DueKnown, AnswersMatch
<1> QED BY <1>3, <1>4, <1>5, <1>6

\* The answer that is taken is the call's own or a stray; no second one of its number is due.
LEMMA AskAnsweredSteps ==
  ASSUME SerialInv, NEW a \in Asker, AskAnswered(a)
  PROVE  SerialInv'
<1> USE DEF SerialInv
<1> DEFINE m == Head(responses)
<1>1. /\ asking[a] = "waiting" /\ responses # <<>> /\ responses' = Tail(responses)
      /\ answered' = [answered EXCEPT ![a] = m] /\ Returns(a)
      /\ abandoned' = IF m = command[a] THEN abandoned ELSE abandoned \cup {command[a]}
      /\ UNCHANGED <<portVars, command, written, stray, toBridge, fromBridge>>
  BY DEF AskAnswered
<1>2. /\ Tail(responses) \in Seq(Nat) /\ m \in Nat
      /\ ToSet(responses) = {m} \cup ToSet(Tail(responses))
      /\ Once(Tail(responses)) /\ m \notin ToSet(Tail(responses))
  BY <1>1, TailSet DEF SerialTyped, DueOnce
<1>3. holder = a
  BY <1>1 DEF LockHeld
<1>4. Due \subseteq stray[a] \cup {command[a]} /\ stray[a] \subseteq abandoned
  BY <1>1 DEF DueKnown
<1>5. m \in Due /\ Due' \subseteq Due \ {m}
  BY <1>1, <1>2 DEF Due, DueOnce
<1>6. Due' \subseteq abandoned'
  BY <1>1, <1>4, <1>5
<1>7. \A b \in Asker : answered'[b] # 0 => answered'[b] \in {command[b]} \cup stray[b]
  BY <1>1, <1>4, <1>5 DEF SerialTyped, AnswersMatch
<1>8. answered' \in [Asker -> Nat] /\ abandoned' \subseteq Nat /\ abandoned \subseteq abandoned'
  BY <1>1, <1>2 DEF SerialTyped
<1> HIDE DEF m
<1> QED BY <1>1, <1>2, <1>3, <1>5, <1>6, <1>7, <1>8, AskEnds

\* A call that times out, or cannot write, ends without an answer.
LEMMA AskFailsSteps ==
  ASSUME SerialInv, NEW a \in Asker, AskTimesOut(a) \/ AskWriteFails(a)
  PROVE  SerialInv'
<1> USE DEF SerialInv
<1>1. holder = a
  BY DEF AskTimesOut, AskWriteFails, LockHeld
<1>2. Due' = Due
  BY DEF AskTimesOut, AskWriteFails, wireVars, Due
<1>3. Due \subseteq abandoned' /\ abandoned \subseteq abandoned' /\ abandoned' \subseteq Nat
  BY DEF AskTimesOut, AskWriteFails, DueKnown, SerialTyped
<1> QED BY <1>1, <1>2, <1>3, AskEnds
        DEF AskTimesOut, AskWriteFails, wireVars, SerialTyped, DueOnce, AnswersMatch

\* A call that finds the port closed takes no lock.
LEMMA AskRefusedSteps ==
  ASSUME SerialInv, NEW a \in Asker, AskRefused(a)
  PROVE  SerialInv'
BY DEF AskRefused, portVars, wireVars, SerialInv, SerialTyped, Due, DueOnce, LockHeld, DueKnown, AnswersMatch

\* The invariant holds when the program starts.
LEMMA SerialStarts == SerialInit => SerialInv
<1> SUFFICES ASSUME SerialInit PROVE SerialInv
  OBVIOUS
<1>1. SerialTyped
  BY EmptySet DEF SerialInit, SerialTyped
<1>2. DueOnce /\ Due = {}
  BY EmptySet DEF SerialInit, DueOnce, Due
<1>3. LockHeld
  BY SerialAssumption DEF SerialInit, LockHeld
<1> QED BY <1>1, <1>2, <1>3 DEF SerialInit, SerialInv, DueKnown, AnswersMatch

\* Every step keeps the invariant.
LEMMA SerialSteps == SerialInv /\ [SerialNext]_serialVars => SerialInv'
<1> SUFFICES ASSUME SerialInv, [SerialNext]_serialVars PROVE SerialInv'
  OBVIOUS
<1>1. CASE PortFails \/ ReaderNotices \/ ReaderReopens \/ BridgeAnswers \/ ReaderQueues
  BY <1>1, WireSteps
<1>2. ASSUME NEW a \in Asker,
             \/ AskBegins(a) \/ AskRefused(a) \/ AskWrites(a) \/ AskWriteFails(a)
             \/ AskAnswered(a) \/ AskTimesOut(a)
      PROVE  SerialInv'
  BY <1>2, AskBeginsSteps, AskRefusedSteps, AskWritesSteps, AskFailsSteps, AskAnsweredSteps
<1>3. CASE UNCHANGED serialVars
  BY <1>3 DEF serialVars, portVars, askVars, wireVars, SerialInv, SerialTyped, Due, DueOnce,
     LockHeld, DueKnown, AnswersMatch
<1> QED BY <1>1, <1>2, <1>3 DEF SerialNext

\* Nobody has, or was given, a number that was not written, and who opens the port sees to
\* its reader.
Given ==
  /\ \A a \in Asker : command[a] <= written /\ answered[a] <= written
  /\ port = "open" => serialReader # "off"

LEMMA GivenSteps == SerialInv /\ Given /\ [SerialNext]_serialVars => Given'
<1> SUFFICES ASSUME SerialInv, Given, [SerialNext]_serialVars PROVE Given'
  OBVIOUS
<1>1. /\ written \in Nat /\ command \in [Asker -> Nat] /\ answered \in [Asker -> Nat]
      /\ responses \in Seq(Nat) /\ (\A m \in ToSet(responses) : m <= written)
  BY DEF SerialInv, SerialTyped, DueOnce, Due
<1>2. CASE PortFails \/ ReaderNotices \/ ReaderReopens \/ BridgeAnswers \/ ReaderQueues
  BY <1>2 DEF PortFails, ReaderNotices, ReaderReopens, BridgeAnswers, ReaderQueues, askVars, portVars, Given
<1>3. ASSUME NEW a \in Asker, AskBegins(a) PROVE Given'
  <2>1. /\ answered' = [answered EXCEPT ![a] = 0] /\ UNCHANGED <<command, written>>
        /\ serialReader' # "off"
    BY <1>3 DEF AskBegins, Opens
  <2> QED BY <1>1, <2>1 DEF Given
<1>4. ASSUME NEW a \in Asker, AskRefused(a) \/ AskWriteFails(a) \/ AskTimesOut(a) PROVE Given'
  BY <1>4 DEF AskRefused, AskWriteFails, AskTimesOut, portVars, Given
<1>5. ASSUME NEW a \in Asker, AskWrites(a) PROVE Given'
  <2>1. /\ written' = written + 1 /\ command' = [command EXCEPT ![a] = written + 1]
        /\ UNCHANGED <<port, serialReader, answered>>
    BY <1>5 DEF AskWrites, portVars
  <2>2. ASSUME NEW b \in Asker PROVE command'[b] <= written' /\ answered'[b] <= written'
    <3>1. command[b] \in Nat /\ answered[b] \in Nat /\ command'[b] \in {command[b], written + 1}
      BY <1>1, <2>1
    <3> QED BY <1>1, <2>1, <3>1 DEF Given
  <2> QED BY <2>1, <2>2 DEF Given
<1>6. ASSUME NEW a \in Asker, AskAnswered(a) PROVE Given'
  <2>1. /\ answered' = [answered EXCEPT ![a] = Head(responses)] /\ responses # <<>>
        /\ UNCHANGED <<port, serialReader, command, written>>
    BY <1>6 DEF AskAnswered, portVars
  <2>2. Head(responses) \in Nat /\ Head(responses) <= written
    <3>1. Head(responses) \in Nat /\ Head(responses) \in ToSet(responses)
      BY <1>1, <2>1, TailSet
    <3> QED BY <1>1, <3>1
  <2> QED BY <1>1, <2>1, <2>2 DEF Given
<1>7. CASE UNCHANGED serialVars
  BY <1>7 DEF serialVars, portVars, askVars, Given
<1> QED BY <1>2, <1>3, <1>4, <1>5, <1>6, <1>7 DEF SerialNext

\* SerialTypeOK: every caller's command and answer were written.
THEOREM SerialTypeCorrect == SerialSpec => []SerialTypeOK
<1>1. SerialInit => Given
  BY DEF SerialInit, Given
<1>2. SerialInv /\ Given => SerialTypeOK
  <2> SUFFICES ASSUME SerialInv, Given PROVE SerialTypeOK
    OBVIOUS
  <2>1. /\ written \in Nat /\ command \in [Asker -> Nat] /\ answered \in [Asker -> Nat]
        /\ \A a \in Asker : command[a] \in 0 .. written /\ answered[a] \in 0 .. written
    BY DEF SerialInv, SerialTyped, Given
  <2>2. command \in [Asker -> 0 .. written] /\ answered \in [Asker -> 0 .. written]
    BY <2>1
  <2> QED BY <2>2 DEF SerialInv, SerialTyped, Given, SerialTypeOK
<1> QED BY <1>1, <1>2, GivenSteps, SerialStarts, SerialSteps, PTL DEF SerialSpec

\* Whoever asks the bridge gets the answer to its own command, or one that was still on its
\* way to a caller that had given up before: whatever the number of callers, in whatever
\* order the port fails, is opened again and answers are lost.
THEOREM AnswersOwn == SerialSpec => []OwnAnswers
<1>1. SerialInv /\ SerialTypeOK => OwnAnswers
  BY DEF SerialInv, OwnAnswers
<1> QED BY <1>1, SerialStarts, SerialSteps, SerialTypeCorrect, PTL DEF SerialSpec

-----------------------------------------------------------------------------
(* The command channel *)

Ids == {InitIds[k] : k \in DOMAIN InitIds} \cup {"memory", "pair"}
Args == {"init", "info", "user", "factory", "pair"}
Items == [id : Ids, arg : Args, n : Nat]
Replies == [id : Ids, arg : Args, n : Nat, good : BOOLEAN]

ChannelTyped ==
  /\ stage \in Ended \cup {"init", "info", "user", "factory", "pair"}
  /\ nth \in Nat /\ failed \in Nat /\ failed < Failures /\ hasUser \in BOOLEAN
  /\ future \in {NoFuture, Waiting} \cup [st : {"done"}, answer : Replies]
  /\ toPad \in Seq(Items) /\ fromPad \in Seq(Replies)

Underway == ToSet(toPad) \cup ToSet(fromPad)

\* What waits for an answer is a command of the stage, and an answer that was taken has its id.
FutureOfStage ==
  /\ stage \in Ended => future = NoFuture
  /\ stage = "init" => nth \in 1 .. Len(InitIds)
  /\ future.st = "done" => future.answer.id = Command.id

\* A sequence in which every entry belongs to an earlier command than the next.
InTurn(s) == \A i, j \in DOMAIN s : i < j => s[i].n < s[j].n

\* The command of number n is the bond, and it was passed because it and all since failed.
PassedOver(n) == InitIds[n] = "pair" /\ n < nth => nth - n <= failed

\* While the first commands are sent, their answers come in their order, and the bond's is
\* late only as long as no later command was answered.
InitInOrder ==
  stage = "init" =>
    /\ InTurn(toPad) /\ InTurn(fromPad)
    /\ \A x \in ToSet(fromPad), y \in ToSet(toPad) : x.n < y.n
    /\ \A x \in Underway :
         /\ x.arg = "init" /\ x.n \in 1 .. nth /\ x.id = InitIds[x.n] /\ PassedOver(x.n)
         /\ future = NoFuture => x.n < nth
         /\ future.st = "done" => future.answer.n < x.n
    /\ future.st = "done" =>
         /\ future.answer.arg = "init" /\ future.answer.n \in 1 .. nth
         /\ future.answer.id = InitIds[future.answer.n] /\ PassedOver(future.answer.n)

\* After them no answer to the bond among them is under way.
NoLateBond == stage \in {"info", "user", "factory"} => \A x \in Underway : x.id # "pair"

\* Of what is in a sequence at most one has to do with the bond.
OneBond(s) == \A i, j \in DOMAIN s : s[i].id = "pair" /\ s[j].id = "pair" => i = j

Bonding(s) == \E x \in ToSet(s) : x.id = "pair"

\* pair() has one command out at a time, and what was answered before was executed.
PairInOrder ==
  stage = "pair" =>
    /\ nth \in 1 .. PairCommands /\ 1 .. nth - 1 \subseteq bonded
    /\ \A x \in Underway : x.id = "pair" => x.arg = "pair" /\ x.n = nth
    /\ OneBond(toPad) /\ OneBond(fromPad) /\ ~(Bonding(toPad) /\ Bonding(fromPad))
    /\ future # Waiting => ~Bonding(toPad) /\ ~Bonding(fromPad)
    /\ \A x \in ToSet(fromPad) : x.id = "pair" /\ x.good => nth \in bonded
    /\ future.st = "done" /\ future.answer.good => nth \in bonded

BondsTyped ==
  /\ bonded \subseteq 1 .. PairCommands
  /\ \A x \in Underway : x.arg = "pair" => x.n \in 1 .. PairCommands

FactoryWithoutUser == stage = "factory" => ~hasUser

ChannelInv ==
  /\ ChannelTyped /\ FutureOfStage /\ InitInOrder /\ NoLateBond /\ PairInOrder /\ BondsTyped
  /\ FactoryWithoutUser /\ ReadHonestly

\* Taking the first entry keeps a sequence's order, and the rest comes after it.
LEMMA TailLine ==
  ASSUME NEW S, NEW s \in Seq(S), s # <<>>
  PROVE  /\ InTurn(s) => InTurn(Tail(s)) /\ \A x \in ToSet(Tail(s)) : Head(s).n < x.n
         /\ OneBond(s) => OneBond(Tail(s)) /\ (Head(s).id = "pair" => ~Bonding(Tail(s)))
<1>1. Head(s) = s[1] /\ Len(s) \in Nat \ {0} /\ Len(Tail(s)) = Len(s) - 1 /\ Tail(s) \in Seq(S)
  OBVIOUS
<1>2. \A k \in 1 .. Len(Tail(s)) : Tail(s)[k] = s[k + 1]
  OBVIOUS
<1>3. DOMAIN s = 1 .. Len(s) /\ DOMAIN Tail(s) = 1 .. Len(Tail(s))
  BY <1>1
<1>4. \A k \in 1 .. Len(Tail(s)) : 1 \in 1 .. Len(s) /\ k + 1 \in 1 .. Len(s) /\ 1 < k + 1
  BY <1>1
<1>5. ASSUME InTurn(s) PROVE InTurn(Tail(s)) /\ \A x \in ToSet(Tail(s)) : Head(s).n < x.n
  <2>1. \A i, j \in 1 .. Len(s) : i < j => s[i].n < s[j].n
    BY <1>5, <1>3 DEF InTurn
  <2>2. \A k \in 1 .. Len(Tail(s)) : Head(s).n < Tail(s)[k].n
    BY <2>1, <1>1, <1>2, <1>4
  <2>3. ASSUME NEW i \in 1 .. Len(Tail(s)), NEW j \in 1 .. Len(Tail(s)), i < j
        PROVE  Tail(s)[i].n < Tail(s)[j].n
    <3>1. i + 1 < j + 1
      BY <2>3
    <3> QED BY <3>1, <2>1, <1>2, <1>4
  <2> QED BY <2>2, <2>3, <1>3 DEF InTurn, ToSet
<1>6. ASSUME OneBond(s) PROVE OneBond(Tail(s)) /\ (Head(s).id = "pair" => ~Bonding(Tail(s)))
  <2>1. \A i, j \in 1 .. Len(s) : s[i].id = "pair" /\ s[j].id = "pair" => i = j
    BY <1>6, <1>3 DEF OneBond
  <2>2. \A k \in 1 .. Len(Tail(s)) : Head(s).id = "pair" => Tail(s)[k].id # "pair"
    BY <2>1, <1>1, <1>2, <1>4
  <2>3. ASSUME NEW i \in 1 .. Len(Tail(s)), NEW j \in 1 .. Len(Tail(s)),
               Tail(s)[i].id = "pair", Tail(s)[j].id = "pair"
        PROVE  i = j
    <3>1. i + 1 = j + 1
      BY <2>1, <2>3, <1>2, <1>4
    <3> QED BY <3>1
  <2> QED BY <2>2, <2>3, <1>3 DEF OneBond, Bonding, ToSet
<1> QED BY <1>5, <1>6

\* So does putting a later entry last.
LEMMA AppendLine ==
  ASSUME NEW S, NEW s \in Seq(S), NEW e \in S
  PROVE  /\ InTurn(s) /\ (\A x \in ToSet(s) : x.n < e.n) => InTurn(Append(s, e))
         /\ OneBond(s) /\ (e.id = "pair" => ~Bonding(s)) => OneBond(Append(s, e))
<1>1. /\ Append(s, e) \in Seq(S) /\ Len(s) \in Nat /\ Len(Append(s, e)) = Len(s) + 1
      /\ Append(s, e)[Len(s) + 1] = e
  OBVIOUS
<1>2. \A k \in 1 .. Len(s) : Append(s, e)[k] = s[k] /\ k < Len(s) + 1 /\ ~(Len(s) + 1 < k)
  OBVIOUS
<1>3. DOMAIN s = 1 .. Len(s) /\ DOMAIN Append(s, e) = 1 .. (Len(s) + 1)
  BY <1>1
<1>4. \A k \in 1 .. (Len(s) + 1) : k \in 1 .. Len(s) \/ k = Len(s) + 1
  BY <1>1
<1>5. ASSUME InTurn(s), \A x \in ToSet(s) : x.n < e.n PROVE InTurn(Append(s, e))
  <2>1. /\ \A i, j \in 1 .. Len(s) : i < j => s[i].n < s[j].n
        /\ \A i \in 1 .. Len(s) : s[i].n < e.n
    BY <1>5, <1>3 DEF InTurn, ToSet
  <2>2. ~(Len(s) + 1 < Len(s) + 1)
    BY <1>1
  <2> QED BY <2>1, <2>2, <1>1, <1>2, <1>3, <1>4 DEF InTurn
<1>6. ASSUME OneBond(s), e.id = "pair" => ~Bonding(s) PROVE OneBond(Append(s, e))
  <2>1. /\ \A i, j \in 1 .. Len(s) : s[i].id = "pair" /\ s[j].id = "pair" => i = j
        /\ \A i \in 1 .. Len(s) : e.id = "pair" => s[i].id # "pair"
    BY <1>6, <1>3 DEF OneBond, Bonding, ToSet
  <2> QED BY <2>1, <1>1, <1>2, <1>3, <1>4 DEF OneBond
<1> QED BY <1>5, <1>6

LEMMA EmptyLine == InTurn(<<>>) /\ OneBond(<<>>) /\ ~Bonding(<<>>)
<1>1. DOMAIN <<>> = {}
  OBVIOUS
<1> QED BY <1>1, EmptySet DEF InTurn, OneBond, Bonding

\* The id, the stage and the number of the next command.
LEMMA CommandOfStage ==
  ASSUME ChannelTyped, FutureOfStage, stage \notin Ended
  PROVE  /\ Command \in Items
         /\ stage = "init" => Command = [id |-> InitIds[nth], arg |-> "init", n |-> nth]
         /\ stage = "pair" => Command = [id |-> "pair", arg |-> "pair", n |-> nth]
         /\ stage \in {"info", "user", "factory"} =>
              Command = [id |-> "memory", arg |-> stage, n |-> 1]
<1>1. stage = "init" => nth \in DOMAIN InitIds
  BY ChannelAssumption DEF FutureOfStage
<1>2. CASE stage = "init"
  <2>1. Command = [id |-> InitIds[nth], arg |-> "init", n |-> nth]
    BY <1>2 DEF Command
  <2> QED BY <1>1, <1>2, <2>1 DEF Items, Ids, Args, ChannelTyped
<1>3. CASE stage = "pair"
  <2>1. Command = [id |-> "pair", arg |-> "pair", n |-> nth]
    BY <1>3 DEF Command
  <2> QED BY <1>3, <2>1 DEF Items, Ids, Args, ChannelTyped
<1>4. CASE stage \in {"info", "user", "factory"}
  <2>1. Command = [id |-> "memory", arg |-> stage, n |-> 1]
    BY <1>4 DEF Command
  <2> QED BY <1>4, <2>1 DEF Items, Ids, Args, ChannelTyped
<1> QED BY <1>2, <1>3, <1>4 DEF ChannelTyped, Ended


\* While the stage and its command stay, so does what is asked of them.
LEMMA SameCommand ==
  ASSUME stage' = stage, nth' = nth, failed' = failed
  PROVE  Command' = Command /\ \A n : PassedOver(n)' <=> PassedOver(n)
<1>1. Command' = Command
  BY DEF Command
<1>2. \A n : PassedOver(n)' <=> PassedOver(n)
  BY DEF PassedOver
<1> QED BY <1>1, <1>2

\* A command goes out: it is the last of its sequence.
LEMMA WrittenSteps ==
  ASSUME ChannelInv, CommandWritten
  PROVE  ChannelInv'
<1> USE DEF ChannelInv
<1>1. /\ stage \notin Ended /\ future = NoFuture /\ future' = Waiting
      /\ toPad' \in {Append(toPad, Command), toPad}
      /\ UNCHANGED <<stage, nth, failed, fromPad, bonded, hasUser, info, stick, cached>>
  BY DEF CommandWritten, heldVars
<1>2. Command' = Command /\ \A n : PassedOver(n)' <=> PassedOver(n)
  BY <1>1, SameCommand
<1>3. /\ Command \in Items
      /\ stage = "init" => Command = [id |-> InitIds[nth], arg |-> "init", n |-> nth]
      /\ stage = "pair" => Command = [id |-> "pair", arg |-> "pair", n |-> nth]
      /\ stage \in {"info", "user", "factory"} =>
           Command = [id |-> "memory", arg |-> stage, n |-> 1]
  BY <1>1, CommandOfStage
<1>4. /\ toPad' \in Seq(Items) /\ ToSet(toPad') \subseteq ToSet(toPad) \cup {Command}
      /\ Underway' \subseteq Underway \cup {Command}
  <2>1. toPad \in Seq(Items)
    BY DEF ChannelTyped
  <2>2. Append(toPad, Command) \in Seq(Items) /\ ToSet(Append(toPad, Command)) = ToSet(toPad) \cup {Command}
    BY <1>3, <2>1, AppendSet
  <2>3. toPad' \in Seq(Items) /\ ToSet(toPad') \subseteq ToSet(toPad) \cup {Command}
    BY <1>1, <2>1, <2>2
  <2> QED BY <1>1, <2>3 DEF Underway
<1>5. future'.st = "pending" /\ future' # NoFuture /\ future # Waiting
  BY <1>1 DEF Waiting, NoFuture
<1>6. ChannelTyped' /\ FutureOfStage' /\ FactoryWithoutUser' /\ ReadHonestly'
  BY <1>1, <1>4, <1>5 DEF ChannelTyped, FutureOfStage, FactoryWithoutUser, ReadHonestly, Ended
<1>7. InitInOrder'
  <2> SUFFICES ASSUME stage = "init"
               PROVE  /\ InTurn(toPad') /\ InTurn(fromPad')
                      /\ \A x \in ToSet(fromPad'), y \in ToSet(toPad') : x.n < y.n
                      /\ \A x \in Underway' :
                           x.arg = "init" /\ x.n \in 1 .. nth /\ x.id = InitIds[x.n] /\ PassedOver(x.n)
    BY <1>1, <1>2, <1>5 DEF InitInOrder
  <2>1. Command.id = InitIds[nth] /\ Command.arg = "init" /\ Command.n = nth /\ nth \in 1 .. Len(InitIds)
    BY <1>3 DEF FutureOfStage
  <2>2. /\ InTurn(toPad) /\ InTurn(fromPad)
        /\ \A x \in ToSet(fromPad), y \in ToSet(toPad) : x.n < y.n
        /\ \A x \in Underway :
             x.arg = "init" /\ x.n \in 1 .. nth /\ x.id = InitIds[x.n] /\ PassedOver(x.n) /\ x.n < nth
    BY <1>1 DEF InitInOrder
  <2>3. PassedOver(nth)
    BY DEF PassedOver, ChannelTyped
  <2>4. \A x \in ToSet(toPad) \cup ToSet(fromPad) : x.n < Command.n
    BY <2>1, <2>2 DEF Underway
  <2>5. InTurn(toPad') /\ InTurn(fromPad')
    <3>1. toPad \in Seq(Items) /\ \A x \in ToSet(toPad) : x.n < Command.n
      BY <2>4 DEF ChannelTyped
    <3>2. InTurn(Append(toPad, Command))
      BY <1>3, <2>2, <3>1, AppendLine
    <3> QED BY <1>1, <2>2, <3>2
  <2>6. \A x \in Underway' :
          x.arg = "init" /\ x.n \in 1 .. nth /\ x.id = InitIds[x.n] /\ PassedOver(x.n)
    BY <1>4, <2>1, <2>2, <2>3
  <2>7. \A x \in ToSet(fromPad'), y \in ToSet(toPad') : x.n < y.n
    BY <1>1, <1>4, <2>2, <2>4
  <2> QED BY <2>5, <2>6, <2>7
<1>8. NoLateBond'
  BY <1>1, <1>3, <1>4 DEF NoLateBond
<1>9. PairInOrder'
  <2> SUFFICES ASSUME stage = "pair"
               PROVE  /\ nth \in 1 .. PairCommands /\ 1 .. nth - 1 \subseteq bonded
                      /\ \A x \in Underway' : x.id = "pair" => x.arg = "pair" /\ x.n = nth
                      /\ OneBond(toPad') /\ OneBond(fromPad) /\ ~Bonding(fromPad)
                      /\ \A x \in ToSet(fromPad) : x.id = "pair" /\ x.good => nth \in bonded
    BY <1>1, <1>5 DEF PairInOrder
  <2>1. /\ nth \in 1 .. PairCommands /\ 1 .. nth - 1 \subseteq bonded
        /\ \A x \in Underway : x.id = "pair" => x.arg = "pair" /\ x.n = nth
        /\ OneBond(toPad) /\ OneBond(fromPad) /\ ~Bonding(toPad) /\ ~Bonding(fromPad)
        /\ \A x \in ToSet(fromPad) : x.id = "pair" /\ x.good => nth \in bonded
    BY <1>1, <1>5 DEF PairInOrder
  <2>2. OneBond(toPad')
    <3>1. toPad \in Seq(Items)
      BY DEF ChannelTyped
    <3>2. OneBond(Append(toPad, Command))
      BY <1>3, <2>1, <3>1, AppendLine
    <3> QED BY <1>1, <2>1, <3>2
  <2>3. Command.id = "pair" /\ Command.arg = "pair" /\ Command.n = nth
    BY <1>3
  <2> QED BY <1>4, <2>1, <2>2, <2>3
<1>10. BondsTyped'
  <2>1. Command.arg = "pair" => Command.n \in 1 .. PairCommands
    BY <1>1, <1>3 DEF PairInOrder, Ended, ChannelTyped
  <2> QED BY <1>1, <1>4, <2>1 DEF BondsTyped
<1> QED BY <1>6, <1>7, <1>8, <1>9, <1>10

\* An answer comes: the callback takes it for the waiting command's, or drops it.
LEMMA ArrivesSteps ==
  ASSUME ChannelInv, AnswerArrives
  PROVE  ChannelInv'
<1> USE DEF ChannelInv
<1> DEFINE m == Head(fromPad)
           taken == future = Waiting /\ m.id = Command.id
<1>1. /\ fromPad # <<>> /\ fromPad' = Tail(fromPad)
      /\ future' = IF taken THEN [st |-> "done", answer |-> m] ELSE future
      /\ UNCHANGED <<stage, nth, failed, toPad, bonded, hasUser, info, stick, cached>>
  BY DEF AnswerArrives, heldVars, Expected
<1>2. Command' = Command /\ \A n : PassedOver(n)' <=> PassedOver(n)
  BY <1>1, SameCommand
<1>3. /\ fromPad' \in Seq(Replies) /\ m \in Replies
      /\ ToSet(fromPad) = {m} \cup ToSet(fromPad')
  BY <1>1, TailSet DEF ChannelTyped
<1>4. Underway = Underway' \cup {m}
  BY <1>1, <1>3 DEF Underway
<1>5. /\ InTurn(fromPad) => InTurn(fromPad') /\ \A x \in ToSet(fromPad') : m.n < x.n
      /\ OneBond(fromPad) => OneBond(fromPad') /\ (m.id = "pair" => ~Bonding(fromPad'))
  BY <1>1, TailLine DEF ChannelTyped
<1>6. /\ taken => future'.st = "done" /\ future'.answer = m /\ future' # NoFuture /\ future' # Waiting
      /\ ~taken => future' = future
      /\ taken => future = Waiting /\ future # NoFuture /\ future.st # "done"
  BY <1>1 DEF NoFuture, Waiting
<1>7. taken => m.id = Command.id
  OBVIOUS
<1>8. taken => future' = [st |-> "done", answer |-> m]
  BY <1>1
<1> HIDE DEF m, taken
<1>9. ChannelTyped'
  <2>1. taken => future' \in [st : {"done"}, answer : Replies]
    BY <1>3, <1>8
  <2> QED BY <1>1, <1>3, <1>6, <2>1 DEF ChannelTyped
<1>10. FutureOfStage'
  BY <1>1, <1>2, <1>6, <1>7 DEF FutureOfStage
<1>11. FactoryWithoutUser' /\ ReadHonestly'
  BY <1>1 DEF FactoryWithoutUser, ReadHonestly
<1>12. InitInOrder'
  <2> SUFFICES ASSUME stage = "init"
               PROVE  /\ InTurn(toPad) /\ InTurn(fromPad')
                      /\ \A x \in ToSet(fromPad'), y \in ToSet(toPad) : x.n < y.n
                      /\ \A x \in Underway' :
                           /\ x.arg = "init" /\ x.n \in 1 .. nth /\ x.id = InitIds[x.n] /\ PassedOver(x.n)
                           /\ future' = NoFuture => x.n < nth
                           /\ future'.st = "done" => future'.answer.n < x.n
                      /\ future'.st = "done" =>
                           /\ future'.answer.arg = "init" /\ future'.answer.n \in 1 .. nth
                           /\ future'.answer.id = InitIds[future'.answer.n] /\ PassedOver(future'.answer.n)
    BY <1>1, <1>2 DEF InitInOrder
  <2>1. /\ InTurn(toPad) /\ InTurn(fromPad)
        /\ \A x \in ToSet(fromPad), y \in ToSet(toPad) : x.n < y.n
        /\ \A x \in Underway :
             /\ x.arg = "init" /\ x.n \in 1 .. nth /\ x.id = InitIds[x.n] /\ PassedOver(x.n)
             /\ future = NoFuture => x.n < nth
             /\ future.st = "done" => future.answer.n < x.n
    BY DEF InitInOrder
  <2>2. /\ m.arg = "init" /\ m.n \in 1 .. nth /\ m.id = InitIds[m.n] /\ PassedOver(m.n)
        /\ \A x \in Underway' : m.n < x.n
    BY <2>1, <1>1, <1>3, <1>4, <1>5 DEF Underway
  <2>3. CASE taken
    BY <2>1, <2>2, <2>3, <1>3, <1>4, <1>5, <1>6
  <2>4. CASE ~taken
    <3>1. future.st = "done" =>
            /\ future.answer.arg = "init" /\ future.answer.n \in 1 .. nth
            /\ future.answer.id = InitIds[future.answer.n] /\ PassedOver(future.answer.n)
      BY DEF InitInOrder
    <3> QED BY <2>1, <2>4, <3>1, <1>3, <1>4, <1>5, <1>6
  <2> QED BY <2>3, <2>4
<1>13. NoLateBond'
  BY <1>1, <1>4 DEF NoLateBond
<1>14. PairInOrder'
  <2> SUFFICES ASSUME stage = "pair"
               PROVE  /\ nth \in 1 .. PairCommands /\ 1 .. nth - 1 \subseteq bonded
                      /\ \A x \in Underway' : x.id = "pair" => x.arg = "pair" /\ x.n = nth
                      /\ OneBond(toPad) /\ OneBond(fromPad') /\ ~(Bonding(toPad) /\ Bonding(fromPad'))
                      /\ future' # Waiting => ~Bonding(toPad) /\ ~Bonding(fromPad')
                      /\ \A x \in ToSet(fromPad') : x.id = "pair" /\ x.good => nth \in bonded
                      /\ future'.st = "done" /\ future'.answer.good => nth \in bonded
    BY <1>1 DEF PairInOrder
  <2>1. /\ nth \in 1 .. PairCommands /\ 1 .. nth - 1 \subseteq bonded
        /\ \A x \in Underway : x.id = "pair" => x.arg = "pair" /\ x.n = nth
        /\ OneBond(toPad) /\ OneBond(fromPad) /\ ~(Bonding(toPad) /\ Bonding(fromPad))
        /\ future # Waiting => ~Bonding(toPad) /\ ~Bonding(fromPad)
        /\ \A x \in ToSet(fromPad) : x.id = "pair" /\ x.good => nth \in bonded
        /\ future.st = "done" /\ future.answer.good => nth \in bonded
    BY DEF PairInOrder
  <2>2. (Bonding(fromPad') => Bonding(fromPad)) /\ (m.id = "pair" => Bonding(fromPad))
    BY <1>3 DEF Bonding
  <2>3. CASE taken
    <3>1. Command.id = "pair"
      BY CommandOfStage DEF Ended
    <3>2. m.id = "pair"
      BY <1>7, <2>3, <3>1
    <3> QED BY <2>1, <2>2, <2>3, <3>2, <1>3, <1>4, <1>5, <1>6
  <2>4. CASE ~taken
    BY <2>1, <2>2, <2>4, <1>3, <1>4, <1>5, <1>6
  <2> QED BY <2>3, <2>4
<1>15. BondsTyped'
  BY <1>1, <1>4 DEF BondsTyped
<1> QED BY <1>9, <1>10, <1>11, <1>12, <1>13, <1>14, <1>15


\* The controller executes the first command and answers it, well or badly, or the answer
\* is lost.
LEMMA ExecutesSteps ==
  ASSUME ChannelInv, PadExecutes
  PROVE  ChannelInv'
<1> USE DEF ChannelInv
<1> DEFINE c == Head(toPad)
           reply(g) == [id |-> c.id, arg |-> c.arg, n |-> c.n, good |-> g]
<1>1. /\ toPad # <<>> /\ toPad' = Tail(toPad)
      /\ UNCHANGED <<stage, nth, failed, future, hasUser, info, stick, cached>>
  BY DEF PadExecutes, heldVars
<1>2. PICK g \in BOOLEAN :
        /\ fromPad' = Append(fromPad, reply(g)) \/ fromPad' = fromPad
        /\ bonded' = IF c.arg = "pair" /\ g THEN bonded \cup {c.n} ELSE bonded
  <2>1. CASE /\ fromPad' \in {Append(fromPad, reply(TRUE)), fromPad}
             /\ bonded' = IF c.arg = "pair" THEN bonded \cup {c.n} ELSE bonded
    BY <2>1
  <2>2. CASE fromPad' = Append(fromPad, reply(FALSE)) /\ bonded' = bonded
    BY <2>2
  <2> QED BY <2>1, <2>2 DEF PadExecutes
<1>3. Command' = Command /\ \A n : PassedOver(n)' <=> PassedOver(n)
  BY <1>1, SameCommand
<1>4. toPad' \in Seq(Items) /\ c \in Items /\ ToSet(toPad) = {c} \cup ToSet(toPad')
  <2>1. toPad \in Seq(Items)
    BY DEF ChannelTyped
  <2> HIDE DEF c
  <2> QED BY <1>1, <2>1, TailSet DEF c
<1>5. /\ InTurn(toPad) => InTurn(toPad') /\ \A x \in ToSet(toPad') : c.n < x.n
      /\ OneBond(toPad) => OneBond(toPad') /\ (c.id = "pair" => ~Bonding(toPad'))
  BY <1>1, TailLine DEF ChannelTyped
<1> DEFINE r == reply(g)
<1>6. r \in Replies /\ r.id = c.id /\ r.arg = c.arg /\ r.n = c.n /\ r.good = g
  BY <1>4 DEF Items, Replies
<1>7. fromPad' = Append(fromPad, r) \/ fromPad' = fromPad
  BY <1>2
<1> HIDE DEF c, r, reply
<1>8. /\ fromPad' \in Seq(Replies) /\ ToSet(fromPad') \subseteq ToSet(fromPad) \cup {r}
      /\ InTurn(fromPad) /\ (\A x \in ToSet(fromPad) : x.n < r.n) => InTurn(fromPad')
      /\ OneBond(fromPad) /\ (r.id = "pair" => ~Bonding(fromPad)) => OneBond(fromPad')
  <2>1. fromPad \in Seq(Replies)
    BY DEF ChannelTyped
  <2>2. /\ Append(fromPad, r) \in Seq(Replies) /\ ToSet(Append(fromPad, r)) = ToSet(fromPad) \cup {r}
        /\ InTurn(fromPad) /\ (\A x \in ToSet(fromPad) : x.n < r.n) => InTurn(Append(fromPad, r))
        /\ OneBond(fromPad) /\ (r.id = "pair" => ~Bonding(fromPad)) => OneBond(Append(fromPad, r))
    BY <1>6, <2>1, AppendSet, AppendLine
  <2> QED BY <1>7, <2>1, <2>2
<1>9. Underway' \subseteq Underway \cup {r} /\ c \in Underway
  BY <1>4, <1>8 DEF Underway
<1>10. ChannelTyped' /\ FutureOfStage' /\ FactoryWithoutUser'
  BY <1>1, <1>3, <1>4, <1>8 DEF ChannelTyped, FutureOfStage, FactoryWithoutUser
<1>11. BondsTyped' /\ bonded \subseteq bonded' /\ (c.arg = "pair" /\ g => c.n \in bonded')
  BY <1>2, <1>6, <1>9 DEF BondsTyped
<1>12. ReadHonestly'
  BY <1>1, <1>11 DEF ReadHonestly, BondsTyped
<1>13. InitInOrder'
  <2> SUFFICES ASSUME stage = "init"
               PROVE  /\ InTurn(toPad') /\ InTurn(fromPad')
                      /\ \A x \in ToSet(fromPad'), y \in ToSet(toPad') : x.n < y.n
                      /\ \A x \in Underway' :
                           /\ x.arg = "init" /\ x.n \in 1 .. nth /\ x.id = InitIds[x.n] /\ PassedOver(x.n)
                           /\ future = NoFuture => x.n < nth
                           /\ future.st = "done" => future.answer.n < x.n
                      /\ future.st = "done" =>
                           /\ future.answer.arg = "init" /\ future.answer.n \in 1 .. nth
                           /\ future.answer.id = InitIds[future.answer.n] /\ PassedOver(future.answer.n)
    BY <1>1, <1>3 DEF InitInOrder
  <2>1. /\ InTurn(toPad) /\ InTurn(fromPad)
        /\ \A x \in ToSet(fromPad), y \in ToSet(toPad) : x.n < y.n
    BY DEF InitInOrder
  <2>2. \A x \in Underway :
             /\ x.arg = "init" /\ x.n \in 1 .. nth /\ x.id = InitIds[x.n] /\ PassedOver(x.n)
             /\ future = NoFuture => x.n < nth
             /\ future.st = "done" => future.answer.n < x.n
    BY DEF InitInOrder
  <2>3. future.st = "done" =>
             /\ future.answer.arg = "init" /\ future.answer.n \in 1 .. nth
             /\ future.answer.id = InitIds[future.answer.n] /\ PassedOver(future.answer.n)
    BY DEF InitInOrder
  <2>4. \A x \in ToSet(fromPad) : x.n < r.n
    BY <2>1, <1>4, <1>6
  <2>5. \A x \in ToSet(fromPad'), y \in ToSet(toPad') : x.n < y.n
    BY <2>1, <1>4, <1>5, <1>6, <1>8
  <2>6. \A x \in Underway' :
             /\ x.arg = "init" /\ x.n \in 1 .. nth /\ x.id = InitIds[x.n] /\ PassedOver(x.n)
             /\ future = NoFuture => x.n < nth
             /\ future.st = "done" => future.answer.n < x.n
    BY <2>2, <1>6, <1>9
  <2> QED BY <2>1, <2>3, <2>4, <2>5, <2>6, <1>5, <1>8
<1>14. NoLateBond'
  BY <1>1, <1>6, <1>9 DEF NoLateBond
<1>15. PairInOrder'
  <2> SUFFICES ASSUME stage = "pair"
               PROVE  /\ nth \in 1 .. PairCommands /\ 1 .. nth - 1 \subseteq bonded'
                      /\ \A x \in Underway' : x.id = "pair" => x.arg = "pair" /\ x.n = nth
                      /\ OneBond(toPad') /\ OneBond(fromPad') /\ ~(Bonding(toPad') /\ Bonding(fromPad'))
                      /\ future # Waiting => ~Bonding(toPad') /\ ~Bonding(fromPad')
                      /\ \A x \in ToSet(fromPad') : x.id = "pair" /\ x.good => nth \in bonded'
                      /\ future.st = "done" /\ future.answer.good => nth \in bonded'
    BY <1>1 DEF PairInOrder
  <2>1. /\ nth \in 1 .. PairCommands /\ 1 .. nth - 1 \subseteq bonded
        /\ \A x \in Underway : x.id = "pair" => x.arg = "pair" /\ x.n = nth
        /\ OneBond(toPad) /\ OneBond(fromPad) /\ ~(Bonding(toPad) /\ Bonding(fromPad))
        /\ future # Waiting => ~Bonding(toPad) /\ ~Bonding(fromPad)
        /\ \A x \in ToSet(fromPad) : x.id = "pair" /\ x.good => nth \in bonded
        /\ future.st = "done" /\ future.answer.good => nth \in bonded
    BY DEF PairInOrder
  <2>2. /\ Bonding(toPad') => Bonding(toPad)
        /\ c.id = "pair" => Bonding(toPad)
        /\ Bonding(fromPad') => Bonding(fromPad) \/ c.id = "pair"
    BY <1>4, <1>6, <1>8 DEF Bonding
  <2>3. OneBond(toPad') /\ OneBond(fromPad')
    BY <2>1, <2>2, <1>5, <1>6, <1>8
  <2>4. \A x \in Underway' : x.id = "pair" => x.arg = "pair" /\ x.n = nth
    BY <2>1, <1>6, <1>9
  <2>5. \A x \in ToSet(fromPad') : x.id = "pair" /\ x.good => nth \in bonded'
    BY <2>1, <1>6, <1>8, <1>9, <1>11
  <2>6. ~(Bonding(toPad') /\ Bonding(fromPad')) /\ (future # Waiting => ~Bonding(toPad') /\ ~Bonding(fromPad'))
    BY <2>1, <2>2, <1>5
  <2> QED BY <2>1, <2>3, <2>4, <2>5, <2>6, <1>11
<1> QED BY <1>10, <1>11, <1>12, <1>13, <1>14, <1>15

\* With a new connection nothing is under way.
LEMMA OpensSteps ==
  ASSUME ChannelInv, ChannelOpens
  PROVE  ChannelInv'
<1> USE DEF ChannelInv
<1>1. /\ stage' = "init" /\ nth' = 1 /\ failed' = 0 /\ toPad' = <<>> /\ fromPad' = <<>> /\ bonded' = {}
      /\ info' = "none" /\ stick' = "none" /\ stage \in Ended /\ UNCHANGED <<future, hasUser, cached>>
  BY DEF ChannelOpens, Goes
<1>2. future' = NoFuture /\ future'.st = "none"
  BY <1>1 DEF FutureOfStage, NoFuture
<1>3. Underway' = {} /\ ToSet(toPad') = {} /\ ToSet(fromPad') = {}
  BY <1>1, EmptySet DEF Underway
<1>4. ChannelTyped'
  BY <1>1, <1>2, EmptySet, ChannelAssumption DEF ChannelTyped
<1>5. FutureOfStage'
  BY <1>1, <1>2, ChannelAssumption DEF FutureOfStage, Ended
<1>6. InitInOrder' /\ PairInOrder' /\ BondsTyped' /\ NoLateBond' /\ FactoryWithoutUser'
  BY <1>1, <1>2, <1>3, EmptyLine
     DEF InitInOrder, PairInOrder, BondsTyped, NoLateBond, FactoryWithoutUser
<1>7. ReadHonestly'
  BY <1>1 DEF ReadHonestly
<1> QED BY <1>4, <1>5, <1>6, <1>7

\* A stage other than the first commands and pair() is entered with no bond under way.
LEMMA EntersStage ==
  ASSUME ChannelInv, UNCHANGED padVars, future' = NoFuture, nth' \in Nat, failed' \in Nat, failed' < Failures,
         stage' \in {"info", "user", "factory", "ready", "failed"},
         stage' \in {"info", "user", "factory"} => \A x \in Underway : x.id # "pair",
         stage' = "factory" => ~hasUser
  PROVE  /\ ChannelTyped' /\ FutureOfStage' /\ InitInOrder' /\ NoLateBond' /\ PairInOrder' /\ BondsTyped'
         /\ FactoryWithoutUser'
<1> USE DEF ChannelInv
<1>1. Underway' = Underway /\ UNCHANGED <<toPad, fromPad, bonded, hasUser>>
  BY DEF padVars, Underway
<1>2. future'.st = "none"
  BY DEF NoFuture
<1>3. ChannelTyped'
  BY <1>1 DEF ChannelTyped, Ended
<1>4. FutureOfStage' /\ FactoryWithoutUser'
  BY <1>1, <1>2 DEF FutureOfStage, FactoryWithoutUser
<1>5. InitInOrder' /\ PairInOrder'
  BY DEF InitInOrder, PairInOrder
<1>6. NoLateBond' /\ BondsTyped'
  BY <1>1 DEF NoLateBond, BondsTyped
<1> QED BY <1>3, <1>4, <1>5, <1>6

\* So is pair(), and its next command.
LEMMA EntersPair ==
  ASSUME ChannelInv, UNCHANGED padVars, future' = NoFuture, failed' \in Nat, failed' < Failures,
         stage' = "pair", nth' \in 1 .. PairCommands, 1 .. nth' - 1 \subseteq bonded,
         \A x \in Underway : x.id # "pair"
  PROVE  /\ ChannelTyped' /\ FutureOfStage' /\ InitInOrder' /\ NoLateBond' /\ PairInOrder' /\ BondsTyped'
         /\ FactoryWithoutUser'
<1> USE DEF ChannelInv
<1>1. Underway' = Underway /\ UNCHANGED <<toPad, fromPad, bonded, hasUser>>
  BY DEF padVars, Underway
<1>2. future'.st = "none" /\ future' # Waiting
  BY DEF NoFuture, Waiting
<1>3. ChannelTyped'
  BY <1>1 DEF ChannelTyped
<1>4. FutureOfStage' /\ FactoryWithoutUser' /\ InitInOrder' /\ NoLateBond' /\ BondsTyped'
  BY <1>1, <1>2 DEF FutureOfStage, FactoryWithoutUser, InitInOrder, NoLateBond, BondsTyped, Ended
<1>5. \A x \in ToSet(toPad) \cup ToSet(fromPad) : x.id # "pair"
  BY DEF Underway
<1>6. ~Bonding(toPad') /\ ~Bonding(fromPad')
  BY <1>1, <1>5 DEF Bonding
<1>7. OneBond(toPad') /\ OneBond(fromPad')
  BY <1>1, <1>5 DEF OneBond, ToSet
<1>8. PairInOrder'
  BY <1>1, <1>2, <1>5, <1>6, <1>7 DEF PairInOrder, Underway
<1> QED BY <1>3, <1>4, <1>8


\* When a command is answered, no answer to the bond before it is under way: those come in
\* turn, and the ids of the commands that may follow a failed bond are none that came before.
LEMMA BondNotLate ==
  ASSUME ChannelInv, stage = "init", future.st = "done"
  PROVE  \A x \in Underway : x.id # "pair"
<1> USE DEF ChannelInv
<1> SUFFICES ASSUME NEW x \in Underway, x.id = "pair" PROVE FALSE
  OBVIOUS
<1> DEFINE a == future.answer
<1>1. /\ x.n \in 1 .. nth /\ InitIds[x.n] = "pair" /\ PassedOver(x.n)
      /\ a.n \in 1 .. nth /\ a.id = InitIds[a.n] /\ PassedOver(a.n) /\ a.n < x.n
  BY DEF InitInOrder
<1>2. nth \in 1 .. Len(InitIds) /\ failed \in Nat /\ failed < Failures
  BY DEF FutureOfStage, ChannelTyped
<1>3. a.id = InitIds[nth]
  <2>1. Command.id = InitIds[nth]
    BY DEF Command
  <2> QED BY <2>1 DEF FutureOfStage
<1>4. DOMAIN InitIds = 1 .. Len(InitIds) /\ Len(InitIds) \in Nat
  BY ChannelAssumption
<1> HIDE DEF a
<1>5. \A p \in DOMAIN InitIds : InitIds[p] = "pair" =>
         \A k \in DOMAIN InitIds, j \in 1 .. p : p < k /\ k < p + Failures => InitIds[k] # InitIds[j]
  BY ChannelAssumption
<1>6. CASE x.n < nth
  <2>1. nth - x.n <= failed
    BY <1>1, <1>6 DEF PassedOver
  <2>2. nth < x.n + Failures /\ a.n \in 1 .. x.n /\ x.n \in 1 .. Len(InitIds)
    BY <1>1, <1>2, <2>1, ChannelAssumption
  <2>3. InitIds[nth] # InitIds[a.n]
    BY <1>1, <1>2, <1>4, <1>5, <1>6, <2>2
  <2> QED BY <1>1, <1>3, <2>3
<1>7. CASE x.n = nth
  <2>1. InitIds[a.n] = "pair" /\ InitIds[nth] = "pair" /\ a.n < nth
    BY <1>1, <1>3, <1>7
  <2>2. nth - a.n <= failed
    BY <1>1, <2>1 DEF PassedOver
  <2>3. nth < a.n + Failures /\ a.n \in 1 .. a.n /\ a.n \in 1 .. Len(InitIds)
    BY <1>1, <1>2, <2>2, ChannelAssumption
  <2>4. InitIds[nth] # InitIds[a.n]
    BY <1>2, <1>4, <1>5, <2>1, <2>3
  <2> QED BY <2>1, <2>4
<1> QED BY <1>1, <1>2, <1>6, <1>7

\* Nor when the last of the first commands failed and the connection goes on.
LEMMA BondNotLast ==
  ASSUME ChannelInv, stage = "init", nth = Len(InitIds), failed + 1 < Failures
  PROVE  \A x \in Underway : x.id # "pair"
<1> USE DEF ChannelInv
<1> SUFFICES ASSUME NEW x \in Underway, x.id = "pair" PROVE FALSE
  OBVIOUS
<1>1. x.n \in 1 .. nth /\ InitIds[x.n] = "pair" /\ PassedOver(x.n)
  BY DEF InitInOrder
<1>2. x.n \in DOMAIN InitIds /\ Len(InitIds) \in Nat /\ failed \in Nat
  BY <1>1, ChannelAssumption DEF ChannelTyped
<1>3. x.n + Failures <= Len(InitIds) + 1
  BY <1>1, <1>2, ChannelAssumption
<1>4. x.n < nth => nth - x.n <= failed
  BY <1>1 DEF PassedOver
<1> QED BY <1>1, <1>2, <1>3, <1>4, ChannelAssumption

\* The first commands go on, after an answer or a failure that is tolerated.
LEMMA InitMoves ==
  ASSUME ChannelInv, stage = "init", future # NoFuture, future' = NoFuture, UNCHANGED padVars,
         \/ failed' = 0 /\ future.st = "done"
         \/ failed' = failed + 1 /\ failed + 1 < Failures,
         IF nth < Len(InitIds) THEN Goes("init", nth + 1) /\ UNCHANGED heldVars ELSE AfterInit
  PROVE  ChannelInv'
<1> USE DEF ChannelInv
<1>1. Underway' = Underway /\ UNCHANGED <<toPad, fromPad, bonded, hasUser>>
  BY DEF padVars, Underway
<1>2. /\ nth \in 1 .. Len(InitIds) /\ Len(InitIds) \in Nat /\ nth \in Nat /\ failed \in Nat
      /\ failed' \in Nat /\ failed' < Failures /\ Failures \in Nat
  BY ChannelAssumption DEF FutureOfStage, ChannelTyped
<1>3. CASE nth < Len(InitIds)
  <2>1. stage' = "init" /\ nth' = nth + 1 /\ UNCHANGED <<info, stick, cached>>
    BY <1>3 DEF Goes, heldVars
  <2>2. ChannelTyped' /\ FutureOfStage' /\ BondsTyped' /\ FactoryWithoutUser' /\ ReadHonestly' /\ NoLateBond'
        /\ PairInOrder'
    <3>1. future'.st # "done"
      BY DEF NoFuture
    <3>2. ChannelTyped'
      BY <1>1, <1>2, <2>1 DEF ChannelTyped
    <3>3. FutureOfStage'
      BY <1>2, <1>3, <2>1, <3>1 DEF FutureOfStage
    <3> QED BY <1>1, <2>1, <3>2, <3>3
            DEF BondsTyped, FactoryWithoutUser, ReadHonestly, NoLateBond, PairInOrder
  <2>3. InitInOrder'
    <3>1. /\ InTurn(toPad) /\ InTurn(fromPad)
          /\ \A x \in ToSet(fromPad), y \in ToSet(toPad) : x.n < y.n
          /\ \A x \in Underway : x.arg = "init" /\ x.n \in 1 .. nth /\ x.id = InitIds[x.n] /\ PassedOver(x.n)
      BY DEF InitInOrder
    <3>2. ASSUME NEW x \in Underway PROVE PassedOver(x.n)'
      <4>1. x' = x
        OBVIOUS
      <4>2. x.n \in 1 .. nth /\ x.id = InitIds[x.n] /\ PassedOver(x.n)
        BY <3>1
      <4>3. CASE failed' = 0 /\ future.st = "done"
        BY <4>2, <4>3, BondNotLate DEF PassedOver
      <4>4. CASE failed' = failed + 1
        BY <1>2, <2>1, <4>2, <4>4 DEF PassedOver
      <4> QED BY <4>3, <4>4
    <3>3. \A x \in Underway : x.n \in 1 .. nth' /\ x.n < nth'
      BY <1>2, <2>1, <3>1
    <3>4. future'.st # "done"
      BY DEF NoFuture
    <3> QED BY <1>1, <3>1, <3>2, <3>3, <3>4 DEF InitInOrder
  <2> QED BY <2>2, <2>3
<1>4. CASE ~(nth < Len(InitIds))
  <2>1. nth = Len(InitIds) /\ AfterInit
    BY <1>2, <1>4
  <2>2. \A x \in Underway : x.id # "pair"
    BY <2>1, BondNotLate, BondNotLast
  <2>3. CASE cached # "none"
    <3>1. stage' = "pair" /\ nth' = 1 /\ stick' = cached /\ info' = "info" /\ cached' = cached
      BY <2>1, <2>3 DEF AfterInit, Goes
    <3>2. nth' \in 1 .. PairCommands /\ 1 .. nth' - 1 \subseteq bonded
      BY <3>1, ChannelAssumption
    <3>3. ReadHonestly'
      BY <1>1, <3>1 DEF ReadHonestly
    <3> QED BY <1>2, <2>2, <3>1, <3>2, <3>3, EntersPair
  <2>4. CASE cached = "none"
    <3>1. stage' = "info" /\ nth' = 1 /\ UNCHANGED <<info, stick, cached>>
      BY <2>1, <2>4 DEF AfterInit, Goes, heldVars
    <3>2. ReadHonestly'
      BY <1>1, <3>1 DEF ReadHonestly
    <3> QED BY <1>2, <2>2, <3>1, <3>2, EntersStage
  <2> QED BY <2>3, <2>4
<1> QED BY <1>3, <1>4

\* The calibration is settled, by an answer or by its default, and pair() begins.
LEMMA StickMoves ==
  ASSUME ChannelInv, stage \in {"user", "factory"}, future' = NoFuture, UNCHANGED <<padVars, failed>>,
         NEW value \in {"centered", IF hasUser THEN "user" ELSE "factory"}, AfterStick(value)
  PROVE  ChannelInv'
<1> USE DEF ChannelInv
<1>1. /\ stage' = "pair" /\ nth' = 1 /\ stick' = value /\ info' = info
      /\ cached' = IF value = "centered" THEN cached ELSE value
  BY DEF AfterStick, Goes
<1>2. nth' \in 1 .. PairCommands /\ 1 .. nth' - 1 \subseteq bonded
  BY <1>1, ChannelAssumption
<1>3. \A x \in Underway : x.id # "pair"
  BY DEF NoLateBond
<1>4. ReadHonestly'
  BY <1>1 DEF ReadHonestly, padVars
<1>5. failed' \in Nat /\ failed' < Failures
  BY DEF ChannelTyped
<1> QED BY <1>1, <1>2, <1>3, <1>4, <1>5, EntersPair

\* A failure: the stage goes on without the answer, or the connection ends.
LEMMA RaisesSteps ==
  ASSUME ChannelInv, stage \notin Ended, future # NoFuture, future' = NoFuture, UNCHANGED padVars, Raises
  PROVE  ChannelInv'
<1> USE DEF ChannelInv
<1>1. failed \in Nat /\ failed < Failures /\ nth \in Nat
  BY DEF ChannelTyped
<1>2. CASE stage = "init" /\ failed + 1 < Failures
  BY <1>2, InitMoves DEF Raises
<1>3. CASE stage = "info" /\ nth < InfoAttempts
  <2>1. stage' = "info" /\ nth' = nth + 1 /\ UNCHANGED <<failed, info, stick, cached>>
    BY <1>3 DEF Raises, Goes, heldVars
  <2>2. ReadHonestly'
    BY <2>1 DEF ReadHonestly, padVars
  <2> QED BY <1>1, <1>3, <2>1, <2>2, EntersStage DEF NoLateBond
<1>4. CASE stage \in {"user", "factory"}
  <2>1. AfterStick("centered") /\ UNCHANGED failed
    BY <1>4 DEF Raises
  <2> QED BY <1>4, <2>1, StickMoves
<1>5. CASE /\ ~(stage = "init" /\ failed + 1 < Failures)
           /\ ~(stage = "info" /\ nth < InfoAttempts)
           /\ stage \notin {"user", "factory"}
  <2>1. stage' = "failed" /\ nth' = 1 /\ UNCHANGED <<failed, info, stick, cached>>
    BY <1>5 DEF Raises, Goes, heldVars
  <2>2. ReadHonestly'
    BY <2>1 DEF ReadHonestly, padVars
  <2> QED BY <1>1, <2>1, <2>2, EntersStage
<1> QED BY <1>2, <1>3, <1>4, <1>5

\* A good answer to the command of the stage.
LEMMA ContinuesSteps ==
  ASSUME ChannelInv, future.st = "done", future' = NoFuture, UNCHANGED padVars,
         future.answer.good, OwnAddress(future.answer), Continues(future.answer)
  PROVE  ChannelInv'
<1> USE DEF ChannelInv
<1>1. failed \in Nat /\ failed < Failures /\ nth \in Nat /\ future # NoFuture
  BY DEF ChannelTyped, NoFuture
<1>2. stage \in {"init", "info", "user", "factory", "pair"} /\ future.answer.id = Command.id
  BY <1>1 DEF ChannelTyped, FutureOfStage
<1>3. CASE stage = "init"
  BY <1>1, <1>3, InitMoves DEF Continues
<1>4. stage \in {"info", "user", "factory"} => future.answer.arg = stage
  BY <1>1, <1>2, CommandOfStage DEF OwnAddress, FutureOfStage
<1>5. CASE stage = "info"
  <2>1. stage' = "user" /\ nth' = 1 /\ info' = "info" /\ UNCHANGED <<failed, stick, cached>>
    BY <1>4, <1>5 DEF Continues, Goes
  <2>2. ReadHonestly'
    BY <2>1 DEF ReadHonestly, padVars
  <2> QED BY <1>1, <1>5, <2>1, <2>2, EntersStage DEF NoLateBond
<1>6. CASE stage = "user" /\ ~hasUser
  <2>1. stage' = "factory" /\ nth' = 1 /\ UNCHANGED <<failed, info, stick, cached>>
    BY <1>6 DEF Continues, Goes, heldVars
  <2>2. ReadHonestly'
    BY <2>1 DEF ReadHonestly, padVars
  <2> QED BY <1>1, <1>6, <2>1, <2>2, EntersStage DEF NoLateBond
<1>7. CASE stage \in {"user", "factory"} /\ (stage = "user" => hasUser)
  <2>1. AfterStick(future.answer.arg) /\ UNCHANGED failed
    BY <1>7 DEF Continues
  <2>2. future.answer.arg = IF hasUser THEN "user" ELSE "factory"
    BY <1>4, <1>7 DEF FactoryWithoutUser, ChannelTyped
  <2> QED BY <1>7, <2>1, <2>2, StickMoves
<1>8. CASE stage = "pair"
  <2>1. /\ nth \in 1 .. PairCommands /\ 1 .. nth - 1 \subseteq bonded /\ nth \in bonded
        /\ ~Bonding(toPad) /\ ~Bonding(fromPad)
    BY <1>8 DEF PairInOrder, Waiting
  <2>2. \A x \in Underway : x.id # "pair"
    BY <2>1 DEF Bonding, Underway
  <2>3. 1 .. nth \subseteq bonded
    BY <2>1
  <2>4. UNCHANGED <<failed, info, stick, cached>>
    BY <1>8 DEF Continues, heldVars
  <2>5. CASE nth < PairCommands
    <3>1. stage' = "pair" /\ nth' = nth + 1
      BY <1>8, <2>5 DEF Continues, Goes
    <3>2. nth' \in 1 .. PairCommands /\ 1 .. nth' - 1 \subseteq bonded
      BY <2>1, <2>3, <2>5, <3>1, ChannelAssumption
    <3>3. ReadHonestly'
      BY <2>4, <3>1 DEF ReadHonestly, padVars
    <3> QED BY <1>1, <2>2, <2>4, <3>1, <3>2, <3>3, EntersPair
  <2>6. CASE ~(nth < PairCommands)
    <3>1. stage' = "ready" /\ nth' = 1
      BY <1>8, <2>6 DEF Continues, Goes
    <3>2. bonded = 1 .. PairCommands
      <4>1. nth = PairCommands
        BY <2>1, <2>6, ChannelAssumption
      <4> QED BY <2>3, <4>1 DEF BondsTyped
    <3>3. ReadHonestly'
      BY <2>4, <3>1, <3>2 DEF ReadHonestly, padVars
    <3> QED BY <1>1, <2>4, <3>1, <3>3, EntersStage
  <2> QED BY <2>5, <2>6
<1> QED BY <1>2, <1>3, <1>5, <1>6, <1>7, <1>8

\* The invariant holds when the program starts.
LEMMA ChannelStarts == ChannelInit => ChannelInv
<1> SUFFICES ASSUME ChannelInit PROVE ChannelInv
  OBVIOUS
<1>1. future = NoFuture /\ future.st = "none"
  BY DEF ChannelInit, NoFuture
<1>2. Underway = {}
  BY EmptySet DEF ChannelInit, Underway
<1>3. ChannelTyped
  BY <1>1, EmptySet, ChannelAssumption DEF ChannelInit, ChannelTyped, Ended
<1>4. FutureOfStage
  BY <1>1 DEF ChannelInit, FutureOfStage, Ended
<1> QED BY <1>1, <1>2, <1>3, <1>4
        DEF ChannelInit, ChannelInv, InitInOrder, NoLateBond, PairInOrder, BondsTyped, FactoryWithoutUser, ReadHonestly

\* Every step keeps the invariant.
LEMMA ChannelSteps == ChannelInv /\ [ChannelNext]_channelVars => ChannelInv'
<1> SUFFICES ASSUME ChannelInv, [ChannelNext]_channelVars PROVE ChannelInv'
  OBVIOUS
<1>1. CASE CommandWritten \/ AnswerArrives \/ PadExecutes \/ ChannelOpens
  BY <1>1, WrittenSteps, ArrivesSteps, ExecutesSteps, OpensSteps
<1>2. CASE Answered
  <2>1. stage \notin Ended /\ future # NoFuture /\ future.st = "done"
    BY <1>2 DEF Answered, ChannelInv, FutureOfStage, NoFuture
  <2> QED BY <1>2, <2>1, ContinuesSteps, RaisesSteps DEF Answered
<1>3. CASE TimesOut
  <2>1. stage \notin Ended /\ future # NoFuture
    BY <1>3 DEF TimesOut, ChannelInv, FutureOfStage, NoFuture, Waiting
  <2> QED BY <1>3, <2>1, RaisesSteps DEF TimesOut
<1>4. CASE UNCHANGED channelVars
  <2>1. UNCHANGED <<stage, nth, failed, future, toPad, fromPad, bonded, hasUser, info, stick, cached>>
    BY <1>4 DEF channelVars, padVars, heldVars
  <2>2. Command' = Command /\ \A n : PassedOver(n)' <=> PassedOver(n)
    BY <2>1, SameCommand
  <2>3. Underway' = Underway
    BY <2>1 DEF Underway
  <2>4. (ChannelTyped /\ FutureOfStage /\ FactoryWithoutUser /\ ReadHonestly)'
    BY <2>1, <2>2 DEF ChannelInv, ChannelTyped, FutureOfStage, FactoryWithoutUser, ReadHonestly
  <2>5. InitInOrder'
    BY <2>1, <2>2, <2>3 DEF ChannelInv, InitInOrder
  <2>6. (NoLateBond /\ PairInOrder /\ BondsTyped)'
    BY <2>1, <2>3 DEF ChannelInv, NoLateBond, PairInOrder, BondsTyped
  <2> QED BY <2>4, <2>5, <2>6 DEF ChannelInv
<1> QED BY <1>1, <1>2, <1>3, <1>4 DEF ChannelNext

\* No more is under way than was issued.
Issued == issued \in Nat /\ Len(toPad) + Len(fromPad) <= issued

LEMMA IssuedSteps == ChannelInv /\ Issued /\ [ChannelNext]_channelVars => Issued'
<1> SUFFICES ASSUME ChannelInv, Issued, [ChannelNext]_channelVars PROVE Issued'
  OBVIOUS
<1>1. /\ toPad \in Seq(Items) /\ fromPad \in Seq(Replies) /\ issued \in Nat
      /\ Len(toPad) + Len(fromPad) <= issued
  BY DEF ChannelInv, ChannelTyped, Issued
<1>2. Len(toPad) \in Nat /\ Len(fromPad) \in Nat
  BY <1>1
<1>3. CASE CommandWritten
  <2>1. issued' = issued + 1 /\ UNCHANGED fromPad
    BY <1>3 DEF CommandWritten
  <2>2. Len(toPad') \in {Len(toPad), Len(toPad) + 1}
    <3>1. toPad' = toPad \/ \E c : toPad' = Append(toPad, c)
      BY <1>3 DEF CommandWritten
    <3>2. \A c : Len(Append(toPad, c)) = Len(toPad) + 1
      BY <1>1
    <3> QED BY <3>1, <3>2
  <2> QED BY <1>1, <1>2, <2>1, <2>2 DEF Issued
<1>4. CASE AnswerArrives
  <2>1. fromPad # <<>> /\ fromPad' = Tail(fromPad) /\ UNCHANGED <<toPad, issued>>
    BY <1>4 DEF AnswerArrives
  <2>2. Len(fromPad') \in Nat /\ Len(fromPad') <= Len(fromPad)
    BY <1>1, <2>1
  <2> QED BY <1>1, <1>2, <2>1, <2>2 DEF Issued
<1>5. CASE PadExecutes
  <2>1. toPad # <<>> /\ toPad' = Tail(toPad) /\ UNCHANGED issued
    BY <1>5 DEF PadExecutes
  <2>2. Len(toPad') \in Nat /\ Len(toPad') + 1 = Len(toPad)
    BY <1>1, <2>1
  <2>3. Len(fromPad') \in {Len(fromPad), Len(fromPad) + 1}
    <3>1. fromPad' = fromPad \/ \E c : fromPad' = Append(fromPad, c)
      BY <1>5 DEF PadExecutes
    <3>2. \A c : Len(Append(fromPad, c)) = Len(fromPad) + 1
      BY <1>1
    <3> QED BY <3>1, <3>2
  <2> QED BY <1>1, <1>2, <2>1, <2>2, <2>3 DEF Issued
<1>6. CASE ChannelOpens
  <2>1. toPad' = <<>> /\ fromPad' = <<>> /\ issued' = 0
    BY <1>6 DEF ChannelOpens
  <2> QED BY <2>1 DEF Issued
<1>7. CASE Answered \/ TimesOut \/ UNCHANGED channelVars
  BY <1>7 DEF Answered, TimesOut, channelVars, padVars, Issued
<1> QED BY <1>3, <1>4, <1>5, <1>6, <1>7 DEF ChannelNext

\* ChannelTypeOK: a connection gives up before it has failed too often in a row, and waits
\* for nothing once it has ended.
THEOREM ChannelTypeCorrect == ChannelSpec => []ChannelTypeOK
<1>1. ChannelInit => Issued
  <2>1. Len(<<>>) = 0
    OBVIOUS
  <2> QED BY <2>1 DEF ChannelInit, Issued
<1>2. ChannelInv /\ Issued => ChannelTypeOK
  <2> SUFFICES ASSUME ChannelInv, Issued PROVE ChannelTypeOK
    OBVIOUS
  <2>1. failed \in 0 .. Failures - 1
    BY ChannelAssumption DEF ChannelInv, ChannelTyped
  <2>2. stick \in {"none", "centered", "user", "factory"}
    BY DEF ChannelInv, ReadHonestly
  <2> QED BY <2>1, <2>2 DEF ChannelInv, ChannelTyped, FutureOfStage, BondsTyped, Issued, ChannelTypeOK
<1> QED BY <1>1, <1>2, IssuedSteps, ChannelStarts, ChannelSteps, PTL DEF ChannelSpec

\* However late answers come, and whichever are lost: the info and the calibration are the
\* controller's own, and a pairing that is reported done was executed to its last command.
THEOREM HonestStart == ChannelSpec => []InitHonest
<1>1. ChannelInv /\ ChannelTypeOK => InitHonest
  BY DEF ChannelInv, InitHonest
<1> QED BY <1>1, ChannelStarts, ChannelSteps, ChannelTypeCorrect, PTL DEF ChannelSpec

-----------------------------------------------------------------------------
(* Rumble: the worker of a pair, and the bridge's dispatcher *)

Counts == 0 .. StopSuccesses
SideType ==
  [payload : {"none", "buzz", "zero"}, active : BOOLEAN, sustain : BOOLEAN, zeros : Counts,
   edge : BOOLEAN, gen : Nat, edgeGen : Nat, missed : Nat]
WriteType ==
  [st : {"none", "reserved", "posted"}, kind : {"none", "edge", "zero", "sustain", "nothing"},
   gen : Nat, payload : {"none", "buzz", "zero"}]
MotorType == [gen : Nat, payload : {"none", "buzz", "zero"}]

Flying(f) == f.st # "none"

\* Nothing was ever submitted for the side.
FreshOk(r, f, m) ==
  r.gen = 0 => /\ r.payload = "none" /\ ~r.active /\ r.zeros = 0 /\ ~r.edge /\ r.edgeGen = 0
               /\ ~Flying(f) /\ m.gen = 0

\* The last transition was an activation: once its edge is written, and not given up, the
\* controller plays it, and no older write can follow.
EdgeOk(r, f, m) ==
  r.gen > 0 /\ r.edgeGen = r.gen =>
    /\ r.payload = "buzz" /\ r.zeros = 0
    /\ ~r.edge /\ r.missed < r.gen => m.gen = r.gen /\ (Flying(f) => f.gen = r.gen)

\* The last transition was a stop: once one of its zeros is written the edge before it is
\* over, the controller is silent, and only more of its zeros follow.
StopOk(r, f, m) ==
  r.gen > 0 /\ r.edgeGen # r.gen =>
    /\ r.payload = "zero" /\ ~r.active
    /\ r.zeros < StopSuccesses /\ r.missed < r.gen =>
         /\ ~r.edge /\ m.gen = r.gen /\ m.payload = "zero"
         /\ Flying(f) => f.gen = r.gen /\ f.payload = "zero"

\* A zero in flight is silent, and one of the current stop follows no edge.
WriteOk(r, f) ==
  Flying(f) /\ f.kind = "zero" =>
    f.payload = "zero" /\ (f.gen = r.gen => ~r.edge /\ r.edgeGen # r.gen)

Gens(r, f) ==
  /\ r.edgeGen <= r.gen /\ r.missed <= r.gen /\ (r.edge => r.missed < r.gen)
  /\ Flying(f) => f.gen <= r.gen

SideOk(r, f, m) ==
  /\ FreshOk(r, f, m) /\ EdgeOk(r, f, m) /\ StopOk(r, f, m) /\ WriteOk(r, f) /\ Gens(r, f)

PairTyped ==
  /\ rumble \in [RumbleSide -> SideType] /\ flight \in [RumbleSide -> WriteType]
  /\ motor \in [RumbleSide -> MotorType]
  /\ pairSession \in {"running", "stopping", "stopped"} /\ wake \in BOOLEAN
  /\ worker \in {"check", "idle", "off"} /\ completed \in BOOLEAN

SidesOk == pairSession = "running" => \A s \in RumbleSide : SideOk(rumble[s], flight[s], motor[s])

OneWrite == \A s, t \in RumbleSide : InFlight(s) /\ InFlight(t) => s = t
WorkerAwake == worker = "idle" /\ pairSession = "running" /\ ~wake => ~HasPendingWork

PairInv == PairTyped /\ SidesOk /\ OneWrite /\ WorkerAwake

-----------------------------------------------------------------------------
(* What the model's functions of a side return, field by field *)

LEMMA CountFacts ==
  /\ StopSuccesses \in Counts /\ 0 \in Counts /\ 0 \in Nat /\ StopSuccesses > 0
  /\ \A z \in Counts : z > 0 => z - 1 \in Counts /\ z - 1 < StopSuccesses
BY PairRumbleAssumption DEF Counts

LEMMA NextGen ==
  ASSUME NEW r \in SideType
  PROVE  Transitions(r) \in Nat /\ Transitions(r) = r.gen + 1
BY DEF SideType, Transitions

LEMMA StoppedFields ==
  ASSUME NEW r \in SideType, NEW q, q = Stopped(r)
  PROVE  /\ q \in SideType /\ q.payload = "zero" /\ ~q.active
         /\ q.edge = r.edge /\ q.edgeGen = r.edgeGen /\ q.missed = r.missed
         /\ \/ q.gen = Transitions(r) /\ q.zeros = StopSuccesses
            \/ ~r.active /\ r.payload = "zero" /\ q.gen = r.gen /\ q.zeros = r.zeros
<1>1. Transitions(r) \in Nat /\ StopSuccesses \in Counts
  BY NextGen, CountFacts
<1>2. CASE ArmsStop(r)
  BY <1>1, <1>2 DEF Stopped, SideType
<1>3. CASE ~ArmsStop(r)
  BY <1>1, <1>3 DEF Stopped, SideType, ArmsStop
<1> QED BY <1>2, <1>3

LEMMA ActivatedFields ==
  ASSUME NEW r \in SideType, NEW sustained \in BOOLEAN, NEW q, q = Activated(r, sustained)
  PROVE  /\ q \in SideType /\ q.payload = "buzz" /\ q.active /\ q.zeros = 0 /\ q.missed = r.missed
         /\ \/ q.gen = Transitions(r) /\ q.edgeGen = Transitions(r) /\ q.edge
            \/ r.active /\ q.gen = r.gen /\ q.edgeGen = r.edgeGen /\ q.edge = r.edge
<1>1. Transitions(r) \in Nat /\ 0 \in Counts
  BY NextGen, CountFacts
<1>2. CASE r.active /\ sustained
  BY <1>1, <1>2 DEF Activated, SideType
<1>3. CASE ~(r.active /\ sustained)
  BY <1>1, <1>3 DEF Activated, SideType
<1> QED BY <1>2, <1>3

LEMMA InTimeFields ==
  ASSUME NEW r \in SideType, NEW late, NEW q, q = InTime(r, late)
  PROVE  /\ q \in SideType /\ q.payload = r.payload /\ q.active = r.active /\ q.zeros = r.zeros
         /\ q.gen = r.gen /\ q.edgeGen = r.edgeGen
         /\ \/ q.edge = r.edge /\ q.missed = r.missed /\ (r.edge => late = "no")
            \/ r.edge /\ ~q.edge /\ q.missed = r.edgeGen
<1>1. CASE r.edge /\ late # "no"
  BY <1>1 DEF InTime, SideType
<1>2. CASE ~(r.edge /\ late # "no")
  BY <1>2 DEF InTime, SideType
<1> QED BY <1>1, <1>2

\* What _dispatch_side leaves of a stop it gives up.
WithoutStop(r) == [r EXCEPT !.zeros = 0, !.missed = r.gen]

LEMMA GivenUpFields ==
  ASSUME NEW r \in SideType, NEW q, q = WithoutStop(r)
  PROVE  /\ q \in SideType /\ q.payload = r.payload /\ q.active = r.active /\ q.zeros = 0
         /\ q.gen = r.gen /\ q.edgeGen = r.edgeGen /\ q.edge = r.edge /\ q.missed = r.gen
BY CountFacts DEF SideType, WithoutStop

LEMMA ReservedFields ==
  ASSUME NEW r \in SideType, NEW f, f = Reserved(r), KindOf(r) # "nothing"
  PROVE  /\ f \in WriteType /\ Flying(f)
         /\ \/ f.kind = "edge" /\ r.edge /\ f.gen = r.edgeGen /\ f.payload = "buzz"
            \/ f.kind = "zero" /\ ~r.edge /\ ~r.active /\ r.zeros > 0 /\ f.gen = r.gen /\ f.payload = r.payload
            \/ f.kind = "sustain" /\ ~r.edge /\ r.active /\ f.gen = r.gen /\ f.payload = r.payload
<1>1. CASE r.edge
  BY <1>1 DEF Reserved, KindOf, SideType, WriteType, Flying
<1>2. CASE ~r.edge /\ ~r.active /\ r.zeros > 0
  <2>1. KindOf(r) = "zero"
    BY <1>2 DEF KindOf
  <2> QED BY <1>2, <2>1 DEF Reserved, SideType, WriteType, Flying
<1>3. CASE ~r.edge /\ r.active
  <2>1. KindOf(r) = "sustain"
    BY <1>3 DEF KindOf
  <2> QED BY <1>3, <2>1 DEF Reserved, SideType, WriteType, Flying
<1> QED BY <1>1, <1>2, <1>3 DEF KindOf

\* A completion settles one zero of the current stop, or the current edge, or nothing.
LEMMA SettlesFields ==
  ASSUME NEW r \in SideType, NEW f \in WriteType, NEW q, q = Settles(r, f)
  PROVE  /\ q \in SideType /\ q.payload = r.payload /\ q.gen = r.gen /\ q.edgeGen = r.edgeGen
         /\ q.missed = r.missed
         /\ \/ q.zeros = r.zeros /\ q.edge = r.edge /\ q.active = r.active
            \/ /\ f.kind = "zero" /\ f.gen = r.gen /\ ~r.active /\ r.zeros > 0
               /\ q.zeros < StopSuccesses /\ q.edge = r.edge /\ ~q.active
            \/ /\ f.kind = "edge" /\ f.gen = r.edgeGen /\ r.edge
               /\ q.zeros = r.zeros /\ ~q.edge /\ (q.active => r.active)
<1>1. CASE f.kind = "zero" /\ f.gen = r.gen /\ ~r.active /\ r.zeros > 0
  <2>1. r.zeros - 1 \in Counts /\ r.zeros - 1 < StopSuccesses
    BY <1>1, CountFacts DEF SideType
  <2>2. q = [r EXCEPT !.zeros = r.zeros - 1]
    BY <1>1 DEF Settles
  <2>3. PICK z \in Counts : z = r.zeros - 1 /\ z < StopSuccesses
    BY <2>1
  <2>4. q = [r EXCEPT !.zeros = z]
    BY <2>2, <2>3
  <2>5. q \in SideType /\ q.zeros = z /\ q.payload = r.payload /\ q.gen = r.gen /\ q.edgeGen = r.edgeGen
        /\ q.missed = r.missed /\ q.edge = r.edge /\ q.active = r.active
    BY <2>4 DEF SideType
  <2> QED BY <1>1, <2>3, <2>5
<1>2. CASE f.kind = "edge" /\ f.gen = r.edgeGen /\ r.edge
  <2>1. q = [r EXCEPT !.edge = FALSE, !.active = r.active /\ r.sustain]
    BY <1>2 DEF Settles
  <2>2. PICK a \in BOOLEAN : a = (r.active /\ r.sustain)
    OBVIOUS
  <2>3. q = [r EXCEPT !.edge = FALSE, !.active = a]
    BY <2>1, <2>2
  <2>4. q \in SideType /\ q.zeros = r.zeros /\ q.payload = r.payload /\ q.gen = r.gen /\ q.edgeGen = r.edgeGen
        /\ q.missed = r.missed /\ ~q.edge /\ q.active = a
    BY <2>3 DEF SideType
  <2> QED BY <1>2, <2>2, <2>4
<1>3. CASE /\ ~(f.kind = "zero" /\ f.gen = r.gen /\ ~r.active /\ r.zeros > 0)
           /\ ~(f.kind = "edge" /\ f.gen = r.edgeGen /\ r.edge)
  <2>1. q = r
    BY <1>3 DEF Settles
  <2> QED BY <2>1
<1> QED BY <1>1, <1>2, <1>3

-----------------------------------------------------------------------------
(* SideOk through each operation *)

\* submit() starts a transition, which nothing in flight can be of, or changes nothing that
\* SideOk tells apart.
LEMMA SubmitKeeps ==
  ASSUME NEW r \in SideType, NEW f \in WriteType, NEW m \in MotorType, SideOk(r, f, m),
         NEW q, q \in {Stopped(r), Activated(r, TRUE), Activated(r, FALSE)}
  PROVE  q \in SideType /\ SideOk(q, f, m)
<1> DEFINE next == Transitions(r)
<1>1. /\ next \in Nat /\ next = r.gen + 1 /\ r.gen \in Nat /\ r.edgeGen \in Nat /\ r.missed \in Nat
      /\ f.gen \in Nat /\ StopSuccesses \in Nat /\ r.edge \in BOOLEAN
  BY NextGen, PairRumbleAssumption DEF SideType, WriteType
<1>2. CASE q = Stopped(r)
  <2>1. /\ q \in SideType /\ q.payload = "zero" /\ ~q.active
        /\ q.edge = r.edge /\ q.edgeGen = r.edgeGen /\ q.missed = r.missed
        /\ \/ q.gen = next /\ q.zeros = StopSuccesses
           \/ ~r.active /\ r.payload = "zero" /\ q.gen = r.gen /\ q.zeros = r.zeros
    BY <1>2, StoppedFields
  <2>2. CASE q.gen = next /\ q.zeros = StopSuccesses
    BY <1>1, <2>1, <2>2 DEF SideOk, FreshOk, EdgeOk, StopOk, WriteOk, Gens
  <2>3. CASE ~r.active /\ r.payload = "zero" /\ q.gen = r.gen /\ q.zeros = r.zeros
    BY <1>1, <2>1, <2>3 DEF SideOk, FreshOk, EdgeOk, StopOk, WriteOk, Gens
  <2> QED BY <2>1, <2>2, <2>3
<1>3. ASSUME NEW b \in BOOLEAN, q = Activated(r, b)
      PROVE  q \in SideType /\ SideOk(q, f, m)
  <2>1. /\ q \in SideType /\ q.payload = "buzz" /\ q.active /\ q.zeros = 0 /\ q.missed = r.missed
        /\ \/ q.gen = next /\ q.edgeGen = next /\ q.edge
           \/ r.active /\ q.gen = r.gen /\ q.edgeGen = r.edgeGen /\ q.edge = r.edge
    BY <1>3, ActivatedFields
  <2>2. CASE q.gen = next /\ q.edgeGen = next /\ q.edge
    BY <1>1, <2>1, <2>2 DEF SideOk, FreshOk, EdgeOk, StopOk, WriteOk, Gens
  <2>3. CASE r.active /\ q.gen = r.gen /\ q.edgeGen = r.edgeGen /\ q.edge = r.edge
    BY <1>1, <2>1, <2>3 DEF SideOk, FreshOk, EdgeOk, StopOk, WriteOk, Gens
  <2> QED BY <2>1, <2>2, <2>3
<1> QED BY <1>2, <1>3

\* An edge that is late is given up.
LEMMA LateKeeps ==
  ASSUME NEW r \in SideType, NEW f \in WriteType, NEW m \in MotorType, SideOk(r, f, m), ~Flying(f),
         NEW late, NEW q, q = InTime(r, late)
  PROVE  q \in SideType /\ SideOk(q, f, m)
<1>1. /\ q \in SideType /\ q.payload = r.payload /\ q.active = r.active /\ q.zeros = r.zeros
      /\ q.gen = r.gen /\ q.edgeGen = r.edgeGen
      /\ \/ q.edge = r.edge /\ q.missed = r.missed /\ (r.edge => late = "no")
         \/ r.edge /\ ~q.edge /\ q.missed = r.edgeGen
  BY InTimeFields
<1>2. r.gen \in Nat /\ r.edgeGen \in Nat /\ r.missed \in Nat /\ r.edge \in BOOLEAN
  BY DEF SideType
<1> QED BY <1>1, <1>2 DEF SideOk, FreshOk, EdgeOk, StopOk, WriteOk, Gens

\* So is the rest of a stop.
LEMMA GiveUpKeeps ==
  ASSUME NEW r \in SideType, NEW f \in WriteType, NEW m \in MotorType, SideOk(r, f, m), ~Flying(f),
         NEW late, late = "stop", NEW q, q = InTime(r, late), GivenUp(q, late),
         NEW g, g = WithoutStop(q)
  PROVE  g \in SideType /\ SideOk(g, f, m)
<1>1. /\ q \in SideType /\ SideOk(q, f, m) /\ ~q.edge
  BY LateKeeps, InTimeFields DEF SideType
<1>2. /\ g \in SideType /\ g.payload = q.payload /\ g.active = q.active /\ g.zeros = 0
      /\ g.gen = q.gen /\ g.edgeGen = q.edgeGen /\ g.edge = q.edge /\ g.missed = q.gen
  BY <1>1, GivenUpFields
<1>3. q.gen \in Nat /\ q.edgeGen \in Nat /\ q.missed \in Nat
  BY <1>1 DEF SideType
<1> QED BY <1>1, <1>2, <1>3 DEF SideOk, FreshOk, EdgeOk, StopOk, WriteOk, Gens

\* What is reserved is of the current transition, or the edge before the current stop.
LEMMA ReserveKeeps ==
  ASSUME NEW r \in SideType, NEW f \in WriteType, NEW m \in MotorType, SideOk(r, f, m), ~Flying(f),
         KindOf(r) # "nothing", NEW w, w = Reserved(r)
  PROVE  w \in WriteType /\ SideOk(r, w, m)
<1>1. /\ w \in WriteType /\ Flying(w)
      /\ \/ w.kind = "edge" /\ r.edge /\ w.gen = r.edgeGen /\ w.payload = "buzz"
         \/ w.kind = "zero" /\ ~r.edge /\ ~r.active /\ r.zeros > 0 /\ w.gen = r.gen /\ w.payload = r.payload
         \/ w.kind = "sustain" /\ ~r.edge /\ r.active /\ w.gen = r.gen /\ w.payload = r.payload
  BY ReservedFields
<1>2. r.gen \in Nat /\ r.edgeGen \in Nat /\ r.missed \in Nat /\ r.zeros \in Nat /\ StopSuccesses \in Nat
  BY PairRumbleAssumption DEF SideType, Counts
<1>3. CASE w.kind = "edge"
  BY <1>1, <1>2, <1>3 DEF SideOk, FreshOk, EdgeOk, StopOk, WriteOk, Gens
<1>4. CASE w.kind = "zero"
  BY <1>1, <1>2, <1>4 DEF SideOk, FreshOk, EdgeOk, StopOk, WriteOk, Gens
<1>5. CASE w.kind = "sustain"
  BY <1>1, <1>2, <1>5 DEF SideOk, FreshOk, EdgeOk, StopOk, WriteOk, Gens
<1> QED BY <1>1, <1>3, <1>4, <1>5

\* A write ends: not settled, lost or played, or settled and played.
LEMMA EndKeeps ==
  ASSUME NEW r \in SideType, NEW f \in WriteType, NEW m \in MotorType, SideOk(r, f, m), Flying(f),
         NEW n, n = [gen |-> f.gen, payload |-> f.payload]
  PROVE  /\ NoWrite \in WriteType /\ n \in MotorType
         /\ SideOk(r, NoWrite, m) /\ SideOk(r, NoWrite, n)
         /\ Settles(r, f) \in SideType /\ SideOk(Settles(r, f), NoWrite, n)
<1>1. /\ NoWrite \in WriteType /\ ~Flying(NoWrite)
      /\ n \in MotorType /\ n.gen = f.gen /\ n.payload = f.payload
  BY DEF NoWrite, WriteType, MotorType, Flying
<1>2. r.gen \in Nat /\ r.edgeGen \in Nat /\ r.missed \in Nat /\ r.zeros \in Nat /\ StopSuccesses \in Nat /\ f.gen \in Nat
  BY PairRumbleAssumption DEF SideType, WriteType, Counts
<1>3. SideOk(r, NoWrite, m)
  BY <1>1, <1>2 DEF SideOk, FreshOk, EdgeOk, StopOk, WriteOk, Gens
<1>4. SideOk(r, NoWrite, n)
  BY <1>1, <1>2 DEF SideOk, FreshOk, EdgeOk, StopOk, WriteOk, Gens
<1>5. ASSUME NEW q, q = Settles(r, f) PROVE q \in SideType /\ SideOk(q, NoWrite, n)
  <2>1. /\ q \in SideType /\ q.payload = r.payload /\ q.gen = r.gen /\ q.edgeGen = r.edgeGen
        /\ q.missed = r.missed
        /\ \/ q.zeros = r.zeros /\ q.edge = r.edge /\ q.active = r.active
           \/ /\ f.kind = "zero" /\ f.gen = r.gen /\ ~r.active /\ r.zeros > 0
              /\ q.zeros < StopSuccesses /\ q.edge = r.edge /\ ~q.active
           \/ /\ f.kind = "edge" /\ f.gen = r.edgeGen /\ r.edge
              /\ q.zeros = r.zeros /\ ~q.edge /\ (q.active => r.active)
    BY <1>5, SettlesFields
  <2>2. CASE q.zeros = r.zeros /\ q.edge = r.edge /\ q.active = r.active
    BY <1>1, <1>2, <1>4, <2>1, <2>2 DEF SideOk, FreshOk, EdgeOk, StopOk, WriteOk, Gens
  <2>3. CASE /\ f.kind = "zero" /\ f.gen = r.gen /\ ~r.active /\ r.zeros > 0
             /\ q.zeros < StopSuccesses /\ q.edge = r.edge /\ ~q.active
    BY <1>1, <1>2, <2>1, <2>3 DEF SideOk, FreshOk, EdgeOk, StopOk, WriteOk, Gens
  <2>4. CASE /\ f.kind = "edge" /\ f.gen = r.edgeGen /\ r.edge
             /\ q.zeros = r.zeros /\ ~q.edge /\ (q.active => r.active)
    BY <1>1, <1>2, <2>1, <2>4 DEF SideOk, FreshOk, EdgeOk, StopOk, WriteOk, Gens
  <2> QED BY <2>1, <2>2, <2>3, <2>4
<1> QED BY <1>1, <1>3, <1>4, <1>5

-----------------------------------------------------------------------------
(* The steps *)

\* A step that touches one side keeps SidesOk if it keeps SideOk for that one.
LEMMA OneSide ==
  ASSUME PairTyped, SidesOk, NEW s \in RumbleSide,
         NEW r \in SideType, NEW f \in WriteType, NEW m \in MotorType,
         rumble' = [rumble EXCEPT ![s] = r], flight' = [flight EXCEPT ![s] = f],
         motor' = [motor EXCEPT ![s] = m],
         UNCHANGED pairSession, pairSession = "running" => SideOk(r, f, m)
  PROVE  /\ rumble' \in [RumbleSide -> SideType] /\ flight' \in [RumbleSide -> WriteType]
         /\ motor' \in [RumbleSide -> MotorType] /\ SidesOk'
<1>1. /\ rumble' \in [RumbleSide -> SideType] /\ flight' \in [RumbleSide -> WriteType]
      /\ motor' \in [RumbleSide -> MotorType]
  BY DEF PairTyped
<1>2. ASSUME pairSession' = "running", NEW t \in RumbleSide
      PROVE  SideOk(rumble'[t], flight'[t], motor'[t])
  <2>1. CASE t = s
    BY <1>2, <2>1 DEF PairTyped
  <2>2. CASE t # s
    <3>1. rumble'[t] = rumble[t] /\ flight'[t] = flight[t] /\ motor'[t] = motor[t]
      BY <2>2 DEF PairTyped
    <3> QED BY <1>2, <3>1 DEF SidesOk
  <2> QED BY <2>1, <2>2
<1> QED BY <1>1, <1>2 DEF SidesOk

\* Its present record stands for a side that a step leaves alone.
LEMMA SideIsItself ==
  ASSUME PairTyped, NEW s \in RumbleSide
  PROVE  /\ rumble = [rumble EXCEPT ![s] = rumble[s]] /\ rumble[s] \in SideType
         /\ flight = [flight EXCEPT ![s] = flight[s]] /\ flight[s] \in WriteType
         /\ motor = [motor EXCEPT ![s] = motor[s]] /\ motor[s] \in MotorType
BY DEF PairTyped

\* A slot: the side served gets its reservation, or loses what it gave up.
LEMMA ServeKeeps ==
  ASSUME PairInv, ServesSide, UNCHANGED <<pairSession, motor>>
  PROVE  /\ rumble' \in [RumbleSide -> SideType] /\ flight' \in [RumbleSide -> WriteType]
         /\ SidesOk' /\ OneWrite' /\ (~HasPendingWork => UNCHANGED <<rumble, flight>>)
<1>1. CASE UNCHANGED <<rumble, flight>>
  BY <1>1 DEF PairInv, PairTyped, SidesOk, OneWrite, InFlight
<1>2. ASSUME NEW s \in Candidates, Foremost(s), DispatchSide(s)
      PROVE  /\ rumble' \in [RumbleSide -> SideType] /\ flight' \in [RumbleSide -> WriteType]
             /\ SidesOk' /\ OneWrite' /\ HasPendingWork
  <2>1. s \in RumbleSide /\ PairTyped /\ SidesOk /\ (\A x \in RumbleSide : ~InFlight(x))
    BY <1>2 DEF Candidates, PairInv, DispatchSide, PairIsFree
  <2>2. /\ rumble[s] \in SideType /\ flight[s] \in WriteType /\ motor[s] \in MotorType /\ ~Flying(flight[s])
        /\ pairSession = "running" => SideOk(rumble[s], flight[s], motor[s])
    BY <2>1 DEF PairTyped, SidesOk, InFlight, Flying
  <2>3. HasPendingWork
    BY <1>2 DEF Candidates, KindOf, HasPendingWork
  <2>4. PICK late \in {"no", "edge", "stop"} :
          LET r == InTime(rumble[s], late) IN
          IF GivenUp(r, late)
          THEN rumble' = [rumble EXCEPT ![s] = WithoutStop(r)] /\ UNCHANGED flight
          ELSE Sends(s, r)
    BY <1>2 DEF DispatchSide, WithoutStop
  <2>5. PICK q : q = InTime(rumble[s], late)
    OBVIOUS
  <2>6. q \in SideType /\ (pairSession = "running" => SideOk(q, flight[s], motor[s]))
    BY <2>2, <2>5, LateKeeps, InTimeFields
  <2>7. flight = [flight EXCEPT ![s] = flight[s]] /\ motor' = [motor EXCEPT ![s] = motor[s]]
    BY <2>1, SideIsItself
  <2>8. CASE GivenUp(q, late)
    <3>1. rumble' = [rumble EXCEPT ![s] = WithoutStop(q)] /\ UNCHANGED flight
      BY <2>4, <2>5, <2>8
    <3>2. late = "stop" /\ WithoutStop(q) \in SideType
      BY <2>6, <2>8, GivenUpFields DEF GivenUp
    <3>3. pairSession = "running" => SideOk(WithoutStop(q), flight[s], motor[s])
      BY <2>2, <2>5, <2>8, <3>2, GiveUpKeeps
    <3>4. OneWrite'
      BY <2>1, <3>1 DEF OneWrite, InFlight
    <3>5. flight' = [flight EXCEPT ![s] = flight[s]] /\ pairSession' = pairSession
      BY <2>7, <3>1
    <3>6. rumble' \in [RumbleSide -> SideType] /\ flight' \in [RumbleSide -> WriteType] /\ SidesOk'
      <4>1. PairTyped /\ SidesOk /\ s \in RumbleSide
        BY <2>1
      <4>2. flight[s] \in WriteType /\ motor[s] \in MotorType
        BY <2>2
      <4> QED BY <2>7, <3>1, <3>2, <3>3, <3>5, <4>1, <4>2, OneSide
    <3> QED BY <2>3, <3>4, <3>6
  <2>9. CASE ~GivenUp(q, late) /\ KindOf(q) = "nothing"
    <3>1. rumble' = [rumble EXCEPT ![s] = q] /\ UNCHANGED flight
      BY <2>4, <2>5, <2>9 DEF Sends
    <3>2. OneWrite'
      BY <2>1, <3>1 DEF OneWrite, InFlight
    <3>3. flight' = [flight EXCEPT ![s] = flight[s]] /\ pairSession' = pairSession
      BY <2>7, <3>1
    <3>4. rumble' \in [RumbleSide -> SideType] /\ flight' \in [RumbleSide -> WriteType] /\ SidesOk'
      <4>1. PairTyped /\ SidesOk /\ s \in RumbleSide
        BY <2>1
      <4>2. flight[s] \in WriteType /\ motor[s] \in MotorType
        BY <2>2
      <4> QED BY <2>6, <2>7, <3>1, <3>3, <4>1, <4>2, OneSide
    <3> QED BY <2>3, <3>2, <3>4
  <2>10. CASE ~GivenUp(q, late) /\ KindOf(q) # "nothing"
    <3>1. rumble' = [rumble EXCEPT ![s] = q] /\ flight' = [flight EXCEPT ![s] = Reserved(q)]
      BY <2>4, <2>5, <2>10 DEF Sends
    <3>2. Reserved(q) \in WriteType
      BY <2>6, <2>10, ReservedFields
    <3>3. pairSession = "running" => SideOk(q, Reserved(q), motor[s])
      BY <2>2, <2>6, <2>10, ReserveKeeps
    <3>4. OneWrite'
      BY <2>1, <3>1 DEF OneWrite, InFlight, PairTyped
    <3> QED BY <2>1, <2>2, <2>3, <2>6, <2>7, <3>1, <3>2, <3>3, <3>4, OneSide
  <2> QED BY <2>8, <2>9, <2>10
<1> QED BY <1>1, <1>2 DEF ServesSide

LEMMA PairSteps ==
  ASSUME PairInv, PairRumbleNext
  PROVE  PairInv'
<1> PairTyped /\ SidesOk /\ OneWrite /\ WorkerAwake
  BY DEF PairInv
<1>1. ASSUME NEW s \in RumbleSide, SubmitsRumble(s)
      PROVE  PairInv'
  <2>1. PICK q \in {Stopped(rumble[s]), Activated(rumble[s], TRUE), Activated(rumble[s], FALSE)} :
          rumble' = [rumble EXCEPT ![s] = q]
    BY <1>1 DEF SubmitsRumble
  <2>2. pairSession = "running" /\ wake' = TRUE /\ UNCHANGED <<pairSession, flight, motor, worker, completed>>
    BY <1>1 DEF SubmitsRumble
  <2>3. /\ rumble[s] \in SideType /\ flight[s] \in WriteType /\ motor[s] \in MotorType
        /\ SideOk(rumble[s], flight[s], motor[s])
    BY <2>2 DEF PairTyped, SidesOk
  <2>4. q \in SideType /\ SideOk(q, flight[s], motor[s])
    BY <2>1, <2>3, SubmitKeeps
  <2>5. flight' = [flight EXCEPT ![s] = flight[s]] /\ motor' = [motor EXCEPT ![s] = motor[s]]
    BY <2>2, SideIsItself
  <2>6. rumble' \in [RumbleSide -> SideType] /\ SidesOk'
    <3>1. UNCHANGED pairSession /\ rumble' = [rumble EXCEPT ![s] = q]
      BY <2>1, <2>2
    <3> QED BY <2>3, <2>4, <2>5, <3>1, OneSide
  <2>7. PairTyped' /\ OneWrite'
    BY <2>2, <2>6 DEF PairTyped, OneWrite, InFlight
  <2>8. WorkerAwake'
    BY <2>2 DEF WorkerAwake
  <2> QED BY <2>6, <2>7, <2>8 DEF PairInv
<1>2. ASSUME NEW s \in RumbleSide, Posts(s)
      PROVE  PairInv'
  <2>1. /\ flight[s].st = "reserved" /\ UNCHANGED <<pairSession, rumble, motor, worker, completed, wake>>
        /\ \E f \in {NoWrite, [flight[s] EXCEPT !.st = "posted"]} : flight' = [flight EXCEPT ![s] = f]
    BY <1>2 DEF Posts
  <2>2. PICK f \in {NoWrite, [flight[s] EXCEPT !.st = "posted"]} : flight' = [flight EXCEPT ![s] = f]
    BY <2>1
  <2>3. /\ rumble[s] \in SideType /\ flight[s] \in WriteType /\ motor[s] \in MotorType /\ Flying(flight[s])
        /\ pairSession = "running" => SideOk(rumble[s], flight[s], motor[s])
    BY <2>1 DEF PairTyped, SidesOk, Flying
  <2>4. f \in WriteType /\ (pairSession = "running" => SideOk(rumble[s], f, motor[s]))
    <3>1. CASE f = NoWrite
      <4>1. PICK n : n = [gen |-> flight[s].gen, payload |-> flight[s].payload]
        OBVIOUS
      <4>2. NoWrite \in WriteType
        BY DEF NoWrite, WriteType
      <4> QED BY <2>3, <3>1, <4>1, <4>2, EndKeeps
    <3>2. CASE f = [flight[s] EXCEPT !.st = "posted"]
      <4>1. /\ f \in WriteType /\ Flying(f) /\ f.kind = flight[s].kind /\ f.gen = flight[s].gen
            /\ f.payload = flight[s].payload
        BY <2>3, <3>2 DEF WriteType, Flying
      <4> QED BY <2>3, <4>1 DEF SideOk, FreshOk, EdgeOk, StopOk, WriteOk, Gens
    <3> QED BY <2>2, <3>1, <3>2
  <2>5. rumble' = [rumble EXCEPT ![s] = rumble[s]] /\ motor' = [motor EXCEPT ![s] = motor[s]]
    BY <2>1, SideIsItself
  <2>6. flight' \in [RumbleSide -> WriteType] /\ SidesOk'
    <3>1. UNCHANGED pairSession /\ flight' = [flight EXCEPT ![s] = f]
      BY <2>1, <2>2
    <3> QED BY <2>3, <2>4, <2>5, <3>1, OneSide
  <2>7. PairTyped'
    BY <2>1, <2>6 DEF PairTyped
  <2>8. OneWrite'
    BY <2>1, <2>2 DEF OneWrite, InFlight, PairTyped
  <2>9. WorkerAwake'
    BY <2>1 DEF WorkerAwake, HasPendingWork, InFlight
  <2> QED BY <2>6, <2>7, <2>8, <2>9 DEF PairInv
<1>3. ASSUME NEW s \in RumbleSide, WriteDone(s)
      PROVE  PairInv'
  <2>1. /\ flight[s].st = "posted" /\ flight' = [flight EXCEPT ![s] = NoWrite]
        /\ wake' = TRUE /\ completed' = TRUE /\ UNCHANGED <<pairSession, worker>>
    BY <1>3 DEF WriteDone
  <2>2. PICK n : n = [gen |-> flight[s].gen, payload |-> flight[s].payload]
    OBVIOUS
  <2>3. \/ rumble' = [rumble EXCEPT ![s] = Settles(rumble[s], flight[s])] /\ motor' = [motor EXCEPT ![s] = n]
        \/ UNCHANGED rumble /\ motor' \in {motor, [motor EXCEPT ![s] = n]}
    BY <1>3, <2>2 DEF WriteDone, PairTyped
  <2>4. /\ rumble[s] \in SideType /\ flight[s] \in WriteType /\ motor[s] \in MotorType /\ Flying(flight[s])
        /\ pairSession = "running" => SideOk(rumble[s], flight[s], motor[s])
    BY <2>1 DEF PairTyped, SidesOk, Flying
  <2>5. /\ NoWrite \in WriteType /\ n \in MotorType /\ Settles(rumble[s], flight[s]) \in SideType
        /\ pairSession = "running" => /\ SideOk(rumble[s], NoWrite, motor[s]) /\ SideOk(rumble[s], NoWrite, n)
                                      /\ SideOk(Settles(rumble[s], flight[s]), NoWrite, n)
    <3>1. NoWrite \in WriteType /\ n \in MotorType
      BY <2>2, <2>4 DEF NoWrite, WriteType, MotorType
    <3>2. Settles(rumble[s], flight[s]) \in SideType
      BY <2>4, SettlesFields
    <3> QED BY <2>2, <2>4, <3>1, <3>2, EndKeeps
  <2>6. /\ rumble = [rumble EXCEPT ![s] = rumble[s]] /\ motor = [motor EXCEPT ![s] = motor[s]]
    BY SideIsItself
  <2>7. /\ rumble' \in [RumbleSide -> SideType] /\ flight' \in [RumbleSide -> WriteType]
        /\ motor' \in [RumbleSide -> MotorType] /\ SidesOk'
    <3>1. CASE rumble' = [rumble EXCEPT ![s] = Settles(rumble[s], flight[s])] /\ motor' = [motor EXCEPT ![s] = n]
      BY <2>1, <2>5, <3>1, OneSide
    <3>2. CASE UNCHANGED rumble /\ motor' = motor
      BY <2>1, <2>4, <2>5, <2>6, <3>2, OneSide
    <3>3. CASE UNCHANGED rumble /\ motor' = [motor EXCEPT ![s] = n]
      BY <2>1, <2>4, <2>5, <2>6, <3>3, OneSide
    <3> QED BY <2>3, <3>1, <3>2, <3>3
  <2>8. PairTyped'
    BY <2>1, <2>7 DEF PairTyped
  <2>9. OneWrite'
    BY <2>1 DEF OneWrite, InFlight, PairTyped
  <2>10. WorkerAwake'
    BY <2>1 DEF WorkerAwake
  <2> QED BY <2>7, <2>8, <2>9, <2>10 DEF PairInv
<1>4. CASE WorkerServes
  <2>1. ServesSide /\ worker = "check" /\ wake' = FALSE /\ UNCHANGED <<pairSession, motor, worker, completed>>
    BY <1>4 DEF WorkerServes
  <2> QED BY <2>1, ServeKeeps DEF PairInv, PairTyped, WorkerAwake
<1>5. CASE CompletionServes
  <2>1. ServesSide /\ completed' = FALSE /\ UNCHANGED <<pairSession, motor, worker, wake>>
    BY <1>5 DEF CompletionServes
  <2>2. /\ rumble' \in [RumbleSide -> SideType] /\ flight' \in [RumbleSide -> WriteType]
        /\ SidesOk' /\ OneWrite' /\ (~HasPendingWork => UNCHANGED <<rumble, flight>>)
    BY <2>1, ServeKeeps
  <2>3. WorkerAwake'
    BY <2>1, <2>2 DEF WorkerAwake, HasPendingWork, InFlight
  <2> QED BY <2>1, <2>2, <2>3 DEF PairInv, PairTyped
<1>6. CASE WorkerRests \/ WorkerWakes \/ WorkerLeaves
  BY <1>6 DEF WorkerRests, WorkerWakes, WorkerLeaves, PairInv, PairTyped, SidesOk, OneWrite, InFlight,
     WorkerAwake, HasPendingWork
<1>7. CASE StopBegins
  BY <1>7 DEF StopBegins, PairInv, PairTyped, SidesOk, OneWrite, InFlight, WorkerAwake
<1>8. CASE StopEnds
  <2>1. \A r \in SideType : [r EXCEPT !.payload = "none", !.active = FALSE, !.zeros = 0, !.edge = FALSE] \in SideType
    BY CountFacts DEF SideType
  <2>2. rumble' \in [RumbleSide -> SideType]
    BY <1>8, <2>1 DEF StopEnds, PairTyped
  <2> QED BY <1>8, <2>2 DEF StopEnds, PairInv, PairTyped, SidesOk, OneWrite, InFlight, WorkerAwake
<1>9. CASE UNCHANGED rumbleVars
  BY <1>9 DEF rumbleVars, PairInv, PairTyped, SidesOk, OneWrite, InFlight, WorkerAwake, HasPendingWork
<1> QED BY <1>1, <1>2, <1>3, <1>4, <1>5, <1>6, <1>7, <1>8, <1>9 DEF PairRumbleNext

\* PairInv holds throughout.
LEMMA PairInvariant == PairRumbleSpec => []PairInv
<1>1. PairRumbleInit => PairInv
  <2> SUFFICES ASSUME PairRumbleInit PROVE PairInv
    OBVIOUS
  <2>1. /\ FreshSide \in SideType /\ NoWrite \in WriteType /\ ~Flying(NoWrite)
        /\ [gen |-> 0, payload |-> "buzz"] \in MotorType
    BY CountFacts DEF FreshSide, SideType, NoWrite, WriteType, MotorType, Flying
  <2>2. SideOk(FreshSide, NoWrite, [gen |-> 0, payload |-> "buzz"])
    BY DEF SideOk, FreshOk, EdgeOk, StopOk, WriteOk, Gens, FreshSide, NoWrite, Flying
  <2> QED BY <2>1, <2>2 DEF PairRumbleInit, PairInv, PairTyped, SidesOk, OneWrite, InFlight, WorkerAwake, Flying
<1>2. PairInv /\ [PairRumbleNext]_rumbleVars => PairInv'
  <2>1. CASE PairInv /\ UNCHANGED rumbleVars
    BY <2>1 DEF rumbleVars, PairInv, PairTyped, SidesOk, OneWrite, InFlight, WorkerAwake, HasPendingWork
  <2> QED BY <2>1, PairSteps
<1> QED BY <1>1, <1>2, PTL DEF PairRumbleSpec

\* No side is ahead of its generation, in a session that is over either.
GensInOrder == \A s \in RumbleSide : rumble[s].edgeGen <= rumble[s].gen /\ rumble[s].missed <= rumble[s].gen

\* What becomes of a side is in order if it was.
LEMMA GensKept ==
  ASSUME NEW r \in SideType, r.edgeGen <= r.gen, r.missed <= r.gen
  PROVE  /\ \A q \in {Stopped(r), Activated(r, TRUE), Activated(r, FALSE)} : q.edgeGen <= q.gen /\ q.missed <= q.gen
         /\ \A late : LET q == InTime(r, late) IN
              /\ q.edgeGen <= q.gen /\ q.missed <= q.gen
              /\ WithoutStop(q).edgeGen <= WithoutStop(q).gen /\ WithoutStop(q).missed <= WithoutStop(q).gen
         /\ \A f \in WriteType : LET q == Settles(r, f) IN q.edgeGen <= q.gen /\ q.missed <= q.gen
<1>1. /\ r.gen \in Nat /\ r.edgeGen \in Nat /\ r.missed \in Nat
      /\ Transitions(r) \in Nat /\ Transitions(r) = r.gen + 1
  BY NextGen DEF SideType
<1>2. ASSUME NEW q, q = Stopped(r) PROVE q.edgeGen <= q.gen /\ q.missed <= q.gen
  <2>1. q.edgeGen = r.edgeGen /\ q.missed = r.missed /\ (q.gen = Transitions(r) \/ q.gen = r.gen)
    BY <1>2, StoppedFields
  <2> QED BY <1>1, <2>1
<1>3. ASSUME NEW q, NEW b \in BOOLEAN, q = Activated(r, b) PROVE q.edgeGen <= q.gen /\ q.missed <= q.gen
  <2>1. /\ q.missed = r.missed
        /\ \/ q.gen = Transitions(r) /\ q.edgeGen = Transitions(r)
           \/ q.gen = r.gen /\ q.edgeGen = r.edgeGen
    BY <1>3, ActivatedFields
  <2> QED BY <1>1, <2>1
<1>4. ASSUME NEW late, NEW q, q = InTime(r, late)
      PROVE  /\ q.edgeGen <= q.gen /\ q.missed <= q.gen
             /\ WithoutStop(q).edgeGen <= WithoutStop(q).gen /\ WithoutStop(q).missed <= WithoutStop(q).gen
  <2>1. /\ q \in SideType /\ q.gen = r.gen /\ q.edgeGen = r.edgeGen
        /\ q.missed = r.missed \/ q.missed = r.edgeGen
    BY <1>4, InTimeFields
  <2>2. WithoutStop(q).gen = q.gen /\ WithoutStop(q).edgeGen = q.edgeGen /\ WithoutStop(q).missed = q.gen
    BY <2>1, GivenUpFields
  <2> QED BY <1>1, <2>1, <2>2
<1>5. ASSUME NEW f \in WriteType, NEW q, q = Settles(r, f) PROVE q.edgeGen <= q.gen /\ q.missed <= q.gen
  <2>1. q.gen = r.gen /\ q.edgeGen = r.edgeGen /\ q.missed = r.missed
    BY <1>5, SettlesFields
  <2> QED BY <2>1
<1> QED BY <1>2, <1>3, <1>4, <1>5

LEMMA GensSteps == PairInv /\ GensInOrder /\ [PairRumbleNext]_rumbleVars => GensInOrder'
<1> SUFFICES ASSUME PairInv, GensInOrder, [PairRumbleNext]_rumbleVars PROVE GensInOrder'
  OBVIOUS
<1>1. rumble \in [RumbleSide -> SideType] /\ flight \in [RumbleSide -> WriteType]
  BY DEF PairInv, PairTyped
<1>2. ASSUME NEW s \in RumbleSide, NEW q, q.edgeGen <= q.gen, q.missed <= q.gen, rumble' = [rumble EXCEPT ![s] = q]
      PROVE  GensInOrder'
  BY <1>1, <1>2 DEF GensInOrder
<1>3. ASSUME NEW s \in RumbleSide, SubmitsRumble(s) PROVE GensInOrder'
  <2>1. PICK q \in {Stopped(rumble[s]), Activated(rumble[s], TRUE), Activated(rumble[s], FALSE)} :
          rumble' = [rumble EXCEPT ![s] = q]
    BY <1>3 DEF SubmitsRumble
  <2>2. q.edgeGen <= q.gen /\ q.missed <= q.gen
    BY <1>1, GensKept DEF GensInOrder
  <2> QED BY <1>2, <2>1, <2>2
<1>4. ASSUME NEW s \in RumbleSide, WriteDone(s) PROVE GensInOrder'
  <2>1. UNCHANGED rumble \/ rumble' = [rumble EXCEPT ![s] = Settles(rumble[s], flight[s])]
    BY <1>4 DEF WriteDone
  <2>2. PICK q : q = Settles(rumble[s], flight[s])
    OBVIOUS
  <2>3. q.edgeGen <= q.gen /\ q.missed <= q.gen
    BY <1>1, <2>2, GensKept DEF GensInOrder
  <2> QED BY <1>2, <2>1, <2>2, <2>3 DEF GensInOrder
<1>5. CASE ServesSide
  <2>1. CASE UNCHANGED <<rumble, flight>>
    BY <2>1 DEF GensInOrder
  <2>2. ASSUME NEW s \in Candidates, DispatchSide(s) PROVE GensInOrder'
    <3>1. s \in RumbleSide
      BY DEF Candidates
    <3>2. PICK late : \/ rumble' = [rumble EXCEPT ![s] = WithoutStop(InTime(rumble[s], late))]
                      \/ rumble' = [rumble EXCEPT ![s] = InTime(rumble[s], late)]
      BY <2>2 DEF DispatchSide, Sends, WithoutStop
    <3>3. PICK q, g : q = InTime(rumble[s], late) /\ g = WithoutStop(q)
      OBVIOUS
    <3>4. q.edgeGen <= q.gen /\ q.missed <= q.gen /\ g.edgeGen <= g.gen /\ g.missed <= g.gen
      BY <1>1, <3>1, <3>3, GensKept DEF GensInOrder
    <3> QED BY <1>2, <3>1, <3>2, <3>3, <3>4
  <2> QED BY <1>5, <2>1, <2>2 DEF ServesSide
<1>6. CASE StopEnds
  <2>1. ASSUME NEW s \in RumbleSide
        PROVE  rumble'[s].edgeGen = rumble[s].edgeGen /\ rumble'[s].gen = rumble[s].gen
               /\ rumble'[s].missed = rumble[s].missed
    BY <1>1, <1>6 DEF StopEnds, SideType
  <2> QED BY <2>1 DEF GensInOrder
<1>7. CASE UNCHANGED rumble
  BY <1>7 DEF GensInOrder
<1> QED BY <1>3, <1>4, <1>5, <1>6, <1>7
        DEF PairRumbleNext, Posts, WorkerServes, WorkerRests, WorkerWakes, WorkerLeaves, CompletionServes,
            StopBegins, rumbleVars

\* PairRumbleTypeOK: neither a given-up edge nor a stop is newer than the last transition.
THEOREM PairTypeCorrect == PairRumbleSpec => []PairRumbleTypeOK
<1>1. PairRumbleInit => GensInOrder
  BY DEF PairRumbleInit, FreshSide, GensInOrder
<1>2. PairInv /\ GensInOrder => PairRumbleTypeOK
  BY DEF PairInv, PairTyped, SideType, WriteType, Counts, GensInOrder, PairRumbleTypeOK
<1> QED BY <1>1, <1>2, GensSteps, PairInvariant, PTL DEF PairRumbleSpec

\* PairRumblePlays: a side with nothing left to send for its last transition plays that
\* transition, one write at a time is in flight, and the worker never rests over work.
THEOREM PairPlays == PairRumbleSpec => []PairRumblePlays
<1>1. PairInv /\ PairRumbleTypeOK => PairRumblePlays
  <2> SUFFICES ASSUME PairInv, PairRumbleTypeOK PROVE PairRumblePlays
    OBVIOUS
  <2>1. ASSUME pairSession = "running", NEW s \in RumbleSide, Settled(s),
               rumble[s].missed < rumble[s].gen \/ rumble[s].gen = 0
        PROVE  /\ motor[s].gen = rumble[s].gen
               /\ rumble[s].payload = "zero" => motor[s].payload = "zero"
    <3>1. /\ rumble[s] \in SideType /\ SideOk(rumble[s], flight[s], motor[s])
          /\ ~rumble[s].edge /\ (rumble[s].active \/ ~(rumble[s].zeros > 0))
      BY <2>1 DEF PairInv, PairTyped, SidesOk, Settled, KindOf
    <3>2. rumble[s].gen \in Nat /\ StopSuccesses \in Nat /\ StopSuccesses > 0 /\ rumble[s].zeros \in Nat
      BY <3>1, PairRumbleAssumption DEF SideType, Counts
    <3> QED BY <2>1, <3>1, <3>2 DEF SideOk, FreshOk, EdgeOk, StopOk
  <2>2. Cardinality({s \in RumbleSide : InFlight(s)}) <= 1
    <3>1. CASE {s \in RumbleSide : InFlight(s)} = {}
      <4>1. Cardinality({s \in RumbleSide : InFlight(s)}) = 0
        BY <3>1, FS_EmptySet
      <4> QED BY <4>1
    <3>2. CASE {s \in RumbleSide : InFlight(s)} # {}
      <4>1. PICK s \in RumbleSide : {t \in RumbleSide : InFlight(t)} = {s}
        BY <3>2 DEF PairInv, OneWrite
      <4>2. Cardinality({s}) = 1
        BY FS_Singleton, Zenon
      <4> QED BY <4>1, <4>2
    <3> QED BY <3>1, <3>2
  <2> QED BY <2>1, <2>2 DEF PairRumblePlays, LastTransitionPlays, WorkerSeesWork, PairInv, WorkerAwake
<1> QED BY <1>1, PairInvariant, PairTypeCorrect, PTL

-----------------------------------------------------------------------------
(* The dispatcher of the bridge *)

PadRecord ==
  [known : BOOLEAN, payload : Payloads \cup {"none"}, dirty : BOOLEAN, stop : BOOLEAN, buzzed : BOOLEAN]

DispatchTyped ==
  /\ padSide \in [PadSide -> PadRecord] /\ hum \in [PadSide -> Payloads]
  /\ lastActive \in {"never", "recent", "past"}

\* It sleeps only over no work, whatever comes wakes it.
SleepsIdle == dispatcher = "asleep" /\ ~dispatchWake => ~HasWork

\* Before the first buzz nothing can make a controller hum.
NeverBuzzed ==
  lastActive = "never" =>
    \A s \in PadSide : hum[s] = "zero" /\ padSide[s].payload # "buzz" /\ ~padSide[s].buzzed

\* The safety net's zero comes once, after the timeout, and reaches both controllers that
\* are known by then unless the port refused it.
ZeroHeard ==
  zeroSent =>
    /\ lastActive = "past"
    /\ (\A s \in PadSide : padSide[s].known) /\ ~AnyDirty =>
         \A s \in PadSide : hum[s] = "buzz" => s \in unheard

DispatchInv == DispatchTyped /\ SleepsIdle /\ NeverBuzzed /\ ZeroHeard

LEMMA SubmitSideKeeps ==
  ASSUME DispatchInv, NEW s \in PadSide, NEW p \in Payloads, SubmitSide(s, p)
  PROVE  DispatchInv'
<1>1. PICK r : r = [padSide[s] EXCEPT !.known = TRUE, !.payload = p, !.dirty = TRUE, !.stop = (p = "zero"),
                                      !.buzzed = padSide[s].buzzed \/ p = "buzz"]
  OBVIOUS
<1>2. padSide[s] \in PadRecord /\ padSide \in [PadSide -> PadRecord] /\ hum \in [PadSide -> Payloads]
  BY DEF DispatchInv, DispatchTyped
<1>3. /\ r \in PadRecord /\ r.dirty /\ r.payload = p
      /\ p = "zero" => r.buzzed = padSide[s].buzzed
  <2>1. CASE p = "buzz"
    BY <1>1, <1>2, <2>1 DEF PadRecord, Payloads
  <2>2. CASE p = "zero"
    BY <1>1, <1>2, <2>2 DEF PadRecord, Payloads
  <2> QED BY <2>1, <2>2 DEF Payloads
<1>4. /\ padSide' = [padSide EXCEPT ![s] = r] /\ dispatchWake' = TRUE /\ UNCHANGED <<hum, unheard>>
      /\ p = "buzz" => lastActive' = "recent" /\ zeroSent' = FALSE
      /\ p = "zero" => UNCHANGED <<lastActive, zeroSent>>
  <2>1. padSide' = [padSide EXCEPT ![s] = r]
    BY <1>1 DEF SubmitSide
  <2>2. dispatchWake' = TRUE /\ UNCHANGED <<hum, unheard>>
    BY DEF SubmitSide
  <2>3. /\ p = "buzz" => lastActive' = "recent" /\ zeroSent' = FALSE
        /\ p = "zero" => UNCHANGED <<lastActive, zeroSent>>
    BY DEF SubmitSide
  <2> QED BY <2>1, <2>2, <2>3
<1>5. padSide' \in [PadSide -> PadRecord] /\ padSide'[s] = r /\ (\A t \in PadSide \ {s} : padSide'[t] = padSide[t])
  BY <1>2, <1>3, <1>4
<1>6. AnyDirty'
  BY <1>3, <1>5 DEF AnyDirty
<1>7. NeverBuzzed'
  BY <1>3, <1>4, <1>5 DEF DispatchInv, NeverBuzzed, Payloads
<1> QED BY <1>4, <1>5, <1>6, <1>7 DEF DispatchInv, DispatchTyped, SleepsIdle, ZeroHeard, Payloads

\* What a tick may leave each controller doing.
LEMMA TransmitsValues ==
  ASSUME DispatchInv, Transmits(Chosen)
  PROVE  /\ hum' \in [PadSide -> Payloads]
         /\ \A s \in PadSide : hum'[s] = hum[s] \/ \E t \in PadSide : hum'[s] = Chosen[t] /\ Chosen[t] # "none"
         /\ GloballyIdle /\ (\A s \in PadSide : padSide[s].known) =>
              \A s \in PadSide : hum'[s] = "zero" \/ s \in unheard'
<1> DEFINE some == {s \in PadSide : Chosen[s] # "none"}
<1>1. \A s \in PadSide : Chosen[s] \in Payloads \cup {"none"}
  BY DEF Chosen, Pick, DispatchInv, DispatchTyped, PadRecord, Payloads
<1>2. GloballyIdle => some = PadSide /\ \A s \in PadSide : Chosen[s] = "zero"
  BY DEF Chosen
<1>3. hum \in [PadSide -> Payloads]
  BY DEF DispatchInv, DispatchTyped
<1>4. ASSUME NEW R, Writes(Chosen, some \ R, R), GloballyIdle => R = PadSide \/ some # PadSide
      PROVE  /\ hum' \in [PadSide -> Payloads]
             /\ \A s \in PadSide : hum'[s] = hum[s] \/ \E t \in PadSide : hum'[s] = Chosen[t] /\ Chosen[t] # "none"
             /\ GloballyIdle => \A s \in PadSide : s \in unheard'
  BY <1>1, <1>2, <1>3, <1>4 DEF Writes
<1>5. CASE some # PadSide
  BY <1>4, <1>5 DEF Transmits
<1>6. CASE some = PadSide /\ \E s \in PadSide : ~padSide[s].known
  <2>1. UNCHANGED <<hum, unheard>>
    BY <1>6 DEF Transmits
  <2> QED BY <1>3, <1>6, <2>1
<1>7. CASE some = PadSide /\ ~ \E s \in PadSide : ~padSide[s].known
  <2>1. \/ Writes(Delivered(Chosen), PadSide, {})
        \/ Writes(Chosen, {}, PadSide)
        \/ \E R \in (SUBSET PadSide) \ {{}} : (GloballyIdle => R = PadSide) /\ Writes(Chosen, some \ R, R)
    BY <1>7 DEF Transmits
  <2>2. CASE Writes(Delivered(Chosen), PadSide, {})
    <3>1. \A s \in PadSide : \E t \in PadSide : Delivered(Chosen)[s] = Chosen[t]
      BY DispatcherAssumption DEF Delivered
    <3> QED BY <1>1, <1>2, <1>7, <2>2, <3>1 DEF Writes
  <2>3. CASE Writes(Chosen, {}, PadSide)
    BY <1>3, <2>3 DEF Writes
  <2>4. CASE \E R \in (SUBSET PadSide) \ {{}} : (GloballyIdle => R = PadSide) /\ Writes(Chosen, some \ R, R)
    BY <1>4, <2>4
  <2> QED BY <2>1, <2>2, <2>3, <2>4
<1> QED BY <1>5, <1>6, <1>7

LEMMA TickKeeps ==
  ASSUME DispatchInv, TickSends
  PROVE  DispatchInv'
<1>1. /\ dispatcher' = "check" /\ Transmits(Chosen) /\ UNCHANGED <<pairMode, lastActive, dispatchWake, portUp>>
      /\ zeroSent' = (zeroSent \/ GloballyIdle) /\ ~(GloballyIdle /\ zeroSent)
      /\ padSide' = [s \in PadSide |-> IF GloballyIdle THEN [padSide[s] EXCEPT !.stop = TRUE]
                                       ELSE [padSide[s] EXCEPT !.dirty = FALSE]]
  BY DEF TickSends
<1>2. padSide \in [PadSide -> PadRecord]
  BY DEF DispatchInv, DispatchTyped
<1>3. /\ padSide' \in [PadSide -> PadRecord]
      /\ \A s \in PadSide : /\ padSide'[s].known = padSide[s].known /\ padSide'[s].payload = padSide[s].payload
                            /\ padSide'[s].buzzed = padSide[s].buzzed
  BY <1>1, <1>2 DEF PadRecord
<1>4. /\ hum' \in [PadSide -> Payloads]
      /\ \A s \in PadSide : hum'[s] = hum[s] \/ \E t \in PadSide : hum'[s] = Chosen[t] /\ Chosen[t] # "none"
      /\ GloballyIdle /\ (\A s \in PadSide : padSide[s].known) =>
           \A s \in PadSide : hum'[s] = "zero" \/ s \in unheard'
  BY <1>1, TransmitsValues
<1>5. NeverBuzzed'
  <2>1. ASSUME lastActive = "never", NEW t \in PadSide, Chosen[t] # "none"
        PROVE  Chosen[t] = "zero"
    BY <1>2, <2>1 DEF DispatchInv, NeverBuzzed, Chosen, Pick, GloballyIdle, PadRecord, Payloads
  <2> QED BY <1>1, <1>3, <1>4, <2>1 DEF DispatchInv, NeverBuzzed
<1>6. ZeroHeard'
  <2>1. CASE GloballyIdle
    BY <1>1, <1>3, <1>4, <2>1 DEF ZeroHeard, GloballyIdle, AnyDirty
  <2>2. CASE ~GloballyIdle
    BY <1>1, <2>2 DEF DispatchInv, ZeroHeard, GloballyIdle
  <2> QED BY <2>1, <2>2
<1> QED BY <1>1, <1>3, <1>4, <1>5, <1>6 DEF DispatchInv, DispatchTyped, SleepsIdle

\* DispatchInv holds throughout.
LEMMA DispatchInvariant == DispatcherSpec => []DispatchInv
<1>1. DispatcherInit => DispatchInv
  BY DEF DispatcherInit, DispatchInv, DispatchTyped, PadRecord, Payloads, SleepsIdle, NeverBuzzed, ZeroHeard
<1>2. DispatchInv /\ [DispatcherNext]_dispatchVars => DispatchInv'
  <2>1. CASE DispatchInv /\ (LoopChecks \/ LoopWakes \/ TickIdle)
    BY <2>1 DEF LoopChecks, LoopWakes, TickIdle, DispatchInv, DispatchTyped, SleepsIdle, HasWork, AnyDirty,
       NeverBuzzed, ZeroHeard
  <2>2. CASE DispatchInv /\ (TimePasses \/ PortToggles)
    BY <2>2 DEF TimePasses, PortToggles, DispatchInv, DispatchTyped, SleepsIdle, HasWork, AnyDirty,
       NeverBuzzed, ZeroHeard
  <2>3. CASE DispatchInv /\ UNCHANGED dispatchVars
    BY <2>3 DEF dispatchVars, DispatchInv, DispatchTyped, SleepsIdle, HasWork, AnyDirty, NeverBuzzed, ZeroHeard
  <2> QED BY <2>1, <2>2, <2>3, SubmitSideKeeps, TickKeeps DEF DispatcherNext
<1> QED BY <1>1, <1>2, PTL DEF DispatcherSpec

\* What waits to be sent is a payload of a side that is known.
Sendables ==
  /\ unheard \subseteq PadSide /\ dispatcher \in {"off", "check", "asleep", "tick"}
  /\ \A s \in PadSide : padSide[s].dirty => padSide[s].known /\ padSide[s].payload \in Payloads

LEMMA SendablesSteps == DispatchInv /\ Sendables /\ [DispatcherNext]_dispatchVars => Sendables'
<1> SUFFICES ASSUME DispatchInv, Sendables, [DispatcherNext]_dispatchVars PROVE Sendables'
  OBVIOUS
<1>1. padSide \in [PadSide -> PadRecord]
  BY DEF DispatchInv, DispatchTyped
<1>2. ASSUME NEW s \in PadSide, NEW p \in Payloads, SubmitSide(s, p) PROVE Sendables'
  <2>1. PICK r : /\ r = [padSide[s] EXCEPT !.known = TRUE, !.payload = p, !.dirty = TRUE, !.stop = (p = "zero"),
                                           !.buzzed = padSide[s].buzzed \/ p = "buzz"]
                 /\ padSide' = [padSide EXCEPT ![s] = r]
    BY <1>2 DEF SubmitSide
  <2>2. r.known /\ r.payload = p
    BY <1>1, <2>1 DEF PadRecord
  <2>3. dispatcher' \in {dispatcher, "check"} /\ UNCHANGED unheard
    BY <1>2 DEF SubmitSide
  <2>4. \A t \in PadSide : padSide'[t] = IF t = s THEN r ELSE padSide[t]
    BY <1>1, <2>1
  <2> QED BY <2>2, <2>3, <2>4 DEF Sendables
<1>3. CASE TickSends
  <2>1. /\ dispatcher' = "check" /\ Transmits(Chosen)
        /\ padSide' = [s \in PadSide |-> IF GloballyIdle THEN [padSide[s] EXCEPT !.stop = TRUE]
                                         ELSE [padSide[s] EXCEPT !.dirty = FALSE]]
    BY <1>3 DEF TickSends
  <2>2. \A s \in PadSide : /\ padSide'[s].known = padSide[s].known /\ padSide'[s].payload = padSide[s].payload
                           /\ padSide'[s].dirty => padSide[s].dirty
    BY <1>1, <2>1 DEF PadRecord
  <2>3. unheard' \subseteq PadSide
    BY <2>1 DEF Transmits, Writes, Sendables
  <2> QED BY <2>1, <2>2, <2>3 DEF Sendables
<1>4. CASE LoopChecks \/ LoopWakes \/ TickIdle \/ TimePasses \/ PortToggles \/ UNCHANGED dispatchVars
  BY <1>4 DEF LoopChecks, LoopWakes, TickIdle, TimePasses, PortToggles, dispatchVars, Sendables
<1> QED BY <1>2, <1>3, <1>4 DEF DispatcherNext

\* DispatcherTypeOK: a tick has a payload for every side it must serve.
THEOREM DispatcherTypeCorrect == DispatcherSpec => []DispatcherTypeOK
<1>1. DispatcherInit => Sendables
  BY DEF DispatcherInit, Sendables
<1>2. DispatchInv /\ Sendables => DispatcherTypeOK
  BY DEF DispatchInv, DispatchTyped, Sendables, DispatcherTypeOK
<1> QED BY <1>1, <1>2, SendablesSteps, DispatchInvariant, PTL DEF DispatcherSpec

\* SilentWhenAsleep: a dispatcher at rest has ended every effect, but for a write the port
\* refused.
THEOREM DispatcherSilent == DispatcherSpec => []SilentWhenAsleep
<1>1. DispatchInv /\ DispatcherTypeOK => SilentWhenAsleep
  BY DEF DispatchInv, SleepsIdle, HasWork, NeverBuzzed, ZeroHeard, NothingHums, SilentWhenAsleep, DispatchTyped
<1> QED BY <1>1, DispatchInvariant, DispatcherTypeCorrect, PTL

-----------------------------------------------------------------------------

\* A set of numbers that is not empty has a smallest.
LEMMA SmallestExists ==
  ASSUME NEW S \in SUBSET Nat, S # {}
  PROVE  \E x \in S : \A y \in S : x <= y
<1>1. PICK x \in S : \A y \in S : ~(<<y, x>> \in OpToRel(<, Nat))
  BY WFMin, NatLessThanWellFounded, Zenon
<1>2. \A y \in S : x <= y
  <2> SUFFICES ASSUME NEW y \in S, y < x PROVE FALSE
    OBVIOUS
  <2>1. <<y, x>> \in OpToRel(<, Nat)
    BY DEF OpToRel
  <2> QED BY <2>1, <1>1
<1> QED BY <1>2

\* What buf.find gives: the first place, or 0 when there is none.
LEMMA FirstPlace ==
  ASSUME NEW at \in SUBSET (Nat \ {0})
  PROVE  /\ First(at) = 0 => at = {}
         /\ First(at) # 0 => First(at) \in at
         /\ \A j \in at : First(at) \in Nat \ {0} /\ First(at) <= j
         /\ First(at) \in Nat
<1>1. CASE at = {}
  BY <1>1 DEF First
<1>2. CASE at # {}
  <2>1. at \in SUBSET Nat
    OBVIOUS
  <2>2. \E x \in at : \A y \in at : x <= y
    BY <2>1, <1>2, SmallestExists, Zenon
  <2>3. First(at) = CHOOSE i \in at : \A j \in at : i <= j
    BY <1>2, Zenon DEF First
  <2>4. First(at) \in at /\ \A j \in at : First(at) <= j
    BY <2>2, <2>3, Zenon
  <2> QED BY <2>4, <1>2
<1> QED BY <1>1, <1>2

LEMMA NewlinePlace ==
  ASSUME NEW s \in Seq(Byte)
  PROVE  /\ NewlineAt(s) \in 0 .. Len(s)
         /\ NewlineAt(s) # 0 => s[NewlineAt(s)] = Newline
         /\ \A j \in 1 .. Len(s) : s[j] = Newline => NewlineAt(s) # 0 /\ NewlineAt(s) <= j
<1> DEFINE at == {i \in 1 .. Len(s) : s[i] = Newline}
<1>1. Len(s) \in Nat
  BY LenProperties, Zenon
<1>2. at \in SUBSET (Nat \ {0}) /\ at \subseteq 1 .. Len(s)
  BY <1>1
<1>3. NewlineAt(s) = First(at)
  BY Zenon DEF NewlineAt
<1>4. \A j \in 1 .. Len(s) : s[j] = Newline => j \in at
  OBVIOUS
<1>5. \A j \in at : s[j] = Newline
  OBVIOUS
<1> HIDE DEF at
<1>6. /\ First(at) = 0 => at = {}
      /\ First(at) # 0 => First(at) \in at
      /\ \A j \in at : First(at) \in Nat \ {0} /\ First(at) <= j
      /\ First(at) \in Nat
  BY <1>2, FirstPlace, Zenon
<1> QED BY <1>1, <1>2, <1>3, <1>4, <1>5, <1>6

LEMMA SyncPlace ==
  ASSUME NEW s \in Seq(Byte)
  PROVE  /\ SyncAt(s) \in 0 .. Len(s)
         /\ SyncAt(s) # 0 => SyncAt(s) < Len(s) /\ s[SyncAt(s)] = Sync1 /\ s[SyncAt(s) + 1] = Sync2
         /\ \A j \in 1 .. Len(s) : j < Len(s) /\ s[j] = Sync1 /\ s[j + 1] = Sync2
                                     => SyncAt(s) # 0 /\ SyncAt(s) <= j
<1> DEFINE at == {i \in 1 .. Len(s) : i < Len(s) /\ s[i] = Sync1 /\ s[i + 1] = Sync2}
<1>1. Len(s) \in Nat
  BY LenProperties, Zenon
<1>2. at \in SUBSET (Nat \ {0}) /\ at \subseteq 1 .. Len(s)
  BY <1>1
<1>3. SyncAt(s) = First(at)
  BY Zenon DEF SyncAt
<1>4. \A j \in 1 .. Len(s) : j < Len(s) /\ s[j] = Sync1 /\ s[j + 1] = Sync2 => j \in at
  OBVIOUS
<1>5. \A j \in at : j < Len(s) /\ s[j] = Sync1 /\ s[j + 1] = Sync2
  OBVIOUS
<1> HIDE DEF at
<1>6. /\ First(at) = 0 => at = {}
      /\ First(at) # 0 => First(at) \in at
      /\ \A j \in at : First(at) \in Nat \ {0} /\ First(at) <= j
      /\ First(at) \in Nat
  BY <1>2, FirstPlace, Zenon
<1> QED BY <1>1, <1>2, <1>3, <1>4, <1>5, <1>6

\* The reader's buffer at the beginning of a line.
LEMMA LineAhead ==
  ASSUME NEW s \in Seq(Byte), NEW p \in Seq(Byte), Text(p),
         \A j \in 1 .. Len(s) : j <= Len(p) + 1 => s[j] = Append(p, Newline)[j]
  PROVE  /\ Len(s) >= Len(p) + 1 => LineFirst(s) /\ NewlineAt(s) = Len(p) + 1
         /\ Len(s) < Len(p) + 1 => ~LineFirst(s) /\ SyncAt(s) = 0
<1>1. Len(s) \in Nat /\ Len(p) \in Nat
  BY LenProperties, Zenon
<1>2. /\ \A j \in 1 .. Len(s) : j <= Len(p) => s[j] = p[j] /\ s[j] # Newline
      /\ Len(p) + 1 \in 1 .. Len(s) => s[Len(p) + 1] = Newline
  <2>1. /\ \A i \in 1 .. Len(p) : Append(p, Newline)[i] = p[i]
        /\ Append(p, Newline)[Len(p) + 1] = Newline
    <3>1. Newline \in Byte
      BY DEF Newline, Byte
    <3> QED BY <3>1, AppendProperties
  <2> QED BY <2>1, <1>1 DEF Text
<1>3. \A j \in 1 .. Len(s) : j <= Len(p) /\ j < Len(s) => ~(s[j] = Sync1 /\ s[j + 1] = Sync2)
  <2> SUFFICES ASSUME NEW j \in 1 .. Len(s), j <= Len(p), j < Len(s), s[j] = Sync1, s[j + 1] = Sync2
               PROVE  FALSE
    OBVIOUS
  <2>1. CASE j < Len(p)
    <3>1. s[j] = p[j] /\ s[j + 1] = p[j + 1] /\ j \in 1 .. Len(p)
      BY <2>1, <1>1, <1>2
    <3> QED BY <3>1, <2>1 DEF Text
  <2>2. CASE j = Len(p)
    BY <2>2, <1>1, <1>2 DEF Sync2, Newline
  <2> QED BY <2>1, <2>2, <1>1
<1>4. /\ NewlineAt(s) \in 0 .. Len(s)
      /\ NewlineAt(s) # 0 => s[NewlineAt(s)] = Newline
      /\ \A j \in 1 .. Len(s) : s[j] = Newline => NewlineAt(s) # 0 /\ NewlineAt(s) <= j
  BY NewlinePlace, Zenon
<1>5. /\ SyncAt(s) \in 0 .. Len(s)
      /\ SyncAt(s) # 0 => SyncAt(s) < Len(s) /\ s[SyncAt(s)] = Sync1 /\ s[SyncAt(s) + 1] = Sync2
  BY SyncPlace, Zenon
<1>6. NewlineAt(s) = 0 \/ NewlineAt(s) > Len(p)
  BY <1>1, <1>2, <1>4
<1>7. SyncAt(s) = 0 \/ SyncAt(s) > Len(p)
  BY <1>1, <1>3, <1>5
<1>8. ASSUME Len(s) >= Len(p) + 1
      PROVE  LineFirst(s) /\ NewlineAt(s) = Len(p) + 1
  <2>1. NewlineAt(s) = Len(p) + 1
    <3>1. Len(p) + 1 \in 1 .. Len(s) /\ s[Len(p) + 1] = Newline
      BY <1>8, <1>1, <1>2
    <3>2. NewlineAt(s) # 0 /\ NewlineAt(s) <= Len(p) + 1
      BY <3>1, <1>4
    <3> QED BY <3>2, <1>1, <1>4, <1>6
  <2>2. SyncAt(s) # Len(p) + 1
    BY <2>1, <1>1, <1>4, <1>5 DEF Sync1, Newline
  <2> QED BY <2>1, <2>2, <1>1, <1>5, <1>7 DEF LineFirst
<1>9. ASSUME Len(s) < Len(p) + 1
      PROVE  ~LineFirst(s) /\ SyncAt(s) = 0
  BY <1>9, <1>1, <1>4, <1>5, <1>6, <1>7 DEF LineFirst
<1> QED BY <1>8, <1>9

\* The reader's buffer at the beginning of a frame that may have bytes of a line in front
\* of it.
LEMMA FrameAhead ==
  ASSUME NEW s \in Seq(Byte), NEW w \in Seq(Byte), NEW f \in Seq(Byte), Text(w),
         Len(f) >= 2, f[1] = Sync1, f[2] = Sync2,
         \A j \in 1 .. Len(s) : j <= Len(w) + Len(f) => s[j] = (w \o f)[j]
  PROVE  /\ ~LineFirst(s)
         /\ SyncAt(s) = IF Len(s) >= Len(w) + 2 THEN Len(w) + 1 ELSE 0
<1>1. Len(s) \in Nat /\ Len(w) \in Nat /\ Len(f) \in Nat
  BY LenProperties, Zenon
<1>2. /\ \A j \in 1 .. Len(s) : j <= Len(w) => s[j] = w[j] /\ s[j] # Newline
      /\ Len(w) + 1 \in 1 .. Len(s) => s[Len(w) + 1] = Sync1
      /\ Len(w) + 2 \in 1 .. Len(s) => s[Len(w) + 2] = Sync2
  <2>1. \A i \in 1 .. Len(w) + Len(f) : (w \o f)[i] = IF i <= Len(w) THEN w[i] ELSE f[i - Len(w)]
    BY ConcatProperties, Zenon
  <2>2. \A i \in 1 .. Len(w) : (w \o f)[i] = w[i]
    BY <2>1, <1>1
  <2>3. (w \o f)[Len(w) + 1] = f[1] /\ (w \o f)[Len(w) + 2] = f[2]
    <3>1. (w \o f)[Len(w) + 1] = f[Len(w) + 1 - Len(w)]
      BY <2>1, <1>1
    <3>2. (w \o f)[Len(w) + 2] = f[Len(w) + 2 - Len(w)]
      BY <2>1, <1>1
    <3> QED BY <3>1, <3>2, <1>1
  <2>4. \A j \in 1 .. Len(s) : j <= Len(w) => s[j] = w[j]
    BY <2>2, <1>1
  <2>5. \A j \in 1 .. Len(s) : j <= Len(w) => s[j] # Newline
    BY <2>4, <1>1 DEF Text
  <2>6. \A j \in 1 .. Len(s) : j = Len(w) + 1 \/ j = Len(w) + 2 => s[j] = (w \o f)[j]
    BY <1>1
  <2>7. /\ Len(w) + 1 \in 1 .. Len(s) => s[Len(w) + 1] = Sync1
        /\ Len(w) + 2 \in 1 .. Len(s) => s[Len(w) + 2] = Sync2
    BY <2>3, <2>6
  <2> QED BY <2>4, <2>5, <2>7
<1>3. \A j \in 1 .. Len(s) : j <= Len(w) /\ j < Len(s) => ~(s[j] = Sync1 /\ s[j + 1] = Sync2)
  <2> SUFFICES ASSUME NEW j \in 1 .. Len(s), j <= Len(w), j < Len(s), s[j] = Sync1, s[j + 1] = Sync2
               PROVE  FALSE
    OBVIOUS
  <2>1. CASE j < Len(w)
    <3>1. s[j] = w[j] /\ s[j + 1] = w[j + 1] /\ j \in 1 .. Len(w)
      BY <2>1, <1>1, <1>2
    <3> QED BY <3>1, <2>1 DEF Text
  <2>2. CASE j = Len(w)
    BY <2>2, <1>1, <1>2 DEF Sync1, Sync2
  <2> QED BY <2>1, <2>2, <1>1
<1>4. /\ NewlineAt(s) \in 0 .. Len(s)
      /\ NewlineAt(s) # 0 => s[NewlineAt(s)] = Newline
  BY NewlinePlace, Zenon
<1>5. /\ SyncAt(s) \in 0 .. Len(s)
      /\ SyncAt(s) # 0 => SyncAt(s) < Len(s) /\ s[SyncAt(s)] = Sync1 /\ s[SyncAt(s) + 1] = Sync2
      /\ \A j \in 1 .. Len(s) : j < Len(s) /\ s[j] = Sync1 /\ s[j + 1] = Sync2
                                  => SyncAt(s) # 0 /\ SyncAt(s) <= j
  BY SyncPlace, Zenon
<1>6. NewlineAt(s) = 0 \/ NewlineAt(s) > Len(w) + 2
  BY <1>1, <1>2, <1>4 DEF Newline, Sync1, Sync2
<1>7. SyncAt(s) = 0 \/ SyncAt(s) > Len(w)
  BY <1>1, <1>3, <1>5
<1>8. CASE Len(s) >= Len(w) + 2
  <2>1. SyncAt(s) # 0 /\ SyncAt(s) <= Len(w) + 1
    <3>1. /\ Len(w) + 1 \in 1 .. Len(s) /\ Len(w) + 1 < Len(s) /\ s[Len(w) + 1] = Sync1
          /\ s[(Len(w) + 1) + 1] = Sync2
      BY <1>8, <1>1, <1>2
    <3> QED BY <3>1, <1>5
  <2> QED BY <2>1, <1>1, <1>4, <1>5, <1>6, <1>7, <1>8 DEF LineFirst
<1>9. CASE Len(s) < Len(w) + 2
  BY <1>9, <1>1, <1>4, <1>5, <1>6, <1>7 DEF LineFirst
<1> QED BY <1>1, <1>8, <1>9

\* The bytes of a frame, of each kind.
LEMMA HeadBytes ==
  ASSUME NEW c \in Seq(Byte), NEW p \in Seq(Byte)
  PROVE  /\ c \o p \in Seq(Byte) /\ Len(c \o p) = Len(c) + Len(p)
         /\ \A i \in 1 .. Len(c) : (c \o p)[i] = c[i]
         /\ \A i \in 1 .. Len(p) : (c \o p)[Len(c) + i] = p[i]
<1>1. Len(c) \in Nat /\ Len(p) \in Nat
  BY LenProperties, Zenon
<1>2. /\ c \o p \in Seq(Byte) /\ Len(c \o p) = Len(c) + Len(p)
      /\ \A i \in 1 .. Len(c) + Len(p) : (c \o p)[i] = IF i <= Len(c) THEN c[i] ELSE p[i - Len(c)]
  BY ConcatProperties, Zenon
<1>3. \A i \in 1 .. Len(p) : (c \o p)[Len(c) + i] = p[Len(c) + i - Len(c)]
  BY <1>1, <1>2
<1>4. \A i \in 1 .. Len(c) : (c \o p)[i] = c[i]
  BY <1>1, <1>2
<1>5. \A i \in 1 .. Len(p) : (c \o p)[Len(c) + i] = p[i]
  BY <1>1, <1>3
<1> QED BY <1>2, <1>4, <1>5, Zenon

\* The second byte of the header says how the data are to be read.
Header(m) ==
  CASE m.kind = "ack" -> <<Sync1, Sync2, Len(m.payload) + 1, 128 + m.channel + 1>>
    [] m.kind = "input" -> <<Sync1, Sync2, Len(m.payload) + 1, m.channel + 1>>
    [] m.kind = "notify" -> <<Sync1, Sync2, Len(m.payload) + 3, 64 + m.channel + 1>>
    [] m.kind = "legacy" -> <<Sync1, Sync2, Len(m.payload), 0>>

LEMMA MessageParts ==
  ASSUME NEW m, Sendable(m)
  PROVE  /\ m.kind \in {"line", "ack", "input", "notify", "legacy"}
         /\ m.channel \in 0 .. Channels - 1
         /\ m.handle \in Seq(Byte) /\ m.payload \in Seq(Byte) /\ m.noise \in Seq(Byte)
         /\ Len(m.handle) = IF m.kind = "notify" THEN 2 ELSE 0
         /\ m.kind \in {"line", "legacy"} => m.channel = 0
         /\ m.kind = "line" => m.noise = <<>> /\ Text(m.payload)
         /\ m.kind # "line" => Text(m.noise) /\ Len(m.payload) \in 1 .. ReportSize
BY DEF Sendable

LEMMA FrameBytes ==
  ASSUME NEW m, Sendable(m), m.kind # "line"
  PROVE  /\ FrameOf(m) = (Header(m) \o m.handle) \o m.payload
         /\ FrameOf(m) \in Seq(Byte) /\ m.handle \in Seq(Byte) /\ m.payload \in Seq(Byte)
         /\ Len(FrameOf(m)) = 4 + Len(m.handle) + Len(m.payload)
         /\ \A i \in 1 .. 4 : FrameOf(m)[i] = Header(m)[i]
         /\ \A i \in 1 .. Len(m.handle) : FrameOf(m)[4 + i] = m.handle[i]
         /\ \A i \in 1 .. Len(m.payload) : FrameOf(m)[4 + Len(m.handle) + i] = m.payload[i]
<1> DEFINE h == Header(m)  d == m.handle  p == m.payload
<1>1. /\ m.kind \in {"ack", "input", "notify", "legacy"} /\ m.channel \in 0 .. Channels - 1
      /\ d \in Seq(Byte) /\ p \in Seq(Byte)
      /\ Len(d) = (IF m.kind = "notify" THEN 2 ELSE 0)
      /\ Len(p) \in 1 .. ReportSize
  BY MessageParts
<1>2. h \in Seq(Byte) /\ Len(h) = 4
  <2>1. Channels \in 1 .. 62 /\ ReportSize \in 1 .. 252
    BY FramingAssumption
  <2>2. \A a, b, x, y \in Byte : <<a, b, x, y>> \in Seq(Byte) /\ Len(<<a, b, x, y>>) = 4
    OBVIOUS
  <2>3. /\ Sync1 \in Byte /\ Sync2 \in Byte /\ 0 \in Byte
        /\ Len(p) \in Byte /\ Len(p) + 1 \in Byte /\ Len(p) + 3 \in Byte
        /\ m.channel + 1 \in Byte /\ 64 + m.channel + 1 \in Byte /\ 128 + m.channel + 1 \in Byte
    <3>1. Sync1 \in Byte /\ Sync2 \in Byte /\ 0 \in Byte
      BY DEF Sync1, Sync2, Byte
    <3>2. \A n \in 1 .. ReportSize : n \in Byte /\ n + 1 \in Byte /\ n + 3 \in Byte
      BY <2>1 DEF Byte
    <3>3. \A n \in 0 .. Channels - 1 : n + 1 \in Byte /\ 64 + n + 1 \in Byte /\ 128 + n + 1 \in Byte
      BY <2>1 DEF Byte
    <3> QED BY <1>1, <3>1, <3>2, <3>3
  <2>4. CASE m.kind = "ack"
    BY <2>2, <2>3, <2>4 DEF Header
  <2>5. CASE m.kind = "input"
    BY <2>2, <2>3, <2>5 DEF Header
  <2>6. CASE m.kind = "notify"
    BY <2>2, <2>3, <2>6 DEF Header
  <2>7. CASE m.kind = "legacy"
    BY <2>2, <2>3, <2>7 DEF Header
  <2> QED BY <1>1, <2>4, <2>5, <2>6, <2>7
<1>3. FrameOf(m) = (h \o d) \o p
  <2>1. CASE m.kind = "notify"
    BY <2>1 DEF FrameOf, Header
  <2>2. CASE m.kind # "notify"
    <3>1. d = <<>>
      BY <1>1, <2>2, EmptySeq
    <3>2. h \o <<>> = h
      BY <1>2, ConcatEmptySeq, Zenon
    <3>3. h \o d = h
      BY <3>1, <3>2
    <3>4. FrameOf(m) = h \o p
      BY <1>1, <2>2 DEF FrameOf, Header
    <3> QED BY <3>3, <3>4
  <2> QED BY <2>1, <2>2
<1> HIDE DEF h, d, p
<1>4. /\ h \o d \in Seq(Byte) /\ Len(h \o d) = 4 + Len(d)
      /\ \A i \in 1 .. 4 : (h \o d)[i] = h[i]
      /\ \A i \in 1 .. Len(d) : (h \o d)[4 + i] = d[i]
  <2>1. /\ h \o d \in Seq(Byte) /\ Len(h \o d) = Len(h) + Len(d)
        /\ \A i \in 1 .. Len(h) : (h \o d)[i] = h[i]
        /\ \A i \in 1 .. Len(d) : (h \o d)[Len(h) + i] = d[i]
    BY <1>1, <1>2, HeadBytes, Zenon
  <2> QED BY <2>1, <1>2, Zenon
<1> DEFINE g == h \o d
<1>5. /\ g \in Seq(Byte) /\ Len(g) = 4 + Len(d)
      /\ \A i \in 1 .. 4 : g[i] = h[i]
      /\ \A i \in 1 .. Len(d) : g[4 + i] = d[i]
  BY <1>4
<1>6. FrameOf(m) = g \o p
  BY <1>3
<1> HIDE DEF g
<1>7. /\ g \o p \in Seq(Byte) /\ Len(g \o p) = Len(g) + Len(p)
      /\ \A i \in 1 .. Len(g) : (g \o p)[i] = g[i]
      /\ \A i \in 1 .. Len(p) : (g \o p)[Len(g) + i] = p[i]
  BY <1>1, <1>5, HeadBytes, Zenon
<1>8. Len(d) \in Nat
  BY <1>1, LenProperties
<1>9. /\ \A i \in 1 .. 4 : (g \o p)[i] = h[i]
      /\ \A i \in 1 .. Len(d) : (g \o p)[4 + i] = d[i]
  <2>1. \A i \in 1 .. 4 : i \in 1 .. Len(g)
    BY <1>5, <1>8
  <2>2. \A i \in 1 .. Len(d) : 4 + i \in 1 .. Len(g)
    BY <1>5, <1>8
  <2> QED BY <1>5, <1>7, <2>1, <2>2, Zenon
<1>10. \A i \in 1 .. Len(p) : (g \o p)[4 + Len(d) + i] = p[i]
  BY <1>5, <1>7
<1>11. Len(g \o p) = 4 + Len(d) + Len(p)
  BY <1>5, <1>7
<1> QED BY <1>1, <1>3, <1>6, <1>7, <1>9, <1>10, <1>11 DEF h, d, p

\* The bytes of a part of a sequence.
LEMMA PartOf ==
  ASSUME NEW s \in Seq(Byte), NEW a \in Nat \ {0}, NEW b \in Nat, b <= Len(s), a <= b + 1
  PROVE  /\ SubSeq(s, a, b) \in Seq(Byte)
         /\ Len(SubSeq(s, a, b)) = b - a + 1
         /\ \A i \in 1 .. b - a + 1 : SubSeq(s, a, b)[i] = s[a + i - 1]
<1>1. Len(s) \in Nat
  BY LenProperties, Zenon
<1>2. \A i \in a .. b : s[i] \in Byte
  BY <1>1, ElementOfSeq
<1>3. a \in Int /\ b \in Int
  OBVIOUS
<1>4. /\ SubSeq(s, a, b) \in Seq(Byte)
      /\ Len(SubSeq(s, a, b)) = (IF a <= b THEN b - a + 1 ELSE 0)
      /\ \A i \in 1 .. b - a + 1 : SubSeq(s, a, b)[i] = s[a + i - 1]
  BY <1>2, <1>3, SubSeqProperties
<1>5. (IF a <= b THEN b - a + 1 ELSE 0) = b - a + 1
  OBVIOUS
<1> QED BY <1>4, <1>5, Zenon

\* The codes of a channel.
LEMMA Codes ==
  \A x \in 0 .. 61 : /\ (x + 1) % 128 = x + 1 /\ x + 1 < 64
                     /\ (64 + x + 1) % 64 = x + 1 /\ 64 + x + 1 < 128 /\ 64 + x + 1 >= 64
                     /\ (128 + x + 1) % 128 = x + 1
OBVIOUS

\* A piece of a sequence, by its elements.
LEMMA PieceOf ==
  ASSUME NEW s \in Seq(Byte), NEW t \in Seq(Byte), NEW k \in Nat, k + Len(t) <= Len(s),
         \A i \in 1 .. Len(t) : s[k + i] = t[i]
  PROVE  SubSeq(s, k + 1, k + Len(t)) = t
<1> DEFINE r == SubSeq(s, k + 1, k + Len(t))
<1>1. Len(s) \in Nat /\ Len(t) \in Nat
  BY LenProperties, Zenon
<1>3. k + 1 \in Nat \ {0} /\ k + Len(t) \in Nat /\ k + 1 <= k + Len(t) + 1
  BY <1>1
<1>4. /\ r \in Seq(Byte)
      /\ Len(r) = k + Len(t) - (k + 1) + 1
      /\ \A i \in 1 .. k + Len(t) - (k + 1) + 1 : r[i] = s[k + 1 + i - 1]
  <2>1. k + Len(t) <= Len(s)
    OBVIOUS
  <2>2. \A a \in Nat \ {0}, b \in Nat : b <= Len(s) /\ a <= b + 1 =>
          /\ SubSeq(s, a, b) \in Seq(Byte) /\ Len(SubSeq(s, a, b)) = b - a + 1
          /\ \A i \in 1 .. b - a + 1 : SubSeq(s, a, b)[i] = s[a + i - 1]
    BY PartOf, Zenon
  <2> QED BY <1>3, <2>1, <2>2
<1> HIDE DEF r
<1>5. Len(r) = Len(t)
  BY <1>1, <1>4
<1>6. \A i \in 1 .. Len(r) : r[i] = t[i]
  <2> SUFFICES ASSUME NEW i \in 1 .. Len(r) PROVE r[i] = t[i]
    OBVIOUS
  <2>1. i \in 1 .. k + Len(t) - (k + 1) + 1 /\ k + 1 + i - 1 = k + i /\ i \in 1 .. Len(t)
    BY <1>1, <1>5
  <2> QED BY <2>1, <1>4
<1>7. r = t
  BY <1>4, <1>5, <1>6, SeqEqual, Zenon
<1> QED BY <1>7 DEF r

\* What the reader makes of a frame that begins at the front of its buffer.
LEMMA FrameRead ==
  ASSUME NEW m, Sendable(m), m.kind # "line", NEW s \in Seq(Byte),
         \A j \in 1 .. Len(s) : j <= Len(FrameOf(m)) => s[j] = FrameOf(m)[j]
  PROVE  /\ FrameComplete(s) <=> Len(s) >= Len(FrameOf(m))
         /\ Len(s) >= Len(FrameOf(m)) =>
              /\ FrameSize(s) = Len(FrameOf(m))
              /\ ~Dropped(FrameData(s)) /\ Decoded(FrameData(s)) = Meaning(m)
<1> DEFINE f == FrameOf(m)  n == Len(m.payload)  c == m.channel  h == Len(m.handle)
<1>1. /\ m.kind \in {"ack", "input", "notify", "legacy"} /\ c \in 0 .. Channels - 1
      /\ h = (IF m.kind = "notify" THEN 2 ELSE 0) /\ n \in 1 .. ReportSize
      /\ m.kind = "legacy" => c = 0
      /\ Channels \in 1 .. 62 /\ ReportSize \in 1 .. 252 /\ Len(s) \in Nat
  <2>1. Len(s) \in Nat
    BY LenProperties, Zenon
  <2> QED BY <2>1, MessageParts, FramingAssumption
<1>2. /\ f \in Seq(Byte) /\ m.handle \in Seq(Byte) /\ m.payload \in Seq(Byte)
      /\ Len(f) = 4 + h + n
      /\ \A i \in 1 .. 4 : f[i] = Header(m)[i]
      /\ \A i \in 1 .. h : f[4 + i] = m.handle[i]
      /\ \A i \in 1 .. n : f[4 + h + i] = m.payload[i]
  BY FrameBytes, Zenon
<1>3. /\ f[1] = Sync1 /\ f[2] = Sync2
      /\ f[3] = IF m.kind = "legacy" THEN n ELSE n + 1 + h
      /\ f[4] = CASE m.kind = "ack" -> 128 + c + 1 [] m.kind = "input" -> c + 1
                  [] m.kind = "notify" -> 64 + c + 1 [] m.kind = "legacy" -> 0
  <2>1. f[1] = Header(m)[1] /\ f[2] = Header(m)[2] /\ f[3] = Header(m)[3] /\ f[4] = Header(m)[4]
    <3>1. 1 \in 1 .. 4 /\ 2 \in 1 .. 4 /\ 3 \in 1 .. 4 /\ 4 \in 1 .. 4
      OBVIOUS
    <3> QED BY <3>1, <1>2, Zenon
  <2> HIDE DEF f, n, c, h
  <2>2. \A a, b, x, y : /\ <<a, b, x, y>>[1] = a /\ <<a, b, x, y>>[2] = b
                       /\ <<a, b, x, y>>[3] = x /\ <<a, b, x, y>>[4] = y
    OBVIOUS
  <2>3. CASE m.kind = "ack"
    <3>1. Header(m) = <<Sync1, Sync2, n + 1, 128 + c + 1>>
      BY <2>3 DEF Header, n, c
    <3> QED BY <3>1, <2>1, <2>2, <2>3, <1>1
  <2>4. CASE m.kind = "input"
    <3>1. Header(m) = <<Sync1, Sync2, n + 1, c + 1>>
      BY <2>4 DEF Header, n, c
    <3> QED BY <3>1, <2>1, <2>2, <2>4, <1>1
  <2>5. CASE m.kind = "notify"
    <3>1. Header(m) = <<Sync1, Sync2, n + 3, 64 + c + 1>>
      BY <2>5 DEF Header, n, c
    <3> QED BY <3>1, <2>1, <2>2, <2>5, <1>1
  <2>6. CASE m.kind = "legacy"
    <3>1. Header(m) = <<Sync1, Sync2, n, 0>>
      BY <2>6 DEF Header, n
    <3> QED BY <3>1, <2>1, <2>2, <2>6
  <2> QED BY <1>1, <2>3, <2>4, <2>5, <2>6
<1>4. SyncAt(s) = IF Len(s) >= 2 THEN 1 ELSE 0
  <2> HIDE DEF f, n, c, h
  <2>0. <<>> \o f = f
    BY <1>2, ConcatEmptySeq, Zenon
  <2>1. <<>> \in Seq(Byte) /\ Len(<<>>) = 0 /\ Text(<<>>) /\ <<>> \o f = f
    BY <2>0 DEF Text
  <2>2. Len(f) >= 2 /\ f[1] = Sync1 /\ f[2] = Sync2
    BY <1>1, <1>2, <1>3
  <2>3. \A j \in 1 .. Len(s) : j <= Len(<<>>) + Len(f) => s[j] = (<<>> \o f)[j]
    BY <2>1 DEF f
  <2>4. SyncAt(s) = IF Len(s) >= Len(<<>>) + 2 THEN Len(<<>>) + 1 ELSE 0
    BY <2>1, <2>2, <2>3, <1>2, FrameAhead, Zenon
  <2> QED BY <2>1, <2>4
<1>5. \A j \in 1 .. Len(s) : j <= Len(f) => s[j] = f[j]
  OBVIOUS
<1> HIDE DEF f, n, c, h
<1>6. ASSUME Len(s) >= 4
      PROVE  FrameSize(s) = Len(f) /\ (Len(s) >= 4 /\ ~Current(s) /\ Legacy(s) <=> m.kind = "legacy")
  <2>1. s[3] = f[3] /\ s[4] = f[4]
    BY <1>6, <1>1, <1>2, <1>5
  <2>2. CASE m.kind = "ack"
    <3>1. s[3] = n + 1 /\ s[4] = 128 + c + 1
      BY <2>1, <2>2, <1>3, <1>1
    <3>2. s[4] % 128 = c + 1
      <4>1. c \in 0 .. 61
        BY <1>1
      <4> QED BY <3>1, <4>1, Codes, Zenon
    <3> QED BY <3>1, <3>2, <2>2, <1>1, <1>2 DEF Current, Legacy, FrameSize
  <2>3. CASE m.kind = "input"
    <3>1. s[3] = n + 1 /\ s[4] = c + 1
      BY <2>1, <2>3, <1>3, <1>1
    <3>2. s[4] % 128 = c + 1
      <4>1. c \in 0 .. 61
        BY <1>1
      <4> QED BY <3>1, <4>1, Codes, Zenon
    <3> QED BY <3>1, <3>2, <2>3, <1>1, <1>2 DEF Current, Legacy, FrameSize
  <2>4. CASE m.kind = "notify"
    <3>1. s[3] = n + 3 /\ s[4] = 64 + c + 1
      BY <2>1, <2>4, <1>3, <1>1
    <3>2. ~Legacy(s)
      BY <3>1, <1>1 DEF Legacy
    <3> QED BY <3>1, <3>2, <2>4, <1>1, <1>2 DEF FrameSize
  <2>5. CASE m.kind = "legacy"
    <3>1. s[3] = n /\ s[4] = 0
      BY <2>1, <2>5, <1>3, <1>1
    <3>2. s[4] % 128 = 0
      BY <3>1
    <3> QED BY <3>1, <3>2, <2>5, <1>6, <1>1, <1>2 DEF Current, Legacy, FrameSize
  <2> QED BY <1>1, <2>2, <2>3, <2>4, <2>5
<1>7. FrameComplete(s) <=> Len(s) >= Len(f)
  <2>1. CASE Len(s) >= 4
    BY <2>1, <1>1, <1>4, <1>6 DEF FrameComplete
  <2>2. CASE Len(s) = 3
    <3>1. s[3] >= 1 /\ s[3] \in Nat
      <4>1. s[3] = f[3]
        BY <2>2, <1>1, <1>2, <1>5
      <4> QED BY <4>1, <1>1, <1>3
    <3>2. FrameSize(s) = 3 + s[3]
      BY <2>2 DEF FrameSize
    <3> QED BY <3>1, <3>2, <2>2, <1>1, <1>2 DEF FrameComplete
  <2>3. CASE Len(s) < 3
    BY <2>3, <1>1, <1>2 DEF FrameComplete
  <2>4. Len(s) >= 4 \/ Len(s) = 3 \/ Len(s) < 3
    <3>1. \A x \in Nat : x >= 4 \/ x = 3 \/ x < 3
      OBVIOUS
    <3> QED BY <3>1, <1>1, Zenon
  <2> QED BY <2>1, <2>2, <2>3, <2>4, Zenon
<1>8. ASSUME Len(s) >= Len(f)
      PROVE  /\ FrameSize(s) = Len(f)
             /\ ~Dropped(FrameData(s)) /\ Decoded(FrameData(s)) = Meaning(m)
  <2> DEFINE d == FrameData(s)
  <2>1. Len(s) >= 4 /\ Len(f) = 4 + h + n /\ h \in Nat /\ n \in 1 .. ReportSize
    BY <1>8, <1>1, <1>2
  <2>2. FrameSize(s) = Len(f) /\ (~Current(s) /\ Legacy(s) <=> m.kind = "legacy")
    BY <2>1, <1>6
  <2>3. \A j \in 1 .. Len(f) : s[j] = f[j] /\ j \in 1 .. Len(s)
    BY <1>8, <1>1, <1>2, <1>5
  <2>4. /\ d \in Seq(Byte) /\ Len(d) = 1 + h + n
        /\ d[1] = IF m.kind = "legacy" THEN 1 ELSE f[4]
        /\ \A i \in 1 .. h + n : d[1 + i] = f[4 + i]
    <3>1. CASE m.kind = "legacy"
      <4> DEFINE r == SubSeq(s, 5, Len(f))
      <4>1. h = 0 /\ s[4] = 0
        BY <3>1, <1>1, <1>3, <2>1, <2>3
      <4>2. d = <<1>> \o r
        BY <3>1, <2>1, <2>2, <4>1 DEF FrameData
      <4>3. /\ r \in Seq(Byte) /\ Len(r) = n /\ \A i \in 1 .. n : r[i] = s[4 + i]
        <5>2. Len(f) \in Nat /\ 5 \in Nat \ {0} /\ Len(f) <= Len(s) /\ 5 <= Len(f) + 1
          BY <2>1, <4>1, <1>8, <1>1
        <5>3. /\ r \in Seq(Byte) /\ Len(r) = Len(f) - 5 + 1
              /\ \A i \in 1 .. Len(f) - 5 + 1 : r[i] = s[5 + i - 1]
          BY <5>2, PartOf, Zenon
        <5> HIDE DEF r
        <5>4. Len(r) = n
          BY <5>3, <4>1, <2>1
        <5>5. \A i \in 1 .. n : r[i] = s[4 + i]
          BY <5>3, <4>1, <2>1
        <5> QED BY <5>3, <5>4, <5>5
      <4>4. <<1>> \in Seq(Byte) /\ Len(<<1>>) = 1 /\ <<1>>[1] = 1 /\ 1 \in 1 .. 1
        BY DEF Byte
      <4> HIDE DEF r
      <4>5. /\ <<1>> \o r \in Seq(Byte) /\ Len(<<1>> \o r) = Len(<<1>>) + Len(r)
            /\ \A i \in 1 .. Len(<<1>>) : (<<1>> \o r)[i] = <<1>>[i]
            /\ \A i \in 1 .. Len(r) : (<<1>> \o r)[Len(<<1>>) + i] = r[i]
        BY <4>3, <4>4, HeadBytes, Zenon
      <4>6. d \in Seq(Byte) /\ Len(d) = 1 + n /\ d[1] = 1 /\ \A i \in 1 .. n : d[1 + i] = r[i]
        BY <4>2, <4>3, <4>4, <4>5, Zenon
      <4> HIDE DEF d
      <4>7. \A i \in 1 .. n : d[1 + i] = f[4 + i]
        <5> SUFFICES ASSUME NEW i \in 1 .. n PROVE d[1 + i] = f[4 + i]
          OBVIOUS
        <5>1. 4 + i \in 1 .. Len(f)
          BY <4>1, <2>1
        <5>2. d[1 + i] = r[i] /\ r[i] = s[4 + i] /\ s[4 + i] = f[4 + i]
          BY <5>1, <4>3, <4>6, <2>3, Zenon
        <5> QED BY <5>2
      <4> QED BY <4>6, <4>7, <4>1, <3>1, <2>1
    <3>2. CASE m.kind # "legacy"
      <4>1. d = SubSeq(s, 4, Len(f))
        BY <3>2, <2>1, <2>2 DEF FrameData
      <4>3. Len(f) \in Nat /\ 4 \in Nat \ {0} /\ Len(f) <= Len(s) /\ 4 <= Len(f) + 1
        BY <2>1, <1>8, <1>1
      <4>4. /\ SubSeq(s, 4, Len(f)) \in Seq(Byte) /\ Len(SubSeq(s, 4, Len(f))) = Len(f) - 4 + 1
            /\ \A i \in 1 .. Len(f) - 4 + 1 : SubSeq(s, 4, Len(f))[i] = s[4 + i - 1]
        BY <4>3, PartOf, Zenon
      <4> HIDE DEF d
      <4>9. /\ d \in Seq(Byte) /\ Len(d) = Len(f) - 4 + 1
            /\ \A i \in 1 .. Len(f) - 4 + 1 : d[i] = s[4 + i - 1]
        BY <4>1, <4>4, Zenon
      <4>5. Len(d) = 1 + h + n
        BY <4>9, <2>1
      <4>6. \A i \in 0 .. h + n : d[1 + i] = f[4 + i]
        <5> SUFFICES ASSUME NEW i \in 0 .. h + n PROVE d[1 + i] = f[4 + i]
          OBVIOUS
        <5>1. 1 + i \in 1 .. Len(f) - 4 + 1 /\ 4 + (1 + i) - 1 = 4 + i /\ 4 + i \in 1 .. Len(f)
          BY <2>1
        <5>2. d[1 + i] = s[4 + (1 + i) - 1]
          BY <5>1, <4>9
        <5>3. s[4 + i] = f[4 + i]
          BY <5>1, <2>3
        <5> QED BY <5>1, <5>2, <5>3
      <4>7. d[1] = f[4] /\ \A i \in 1 .. h + n : d[1 + i] = f[4 + i]
        BY <4>6, <2>1
      <4> QED BY <4>9, <4>5, <4>7, <3>2
    <3> QED BY <3>1, <3>2
  <2> HIDE DEF d
  <2>5. /\ \A i \in 1 .. h : d[1 + i] = m.handle[i]
        /\ \A i \in 1 .. n : d[1 + h + i] = m.payload[i]
    <3>1. \A i \in 1 .. h : d[1 + i] = m.handle[i]
      BY <2>1, <2>4, <1>2
    <3>2. ASSUME NEW i \in 1 .. n
          PROVE  d[1 + h + i] = m.payload[i]
      <4>1. h + i \in 1 .. h + n /\ 1 + (h + i) = 1 + h + i /\ 4 + (h + i) = 4 + h + i
        BY <2>1
      <4> QED BY <4>1, <2>4, <1>2
    <3> QED BY <3>1, <3>2
  <2>6. SubSeq(d, 2 + h, Len(d)) = m.payload
    <3>1. Len(m.payload) = n /\ 1 + h \in Nat /\ (1 + h) + n = Len(d) /\ (1 + h) + 1 = 2 + h
      BY <2>1, <2>4 DEF n
    <3>3. (1 + h) + Len(m.payload) <= Len(d) /\ (1 + h) + Len(m.payload) = Len(d)
      BY <3>1, <2>1
    <3>4. \A i \in 1 .. Len(m.payload) : d[(1 + h) + i] = m.payload[i]
      BY <3>1, <2>5, Zenon
    <3>2. SubSeq(d, (1 + h) + 1, (1 + h) + Len(m.payload)) = m.payload
      BY <3>1, <3>3, <3>4, <2>4, <1>2, PieceOf, Zenon
    <3> QED BY <3>1, <3>2, <3>3, Zenon
  <2>7. m.kind = "notify" => SubSeq(d, 2, 3) = m.handle
    <3> SUFFICES ASSUME m.kind = "notify" PROVE SubSeq(d, 2, 3) = m.handle
      OBVIOUS
    <3>1. Len(m.handle) = 2 /\ h = 2 /\ 1 + Len(m.handle) <= Len(d)
      BY <1>1, <2>1, <2>4 DEF h
    <3>2. SubSeq(d, 1 + 1, 1 + Len(m.handle)) = m.handle
      BY <3>1, <2>4, <2>5, <1>2, PieceOf
    <3> QED BY <3>1, <3>2
  <2>8. m.kind # "notify" => h = 0 /\ m.handle = <<>>
    BY <1>1, <1>2, EmptySeq DEF h
  <2>9. d # <<>>
    BY <2>1, <2>4
  <2>10. ~Dropped(d) /\ Decoded(d) = Meaning(m)
    <3>1. CASE m.kind = "ack"
      <4>1. d[1] = 128 + c + 1 /\ d[1] % 128 = c + 1
        <5>1. d[1] = f[4]
          BY <3>1, <2>4, Zenon
        <5>2. d[1] = 128 + c + 1
          BY <5>1, <3>1, <1>3
        <5>3. c \in 0 .. 61
          BY <1>1
        <5> QED BY <5>2, <5>3, Codes, Zenon
      <4>2. Ack(d) /\ ~Routed(d) /\ ChannelOf(d) = c + 1 /\ ChannelOf(d) \in 1 .. Channels
        BY <4>1, <1>1 DEF Ack, Routed, ChannelOf
      <4>3. Decoded(d) = [kind |-> "ack", channel |-> (c + 1) - 1, handle |-> <<>>, payload |-> SubSeq(d, 2, Len(d))]
        BY <4>2 DEF Decoded
      <4>4. Decoded(d) = [kind |-> "ack", channel |-> c, handle |-> m.handle, payload |-> m.payload]
        <5>1. (c + 1) - 1 = c /\ 2 + h = 2 /\ h = 0 /\ m.handle = <<>>
          BY <2>8, <3>1, <1>1
        <5>2. SubSeq(d, 2, Len(d)) = m.payload
          BY <5>1, <2>6
        <5> QED BY <4>3, <5>1, <5>2
      <4> QED BY <4>2, <4>4, <2>9, <3>1 DEF Dropped, Meaning, c
    <3>2. CASE m.kind = "input" \/ m.kind = "legacy"
      <4>1. d[1] = c + 1 /\ d[1] % 128 = c + 1 /\ c + 1 < 64
        <5>1. d[1] = IF m.kind = "legacy" THEN 1 ELSE f[4]
          BY <2>4, Zenon
        <5>2. d[1] = c + 1
          BY <5>1, <3>2, <1>1, <1>3
        <5>3. c \in 0 .. 61
          BY <1>1
        <5>4. (c + 1) % 128 = c + 1 /\ c + 1 < 64
          BY <5>3, Codes, Zenon
        <5> QED BY <5>2, <5>4, Zenon
      <4>2. ~Ack(d) /\ ~Routed(d) /\ ChannelOf(d) = c + 1 /\ ChannelOf(d) \in 1 .. Channels
        BY <4>1, <1>1 DEF Ack, Routed, ChannelOf
      <4>3. Decoded(d) = [kind |-> "input", channel |-> (c + 1) - 1, handle |-> <<>>, payload |-> SubSeq(d, 2, Len(d))]
        BY <4>2 DEF Decoded
      <4>4. Decoded(d) = [kind |-> "input", channel |-> c, handle |-> m.handle, payload |-> m.payload]
        <5>1. (c + 1) - 1 = c /\ 2 + h = 2 /\ h = 0 /\ m.handle = <<>>
          BY <2>8, <3>2, <1>1
        <5>2. SubSeq(d, 2, Len(d)) = m.payload
          BY <5>1, <2>6
        <5> QED BY <4>3, <5>1, <5>2
      <4> QED BY <4>2, <4>4, <2>9, <3>2 DEF Dropped, Meaning, c
    <3>3. CASE m.kind = "notify"
      <4>1. d[1] = 64 + c + 1 /\ d[1] % 64 = c + 1 /\ d[1] < 128 /\ d[1] >= 64
        <5>1. d[1] = f[4]
          BY <3>3, <2>4
        <5>2. d[1] = 64 + c + 1
          BY <5>1, <3>3, <1>3
        <5>3. c \in 0 .. 61
          BY <1>1
        <5>4. (64 + c + 1) % 64 = c + 1 /\ 64 + c + 1 < 128 /\ 64 + c + 1 >= 64
          BY <5>3, Codes, Zenon
        <5> QED BY <5>2, <5>4, Zenon
      <4>2. ~Ack(d) /\ Routed(d) /\ ChannelOf(d) = c + 1 /\ ChannelOf(d) \in 1 .. Channels
        BY <4>1, <1>1 DEF Ack, Routed, ChannelOf
      <4>3. Decoded(d) = [kind |-> "notify", channel |-> (c + 1) - 1, handle |-> SubSeq(d, 2, 3), payload |-> SubSeq(d, 4, Len(d))]
        BY <4>2 DEF Decoded
      <4>4. h = 2 /\ SubSeq(d, 4, Len(d)) = m.payload /\ Len(d) >= 3
        BY <3>3, <1>1, <2>1, <2>4, <2>6
      <4>5. Decoded(d) = [kind |-> "notify", channel |-> c, handle |-> m.handle, payload |-> m.payload]
        <5>1. (c + 1) - 1 = c
          BY <1>1
        <5> QED BY <4>3, <4>4, <2>7, <3>3, <5>1
      <4> QED BY <4>2, <4>4, <4>5, <2>9, <3>3 DEF Dropped, Meaning, c
    <3> QED BY <1>1, <3>1, <3>2, <3>3
  <2> QED BY <2>2, <2>10 DEF d
<1> QED BY <1>7, <1>8 DEF f

\* What may still be ahead of a message: all its bytes, or all but those in front of its
\* frame.
Ahead(m) == {Encoded(m)} \cup IF m.kind = "line" THEN {} ELSE {FrameOf(m)}

LEMMA AheadIs ==
  ASSUME NEW m, Sendable(m), NEW ahead \in Ahead(m)
  PROVE  /\ ahead \in Seq(Byte) /\ ahead # <<>>
         /\ m.kind = "line" => ahead = Append(m.payload, Newline)
         /\ m.kind # "line" =>
              /\ FrameOf(m) \in Seq(Byte) /\ <<>> \o FrameOf(m) = FrameOf(m)
              /\ \E w \in {m.noise, <<>>} : ahead = w \o FrameOf(m)
<1>1. CASE m.kind = "line"
  <2>1. ahead = Append(m.payload, Newline)
    BY <1>1 DEF Ahead, Encoded
  <2>2. m.payload \in Seq(Byte) /\ Newline \in Byte
    BY MessageParts DEF Newline, Byte
  <2> QED BY <1>1, <2>1, <2>2, AppendProperties
<1>2. CASE m.kind # "line"
  <2>1. FrameOf(m) \in Seq(Byte) /\ m.noise \in Seq(Byte) /\ Len(FrameOf(m)) > 0
    <3>1. m.noise \in Seq(Byte) /\ m.handle \in Seq(Byte) /\ m.payload \in Seq(Byte)
      BY MessageParts, Zenon
    <3>2. FrameOf(m) \in Seq(Byte) /\ Len(FrameOf(m)) = 4 + Len(m.handle) + Len(m.payload)
      BY <1>2, FrameBytes, Zenon
    <3>3. Len(m.handle) \in Nat /\ Len(m.payload) \in Nat
      BY <3>1, LenProperties
    <3>4. Len(FrameOf(m)) > 0
      <4>1. \A x, y \in Nat : 4 + x + y > 0
        OBVIOUS
      <4> QED BY <3>2, <3>3, <4>1, Zenon
    <3> QED BY <3>1, <3>2, <3>4, Zenon
  <2>2. <<>> \o FrameOf(m) = FrameOf(m)
    BY <2>1, ConcatEmptySeq, Zenon
  <2>3. \E w \in {m.noise, <<>>} : ahead = w \o FrameOf(m)
    BY <1>2, <2>2 DEF Ahead, Encoded
  <2>4. \A w \in Seq(Byte) : w \o FrameOf(m) \in Seq(Byte) /\ w \o FrameOf(m) # <<>>
    <3> SUFFICES ASSUME NEW w \in Seq(Byte)
                 PROVE  w \o FrameOf(m) \in Seq(Byte) /\ w \o FrameOf(m) # <<>>
      OBVIOUS
    <3>1. FrameOf(m) # <<>>
      BY <2>1
    <3>2. w \o FrameOf(m) = <<>> <=> w = <<>> /\ FrameOf(m) = <<>>
      BY <2>1, ConcatEqualIffEmpty
    <3>3. w \o FrameOf(m) \in Seq(Byte)
      BY <2>1, ConcatProperties, Zenon
    <3> QED BY <3>1, <3>2, <3>3, Zenon
  <2>5. <<>> \in Seq(Byte)
    BY EmptySeq
  <2> QED BY <1>2, <2>1, <2>2, <2>3, <2>4, <2>5, Zenon
<1> QED BY <1>1, <1>2

\* What a turn of the inner loop sees when a message is ahead.
LEMMA ReadsAhead ==
  ASSUME NEW m, Sendable(m), NEW ahead \in Ahead(m), NEW s \in Seq(Byte),
         \A j \in 1 .. Len(s) : j <= Len(ahead) => s[j] = ahead[j]
  PROVE  /\ LineFirst(s) =>
              /\ m.kind = "line" /\ ahead = Append(m.payload, Newline)
              /\ NewlineAt(s) = Len(ahead) /\ Len(ahead) <= Len(s)
              /\ SubSeq(s, 1, NewlineAt(s) - 1) = m.payload
         /\ ~LineFirst(s) /\ SyncAt(s) > 1 =>
              /\ m.kind # "line" /\ ahead = m.noise \o FrameOf(m)
              /\ SyncAt(s) - 1 = Len(m.noise) /\ Len(m.noise) <= Len(s)
         /\ ~LineFirst(s) /\ FrameComplete(s) =>
              /\ m.kind # "line" /\ ahead = FrameOf(m)
              /\ FrameSize(s) = Len(ahead) /\ Len(ahead) <= Len(s)
              /\ ~Dropped(FrameData(s)) /\ Decoded(FrameData(s)) = Meaning(m)
         /\ ~LineFirst(s) /\ (SyncAt(s) = 0 \/ (SyncAt(s) = 1 /\ ~FrameComplete(s))) =>
              Len(s) < Len(ahead)
<1>1. /\ ahead \in Seq(Byte) /\ Len(ahead) \in Nat /\ Len(s) \in Nat
      /\ m.payload \in Seq(Byte) /\ m.noise \in Seq(Byte) /\ <<>> \in Seq(Byte)
      /\ Len(m.payload) \in Nat /\ Len(m.noise) \in Nat /\ Len(<<>>) = 0
  <2>1. ahead \in Seq(Byte) /\ m.payload \in Seq(Byte) /\ m.noise \in Seq(Byte)
    BY AheadIs, MessageParts, Zenon
  <2> QED BY <2>1, LenProperties, EmptySeq
<1>2. CASE m.kind = "line"
  <2>1. ahead = Append(m.payload, Newline) /\ Text(m.payload)
    BY <1>2, AheadIs, MessageParts, Zenon
  <2>2. /\ Len(ahead) = Len(m.payload) + 1
        /\ \A i \in 1 .. Len(m.payload) : ahead[i] = m.payload[i]
    <3>1. Newline \in Byte
      BY DEF Newline, Byte
    <3>2. /\ Len(Append(m.payload, Newline)) = Len(m.payload) + 1
          /\ \A i \in 1 .. Len(m.payload) : Append(m.payload, Newline)[i] = m.payload[i]
      BY <3>1, <1>1, AppendProperties
    <3> QED BY <3>2, <2>1
  <2>3. \A j \in 1 .. Len(s) : j <= Len(m.payload) + 1 => s[j] = Append(m.payload, Newline)[j]
    BY <2>1, <2>2, Zenon
  <2>4. /\ Len(s) >= Len(m.payload) + 1 => LineFirst(s) /\ NewlineAt(s) = Len(m.payload) + 1
        /\ Len(s) < Len(m.payload) + 1 => ~LineFirst(s) /\ SyncAt(s) = 0
    BY <1>1, <2>1, <2>3, LineAhead, Zenon
  <2>5. CASE Len(s) >= Len(ahead)
    <3>1. LineFirst(s) /\ NewlineAt(s) = Len(ahead)
      BY <2>2, <2>4, <2>5
    <3>2. SubSeq(s, 1, NewlineAt(s) - 1) = m.payload
      <4>1. \A i \in 1 .. Len(m.payload) : s[0 + i] = m.payload[i]
        BY <1>1, <2>2, <2>5
      <4>2. 0 + Len(m.payload) <= Len(s) /\ 0 \in Nat
        BY <1>1, <2>2, <2>5
      <4>3. SubSeq(s, 0 + 1, 0 + Len(m.payload)) = m.payload
        BY <4>1, <4>2, <1>1, PieceOf, Zenon
      <4> QED BY <4>3, <3>1, <2>2, <1>1
    <3> QED BY <1>2, <2>1, <2>5, <3>1, <3>2
  <2>6. CASE Len(s) < Len(ahead)
    <3>1. ~LineFirst(s) /\ SyncAt(s) = 0
      BY <2>2, <2>4, <2>6
    <3> QED BY <3>1, <2>6 DEF FrameComplete
  <2> QED BY <1>1, <2>5, <2>6
<1>3. CASE m.kind # "line"
  <2> DEFINE f == FrameOf(m)
  <2>1. PICK w \in {m.noise, <<>>} : ahead = w \o f
    BY <1>3, AheadIs, Zenon
  <2>2. f \in Seq(Byte) /\ <<>> \o f = f
    BY <1>3, AheadIs, Zenon
  <2>3. Len(f) >= 2 /\ f[1] = Sync1 /\ f[2] = Sync2 /\ Len(f) \in Nat
    <3>1. m.handle \in Seq(Byte) /\ m.kind \in {"ack", "input", "notify", "legacy"}
      BY <1>3, MessageParts
    <3>2. /\ Len(f) = 4 + Len(m.handle) + Len(m.payload)
          /\ \A i \in 1 .. 4 : f[i] = Header(m)[i]
      BY <1>3, FrameBytes, Zenon
    <3>3. 1 \in 1 .. 4 /\ 2 \in 1 .. 4
      OBVIOUS
    <3>4. f[1] = Header(m)[1] /\ f[2] = Header(m)[2]
      BY <3>2, <3>3, Zenon
    <3>5. Header(m)[1] = Sync1 /\ Header(m)[2] = Sync2
      BY <3>1 DEF Header
    <3>6. Len(m.handle) \in Nat
      BY <3>1, LenProperties
    <3>7. Len(f) >= 2 /\ Len(f) \in Nat
      <4>1. \A x, y \in Nat : 4 + x + y >= 2 /\ 4 + x + y \in Nat
        OBVIOUS
      <4> QED BY <3>2, <3>6, <1>1, <4>1, Zenon
    <3> QED BY <3>4, <3>5, <3>7, Zenon
  <2> HIDE DEF f
  <2>4. w \in Seq(Byte) /\ Text(w) /\ Len(w) \in Nat
    <3>1. Text(m.noise)
      BY <1>3, MessageParts, Zenon
    <3>2. Text(<<>>)
      BY DEF Text
    <3> QED BY <3>1, <3>2, <1>1, <2>1
  <2>5. Len(ahead) = Len(w) + Len(f)
    BY <2>1, <2>2, <2>4, ConcatProperties, Zenon
  <2>6. \A j \in 1 .. Len(s) : j <= Len(w) + Len(f) => s[j] = (w \o f)[j]
    BY <2>1, <2>5, Zenon
  <2>7. ~LineFirst(s) /\ SyncAt(s) = IF Len(s) >= Len(w) + 2 THEN Len(w) + 1 ELSE 0
    BY <2>2, <2>3, <2>4, <2>6, FrameAhead, Zenon
  <2>8. ASSUME SyncAt(s) = 1
        PROVE  /\ ahead = FrameOf(m)
               /\ FrameComplete(s) <=> Len(s) >= Len(ahead)
               /\ Len(s) >= Len(ahead) =>
                    /\ FrameSize(s) = Len(ahead)
                    /\ ~Dropped(FrameData(s)) /\ Decoded(FrameData(s)) = Meaning(m)
    <3>1. Len(w) = 0
      BY <2>4, <2>7, <2>8, <1>1
    <3>2. w = <<>>
      BY <3>1, <2>4, EmptySeq
    <3>3. ahead = FrameOf(m)
      BY <3>2, <2>1, <2>2 DEF f
    <3>4. \A j \in 1 .. Len(s) : j <= Len(FrameOf(m)) => s[j] = FrameOf(m)[j]
      BY <3>3, Zenon
    <3>5. /\ FrameComplete(s) <=> Len(s) >= Len(FrameOf(m))
          /\ Len(s) >= Len(FrameOf(m)) =>
               /\ FrameSize(s) = Len(FrameOf(m))
               /\ ~Dropped(FrameData(s)) /\ Decoded(FrameData(s)) = Meaning(m)
      BY <3>4, <1>3, FrameRead, Zenon
    <3> QED BY <3>3, <3>5, Zenon
  <2>9. ASSUME SyncAt(s) > 1
        PROVE  /\ ahead = m.noise \o FrameOf(m)
               /\ SyncAt(s) - 1 = Len(m.noise) /\ Len(m.noise) <= Len(s)
    <3>1. Len(w) > 0 /\ SyncAt(s) = Len(w) + 1 /\ Len(s) >= Len(w) + 2
      BY <2>4, <2>7, <2>9, <1>1
    <3>2. w = m.noise
      BY <3>1, <2>1, <1>1
    <3> QED BY <3>1, <3>2, <2>1, <2>4, <1>1 DEF f
  <2>10. SyncAt(s) = 0 => Len(s) < Len(ahead)
    BY <2>3, <2>4, <2>5, <2>7, <1>1
  <2>11. FrameComplete(s) => SyncAt(s) = 1
    BY DEF FrameComplete
  <2>12. Len(s) < Len(ahead) \/ Len(ahead) <= Len(s)
    BY <1>1
  <2>13. Len(s) >= Len(ahead) <=> Len(ahead) <= Len(s)
    BY <1>1
  <2> QED BY <1>3, <2>7, <2>8, <2>9, <2>10, <2>11, <2>12, <2>13, Zenon
<1> QED BY <1>2, <1>3

\* What is in the reader's buffer is the beginning of what is ahead.
LEMMA BufferAhead ==
  ASSUME NEW s \in Seq(Byte), NEW r \in Seq(Byte), NEW a \in Seq(Byte), NEW b \in Seq(Byte),
         s \o r = a \o b
  PROVE  \A j \in 1 .. Len(s) : j <= Len(a) => s[j] = a[j]
<1>1. Len(s) \in Nat /\ Len(a) \in Nat
  BY LenProperties, Zenon
<1>2. \A j \in 1 .. Len(s) : (s \o r)[j] = s[j]
  BY HeadBytes, Zenon
<1>3. \A j \in 1 .. Len(a) : (a \o b)[j] = a[j]
  BY HeadBytes, Zenon
<1> QED BY <1>1, <1>2, <1>3

LEMMA Regrouped ==
  ASSUME NEW x \in Seq(Byte), NEW y \in Seq(Byte), NEW z \in Seq(Byte)
  PROVE  (x \o y) \o z = x \o (y \o z)
BY ConcatAssociative

\* When the buffer has it whole, taking it away leaves what comes after it.
LEMMA TakenAhead ==
  ASSUME NEW s \in Seq(Byte), NEW r \in Seq(Byte), NEW a \in Seq(Byte), NEW b \in Seq(Byte),
         s \o r = a \o b, Len(a) <= Len(s)
  PROVE  /\ SubSeq(s, Len(a) + 1, Len(s)) \in Seq(Byte)
         /\ SubSeq(s, Len(a) + 1, Len(s)) \o r = b
<1> DEFINE k == Len(a)  t == SubSeq(s, k + 1, Len(s))
<1>1. k \in Nat /\ Len(s) \in Nat
  BY LenProperties, Zenon
<1>2. t \in Seq(Byte)
  <2>1. k + 1 \in Nat \ {0} /\ k + 1 <= Len(s) + 1 /\ Len(s) <= Len(s)
    BY <1>1
  <2> QED BY <2>1, <1>1, PartOf
<1>3. SubSeq(s, 1, k) = a
  <2>1. \A j \in 1 .. Len(a) : s[0 + j] = a[j]
    <3>1. \A j \in 1 .. Len(s) : j <= Len(a) => s[j] = a[j]
      BY BufferAhead, Zenon
    <3> QED BY <3>1, <1>1
  <2>2. 0 + Len(a) <= Len(s) /\ 0 \in Nat
    BY <1>1
  <2>3. SubSeq(s, 0 + 1, 0 + Len(a)) = a
    BY <2>1, <2>2, PieceOf, Zenon
  <2> QED BY <2>3, <1>1
<1>4. SubSeq(s, 1, k) \o SubSeq(s, k + 1, Len(s)) = s
  <2>1. 1 \in 1 .. Len(s) + 1 /\ k \in 1 - 1 .. Len(s) /\ Len(s) \in k .. Len(s)
    BY <1>1
  <2>2. SubSeq(s, 1, k) \o SubSeq(s, k + 1, Len(s)) = SubSeq(s, 1, Len(s))
    BY <2>1, ConcatAdjacentSubSeq, Zenon
  <2>3. SubSeq(s, 1, Len(s)) = s
    BY SubSeqFull, Zenon
  <2> QED BY <2>2, <2>3, Zenon
<1> HIDE DEF t
<1>5. a \o t = s
  BY <1>3, <1>4 DEF t
<1>6. (a \o t) \o r = a \o (t \o r)
  BY <1>2, Regrouped
<1>7. t \o r \in Seq(Byte)
  BY <1>2, ConcatProperties, Zenon
<1>8. a \o (t \o r) = a \o b
  BY <1>5, <1>6
<1>9. t \o r = b
  <2>1. \A S : \A x, y, v \in Seq(S) : x \o y = x \o v => y = v
    BY ConcatSimplifications, Zenon
  <2> QED BY <1>7, <1>8, <2>1, Zenon
<1> QED BY <1>2, <1>9 DEF t

\* What comes after each message: after[i] is what was sent behind the i-th.
Behind(after) ==
  /\ after \in [0 .. Len(sent) -> Seq(Byte)]
  /\ after[Len(sent)] = <<>>
  /\ \A i \in 1 .. Len(sent) : after[i - 1] = Encoded(sent[i]) \o after[i]

\* The next message is at the front of what is not taken yet, from its first byte or, past
\* what was in front of it, from the first byte of its frame; the loop breaks only when it
\* does not have it whole.
NextAhead(after) ==
  IF Len(received) = Len(sent) THEN buf \o stream = <<>>
  ELSE \E ahead \in Ahead(sent[Len(received) + 1]) :
         /\ buf \o stream = ahead \o after[Len(received) + 1]
         /\ ~parsing => Len(buf) < Len(ahead)

\* The inductive invariant.
FramingInv ==
  /\ FramingTypeOK
  /\ Len(received) <= Len(sent)
  /\ \A i \in 1 .. Len(received) : received[i] = Meaning(sent[i])
  /\ \E after : Behind(after) /\ NextAhead(after)

LEMMA SentIs ==
  ASSUME FramingTypeOK
  PROVE  /\ Len(sent) \in Nat /\ Len(received) \in Nat /\ Len(buf) \in Nat /\ Len(stream) \in Nat
         /\ \A i \in 1 .. Len(sent) : sent[i] \in Message /\ Sendable(sent[i])
<1>1. sent \in Seq(Message) /\ stream \in Seq(Byte) /\ buf \in Seq(Byte)
  BY DEF FramingTypeOK
<1>2. Len(received) \in Nat
  BY LenProperties DEF FramingTypeOK
<1>3. \A i \in 1 .. Len(sent) : sent[i] \in Message
  BY <1>1, ElementOfSeq, Zenon
<1> QED BY <1>1, <1>2, <1>3, LenProperties, FramingAssumption

LEMMA MeaningIs ==
  ASSUME NEW m, Sendable(m)
  PROVE  Meaning(m) \in [kind : {"line", "ack", "input", "notify"}, channel : 0 .. Channels - 1,
                         handle : Seq(Byte), payload : Seq(Byte)]
BY MessageParts DEF Meaning

\* With every message taken there is nothing left.
LEMMA NothingAhead ==
  ASSUME FramingTypeOK, NEW after, NextAhead(after), Len(received) = Len(sent)
  PROVE  buf = <<>> /\ stream = <<>> /\ ~LineFirst(buf) /\ SyncAt(buf) = 0
<1>1. buf \in Seq(Byte) /\ stream \in Seq(Byte)
  BY DEF FramingTypeOK
<1>2. buf \o stream = <<>>
  BY DEF NextAhead
<1>3. buf = <<>> /\ stream = <<>>
  BY <1>1, <1>2, ConcatEqualIffEmpty
<1>4. NewlineAt(buf) \in 0 .. Len(buf) /\ SyncAt(buf) \in 0 .. Len(buf)
  BY <1>1, NewlinePlace, SyncPlace, Zenon
<1>5. Len(buf) = 0
  BY <1>3
<1> QED BY <1>3, <1>4, <1>5 DEF LineFirst

\* With a message to come, a turn sees it at the front of its buffer.
LEMMA Turn ==
  ASSUME FramingTypeOK, NEW after, Behind(after), Len(received) < Len(sent),
         NEW ahead \in Ahead(sent[Len(received) + 1]),
         buf \o stream = ahead \o after[Len(received) + 1]
  PROVE  /\ Len(received) + 1 \in 1 .. Len(sent)
         /\ Sendable(sent[Len(received) + 1]) /\ ahead \in Seq(Byte)
         /\ after[Len(received) + 1] \in Seq(Byte)
         /\ buf \in Seq(Byte) /\ stream \in Seq(Byte)
         /\ \A j \in 1 .. Len(buf) : j <= Len(ahead) => buf[j] = ahead[j]
<1>1. /\ Len(received) + 1 \in 1 .. Len(sent) /\ Len(received) + 1 \in 0 .. Len(sent)
      /\ Sendable(sent[Len(received) + 1])
  BY SentIs
<1>2. ahead \in Seq(Byte)
  BY <1>1, AheadIs, Zenon
<1>3. after[Len(received) + 1] \in Seq(Byte)
  BY <1>1 DEF Behind
<1>4. buf \in Seq(Byte) /\ stream \in Seq(Byte)
  BY DEF FramingTypeOK
<1> QED BY <1>1, <1>2, <1>3, <1>4, BufferAhead, Zenon

\* Taking the message at the front.
LEMMA Taking ==
  ASSUME FramingInv, parsing, Len(received) < Len(sent),
         NEW after, Behind(after), NEW ahead \in Ahead(sent[Len(received) + 1]),
         buf \o stream = ahead \o after[Len(received) + 1], Len(ahead) <= Len(buf),
         buf' = SubSeq(buf, Len(ahead) + 1, Len(buf)),
         received' = Append(received, Meaning(sent[Len(received) + 1])),
         UNCHANGED <<sent, stream, parsing>>
  PROVE  FramingInv'
<1> DEFINE k == Len(received)  m == sent[Len(received) + 1]
           Answer == [kind : {"line", "ack", "input", "notify"}, channel : 0 .. Channels - 1,
                      handle : Seq(Byte), payload : Seq(Byte)]
<1>1. /\ FramingTypeOK /\ k \in Nat /\ Len(sent) \in Nat /\ k + 1 \in 1 .. Len(sent)
      /\ \A i \in 1 .. Len(sent) : Sendable(sent[i])
  BY SentIs, Turn DEF FramingInv
<1>2. Sendable(m) /\ after[k + 1] \in Seq(Byte) /\ ahead \in Seq(Byte) /\ buf \in Seq(Byte) /\ stream \in Seq(Byte)
  BY <1>1, Turn, Zenon
<1>3. buf' \in Seq(Byte) /\ buf' \o stream' = after[k + 1]
  <2>1. /\ SubSeq(buf, Len(ahead) + 1, Len(buf)) \in Seq(Byte)
        /\ SubSeq(buf, Len(ahead) + 1, Len(buf)) \o stream = after[k + 1]
    <3> DEFINE r == after[k + 1]
    <3>1. buf \o stream = ahead \o r /\ Len(ahead) <= Len(buf) /\ r \in Seq(Byte)
      BY <1>2
    <3> HIDE DEF r
    <3>2. /\ SubSeq(buf, Len(ahead) + 1, Len(buf)) \in Seq(Byte)
          /\ SubSeq(buf, Len(ahead) + 1, Len(buf)) \o stream = r
      BY <3>1, <1>2, TakenAhead
    <3> QED BY <3>2 DEF r
  <2> QED BY <2>1
<1>4. received \in Seq(Answer) /\ Meaning(m) \in Answer
  BY <1>1, <1>2, MeaningIs DEF FramingTypeOK
<1>5. /\ received' \in Seq(Answer) /\ Len(received') = k + 1
      /\ \A i \in 1 .. k : received'[i] = received[i]
      /\ received'[k + 1] = Meaning(m)
  <2> HIDE DEF Answer
  <2>1. received' = Append(received, Meaning(m))
    OBVIOUS
  <2> HIDE DEF m
  <2> QED BY <2>1, <1>4, AppendProperties
<1>6. FramingTypeOK'
  <2>1. sent \in Seq(Message) /\ stream \in Seq(Byte) /\ parsing \in BOOLEAN
    BY <1>1 DEF FramingTypeOK
  <2> QED BY <2>1, <1>3, <1>5 DEF FramingTypeOK
<1>7. (Len(received) <= Len(sent) /\ \A i \in 1 .. Len(received) : received[i] = Meaning(sent[i]))'
  <2>1. \A i \in 1 .. k : received[i] = Meaning(sent[i])
    BY DEF FramingInv
  <2>2. Len(received') <= Len(sent')
    BY <1>1, <1>5
  <2>3. \A i \in 1 .. k + 1 : received'[i] = Meaning(sent'[i])
    BY <2>1, <1>1, <1>5
  <2> QED BY <2>2, <2>3, <1>5
<1>8. Behind(after)'
  BY DEF Behind
<1>9. NextAhead(after)'
  <2>1. CASE k + 1 = Len(sent)
    <3>1. after[k + 1] = <<>>
      BY <2>1 DEF Behind
    <3>2. Len(received') = Len(sent') /\ buf' \o stream' = <<>>
      BY <3>1, <2>1, <1>3, <1>5
    <3> QED BY <3>2 DEF NextAhead
  <2>2. CASE k + 1 # Len(sent)
    <3>1. k + 2 \in 1 .. Len(sent) /\ (k + 2) - 1 = k + 1
      BY <2>2, <1>1
    <3>2. after[k + 1] = Encoded(sent[k + 2]) \o after[k + 2]
      BY <3>1 DEF Behind
    <3>3. Encoded(sent[k + 2]) \in Ahead(sent[k + 2])
      BY DEF Ahead
    <3>4. Len(received') # Len(sent') /\ Len(received') + 1 = k + 2 /\ parsing'
      BY <2>2, <1>1, <1>5
    <3>5. /\ Encoded(sent[k + 2]) \in Ahead(sent'[Len(received') + 1])
          /\ buf' \o stream' = Encoded(sent[k + 2]) \o after[Len(received') + 1]
      BY <3>2, <3>3, <3>4, <1>3
    <3> QED BY <3>4, <3>5 DEF NextAhead
  <2> QED BY <2>1, <2>2
<1> QED BY <1>6, <1>7, <1>8, <1>9, Zenon DEF FramingInv

LEMMA FramingInitInv == FramingInit => FramingInv
<1> SUFFICES ASSUME FramingInit PROVE FramingInv
  OBVIOUS
<1>1. FramingTypeOK /\ Len(received) = 0 /\ Len(sent) = 0
  BY EmptySeq DEF FramingInit, FramingTypeOK
<1> DEFINE after == [i \in 0 .. 0 |-> <<>>]
<1>2. Behind(after)
  <2>1. after \in [0 .. Len(sent) -> Seq(Byte)]
    BY <1>1, EmptySeq
  <2>2. after[Len(sent)] = <<>>
    BY <1>1
  <2> HIDE DEF after
  <2> QED BY <1>1, <2>1, <2>2 DEF Behind
<1>3. NextAhead(after)
  <2>1. <<>> \o <<>> = <<>>
    BY EmptySeq, ConcatEmptySeq
  <2> QED BY <1>1, <2>1 DEF NextAhead, FramingInit
<1> QED BY <1>1, <1>2, <1>3 DEF FramingInv

\* What the firmware sends comes behind everything else.
LEMMA SendsInv == ASSUME FramingInv, FirmwareSends PROVE FramingInv'
<1>1. PICK m \in Message : sent' = Append(sent, m) /\ stream' = stream \o Encoded(m)
  BY DEF FirmwareSends
<1>2. UNCHANGED <<buf, parsing, received>>
  BY DEF FirmwareSends
<1> DEFINE N == Len(sent)  k == Len(received)
<1>3. /\ FramingTypeOK /\ N \in Nat /\ k \in Nat /\ k <= N
      /\ \A i \in 1 .. N : Sendable(sent[i])
  BY SentIs DEF FramingInv
<1>4. /\ sent' \in Seq(Message) /\ Len(sent') = N + 1 /\ sent'[N + 1] = m
      /\ \A i \in 1 .. N : sent'[i] = sent[i]
  BY <1>1, <1>3, AppendProperties DEF FramingTypeOK
<1>5. Sendable(m) /\ Encoded(m) \in Ahead(m) /\ Encoded(m) \in Seq(Byte) /\ Encoded(m) # <<>>
  <2>1. Sendable(m) /\ Encoded(m) \in Ahead(m)
    BY FramingAssumption DEF Ahead
  <2> QED BY <2>1, AheadIs, Zenon
<1>6. stream \in Seq(Byte) /\ buf \in Seq(Byte) /\ stream' \in Seq(Byte)
  <2>1. stream \in Seq(Byte) /\ buf \in Seq(Byte)
    BY <1>3 DEF FramingTypeOK
  <2> QED BY <2>1, <1>1, <1>5, ConcatProperties
<1>7. FramingTypeOK'
  BY <1>2, <1>3, <1>4, <1>6 DEF FramingTypeOK
<1>8. (Len(received) <= Len(sent) /\ \A i \in 1 .. Len(received) : received[i] = Meaning(sent[i]))'
  <2>1. \A i \in 1 .. k : received[i] = Meaning(sent[i])
    BY DEF FramingInv
  <2>2. Len(received') <= Len(sent')
    BY <1>2, <1>3, <1>4
  <2>3. \A i \in 1 .. k : received'[i] = Meaning(sent'[i])
    BY <2>1, <1>2, <1>3, <1>4
  <2> QED BY <2>2, <2>3, <1>2
<1>9. PICK after : Behind(after) /\ NextAhead(after)
  BY DEF FramingInv
<1>10. after \in [0 .. N -> Seq(Byte)]
  BY <1>9 DEF Behind
<1>11. \A i \in 0 .. N : after[i] \in Seq(Byte) /\ after[i] \o Encoded(m) \in Seq(Byte)
  BY <1>5, <1>10, ConcatProperties
<1>12. PICK longer \in [0 .. N + 1 -> Seq(Byte)] :
         /\ longer[N + 1] = <<>>
         /\ \A i \in 0 .. N : longer[i] = after[i] \o Encoded(m)
  <2> DEFINE new == [i \in 0 .. N + 1 |-> IF i = N + 1 THEN <<>> ELSE after[i] \o Encoded(m)]
  <2>1. <<>> \in Seq(Byte)
    BY EmptySeq
  <2>2. \A i \in 0 .. N + 1 : (IF i = N + 1 THEN <<>> ELSE after[i] \o Encoded(m)) \in Seq(Byte)
    BY <2>1, <1>3, <1>11
  <2>3. /\ new \in [0 .. N + 1 -> Seq(Byte)] /\ new[N + 1] = <<>>
        /\ \A i \in 0 .. N : new[i] = after[i] \o Encoded(m)
    BY <2>2, <1>3
  <2> QED BY <2>3, Zenon
<1>13. Behind(longer)'
  <2>1. ASSUME NEW i \in 1 .. N + 1
        PROVE  longer[i - 1] = Encoded(sent'[i]) \o longer[i]
    <3>1. CASE i = N + 1
      <4>1. longer[i - 1] = after[N] \o Encoded(m) /\ longer[i] = <<>> /\ sent'[i] = m
        BY <3>1, <1>3, <1>4, <1>12
      <4>2. after[N] = <<>>
        BY <1>9 DEF Behind
      <4>3. <<>> \o Encoded(m) = Encoded(m) /\ Encoded(m) \o <<>> = Encoded(m)
        BY <1>5, ConcatEmptySeq
      <4> QED BY <4>1, <4>2, <4>3
    <3>2. CASE i # N + 1
      <4>1. i \in 1 .. N /\ i \in 0 .. N /\ i - 1 \in 0 .. N
        <5>1. N \in Nat /\ i \in 1 .. N + 1 /\ i # N + 1
          BY <3>2, <1>3
        <5> HIDE DEF N
        <5> QED BY <5>1
      <4>2. /\ longer[i - 1] = after[i - 1] \o Encoded(m) /\ longer[i] = after[i] \o Encoded(m)
            /\ sent'[i] = sent[i] /\ Sendable(sent[i])
        BY <4>1, <1>3, <1>4, <1>12
      <4>3. after[i - 1] = Encoded(sent[i]) \o after[i]
        BY <4>1, <1>9 DEF Behind
      <4>4. Encoded(sent[i]) \in Seq(Byte) /\ after[i] \in Seq(Byte)
        <5>1. Encoded(sent[i]) \in Ahead(sent[i])
          BY DEF Ahead
        <5>2. Encoded(sent[i]) \in Seq(Byte)
          BY <5>1, <4>2, AheadIs, Zenon
        <5> QED BY <5>2, <4>1, <1>11
      <4>5. (Encoded(sent[i]) \o after[i]) \o Encoded(m) = Encoded(sent[i]) \o (after[i] \o Encoded(m))
        BY <4>4, <1>5, Regrouped
      <4> QED BY <4>2, <4>3, <4>5
    <3> QED BY <3>1, <3>2
  <2>2. longer \in [0 .. Len(sent') -> Seq(Byte)] /\ longer[Len(sent')] = <<>>
    BY <1>4, <1>12
  <2>3. \A i \in 1 .. Len(sent') : longer[i - 1] = Encoded(sent'[i]) \o longer[i]
    BY <2>1, <1>4
  <2> QED BY <2>2, <2>3 DEF Behind
<1>14. NextAhead(longer)'
  <2>1. CASE k = N
    <3>1. buf = <<>> /\ stream = <<>>
      BY <2>1, <1>3, <1>9, NothingAhead, Zenon
    <3>2. buf' \o stream' = Encoded(m) \o longer[N + 1]
      <4>1. /\ <<>> \o Encoded(m) = Encoded(m) /\ Encoded(m) \o <<>> = Encoded(m)
        BY <1>5, ConcatEmptySeq
      <4>2. buf' = <<>> /\ stream' = Encoded(m) /\ longer[N + 1] = <<>>
        BY <3>1, <4>1, <1>1, <1>2, <1>12
      <4> QED BY <4>1, <4>2
    <3>3. Len(buf') < Len(Encoded(m))
      <4>1. Len(buf') = 0
        BY <3>1, <1>2
      <4> QED BY <4>1, <1>5, EmptySeq
    <3>4. Len(received') # Len(sent') /\ Len(received') + 1 = N + 1 /\ sent'[N + 1] = m
      BY <2>1, <1>2, <1>3, <1>4
    <3>5. /\ Encoded(m) \in Ahead(sent'[Len(received') + 1])
          /\ buf' \o stream' = Encoded(m) \o longer[Len(received') + 1]
      BY <3>2, <3>4, <1>5
    <3> QED BY <3>3, <3>4, <3>5 DEF NextAhead
  <2>2. CASE k # N
    <3>1. PICK ahead \in Ahead(sent[k + 1]) :
            /\ buf \o stream = ahead \o after[k + 1]
            /\ ~parsing => Len(buf) < Len(ahead)
      BY <2>2, <1>9 DEF NextAhead
    <3>2. k + 1 \in 1 .. N /\ k + 1 \in 0 .. N /\ k < N
      BY <2>2, <1>3
    <3>3. ahead \in Seq(Byte) /\ after[k + 1] \in Seq(Byte)
      <4>1. ahead \in Seq(Byte)
        BY <3>1, <3>2, <1>3, AheadIs, Zenon
      <4> QED BY <4>1, <3>2, <1>11
    <3>4. buf' \o stream' = ahead \o longer[k + 1]
      <4>1. buf \o (stream \o Encoded(m)) = (buf \o stream) \o Encoded(m)
        BY <1>5, <1>6, Regrouped
      <4>2. (ahead \o after[k + 1]) \o Encoded(m) = ahead \o (after[k + 1] \o Encoded(m))
        BY <3>3, <1>5, Regrouped
      <4>3. longer[k + 1] = after[k + 1] \o Encoded(m)
        BY <3>2, <1>12
      <4>4. buf' \o stream' = buf \o (stream \o Encoded(m))
        BY <1>1, <1>2
      <4> QED BY <4>1, <4>2, <4>3, <4>4, <3>1
    <3>5. /\ Len(received') # Len(sent') /\ Len(received') = k /\ sent'[k + 1] = sent[k + 1]
          /\ ~parsing' => Len(buf') < Len(ahead)
      BY <3>1, <3>2, <1>2, <1>3, <1>4
    <3>6. /\ ahead \in Ahead(sent'[Len(received') + 1])
          /\ buf' \o stream' = ahead \o longer[Len(received') + 1]
      BY <3>1, <3>4, <3>5
    <3> QED BY <3>5, <3>6 DEF NextAhead
  <2> QED BY <2>1, <2>2
<1> QED BY <1>7, <1>8, <1>13, <1>14, Zenon DEF FramingInv

\* A step that leaves the bytes where they are and takes no message.
LEMMA Staying ==
  ASSUME FramingInv, UNCHANGED <<sent, received>>, FramingTypeOK',
         NEW after, Behind(after), NextAhead(after)'
  PROVE  FramingInv'
<1>1. Behind(after)'
  BY DEF Behind
<1>2. (Len(received) <= Len(sent) /\ \A i \in 1 .. Len(received) : received[i] = Meaning(sent[i]))'
  BY DEF FramingInv
<1> QED BY <1>1, <1>2, Zenon DEF FramingInv

LEMMA ReadsInv == ASSUME FramingInv, ReadsChunk PROVE FramingInv'
<1>1. PICK n \in 1 .. Len(stream) :
        buf' = buf \o SubSeq(stream, 1, n) /\ stream' = SubSeq(stream, n + 1, Len(stream))
  BY DEF ReadsChunk
<1>2. parsing' = TRUE /\ UNCHANGED <<sent, received>>
  BY DEF ReadsChunk
<1>3. FramingTypeOK /\ stream \in Seq(Byte) /\ buf \in Seq(Byte) /\ Len(stream) \in Nat
  BY SentIs DEF FramingInv, FramingTypeOK
<1>4. SubSeq(stream, 1, n) \in Seq(Byte) /\ SubSeq(stream, n + 1, Len(stream)) \in Seq(Byte)
  BY <1>3, PartOf
<1>5. SubSeq(stream, 1, n) \o SubSeq(stream, n + 1, Len(stream)) = stream
  <2>1. 1 \in 1 .. Len(stream) + 1 /\ n \in 1 - 1 .. Len(stream) /\ Len(stream) \in n .. Len(stream)
    BY <1>3
  <2>2. SubSeq(stream, 1, n) \o SubSeq(stream, n + 1, Len(stream)) = SubSeq(stream, 1, Len(stream))
    BY <2>1, <1>3, ConcatAdjacentSubSeq, Zenon
  <2> QED BY <2>2, <1>3, SubSeqFull, Zenon
<1>6. buf' \o stream' = buf \o stream
  <2>1. (buf \o SubSeq(stream, 1, n)) \o SubSeq(stream, n + 1, Len(stream))
          = buf \o (SubSeq(stream, 1, n) \o SubSeq(stream, n + 1, Len(stream)))
    BY <1>3, <1>4, Regrouped
  <2> QED BY <2>1, <1>1, <1>5
<1>7. FramingTypeOK'
  <2>1. buf' \in Seq(Byte) /\ stream' \in Seq(Byte)
    BY <1>1, <1>3, <1>4, ConcatProperties
  <2> QED BY <2>1, <1>2, <1>3 DEF FramingTypeOK
<1>8. PICK after : Behind(after) /\ NextAhead(after)
  BY DEF FramingInv
<1>9. NextAhead(after)'
  BY <1>2, <1>6, <1>8 DEF NextAhead
<1> QED BY <1>2, <1>7, <1>8, <1>9, Staying, Zenon

LEMMA LineInv == ASSUME FramingInv, TakesLine PROVE FramingInv'
<1> DEFINE k == Len(received)  m == sent[Len(received) + 1]
<1>1. /\ parsing /\ LineFirst(buf) /\ buf' = SubSeq(buf, NewlineAt(buf) + 1, Len(buf))
      /\ received' = Append(received, [kind |-> "line", channel |-> 0, handle |-> <<>>,
                                       payload |-> SubSeq(buf, 1, NewlineAt(buf) - 1)])
      /\ UNCHANGED <<sent, stream, parsing>>
  BY DEF TakesLine, Delivers, Rest
<1>2. FramingTypeOK /\ k \in Nat /\ Len(sent) \in Nat /\ k <= Len(sent)
  BY SentIs DEF FramingInv
<1>3. PICK after : Behind(after) /\ NextAhead(after)
  BY DEF FramingInv
<1>4. k < Len(sent)
  <2>1. k # Len(sent)
    BY <1>1, <1>2, <1>3, NothingAhead, Zenon
  <2> QED BY <2>1, <1>2
<1>5. PICK ahead \in Ahead(m) : buf \o stream = ahead \o after[k + 1]
  <2>1. k # Len(sent)
    BY <1>2, <1>4
  <2> QED BY <2>1, <1>3 DEF NextAhead
<1>6. /\ Sendable(m) /\ buf \in Seq(Byte)
      /\ \A j \in 1 .. Len(buf) : j <= Len(ahead) => buf[j] = ahead[j]
  BY <1>2, <1>3, <1>4, <1>5, Turn, Zenon
<1>7. /\ m.kind = "line" /\ NewlineAt(buf) = Len(ahead) /\ Len(ahead) <= Len(buf)
      /\ SubSeq(buf, 1, NewlineAt(buf) - 1) = m.payload
  BY <1>1, <1>5, <1>6, ReadsAhead, Zenon
<1>8. Meaning(m) = [kind |-> "line", channel |-> 0, handle |-> <<>>, payload |-> m.payload]
  <2>1. m.channel = 0 /\ m.handle \in Seq(Byte) /\ Len(m.handle) = 0
    BY <1>6, <1>7, MessageParts
  <2>2. m.handle = <<>>
    BY <2>1, EmptySeq
  <2> HIDE DEF m
  <2> QED BY <1>7, <2>1, <2>2 DEF Meaning
<1>9. buf' = SubSeq(buf, Len(ahead) + 1, Len(buf)) /\ received' = Append(received, Meaning(m))
  BY <1>1, <1>7, <1>8
<1> QED BY <1>1, <1>3, <1>4, <1>5, <1>7, <1>9, Taking, Zenon

LEMMA FrameInv == ASSUME FramingInv, TakesFrame PROVE FramingInv'
<1> DEFINE k == Len(received)  m == sent[Len(received) + 1]
<1>1. /\ parsing /\ ~LineFirst(buf) /\ FrameComplete(buf) /\ buf' = SubSeq(buf, FrameSize(buf) + 1, Len(buf))
      /\ ~Dropped(FrameData(buf)) => received' = Append(received, Decoded(FrameData(buf)))
      /\ UNCHANGED <<sent, stream, parsing>>
  BY DEF TakesFrame, Delivers, Rest
<1>2. FramingTypeOK /\ k \in Nat /\ Len(sent) \in Nat /\ k <= Len(sent)
  BY SentIs DEF FramingInv
<1>3. PICK after : Behind(after) /\ NextAhead(after)
  BY DEF FramingInv
<1>4. k < Len(sent)
  <2>1. ASSUME k = Len(sent) PROVE FALSE
    <3>1. SyncAt(buf) = 0
      BY <2>1, <1>2, <1>3, NothingAhead, Zenon
    <3> QED BY <3>1, <1>1 DEF FrameComplete
  <2> QED BY <2>1, <1>2
<1>5. PICK ahead \in Ahead(m) : buf \o stream = ahead \o after[k + 1]
  <2>1. k # Len(sent)
    BY <1>2, <1>4
  <2> QED BY <2>1, <1>3 DEF NextAhead
<1>6. /\ Sendable(m) /\ buf \in Seq(Byte)
      /\ \A j \in 1 .. Len(buf) : j <= Len(ahead) => buf[j] = ahead[j]
  BY <1>2, <1>3, <1>4, <1>5, Turn, Zenon
<1>7. /\ FrameSize(buf) = Len(ahead) /\ Len(ahead) <= Len(buf)
      /\ ~Dropped(FrameData(buf)) /\ Decoded(FrameData(buf)) = Meaning(m)
  <2>1. ~LineFirst(buf) /\ FrameComplete(buf) =>
          /\ FrameSize(buf) = Len(ahead) /\ Len(ahead) <= Len(buf)
          /\ ~Dropped(FrameData(buf)) /\ Decoded(FrameData(buf)) = Meaning(m)
    <3> HIDE DEF m
    <3> QED BY <1>5, <1>6, ReadsAhead
  <2> QED BY <2>1, <1>1, Zenon
<1>8. buf' = SubSeq(buf, Len(ahead) + 1, Len(buf)) /\ received' = Append(received, Meaning(m))
  BY <1>1, <1>7
<1> QED BY <1>1, <1>3, <1>4, <1>5, <1>7, <1>8, Taking, Zenon

LEMMA ResyncsInv == ASSUME FramingInv, Resyncs PROVE FramingInv'
<1> DEFINE k == Len(received)  m == sent[Len(received) + 1]
<1>1. /\ parsing /\ ~LineFirst(buf) /\ SyncAt(buf) > 1
      /\ buf' = SubSeq(buf, (SyncAt(buf) - 1) + 1, Len(buf))
      /\ UNCHANGED <<sent, stream, parsing, received>>
  BY DEF Resyncs, Rest
<1>2. FramingTypeOK /\ k \in Nat /\ Len(sent) \in Nat /\ k <= Len(sent)
  BY SentIs DEF FramingInv
<1>3. PICK after : Behind(after) /\ NextAhead(after)
  BY DEF FramingInv
<1>4. k < Len(sent)
  <2>1. ASSUME k = Len(sent) PROVE FALSE
    <3>1. SyncAt(buf) = 0
      BY <2>1, <1>2, <1>3, NothingAhead, Zenon
    <3> QED BY <3>1, <1>1
  <2> QED BY <2>1, <1>2
<1>5. PICK ahead \in Ahead(m) : buf \o stream = ahead \o after[k + 1]
  <2>1. k # Len(sent)
    BY <1>2, <1>4
  <2> QED BY <2>1, <1>3 DEF NextAhead
<1>6. /\ Sendable(m) /\ buf \in Seq(Byte) /\ stream \in Seq(Byte) /\ after[k + 1] \in Seq(Byte)
      /\ \A j \in 1 .. Len(buf) : j <= Len(ahead) => buf[j] = ahead[j]
  BY <1>2, <1>3, <1>4, <1>5, Turn, Zenon
<1>7. /\ m.kind # "line" /\ ahead = m.noise \o FrameOf(m)
      /\ SyncAt(buf) - 1 = Len(m.noise) /\ Len(m.noise) <= Len(buf)
  <2>1. ~LineFirst(buf) /\ SyncAt(buf) > 1 =>
          /\ m.kind # "line" /\ ahead = m.noise \o FrameOf(m)
          /\ SyncAt(buf) - 1 = Len(m.noise) /\ Len(m.noise) <= Len(buf)
    <3> HIDE DEF m
    <3> QED BY <1>5, <1>6, ReadsAhead
  <2> QED BY <2>1, <1>1
<1>8. FrameOf(m) \in Ahead(m) /\ FrameOf(m) \in Seq(Byte) /\ m.noise \in Seq(Byte)
  <2>1. FrameOf(m) \in Ahead(m)
    BY <1>7 DEF Ahead
  <2>2. FrameOf(m) \in Seq(Byte)
    BY <1>5, <1>6, <1>7, AheadIs, Zenon
  <2>3. m.noise \in Seq(Byte)
    BY <1>6, MessageParts, Zenon
  <2> QED BY <2>1, <2>2, <2>3
<1>9. buf' \in Seq(Byte) /\ buf' \o stream' = FrameOf(m) \o after[k + 1]
  <2> DEFINE f == FrameOf(m)  w == m.noise  r == after[k + 1]
  <2>1. f \in Seq(Byte) /\ w \in Seq(Byte) /\ r \in Seq(Byte) /\ f \o r \in Seq(Byte)
    BY <1>6, <1>8, ConcatProperties
  <2>2. buf \o stream = (w \o f) \o r /\ Len(w) <= Len(buf)
    BY <1>5, <1>7
  <2>3. buf' = SubSeq(buf, Len(w) + 1, Len(buf)) /\ stream' = stream
    BY <1>1, <1>7
  <2> HIDE DEF f, w, r
  <2>4. (w \o f) \o r = w \o (f \o r)
    BY <2>1, Regrouped
  <2>5. buf \o stream = w \o (f \o r)
    BY <2>2, <2>4
  <2>6. /\ SubSeq(buf, Len(w) + 1, Len(buf)) \in Seq(Byte)
        /\ SubSeq(buf, Len(w) + 1, Len(buf)) \o stream = f \o r
    <3>1. stream \in Seq(Byte) /\ buf \in Seq(Byte) /\ f \o r \in Seq(Byte) /\ w \in Seq(Byte)
      BY <2>1, <1>6
    <3> QED BY <3>1, <2>2, <2>5, TakenAhead, Zenon
  <2> QED BY <2>3, <2>6 DEF f, r
<1>10. FramingTypeOK'
  BY <1>1, <1>2, <1>9 DEF FramingTypeOK
<1>11. NextAhead(after)'
  <2>1. Len(received') # Len(sent') /\ Len(received') = k /\ sent'[k + 1] = m /\ parsing'
    BY <1>1, <1>2, <1>4
  <2>2. /\ FrameOf(m) \in Ahead(sent'[Len(received') + 1])
        /\ buf' \o stream' = FrameOf(m) \o after[Len(received') + 1]
    BY <2>1, <1>8, <1>9
  <2> QED BY <2>1, <2>2 DEF NextAhead
<1> QED BY <1>1, <1>3, <1>10, <1>11, Staying, Zenon

LEMMA WaitsInv == ASSUME FramingInv, WaitsForMore PROVE FramingInv'
<1> DEFINE k == Len(received)  m == sent[Len(received) + 1]
<1>1. /\ ~LineFirst(buf)
      /\ SyncAt(buf) = 0 \/ (SyncAt(buf) = 1 /\ ~FrameComplete(buf))
      /\ parsing' = FALSE /\ UNCHANGED <<sent, stream, buf, received>>
  BY DEF WaitsForMore
<1>2. FramingTypeOK /\ k \in Nat /\ Len(sent) \in Nat /\ k <= Len(sent)
  BY SentIs DEF FramingInv
<1>3. PICK after : Behind(after) /\ NextAhead(after)
  BY DEF FramingInv
<1>4. FramingTypeOK'
  BY <1>1, <1>2 DEF FramingTypeOK
<1>5. NextAhead(after)'
  <2>1. CASE k = Len(sent)
    BY <2>1, <1>1, <1>3 DEF NextAhead
  <2>2. CASE k # Len(sent)
    <3>1. PICK ahead \in Ahead(m) : buf \o stream = ahead \o after[k + 1]
      BY <2>2, <1>3 DEF NextAhead
    <3>2. k < Len(sent)
      BY <2>2, <1>2
    <3>3. /\ Sendable(m) /\ buf \in Seq(Byte)
          /\ \A j \in 1 .. Len(buf) : j <= Len(ahead) => buf[j] = ahead[j]
      BY <3>1, <3>2, <1>2, <1>3, Turn, Zenon
    <3>4. Len(buf) < Len(ahead)
      BY <3>1, <3>3, <1>1, ReadsAhead, Zenon
    <3> QED BY <2>2, <3>1, <3>4, <1>1 DEF NextAhead
  <2> QED BY <2>1, <2>2
<1> QED BY <1>1, <1>3, <1>4, <1>5, Staying, Zenon

\* The stream is cut into chunks of any size while the firmware goes on sending, and the
\* bytes of the payloads are any bytes; the messages still arrive in order, whole and once.
THEOREM MessagesArrive == FramingSpec => []MessagesAsSent
<1>1. FramingInit => FramingInv
  BY FramingInitInv
<1>2. FramingInv /\ [FramingNext]_framingVars => FramingInv'
  <2> SUFFICES ASSUME FramingInv, [FramingNext]_framingVars PROVE FramingInv'
    OBVIOUS
  <2>1. CASE FirmwareSends
    BY <2>1, SendsInv
  <2>2. CASE ReadsChunk
    BY <2>2, ReadsInv
  <2>3. CASE TakesLine
    BY <2>3, LineInv
  <2>4. CASE Resyncs
    BY <2>4, ResyncsInv
  <2>5. CASE TakesFrame
    BY <2>5, FrameInv
  <2>6. CASE WaitsForMore
    BY <2>6, WaitsInv
  <2>7. CASE UNCHANGED framingVars
    BY <2>7 DEF framingVars, FramingInv, FramingTypeOK, Behind, NextAhead
  <2> QED BY <2>1, <2>2, <2>3, <2>4, <2>5, <2>6, <2>7 DEF FramingNext
<1>3. FramingInv => MessagesAsSent
  <2> SUFFICES ASSUME FramingInv, stream = <<>>, ~parsing, Len(received) # Len(sent) PROVE FALSE
    BY DEF MessagesAsSent, FramingInv
  <2>1. FramingTypeOK /\ Len(received) < Len(sent)
    BY SentIs DEF FramingInv
  <2>2. PICK after : Behind(after) /\ NextAhead(after)
    BY DEF FramingInv
  <2>3. PICK ahead \in Ahead(sent[Len(received) + 1]) :
          buf \o stream = ahead \o after[Len(received) + 1] /\ Len(buf) < Len(ahead)
    BY <2>2 DEF NextAhead
  <2>4. /\ ahead \in Seq(Byte) /\ after[Len(received) + 1] \in Seq(Byte)
        /\ buf \in Seq(Byte) /\ stream \in Seq(Byte)
    BY <2>1, <2>2, <2>3, Turn, Zenon
  <2>5. buf = ahead \o after[Len(received) + 1]
    BY <2>3, <2>4, ConcatEmptySeq
  <2> DEFINE r == after[Len(received) + 1]
  <2>6. Len(buf) = Len(ahead) + Len(r) /\ Len(ahead) \in Nat /\ Len(r) \in Nat
    <3> HIDE DEF r
    <3>1. Len(ahead \o r) = Len(ahead) + Len(r) /\ Len(ahead) \in Nat /\ Len(r) \in Nat
      BY <2>4, ConcatProperties, LenProperties DEF r
    <3> QED BY <3>1, <2>5 DEF r
  <2> QED BY <2>3, <2>6
<1> QED BY <1>1, <1>2, <1>3, PTL DEF FramingSpec

=============================================================================
