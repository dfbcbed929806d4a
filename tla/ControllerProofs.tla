--------------------------- MODULE ControllerProofs ---------------------------
(***************************************************************************)
(* What is proved of a controller and of the session that opens and closes *)
(* them: its input reports as keys and layers (InputMapping), its sticks   *)
(* (StickMapping), its rumble scheduler (RumbleScheduler), the discovery   *)
(* session with suspend and resume (DiscoverySession), and the timer that  *)
(* the loops of all of them lease (TimerPolicy).  The five share no state: *)
(* each part below states its inductive invariant and proves it of its own *)
(* specification.                                                          *)
(***************************************************************************)
EXTENDS InputMapping, StickMapping, RumbleScheduler, DiscoverySession, TimerPolicy,
        FiniteSetTheorems, TLAPS

(* InputMapping: reports as keys, and the profile selection *)

\* The press that ended a selection is held only while its reports are kept from the pad.
ConsumedDrains ==
  /\ consumed \subseteq {Confirm, Cancel}
  /\ consumed # {} => selection.drain
  /\ selection.drain => selection.was

SelectionTyped ==
  selection \in [drain : BOOLEAN, was : BOOLEAN, confirm : BOOLEAN, cancel : BOOLEAN]

LeakInv == SelectionTyped /\ ConsumedDrains /\ NoConfirmLeak

\* A report during a selection shows nothing to the pad, and goes on doing so as long as the
\* press that ended it is held.
LEMMA SelectionDrains ==
  ASSUME LeakInv, NEW pressed, SelectionReport(pressed)
  PROVE  LeakInv'
<1> DEFINE held == Confirm \in pressed \/ Cancel \in pressed
           fired == {b \in {Confirm, Cancel} :
                       /\ selecting /\ selection.was /\ b \in pressed
                       /\ IF b = Confirm THEN ~selection.confirm ELSE ~selection.cancel}
           drain == Drains(held, fired)
           was == IF selecting THEN TRUE ELSE selection.was /\ held
<1>1. /\ selection' = [drain |-> drain, was |-> was, confirm |-> Confirm \in pressed, cancel |-> Cancel \in pressed]
      /\ out' = {} /\ consumed' = (consumed \cap pressed) \cup fired
      /\ selecting \/ selection.drain
  BY DEF SelectionReport
<1>2. consumed' \subseteq {Confirm, Cancel} /\ consumed' \subseteq pressed
  BY <1>1 DEF LeakInv, ConsumedDrains
<1>3. ASSUME consumed' # {} PROVE drain
  <2>1. CASE ~selecting
    BY <1>2, <1>3, <2>1 DEF Drains
  <2>2. CASE selecting
    <3>1. CASE fired # {}
      BY <2>2, <3>1 DEF Drains
    <3>2. CASE fired = {}
      <4>1. consumed # {}
        BY <1>1, <1>3, <3>2
      <4> QED BY <2>2, <4>1 DEF Drains, LeakInv, ConsumedDrains
    <3> QED BY <3>1, <3>2
  <2> QED BY <2>1, <2>2
<1>4. ASSUME drain PROVE was
  BY <1>1, <1>4 DEF Drains, LeakInv, ConsumedDrains
<1>5. drain \in BOOLEAN /\ was \in BOOLEAN /\ (Confirm \in pressed) \in BOOLEAN /\ (Cancel \in pressed) \in BOOLEAN
  <2>1. drain \in BOOLEAN
    BY Zenon DEF Drains
  <2>2. was \in BOOLEAN
    BY Zenon
  <2>3. (Confirm \in pressed) \in BOOLEAN /\ (Cancel \in pressed) \in BOOLEAN
    OBVIOUS
  <2> QED BY <2>1, <2>2, <2>3
<1> HIDE DEF drain, was, fired, held
<1>6. selection'.drain = drain /\ selection'.was = was /\ SelectionTyped'
  BY <1>1, <1>5 DEF SelectionTyped
<1> QED BY <1>1, <1>2, <1>3, <1>4, <1>6 DEF LeakInv, ConsumedDrains, NoConfirmLeak

\* A mapped report comes when nothing is consumed any more.
LEMMA MappedConsumesNothing ==
  ASSUME LeakInv, NEW pressed, NEW expired, NEW again, MappedReport(pressed, expired, again)
  PROVE  LeakInv'
<1>1. /\ ~selection.drain /\ selection' = [selection EXCEPT !.was = FALSE]
      /\ consumed' = consumed \cap pressed
  BY DEF MappedReport
<1>2. consumed' = {}
  BY <1>1 DEF LeakInv, ConsumedDrains
<1>3. SelectionTyped' /\ ~selection'.drain
  BY <1>1 DEF LeakInv, SelectionTyped
<1> QED BY <1>2, <1>3 DEF LeakInv, ConsumedDrains, NoConfirmLeak

LEMMA LeakKept == LeakInv /\ [MappingNext]_mappingVars => LeakInv'
<1> SUFFICES ASSUME LeakInv, [MappingNext]_mappingVars PROVE LeakInv'
  OBVIOUS
<1>1. CASE UNCHANGED <<selection, consumed, out>>
  BY <1>1 DEF LeakInv, SelectionTyped, ConsumedDrains, NoConfirmLeak
<1>2. CASE Report
  BY <1>2, SelectionDrains, MappedConsumesNothing DEF Report
<1>3. CASE GuiCycle \/ GuiConfirm \/ GuiCancel \/ GuiSwitch \/ KeysLifted
  BY <1>1, <1>3 DEF GuiCycle, GuiConfirm, GuiCancel, GuiSwitch, KeysLifted
<1>4. CASE UNCHANGED mappingVars
  BY <1>1, <1>4 DEF mappingVars
<1> QED BY <1>2, <1>3, <1>4 DEF MappingNext

\* The press that confirms or cancels a profile selection does not reach the pad, however
\* late the GUI thread ends the selection (enable_input_notify_callback, _ps_drain).
THEOREM ConfirmStaysIn == MappingSpec => []NoConfirmLeak
<1>1. MappingInit => LeakInv
  BY DEF MappingInit, LeakInv, SelectionTyped, ConsumedDrains, NoConfirmLeak
<1>2. LeakInv => NoConfirmLeak
  BY DEF LeakInv
<1> QED BY <1>1, <1>2, LeakKept, PTL DEF MappingSpec

-----------------------------------------------------------------------------

\* Every key source that is down is a button and a key.
KeysInv ==
  /\ raw \subseteq Btn
  /\ \A s \in down : s[1] \in Btn /\ s = <<s[1], s[2]>>
  /\ KeysBooked

LEMMA OfSource ==
  ASSUME NEW b, NEW keys, NEW s
  PROVE  s \in SourcesOf(b, keys) <=> s = <<s[1], s[2]>> /\ s[1] = b /\ s[2] \in keys
BY DEF SourcesOf

\* What a mapped report presses goes into a book, and what leaves a book is lifted or known
\* to be overwritten.
LEMMA ReportBooks ==
  ASSUME KeysInv, NEW pressed \in SUBSET Btn, NEW expired, NEW again, MappedReport(pressed, expired, again)
  PROVE  KeysInv'
<1> DEFINE targets == ComboTargets(pressed)
           muted == (IF targets # {} THEN suppressed \cup pressed ELSE suppressed) \cap pressed
           buttons == pressed \ muted
           now == Resolved(buttons)
           begins == Begins(now.layer, buttons)
           begun == [b \in begins |-> Keys(now.layer, b)]
           tapped == {b \in begins : Taps(now.layer, b)}
           ends == Ends(now.layer, buttons)
<1>1. /\ tapped \subseteq begins
      /\ expired \subseteq Running \ tapped /\ again \subseteq Lifted \ (begins \cup ends)
      /\ hold' = [b \in Btn |-> IF b \in begins \ tapped THEN begun[b]
                                ELSE IF b \in ends THEN {} ELSE hold[b]]
      /\ tap' = [b \in Btn |-> IF b \in tapped THEN begun[b]
                               ELSE IF b \in expired THEN {} ELSE tap[b]]
      /\ down' = (((down \cup UNION {SourcesOf(b, begun[b]) : b \in begins})
                     \ UNION {SourcesOf(b, hold[b]) : b \in ends})
                     \ UNION {SourcesOf(b, tap[b]) : b \in expired})
                   \cup UNION {SourcesOf(b, hold[b]) : b \in again}
      /\ orphans' = (orphans \cup UNION {SourcesOf(b, tap[b] \ begun[b]) : b \in tapped})
                      \cap down'
  BY DEF MappedReport
<1>2. /\ begins \subseteq Btn /\ ends \subseteq Btn /\ again \subseteq Btn /\ expired \subseteq Btn
      /\ \A b \in begins : hold[b] = {} /\ b \notin ends
  BY <1>1 DEF Begins, Ends, Worked, Running, Lifted
<1> HIDE DEF targets, muted, buttons, now, begins, begun, tapped, ends
<1>3. ASSUME NEW s \in down'
      PROVE  s[1] \in Btn /\ s = <<s[1], s[2]>> /\ (s[2] \in hold'[s[1]] \cup tap'[s[1]] \/ s \in orphans')
  <2>1. CASE \E b \in begins : s \in SourcesOf(b, begun[b])
    <3>1. s[1] \in begins /\ s[2] \in begun[s[1]] /\ s = <<s[1], s[2]>>
      BY <2>1, OfSource
    <3>2. CASE s[1] \in tapped
      BY <1>1, <1>2, <3>1, <3>2
    <3>3. CASE s[1] \notin tapped
      BY <1>1, <1>2, <3>1, <3>3
    <3> QED BY <1>2, <3>1, <3>2, <3>3
  <2>2. CASE \E b \in again : s \in SourcesOf(b, hold[b])
    <3>1. s[1] \in again /\ s[2] \in hold[s[1]] /\ s[1] \notin begins \cup ends /\ s = <<s[1], s[2]>>
      BY <1>1, <2>2, OfSource
    <3>2. hold'[s[1]] = hold[s[1]]
      BY <1>1, <1>2, <3>1
    <3> QED BY <1>2, <3>1, <3>2
  <2>3. CASE /\ s \in down /\ \A b \in ends : s \notin SourcesOf(b, hold[b])
             /\ \A b \in expired : s \notin SourcesOf(b, tap[b])
             /\ \A b \in begins : s \notin SourcesOf(b, begun[b])
    <3>1. s[1] \in Btn /\ s = <<s[1], s[2]>> /\ (s[2] \in hold[s[1]] \/ s[2] \in tap[s[1]] \/ s \in orphans)
      BY <2>3 DEF KeysInv, KeysBooked
    <3>2. CASE s \in orphans
      BY <1>1, <1>3, <3>1, <3>2
    <3>3. CASE s[2] \in hold[s[1]]
      <4>1. s[1] \notin begins /\ s[1] \notin ends
        BY <1>2, <2>3, <3>1, <3>3, OfSource
      <4> QED BY <1>1, <3>1, <3>3, <4>1
    <3>4. CASE s[2] \in tap[s[1]]
      <4>1. s[1] \notin expired
        BY <2>3, <3>1, <3>4, OfSource
      <4>2. CASE s[1] \notin tapped
        BY <1>1, <3>1, <3>4, <4>1, <4>2
      <4>3. CASE s[1] \in tapped
        <5>1. s[2] \notin begun[s[1]]
          BY <1>1, <2>3, <3>1, <4>3, OfSource
        <5>2. s \in SourcesOf(s[1], tap[s[1]] \ begun[s[1]])
          BY <3>1, <3>4, <5>1, OfSource
        <5> QED BY <1>1, <1>3, <3>1, <4>3, <5>2
      <4> QED BY <4>2, <4>3
    <3> QED BY <3>1, <3>2, <3>3, <3>4
  <2>4. \/ s \in UNION {SourcesOf(b, hold[b]) : b \in again}
        \/ /\ s \in down \/ s \in UNION {SourcesOf(b, begun[b]) : b \in begins}
           /\ s \notin UNION {SourcesOf(b, hold[b]) : b \in ends}
           /\ s \notin UNION {SourcesOf(b, tap[b]) : b \in expired}
    BY <1>1, <1>3
  <2> QED BY <2>1, <2>2, <2>3, <2>4
<1>4. raw' \subseteq Btn
  BY DEF MappedReport
<1> QED BY <1>3, <1>4 DEF KeysInv, KeysBooked

LEMMA KeysKept == KeysInv /\ [MappingNext]_mappingVars => KeysInv'
<1> SUFFICES ASSUME KeysInv, [MappingNext]_mappingVars PROVE KeysInv'
  OBVIOUS
<1>1. CASE UNCHANGED <<raw, down, hold, tap, orphans>>
  BY <1>1 DEF KeysInv, KeysBooked
<1>2. CASE Report
  <2>1. PICK changed \in SUBSET Btn :
          \/ SelectionReport((raw \ changed) \cup (changed \ raw))
          \/ \E expired \in SUBSET Running, again \in SUBSET Lifted :
               MappedReport((raw \ changed) \cup (changed \ raw), expired, again)
    BY <1>2 DEF Report
  <2> DEFINE pressed == (raw \ changed) \cup (changed \ raw)
  <2>2. pressed \in SUBSET Btn
    BY DEF KeysInv
  <2> HIDE DEF pressed
  <2>3. CASE SelectionReport(pressed)
    <3>1. raw' = pressed /\ UNCHANGED <<down, hold, tap, orphans>>
      BY <2>3 DEF SelectionReport
    <3> QED BY <2>2, <3>1 DEF KeysInv, KeysBooked
  <2>4. CASE \E expired \in SUBSET Running, again \in SUBSET Lifted :
               MappedReport(pressed, expired, again)
    BY <2>2, <2>4, ReportBooks
  <2> QED BY <2>1, <2>3, <2>4 DEF pressed
<1>3. CASE GuiCycle \/ GuiConfirm \/ GuiCancel \/ GuiSwitch
  BY <1>1, <1>3 DEF GuiCycle, GuiConfirm, GuiCancel, GuiSwitch
<1>4. CASE KeysLifted
  BY <1>4 DEF KeysLifted, KeysInv, KeysBooked
<1>5. CASE UNCHANGED mappingVars
  BY <1>1, <1>5 DEF mappingVars
<1> QED BY <1>2, <1>3, <1>4, <1>5 DEF MappingNext

(* Every variable of InputMapping keeps its type *)

LEMMA KeysTyped ==
  ASSUME MappingTypeOK, NEW l \in Layer, NEW b \in Btn
  PROVE  Mapped(l, b) \in Action /\ Keys(l, b) \subseteq HostKey
<1>1. layout \in Layout /\ profile \in Profile
  BY MappingAssumption DEF MappingTypeOK
<1>2. layout.maps \in [Profile -> [Layer -> [Btn -> Action]]]
  BY <1>1 DEF Layout
<1>3. layout.maps[profile] \in [Layer -> [Btn -> Action]]
  BY <1>1, <1>2
<1>4. layout.maps[profile][l] \in [Btn -> Action]
  BY <1>3
<1>5. Mapped(l, b) \in Action
  BY <1>4 DEF Mapped
<1>6. Mapped(l, b).keys \subseteq HostKey
  BY <1>5 DEF Action
<1> QED BY <1>5, <1>6 DEF Keys

LEMMA ResolvedTyped ==
  ASSUME NEW buttons \in SUBSET Btn
  PROVE  /\ Resolved(buttons).layer \in Layer
         /\ Resolved(buttons).shift \in [toggle : BOOLEAN, armed : SUBSET Btn, gyro : BOOLEAN]
         /\ Resolved(buttons).gyro \in [toggle : BOOLEAN, armed : SUBSET Btn, on : BOOLEAN]
<1> DEFINE gyro0 == Flipped(gyro.toggle, Edge("gyro", "base", buttons, gyro.armed))
           on0 == gyro0 # Held("gyro", "base", buttons)
           gyroShift == (gyro.on \/ on0) /\ ModeShiftOn
           toggle == ~(shift.gyro /\ ~gyroShift)
                       /\ Flipped(shift.toggle, Edge("shift", "base", buttons, shift.armed))
           shifted == gyroShift # (toggle # Held("shift", "base", buttons))
           own == shifted /\ ~ModeShiftOn
           gyro1 == IF own THEN Flipped(gyro0, Edge("gyro", "shifted", buttons, gyro.armed))
                           ELSE gyro0
           on1 == gyro1 # (\/ Held("gyro", "base", buttons)
                           \/ own /\ Held("gyro", "shifted", buttons))
           arms == {b \in buttons : Mapped("base", b).kind = "shift"}
           gyros == {b \in buttons : \/ Mapped("base", b).kind = "gyro"
                                     \/ own /\ Mapped("shifted", b).kind = "gyro"}
<1>1. gyro0 \in BOOLEAN
  BY DEF Flipped
<1>2. gyro1 \in BOOLEAN
  BY <1>1 DEF Flipped
<1>3. toggle \in BOOLEAN /\ gyroShift \in BOOLEAN /\ on1 \in BOOLEAN
  OBVIOUS
<1>4. arms \subseteq Btn /\ gyros \subseteq Btn
  OBVIOUS
<1>5. Resolved(buttons) = [layer |-> IF shifted THEN "shifted" ELSE "base",
                           shift |-> [toggle |-> toggle, gyro |-> gyroShift, armed |-> arms],
                           gyro |-> [toggle |-> gyro1, armed |-> gyros, on |-> on1]]
  BY Zenon DEF Resolved
<1> HIDE DEF gyro0, on0, gyroShift, toggle, shifted, own, gyro1, on1, arms, gyros
<1>6. Resolved(buttons).layer \in Layer
  BY <1>5 DEF Layer
<1>7. Resolved(buttons).shift = [toggle |-> toggle, gyro |-> gyroShift, armed |-> arms]
      /\ Resolved(buttons).gyro = [toggle |-> gyro1, armed |-> gyros, on |-> on1]
  BY <1>5
<1> QED BY <1>2, <1>3, <1>4, <1>6, <1>7

LEMMA LockTyped ==
  ASSUME MappingTypeOK, NEW l, NEW buttons \in SUBSET Btn
  PROVE  NewLock(l, buttons) \in [toggle : BOOLEAN, held : SUBSET Btn]
<1> DEFINE locks == {b \in Btn : /\ Mapped("base", b).kind # "shift"
                                 /\ Mapped(l, b).kind = "lock" /\ Mapped(l, b).tap}
           fresh == (locks \cap buttons) \ lock.held
           turned == lock.toggle # (Cardinality(fresh) % 2 = 1)
           held == (lock.held \ locks) \cup (locks \cap buttons)
<1>1. NewLock(l, buttons) = [toggle |-> turned, held |-> held]
  BY Zenon DEF NewLock
<1>2. lock.held \subseteq Btn
  BY DEF MappingTypeOK
<1>3. turned \in BOOLEAN
  BY Zenon
<1>4. held \subseteq Btn
  BY <1>2
<1> HIDE DEF locks, fresh, turned, held
<1> QED BY <1>1, <1>3, <1>4

\* A mapped report: the books, the posts to the GUI thread and the layers.
LEMMA MappedTyped ==
  ASSUME MappingTypeOK, NEW pressed \in SUBSET Btn, NEW expired, NEW again,
         MappedReport(pressed, expired, again)
  PROVE  MappingTypeOK'
<1> DEFINE targets == ComboTargets(pressed)
           muted == (IF targets # {} THEN suppressed \cup pressed ELSE suppressed) \cap pressed
           buttons == pressed \ muted
           now == Resolved(buttons)
           begins == Begins(now.layer, buttons)
           begun == [b \in begins |-> Keys(now.layer, b)]
           tapped == {b \in begins : Taps(now.layer, b)}
           ends == Ends(now.layer, buttons)
           asks == \/ \E b \in pressed : Mapped(layer, b).kind = "profile"
                   \/ \E b \in buttons : Mapped(now.layer, b).kind = "profile"
<1>1. /\ shift' = now.shift /\ gyro' = now.gyro /\ layer' = now.layer
      /\ lock' = NewLock(now.layer, buttons)
      /\ hold' = [b \in Btn |-> IF b \in begins \ tapped THEN begun[b]
                                ELSE IF b \in ends THEN {} ELSE hold[b]]
      /\ tap' = [b \in Btn |-> IF b \in tapped THEN begun[b]
                               ELSE IF b \in expired THEN {} ELSE tap[b]]
      /\ tapHeld' = (tapHeld \ ends) \cup tapped
  BY DEF MappedReport
<1>2. /\ down' = (((down \cup UNION {SourcesOf(b, begun[b]) : b \in begins})
                     \ UNION {SourcesOf(b, hold[b]) : b \in ends})
                     \ UNION {SourcesOf(b, tap[b]) : b \in expired})
                   \cup UNION {SourcesOf(b, hold[b]) : b \in again}
      /\ orphans' = (orphans \cup UNION {SourcesOf(b, tap[b] \ begun[b]) : b \in tapped})
                      \cap down'
      /\ again \subseteq Lifted /\ suppressed' = muted
      /\ combo' = IF targets = {} THEN NoProfile ELSE CHOOSE p \in targets : TRUE
      /\ posted' = posted \cup {Post("switch", p) : p \in {combo'} \ {combo, NoProfile}}
                          \cup IF asks /\ targets = {} /\ ~prevChange
                               THEN {Post("cycle", NoProfile)} ELSE {}
  BY DEF MappedReport
<1>3. /\ prevChange' = asks /\ selection' = [selection EXCEPT !.was = FALSE]
      /\ raw' = pressed /\ consumed' = consumed \cap pressed
      /\ out' = {b \in buttons : /\ ~Skipped(now.layer, b) /\ Mapped(now.layer, b).kind = "pad"}
      /\ UNCHANGED <<layout, profile, selecting>>
  BY DEF MappedReport
<1>4. targets \subseteq Profile /\ muted \subseteq Btn /\ buttons \in SUBSET Btn
  BY DEF ComboTargets
<1>5. begins \subseteq Btn /\ tapped \subseteq begins /\ again \subseteq Btn
  BY <1>2 DEF Begins, Lifted
<1>6. asks \in BOOLEAN
  BY Zenon
<1>7. out' \subseteq Btn
  BY <1>3
<1>8. now.layer \in Layer
  BY <1>4, ResolvedTyped
<1>9. \A b \in begins : begun[b] \subseteq HostKey
  BY <1>5, <1>8, KeysTyped
<1> HIDE DEF asks, begun, begins, tapped, ends, targets, muted
<1>10. /\ shift' \in [toggle : BOOLEAN, armed : SUBSET Btn, gyro : BOOLEAN]
       /\ gyro' \in [toggle : BOOLEAN, armed : SUBSET Btn, on : BOOLEAN] /\ layer' \in Layer
  BY <1>1, <1>4, ResolvedTyped
<1>11. lock' \in [toggle : BOOLEAN, held : SUBSET Btn]
  BY <1>1, <1>4, LockTyped
<1> HIDE DEF now, buttons
<1>12. hold' \in [Btn -> SUBSET HostKey]
  BY <1>1, <1>5, <1>9 DEF MappingTypeOK
<1>13. tap' \in [Btn -> SUBSET HostKey]
  BY <1>1, <1>5, <1>9 DEF MappingTypeOK
<1>14. tapHeld' \subseteq Btn
  BY <1>1, <1>5 DEF MappingTypeOK
<1>15. down' \subseteq Btn \X HostKey
  <2>1. \A b \in begins : SourcesOf(b, begun[b]) \subseteq Btn \X HostKey
    BY <1>5, <1>9 DEF SourcesOf
  <2>2. \A b \in again : SourcesOf(b, hold[b]) \subseteq Btn \X HostKey
    BY <1>5 DEF SourcesOf, MappingTypeOK
  <2>3. down \subseteq Btn \X HostKey
    BY DEF MappingTypeOK
  <2> HIDE DEF MappingTypeOK
  <2> QED BY <1>2, <2>1, <2>2, <2>3
<1>16. orphans' \subseteq Btn \X HostKey
  BY <1>2, <1>15
<1>17. combo' \in Profile \cup {NoProfile}
  BY <1>2, <1>4
<1>18. posted' \subseteq [what : {"cycle", "confirm", "cancel", "switch"},
                          to : Profile \cup {NoProfile}]
  <2>1. posted \subseteq [what : {"cycle", "confirm", "cancel", "switch"},
                          to : Profile \cup {NoProfile}]
    BY DEF MappingTypeOK
  <2>2. ASSUME NEW p \in {combo'} \ {combo, NoProfile}
        PROVE  Post("switch", p) \in [what : {"cycle", "confirm", "cancel", "switch"},
                                      to : Profile \cup {NoProfile}]
    BY <1>17, <2>2 DEF Post
  <2>3. Post("cycle", NoProfile) \in [what : {"cycle", "confirm", "cancel", "switch"},
                                      to : Profile \cup {NoProfile}]
    BY DEF Post
  <2> QED BY <1>2, <2>1, <2>2, <2>3
<1>19. selection' \in [drain : BOOLEAN, was : BOOLEAN, confirm : BOOLEAN, cancel : BOOLEAN]
  BY <1>3 DEF MappingTypeOK
<1>20. /\ layout' \in Layouts /\ profile' \in Profile /\ selecting' \in BOOLEAN
       /\ suppressed' \subseteq Btn /\ prevChange' \in BOOLEAN
       /\ raw' \subseteq Btn /\ consumed' \subseteq Btn
  BY <1>2, <1>3, <1>4, <1>6 DEF MappingTypeOK
<1> QED BY <1>7, <1>10, <1>11, <1>12, <1>13, <1>14, <1>15, <1>16, <1>17, <1>18, <1>19, <1>20
        DEF MappingTypeOK

LEMMA SelectionTypes ==
  ASSUME MappingTypeOK, NEW pressed \in SUBSET Btn, SelectionReport(pressed)
  PROVE  MappingTypeOK'
<1> DEFINE held == Confirm \in pressed \/ Cancel \in pressed
           fired == {b \in {Confirm, Cancel} :
                       /\ selecting /\ selection.was /\ b \in pressed
                       /\ IF b = Confirm THEN ~selection.confirm ELSE ~selection.cancel}
           drain == Drains(held, fired)
           was == IF selecting THEN TRUE ELSE selection.was /\ held
<1>1. /\ selection' = [drain |-> drain, was |-> was, confirm |-> Confirm \in pressed, cancel |-> Cancel \in pressed]
      /\ posted' = posted \cup {Post("confirm", NoProfile) : b \in fired \cap {Confirm}}
                          \cup {Post("cancel", NoProfile) : b \in fired \cap {Cancel}}
      /\ raw' = pressed /\ out' = {} /\ consumed' = (consumed \cap pressed) \cup fired
      /\ UNCHANGED <<layout, profile, selecting, shift, gyro, layer, lock, hold, tap, tapHeld,
                     down, suppressed, combo, prevChange, orphans>>
  BY DEF SelectionReport
<1>2. fired \subseteq Btn
  BY MappingAssumption
<1>3. /\ drain \in BOOLEAN /\ was \in BOOLEAN
      /\ (Confirm \in pressed) \in BOOLEAN /\ (Cancel \in pressed) \in BOOLEAN
  <2>1. drain \in BOOLEAN
    BY Zenon DEF Drains
  <2>2. was \in BOOLEAN
    BY Zenon
  <2>3. (Confirm \in pressed) \in BOOLEAN /\ (Cancel \in pressed) \in BOOLEAN
    OBVIOUS
  <2> QED BY <2>1, <2>2, <2>3
<1> HIDE DEF drain, was, fired, held
<1>4. selection' \in [drain : BOOLEAN, was : BOOLEAN, confirm : BOOLEAN, cancel : BOOLEAN]
  BY <1>1, <1>3
<1>5. posted' \subseteq [what : {"cycle", "confirm", "cancel", "switch"},
                         to : Profile \cup {NoProfile}]
  BY <1>1 DEF MappingTypeOK, Post
<1>6. raw' \subseteq Btn /\ out' \subseteq Btn /\ consumed' \subseteq Btn
  BY <1>1, <1>2 DEF MappingTypeOK
<1> QED BY <1>1, <1>4, <1>5, <1>6 DEF MappingTypeOK

LEMMA MappingTypes == MappingTypeOK /\ [MappingNext]_mappingVars => MappingTypeOK'
<1> SUFFICES ASSUME MappingTypeOK, [MappingNext]_mappingVars PROVE MappingTypeOK'
  OBVIOUS
<1>1. CASE Report
  <2>1. PICK changed \in SUBSET Btn :
          \/ SelectionReport((raw \ changed) \cup (changed \ raw))
          \/ \E expired \in SUBSET Running, again \in SUBSET Lifted :
               MappedReport((raw \ changed) \cup (changed \ raw), expired, again)
    BY <1>1 DEF Report
  <2> DEFINE pressed == (raw \ changed) \cup (changed \ raw)
  <2>2. pressed \in SUBSET Btn
    BY DEF MappingTypeOK
  <2> HIDE DEF pressed
  <2> QED BY <2>1, <2>2, SelectionTypes, MappedTyped DEF pressed
<1>2. CASE GuiCycle \/ GuiConfirm \/ GuiCancel
  BY <1>2 DEF GuiCycle, GuiConfirm, GuiCancel, MappingTypeOK
<1>3. CASE GuiSwitch
  <2>1. layout.focus \subseteq Profile
    BY MappingAssumption DEF MappingTypeOK, Layout
  <2>2. profile' \in Profile /\ posted' \subseteq posted
    BY <1>3, <2>1 DEF GuiSwitch
  <2> QED BY <1>3, <2>2 DEF GuiSwitch, MappingTypeOK
<1>4. CASE KeysLifted
  BY <1>4 DEF KeysLifted, MappingTypeOK
<1>5. CASE UNCHANGED mappingVars
  BY <1>5 DEF mappingVars, MappingTypeOK
<1> QED BY <1>1, <1>2, <1>3, <1>4, <1>5 DEF MappingNext

\* No key that the mapping loop pressed stays down without a book that will lift it, but
\* for a tap's that its successor overwrites (_process_custom_keys and the key releases of
\* enable_input_notify_callback): for every configuration and every order of reports.
THEOREM KeysLiftedLater == MappingSpec => []KeysOwed
<1>1. MappingInit => KeysInv
  BY DEF MappingInit, KeysInv, KeysBooked
<1>2. MappingInit => MappingTypeOK
  <2>1. /\ [drain |-> FALSE, was |-> FALSE, confirm |-> FALSE, cancel |-> FALSE]
             \in [drain : BOOLEAN, was : BOOLEAN, confirm : BOOLEAN, cancel : BOOLEAN]
        /\ [toggle |-> FALSE, armed |-> {}, gyro |-> FALSE]
             \in [toggle : BOOLEAN, armed : SUBSET Btn, gyro : BOOLEAN]
        /\ [toggle |-> FALSE, armed |-> {}, on |-> FALSE]
             \in [toggle : BOOLEAN, armed : SUBSET Btn, on : BOOLEAN]
        /\ [toggle |-> FALSE, held |-> {}] \in [toggle : BOOLEAN, held : SUBSET Btn]
        /\ [b \in Btn |-> {}] \in [Btn -> SUBSET HostKey] /\ "base" \in Layer
    BY DEF Layer
  <2> QED BY <2>1 DEF MappingInit, MappingTypeOK
<1>3. KeysInv /\ MappingTypeOK => KeysOwed
  BY DEF KeysInv, KeysOwed
<1> QED BY <1>1, <1>2, <1>3, KeysKept, MappingTypes, PTL DEF MappingSpec

\* A report without a button ends what that button held, unless the mapping loop skips it
\* (enable_input_notify_callback).
THEOREM HoldsEnd == MappingSpec => HoldEnds
<1>1. ASSUME NEW pressed, NEW expired, NEW again, MappedReport(pressed, expired, again),
             NEW b \in Btn, b \notin pressed
      PROVE  hold'[b] = {} \/ Skipped(layer', b)
  <2> DEFINE targets == ComboTargets(pressed)
             muted == (IF targets # {} THEN suppressed \cup pressed ELSE suppressed) \cap pressed
             buttons == pressed \ muted
             now == Resolved(buttons)
             begins == Begins(now.layer, buttons)
             begun == [c \in begins |-> Keys(now.layer, c)]
             tapped == {c \in begins : Taps(now.layer, c)}
             ends == Ends(now.layer, buttons)
  <2>1. /\ layer' = now.layer
        /\ hold' = [c \in Btn |-> IF c \in begins \ tapped THEN begun[c]
                                  ELSE IF c \in ends THEN {} ELSE hold[c]]
    BY <1>1 DEF MappedReport
  <2>2. b \notin begins
    BY <1>1 DEF Begins
  <2>3. b \in ends \/ Skipped(now.layer, b) \/ hold[b] = {}
    BY <1>1 DEF Ends, Worked
  <2> HIDE DEF begins, begun, tapped, ends, now
  <2> QED BY <2>1, <2>2, <2>3
<1>2. [MappingNext]_mappingVars =>
        [LET expired == {b \in Running : tap'[b] = {}}
             again == {b \in Lifted : SourcesOf(b, hold[b]) \subseteq down'}
         IN  MappedReport(raw', expired, again)
               => \A b \in Btn \ raw' : hold'[b] = {} \/ Skipped(layer', b)]_mappingVars
  BY <1>1
<1> QED BY <1>2, PTL DEF MappingSpec, HoldEnds

-----------------------------------------------------------------------------
(* StickMapping *)

LEMMA StickStarts == StickInit => SticksBooked
BY DEF StickInit, SticksBooked, KeyModes, StickModes

\* A report leaves nothing down that its books do not hold, and a stick whose mode maps no
\* keys with no books.
LEMMA ReportOwes ==
  ASSUME SticksBooked, NEW l, NEW at, NEW expired, SticksReport(l, at, expired)
  PROVE  SticksBooked'
<1> DEFINE view == [k \in Stick |-> Seen(k, l[k], at[k])]
           kept == {t \in releases : ~Changed(t[1], view[t[1]])}
           new == UNION {TapsAt(k, view[k]) : k \in Stick}
<1>1. /\ stickMode' = [k \in Stick |-> view[k].mode]
      /\ tokens' = [k \in Stick |-> HeldAt(view[k])]
      /\ releases' = (kept \ expired) \cup new
      /\ vector' = [k \in Stick |-> IF view[k].mode # "Mouse" THEN "none"
                                    ELSE IF at[k] = Centre THEN "still" ELSE "moves"]
      /\ holdDown' = [k \in Stick |->
           LET held == IF Changed(k, view[k]) THEN {} ELSE tokens[k]
           IN  ((holdDown[k] \cap held) \cap tokens'[k]) \cup ((tokens'[k] \ held) \ PadToken)]
      /\ tapDown' = ((tapDown \cap kept) \ expired) \cup {t \in new : t[4] \notin PadToken}
  BY DEF SticksReport
<1>2. \A k \in Stick : view[k].mode \notin KeyModes => view[k].at = Centre
  BY DEF Seen
<1>3. ASSUME NEW k \in Stick, NEW t \in TapsAt(k, view[k]) PROVE t[1] = k
  BY <1>3 DEF TapsAt
<1>4. ASSUME NEW k \in Stick, view[k].at = Centre PROVE TapsAt(k, view[k]) = {} /\ HeldAt(view[k]) = {}
  <2>1. Triggers(k, view[k]) = {}
    BY <1>4 DEF Triggers
  <2>2. TapsAt(k, view[k]) = {}
    BY <2>1 DEF TapsAt
  <2>3. Dirs(view[k].at) = {}
    BY <1>4 DEF Dirs
  <2>4. HeldAt(view[k]) = {}
    BY <2>3 DEF HeldAt
  <2> QED BY <2>2, <2>4
<1> HIDE DEF view
<1>5. tapDown' \subseteq releases'
  BY <1>1
<1>6. ASSUME NEW k \in Stick
      PROVE  /\ holdDown'[k] \subseteq tokens'[k]
             /\ vector'[k] # "none" <=> stickMode'[k] = "Mouse"
  BY <1>1
<1>7. ASSUME NEW k \in Stick, stickMode'[k] \notin KeyModes
      PROVE  tokens'[k] = {} /\ \A t \in releases' : t[1] # k
  <2>1. view[k].mode \notin KeyModes /\ view[k].at = Centre
    BY <1>1, <1>2, <1>7
  <2>2. tokens'[k] = {}
    BY <1>1, <1>4, <2>1
  <2>3. ASSUME NEW t \in kept, t[1] = k PROVE FALSE
    <3>1. stickMode[k] = view[k].mode /\ t \in releases
      BY <2>3 DEF Changed
    <3> QED BY <2>1, <2>3, <3>1 DEF SticksBooked
  <2>4. ASSUME NEW t \in new, t[1] = k PROVE FALSE
    <3>1. PICK s \in Stick : t \in TapsAt(s, view[s])
      OBVIOUS
    <3>2. s = k
      BY <1>3, <2>4, <3>1
    <3> QED BY <1>4, <2>1, <3>1, <3>2
  <2> QED BY <1>1, <2>2, <2>3, <2>4
<1> QED BY <1>5, <1>6, <1>7 DEF SticksBooked

\* What the sticks are mapped to, and the tokens and taps that a sector stands for.
LEMMA SeenTyped ==
  ASSUME StickTypeOK, NEW k \in Stick, NEW l \in StickLayer, NEW at \in Sector \cup {Centre}
  PROVE  /\ Seen(k, l, at).mode \in StickModes /\ Seen(k, l, at).at \in Sector \cup {Centre}
         /\ HeldAt(Seen(k, l, at)) \subseteq Token
         /\ Triggers(k, Seen(k, l, at)) \subseteq Direction
         /\ TapsAt(k, Seen(k, l, at)) \subseteq Tap
<1> DEFINE v == Seen(k, l, at)
<1>1. stickSetting[k][l] \in Setting
  BY StickAssumption DEF StickTypeOK
<1>2. v.mode \in StickModes /\ v.at \in Sector \cup {Centre} /\ v.set = stickSetting[k][l]
  BY <1>1 DEF Seen, Setting
<1>3. v.set.hold \in [Direction -> SUBSET Token]
  BY <1>1, <1>2 DEF Setting
<1> HIDE DEF v
<1>4. Dirs(v.at) \subseteq Direction
  BY <1>2 DEF Dirs, Direction
<1>5. HeldAt(v) \subseteq Token
  BY <1>3, <1>4 DEF HeldAt
<1>6. v.at # Centre => DirsOf[v.at] \subseteq Direction
  BY <1>2 DEF Direction
<1>7. Triggers(k, v) \subseteq Direction
  BY <1>6 DEF Triggers
<1>8. v.at = Centre => Triggers(k, v) = {}
  BY DEF Triggers
<1>9. TapsAt(k, v) \subseteq Tap
  <2>1. CASE v.at = Centre
    BY <1>8, <2>1 DEF TapsAt
  <2>2. CASE v.at # Centre
    BY <1>2, <1>7, <2>2 DEF TapsAt, Tap
  <2> QED BY <2>1, <2>2
<1> QED BY <1>2, <1>5, <1>7, <1>9 DEF v

LEMMA SticksTyped ==
  ASSUME StickTypeOK, NEW c \in StickLayer, NEW at \in [Stick -> Sector \cup {Centre}], NEW expired,
         SticksReport([k \in Stick |-> c], at, expired)
  PROVE  StickTypeOK'
<1> DEFINE l == [k \in Stick |-> c]
           view == [k \in Stick |-> Seen(k, l[k], at[k])]
           kept == {t \in releases : ~Changed(t[1], view[t[1]])}
           new == UNION {TapsAt(k, view[k]) : k \in Stick}
<1>1. /\ stickMode' = [k \in Stick |-> view[k].mode]
      /\ tokens' = [k \in Stick |-> HeldAt(view[k])]
      /\ tapArmed' = [k \in Stick |-> view[k].at]
      /\ triggered' = [k \in Stick |->
           IF view[k].at = Centre THEN {}
           ELSE IF ~Changed(k, view[k]) /\ view[k].at = tapArmed[k] THEN triggered[k]
           ELSE Triggers(k, view[k])]
      /\ releases' = (kept \ expired) \cup new
      /\ vector' = [k \in Stick |-> IF view[k].mode # "Mouse" THEN "none"
                                    ELSE IF at[k] = Centre THEN "still" ELSE "moves"]
  BY DEF SticksReport
<1>2. /\ holdDown' = [k \in Stick |->
           LET held == IF Changed(k, view[k]) THEN {} ELSE tokens[k]
           IN  ((holdDown[k] \cap held) \cap tokens'[k]) \cup ((tokens'[k] \ held) \ PadToken)]
      /\ tapDown' = ((tapDown \cap kept) \ expired) \cup {t \in new : t[4] \notin PadToken}
      /\ padOut' = PadToken \cap (UNION {tokens'[k] : k \in Stick}
                                    \cup {t[4] : t \in releases'})
      /\ UNCHANGED stickSetting
  BY DEF SticksReport
<1>3. \A k \in Stick : /\ view[k].mode \in StickModes /\ view[k].at \in Sector \cup {Centre}
                       /\ HeldAt(view[k]) \subseteq Token /\ Triggers(k, view[k]) \subseteq Direction
                       /\ TapsAt(k, view[k]) \subseteq Tap
  BY SeenTyped
<1> HIDE DEF view
<1>4. new \subseteq Tap /\ kept \subseteq Tap
  BY <1>3 DEF StickTypeOK
<1> HIDE DEF new, kept
<1>5. /\ stickMode' \in [Stick -> StickModes \cup {"None"}] /\ tokens' \in [Stick -> SUBSET Token]
      /\ tapArmed' \in [Stick -> Sector \cup {Centre}]
  BY <1>1, <1>3
<1>6. triggered' \in [Stick -> SUBSET Direction]
  BY <1>1, <1>3 DEF StickTypeOK
<1>7. releases' \subseteq Tap /\ tapDown' \subseteq Tap /\ padOut' \subseteq PadToken
  BY <1>1, <1>2, <1>4 DEF StickTypeOK
<1>8. vector' \in [Stick -> {"none", "still", "moves"}]
  BY <1>1
<1>9. holdDown' \in [Stick -> SUBSET (Token \ PadToken)]
  <2>1. \A k \in Stick : tokens'[k] \subseteq Token /\ holdDown[k] \subseteq Token \ PadToken
    BY <1>5 DEF StickTypeOK
  <2>2. \A k \in Stick : holdDown'[k] \subseteq Token \ PadToken
    BY <1>2, <2>1
  <2> QED BY <1>2, <2>2
<1> QED BY <1>2, <1>5, <1>6, <1>7, <1>8, <1>9 DEF StickTypeOK

\* Each key that a stick holds down is in the book of its held keys or of its taps, and a
\* stick that is a mouse, or passed on, has none, for every mapping of sticks and sectors
\* (_apply_shared_joystick_mapping, _clear_joystick_input_state).
THEOREM StickKeysLifted == StickSpec => []StickKeysOwed
<1>1. ASSUME SticksBooked, SticksLifted PROVE SticksBooked'
  BY <1>1 DEF SticksLifted, SticksBooked
<1>2. ASSUME SticksBooked, UNCHANGED stickVars PROVE SticksBooked'
  BY <1>2 DEF stickVars, SticksBooked
<1>3. SticksBooked /\ [StickNext]_stickVars => SticksBooked'
  BY <1>1, <1>2, ReportOwes DEF StickNext
<1>4. ASSUME StickTypeOK, SticksLifted PROVE StickTypeOK'
  BY <1>4 DEF SticksLifted, StickTypeOK
<1>5. ASSUME StickTypeOK, UNCHANGED stickVars PROVE StickTypeOK'
  BY <1>5 DEF stickVars, StickTypeOK
<1>6. StickTypeOK /\ [StickNext]_stickVars => StickTypeOK'
  BY <1>4, <1>5, SticksTyped DEF StickNext
<1>7. StickInit => StickTypeOK
  BY DEF StickInit, StickTypeOK
<1>8. StickTypeOK /\ SticksBooked => StickKeysOwed
  BY DEF StickKeysOwed
<1> QED BY StickStarts, <1>3, <1>6, <1>7, <1>8, PTL DEF StickSpec

-----------------------------------------------------------------------------
(* RumbleScheduler *)

\* What the game wants and the mark that it leaves: a value the scheduler has not read is
\* dirty, and a rumble that counts as stopped is not wanted, or the poke is still to say so.
WantedIsMarked ==
  /\ sched = "read" /\ ~schedFrame /\ game.latest => game.dirty
  /\ ~outrun /\ saving = "Auto" /\ rumbleStopped /\ game.latest => game.pokes = "marks"

\* Who sleeps has seen the mark, or the event is set or about to be.
SleepsStopped ==
  sched = "sleeps" => saving = "Auto" /\ (rumbleStopped \/ schedEvent \/ game.pokes = "sets")

\* The silent frames since the last buzz are under way behind it, were lost, or, if none
\* was, one of them has reached the motor.
ZerosFollow ==
  /\ \A k \in DOMAIN writing : writing[k] = TRUE => zeroCount + k <= Len(writing) + Len(sends) + lost
  /\ \A k \in DOMAIN sends : sends[k] = TRUE => zeroCount + k <= Len(sends) + lost
  /\ motor = TRUE => zeroCount <= Len(writing) + Len(sends) + lost

\* A rumble that counts as stopped had its silent frames, or there was none yet.
StoppedBySilence ==
  rumbleStopped => \/ zeroCount = ZeroFrames
                   \/ /\ motor = FALSE /\ \A k \in DOMAIN writing : writing[k] = FALSE
                      /\ \A k \in DOMAIN sends : sends[k] = FALSE

SchedulerInv ==
  /\ SchedulerTypeOK /\ WantedIsMarked /\ SleepsStopped /\ ZerosFollow /\ StoppedBySilence

LEMMA SchedulerInvOK == SchedulerInv => AsleepMeansStill
<1> SUFFICES ASSUME SchedulerInv, sched = "sleeps", ~schedEvent, game.pokes = "no", ~outrun
             PROVE  ~game.latest /\ (sends = <<>> /\ writing = <<>> => ~motor)
  BY DEF SchedulerInv, AsleepMeansStill, AsleepStill
<1>1. saving = "Auto" /\ rumbleStopped
  BY DEF SchedulerInv, SleepsStopped
<1>2. ~game.latest
  BY <1>1 DEF SchedulerInv, WantedIsMarked
<1>3. ASSUME sends = <<>>, writing = <<>> PROVE motor = FALSE
  <2>1. Len(sends) = 0 /\ Len(writing) = 0
    BY <1>3
  <2>2. /\ zeroCount \in Nat /\ lost \in Nat /\ ZeroFrames \in Nat /\ lost <= MaxLost
        /\ MaxLost \in Nat /\ MaxLost < ZeroFrames /\ motor \in BOOLEAN
    BY SchedulerAssumption DEF SchedulerInv, SchedulerTypeOK
  <2>3. ASSUME motor = TRUE PROVE FALSE
    <3>1. zeroCount <= lost
      BY <2>1, <2>2, <2>3 DEF SchedulerInv, ZerosFollow
    <3>2. zeroCount = ZeroFrames
      BY <1>1, <2>3 DEF SchedulerInv, StoppedBySilence
    <3> QED BY <2>2, <3>1, <3>2
  <2> QED BY <2>2, <2>3
<1> QED BY <1>2, <1>3

LEMMA SchedulerStarts == SchedulerInit => SchedulerInv
<1> SUFFICES ASSUME SchedulerInit PROVE SchedulerInv
  OBVIOUS
<1>1. SchedulerTypeOK
  <2>1. sends \in Seq(BOOLEAN) /\ Len(sends) = 0 /\ writing \in Seq(BOOLEAN) /\ Len(writing) = 0
    BY DEF SchedulerInit
  <2>2. 0 <= MaxSends
    BY SchedulerAssumption
  <2>3. (saving = "Auto") \in BOOLEAN
    OBVIOUS
  <2>4. rumbleStopped \in BOOLEAN
    BY <2>3 DEF SchedulerInit
  <2>5. game \in [latest : BOOLEAN, dirty : BOOLEAN, pulse : BOOLEAN, pokes : {"no", "marks", "sets"}]
    BY DEF SchedulerInit
  <2>6. zeroCount \in 0 .. ZeroFrames /\ lost \in 0 .. MaxLost
    BY SchedulerAssumption DEF SchedulerInit
  <2> QED BY <2>1, <2>2, <2>4, <2>5, <2>6 DEF SchedulerInit, SchedulerTypeOK
<1>2. DOMAIN sends = {} /\ DOMAIN writing = {} /\ motor = FALSE
  BY DEF SchedulerInit
<1>3. WantedIsMarked /\ SleepsStopped
  BY DEF SchedulerInit, WantedIsMarked, SleepsStopped
<1> QED BY <1>1, <1>2, <1>3 DEF SchedulerInv, ZerosFollow, StoppedBySilence

LEMMA SchedulerTypes == SchedulerTypeOK /\ [SchedulerNext]_schedulerVars => SchedulerTypeOK'
<1> SUFFICES ASSUME SchedulerTypeOK, [SchedulerNext]_schedulerVars PROVE SchedulerTypeOK'
  OBVIOUS
<1> USE DEF SchedulerTypeOK
<1>1. ASSUME NEW v \in BOOLEAN, GameSays(v) PROVE SchedulerTypeOK'
  <2>1. game' \in [latest : BOOLEAN, dirty : BOOLEAN, pulse : BOOLEAN, pokes : {"no", "marks", "sets"}]
    <3>1. (game.pulse \/ v) \in BOOLEAN
      BY Zenon
    <3> QED BY <1>1, <3>1 DEF GameSays
  <2> QED BY <1>1, <2>1 DEF GameSays
<1>2. CASE PokeMarks
  <2>1. game' \in [latest : BOOLEAN, dirty : BOOLEAN, pulse : BOOLEAN, pokes : {"no", "marks", "sets"}]
    BY <1>2 DEF PokeMarks
  <2>2. rumbleStopped' \in BOOLEAN
    BY <1>2 DEF PokeMarks
  <2> QED BY <1>2, <2>1, <2>2 DEF PokeMarks
<1>3. CASE PokeSets
  <2>1. game' \in [latest : BOOLEAN, dirty : BOOLEAN, pulse : BOOLEAN, pokes : {"no", "marks", "sets"}]
    BY <1>3 DEF PokeSets
  <2> QED BY <1>3, <2>1 DEF PokeSets
<1>4. ASSUME NEW on \in BOOLEAN, PlainPoke(on) PROVE SchedulerTypeOK'
  BY <1>4 DEF PlainPoke
<1>5. CASE SchedWaits
  <2>1. sched' \in {"dozes", "sleeps", "ended"}
    BY <1>5 DEF SchedWaits
  <2>2. sched' \in {"top", "sleeps", "dozes", "woken", "runs", "read", "ended"}
    BY <2>1
  <2> QED BY <1>5, <2>2 DEF SchedWaits
<1>6. CASE SchedWakes
  BY <1>6 DEF SchedWakes
<1>7. CASE SchedClears
  <2>1. sched' \in {"top", "sleeps", "dozes", "woken", "runs", "read", "ended"} /\ schedEvent' \in BOOLEAN
    BY <1>7 DEF SchedClears
  <2> QED BY <1>7, <2>1 DEF SchedClears
<1>8. CASE SchedTooEarly
  BY <1>8 DEF SchedTooEarly
<1>9. CASE SchedReads
  <2>1. game' \in [latest : BOOLEAN, dirty : BOOLEAN, pulse : BOOLEAN, pokes : {"no", "marks", "sets"}]
    BY <1>9 DEF SchedReads
  <2>2. schedFrame' \in BOOLEAN
    BY <1>9 DEF SchedReads
  <2> QED BY <1>9, <2>1, <2>2 DEF SchedReads
<1>10. CASE SchedActs
  <2>1. zeroCount' \in 0 .. ZeroFrames
    <3>1. \/ zeroCount' = zeroCount \/ zeroCount' = 0
          \/ zeroCount' = IF zeroCount < ZeroFrames THEN zeroCount + 1 ELSE zeroCount
      BY <1>10 DEF SchedActs
    <3>2. zeroCount \in 0 .. ZeroFrames /\ ZeroFrames \in Nat
      BY SchedulerAssumption
    <3> QED BY <3>1, <3>2
  <2>2. rumbleStopped' \in BOOLEAN /\ outrun' \in BOOLEAN /\ gateShut' \in BOOLEAN /\ taskRunning' \in BOOLEAN
    <3>1. rumbleStopped' \in BOOLEAN
      BY <1>10 DEF SchedActs
    <3>2. outrun' \in BOOLEAN
      BY <1>10 DEF SchedActs
    <3>3. gateShut' \in BOOLEAN
      BY <1>10 DEF SchedActs
    <3>4. taskRunning' \in BOOLEAN
      BY <1>10 DEF SchedActs, Dispatch
    <3> QED BY <3>1, <3>2, <3>3, <3>4
  <2>3. sends' \in Seq(BOOLEAN) /\ Len(sends') <= MaxSends
    <3>1. \A frame \in BOOLEAN : Append(sends, frame) \in Seq(BOOLEAN) /\ Len(Append(sends, frame)) = Len(sends) + 1
      OBVIOUS
    <3>2. CASE sends' = sends
      BY <3>2
    <3>3. ASSUME NEW frame \in BOOLEAN, Dispatch(frame) PROVE sends' \in Seq(BOOLEAN) /\ Len(sends') <= MaxSends
      BY <3>1, <3>3, SchedulerAssumption DEF Dispatch
    <3> QED BY <1>10, <3>2, <3>3 DEF SchedActs
  <2>4. /\ sched' = "top" /\ schedFrame' = FALSE
        /\ UNCHANGED <<saving, link, game, schedEvent, schedRunning, early, writing, motor, lost>>
    BY <1>10 DEF SchedActs
  <2>5. sched' \in {"top", "sleeps", "dozes", "woken", "runs", "read", "ended"} /\ schedFrame' \in BOOLEAN
    BY <2>4
  <2>6. saving' \in {"Off", "Auto"} /\ link' \in {"bt", "bridge", "usb"} /\ lost' \in 0 .. MaxLost
    BY <2>4
  <2>7. /\ game' \in [latest : BOOLEAN, dirty : BOOLEAN, pulse : BOOLEAN, pokes : {"no", "marks", "sets"}]
        /\ writing' \in Seq(BOOLEAN) /\ Len(writing') <= MaxSends
    BY <2>4
  <2> QED BY <2>1, <2>2, <2>3, <2>4, <2>5, <2>6, <2>7
<1>11. CASE TimePasses
  <2>1. early' \in BOOLEAN /\ gateShut' \in BOOLEAN
    BY <1>11 DEF TimePasses
  <2> QED BY <1>11, <2>1 DEF TimePasses
<1>12. CASE WorkerBegins
  <2>1. /\ Tail(sends) \in Seq(BOOLEAN) /\ Len(Tail(sends)) <= MaxSends /\ Append(writing, Head(sends)) \in Seq(BOOLEAN)
        /\ Len(Append(writing, Head(sends))) <= MaxSends
    BY <1>12, SchedulerAssumption DEF WorkerBegins
  <2> QED BY <1>12, <2>1 DEF WorkerBegins
<1>13. CASE WorkerEnds
  <2>1. Tail(writing) \in Seq(BOOLEAN) /\ Len(Tail(writing)) <= MaxSends /\ Head(writing) \in BOOLEAN
    BY <1>13, SchedulerAssumption DEF WorkerEnds
  <2>2. lost' \in 0 .. MaxLost
    BY <1>13, SchedulerAssumption DEF WorkerEnds
  <2>3. motor' \in BOOLEAN /\ taskRunning' \in BOOLEAN /\ writing' \in Seq(BOOLEAN) /\ Len(writing') <= MaxSends
    BY <1>13, <2>1 DEF WorkerEnds
  <2> QED BY <1>13, <2>2, <2>3 DEF WorkerEnds
<1>14. CASE UNCHANGED schedulerVars
  BY <1>14 DEF schedulerVars
<1> QED
  BY <1>1, <1>2, <1>3, <1>4, <1>5, <1>6, <1>7, <1>8, <1>9, <1>10, <1>11, <1>12, <1>13, <1>14
     DEF SchedulerNext

LEMMA SchedulerMarks ==
  ASSUME SchedulerInv, [SchedulerNext]_schedulerVars
  PROVE  WantedIsMarked' /\ SleepsStopped'
<1> USE DEF SchedulerInv, WantedIsMarked, SleepsStopped
<1>0. game \in [latest : BOOLEAN, dirty : BOOLEAN, pulse : BOOLEAN, pokes : {"no", "marks", "sets"}]
  BY DEF SchedulerTypeOK
<1>1. ASSUME NEW v \in BOOLEAN, GameSays(v) PROVE WantedIsMarked' /\ SleepsStopped'
  BY <1>0, <1>1 DEF GameSays
<1>2. CASE PokeMarks
  <2>1. /\ game'.latest = game.latest /\ game'.dirty = game.dirty /\ game'.pokes = "sets"
    BY <1>0, <1>2 DEF PokeMarks
  <2> QED BY <1>2, <2>1 DEF PokeMarks
<1>3. CASE PokeSets
  <2>1. /\ game.pokes = "sets" /\ game'.latest = game.latest /\ game'.dirty = game.dirty /\ game'.pokes = "no"
    BY <1>0, <1>3 DEF PokeSets
  <2> QED BY <1>3, <2>1 DEF PokeSets
<1>4. ASSUME NEW on \in BOOLEAN, PlainPoke(on) PROVE WantedIsMarked' /\ SleepsStopped'
  BY <1>4 DEF PlainPoke
<1>5. CASE SchedWaits
  <2>1. WantedIsMarked'
    BY <1>5 DEF SchedWaits
  <2>2. ASSUME sched' = "sleeps" PROVE saving = "Auto" /\ rumbleStopped
    BY <1>5, <2>2 DEF SchedWaits, SchedulerTypeOK
  <2> QED BY <1>5, <2>1, <2>2 DEF SchedWaits
<1>6. CASE SchedWakes
  BY <1>6 DEF SchedWakes
<1>7. CASE SchedClears
  BY <1>7 DEF SchedClears
<1>8. CASE SchedTooEarly
  BY <1>8 DEF SchedTooEarly
<1>9. CASE SchedReads
  <2>1. /\ game'.latest = game.latest /\ game'.pokes = game.pokes
    BY <1>0, <1>9 DEF SchedReads
  <2>2. ~schedFrame' => ~game.latest
    BY <1>9 DEF SchedReads
  <2> QED BY <1>9, <2>1, <2>2 DEF SchedReads
<1>10. CASE SchedActs
  <2>1. sched = "read" /\ sched' = "top" /\ game' = game /\ saving' = saving
    BY <1>10 DEF SchedActs
  <2>2. ASSUME ~outrun', saving = "Auto", rumbleStopped', game.latest PROVE game.pokes = "marks"
    <3>1. CASE rumbleStopped /\ outrun' = outrun
      BY <2>2, <3>1
    <3>2. CASE ~schedFrame /\ outrun' = (outrun \/ (rumbleStopped' /\ game.dirty /\ game.pokes # "marks"))
      BY <2>1, <2>2, <3>2
    <3> QED BY <1>10, <2>2, <3>1, <3>2 DEF SchedActs
  <2> QED BY <2>1, <2>2
<1>11. CASE TimePasses
  BY <1>11 DEF TimePasses
<1>12. CASE WorkerBegins
  BY <1>12 DEF WorkerBegins
<1>13. CASE WorkerEnds
  BY <1>13 DEF WorkerEnds
<1>14. CASE UNCHANGED schedulerVars
  BY <1>14 DEF schedulerVars
<1> QED
  BY <1>1, <1>2, <1>3, <1>4, <1>5, <1>6, <1>7, <1>8, <1>9, <1>10, <1>11, <1>12, <1>13, <1>14
     DEF SchedulerNext

LEMMA SchedulerFrames ==
  ASSUME SchedulerInv, [SchedulerNext]_schedulerVars
  PROVE  ZerosFollow' /\ StoppedBySilence'
<1> USE DEF SchedulerInv
<1>0. /\ writing \in Seq(BOOLEAN) /\ sends \in Seq(BOOLEAN) /\ zeroCount \in Nat /\ zeroCount <= ZeroFrames
      /\ lost \in Nat /\ ZeroFrames \in Nat /\ motor \in BOOLEAN /\ Len(writing) \in Nat /\ Len(sends) \in Nat
  BY SchedulerAssumption DEF SchedulerTypeOK
<1>1. CASE /\ UNCHANGED <<writing, sends, zeroCount, motor, lost>>
           /\ rumbleStopped' => rumbleStopped
  BY <1>1 DEF ZerosFollow, StoppedBySilence
<1>2. CASE SchedActs
  <2>1. UNCHANGED <<writing, motor, lost>>
    BY <1>2 DEF SchedActs
  <2>2. CASE UNCHANGED <<rumbleStopped, zeroCount, sends>>
    BY <1>1, <2>1, <2>2
  <2>3. CASE /\ sends' = Append(sends, FALSE) /\ zeroCount' \in {zeroCount, zeroCount + 1}
             /\ rumbleStopped' = (zeroCount' = ZeroFrames)
    <3>1. /\ Len(sends') = Len(sends) + 1 /\ DOMAIN sends = 1 .. Len(sends)
          /\ DOMAIN sends' = 1 .. Len(sends) + 1 /\ DOMAIN writing = 1 .. Len(writing)
          /\ \A k \in 1 .. Len(sends) : sends'[k] = sends[k]
          /\ sends'[Len(sends) + 1] = FALSE
      BY <1>0, <2>3
    <3>2. ASSUME NEW k \in DOMAIN writing, writing[k] = TRUE
          PROVE  zeroCount' + k <= Len(writing) + Len(sends') + lost
      <4>1. k \in Nat /\ zeroCount + k <= Len(writing) + Len(sends) + lost
        BY <3>1, <3>2 DEF ZerosFollow
      <4> QED BY <1>0, <2>3, <3>1, <4>1
    <3>3. ASSUME NEW k \in DOMAIN sends', sends'[k] = TRUE
          PROVE  zeroCount' + k <= Len(sends') + lost
      <4>1. k \in DOMAIN sends /\ sends[k] = TRUE /\ k \in Nat
        BY <1>0, <3>1, <3>3
      <4>2. zeroCount + k <= Len(sends) + lost
        BY <4>1 DEF ZerosFollow
      <4> QED BY <1>0, <2>3, <3>1, <4>1, <4>2
    <3>4. ASSUME motor = TRUE PROVE zeroCount' <= Len(writing) + Len(sends') + lost
      <4>1. zeroCount <= Len(writing) + Len(sends) + lost
        BY <3>4 DEF ZerosFollow
      <4> QED BY <1>0, <2>3, <3>1, <4>1
    <3>5. ZerosFollow'
      BY <2>1, <3>2, <3>3, <3>4 DEF ZerosFollow
    <3> QED BY <2>3, <3>5 DEF StoppedBySilence
  <2>4. CASE zeroCount' = 0 /\ rumbleStopped' = FALSE /\ (sends' = sends \/ sends' = Append(sends, TRUE))
    <3>1. /\ Len(sends') \in Nat /\ DOMAIN sends' = 1 .. Len(sends')
          /\ DOMAIN writing = 1 .. Len(writing)
      <4>1. Append(sends, TRUE) \in Seq(BOOLEAN)
        BY <1>0
      <4>2. sends' \in Seq(BOOLEAN)
        BY <1>0, <2>4, <4>1
      <4> QED BY <1>0, <4>2
    <3>2. ASSUME NEW k \in DOMAIN writing PROVE 0 + k <= Len(writing) + Len(sends') + lost
      BY <1>0, <3>1
    <3>3. ASSUME NEW k \in DOMAIN sends' PROVE 0 + k <= Len(sends') + lost
      BY <1>0, <3>1
    <3>4. 0 <= Len(writing) + Len(sends') + lost
      BY <1>0, <3>1
    <3>5. ZerosFollow'
      BY <2>1, <2>4, <3>2, <3>3, <3>4 DEF ZerosFollow
    <3> QED BY <2>4, <3>5 DEF StoppedBySilence
  <2> QED BY <1>2, <2>2, <2>3, <2>4 DEF SchedActs, Dispatch
<1>3. CASE WorkerBegins
  <2>1. /\ sends # <<>> /\ sends' = Tail(sends) /\ writing' = Append(writing, Head(sends))
        /\ UNCHANGED <<rumbleStopped, zeroCount, motor, lost>>
    BY <1>3 DEF WorkerBegins
  <2>2. /\ Len(sends) > 0 /\ Len(sends') = Len(sends) - 1 /\ DOMAIN sends' = 1 .. Len(sends) - 1
        /\ DOMAIN sends = 1 .. Len(sends) /\ DOMAIN writing = 1 .. Len(writing)
        /\ \A k \in 1 .. Len(sends) - 1 : sends'[k] = sends[k + 1]
    BY <1>0, <2>1
  <2>3. /\ Len(writing') = Len(writing) + 1 /\ DOMAIN writing' = 1 .. Len(writing) + 1
        /\ \A k \in 1 .. Len(writing) : writing'[k] = writing[k]
        /\ writing'[Len(writing) + 1] = sends[1]
    BY <1>0, <2>1
  <2>4. ASSUME NEW k \in DOMAIN writing', writing'[k] = TRUE
        PROVE  zeroCount + k <= Len(writing') + Len(sends') + lost
    <3>1. CASE k \in 1 .. Len(writing)
      <4>1. zeroCount + k <= Len(writing) + Len(sends) + lost
        BY <2>2, <2>3, <2>4, <3>1 DEF ZerosFollow
      <4> QED BY <1>0, <2>2, <2>3, <3>1, <4>1
    <3>2. CASE k = Len(writing) + 1
      <4>1. 1 \in DOMAIN sends /\ sends[1] = TRUE
        BY <1>0, <2>2, <2>3, <2>4, <3>2
      <4>2. zeroCount + 1 <= Len(sends) + lost
        BY <4>1 DEF ZerosFollow
      <4> QED BY <1>0, <2>2, <2>3, <3>2, <4>2
    <3> QED BY <1>0, <2>3, <3>1, <3>2
  <2>5. ASSUME NEW k \in DOMAIN sends', sends'[k] = TRUE
        PROVE  zeroCount + k <= Len(sends') + lost
    <3>1. k \in Nat /\ k + 1 \in DOMAIN sends /\ sends[k + 1] = TRUE
      BY <1>0, <2>2, <2>5
    <3>2. zeroCount + (k + 1) <= Len(sends) + lost
      BY <3>1 DEF ZerosFollow
    <3> QED BY <1>0, <2>2, <3>1, <3>2
  <2>6. ASSUME motor = TRUE PROVE zeroCount <= Len(writing') + Len(sends') + lost
    <3>1. zeroCount <= Len(writing) + Len(sends) + lost
      BY <2>6 DEF ZerosFollow
    <3> QED BY <1>0, <2>2, <2>3, <3>1
  <2>7. ZerosFollow'
    BY <2>1, <2>4, <2>5, <2>6 DEF ZerosFollow
  <2>8. ASSUME \A k \in DOMAIN writing : writing[k] = FALSE, \A k \in DOMAIN sends : sends[k] = FALSE
        PROVE  /\ \A k \in DOMAIN writing' : writing'[k] = FALSE
               /\ \A k \in DOMAIN sends' : sends'[k] = FALSE
    <3>1. ASSUME NEW k \in DOMAIN writing' PROVE writing'[k] = FALSE
      <4>1. k \in 1 .. Len(writing) \/ (k = Len(writing) + 1 /\ 1 \in DOMAIN sends)
        BY <1>0, <2>2, <2>3
      <4> QED BY <2>2, <2>3, <2>8, <4>1
    <3>2. ASSUME NEW k \in DOMAIN sends' PROVE sends'[k] = FALSE
      <4>1. k \in 1 .. Len(sends) - 1 /\ k + 1 \in DOMAIN sends
        BY <1>0, <2>2
      <4> QED BY <2>2, <2>8, <4>1
    <3> QED BY <3>1, <3>2
  <2> QED BY <2>1, <2>7, <2>8 DEF StoppedBySilence
<1>4. CASE WorkerEnds
  <2>1. /\ writing # <<>> /\ writing' = Tail(writing)
        /\ UNCHANGED <<rumbleStopped, zeroCount, sends>>
        /\ \/ motor' = Head(writing) /\ lost' = lost
           \/ motor' = motor /\ lost' = lost + 1
    BY <1>4 DEF WorkerEnds
  <2>2. /\ Len(writing) > 0 /\ Len(writing') = Len(writing) - 1 /\ DOMAIN writing' = 1 .. Len(writing) - 1
        /\ DOMAIN sends = 1 .. Len(sends) /\ DOMAIN writing = 1 .. Len(writing)
        /\ \A k \in 1 .. Len(writing) - 1 : writing'[k] = writing[k + 1]
        /\ Head(writing) = writing[1] /\ 1 \in DOMAIN writing
    <3>1. Len(writing) > 0
      BY <1>0, <2>1
    <3>2. Len(writing') = Len(writing) - 1 /\ \A k \in 1 .. Len(writing) - 1 : writing'[k] = writing[k + 1]
      BY <1>0, <2>1, <3>1
    <3>3. writing' \in Seq(BOOLEAN)
      BY <1>0, <2>1, <3>1
    <3>4. /\ DOMAIN writing' = 1 .. Len(writing) - 1
          /\ DOMAIN sends = 1 .. Len(sends) /\ DOMAIN writing = 1 .. Len(writing)
      BY <1>0, <3>2, <3>3
    <3> QED BY <1>0, <3>1, <3>2, <3>4
  <2>3. lost' \in Nat /\ lost <= lost'
    BY <1>0, <2>1
  <2>4. ASSUME NEW k \in DOMAIN writing', writing'[k] = TRUE
        PROVE  zeroCount + k <= Len(writing') + Len(sends) + lost'
    <3>1. k \in Nat /\ k + 1 \in DOMAIN writing /\ writing[k + 1] = TRUE
      BY <1>0, <2>2, <2>4
    <3>2. zeroCount + (k + 1) <= Len(writing) + Len(sends) + lost
      BY <3>1 DEF ZerosFollow
    <3>3. /\ zeroCount \in Nat /\ Len(writing) \in Nat /\ Len(sends) \in Nat /\ lost \in Nat
          /\ Len(writing') = Len(writing) - 1
      BY <1>0, <2>2
    <3> QED BY <2>3, <3>1, <3>2, <3>3
  <2>5. ASSUME NEW k \in DOMAIN sends, sends[k] = TRUE
        PROVE  zeroCount + k <= Len(sends) + lost'
    <3>1. k \in Nat /\ zeroCount + k <= Len(sends) + lost
      BY <2>2, <2>5 DEF ZerosFollow
    <3> QED BY <1>0, <2>3, <3>1
  <2>6. ASSUME motor' = TRUE PROVE zeroCount <= Len(writing') + Len(sends) + lost'
    <3>1. CASE motor' = Head(writing) /\ lost' = lost
      <4>1. zeroCount + 1 <= Len(writing) + Len(sends) + lost
        BY <2>2, <2>6, <3>1 DEF ZerosFollow
      <4> QED BY <1>0, <2>2, <3>1, <4>1
    <3>2. CASE motor' = motor /\ lost' = lost + 1
      <4>1. zeroCount <= Len(writing) + Len(sends) + lost
        BY <2>6, <3>2 DEF ZerosFollow
      <4> QED BY <1>0, <2>2, <3>2, <4>1
    <3> QED BY <2>1, <3>1, <3>2
  <2>7. ZerosFollow'
    BY <2>1, <2>4, <2>5, <2>6 DEF ZerosFollow
  <2>8. ASSUME motor = FALSE, \A k \in DOMAIN writing : writing[k] = FALSE
        PROVE  motor' = FALSE /\ \A k \in DOMAIN writing' : writing'[k] = FALSE
    <3>1. motor' = FALSE
      BY <2>1, <2>2, <2>8
    <3>2. ASSUME NEW k \in DOMAIN writing' PROVE writing'[k] = FALSE
      <4>1. k \in 1 .. Len(writing) - 1 /\ k + 1 \in DOMAIN writing
        BY <1>0, <2>2
      <4> QED BY <2>2, <2>8, <4>1
    <3> QED BY <3>1, <3>2
  <2> QED BY <2>1, <2>7, <2>8 DEF StoppedBySilence
<1>5. ASSUME NEW v \in BOOLEAN, GameSays(v) PROVE ZerosFollow' /\ StoppedBySilence'
  BY <1>1, <1>5 DEF GameSays
<1>6. CASE PokeMarks
  BY <1>1, <1>6 DEF PokeMarks
<1>7. CASE PokeSets \/ (\E on \in BOOLEAN : PlainPoke(on))
  BY <1>1, <1>7 DEF PokeSets, PlainPoke
<1>8. CASE SchedWaits \/ SchedWakes \/ SchedClears \/ SchedTooEarly
  BY <1>1, <1>8 DEF SchedWaits, SchedWakes, SchedClears, SchedTooEarly
<1>9. CASE SchedReads \/ TimePasses
  BY <1>1, <1>9 DEF SchedReads, TimePasses
<1>10. CASE UNCHANGED schedulerVars
  BY <1>1, <1>10 DEF schedulerVars
<1> QED BY <1>2, <1>3, <1>4, <1>5, <1>6, <1>7, <1>8, <1>9, <1>10 DEF SchedulerNext

\* The scheduler sleeps only when the rumble is over: while no callback is on its way the
\* game wants none, and with nothing left to send the motor is still, for every number of
\* silent frames above that of the writes that may be lost (_rumble_scheduler_loop,
\* _run_rumble_scheduler_once).
THEOREM SleepsWhenStill == SchedulerSpec => []AsleepMeansStill
<1>1. SchedulerInv /\ [SchedulerNext]_schedulerVars => SchedulerInv'
  BY SchedulerTypes, SchedulerMarks, SchedulerFrames DEF SchedulerInv
<1> QED BY SchedulerStarts, <1>1, SchedulerInvOK, PTL DEF SchedulerSpec

-----------------------------------------------------------------------------
(* DiscoverySession *)

\* A session that has entered and not left yet: what _CURRENTLY_DISCOVERING stands for.
Entered(s) == session[s] \in {"cleans", "runs", "leaving"}

OneEntered ==
  /\ \A s \in Session : Entered(s) => discovering
  /\ \A s, t \in Session : Entered(s) /\ Entered(t) => s = t

\* Unless sessions overlapped, nobody closes slots beside the session that has entered.
ClosedBefore ==
  ~overlap => \A s, t \in Session : Entered(s) => session[t] \notin {"closing", "drains"}

SessionInv ==
  /\ session \in [Session -> {"none", "starting", "cleans", "runs", "leaving", "closing",
                              "drains", "gone"}]
  /\ overlap \in BOOLEAN /\ OneEntered /\ ClosedBefore /\ SlotsOfSession

LEMMA SessionStarts == SessionInit => SessionInv
<1> SUFFICES ASSUME SessionInit PROVE SessionInv
  OBVIOUS
<1>1. session = [s \in Session |-> IF s = 1 THEN "starting" ELSE "none"] /\ overlap = FALSE
  BY DEF SessionInit, FirstSession
<1>2. \A s \in Session : session[s] \in {"starting", "none"}
  BY <1>1
<1> QED BY <1>1, <1>2 DEF SessionInv, OneEntered, ClosedBefore, SlotsOfSession, Entered

\* A step of one session's thread.
LEMMA OneGoes ==
  ASSUME SessionInv, NEW s \in Session, NEW pc, SessionGoto(s, pc)
  PROVE  session'[s] = pc /\ \A t \in Session : t # s => session'[t] = session[t]
BY DEF SessionInv, SessionGoto

\* What leaves the sessions where they are, and seats nobody of another session.
LEMMA SeatsKeep ==
  ASSUME SessionInv, session' = session, overlap' = overlap, discovering' = discovering,
         \A s \in Session : session[s] = "runs" /\ ~overlap => seats' \subseteq seats \cup {s}
  PROVE  SessionInv'
<1>1. OneEntered' /\ ClosedBefore'
  BY DEF SessionInv, OneEntered, ClosedBefore, Entered
<1>2. SlotsOfSession'
  BY DEF SessionInv, SlotsOfSession
<1> QED BY <1>1, <1>2 DEF SessionInv

LEMMA SessionSteps ==
  ASSUME SessionInv, NEW s \in Session, SessionStep(s)
  PROVE  SessionInv'
<1>1. CASE SessionEnters(s)
  <2> DEFINE pc == IF discovering THEN "gone" ELSE "cleans"
  <2>1. /\ session[s] = "starting" /\ SessionGoto(s, pc) /\ discovering' = TRUE /\ seats' = seats
        /\ overlap' = (overlap \/ \E t \in Session : session[t] \in {"closing", "drains"})
    BY <1>1 DEF SessionEnters, tableVars
  <2>2. session'[s] = pc /\ \A t \in Session : t # s => session'[t] = session[t]
    BY <2>1, OneGoes
  <2>3. \A t \in Session : Entered(t)' => Entered(t) \/ (t = s /\ ~discovering)
    BY <2>2 DEF Entered
  <2>4. OneEntered'
    BY <2>1, <2>3 DEF OneEntered, SessionInv
  <2>5. ASSUME ~overlap', NEW t \in Session, NEW u \in Session, Entered(t)'
        PROVE  session'[u] \notin {"closing", "drains"}
    <3>1. session[u] \notin {"closing", "drains"}
      BY <2>1, <2>5
    <3>2. session'[u] \in {"gone", "cleans", session[u]}
      BY <2>2
    <3> QED BY <3>1, <3>2
  <2>6. ASSUME NEW t \in Session, session'[t] = "runs", ~overlap' PROVE seats' \subseteq {t}
    <3>1. session[t] = "runs" /\ ~overlap
      BY <2>1, <2>2, <2>6
    <3> QED BY <2>1, <3>1 DEF SessionInv, SlotsOfSession
  <2>7. overlap' \in BOOLEAN
    BY <2>1, Zenon
  <2>8. session' \in [Session -> {"none", "starting", "cleans", "runs", "leaving", "closing", "drains", "gone"}]
    BY <2>1 DEF SessionInv, SessionGoto
  <2> QED BY <2>4, <2>5, <2>6, <2>7, <2>8 DEF SessionInv, ClosedBefore, SlotsOfSession
<1>2. CASE SessionCleans(s)
  <2>1. /\ session[s] = "cleans" /\ SessionGoto(s, "runs") /\ seats' = {}
        /\ discovering' = discovering /\ overlap' = overlap
    BY <1>2 DEF SessionCleans, historyVars
  <2>2. session'[s] = "runs" /\ \A t \in Session : t # s => session'[t] = session[t]
    BY <2>1, OneGoes
  <2>3. \A t \in Session : /\ Entered(t)' <=> Entered(t)
                           /\ session'[t] \in {"closing", "drains"} => session[t] \in {"closing", "drains"}
    BY <2>1, <2>2 DEF Entered
  <2>4. OneEntered' /\ ClosedBefore'
    BY <2>1, <2>3 DEF OneEntered, ClosedBefore, SessionInv
  <2>5. session' \in [Session -> {"none", "starting", "cleans", "runs", "leaving", "closing", "drains", "gone"}]
    BY <2>1 DEF SessionInv, SessionGoto
  <2> QED BY <2>1, <2>4, <2>5 DEF SessionInv, SlotsOfSession
<1>3. CASE WiredNotices(s)
  BY <1>3, SeatsKeep DEF WiredNotices, historyVars, tableVars
<1>4. CASE WirelessNotices(s)
  <2>1. /\ session[s] = "runs" /\ SessionGoto(s, "leaving") /\ seats' = seats
        /\ discovering' = discovering /\ overlap' = overlap
    BY <1>4 DEF WirelessNotices, historyVars, tableVars
  <2>2. session'[s] = "leaving" /\ \A t \in Session : t # s => session'[t] = session[t]
    BY <2>1, OneGoes
  <2>3. \A t \in Session : /\ Entered(t)' <=> Entered(t)
                           /\ session'[t] \in {"closing", "drains"} => session[t] \in {"closing", "drains"}
                           /\ session'[t] = "runs" => session[t] = "runs"
    BY <2>1, <2>2 DEF Entered
  <2>4. OneEntered' /\ ClosedBefore'
    BY <2>1, <2>3 DEF OneEntered, ClosedBefore, SessionInv
  <2>5. session' \in [Session -> {"none", "starting", "cleans", "runs", "leaving", "closing", "drains", "gone"}]
    BY <2>1 DEF SessionInv, SessionGoto
  <2> QED BY <2>1, <2>3, <2>4, <2>5 DEF SessionInv, SlotsOfSession
<1>5. CASE SessionLeaves(s)
  <2>1. /\ session[s] = "leaving" /\ SessionGoto(s, "closing") /\ discovering' = FALSE
        /\ overlap' = overlap
    BY <1>5 DEF SessionLeaves, historyVars
  <2>2. session'[s] = "closing" /\ \A t \in Session : t # s => session'[t] = session[t]
    BY <2>1, OneGoes
  <2>3. \A t \in Session : ~Entered(t)'
    BY <2>1, <2>2 DEF SessionInv, OneEntered, Entered
  <2>4. OneEntered' /\ ClosedBefore' /\ SlotsOfSession'
    BY <2>3 DEF OneEntered, ClosedBefore, SlotsOfSession, Entered
  <2>5. session' \in [Session -> {"none", "starting", "cleans", "runs", "leaving", "closing", "drains", "gone"}]
    BY <2>1 DEF SessionInv, SessionGoto
  <2> QED BY <2>1, <2>4, <2>5 DEF SessionInv
<1>6. CASE SessionCloses(s) \/ SessionEnds(s)
  <2>1. PICK pc \in {"drains", "gone"} :
          /\ session[s] \in {"closing", "drains"} /\ SessionGoto(s, pc) /\ seats' \subseteq seats
          /\ discovering' = discovering /\ overlap' = overlap
    BY <1>6 DEF SessionCloses, SessionEnds, historyVars
  <2>2. session'[s] = pc /\ \A t \in Session : t # s => session'[t] = session[t]
    BY <2>1, OneGoes
  <2>3. \A t \in Session : /\ Entered(t)' <=> Entered(t)
                           /\ session'[t] \in {"closing", "drains"} => session[t] \in {"closing", "drains"}
                           /\ session'[t] = "runs" => session[t] = "runs"
    BY <2>1, <2>2 DEF Entered
  <2>4. OneEntered' /\ ClosedBefore'
    BY <2>1, <2>3 DEF OneEntered, ClosedBefore, SessionInv
  <2>5. session' \in [Session -> {"none", "starting", "cleans", "runs", "leaving", "closing", "drains", "gone"}]
    BY <2>1 DEF SessionInv, SessionGoto
  <2> QED BY <2>1, <2>3, <2>4, <2>5 DEF SessionInv, SlotsOfSession
<1> QED BY <1>1, <1>2, <1>3, <1>4, <1>5, <1>6 DEF SessionStep

\* A slot is claimed for the session that runs, or beside one that closes.
LEMMA ControllerSteps ==
  ASSUME SessionInv, NEW s \in Session, Appears(s) \/ Claims(s) \/ Goes(s)
  PROVE  SessionInv'
<1>1. CASE Appears(s)
  BY <1>1, SeatsKeep DEF Appears, historyVars
<1>2. CASE Claims(s)
  <2>1. /\ session[s] \in {"runs", "leaving", "closing", "drains"} /\ seats' = seats \cup {s}
        /\ session' = session /\ overlap' = overlap /\ discovering' = discovering
    BY <1>2 DEF Claims, LoopRuns, historyVars
  <2>2. ASSUME NEW t \in Session, session[t] = "runs", ~overlap PROVE t = s
    BY <2>1, <2>2 DEF SessionInv, OneEntered, ClosedBefore, Entered
  <2> QED BY <2>1, <2>2, SeatsKeep
<1>3. CASE Goes(s)
  BY <1>3, SeatsKeep DEF Goes, historyVars
<1> QED BY <1>1, <1>2, <1>3

LEMMA SessionKept == SessionInv /\ [SessionNext]_sessionVars => SessionInv'
<1> SUFFICES ASSUME SessionInv, [SessionNext]_sessionVars PROVE SessionInv'
  OBVIOUS
<1>1. ASSUME UNCHANGED <<session, overlap, discovering>>, seats' \in {seats, {}} PROVE SessionInv'
  BY <1>1, SeatsKeep
<1>2. CASE SuspendBegins \/ ResumeBegins \/ PowerStep
  BY <1>1, <1>2 DEF SuspendBegins, ResumeBegins, PowerStep, SuspendEnds, ResumeSweeps,
     ResumeRestarts, historyVars, tableVars
<1>3. CASE FlashBegins \/ FlashStops \/ FlashEnds
  BY <1>1, <1>3 DEF FlashBegins, FlashStops, FlashEnds, historyVars, tableVars
<1>4. CASE \E r \in Restarter : RestartGoes(r) \/ RestartGivesUp(r)
  BY <1>1, <1>4 DEF RestartGoes, RestartGivesUp, historyVars, tableVars
<1>5. ASSUME NEW a \in Starter, StarterStep(a) PROVE SessionInv'
  <2>1. CASE StartStops(a) \/ StartJoins(a)
    BY <1>1, <2>1 DEF StartStops, StartJoins, historyVars, tableVars
  <2>2. CASE StartStarts(a)
    <3>1. /\ SessionGoto(NextSession, "starting") /\ discovering' = discovering /\ seats' = seats
          /\ overlap' = overlap /\ Unused # {}
      BY <2>2 DEF StartStarts, Starts, tableVars
    <3>2. ASSUME NEW t \in Session
          PROVE  session'[t] = session[t] \/ session'[t] = "starting"
      BY <3>1 DEF SessionGoto, SessionInv
    <3>3. \A t \in Session : /\ Entered(t)' => Entered(t)
                             /\ session'[t] \in {"closing", "drains"} => session[t] \in {"closing", "drains"}
                             /\ session'[t] = "runs" => session[t] = "runs"
      BY <3>2 DEF Entered
    <3>4. OneEntered' /\ ClosedBefore'
      BY <3>1, <3>3 DEF OneEntered, ClosedBefore, SessionInv
    <3>5. session' \in [Session -> {"none", "starting", "cleans", "runs", "leaving", "closing", "drains", "gone"}]
      BY <3>1 DEF SessionInv, SessionGoto
    <3> QED BY <3>1, <3>3, <3>4, <3>5 DEF SessionInv, SlotsOfSession
  <2> QED BY <1>5, <2>1, <2>2 DEF StarterStep
<1>6. CASE UNCHANGED sessionVars
  BY <1>1, <1>6 DEF sessionVars, historyVars, tableVars
<1> QED
  BY <1>2, <1>3, <1>4, <1>5, <1>6, SessionSteps, ControllerSteps
     DEF SessionNext, RestartStep, GuiStep, Starter

\* The slots are those of the session that runs: neither attempts that outlive the cleanup
\* of their session (run_discovery_session) nor the sweep of a resume (emergency_cleanup)
\* leave another's behind, however many sessions, suspends and restart threads there are,
\* unless a session began while the one before was closing.
THEOREM SlotsBelong == SessionSpec => []SlotsOfSession
<1>1. SessionInv => SlotsOfSession
  BY DEF SessionInv
<1> QED BY SessionStarts, SessionKept, <1>1, PTL DEF SessionSpec

-----------------------------------------------------------------------------
(* TimerPolicy: the part of TimerMatchesMode about a settled mode is not inductive by
   itself.  TimerInv says for each step of the GUI's thread what it has already applied,
   and which loops hold no lease. *)

\* users counts the leases.
UsersInv == IsFiniteSet(leases) /\ users = Cardinality(leases)

\* Windows' count follows, but for a resumption that failed while there were users.
PeriodsInv ==
  /\ beginFailed => users > 0 /\ ~timerSuspended
  /\ ~beginFailed => periods = (IF users > 0 /\ ~timerSuspended THEN 1 ELSE 0)

\* What the change of mode under way has applied: until "suspends" and "leases" the
\* timer still follows the mode before, and Off's lease ends with the first step.
ModeInv ==
  /\ change \in {"idle", "pokes"} => timerSuspended = (powerMode = "Full")
  /\ change = "applies" => timerSuspended = (powerMode = "Off")
  /\ change = "leases" => powerMode = "Off" /\ ~timerSuspended
  /\ change = "suspends" => powerMode # "Off" /\ ~timerSuspended
  /\ OffLease \in leases => \/ powerMode = "Off" /\ change \in {"pokes", "idle"}
                            \/ powerMode = "Auto" /\ change = "applies"

\* A loop that asks, sleeps or has ended holds no lease, and in a settled mode none
\* sleeps through its work.
LoopInv ==
  /\ \A l \in TimerLoop : loop[l] \in {"asking", "sleeps", "ended"} => l \notin leases
  /\ change = "idle" => \A l \in TimerLoop :
       loop[l] = "sleeps" /\ ~loopEvent[l] => powerMode = "Full" \/ ~Wanted(l)

TimerInv == TimerTypeOK /\ UsersInv /\ PeriodsInv /\ ModeInv /\ LoopInv

\* acquire() and release() keep the count, and Windows' count with it.
LEMMA LeaseSteps ==
  ASSUME TimerInv, NEW who \in TimerLoop \cup {OffLease}, timerSuspended' = timerSuspended,
         (AcquireTimer(who) /\ who \notin leases) \/ ReleaseTimer(who)
  PROVE  /\ UsersInv' /\ PeriodsInv' /\ periods' \in 0 .. 1 /\ beginFailed' \in BOOLEAN
         /\ leases' \in {leases, leases \cup {who}, leases \ {who}}
         /\ ReleaseTimer(who) => leases' = leases \ {who}
<1>1. /\ IsFiniteSet(leases) /\ users = Cardinality(leases) /\ users \in Nat
      /\ periods \in 0 .. 1 /\ beginFailed \in BOOLEAN /\ timerSuspended \in BOOLEAN
  BY FS_CardinalityType DEF TimerInv, UsersInv, TimerTypeOK
<1>2. CASE AcquireTimer(who) /\ who \notin leases
  <2>1. (users' = users + 1 /\ leases' = leases \cup {who}) \/ UNCHANGED <<users, leases>>
    BY <1>2 DEF AcquireTimer
  <2>2. UsersInv'
    BY <1>1, <2>1, <1>2, FS_AddElement DEF UsersInv
  <2>3. periods' \in 0 .. 1 /\ beginFailed' \in BOOLEAN
    BY <1>1, <1>2 DEF AcquireTimer, Admits, TimerInv, PeriodsInv
  <2>4. PeriodsInv'
    BY <1>1, <1>2 DEF AcquireTimer, Admits, TimerInv, PeriodsInv
  <2>5. ReleaseTimer(who) => leases' = leases \ {who}
    BY <1>2 DEF ReleaseTimer
  <2> QED BY <2>1, <2>2, <2>3, <2>4, <2>5
<1>3. CASE ReleaseTimer(who) /\ who \in leases
  <2>1. users > 0
    BY <1>1, <1>3, FS_EmptySet
  <2>2. users' = users - 1 /\ leases' = leases \ {who} /\ UsersInv'
    BY <1>1, <1>3, FS_RemoveElement DEF ReleaseTimer, UsersInv
  <2> QED BY <1>1, <1>3, <2>1, <2>2 DEF ReleaseTimer, TimerInv, PeriodsInv
<1>4. CASE ReleaseTimer(who) /\ who \notin leases
  BY <1>1, <1>4 DEF ReleaseTimer, TimerInv, PeriodsInv, UsersInv
<1> QED BY <1>2, <1>3, <1>4

\* A step of the GUI's thread keeps the invariant.
LEMMA ModeSteps ==
  ASSUME TimerInv,
         \/ SetsPower \/ ResumesForOff \/ LeasesForOff \/ EndsOffLease \/ SuspendsForFull \/ Pokes
  PROVE  TimerInv'
<1>1. /\ users \in Nat /\ periods \in 0 .. 1 /\ powerMode \in Powers
      /\ loop \in [TimerLoop -> {"top", "asking", "works", "sleeps", "ended"}]
      /\ loopEvent \in [TimerLoop -> BOOLEAN] /\ busy \in [TimerLoop -> BOOLEAN]
      /\ TimerTypeOK /\ UsersInv /\ PeriodsInv /\ ModeInv /\ LoopInv
  BY FS_CardinalityType DEF TimerInv, UsersInv, TimerTypeOK
<1>2. CASE SetsPower
  <2>1. /\ change = "idle" /\ change' = "applies" /\ powerMode' \in Powers
        /\ powerMode' = "Off" <=> powerMode = "Full"
        /\ powerMode = "Off" => powerMode' = "Auto"
        /\ UNCHANGED <<timerSuspended, users, periods, beginFailed, leases, loop, loopEvent, busy>>
    BY <1>1, <1>2 DEF SetsPower, Cycle, Powers
  <2> QED BY <1>1, <2>1 DEF TimerInv, TimerTypeOK, UsersInv, PeriodsInv, ModeInv, LoopInv
<1>3. ASSUME NEW s \in BOOLEAN, Suspend(s), UNCHANGED <<users, leases>>
      PROVE  UsersInv' /\ PeriodsInv' /\ periods' \in 0 .. 1 /\ beginFailed' \in BOOLEAN /\ timerSuspended' = s
  <2>1. timerSuspended' = s /\ timerSuspended \in BOOLEAN /\ beginFailed \in BOOLEAN
    BY <1>1, <1>3 DEF Suspend, TimerTypeOK
  <2>2. UsersInv'
    BY <1>1, <1>3 DEF UsersInv
  <2>3. CASE s = timerSuspended \/ users = 0
    BY <1>1, <1>3, <2>1, <2>2, <2>3 DEF Suspend, PeriodsInv
  <2>4. CASE s /\ ~timerSuspended /\ users # 0
    <3>1. periods' = 0 /\ beginFailed' = FALSE
      BY <1>3, <2>1, <2>4 DEF Suspend
    <3>2. ~beginFailed' /\ timerSuspended'
      BY <2>1, <2>4, <3>1
    <3>3. PeriodsInv'
      BY <3>1, <3>2 DEF PeriodsInv
    <3>4. periods' \in 0 .. 1
      BY <3>1
    <3>5. beginFailed' \in BOOLEAN
      BY <3>1
    <3> QED BY <2>1, <2>2, <3>3, <3>4, <3>5
  <2>5. CASE ~s /\ timerSuspended /\ users # 0
    <3>1. /\ timerSuspended' = FALSE /\ beginFailed = FALSE /\ periods = 0
          /\ (periods' = 1 /\ beginFailed' = beginFailed) \/ (periods' = periods /\ beginFailed' = TRUE)
      BY <1>1, <1>3, <2>1, <2>5 DEF Suspend, PeriodsInv
    <3>2. users' > 0 /\ periods' \in 0 .. 1
      BY <1>1, <1>3, <2>5, <3>1
    <3>3. ~timerSuspended' /\ beginFailed' \in BOOLEAN /\ (~beginFailed' => periods' = 1)
      BY <3>1
    <3>4. PeriodsInv'
      BY <3>2, <3>3 DEF PeriodsInv
    <3> QED BY <2>1, <2>2, <3>2, <3>3, <3>4
  <2> QED BY <2>1, <2>3, <2>4, <2>5
<1>4. CASE ResumesForOff
  <2>1. UsersInv' /\ PeriodsInv' /\ periods' \in 0 .. 1 /\ beginFailed' \in BOOLEAN /\ timerSuspended' = FALSE
    BY <1>3, <1>4 DEF ResumesForOff
  <2> QED BY <1>1, <1>4, <2>1 DEF ResumesForOff, TimerInv, TimerTypeOK, ModeInv, LoopInv
<1>5. CASE SuspendsForFull
  <2>1. /\ UsersInv' /\ PeriodsInv' /\ periods' \in 0 .. 1 /\ beginFailed' \in BOOLEAN
        /\ timerSuspended' = (powerMode = "Full")
    BY <1>3, <1>5 DEF SuspendsForFull
  <2> QED BY <1>1, <1>5, <2>1 DEF SuspendsForFull, TimerInv, TimerTypeOK, ModeInv, LoopInv
<1>6. CASE LeasesForOff
  <2>1. /\ UsersInv' /\ PeriodsInv' /\ periods' \in 0 .. 1 /\ beginFailed' \in BOOLEAN
        /\ leases' \in {leases, leases \cup {OffLease}, leases \ {OffLease}}
    BY <1>1, <1>6, LeaseSteps DEF LeasesForOff, ModeInv
  <2> QED BY <1>1, <1>6, <2>1, TimerAssumption
          DEF LeasesForOff, TimerInv, TimerTypeOK, ModeInv, LoopInv
<1>7. CASE EndsOffLease
  <2>1. /\ UsersInv' /\ PeriodsInv' /\ periods' \in 0 .. 1 /\ beginFailed' \in BOOLEAN
        /\ leases' = leases \ {OffLease}
    BY <1>1, <1>7, LeaseSteps DEF EndsOffLease
  <2>2. ~timerSuspended
    BY <1>1, <1>7 DEF EndsOffLease, ModeInv, TimerTypeOK
  <2> QED BY <1>1, <1>7, <2>1, <2>2 DEF EndsOffLease, TimerInv, TimerTypeOK, ModeInv, LoopInv
<1>8. CASE Pokes
  BY <1>1, <1>8 DEF Pokes, TimerInv, TimerTypeOK, UsersInv, PeriodsInv, ModeInv, LoopInv
<1> QED BY <1>2, <1>4, <1>5, <1>6, <1>7, <1>8

\* A step of a loop keeps the invariant, whatever the GUI's thread is doing.
LEMMA LoopSteps ==
  ASSUME TimerInv, NEW l \in TimerLoop,
         \/ LoopRests(l) \/ LoopAsks(l) \/ LoopLeases(l) \/ LoopWorks(l)
         \/ LoopWakesUp(l) \/ LoopEnds(l) \/ Stirs(l)
  PROVE  TimerInv'
<1>1. /\ loop \in [TimerLoop -> {"top", "asking", "works", "sleeps", "ended"}]
      /\ loopEvent \in [TimerLoop -> BOOLEAN] /\ busy \in [TimerLoop -> BOOLEAN]
      /\ leases \subseteq TimerLoop \cup {OffLease}
      /\ TimerTypeOK /\ UsersInv /\ PeriodsInv /\ ModeInv /\ LoopInv /\ l # OffLease
  BY TimerAssumption DEF TimerInv, TimerTypeOK
<1>2. ASSUME UNCHANGED <<users, periods, beginFailed, leases, timerSuspended, powerMode, change>>,
             TimerTypeOK', LoopInv'
      PROVE  TimerInv'
  BY <1>1, <1>2 DEF TimerInv, UsersInv, PeriodsInv, ModeInv
<1>3. ASSUME UsersInv', PeriodsInv', periods' \in 0 .. 1, beginFailed' \in BOOLEAN,
             leases' \in {leases, leases \cup {l}, leases \ {l}},
             UNCHANGED <<timerSuspended, powerMode, change, loopEvent, busy>>,
             NEW s \in {"works", "sleeps", "ended"}, loop' = [loop EXCEPT ![l] = s],
             s # "works" => leases' = leases \ {l},
             s = "sleeps" => powerMode = "Full" \/ ~Wanted(l)
      PROVE  TimerInv'
  <2>1. TimerTypeOK'
    BY <1>1, <1>3 DEF TimerTypeOK
  <2>2. ModeInv'
    BY <1>1, <1>3 DEF ModeInv
  <2>3. \A k \in TimerLoop : loop'[k] \in {"asking", "sleeps", "ended"} => k \notin leases'
    BY <1>1, <1>3 DEF LoopInv
  <2>4. \A k \in TimerLoop : Wanted(k)' <=> Wanted(k)
    BY <1>3 DEF Wanted
  <2>5. LoopInv'
    BY <1>1, <1>3, <2>3, <2>4 DEF LoopInv
  <2> QED BY <1>3, <2>1, <2>2, <2>5 DEF TimerInv
<1>4. CASE LoopRests(l)
  <2>1. /\ UsersInv' /\ PeriodsInv' /\ periods' \in 0 .. 1 /\ beginFailed' \in BOOLEAN /\ leases' = leases \ {l}
    BY <1>4, LeaseSteps DEF LoopRests
  <2> QED BY <1>3, <1>4, <2>1 DEF LoopRests
<1>5. CASE LoopEnds(l)
  <2>1. /\ UsersInv' /\ PeriodsInv' /\ periods' \in 0 .. 1 /\ beginFailed' \in BOOLEAN /\ leases' = leases \ {l}
    BY <1>5, LeaseSteps DEF LoopEnds
  <2> QED BY <1>3, <1>5, <2>1 DEF LoopEnds
<1>6. CASE LoopLeases(l)
  <2>1. l \notin leases
    BY <1>1, <1>6 DEF LoopLeases, LoopInv
  <2>2. /\ UsersInv' /\ PeriodsInv' /\ periods' \in 0 .. 1 /\ beginFailed' \in BOOLEAN
        /\ leases' \in {leases, leases \cup {l}, leases \ {l}}
    BY <1>6, <2>1, LeaseSteps DEF LoopLeases
  <2> QED BY <1>3, <1>6, <2>2 DEF LoopLeases
<1>7. CASE LoopAsks(l)
  <2>1. TimerTypeOK' /\ LoopInv'
    BY <1>1, <1>7 DEF LoopAsks, TimerTypeOK, LoopInv, Wanted
  <2> QED BY <1>2, <1>7, <2>1 DEF LoopAsks
<1>8. CASE LoopWorks(l) \/ LoopWakesUp(l)
  <2>1. TimerTypeOK' /\ LoopInv'
    BY <1>1, <1>8 DEF LoopWorks, LoopWakesUp, TimerTypeOK, LoopInv, Wanted
  <2> QED BY <1>2, <1>8, <2>1 DEF LoopWorks, LoopWakesUp
<1>9. CASE Stirs(l)
  <2>1. /\ \A k \in TimerLoop : k # l => loopEvent'[k] = loopEvent[k] /\ busy'[k] = busy[k]
        /\ ~loopEvent'[l] => ~loopEvent[l] /\ busy[l] /\ ~busy'[l]
        /\ UNCHANGED <<powerMode, change, leases, loop>>
    BY <1>1, <1>9 DEF Stirs
  <2>2. \A k \in TimerLoop : ~loopEvent'[k] => ~loopEvent[k] /\ (Wanted(k)' => Wanted(k))
    BY <2>1 DEF Wanted
  <2>3. LoopInv'
    BY <1>1, <2>1, <2>2 DEF LoopInv
  <2>4. TimerTypeOK'
    BY <1>1, <1>9 DEF Stirs, TimerTypeOK
  <2> QED BY <1>2, <1>9, <2>3, <2>4 DEF Stirs
<1> QED BY <1>4, <1>5, <1>6, <1>7, <1>8, <1>9

\* Windows' timer is raised exactly while somebody leases it and the mode allows it, and no
\* loop sleeps through its work, for every number of loops and every interleaving of
\* theirs with a change of mode.
THEOREM TimerFollowsMode == TimerSpec => []TimerMatchesMode
<1>1. TimerInit => TimerInv
  <2> SUFFICES ASSUME TimerInit PROVE TimerInv
    OBVIOUS
  <2>1. /\ IsFiniteSet(leases) /\ users = Cardinality(leases) /\ users \in 0 .. 1
        /\ OffLease \in leases => powerMode = "Off"
        /\ powerMode = "Full" => users = 0
        /\ leases \subseteq {OffLease}
    <3>1. IsFiniteSet({}) /\ Cardinality({}) = 0 /\ IsFiniteSet({OffLease}) /\ Cardinality({OffLease}) = 1
      BY FS_EmptySet, FS_Singleton
    <3> QED BY <3>1 DEF TimerInit
  <2>2. TimerTypeOK
    BY <2>1 DEF TimerInit, TimerTypeOK
  <2>3. PeriodsInv
    <3>1. ~beginFailed /\ periods = users /\ (timerSuspended <=> powerMode = "Full")
      BY DEF TimerInit
    <3>2. users = 1 => ~timerSuspended
      <4>1. users = 1 => powerMode # "Full"
        BY <2>1
      <4> QED BY <3>1, <4>1
    <3>3. users = 0 \/ users = 1
      BY <2>1
    <3> QED BY <3>1, <3>2, <3>3 DEF PeriodsInv
  <2>4. ModeInv /\ LoopInv
    BY <2>1 DEF TimerInit, ModeInv, LoopInv
  <2> QED BY <2>1, <2>2, <2>3, <2>4 DEF TimerInv, UsersInv
<1>2. TimerInv /\ [TimerNext]_timerVars => TimerInv'
  <2> SUFFICES ASSUME TimerInv, [TimerNext]_timerVars PROVE TimerInv'
    OBVIOUS
  <2>1. CASE UNCHANGED timerVars
    BY <2>1 DEF timerVars, TimerInv, TimerTypeOK, UsersInv, PeriodsInv, ModeInv, LoopInv, Wanted
  <2> QED BY <2>1, ModeSteps, LoopSteps DEF TimerNext
<1>3. TimerInv => TimerMatchesMode
  <2> SUFFICES ASSUME TimerInv PROVE TimerMatchesMode
    OBVIOUS
  <2>1. PeriodsInv /\ users = Cardinality(leases)
    BY DEF TimerInv, UsersInv
  <2>2. change = "idle" => /\ timerSuspended = (powerMode = "Full")
                           /\ powerMode # "Off" => OffLease \notin leases
    BY DEF TimerInv, ModeInv
  <2>3. change = "idle" => \A l \in TimerLoop : loop[l] = "sleeps" /\ ~loopEvent[l] =>
                             (powerMode = "Full" \/ ~Wanted(l)) /\ l \notin leases
    BY DEF TimerInv, LoopInv
  <2>4. TimerTypeOK
    BY DEF TimerInv
  <2> QED BY <2>1, <2>2, <2>3, <2>4 DEF TimerMatchesMode, PeriodsInv
<1> QED BY <1>1, <1>2, <1>3, PTL DEF TimerSpec

=============================================================================
