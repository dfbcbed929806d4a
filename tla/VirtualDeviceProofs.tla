------------------------- MODULE VirtualDeviceProofs -------------------------
(***************************************************************************)
(* The devices that the host sees.                                         *)
(*                                                                         *)
(* KeyboardOutput, for any controllers, tokens and callers: the inductive  *)
(* invariant is a predicate Sound(k, P) on the manager's record k and the  *)
(* edges P its callers have pressed.  One lemma per operation of the       *)
(* manager says that it keeps Sound; the steps of the specification then   *)
(* only say which operation they are.                                      *)
(*                                                                         *)
(* ServerProxy, for any number of proxies and of attempts: NoOrphanChild is*)
(* not inductive by itself; OrphanInv adds that a process whose handle is  *)
(* cleared has been stopped or slipped, and that a proxy only reports ready*)
(* while somebody still knows it.                                          *)
(*                                                                         *)
(* InputSubmit, for any number of frames, threads and lives of the device: *)
(* TapsReachGame follows from where a tap may be (OnePlace), what it was   *)
(* meant for in each of those places (SlotAimed, HandAimed) and, while the *)
(* device is not being changed, with which generation it goes there        *)
(* (Delivered).                                                            *)
(*                                                                         *)
(* UsbIpServer, for any number of requests: OneCompletion follows from who *)
(* may still answer a request (OnlyHere) and from what has been answered   *)
(* while one of them may (AnswerOk).                                       *)
(***************************************************************************)
EXTENDS KeyboardOutput, ServerProxy, InputSubmit, UsbIpServer, FiniteSetTheorems,
        SequenceTheorems, TLAPS

-----------------------------------------------------------------------------
(* KeyboardOutput *)

\* The keyboard's tokens have virtual-key codes of their own: what _standard_event
\* needs and _legacy_vk_code does not give (both Control keys are VK_CONTROL).
DistinctVks ==
  \A t, o \in Token : VkOf[t] # NoVk /\ VkOf[t] = VkOf[o] => t = o

\* A held key is in the sink that is in use and was pressed by its owner.
HeldOK(k, P) ==
  /\ k.held \subseteq P
  /\ \A p \in k.held : VkOf[p[2]] # NoVk /\ (k.virtual => UsageOf[p[2]] = NoUsage)

\* What keybd_event left down.
Win32OK(k) ==
  /\ \A v \in k.vkDown : \E p \in k.held : VkOf[p[2]] = v
  /\ DistinctVks => \A p \in k.held : VkOf[p[2]] \in k.vkDown

\* An owner of a usage pressed a token of that usage.
OwnersOK(k, P) ==
  /\ ~k.virtual => k.owners = NoOwners
  /\ \A u \in Usage : \A s \in k.owners[u] : \E t \in Token : <<s, t>> \in P /\ UsageOf[t] = u

\* What the virtual keyboard reported.
ReportOK(k) ==
  /\ k.virtual /\ ~k.missed => k.reported = Report(k.owners)
  /\ ~k.virtual => k.reported = {} /\ ~k.missed

Sound(k, P) ==
  /\ k \in Manager
  /\ k.mode = "raw" <=> k.virtual
  /\ HeldOK(k, P) /\ Win32OK(k) /\ OwnersOK(k, P) /\ ReportOK(k)

-----------------------------------------------------------------------------
(* The Win32 sink *)

\* A report names usages, or roll-over.
LEMMA ReportType ==
  ASSUME NEW owners
  PROVE  Report(owners) \in SUBSET (Usage \cup {RollOver})
BY DEF Report

\* A change of the Win32 sink alone gives a manager.
LEMMA Win32Type ==
  ASSUME NEW k \in Manager, NEW held \in SUBSET (Source \X Token), NEW down \in SUBSET Vk
  PROVE  [k EXCEPT !.held = held, !.vkDown = down] \in Manager
BY DEF Manager

\* A list of releases lifts exactly the keys that lost their last owner.
LEMMA KeyUpsWin32 ==
  ASSUME NEW k \in Manager, NEW pairs \in SUBSET (Source \X Token), Win32OK(k),
         \A p \in k.held : VkOf[p[2]] # NoVk
  PROVE  Win32OK(KeyUps(k, pairs))
<1> DEFINE n == KeyUps(k, pairs)
           gone == {VkOf[p[2]] : p \in {q \in pairs : ~HoldsToken(k.held \ pairs, q[2])}}
<1>1. n.held = k.held \ pairs /\ n.vkDown = k.vkDown \ gone
  BY DEF KeyUps, Manager
<1>2. ASSUME NEW v \in n.vkDown
      PROVE  \E p \in n.held : VkOf[p[2]] = v
  <2>1. PICK p \in k.held : VkOf[p[2]] = v
    BY <1>1 DEF Win32OK
  <2>2. CASE p \notin pairs
    BY <1>1, <2>1, <2>2
  <2>3. CASE p \in pairs
    <3>1. HoldsToken(k.held \ pairs, p[2])
      BY <1>1, <2>1, <2>3
    <3>2. QED
      BY <1>1, <2>1, <3>1 DEF HoldsToken
  <2>4. QED
    BY <2>2, <2>3
<1>3. ASSUME DistinctVks, NEW p \in n.held
      PROVE  VkOf[p[2]] \in n.vkDown
  <2>1. p \in k.held /\ VkOf[p[2]] \in k.vkDown /\ VkOf[p[2]] # NoVk /\ p[2] \in Token
    BY <1>1, <1>3 DEF Win32OK, Manager
  <2>2. ASSUME NEW q \in pairs, VkOf[q[2]] = VkOf[p[2]]
        PROVE  HoldsToken(k.held \ pairs, q[2])
    <3>1. q[2] \in Token
      OBVIOUS
    <3>2. p[2] = q[2]
      BY <1>3, <2>1, <2>2, <3>1 DEF DistinctVks
    <3>3. QED
      BY <1>1, <3>2 DEF HoldsToken
  <2>3. VkOf[p[2]] \notin gone
    BY <2>2
  <2>4. QED
    BY <1>1, <2>1, <2>3
<1>4. QED
  BY <1>2, <1>3 DEF Win32OK

\* Releases change nothing but the Win32 sink.
LEMMA KeyUpsFrame ==
  ASSUME NEW k \in Manager, NEW pairs \in SUBSET (Source \X Token)
  PROVE  /\ KeyUps(k, pairs) \in Manager
         /\ KeyUps(k, pairs).held = k.held \ pairs
         /\ KeyUps(k, pairs).mode = k.mode /\ KeyUps(k, pairs).virtual = k.virtual
         /\ KeyUps(k, pairs).owners = k.owners /\ KeyUps(k, pairs).reported = k.reported
         /\ KeyUps(k, pairs).missed = k.missed
BY DEF KeyUps, Manager

\* Releases at the Win32 sink keep the invariant.
LEMMA KeyUpsSound ==
  ASSUME NEW k, NEW P, NEW pairs \in SUBSET (Source \X Token), Sound(k, P)
  PROVE  Sound(KeyUps(k, pairs), P)
<1>1. k \in Manager /\ Win32OK(k) /\ \A p \in k.held : VkOf[p[2]] # NoVk
  BY DEF Sound, HeldOK
<1>2. Win32OK(KeyUps(k, pairs))
  BY <1>1, KeyUpsWin32
<1>3. QED
  BY <1>1, <1>2, KeyUpsFrame DEF Sound, HeldOK, OwnersOK, ReportOK

\* A press at the Win32 sink keeps the invariant, for a token that goes there.
LEMMA KeyDownSound ==
  ASSUME NEW k, NEW P, NEW s \in Source, NEW t \in Token, Sound(k, P), <<s, t>> \in P,
         VkOf[t] # NoVk, k.virtual => UsageOf[t] = NoUsage
  PROVE  Sound(KeyDown(k, s, t), P)
<1> DEFINE n == KeyDown(k, s, t)
           others == {p \in k.held : p[1] # s}
           silent == <<s, t>> \notin k.held /\ HoldsToken(others, t)
<1>1. VkOf[t] \in Vk
  BY KeyboardAssumption
<1>2. k \in Manager
  BY DEF Sound
<1>3. /\ n.held = k.held \cup {<<s, t>>}
      /\ n.vkDown = IF silent THEN k.vkDown ELSE k.vkDown \cup {VkOf[t]}
      /\ n.mode = k.mode /\ n.virtual = k.virtual /\ n.owners = k.owners
      /\ n.reported = k.reported /\ n.missed = k.missed
  BY <1>2 DEF KeyDown, Manager
<1>4. n \in Manager
  <2> DEFINE down == IF silent THEN k.vkDown ELSE k.vkDown \cup {VkOf[t]}
  <2>1. k.held \cup {<<s, t>>} \in SUBSET (Source \X Token) /\ k.vkDown \in SUBSET Vk
    BY <1>2 DEF Manager
  <2>2. down \in SUBSET Vk
    BY <1>1, <2>1
  <2>3. n = [k EXCEPT !.held = k.held \cup {<<s, t>>}, !.vkDown = down]
    BY DEF KeyDown
  <2> HIDE DEF n, down
  <2>4. QED
    BY <1>2, <2>1, <2>2, <2>3, Win32Type
<1>5. Win32OK(n)
  <2>1. ASSUME silent, DistinctVks PROVE VkOf[t] \in k.vkDown
    BY <2>1 DEF Sound, Win32OK, HoldsToken
  <2>2. \A v \in n.vkDown : \E p \in n.held : VkOf[p[2]] = v
    <3>1. \A v \in k.vkDown : \E p \in k.held : VkOf[p[2]] = v
      BY DEF Sound, Win32OK
    <3>2. <<s, t>> \in n.held /\ k.held \subseteq n.held /\ <<s, t>>[2] = t
      BY <1>3
    <3>3. \A v \in n.vkDown : v \in k.vkDown \/ v = VkOf[t]
      BY <1>3
    <3>4. QED
      BY <3>1, <3>2, <3>3
  <2>3. ASSUME DistinctVks, NEW p \in n.held PROVE VkOf[p[2]] \in n.vkDown
    <3>1. k.vkDown \subseteq n.vkDown
      BY <1>3
    <3>2. CASE p \in k.held
      BY <2>3, <3>1, <3>2 DEF Sound, Win32OK
    <3>3. CASE p = <<s, t>>
      <4>1. p[2] = t
        BY <3>3
      <4>2. VkOf[t] \in n.vkDown
        <5>1. CASE silent
          BY <1>3, <2>1, <2>3, <5>1
        <5>2. CASE ~silent
          BY <1>3, <5>2
        <5>3. QED
          BY <5>1, <5>2
      <4>3. QED
        BY <4>1, <4>2
    <3>4. QED
      BY <1>3, <3>2, <3>3
  <2>4. QED
    BY <2>2, <2>3 DEF Win32OK
<1>6. HeldOK(n, P)
  BY <1>3 DEF Sound, HeldOK
<1>7. QED
  BY <1>3, <1>4, <1>5, <1>6 DEF Sound, OwnersOK, ReportOK

-----------------------------------------------------------------------------
(* The virtual keyboard *)

\* Owners may change freely as long as each has pressed its key and a report follows.
LEMMA SubmitSound ==
  ASSUME NEW k, NEW P, NEW Q, NEW ok \in BOOLEAN, NEW owners \in [Usage -> SUBSET Source],
         Sound(k, P), k.virtual, HeldOK(k, Q),
         \A u \in Usage : \A s \in owners[u] : \E t \in Token : <<s, t>> \in Q /\ UsageOf[t] = u
  PROVE  Sound(Submit([k EXCEPT !.owners = owners], ok), Q)
<1> DEFINE n == Submit([k EXCEPT !.owners = owners], ok)
<1>1. k \in Manager
  BY DEF Sound
<1>2. /\ n.owners = owners /\ n.held = k.held /\ n.vkDown = k.vkDown
      /\ n.mode = k.mode /\ n.virtual = k.virtual /\ n.missed = ~ok
      /\ n.reported = IF ok THEN Report(owners) ELSE k.reported
  BY <1>1 DEF Submit, Manager
<1>3. n \in Manager
  BY <1>1, ReportType DEF Submit, Manager
<1> HIDE DEF n
<1>4. HeldOK(n, Q) /\ Win32OK(n)
  BY <1>2 DEF Sound, HeldOK, Win32OK
<1>5. OwnersOK(n, Q) /\ ReportOK(n)
  BY <1>2 DEF OwnersOK, ReportOK
<1>6. Sound(n, Q)
  BY <1>2, <1>3, <1>4, <1>5 DEF Sound
<1> QED BY <1>6 DEF n

\* Releasing everything keeps the invariant and leaves nothing held.
LEMMA ReleaseAllSound ==
  ASSUME NEW k, NEW P, NEW ok \in BOOLEAN, Sound(k, P)
  PROVE  /\ Sound(ReleaseAll(k, ok), P)
         /\ ReleaseAll(k, ok).held = {} /\ ReleaseAll(k, ok).vkDown = {}
         /\ ReleaseAll(k, ok).owners = NoOwners
         /\ ReleaseAll(k, ok).virtual = k.virtual
         /\ ok => ReleaseAll(k, ok).reported = {} /\ ~ReleaseAll(k, ok).missed
<1> DEFINE empty == [k EXCEPT !.owners = NoOwners]
           told == IF k.virtual THEN Submit(empty, ok) ELSE empty
<1>1. k \in Manager /\ k.held \in SUBSET (Source \X Token) /\ HeldOK(k, P)
  BY DEF Sound, Manager
<1>2. NoOwners \in [Usage -> SUBSET Source]
  BY DEF NoOwners
<1>3. Sound(told, P) /\ told.held = k.held /\ told.virtual = k.virtual /\ told.owners = NoOwners
  <2>1. CASE k.virtual
    <3>1. Sound(told, P)
      BY <1>1, <1>2, <2>1, SubmitSound DEF NoOwners
    <3>2. QED
      BY <1>1, <2>1, <3>1 DEF Submit, Manager
  <2>2. CASE ~k.virtual
    <3>1. empty = k
      BY <1>1, <2>2 DEF Sound, OwnersOK, Manager
    <3>2. QED
      BY <2>2, <3>1 DEF Sound, OwnersOK
  <2>3. QED
    BY <2>1, <2>2
<1>4. ok => told.reported = {} /\ ~told.missed
  <2>1. Cardinality({}) = 0 /\ 0 <= MaxKeys
    BY FS_EmptySet, KeyboardAssumption
  <2>2. {u \in Usage : NoOwners[u] # {}} = {}
    BY DEF NoOwners
  <2>3. Report(NoOwners) = {}
    BY <2>1, <2>2 DEF Report
  <2>4. QED
    BY <1>1, <1>3, <2>3 DEF Submit, Manager, Sound, ReportOK
<1>5. ReleaseAll(k, ok) = KeyUps(told, k.held)
  BY DEF ReleaseAll
<1>6. told \in Manager
  BY <1>3 DEF Sound
<1> HIDE DEF told
<1>7. Sound(ReleaseAll(k, ok), P)
  BY <1>1, <1>3, <1>5, KeyUpsSound
<1>8. /\ ReleaseAll(k, ok).held = {}
      /\ ReleaseAll(k, ok).owners = told.owners
      /\ ReleaseAll(k, ok).virtual = told.virtual
      /\ ReleaseAll(k, ok).reported = told.reported
      /\ ReleaseAll(k, ok).missed = told.missed
  <2>1. KeyUps(told, k.held).held = told.held \ k.held
    BY <1>1, <1>6, KeyUpsFrame
  <2>2. QED
    BY <1>1, <1>3, <1>5, <1>6, <2>1, KeyUpsFrame
<1>9. ReleaseAll(k, ok).vkDown = {}
  BY <1>7, <1>8 DEF Sound, Win32OK, Manager
<1>10. QED
  BY <1>3, <1>4, <1>7, <1>8, <1>9

-----------------------------------------------------------------------------
(* The operations *)

\* More pressed edges keep the invariant.
LEMMA SoundMonotone ==
  ASSUME NEW k, NEW P, NEW Q, P \subseteq Q, Sound(k, P)
  PROVE  Sound(k, Q)
<1>1. OwnersOK(k, Q)
  BY DEF Sound, OwnersOK
<1>2. HeldOK(k, Q)
  BY DEF Sound, HeldOK
<1>3. QED
  BY <1>1, <1>2 DEF Sound

\* Nothing held and nothing owned is explained by any edges.
LEMMA SoundEmpty ==
  ASSUME NEW k, NEW P, NEW Q, Sound(k, P), k.held = {}, k.owners = NoOwners
  PROVE  Sound(k, Q)
BY DEF Sound, HeldOK, OwnersOK, NoOwners

\* The device that is opened starts with no key down, the one closed leaves none.
LEMMA SwitchSound ==
  ASSUME NEW k, NEW P, NEW raw \in BOOLEAN, Sound(k, P),
         k.held = {}, k.owners = NoOwners, k.reported = {}, ~k.missed
  PROVE  Sound([k EXCEPT !.mode = IF raw THEN "raw" ELSE "standard", !.virtual = raw], P)
<1> DEFINE n == [k EXCEPT !.mode = IF raw THEN "raw" ELSE "standard", !.virtual = raw]
<1>1. k \in Manager
  BY DEF Sound
<1>2. /\ n.mode = (IF raw THEN "raw" ELSE "standard") /\ n.virtual = raw
      /\ n.held = k.held /\ n.vkDown = k.vkDown /\ n.owners = k.owners
      /\ n.reported = k.reported /\ n.missed = k.missed
  BY <1>1 DEF Manager
<1>3. n \in Manager
  BY <1>1 DEF Manager
<1>4. Report(NoOwners) = {}
  <2>1. Cardinality({}) = 0 /\ 0 <= MaxKeys
    BY FS_EmptySet, KeyboardAssumption
  <2>2. {u \in Usage : NoOwners[u] # {}} = {}
    BY DEF NoOwners
  <2>3. QED
    BY <2>1, <2>2 DEF Report
<1>5. n.mode = "raw" <=> n.virtual
  BY <1>2
<1> HIDE DEF n
<1>6. HeldOK(n, P) /\ Win32OK(n) /\ OwnersOK(n, P) /\ ReportOK(n)
  BY <1>2, <1>4 DEF Sound, HeldOK, Win32OK, OwnersOK, ReportOK
<1>7. Sound(n, P)
  BY <1>3, <1>5, <1>6 DEF Sound
<1>8. QED
  BY <1>7 DEF n

\* Switching to Raw Input keeps the invariant, whether the device comes up or not.
LEMMA ActivateRawSound ==
  ASSUME NEW k, NEW P, NEW made \in BOOLEAN, Sound(k, P)
  PROVE  Sound(ActivateRaw(k, made), P)
<1>1. CASE k.virtual
  <2>1. k.mode = "raw" /\ k \in Manager
    BY <1>1 DEF Sound
  <2>2. ActivateRaw(k, made) = k
    BY <1>1, <2>1 DEF ActivateRaw, Manager
  <2>3. QED
    BY <2>2
<1>2. CASE ~k.virtual /\ ~made
  <2>1. k.mode = "standard" /\ k \in Manager
    BY <1>2 DEF Sound, Manager
  <2>2. ActivateRaw(k, made) = k
    BY <1>2, <2>1 DEF ActivateRaw, Manager
  <2>3. QED
    BY <2>2
<1>3. CASE ~k.virtual /\ made
  <2> DEFINE r == ReleaseAll(k, TRUE)
  <2>1. Sound(r, P) /\ r.held = {} /\ r.owners = NoOwners /\ r.reported = {} /\ ~r.missed
    BY ReleaseAllSound
  <2>2. ActivateRaw(k, made) = [r EXCEPT !.mode = IF TRUE THEN "raw" ELSE "standard", !.virtual = TRUE]
    BY <1>3 DEF ActivateRaw
  <2> HIDE DEF r
  <2>3. QED
    BY <2>1, <2>2, SwitchSound
<1>4. QED
  BY <1>1, <1>2, <1>3

\* Switching to Standard keeps the invariant and leaves nothing held or owned.
LEMMA ActivateStandardSound ==
  ASSUME NEW k, NEW P, NEW Q, Sound(k, P)
  PROVE  Sound(ActivateStandard(k), Q)
<1> DEFINE r == ReleaseAll(k, TRUE)
<1>1. Sound(r, P) /\ r.held = {} /\ r.owners = NoOwners /\ r.reported = {} /\ ~r.missed
  BY ReleaseAllSound
<1>2. ActivateStandard(k) = [r EXCEPT !.mode = IF FALSE THEN "raw" ELSE "standard", !.virtual = FALSE]
  BY DEF ActivateStandard
<1> HIDE DEF r
<1>3. Sound(r, Q)
  BY <1>1, SoundEmpty
<1>4. QED
  BY <1>1, <1>2, <1>3, SwitchSound

\* The edges of the owners that are left still explain them.
LEMMA ReleaseSourceSound ==
  ASSUME NEW k, NEW P \in SUBSET Edge, NEW d \in Device, NEW ok \in BOOLEAN, Sound(k, P)
  PROVE  Sound(ReleaseSource(k, d, ok), {p \in P : DeviceOf[p[1]] # d})
<1> DEFINE Q == {p \in P : DeviceOf[p[1]] # d}
           owners == [u \in Usage |-> k.owners[u] \ OwnedBy(d)]
           k1 == [k EXCEPT !.owners = owners]
           k2 == IF k1.owners # k.owners /\ k.virtual THEN Submit(k1, ok) ELSE k1
<1>1. /\ k \in Manager /\ k.owners \in [Usage -> SUBSET Source]
      /\ k.held \in SUBSET (Source \X Token) /\ HeldOK(k, P)
  BY DEF Sound, Manager
<1>2. owners \in [Usage -> SUBSET Source] /\ HeldBy(k, d) \in SUBSET (Source \X Token)
  BY <1>1 DEF HeldBy
<1>3. \A u \in Usage : \A s \in owners[u] : \E t \in Token : <<s, t>> \in P /\ UsageOf[t] = u
  BY DEF Sound, OwnersOK
<1>4. Sound(k2, P) /\ k2.owners = owners /\ k2.held = k.held
  <2>1. k1.owners = owners /\ k1.held = k.held /\ k1.virtual = k.virtual
    BY <1>1 DEF Manager
  <2>2. CASE owners # k.owners /\ k.virtual
    <3>1. k2 = Submit(k1, ok)
      BY <2>1, <2>2
    <3>2. Sound(Submit(k1, ok), P)
      BY <1>1, <1>2, <1>3, <2>2, SubmitSound
    <3>3. Submit(k1, ok).owners = owners /\ Submit(k1, ok).held = k.held
      BY <1>1 DEF Submit, Manager
    <3>4. QED
      BY <3>1, <3>2, <3>3
  <2>3. CASE owners = k.owners
    <3>1. k1 = k
      BY <1>1, <2>3 DEF Manager
    <3>2. k2 = k
      BY <2>1, <2>3, <3>1
    <3>3. QED
      BY <2>3, <3>2
  <2>4. CASE ~k.virtual
    <3>1. k.owners = NoOwners
      BY <2>4 DEF Sound, OwnersOK
    <3>2. owners = k.owners
      BY <1>1, <3>1 DEF NoOwners
    <3>3. QED
      BY <2>3, <3>2
  <2>5. QED
    BY <2>2, <2>3, <2>4
<1>5. ReleaseSource(k, d, ok) = KeyUps(k2, HeldBy(k, d))
  BY DEF ReleaseSource
<1> DEFINE n == KeyUps(k2, HeldBy(k, d))
<1> HIDE DEF k2
<1>6. Sound(n, P)
  BY <1>2, <1>4, KeyUpsSound
<1>7. n.owners = owners /\ n.held = k.held \ HeldBy(k, d)
  <2>1. k2 \in Manager
    BY <1>4 DEF Sound
  <2>2. QED
    BY <1>2, <1>4, <2>1, KeyUpsFrame
<1>8. HeldOK(n, Q)
  <2>1. \A p \in n.held : p \in Q
    BY <1>6, <1>7 DEF Sound, HeldOK, HeldBy
  <2>2. QED
    BY <1>6, <2>1 DEF Sound, HeldOK
<1>9. OwnersOK(n, Q)
  <2>1. ASSUME NEW u \in Usage, NEW s \in n.owners[u]
        PROVE  \E t \in Token : <<s, t>> \in Q /\ UsageOf[t] = u
    <3>1. PICK t \in Token : <<s, t>> \in P /\ UsageOf[t] = u
      BY <1>3, <1>7
    <3>2. s \in Source /\ s \notin OwnedBy(d)
      BY <1>1, <1>7
    <3>3. DeviceOf[<<s, t>>[1]] # d
      BY <3>2 DEF OwnedBy
    <3>4. QED
      BY <3>1, <3>3
  <2>2. QED
    BY <1>6, <2>1 DEF Sound, OwnersOK
<1> HIDE DEF n
<1>10. QED
  BY <1>5, <1>6, <1>8, <1>9 DEF Sound, n

-----------------------------------------------------------------------------
(* Presses and releases *)

\* The record a key event works on, after a saved Raw Input was taken up again.
Resumed(k, made) ==
  IF k.mode = "standard" /\ ~k.virtual /\ saved = "raw" THEN ActivateRaw(k, made) ELSE k

\* The owners of the token's usage after the event.
Owners(k, s, t, down) ==
  [k.owners EXCEPT ![UsageOf[t]] = IF down THEN @ \cup {s} ELSE @ \ {s}]

\* What a key event makes of the record r: a Win32 event, a report, or Standard.
Outcome(e, r, s, t, down) ==
  LET o == [r EXCEPT !.owners = Owners(r, s, t, down)]
  IN \/ (r.virtual => UsageOf[t] = NoUsage) /\ e = StandardEvent(r, s, t, down)
     \/ r.virtual /\ UsageOf[t] \in Usage /\ (e = Submit(o, TRUE) \/ e = ActivateStandard(o))

\* A key event has one of these outcomes on the record that was taken up again.
LEMMA KeyEventCases ==
  ASSUME NEW k, NEW P, NEW s \in Source, NEW t \in Token, NEW down \in BOOLEAN,
         NEW made \in BOOLEAN, NEW ok \in BOOLEAN, Sound(k, P)
  PROVE  /\ Sound(Resumed(k, made), P)
         /\ Outcome(KeyEvent(k, s, t, down, made, ok), Resumed(k, made), s, t, down)
<1> DEFINE r == Resumed(k, made)
           o == [r EXCEPT !.owners = Owners(r, s, t, down)]
           e == KeyEvent(k, s, t, down, made, ok)
<1>1. Sound(r, P)
  BY ActivateRawSound DEF Resumed
<1>2. UsageOf[t] \in Usage \cup {NoUsage}
  BY KeyboardAssumption
<1>3. EffectiveRaw(r) <=> r.virtual
  BY <1>1 DEF Sound, EffectiveRaw
<1>4. e = IF ~EffectiveRaw(r) \/ UsageOf[t] = NoUsage THEN StandardEvent(r, s, t, down)
          ELSE IF ok THEN Submit(o, TRUE) ELSE ActivateStandard(o)
  BY DEF KeyEvent, Resumed, Owners
<1> HIDE DEF r, e
<1>5. Outcome(e, r, s, t, down)
  <2>1. CASE ~r.virtual \/ UsageOf[t] = NoUsage
    BY <1>3, <1>4, <2>1 DEF Outcome
  <2>2. CASE r.virtual /\ UsageOf[t] # NoUsage
    BY <1>2, <1>3, <1>4, <2>2 DEF Outcome
  <2>3. QED
    BY <2>1, <2>2
<1>6. QED
  BY <1>1, <1>5 DEF r, e

\* The owners after an event are sets of sources.
LEMMA OwnersType ==
  ASSUME NEW k \in Manager, NEW s \in Source, NEW t \in Token, NEW down \in BOOLEAN
  PROVE  Owners(k, s, t, down) \in [Usage -> SUBSET Source]
BY DEF Owners, Manager

\* Reverting to Standard makes no difference between owners.
LEMMA StandardDropsOwners ==
  ASSUME NEW r \in Manager, NEW owners
  PROVE  ActivateStandard([r EXCEPT !.owners = owners]) = ActivateStandard(r)
<1> DEFINE o == [r EXCEPT !.owners = owners]
<1>1. [o EXCEPT !.owners = NoOwners] = [r EXCEPT !.owners = NoOwners]
  BY DEF Manager
<1>2. o.virtual = r.virtual /\ o.held = r.held
  BY DEF Manager
<1>3. ReleaseAll(o, TRUE) = ReleaseAll(r, TRUE)
  BY <1>1, <1>2 DEF ReleaseAll
<1>4. QED
  BY <1>3 DEF ActivateStandard

\* A press keeps the invariant, its edge being pressed now.
LEMMA PressSound ==
  ASSUME NEW k, NEW P, NEW s \in Source, NEW t \in Token, NEW made \in BOOLEAN,
         NEW ok \in BOOLEAN, Sound(k, P)
  PROVE  Sound(KeyEvent(k, s, t, TRUE, made, ok), P \cup {<<s, t>>})
<1> DEFINE r == Resumed(k, made)
           o == [r EXCEPT !.owners = Owners(r, s, t, TRUE)]
           e == KeyEvent(k, s, t, TRUE, made, ok)
           Q == P \cup {<<s, t>>}
<1>1. Sound(r, P) /\ Outcome(e, r, s, t, TRUE)
  BY KeyEventCases
<1> HIDE DEF r, e
<1>2. Sound(r, Q)
  BY <1>1, SoundMonotone
<1>3. CASE (r.virtual => UsageOf[t] = NoUsage) /\ e = StandardEvent(r, s, t, TRUE)
  <2>1. CASE VkOf[t] = NoVk
    BY <1>2, <1>3, <2>1 DEF StandardEvent, e
  <2>2. CASE VkOf[t] # NoVk
    <3>1. e = KeyDown(r, s, t)
      BY <1>3, <2>2 DEF StandardEvent
    <3>2. <<s, t>> \in Q
      OBVIOUS
    <3>3. Sound(KeyDown(r, s, t), Q)
      BY <1>2, <1>3, <2>2, <3>2, KeyDownSound
    <3> QED BY <3>1, <3>3 DEF e
  <2>3. QED
    BY <2>1, <2>2 DEF e
<1>4. CASE r.virtual /\ UsageOf[t] \in Usage /\ (e = Submit(o, TRUE) \/ e = ActivateStandard(o))
  <2>1. r \in Manager
    BY <1>1 DEF Sound
  <2>2. Owners(r, s, t, TRUE) \in [Usage -> SUBSET Source]
    BY <2>1, OwnersType
  <2>3. ASSUME NEW u \in Usage, NEW x \in Owners(r, s, t, TRUE)[u]
        PROVE  \E y \in Token : <<x, y>> \in Q /\ UsageOf[y] = u
    <3>1. x \in r.owners[u] \/ (x = s /\ u = UsageOf[t])
      BY <2>1 DEF Owners, Manager
    <3>2. QED
      BY <1>2, <3>1 DEF Sound, OwnersOK
  <2>4. Sound(Submit(o, TRUE), Q)
    BY <1>2, <1>4, <2>2, <2>3, SubmitSound DEF Sound
  <2>5. Sound(ActivateStandard(o), Q)
    BY <1>1, <2>1, StandardDropsOwners, ActivateStandardSound
  <2>6. QED
    BY <1>4, <2>4, <2>5 DEF e
<1>5. QED
  BY <1>1, <1>3, <1>4 DEF Outcome

\* A release keeps the invariant without the edge: the source no longer holds its
\* token at the Win32 sink, nor owns its usage.
LEMMA ReleaseSound ==
  ASSUME NEW k, NEW P, NEW s \in Source, NEW t \in Token, NEW made \in BOOLEAN,
         NEW ok \in BOOLEAN, Sound(k, P)
  PROVE  Sound(KeyEvent(k, s, t, FALSE, made, ok), P \ {<<s, t>>})
<1> DEFINE r == Resumed(k, made)
           o == [r EXCEPT !.owners = Owners(r, s, t, FALSE)]
           e == KeyEvent(k, s, t, FALSE, made, ok)
           Q == P \ {<<s, t>>}
<1>1. Sound(r, P) /\ Outcome(e, r, s, t, FALSE)
  BY KeyEventCases
<1> HIDE DEF r, e
<1>2. r \in Manager
  BY <1>1 DEF Sound
<1>3. CASE (r.virtual => UsageOf[t] = NoUsage) /\ e = StandardEvent(r, s, t, FALSE)
  <2>1. Sound(e, P) /\ e.virtual = r.virtual /\ e.owners = r.owners /\ <<s, t>> \notin e.held
    <3>1. CASE VkOf[t] = NoVk
      <4>1. e = r
        BY <1>3, <3>1 DEF StandardEvent
      <4>2. <<s, t>>[2] = t
        OBVIOUS
      <4>3. QED
        BY <1>1, <3>1, <4>1, <4>2 DEF Sound, HeldOK
    <3>2. CASE VkOf[t] # NoVk
      <4>1. e = KeyUps(r, {<<s, t>>}) /\ {<<s, t>>} \in SUBSET (Source \X Token)
        BY <1>3, <3>2 DEF StandardEvent
      <4>2. QED
        BY <1>1, <1>2, <4>1, KeyUpsSound, KeyUpsFrame
    <3>3. QED
      BY <3>1, <3>2
  <2>2. OwnersOK(e, Q)
    <3>1. ~r.virtual => r.owners = NoOwners
      BY <1>1 DEF Sound, OwnersOK
    <3>2. ASSUME NEW u \in Usage, NEW x \in e.owners[u]
          PROVE  \E y \in Token : <<x, y>> \in Q /\ UsageOf[y] = u
      <4>1. r.virtual
        BY <2>1, <3>1, <3>2 DEF NoOwners
      <4>2. UsageOf[t] # u
        BY <1>3, <4>1, KeyboardAssumption
      <4>3. PICK y \in Token : <<x, y>> \in P /\ UsageOf[y] = u
        BY <2>1, <3>2 DEF Sound, OwnersOK
      <4>4. <<x, y>> # <<s, t>>
        BY <4>2, <4>3
      <4>5. QED
        BY <4>3, <4>4
    <3>3. QED
      BY <2>1, <3>1, <3>2 DEF OwnersOK
  <2>3. HeldOK(e, Q)
    BY <2>1 DEF Sound, HeldOK
  <2>4. Sound(e, Q)
    BY <2>1, <2>2, <2>3 DEF Sound
  <2>5. QED
    BY <2>4 DEF e
<1>4. CASE r.virtual /\ UsageOf[t] \in Usage /\ (e = Submit(o, TRUE) \/ e = ActivateStandard(o))
  <2>1. Owners(r, s, t, FALSE) \in [Usage -> SUBSET Source]
    BY <1>2, OwnersType
  <2>2. HeldOK(r, Q)
    <3>1. ASSUME NEW p \in r.held PROVE p # <<s, t>>
      <4>1. UsageOf[p[2]] \notin Usage
        BY <1>1, <1>4, KeyboardAssumption DEF Sound, HeldOK
      <4>2. QED
        BY <1>4, <4>1
    <3>2. QED
      BY <1>1, <3>1 DEF Sound, HeldOK
  <2>3. ASSUME NEW u \in Usage, NEW x \in Owners(r, s, t, FALSE)[u]
        PROVE  \E y \in Token : <<x, y>> \in Q /\ UsageOf[y] = u
    <3>1. x \in r.owners[u] /\ (u = UsageOf[t] => x # s)
      BY <1>2 DEF Owners, Manager
    <3>2. PICK y \in Token : <<x, y>> \in P /\ UsageOf[y] = u
      BY <1>1, <3>1 DEF Sound, OwnersOK
    <3>3. <<x, y>> # <<s, t>>
      BY <3>1, <3>2
    <3>4. QED
      BY <3>2, <3>3
  <2>4. Sound(Submit(o, TRUE), Q)
    BY <1>1, <1>4, <2>1, <2>2, <2>3, SubmitSound
  <2>5. Sound(ActivateStandard(o), Q)
    BY <1>1, <1>2, StandardDropsOwners, ActivateStandardSound
  <2>6. QED
    BY <1>4, <2>4, <2>5 DEF e
<1>5. QED
  BY <1>1, <1>3, <1>4 DEF Outcome

-----------------------------------------------------------------------------
(* The specification *)

KeyboardInv == KeyboardTypeOK /\ Sound(kb, pressed)

\* The invariant holds initially.
LEMMA KeyboardInitInv == KeyboardInit => KeyboardInv
<1> SUFFICES ASSUME KeyboardInit PROVE KeyboardInv
  OBVIOUS
<1>1. kb \in Manager
  BY DEF KeyboardInit, Manager, NoOwners
<1>2. /\ kb.held = {} /\ kb.vkDown = {} /\ kb.owners = NoOwners /\ kb.reported = {}
      /\ kb.mode = "standard" /\ kb.virtual = FALSE /\ kb.missed = FALSE
  BY DEF KeyboardInit
<1>3. Sound(kb, pressed)
  BY <1>1, <1>2 DEF Sound, HeldOK, Win32OK, OwnersOK, ReportOK, NoOwners
<1>4. QED
  BY <1>1, <1>3 DEF KeyboardInit, KeyboardInv, KeyboardTypeOK

\* A press or a release keeps the invariant.
LEMMA EdgeSteps ==
  ASSUME KeyboardInv, NEW s \in Source, NEW t \in Token, <<s, t>> \in Edge,
         Press(s, t) \/ Release(s, t)
  PROVE  KeyboardInv'
<1> USE DEF KeyboardInv
<1>1. CASE Press(s, t)
  <2>1. Sound(kb', pressed')
    <3>1. PICK made \in BOOLEAN, ok \in BOOLEAN : kb' = KeyEvent(kb, s, t, TRUE, made, ok)
      BY <1>1 DEF Press
    <3>2. Sound(kb, pressed) /\ pressed' = pressed \cup {<<s, t>>}
      BY <1>1 DEF Press
    <3>3. Sound(KeyEvent(kb, s, t, TRUE, made, ok), pressed \cup {<<s, t>>})
      BY <3>2, PressSound
    <3>4. QED
      BY <3>1, <3>2, <3>3
  <2>2. QED
    BY <1>1, <2>1 DEF Press, KeyboardTypeOK, system, Sound
<1>2. CASE Release(s, t)
  <2>1. Sound(kb', pressed')
    <3>1. PICK made \in BOOLEAN, ok \in BOOLEAN : kb' = KeyEvent(kb, s, t, FALSE, made, ok)
      BY <1>2 DEF Release
    <3>2. Sound(kb, pressed) /\ pressed' = pressed \ {<<s, t>>}
      BY <1>2 DEF Release
    <3>3. Sound(KeyEvent(kb, s, t, FALSE, made, ok), pressed \ {<<s, t>>})
      BY <3>2, ReleaseSound
    <3>4. QED
      BY <3>1, <3>2, <3>3
  <2>2. QED
    BY <1>2, <2>1 DEF Release, KeyboardTypeOK, system, Sound
<1>3. QED
  BY <1>1, <1>2

\* The other steps of a controller keep the invariant.
LEMMA DeviceSteps ==
  ASSUME KeyboardInv, NEW d \in Device,
         ReportStart(d) \/ ReportEnd(d) \/ Disconnect(d) \/ SuspendController(d)
  PROVE  KeyboardInv'
<1> USE DEF KeyboardInv
<1>1. CASE Disconnect(d)
  <2>1. Sound(kb', pressed')
    BY <1>1, ReleaseSourceSound DEF Disconnect, KeyboardTypeOK
  <2>2. QED
    BY <1>1, <2>1 DEF Disconnect, KeyboardTypeOK, system, Sound
<1>2. CASE ReportStart(d)
  BY <1>2 DEF ReportStart, KeyboardTypeOK, system, manager
<1>3. CASE ReportEnd(d)
  BY <1>3 DEF ReportEnd, KeyboardTypeOK, system, manager
<1>4. CASE SuspendController(d)
  BY <1>4 DEF SuspendController, KeyboardTypeOK, system, manager
<1>5. QED
  BY <1>1, <1>2, <1>3, <1>4

\* The steps of the callers keep the invariant.
LEMMA CallerSteps ==
  ASSUME KeyboardInv, NEW c \in Caller,
         \/ InitializeBegin(c) \/ InitializeRequest(c) \/ InitializeSave(c)
         \/ SwitchToRaw(c) \/ SwitchToStandard(c) \/ SwitchProfile \/ Toggle
         \/ DriverRemoved \/ DriverKept
  PROVE  KeyboardInv'
<1> USE DEF KeyboardInv
<1>0. Gui \in Caller
  BY KeyboardAssumption
<1>1. CASE InitializeBegin(c)
  BY <1>1 DEF InitializeBegin, Turn, KeyboardTypeOK, system, manager
<1>2. CASE InitializeRequest(c)
  BY <1>2 DEF InitializeRequest, Turn, KeyboardTypeOK, system, manager
<1>3. CASE InitializeSave(c)
  BY <1>3 DEF InitializeSave, Turn, KeyboardTypeOK, system, manager
<1>4. CASE SwitchToRaw(c)
  <2>1. Sound(kb', pressed) /\ pressed' = pressed
    BY <1>4, ActivateRawSound DEF SwitchToRaw, Turn
  <2>2. QED
    BY <1>4, <2>1 DEF SwitchToRaw, Turn, KeyboardTypeOK, system, Sound
<1>5. CASE SwitchToStandard(c)
  <2>1. Sound(kb', pressed) /\ pressed' = pressed
    BY <1>5, ActivateStandardSound DEF SwitchToStandard, Turn
  <2>2. QED
    BY <1>5, <2>1 DEF SwitchToStandard, Turn, KeyboardTypeOK, system, Sound
<1>6. CASE SwitchProfile
  BY <1>0, <1>6 DEF SwitchProfile, Turn, KeyboardTypeOK, system
<1>7. CASE Toggle
  BY <1>0, <1>7 DEF Toggle, Turn, KeyboardTypeOK, system, manager
<1>8. CASE DriverRemoved
  <2>1. Sound(kb', pressed)
    BY <1>8, ActivateStandardSound DEF DriverRemoved
  <2>2. QED
    BY <1>8, <2>1 DEF DriverRemoved, KeyboardTypeOK, system, Sound
<1>9. CASE DriverKept
  <2>1. Sound(kb', pressed)
    BY <1>9, ActivateRawSound DEF DriverKept
  <2>2. QED
    BY <1>9, <2>1 DEF DriverKept, KeyboardTypeOK, system, Sound
<1>10. QED
  BY <1>1, <1>2, <1>3, <1>4, <1>5, <1>6, <1>7, <1>8, <1>9

\* Suspend and resume keep the invariant.
LEMMA PowerSteps ==
  ASSUME KeyboardInv, SuspendBegin \/ SuspendEnd \/ Resume
  PROVE  KeyboardInv'
<1> USE DEF KeyboardInv
<1>1. CASE SuspendBegin
  <2>1. Sound(kb', pressed)
    BY <1>1, ReleaseAllSound DEF SuspendBegin
  <2>2. QED
    BY <1>1, <2>1 DEF SuspendBegin, KeyboardTypeOK, Sound
<1>2. CASE SuspendEnd
  BY <1>2 DEF SuspendEnd, KeyboardTypeOK, manager
<1>3. CASE Resume
  <2>1. Sound(kb', pressed')
    BY <1>3, ActivateStandardSound DEF Resume
  <2>2. QED
    BY <1>3, <2>1 DEF Resume, KeyboardTypeOK, Sound
<1>4. QED
  BY <1>1, <1>2, <1>3

\* KeyboardInv is an invariant of the specification.
THEOREM KeyboardInvariance == KeyboardSpec => []KeyboardInv
<1>1. KeyboardInv /\ [KeyboardNext]_keyboardVars => KeyboardInv'
  <2> SUFFICES ASSUME KeyboardInv, [KeyboardNext]_keyboardVars PROVE KeyboardInv'
    OBVIOUS
  <2>1. ASSUME NEW e \in Edge, Press(e[1], e[2]) \/ Release(e[1], e[2]) PROVE KeyboardInv'
    <3>1. e = <<e[1], e[2]>> /\ e[1] \in Source /\ e[2] \in Token
      BY KeyboardAssumption
    <3>2. QED
      BY <2>1, <3>1, EdgeSteps
  <2>2. ASSUME NEW d \in Device,
               ReportStart(d) \/ ReportEnd(d) \/ Disconnect(d) \/ SuspendController(d)
        PROVE  KeyboardInv'
    BY <2>2, DeviceSteps
  <2>3. ASSUME NEW c \in Caller,
               \/ InitializeBegin(c) \/ InitializeRequest(c) \/ InitializeSave(c)
               \/ SwitchToRaw(c) \/ SwitchToStandard(c)
        PROVE  KeyboardInv'
    BY <2>3, CallerSteps
  <2>4. CASE SwitchProfile \/ Toggle \/ DriverRemoved \/ DriverKept
    BY <2>4, CallerSteps, KeyboardAssumption
  <2>5. CASE SuspendBegin \/ SuspendEnd \/ Resume
    BY <2>5, PowerSteps
  <2>6. CASE UNCHANGED keyboardVars
    BY <2>6 DEF keyboardVars, KeyboardInv, KeyboardTypeOK
  <2>7. QED
    BY <2>1, <2>2, <2>3, <2>4, <2>5, <2>6 DEF KeyboardNext
<1>2. QED
  BY KeyboardInitInv, <1>1, PTL DEF KeyboardSpec

\* Every reachable state is well typed.
THEOREM KeyboardTypeCorrect == KeyboardSpec => []KeyboardTypeOK
<1>1. KeyboardInv => KeyboardTypeOK
  BY DEF KeyboardInv
<1>2. QED
  BY KeyboardInvariance, <1>1, PTL

\* A held key lives in one sink, through every mode switch, failed report and
\* concurrent initialize() (activate_raw_input, activate_standard, key_event).
THEOREM HeldInOneSink == KeyboardSpec => []OneSink
<1>1. KeyboardInv => OneSink
  BY DEF KeyboardInv, Sound, HeldOK, OwnersOK, OneSink
<1>2. QED
  BY KeyboardInvariance, <1>1, PTL

\* The virtual keyboard shows the owned keys and none when closed (_submit_locked).
THEOREM ReportsFollowOwners == KeyboardSpec => []ReportIsOwners
<1>1. KeyboardInv => ReportIsOwners
  BY DEF KeyboardInv, Sound, ReportOK, ReportIsOwners
<1>2. QED
  BY KeyboardInvariance, <1>1, PTL

\* No key outlives the presses of its mappings, for any tokens, also those that
\* share a usage or a virtual-key code (key_event, release_source).
THEOREM KeysNotStuck == KeyboardSpec => []NoStuckKey
<1>1. KeyboardInv => NoStuckKey
  <2> SUFFICES ASSUME KeyboardInv PROVE NoStuckKey
    OBVIOUS
  <2>1. ASSUME NEW v \in kb.vkDown PROVE \E p \in pressed : VkOf[p[2]] = v
    BY DEF KeyboardInv, Sound, HeldOK, Win32OK
  <2>2. ASSUME ~kb.missed, NEW u \in kb.reported \ {RollOver}
        PROVE  \E p \in pressed : UsageOf[p[2]] = u
    <3>1. kb.virtual /\ kb.reported = Report(kb.owners)
      BY <2>2 DEF KeyboardInv, Sound, ReportOK
    <3>2. u \in Usage /\ kb.owners[u] # {}
      BY <2>2, <3>1 DEF Report
    <3>3. PICK s \in kb.owners[u], t \in Token : <<s, t>> \in pressed /\ UsageOf[t] = u
      BY <3>2 DEF KeyboardInv, Sound, OwnersOK
    <3>4. <<s, t>>[2] = t
      OBVIOUS
    <3>5. QED
      BY <3>3, <3>4
  <2>3. QED
    BY <2>1, <2>2 DEF NoStuckKey
<1>2. QED
  BY KeyboardInvariance, <1>1, PTL

\* One owner's release lifts no key another owner holds, as long as no two tokens
\* share a virtual-key code (_standard_event).  Both Control keys do share one.
THEOREM HeldKeysDown ==
  ASSUME DistinctVks
  PROVE  KeyboardSpec => []HeldStaysDown
<1>1. KeyboardInv => HeldStaysDown
  BY DistinctVks DEF KeyboardInv, Sound, Win32OK, HeldStaysDown
<1>2. QED
  BY KeyboardInvariance, <1>1, PTL

-----------------------------------------------------------------------------
(* ServerProxy *)

ProxyOrNone == 0 .. MaxProxies
Business == [step : {"idle", "cleans", "replaces", "creates", "starts", "waits", "fails", "stopping"},
             proxy : ProxyOrNone, had : BOOLEAN, tries : Nat]

\* What ProxyTypeOK leaves open: the flags, the records, and a proxy for each step with one.
ProxyTyped ==
  /\ ProxyTypeOK
  /\ asked \in [Proxy -> BOOLEAN] /\ on \in [Proxy -> BOOLEAN]
  /\ proc \in [Proxy -> BOOLEAN] /\ ready \in [Proxy -> BOOLEAN]
  /\ setup \in Business /\ tail \in Business
  /\ setup.proxy <= proxies /\ tail.proxy <= proxies
  /\ setup.step \in {"cleans", "replaces", "starts", "waits", "fails"} => setup.proxy # 0
  /\ setup.step \in {"idle", "creates"} => setup.proxy = 0
  /\ tail.step = "stopping" => tail.proxy # 0

\* A proxy that is not started has no process.
Unborn ==
  /\ \A p \in Proxy : p > proxies => ~ChildAlive(p) /\ ~ready[p]
  /\ setup.step = "starts" => ~ChildAlive(setup.proxy) /\ ~ready[setup.proxy]

\* _proc is cleared by a thread that has stopped the process, or it slips.
HandleKept == \A p \in Proxy : ChildAlive(p) => proc[p] \/ p \in slipped

\* A thread asks a proxy to stop before it forgets it, and then start() sees no ready.
TailAsked == tail.step = "stopping" => ~on[tail.proxy]
StartKnown ==
  /\ setup.step = "creates" => server = 0
  /\ setup.step \in {"starts", "waits"} =>
       /\ on[setup.proxy] => setup.proxy = server \/ setup.proxy \in slipped
       /\ ready[setup.proxy] /\ ChildAlive(setup.proxy) => setup.proxy \in {server, tail.proxy} \cup slipped

ReconnectFlag == reconnecting \in BOOLEAN /\ (reconnecting <=> reconnector # 0)

Known ==
  \A p \in Proxy : ChildAlive(p) => \/ p \in {server, setup.proxy, tail.proxy}
                                    \/ p \in slipped

OrphanInv ==
  /\ ProxyTyped /\ Unborn /\ HandleKept /\ TailAsked /\ StartKnown /\ ReconnectFlag /\ Known

LEMMA ProxyRange == Proxy \subseteq ProxyOrNone /\ 0 \in ProxyOrNone
BY ProxyAssumption DEF Proxy, ProxyOrNone

\* The shapes setup and tail take when a stop ends.
LEMMA BusinessShapes ==
  /\ NoBusiness \in Business /\ NoBusiness.step = "idle" /\ NoBusiness.proxy = 0
  /\ [NoBusiness EXCEPT !.step = "creates"] \in Business
  /\ \A b \in Business : LET c == [b EXCEPT !.step = "creates", !.proxy = 0, !.had = FALSE]
                        IN  c \in Business /\ c.proxy = 0 /\ c.step = "creates"
<1>1. 0 \in ProxyOrNone
  BY ProxyAssumption DEF ProxyOrNone
<1>2. NoBusiness \in Business /\ NoBusiness.step = "idle" /\ NoBusiness.proxy = 0
  BY <1>1 DEF NoBusiness, Business
<1>3. [NoBusiness EXCEPT !.step = "creates"] \in Business
  BY <1>1 DEF NoBusiness, Business
<1>4. ASSUME NEW b \in Business, NEW c, c = [b EXCEPT !.step = "creates", !.proxy = 0, !.had = FALSE]
      PROVE  c \in Business /\ c.proxy = 0 /\ c.step = "creates"
  BY <1>1, <1>4 DEF Business
<1> QED BY <1>2, <1>3, <1>4

\* What the typed flags of OrphanInv say, for the leaves below.
LEMMA OrphanFacts ==
  ASSUME OrphanInv
  PROVE  /\ MaxProxies \in Nat /\ AttachTries \in Nat /\ proxies \in 0 .. MaxProxies /\ server \in 0 .. proxies
         /\ child \in [Proxy -> {"none", "boots", "bound", "serves", "dead"}]
         /\ asked \in [Proxy -> BOOLEAN] /\ on \in [Proxy -> BOOLEAN]
         /\ proc \in [Proxy -> BOOLEAN] /\ ready \in [Proxy -> BOOLEAN]
         /\ watcher \in [Proxy -> {"none", "looks", "checked", "gone"}]
         /\ setup \in Business /\ tail \in Business
         /\ setup.proxy \in 0 .. proxies /\ tail.proxy \in 0 .. proxies
         /\ setup.step \in {"cleans", "replaces", "starts", "waits", "fails"} => setup.proxy \in Proxy
         /\ tail.step = "stopping" => tail.proxy \in Proxy
         /\ server # 0 => server \in Proxy
BY ProxyAssumption DEF OrphanInv, ProxyTyped, ProxyTypeOK, Business, ProxyOrNone, Proxy

\* stop() asks: this proxy is off from now on, no process is touched.
LEMMA StopAsks ==
  ASSUME OrphanInv, NEW p \in Proxy, ProxyStopAsks(p)
  PROVE  /\ on' \in [Proxy -> BOOLEAN] /\ ~on'[p] /\ \A q \in Proxy : on'[q] => on[q]
         /\ asked' \in [Proxy -> BOOLEAN]
         /\ \A q \in Proxy : asked'[q] => child[q] # "none"
<1>1. /\ on \in [Proxy -> BOOLEAN] /\ asked \in [Proxy -> BOOLEAN]
      /\ \A q \in Proxy : asked[q] => child[q] # "none"
  BY OrphanFacts DEF OrphanInv, ProxyTyped, ProxyTypeOK
<1> QED BY <1>1 DEF ProxyStopAsks

\* stop() ends: this process is dead or has slipped, and so has the server it forgets.
LEMMA StopEnds ==
  ASSUME OrphanInv, NEW p \in Proxy, NEW had \in BOOLEAN, ProxyStopEnds(p, had)
  PROVE  /\ child' \in [Proxy -> {"none", "boots", "bound", "serves", "dead"}]
         /\ proc' \in [Proxy -> BOOLEAN] /\ server' = 0
         /\ slipped \subseteq slipped'
         /\ \A q \in Proxy : child[q] # "none" => child'[q] # "none"
         /\ \A q \in Proxy : child'[q] \in {"boots", "bound", "serves"} =>
              /\ ChildAlive(q)
              /\ proc'[q] \/ q \in slipped'
              /\ q \in {p, server} => q \in slipped'
<1>1. /\ child \in [Proxy -> {"none", "boots", "bound", "serves", "dead"}]
      /\ proc \in [Proxy -> BOOLEAN] /\ HandleKept
  BY OrphanFacts DEF OrphanInv
<1>2. slipped \subseteq slipped' /\ server' = 0
  BY DEF ProxyStopEnds
<1>3. /\ child' \in [Proxy -> {"none", "boots", "bound", "serves", "dead"}]
      /\ proc' \in [Proxy -> BOOLEAN]
      /\ \A q \in Proxy : child[q] # "none" => child'[q] # "none"
  BY <1>1 DEF ProxyStopEnds, Terminates
<1>4. ASSUME NEW q \in Proxy, child'[q] \in {"boots", "bound", "serves"}
      PROVE  /\ ChildAlive(q)
             /\ proc'[q] \/ q \in slipped'
             /\ q \in {p, server} => q \in slipped'
  <2>1. child'[q] = child[q] /\ ChildAlive(q) /\ (q = p => ~had)
    BY <1>1, <1>4 DEF ProxyStopEnds, Terminates, ChildAlive
  <2>2. proc[q] \/ q \in slipped
    BY <1>1, <2>1 DEF HandleKept
  <2>3. q = p => q \in slipped'
    BY <1>2, <2>1, <2>2 DEF ProxyStopEnds
  <2>4. q # p => proc'[q] = proc[q]
    BY <1>1 DEF ProxyStopEnds
  <2>5. q = server /\ q # p => q \in slipped'
    BY DEF ProxyStopEnds, Proxy
  <2> QED BY <1>2, <2>1, <2>2, <2>3, <2>4, <2>5
<1> QED BY <1>2, <1>3, <1>4

\* The thread with state_lock keeps the invariant.
LEMMA HolderSteps ==
  ASSUME OrphanInv,
         \/ \E step \in {"cleans", "replaces"} : HolderBegins(step)
         \/ HolderStopped \/ Creates \/ Spawns \/ SeesReady \/ StartFails \/ FailedStartEnds
  PROVE  OrphanInv'
<1> USE OrphanFacts
<1>1. ASSUME NEW step \in {"cleans", "replaces"}, HolderBegins(step)
      PROVE  OrphanInv'
  <2>1. CASE server = 0
    <3>1. /\ setup' \in Business /\ setup'.proxy = 0 /\ setup'.step = "creates" /\ setup.proxy = 0
          /\ UNCHANGED <<on, asked, server, proxies, child, proc, ready, watcher, tail, reconnecting, reconnector, slipped>>
      BY <1>1, <2>1 DEF HolderBegins, NoBusiness, Business
    <3>2. ReconnectFlag'
      BY <3>1 DEF OrphanInv, ReconnectFlag
    <3>3. ProxyTyped'
      BY <3>1 DEF OrphanInv, ProxyTyped, ProxyTypeOK
    <3>4. Unborn' /\ HandleKept'
      BY <3>1 DEF OrphanInv, Unborn, HandleKept, ChildAlive
    <3>5. TailAsked' /\ StartKnown'
      BY <2>1, <3>1 DEF OrphanInv, TailAsked, StartKnown
    <3>6. Known'
      BY <3>1 DEF OrphanInv, Known, ChildAlive, Proxy
    <3> QED BY <3>2, <3>3, <3>4, <3>5, <3>6 DEF OrphanInv
  <2>2. CASE server # 0
    <3>1. /\ ProxyStopAsks(server) /\ server \in Proxy
          /\ setup' = [step |-> step, proxy |-> server, had |-> proc[server], tries |-> 0]
          /\ setup = NoBusiness
          /\ UNCHANGED <<server, proxies, child, proc, ready, watcher, tail, reconnecting, reconnector, slipped>>
      BY <1>1, <2>2 DEF HolderBegins
    <3>2. /\ on' \in [Proxy -> BOOLEAN] /\ ~on'[server] /\ \A q \in Proxy : on'[q] => on[q]
          /\ asked' \in [Proxy -> BOOLEAN]
          /\ \A q \in Proxy : asked'[q] => child[q] # "none"
      BY <3>1, StopAsks
    <3>3. setup' \in Business /\ setup'.proxy = server /\ setup'.step = step /\ setup.proxy = 0
      BY <3>1, ProxyRange DEF NoBusiness, Business
    <3>4. ReconnectFlag'
      BY <3>1 DEF OrphanInv, ReconnectFlag
    <3>5. ProxyTyped'
      BY <2>2, <3>1, <3>2, <3>3 DEF OrphanInv, ProxyTyped, ProxyTypeOK
    <3>6. Unborn' /\ HandleKept'
      BY <1>1, <3>1, <3>3 DEF OrphanInv, Unborn, HandleKept, ChildAlive
    <3>7. TailAsked' /\ StartKnown'
      BY <1>1, <3>1, <3>2, <3>3 DEF OrphanInv, TailAsked, StartKnown, ProxyTyped
    <3>8. Known'
      BY <3>1, <3>3 DEF OrphanInv, Known, ChildAlive, Proxy
    <3> QED BY <3>4, <3>5, <3>6, <3>7, <3>8 DEF OrphanInv
  <2> QED BY <2>1, <2>2
<1>2. CASE HolderStopped \/ FailedStartEnds
  <2>1. setup.proxy \in Proxy /\ setup.had \in BOOLEAN /\ ProxyStopEnds(setup.proxy, setup.had)
    BY <1>2 DEF HolderStopped, FailedStartEnds, Business
  <2>2. /\ child' \in [Proxy -> {"none", "boots", "bound", "serves", "dead"}]
        /\ proc' \in [Proxy -> BOOLEAN] /\ server' = 0
        /\ slipped \subseteq slipped'
        /\ \A q \in Proxy : child[q] # "none" => child'[q] # "none"
        /\ \A q \in Proxy : child'[q] \in {"boots", "bound", "serves"} =>
             /\ ChildAlive(q)
             /\ proc'[q] \/ q \in slipped'
             /\ q \in {setup.proxy, server} => q \in slipped'
    BY <2>1, StopEnds
  <2>3. \/ setup' = NoBusiness
        \/ setup' = [NoBusiness EXCEPT !.step = "creates"]
        \/ setup' = [setup EXCEPT !.step = "creates", !.proxy = 0, !.had = FALSE]
    BY <1>2 DEF HolderStopped, FailedStartEnds
  <2>4. setup' \in Business /\ setup'.proxy = 0 /\ setup'.step \in {"idle", "creates"}
    <3>1. CASE setup' = NoBusiness
      BY <3>1, BusinessShapes
    <3>2. CASE setup' = [NoBusiness EXCEPT !.step = "creates"]
      BY <3>2, BusinessShapes DEF NoBusiness
    <3>3. CASE setup' = [setup EXCEPT !.step = "creates", !.proxy = 0, !.had = FALSE]
      BY <3>3, BusinessShapes
    <3> QED BY <2>3, <3>1, <3>2, <3>3
  <2>5. UNCHANGED <<proxies, asked, on, ready, watcher, tail, vcRunning, suppress, reconnecting, reconnector>>
    BY <1>2 DEF HolderStopped, FailedStartEnds, linkVars
  <2>6. ReconnectFlag'
    BY <2>5 DEF OrphanInv, ReconnectFlag
  <2>7. ProxyTyped'
    BY <2>2, <2>4, <2>5 DEF OrphanInv, ProxyTyped, ProxyTypeOK
  <2> QED BY <2>2, <2>4, <2>5, <2>6, <2>7 DEF OrphanInv, Unborn, HandleKept, TailAsked, StartKnown,
          Known, ChildAlive
<1>3. CASE Creates
  <2>1. /\ proxies' = proxies + 1 /\ proxies' \in Proxy /\ server' = proxies'
        /\ setup' \in Business /\ setup'.step = "starts" /\ setup'.proxy = proxies'
        /\ on' \in [Proxy -> BOOLEAN] /\ \A q \in Proxy : q # proxies' => on'[q] = on[q]
        /\ UNCHANGED <<child, asked, proc, ready, watcher, tail, vcRunning, reconnecting, reconnector, slipped>>
    BY <1>3, ProxyRange DEF Creates, Business, Proxy
  <2>3. OrphanInv /\ ~ChildAlive(proxies') /\ ~ready[proxies']
    BY <2>1 DEF OrphanInv, Unborn
  <2>4. ReconnectFlag'
    BY <2>1 DEF OrphanInv, ReconnectFlag
  <2>5. ProxyTyped'
    BY <2>1 DEF OrphanInv, ProxyTyped, ProxyTypeOK, Proxy
  <2>6. Unborn'
    BY <2>1, <2>3 DEF OrphanInv, Unborn, ChildAlive
  <2>7. StartKnown' /\ TailAsked'
    BY <2>1 DEF OrphanInv, TailAsked, StartKnown, Proxy
  <2>8. Known'
    <3>1. setup.proxy = 0 /\ server = 0
      BY <1>3 DEF Creates, OrphanInv, ProxyTyped, StartKnown
    <3> QED BY <2>1, <3>1 DEF OrphanInv, Known, ChildAlive, Proxy
  <2> QED BY <2>1, <2>4, <2>5, <2>6, <2>7, <2>8 DEF OrphanInv, HandleKept, ChildAlive
<1>4. CASE Spawns
  BY <1>4 DEF Spawns, OrphanInv, ProxyTyped, ProxyTypeOK, Unborn, HandleKept, TailAsked,
     StartKnown, ReconnectFlag, Known, ChildAlive, linkVars, Business
<1>5. CASE SeesReady
  <2>1. /\ setup.step = "waits" /\ ready[setup.proxy] /\ setup.proxy \in Proxy
        /\ setup' \in Business /\ setup'.step = "idle" /\ setup'.proxy = 0
        /\ UNCHANGED <<server, proxies, childVars, tail, linkVars, slipped>>
    BY <1>5, BusinessShapes DEF SeesReady
  <2>2. ReconnectFlag' /\ ProxyTyped'
    BY <2>1 DEF OrphanInv, ReconnectFlag, ProxyTyped, ProxyTypeOK, childVars, linkVars
  <2>3. ChildAlive(setup.proxy) => setup.proxy \in {server, tail.proxy} \cup slipped
    BY <2>1 DEF OrphanInv, StartKnown
  <2>4. Known'
    BY <2>1, <2>3 DEF OrphanInv, Known, ChildAlive, childVars
  <2> QED BY <2>1, <2>2, <2>4 DEF OrphanInv, Unborn, HandleKept, TailAsked, StartKnown, ChildAlive, childVars
<1>6. CASE StartFails
  <2>1. /\ setup.proxy \in Proxy /\ ProxyStopAsks(setup.proxy)
        /\ setup' \in Business /\ setup'.step = "fails" /\ setup'.proxy = setup.proxy
    BY <1>6 DEF StartFails, Business
  <2>2. /\ on' \in [Proxy -> BOOLEAN] /\ ~on'[setup.proxy] /\ \A q \in Proxy : on'[q] => on[q]
        /\ asked' \in [Proxy -> BOOLEAN]
        /\ \A q \in Proxy : asked'[q] => child[q] # "none"
    BY <2>1, StopAsks
  <2> QED BY <1>6, <2>1, <2>2 DEF StartFails, OrphanInv, ProxyTyped, ProxyTypeOK, Unborn, HandleKept, TailAsked,
          StartKnown, ReconnectFlag, Known, ChildAlive, linkVars
<1> QED BY <1>1, <1>2, <1>3, <1>4, <1>5, <1>6

\* The thread in the last part of disconnect or force_close keeps it.
LEMMA TailSteps ==
  ASSUME OrphanInv, TailBegins \/ TailStopped
  PROVE  OrphanInv'
<1> USE OrphanFacts
<1>1. CASE TailBegins
  <2>1. /\ server \in Proxy /\ ProxyStopAsks(server) /\ tail = NoBusiness
        /\ tail' \in Business /\ tail'.proxy = server
    BY <1>1, ProxyRange DEF TailBegins, Business
  <2>2. /\ on' \in [Proxy -> BOOLEAN] /\ ~on'[server] /\ \A q \in Proxy : on'[q] => on[q]
        /\ asked' \in [Proxy -> BOOLEAN]
        /\ \A q \in Proxy : asked'[q] => child[q] # "none"
    BY <2>1, StopAsks
  <2>3. UNCHANGED <<server, proxies, child, proc, ready, watcher, setup, reconnecting, reconnector, slipped>>
    BY <1>1 DEF TailBegins
  <2>4. ReconnectFlag'
    BY <2>3 DEF OrphanInv, ReconnectFlag
  <2>5. tail.proxy = 0 \/ tail.proxy \notin Proxy
    BY <2>1 DEF NoBusiness
  <2>6. tail'.step \in {"idle", "stopping"} /\ tail'.proxy \in Proxy
    BY <1>1, <2>1 DEF TailBegins
  <2>7. ProxyTyped'
    BY <2>1, <2>2, <2>3, <2>6 DEF OrphanInv, ProxyTyped, ProxyTypeOK, Proxy
  <2>8. TailAsked' /\ StartKnown'
    BY <2>1, <2>2, <2>3, <2>5 DEF OrphanInv, TailAsked, StartKnown, ChildAlive, Proxy
  <2> QED BY <2>1, <2>3, <2>4, <2>5, <2>7, <2>8 DEF OrphanInv, Unborn, HandleKept, Known, ChildAlive, Proxy
<1>2. CASE TailStopped
  <2>1. tail.proxy \in Proxy /\ tail.had \in BOOLEAN /\ ProxyStopEnds(tail.proxy, tail.had)
    BY <1>2 DEF TailStopped, Business
  <2>2. /\ child' \in [Proxy -> {"none", "boots", "bound", "serves", "dead"}]
        /\ proc' \in [Proxy -> BOOLEAN] /\ server' = 0
        /\ slipped \subseteq slipped'
        /\ \A q \in Proxy : child[q] # "none" => child'[q] # "none"
        /\ \A q \in Proxy : child'[q] \in {"boots", "bound", "serves"} =>
             /\ ChildAlive(q)
             /\ proc'[q] \/ q \in slipped'
             /\ q \in {tail.proxy, server} => q \in slipped'
    BY <2>1, StopEnds
  <2>3. /\ tail' \in Business /\ tail'.proxy = 0 /\ tail'.step = "idle"
        /\ UNCHANGED <<proxies, asked, on, ready, watcher, setup, vcRunning, suppress, reconnecting, reconnector>>
    BY <1>2, BusinessShapes DEF TailStopped, linkVars
  <2>4. setup.step \in {"starts", "waits"} /\ on[setup.proxy] => setup.proxy \in slipped'
    <3>1. SUFFICES ASSUME setup.step \in {"starts", "waits"}, on[setup.proxy], setup.proxy \notin slipped
                   PROVE  setup.proxy \in slipped'
      BY <2>2
    <3>2. setup.proxy = server /\ setup.proxy # 0
      BY <3>1 DEF OrphanInv, StartKnown, ProxyTyped
    <3>3. ~on[tail.proxy]
      BY <1>2 DEF OrphanInv, TailAsked, TailStopped
    <3> QED BY <2>1, <3>1, <3>2, <3>3 DEF ProxyStopEnds
  <2>5. ReconnectFlag'
    BY <2>3 DEF OrphanInv, ReconnectFlag
  <2>6. ProxyTyped'
    BY <2>2, <2>3 DEF OrphanInv, ProxyTyped, ProxyTypeOK
  <2>7. TailAsked' /\ StartKnown'
    BY <2>2, <2>3, <2>4 DEF OrphanInv, TailAsked, StartKnown, ChildAlive
  <2> QED BY <2>2, <2>3, <2>5, <2>6, <2>7 DEF OrphanInv, Unborn, HandleKept, Known, ChildAlive
<1> QED BY <1>1, <1>2

\* So do the children, the watchers and the reconnect worker.
LEMMA ChildSteps ==
  ASSUME OrphanInv, NEW p \in Proxy, Binds(p) \/ Serves(p) \/ Exits(p) \/ WatcherLooks(p)
  PROVE  OrphanInv'
<1> USE OrphanFacts
<1>1. CASE Binds(p)
  BY <1>1 DEF Binds, OrphanInv, ProxyTyped, ProxyTypeOK, Unborn, HandleKept, TailAsked,
     StartKnown, ReconnectFlag, Known, ChildAlive, linkVars
<1>2. CASE Serves(p)
  BY <1>2 DEF Serves, OrphanInv, ProxyTyped, ProxyTypeOK, Unborn, HandleKept, TailAsked,
     StartKnown, ReconnectFlag, Known, ChildAlive, linkVars
<1>3. CASE Exits(p)
  BY <1>3 DEF Exits, OrphanInv, ProxyTyped, ProxyTypeOK, Unborn, HandleKept, TailAsked,
     StartKnown, ReconnectFlag, Known, ChildAlive, linkVars
<1>4. CASE WatcherLooks(p)
  BY <1>4 DEF WatcherLooks, OrphanInv, ProxyTyped, ProxyTypeOK, Unborn, HandleKept, TailAsked,
     StartKnown, ReconnectFlag, Known, ChildAlive, linkVars
<1> QED BY <1>1, <1>2, <1>3, <1>4

LEMMA ReconnectSteps ==
  ASSUME OrphanInv, \/ \E p \in Proxy : WatcherPolls(p) \/ ChildTells(p)
                    \/ ReconnectTries \/ ReconnectEnds
  PROVE  OrphanInv'
<1> USE OrphanFacts
<1>1. reconnector' \in 0 .. AttachTries + 1 /\ ReconnectFlag'
  <2>1. reconnector \in 0 .. AttachTries + 1 /\ reconnecting \in BOOLEAN /\ (reconnecting <=> reconnector # 0)
    BY DEF OrphanInv, ProxyTyped, ProxyTypeOK, ReconnectFlag
  <2>2. \/ reconnecting' = TRUE /\ reconnector' = 1
        \/ UNCHANGED <<reconnecting, reconnector>>
        \/ reconnector' \in {reconnector + 1, AttachTries + 1} /\ reconnector \in 1 .. AttachTries /\ UNCHANGED reconnecting
        \/ reconnector' = 0 /\ reconnecting' = FALSE
    BY DEF WatcherPolls, ChildTells, ReconnectTries, ReconnectEnds, Notifies
  <2>3. CASE reconnecting' = TRUE /\ reconnector' = 1
    <3>1. reconnecting' \in BOOLEAN /\ reconnecting' /\ reconnector' # 0
      BY <2>3
    <3> QED BY <2>3, <3>1 DEF ReconnectFlag
  <2>4. CASE UNCHANGED <<reconnecting, reconnector>>
    BY <2>1, <2>4 DEF ReconnectFlag
  <2>5. CASE reconnector' \in {reconnector + 1, AttachTries + 1} /\ reconnector \in 1 .. AttachTries /\ UNCHANGED reconnecting
    <3>1. reconnector' \in 0 .. AttachTries + 1 /\ reconnector' # 0 /\ reconnector # 0
      BY <2>5
    <3> QED BY <2>1, <2>5, <3>1 DEF ReconnectFlag
  <2>6. CASE reconnector' = 0 /\ reconnecting' = FALSE
    <3>1. reconnecting' \in BOOLEAN /\ ~reconnecting' /\ ~(reconnector' # 0)
      BY <2>6
    <3> QED BY <2>6, <3>1 DEF ReconnectFlag
  <2> QED BY <2>2, <2>3, <2>4, <2>5, <2>6
<1>2. /\ UNCHANGED <<server, proxies, child, asked, on, proc, ready, setup, tail, slipped>>
      /\ watcher' \in [Proxy -> {"none", "looks", "checked", "gone"}]
  BY DEF WatcherPolls, ChildTells, ReconnectTries, ReconnectEnds, childVars
<1> QED BY <1>1, <1>2 DEF OrphanInv, ProxyTyped, ProxyTypeOK, Unborn, HandleKept, TailAsked,
        StartKnown, Known, ChildAlive

\* NoOrphanChild: every live server process has a thread or the device that will stop it,
\* or has slipped from a stop that overlapped a start; one reconnect worker at a time.
THEOREM NoChildOrphaned == ProxySpec => []NoOrphanChild
<1>1. ProxyInit => OrphanInv
  <2> SUFFICES ASSUME ProxyInit PROVE OrphanInv
    OBVIOUS
  <2>1. NoBusiness \in Business /\ NoBusiness.step = "idle" /\ NoBusiness.proxy = 0
    BY BusinessShapes
  <2>2. ReconnectFlag
    <3>1. reconnector = 0 /\ reconnecting = FALSE
      BY DEF ProxyInit
    <3> QED BY <3>1 DEF ReconnectFlag
  <2>3. ProxyTyped
    BY <2>1, ProxyAssumption DEF ProxyInit, ProxyTyped, ProxyTypeOK
  <2> QED BY <2>1, <2>2, <2>3 DEF ProxyInit, OrphanInv, Unborn, HandleKept, TailAsked, StartKnown, Known, ChildAlive
<1>2. OrphanInv /\ [ProxyNext]_proxyVars => OrphanInv'
  <2>1. ASSUME OrphanInv, ProxyNext PROVE OrphanInv'
    <3>1. CASE AllStopped
      BY <2>1, <3>1 DEF AllStopped, proxyVars, OrphanInv, ProxyTyped, ProxyTypeOK, Unborn, HandleKept,
         TailAsked, StartKnown, ReconnectFlag, Known, ChildAlive
    <3> QED BY <2>1, <3>1, HolderSteps, TailSteps, ChildSteps, ReconnectSteps DEF ProxyNext
  <2>2. ASSUME OrphanInv, UNCHANGED proxyVars PROVE OrphanInv'
    BY <2>2 DEF proxyVars, OrphanInv, ProxyTyped, ProxyTypeOK, Unborn, HandleKept, TailAsked,
       StartKnown, ReconnectFlag, Known, ChildAlive
  <2> QED BY <2>1, <2>2
<1>3. OrphanInv => NoOrphanChild
  <2>1. ReconnectFlag => reconnecting = (reconnector # 0)
    BY DEF ReconnectFlag
  <2>2. OrphanInv => ProxyTypeOK
    BY DEF OrphanInv, ProxyTyped
  <2> QED BY <2>1, <2>2 DEF OrphanInv, Known, NoOrphanChild
<1> QED BY <1>1, <1>2, <1>3, PTL DEF ProxySpec

-----------------------------------------------------------------------------
(* InputSubmit *)

SubmitTyped ==
  /\ frames \in 0 .. MaxFrames /\ publishing \in BOOLEAN /\ submitStop \in BOOLEAN
  /\ submitPending \in [frame : Nat, gen : Nat]
  /\ submitter \in [Submitter -> {"new", "loop", "holding", "ended"}]
  /\ hand \in [Submitter -> [frame : Nat, gen : Nat, taps : SUBSET Frame]]
  /\ submitThread \in 0 .. MaxThreads /\ sticky \subseteq Frame
  /\ generation \in Nat /\ device \in Nat /\ devices \in Nat /\ device <= devices
  /\ life \in [step : {"idle", "bumped", "joining", "joined", "clean"},
               op : {"none", "close", "replace"}, thread : Nat]
  /\ aimedAt \in [Frame -> Nat] /\ landed \in [Frame -> SUBSET (Nat \X Nat)]
  /\ crossed \subseteq Frame /\ shown \in Nat /\ muddled \in {"ok", "doubled", "backwards"}

LifeKnown ==
  /\ life.step = "idle" => life = Idle
  /\ life.step # "idle" => life.op \in {"close", "replace"} /\ device # 0

\* The taps that wait in the slot.
Slot == Superseded

\* Everything is numbered by what there has been so far, and only a thread that holds a
\* frame has taps.
Numbered ==
  /\ submitPending.frame <= frames /\ submitPending.gen <= generation /\ shown <= frames
  /\ submitPending.frame = 0 => sticky = {}
  /\ \A f \in Slot : f <= frames
  /\ \A f \in Frame : aimedAt[f] <= devices /\ (f > frames => landed[f] = {})
  /\ \A t \in Submitter :
       /\ hand[t].frame <= frames /\ hand[t].gen <= generation
       /\ \A f \in hand[t].taps : f <= frames
       /\ submitter[t] # "holding" => hand[t] = Nothing
       /\ submitter[t] = "holding" => hand[t].frame # 0

\* A tap is in one place: the slot, the hand of one thread, or the game.
OnePlace ==
  /\ submitPending.frame \notin sticky
  /\ \A f \in Slot : landed[f] = {}
  /\ \A t \in Submitter : \A f \in hand[t].taps :
       /\ f \notin Slot /\ landed[f] = {}
       /\ \A s \in Submitter : f \in hand[s].taps => s = t
  /\ \A f \in Frame : \A x, y \in landed[f] : x = y

Stopping == {"bumped", "joining", "joined"}

\* What a tap in the slot was meant for: the device that is there, or none.
SlotAimed ==
  /\ \A f \in Slot : aimedAt[f] = 0 \/ (aimedAt[f] = device /\ life.step # "clean")
  /\ life.step \in Stopping /\ submitPending.frame # 0 /\ submitPending.gen = generation =>
       submitPending.frame \in crossed

\* So is a tap in a hand, if its frame has the generation of the device; or the frame was
\* published while the thread was being stopped.
HandAimed ==
  \A t \in Submitter : submitter[t] = "holding" /\ hand[t].gen = generation /\ hand[t].frame \notin crossed =>
    /\ life.step \notin Stopping
    /\ \A f \in hand[t].taps : aimedAt[f] = 0 \/ (aimedAt[f] = device /\ life.step # "clean")

LandedAimed ==
  \A f \in Frame : \A x \in landed[f] : x[1] # aimedAt[f] => aimedAt[f] = 0 \/ x[2] \in crossed

\* A tap meant for the device that is there has arrived, or it is on its way with the
\* generation of that device.
Delivered ==
  life.step = "idle" /\ device # 0 =>
    \A f \in Frame : f <= frames /\ aimedAt[f] = device =>
      \/ landed[f] # {}
      \/ f \in Slot /\ submitPending.frame # 0 /\ submitPending.gen = generation
      \/ \E t \in Submitter : f \in hand[t].taps /\ hand[t].gen = generation

\* Outside a stop the thread that is known to run is not told to end, and what waits has one.
Carried ==
  life.step \in {"idle", "clean"} =>
    /\ Alive(submitThread) => ~submitStop
    /\ submitPending.frame # 0 /\ ~publishing => Running # {} /\ ~submitStop

\* One thread shows the frames in order.
InOrder ==
  /\ muddled # "backwards"
  /\ muddled = "ok" =>
       /\ \A s, t \in Running : s = t
       /\ submitPending.frame # 0 => shown < submitPending.frame
       /\ \A t \in Submitter : submitter[t] = "holding" =>
            shown < hand[t].frame /\ (submitPending.frame # 0 => hand[t].frame < submitPending.frame)

SubmitInv ==
  /\ SubmitTyped /\ LifeKnown /\ Numbered /\ OnePlace /\ SlotAimed /\ HandAimed /\ LandedAimed
  /\ Delivered /\ Carried /\ InOrder

LEMMA IdleSteps == Idle.step = "idle" /\ Nothing.taps = {} /\ Nothing.frame = 0 /\ Nothing.gen = 0
BY DEF Idle, Nothing

\* A thread other than none is one of the threads.
LEMMA AliveRuns ==
  ASSUME SubmitTyped, Alive(submitThread)
  PROVE  submitThread \in Running
BY SubmitAssumption DEF SubmitTyped, Alive, Running, Submitter

\* The slot holds frames.
LEMMA SlotFrames ==
  ASSUME SubmitTyped, Numbered
  PROVE  Slot \subseteq Frame
<1>1. submitPending.frame \in Nat /\ frames \in 0 .. MaxFrames /\ submitPending.frame <= frames
  BY DEF SubmitTyped, Numbered
<1>2. submitPending.frame # 0 => submitPending.frame \in Frame
  BY <1>1, SubmitAssumption DEF Frame
<1> QED BY <1>2 DEF SubmitTyped, Slot, Superseded

\* A frame is published: what waited is superseded, its taps stay.
LEMMA PublishesSteps ==
  ASSUME SubmitInv, Publishes
  PROVE  SubmitInv'
<1> USE DEF SubmitInv
<1> DEFINE n == frames + 1
<1>1. /\ n \in Frame /\ frames' = n /\ publishing' = TRUE /\ sticky' = Slot
      /\ submitPending' = [frame |-> n, gen |-> generation]
      /\ aimedAt' = [aimedAt EXCEPT ![n] = IF life = Idle THEN device ELSE 0]
      /\ crossed' = IF life.step \in Stopping THEN crossed \cup {n} ELSE crossed
      /\ UNCHANGED <<submitter, hand, submitThread, submitStop, generation, device, devices, life, lives,
                     landed, shown, muddled>>
  BY SubmitAssumption DEF Publishes, MorePlay, Frame, SubmitTyped, Slot, lifeVars, Stopping
<1>2. frames \in Nat /\ generation \in Nat /\ n \in Nat /\ n # 0
  BY DEF SubmitTyped
<1>3. submitPending'.frame = n /\ submitPending'.gen = generation
  BY <1>1
<1>4. Slot' = Slot \cup {n}
  BY <1>1, <1>2, <1>3 DEF Slot, Superseded
<1>5. Slot \subseteq Frame /\ \A f \in Slot : f <= frames /\ f # n
  <2>1. Slot \subseteq Frame
    BY SlotFrames
  <2> QED BY <2>1, <1>2 DEF Numbered, Frame
<1>6. /\ \A f \in Frame : f # n => aimedAt'[f] = aimedAt[f]
      /\ aimedAt'[n] = IF life = Idle THEN device ELSE 0
      /\ aimedAt' \in [Frame -> Nat]
  BY <1>1 DEF SubmitTyped
<1>7. crossed \subseteq crossed' /\ crossed' \subseteq Frame
  BY <1>1 DEF SubmitTyped
<1>8. \A t \in Submitter : \A f \in hand[t].taps : f \in Frame /\ f <= frames /\ f # n
  BY <1>2 DEF SubmitTyped, Numbered, Frame
<1> HIDE DEF n
<1>9. SubmitTyped'
  <2>1. frames' \in 0 .. MaxFrames
    BY <1>1 DEF Frame
  <2>2. submitPending' \in [frame : Nat, gen : Nat]
    BY <1>1, <1>2
  <2> QED BY <1>1, <1>5, <1>6, <1>7, <2>1, <2>2 DEF SubmitTyped
<1>10. LifeKnown'
  BY <1>1 DEF LifeKnown
<1>11. Numbered'
  <2>1. \A f \in Frame : aimedAt'[f] <= devices /\ (f > frames' => landed[f] = {})
    <3> SUFFICES ASSUME NEW f \in Frame PROVE aimedAt'[f] <= devices /\ (f > n => landed[f] = {})
      BY <1>1
    <3>1. f > n => f > frames
      BY <1>2 DEF n, Frame
    <3>2. CASE f = n
      BY <3>1, <3>2, <1>1, <1>6 DEF Numbered, SubmitTyped
    <3>3. CASE f # n
      BY <3>1, <3>3, <1>6 DEF Numbered
    <3> QED BY <3>2, <3>3
  <2>2. \A f \in Slot' : f <= frames'
    <3>1. \A f \in Slot : f <= n
      BY <1>2, <1>5 DEF n, Frame
    <3> QED BY <1>1, <1>2, <1>4, <3>1
  <2>3. frames <= n
    BY <1>2 DEF n
  <2>4. shown <= n /\ \A t \in Submitter : hand[t].frame <= n /\ \A f \in hand[t].taps : f <= n
    BY <2>3, <1>2, <1>8 DEF Numbered, SubmitTyped, Frame
  <2> QED BY <1>1, <1>2, <1>3, <2>1, <2>2, <2>4 DEF Numbered
<1>12. landed[n] = {}
  BY <1>1, <1>2 DEF Numbered, n
<1>13. OnePlace'
  BY <1>1, <1>3, <1>4, <1>5, <1>8, <1>12 DEF OnePlace
<1>14. SlotAimed'
  <2>1. aimedAt'[n] = 0 \/ (aimedAt'[n] = device /\ life.step # "clean")
    BY <1>6, IdleSteps
  <2> QED BY <1>1, <1>3, <1>4, <1>5, <1>6, <2>1 DEF SlotAimed
<1>15. HandAimed'
  BY <1>1, <1>6, <1>7, <1>8 DEF HandAimed
<1>16. LandedAimed'
  <2> SUFFICES ASSUME NEW f \in Frame, NEW x \in landed[f], x[1] # aimedAt'[f]
               PROVE  aimedAt'[f] = 0 \/ x[2] \in crossed'
    BY <1>1 DEF LandedAimed
  <2>1. f # n
    BY <1>12
  <2> QED BY <2>1, <1>6, <1>7 DEF LandedAimed
<1>17. Delivered'
  <2> SUFFICES ASSUME life.step = "idle", device # 0, NEW f \in Frame, f <= n, aimedAt'[f] = device
               PROVE  \/ landed[f] # {}
                      \/ f \in Slot'
                      \/ \E t \in Submitter : f \in hand[t].taps /\ hand[t].gen = generation
    BY <1>1, <1>2, <1>3 DEF Delivered
  <2>1. CASE f = n
    BY <2>1, <1>4
  <2>2. CASE f # n
    <3>1. f <= frames /\ aimedAt[f] = device
      BY <2>2, <1>2, <1>6 DEF n, Frame
    <3> QED BY <3>1, <1>4 DEF Delivered
  <2> QED BY <2>1, <2>2
<1>18. Carried'
  BY <1>1 DEF Carried, Alive
<1>19. InOrder'
  <2>1. shown < n /\ \A t \in Submitter : hand[t].frame < n
    BY <1>2 DEF Numbered, SubmitTyped, n
  <2> QED BY <1>1, <1>2, <1>3, <2>1 DEF InOrder, Running, Alive
<1> QED BY <1>9, <1>10, <1>11, <1>13, <1>14, <1>15, <1>16, <1>17, <1>18, <1>19

\* The pad's thread finds the submit thread, or starts one.
LEMMA ThreadSteps ==
  ASSUME SubmitInv, FindsThread \/ StartsThread
  PROVE  SubmitInv'
<1> USE DEF SubmitInv
<1>1. /\ publishing' = FALSE
      /\ UNCHANGED <<frames, submitPending, sticky, hand, generation, device, devices, life, lives,
                     aimedAt, landed, crossed, shown>>
  BY DEF FindsThread, StartsThread, pipeVars, lifeVars, tapVars
<1>2. Slot' = Slot
  BY <1>1 DEF Slot, Superseded
<1>3. LifeKnown' /\ SlotAimed' /\ LandedAimed'
  BY <1>1, <1>2 DEF LifeKnown, SlotAimed, LandedAimed
<1>4. CASE FindsThread
  <2>1. UNCHANGED <<submitter, submitThread, submitStop, muddled>> /\ Alive(submitThread)
    BY <1>4 DEF FindsThread, pipeVars, tapVars
  <2>2. SubmitTyped' /\ Numbered' /\ OnePlace' /\ HandAimed' /\ Delivered'
    <3>1. SubmitTyped'
      BY <1>1, <2>1 DEF SubmitTyped
    <3>2. Numbered' /\ OnePlace'
      BY <1>1, <1>2, <2>1 DEF Numbered, OnePlace
    <3>3. HandAimed' /\ Delivered'
      BY <1>1, <1>2, <2>1 DEF HandAimed, Delivered
    <3> QED BY <3>1, <3>2, <3>3
  <2>3. Running' = Running /\ (Alive(submitThread))' /\ Running # {}
    BY <2>1, AliveRuns DEF Running, Alive
  <2>4. Carried'
    BY <1>1, <2>1, <2>3 DEF Carried
  <2>5. InOrder'
    BY <1>1, <2>1, <2>3 DEF InOrder
  <2> QED BY <1>3, <2>2, <2>4, <2>5
<1>5. CASE StartsThread
  <2>1. PICK t \in Submitter :
          submitter[t] = "new" /\ submitter' = [submitter EXCEPT ![t] = "loop"] /\ submitThread' = t
    BY <1>5 DEF StartsThread
  <2>2. /\ submitStop' = FALSE
        /\ muddled' = IF muddled = "ok" /\ Running # {} THEN "doubled" ELSE muddled
    BY <1>5 DEF StartsThread
  <2>3. /\ submitter'[t] = "loop" /\ \A s \in Submitter : s # t => submitter'[s] = submitter[s]
        /\ \A s \in Submitter : submitter'[s] = "holding" <=> submitter[s] = "holding"
        /\ t \in Nat \ {0}
    BY <2>1, SubmitAssumption DEF SubmitTyped, Submitter
  <2>4. SubmitTyped'
    <3>1. submitThread' \in 0 .. MaxThreads
      BY <2>1, SubmitAssumption DEF Submitter
    <3>4. submitStop' \in BOOLEAN
      BY <2>2
    <3>2. muddled' \in {"ok", "doubled", "backwards"}
      BY <2>2 DEF SubmitTyped
    <3>3. submitter' \in [Submitter -> {"new", "loop", "holding", "ended"}]
      BY <2>1 DEF SubmitTyped
    <3> QED BY <1>1, <3>1, <3>2, <3>3, <3>4 DEF SubmitTyped
  <2>5. Numbered'
    BY <1>1, <1>2, <2>3 DEF Numbered
  <2>6. OnePlace' /\ HandAimed' /\ Delivered'
    BY <1>1, <1>2, <2>3 DEF OnePlace, HandAimed, Delivered
  <2>7. Running' = Running \cup {t}
    BY <2>3 DEF Running, Alive, Submitter
  <2>8. Carried'
    BY <2>2, <2>7 DEF Carried
  <2>9. InOrder'
    BY <1>1, <2>2, <2>3, <2>7 DEF InOrder
  <2> QED BY <1>3, <2>4, <2>5, <2>6, <2>8, <2>9
<1> QED BY <1>4, <1>5

\* A thread takes what is in the slot.
LEMMA TakesSteps ==
  ASSUME SubmitInv, NEW t \in Submitter, TakesPending(t)
  PROVE  SubmitInv'
<1> USE DEF SubmitInv
<1>1. /\ submitter[t] = "loop" /\ ~submitStop /\ submitPending.frame # 0
      /\ submitter' = [submitter EXCEPT ![t] = "holding"]
      /\ hand' = [hand EXCEPT ![t] = [frame |-> submitPending.frame, gen |-> submitPending.gen,
                                      taps |-> Slot]]
      /\ submitPending' = Empty /\ sticky' = {}
      /\ UNCHANGED <<frames, publishing, submitThread, submitStop, generation, device, devices, life, lives,
                     aimedAt, landed, crossed, shown, muddled>>
  BY DEF TakesPending, Slot, Superseded, lifeVars, tapVars
<1>2. submitPending'.frame = 0 /\ submitPending'.gen = 0 /\ Slot' = {}
  BY <1>1 DEF Empty, Slot, Superseded
<1>3. Slot \subseteq Frame
  BY SlotFrames
<1>4. /\ submitter'[t] = "holding" /\ \A s \in Submitter : s # t => submitter'[s] = submitter[s]
      /\ hand'[t].frame = submitPending.frame /\ hand'[t].gen = submitPending.gen /\ hand'[t].taps = Slot
      /\ \A s \in Submitter : s # t => hand'[s] = hand[s]
  BY <1>1 DEF SubmitTyped
<1>5. hand[t].taps = {}
  BY <1>1, IdleSteps DEF Numbered
<1>6. SubmitTyped'
  <2>1. submitPending' \in [frame : Nat, gen : Nat]
    BY <1>1 DEF Empty
  <2>2. [frame |-> submitPending.frame, gen |-> submitPending.gen, taps |-> Slot]
          \in [frame : Nat, gen : Nat, taps : SUBSET Frame]
    BY <1>3 DEF SubmitTyped
  <2>3. hand' \in [Submitter -> [frame : Nat, gen : Nat, taps : SUBSET Frame]]
    BY <1>1, <2>2 DEF SubmitTyped
  <2>4. submitter' \in [Submitter -> {"new", "loop", "holding", "ended"}]
    BY <1>1 DEF SubmitTyped
  <2> QED BY <1>1, <2>1, <2>3, <2>4 DEF SubmitTyped
<1>7. LifeKnown' /\ LandedAimed' /\ SlotAimed'
  BY <1>1, <1>2 DEF LifeKnown, LandedAimed, SlotAimed
<1>8. Numbered'
  <2>1. ASSUME NEW s \in Submitter
        PROVE  /\ hand'[s].frame <= frames /\ hand'[s].gen <= generation
               /\ \A f \in hand'[s].taps : f <= frames
               /\ submitter'[s] # "holding" => hand'[s] = Nothing
               /\ submitter'[s] = "holding" => hand'[s].frame # 0
    <3>1. CASE s = t
      BY <3>1, <1>1, <1>4 DEF Numbered
    <3>2. CASE s # t
      BY <3>2, <1>4 DEF Numbered
    <3> QED BY <3>1, <3>2
  <2>2. 0 <= frames /\ 0 <= generation
    BY DEF SubmitTyped
  <2> QED BY <1>1, <1>2, <2>1, <2>2 DEF Numbered
<1>9. OnePlace'
  <2>1. ASSUME NEW s \in Submitter, NEW f \in hand'[s].taps
        PROVE  landed[f] = {} /\ \A q \in Submitter : f \in hand'[q].taps => q = s
    <3>1. CASE s = t
      <4>1. f \in Slot
        BY <3>1, <1>4
      <4> QED BY <3>1, <4>1, <1>4 DEF OnePlace
    <3>2. CASE s # t
      <4>1. f \in hand[s].taps /\ f \notin Slot
        BY <3>2, <1>4 DEF OnePlace
      <4> QED BY <3>2, <4>1, <1>4 DEF OnePlace
    <3> QED BY <3>1, <3>2
  <2> QED BY <1>1, <1>2, <2>1 DEF OnePlace
<1>10. HandAimed'
  <2> SUFFICES ASSUME NEW s \in Submitter, submitter'[s] = "holding", hand'[s].gen = generation,
                      hand'[s].frame \notin crossed
               PROVE  /\ life.step \notin Stopping
                      /\ \A f \in hand'[s].taps :
                           aimedAt[f] = 0 \/ (aimedAt[f] = device /\ life.step # "clean")
    BY <1>1 DEF HandAimed
  <2>1. CASE s = t
    BY <2>1, <1>1, <1>4 DEF SlotAimed
  <2>2. CASE s # t
    BY <2>2, <1>4 DEF HandAimed
  <2> QED BY <2>1, <2>2
<1>11. Delivered'
  <2> SUFFICES ASSUME life.step = "idle", device # 0, NEW f \in Frame, f <= frames, aimedAt[f] = device,
                      landed[f] = {}
               PROVE  \E s \in Submitter : f \in hand'[s].taps /\ hand'[s].gen = generation
    BY <1>1 DEF Delivered
  <2>1. CASE f \in Slot /\ submitPending.gen = generation
    BY <2>1, <1>4
  <2>2. CASE \E s \in Submitter : f \in hand[s].taps /\ hand[s].gen = generation
    <3>1. PICK s \in Submitter : f \in hand[s].taps /\ hand[s].gen = generation
      BY <2>2
    <3>2. s # t
      BY <3>1, <1>5
    <3> QED BY <3>1, <3>2, <1>4
  <2> QED BY <2>1, <2>2 DEF Delivered
<1>12. Running' = Running /\ \A s \in Submitter : Alive(s)' <=> Alive(s)
  BY <1>1, <1>4 DEF Running, Alive
<1>13. Carried'
  <2>1. (Alive(submitThread))' => Alive(submitThread)
    BY <1>1, <1>12, SubmitAssumption DEF SubmitTyped, Alive, Submitter
  <2> QED BY <1>1, <1>2, <2>1 DEF Carried
<1>14. InOrder'
  BY <1>1, <1>2, <1>4, <1>12 DEF InOrder
<1> QED BY <1>6, <1>7, <1>8, <1>9, <1>10, <1>11, <1>13, <1>14

\* A thread gives its frame to the device it was captured for, or drops it.
LEMMA SubmitsSteps ==
  ASSUME SubmitInv, NEW t \in Submitter, Submits(t)
  PROVE  SubmitInv'
<1> USE DEF SubmitInv
<1> DEFINE h == hand[t]
           same == device # 0 /\ h.gen = generation
<1>1. /\ submitter[t] = "holding" /\ life = Idle /\ life.step = "idle"
      /\ submitter' = [submitter EXCEPT ![t] = "loop"] /\ hand' = [hand EXCEPT ![t] = Nothing]
      /\ UNCHANGED <<frames, publishing, submitPending, sticky, submitThread, submitStop, generation,
                     device, devices, life, lives, aimedAt, crossed>>
  BY IdleSteps DEF Submits, lifeVars
<1>2. /\ ~same => UNCHANGED <<landed, shown, muddled>>
      /\ same => /\ landed' = [f \in Frame |-> IF f \in h.taps THEN landed[f] \cup {<<device, h.frame>>}
                                               ELSE landed[f]]
                 /\ shown' = h.frame
                 /\ muddled' = IF muddled = "ok" /\ h.frame < shown THEN "backwards" ELSE muddled
  BY DEF Submits, SameDevice
<1>3. /\ h \in [frame : Nat, gen : Nat, taps : SUBSET Frame] /\ h.frame # 0 /\ h.frame <= frames
      /\ h.frame \in Nat /\ h.taps \subseteq Frame /\ \A f \in h.taps : f <= frames /\ landed[f] = {}
  BY <1>1 DEF SubmitTyped, Numbered, OnePlace
<1>4. /\ submitter'[t] = "loop" /\ \A s \in Submitter : s # t => submitter'[s] = submitter[s]
      /\ hand'[t] = Nothing /\ hand'[t].taps = {} /\ hand'[t].frame = 0 /\ hand'[t].gen = 0
      /\ \A s \in Submitter : s # t => hand'[s] = hand[s]
  BY <1>1, IdleSteps DEF SubmitTyped
<1>5. Slot' = Slot
  BY <1>1 DEF Slot, Superseded
<1>6. \A f \in Frame : landed'[f] = IF same /\ f \in h.taps THEN {<<device, h.frame>>} ELSE landed[f]
  BY <1>2, <1>3
<1> HIDE DEF h, same
<1>7. SubmitTyped'
  <2>1. hand' \in [Submitter -> [frame : Nat, gen : Nat, taps : SUBSET Frame]]
    BY <1>1 DEF SubmitTyped, Nothing
  <2>2. submitter' \in [Submitter -> {"new", "loop", "holding", "ended"}]
    BY <1>1 DEF SubmitTyped
  <2>3. landed' \in [Frame -> SUBSET (Nat \X Nat)]
    <3>1. device \in Nat /\ <<device, h.frame>> \in Nat \X Nat
      BY <1>3 DEF SubmitTyped
    <3>2. \A f \in Frame : landed'[f] \subseteq Nat \X Nat
      BY <1>6, <3>1 DEF SubmitTyped
    <3>3. landed' = [f \in Frame |-> landed'[f]]
      BY <1>2 DEF SubmitTyped
    <3> QED BY <3>2, <3>3
  <2>4. shown' \in Nat /\ muddled' \in {"ok", "doubled", "backwards"}
    BY <1>2, <1>3 DEF SubmitTyped
  <2> QED BY <1>1, <2>1, <2>2, <2>3, <2>4 DEF SubmitTyped
<1>8. LifeKnown' /\ SlotAimed'
  BY <1>1, <1>5 DEF LifeKnown, SlotAimed
<1>9. Numbered'
  <2>1. ASSUME NEW s \in Submitter
        PROVE  /\ hand'[s].frame <= frames /\ hand'[s].gen <= generation
               /\ \A f \in hand'[s].taps : f <= frames
               /\ submitter'[s] # "holding" => hand'[s] = Nothing
               /\ submitter'[s] = "holding" => hand'[s].frame # 0
    <3>1. CASE s = t
      BY <3>1, <1>4 DEF SubmitTyped
    <3>2. CASE s # t
      BY <3>2, <1>4 DEF Numbered
    <3> QED BY <3>1, <3>2
  <2>2. \A f \in Frame : f > frames => landed'[f] = {}
    <3> SUFFICES ASSUME NEW f \in Frame, f > frames PROVE landed'[f] = {}
      OBVIOUS
    <3>1. ~(f <= frames)
      BY DEF SubmitTyped, Frame
    <3> QED BY <3>1, <1>3, <1>6 DEF Numbered
  <2>3. shown' <= frames
    BY <1>2, <1>3 DEF Numbered
  <2> QED BY <1>1, <1>5, <2>1, <2>2, <2>3 DEF Numbered
<1>10. OnePlace'
  <2>1. \A s \in Submitter : \A f \in hand'[s].taps : f \in hand[s].taps /\ s # t /\ f \notin h.taps /\ f \in Frame
    BY <1>4 DEF OnePlace, SubmitTyped, h
  <2>2. Slot \subseteq Frame /\ \A f \in Slot : f \notin h.taps
    BY SlotFrames DEF OnePlace, h
  <2>3. \A f \in Slot : landed'[f] = {}
    BY <1>6, <2>2 DEF OnePlace
  <2>4. ASSUME NEW s \in Submitter, NEW f \in hand'[s].taps
        PROVE  f \notin Slot /\ landed'[f] = {} /\ \A q \in Submitter : f \in hand'[q].taps => q = s
    BY <1>6, <2>1 DEF OnePlace
  <2>5. \A f \in Frame : \A x, y \in landed'[f] : x = y
    BY <1>6 DEF OnePlace
  <2> QED BY <1>1, <1>5, <2>3, <2>4, <2>5 DEF OnePlace
<1>11. HandAimed'
  BY <1>1, <1>4 DEF HandAimed
<1>12. LandedAimed'
  <2> SUFFICES ASSUME NEW f \in Frame, NEW x \in landed'[f], x[1] # aimedAt[f]
               PROVE  aimedAt[f] = 0 \/ x[2] \in crossed
    BY <1>1 DEF LandedAimed
  <2>1. CASE same /\ f \in h.taps
    <3>1. x[1] = device /\ x[2] = h.frame
      BY <1>6, <2>1
    <3> QED BY <1>1, <2>1, <3>1 DEF HandAimed, h, same
  <2>2. CASE ~(same /\ f \in h.taps)
    BY <1>6, <2>2 DEF LandedAimed
  <2> QED BY <2>1, <2>2
<1>13. Delivered'
  <2> SUFFICES ASSUME device # 0, NEW f \in Frame, f <= frames, aimedAt[f] = device, landed'[f] = {}
               PROVE  \/ f \in Slot /\ submitPending.frame # 0 /\ submitPending.gen = generation
                      \/ \E s \in Submitter : f \in hand'[s].taps /\ hand'[s].gen = generation
    BY <1>1, <1>5 DEF Delivered
  <2>1. landed[f] = {} /\ ~(same /\ f \in h.taps)
    BY <1>6
  <2>2. ASSUME NEW s \in Submitter, f \in hand[s].taps, hand[s].gen = generation
        PROVE  \E q \in Submitter : f \in hand'[q].taps /\ hand'[q].gen = generation
    <3>1. s # t
      BY <2>1, <2>2 DEF h, same
    <3> QED BY <2>2, <3>1, <1>4
  <2> QED BY <1>1, <2>1, <2>2 DEF Delivered
<1>14. Running' = Running /\ (Alive(submitThread)' => Alive(submitThread))
  <2>1. submitThread \in Submitter \/ submitThread = 0
    BY SubmitAssumption DEF SubmitTyped, Submitter
  <2> QED BY <1>1, <1>4, <2>1 DEF Running, Alive
<1>15. Carried'
  BY <1>1, <1>14 DEF Carried
<1>16. InOrder'
  <2>1. ASSUME muddled = "ok"
        PROVE  /\ shown < h.frame /\ ~(h.frame < shown) /\ \A s \in Submitter : s # t => submitter[s] # "holding"
               /\ submitPending.frame # 0 => h.frame < submitPending.frame
    <3>1. shown < h.frame /\ (submitPending.frame # 0 => h.frame < submitPending.frame)
      BY <1>1, <2>1 DEF InOrder, h
    <3>2. ~(h.frame < shown)
      BY <1>3, <3>1 DEF SubmitTyped
    <3>3. \A s \in Submitter : submitter[s] = "holding" => s \in Running
      BY SubmitAssumption DEF Running, Alive, Submitter
    <3> QED BY <1>1, <2>1, <3>1, <3>2, <3>3 DEF InOrder
  <2>2. muddled' # "backwards"
    BY <1>2, <2>1 DEF InOrder
  <2>3. ASSUME muddled' = "ok"
        PROVE  /\ \A s, q \in Running : s = q
               /\ submitPending.frame # 0 => shown' < submitPending.frame
               /\ \A s \in Submitter : submitter'[s] # "holding"
    <3>1. muddled = "ok"
      BY <1>2, <2>3
    <3>2. \A s \in Submitter : submitter'[s] # "holding"
      BY <1>4, <2>1, <3>1
    <3>3. submitPending.frame # 0 => shown' < submitPending.frame
      BY <1>2, <2>1, <3>1 DEF InOrder
    <3> QED BY <3>1, <3>2, <3>3 DEF InOrder
  <2> QED BY <1>1, <1>14, <2>2, <2>3 DEF InOrder
<1> QED BY <1>7, <1>8, <1>9, <1>10, <1>11, <1>12, <1>13, <1>15, <1>16

\* A thread ends.
LEMMA EndsSteps ==
  ASSUME SubmitInv, NEW t \in Submitter, Ends(t)
  PROVE  SubmitInv'
<1> USE DEF SubmitInv
<1>1. /\ submitter[t] = "loop" /\ submitStop /\ submitter' = [submitter EXCEPT ![t] = "ended"]
      /\ UNCHANGED <<frames, publishing, submitPending, sticky, hand, submitThread, submitStop, generation,
                     device, devices, life, lives, aimedAt, landed, crossed, shown, muddled>>
  BY DEF Ends, lifeVars, tapVars
<1>2. /\ submitter'[t] = "ended" /\ \A s \in Submitter : s # t => submitter'[s] = submitter[s]
      /\ \A s \in Submitter : submitter'[s] = "holding" <=> submitter[s] = "holding"
  BY <1>1 DEF SubmitTyped
<1>3. Slot' = Slot
  BY <1>1 DEF Slot, Superseded
<1>4. SubmitTyped'
  BY <1>1 DEF SubmitTyped
<1>5. LifeKnown' /\ Numbered' /\ OnePlace' /\ SlotAimed' /\ LandedAimed' /\ Delivered'
  BY <1>1, <1>2, <1>3 DEF LifeKnown, Numbered, OnePlace, SlotAimed, LandedAimed, Delivered
<1>6. HandAimed'
  BY <1>1, <1>2 DEF HandAimed
<1>7. Running' \subseteq Running /\ (Alive(submitThread)' => Alive(submitThread))
  <2>1. submitThread \in Submitter \/ submitThread = 0
    BY SubmitAssumption DEF SubmitTyped, Submitter
  <2> QED BY <1>1, <1>2, <2>1 DEF Running, Alive
<1>8. Carried'
  BY <1>1, <1>7 DEF Carried
<1>9. InOrder'
  BY <1>1, <1>2, <1>7 DEF InOrder
<1> QED BY <1>4, <1>5, <1>6, <1>8, <1>9

\* The device's life begins to change, or a device is made where none is: the generation is
\* one that no frame has.
LEMMA NewGeneration ==
  ASSUME SubmitInv, (\E op \in {"close", "replace"} : Begins(op)) \/ OpensDevice
  PROVE  SubmitInv'
<1> USE DEF SubmitInv
<1>1. /\ life = Idle /\ life.step = "idle"
      /\ UNCHANGED <<frames, publishing, submitPending, sticky, submitter, hand, submitThread, submitStop,
                     aimedAt, landed, crossed, shown, muddled>>
  BY IdleSteps DEF Begins, OpensDevice, pipeVars, tapVars
<1>2. generation' \in Nat /\ generation < generation'
  BY DEF Begins, OpensDevice, SubmitTyped
<1>3. /\ Slot' = Slot /\ Running' = Running /\ (Alive(submitThread))' = Alive(submitThread)
      /\ submitPending.gen < generation' /\ \A t \in Submitter : hand[t].gen < generation'
  <2>1. submitPending.gen < generation' /\ \A t \in Submitter : hand[t].gen < generation'
    BY <1>2 DEF SubmitTyped, Numbered
  <2> QED BY <1>1, <2>1 DEF Slot, Superseded, Running, Alive
<1>4. HandAimed'
  <2>1. \A t \in Submitter : hand[t].gen # generation'
    BY <1>2, <1>3 DEF SubmitTyped
  <2> QED BY <1>1, <2>1 DEF HandAimed
<1>5. LandedAimed' /\ InOrder'
  BY <1>1, <1>3 DEF LandedAimed, InOrder
<1>6. submitPending.gen # generation'
  BY <1>2, <1>3 DEF SubmitTyped
<1>7. submitPending.gen <= generation' /\ \A t \in Submitter : hand[t].gen <= generation'
  BY <1>2, <1>3 DEF SubmitTyped
<1>8. ASSUME NEW op \in {"close", "replace"}, Begins(op) PROVE SubmitInv'
  <2>1. /\ life' = [step |-> "bumped", op |-> op, thread |-> 0] /\ device # 0
        /\ UNCHANGED <<device, devices>>
    BY <1>8 DEF Begins
  <2>2. life'.step = "bumped" /\ life'.op = op
    BY <2>1
  <2>3. SubmitTyped'
    BY <1>1, <1>2, <2>1 DEF SubmitTyped
  <2>4. LifeKnown'
    BY <2>1, <2>2 DEF LifeKnown
  <2>5. Numbered' /\ OnePlace'
    BY <1>1, <1>3, <1>7, <2>1 DEF Numbered, OnePlace
  <2>6. SlotAimed'
    BY <1>1, <1>3, <1>6, <2>1, <2>2 DEF SlotAimed
  <2>7. Delivered' /\ Carried'
    BY <2>2 DEF Delivered, Carried
  <2> QED BY <1>4, <1>5, <2>3, <2>4, <2>5, <2>6, <2>7
<1>9. CASE OpensDevice
  <2>1. device = 0 /\ device' = devices + 1 /\ devices' = devices + 1 /\ UNCHANGED life
    BY <1>9 DEF OpensDevice
  <2>2. devices \in Nat /\ device' # 0 /\ \A f \in Frame : aimedAt[f] \in Nat /\ aimedAt[f] < device'
    BY <2>1 DEF SubmitTyped, Numbered
  <2>3. \A f \in Frame : aimedAt[f] # device' /\ aimedAt[f] <= devices'
    BY <2>1, <2>2
  <2>4. SubmitTyped'
    BY <1>1, <1>2, <2>1, <2>2 DEF SubmitTyped
  <2>5. LifeKnown'
    BY <1>1, <2>1 DEF LifeKnown
  <2>6. Numbered' /\ OnePlace'
    BY <1>1, <1>3, <1>7, <2>1, <2>3 DEF Numbered, OnePlace
  <2>7. SlotAimed'
    BY <1>1, <1>3, <1>6, <2>1 DEF SlotAimed, Stopping
  <2>8. Delivered'
    BY <1>1, <2>1, <2>3 DEF Delivered
  <2>9. Carried'
    BY <1>1, <1>3, <2>1 DEF Carried
  <2> QED BY <1>4, <1>5, <2>4, <2>5, <2>6, <2>7, <2>8, <2>9
<1> QED BY <1>8, <1>9

\* The submit thread is told to end and is waited for; the slot is cleared.
LEMMA StopSteps ==
  ASSUME SubmitInv, Flags \/ Joins \/ Clears
  PROVE  SubmitInv'
<1> USE DEF SubmitInv
<1>1. /\ life.step \in Stopping /\ life'.op = life.op
      /\ UNCHANGED <<frames, publishing, submitter, hand, generation, device, devices,
                     aimedAt, landed, crossed, shown, muddled>>
  BY DEF Flags, Joins, Clears, Stopping, pipeVars, tapVars, SubmitTyped
<1>2. Running' = Running
  BY <1>1 DEF Running, Alive
<1>3. LandedAimed'
  BY <1>1 DEF LandedAimed
<1>4. life.op \in {"close", "replace"} /\ device # 0 /\ submitThread \in Nat
  BY <1>1 DEF LifeKnown, Stopping, SubmitTyped
<1>5. CASE Flags \/ Joins
  <2>1. /\ life'.step \in {"joining", "joined"} /\ submitStop' \in BOOLEAN
        /\ life' \in [step : {"idle", "bumped", "joining", "joined", "clean"},
                      op : {"none", "close", "replace"}, thread : Nat]
        /\ UNCHANGED <<submitPending, sticky, submitThread>>
    BY <1>4, <1>5 DEF Flags, Joins, pipeVars, SubmitTyped
  <2>2. Slot' = Slot
    BY <2>1 DEF Slot, Superseded
  <2>3. SubmitTyped'
    BY <1>1, <2>1 DEF SubmitTyped
  <2>4. LifeKnown' /\ Delivered' /\ Carried'
    BY <1>1, <1>4, <2>1 DEF LifeKnown, Delivered, Carried
  <2>5. Numbered' /\ OnePlace'
    BY <1>1, <2>1, <2>2 DEF Numbered, OnePlace
  <2>6. SlotAimed' /\ HandAimed'
    BY <1>1, <2>1, <2>2 DEF SlotAimed, HandAimed, Stopping
  <2>7. InOrder'
    BY <1>1, <1>2, <2>1 DEF InOrder
  <2> QED BY <1>3, <2>3, <2>4, <2>5, <2>6, <2>7
<1>6. CASE Clears
  <2>1. /\ life'.step = "clean" /\ submitThread' = 0 /\ submitPending' = Empty /\ sticky' = {}
        /\ life' \in [step : {"idle", "bumped", "joining", "joined", "clean"},
                      op : {"none", "close", "replace"}, thread : Nat]
        /\ UNCHANGED submitStop
    BY <1>6 DEF Clears, ClearsSlot, SubmitTyped
  <2>2. submitPending'.frame = 0 /\ submitPending'.gen = 0 /\ Slot' = {}
    BY <2>1 DEF Slot, Superseded, Empty
  <2>3. SubmitTyped'
    <3>1. submitPending' \in [frame : Nat, gen : Nat] /\ submitThread' \in 0 .. MaxThreads /\ sticky' \subseteq Frame
      BY <2>1, SubmitAssumption DEF Empty
    <3> QED BY <1>1, <2>1, <3>1 DEF SubmitTyped
  <2>4. LifeKnown' /\ Delivered'
    BY <1>1, <1>4, <2>1 DEF LifeKnown, Delivered
  <2>5. Carried'
    BY <2>1, <2>2 DEF Carried, Alive
  <2>6. Numbered'
    <3>1. 0 <= frames /\ 0 <= generation
      BY DEF SubmitTyped
    <3> QED BY <1>1, <2>1, <2>2, <3>1 DEF Numbered
  <2>7. OnePlace'
    BY <1>1, <2>1, <2>2 DEF OnePlace
  <2>8. SlotAimed' /\ HandAimed'
    BY <1>1, <2>1, <2>2 DEF SlotAimed, HandAimed, Stopping
  <2>9. InOrder'
    BY <1>1, <1>2, <2>1, <2>2 DEF InOrder
  <2> QED BY <1>3, <2>3, <2>4, <2>5, <2>6, <2>7, <2>8, <2>9
<1> QED BY <1>5, <1>6

\* The old device goes, and no tap was meant for the one that replaces it.
LEMMA FinishesSteps ==
  ASSUME SubmitInv, Finishes
  PROVE  SubmitInv'
<1> USE DEF SubmitInv
<1>1. /\ life.step = "clean" /\ life' = Idle /\ life'.step = "idle"
      /\ UNCHANGED <<frames, publishing, submitPending, sticky, submitter, hand, submitThread, submitStop,
                     generation, aimedAt, landed, crossed, shown, muddled>>
  BY IdleSteps DEF Finishes, pipeVars, tapVars
<1>2. \/ device' = devices + 1 /\ devices' = devices + 1
      \/ device' = 0 /\ devices' = devices
  BY DEF Finishes
<1>3. /\ devices \in Nat /\ device' \in Nat /\ devices' \in Nat /\ device' <= devices' /\ devices <= devices'
      /\ \A f \in Frame : aimedAt[f] \in Nat /\ aimedAt[f] <= devices
  BY <1>2 DEF SubmitTyped, Numbered
<1>4. \A f \in Frame : aimedAt[f] <= devices' /\ (device' # 0 => aimedAt[f] # device')
  BY <1>2, <1>3
<1>5. Slot' = Slot /\ Running' = Running /\ (Alive(submitThread))' = Alive(submitThread)
  BY <1>1 DEF Slot, Superseded, Running, Alive
<1>6. SubmitTyped'
  <2>1. life' \in [step : {"idle", "bumped", "joining", "joined", "clean"},
                   op : {"none", "close", "replace"}, thread : Nat]
    BY <1>1 DEF Idle
  <2> QED BY <1>1, <1>3, <2>1 DEF SubmitTyped
<1>7. LifeKnown' /\ LandedAimed' /\ InOrder'
  BY <1>1, <1>5 DEF LifeKnown, LandedAimed, InOrder
<1>8. Numbered' /\ OnePlace'
  BY <1>1, <1>4, <1>5 DEF Numbered, OnePlace
<1>9. SlotAimed' /\ HandAimed'
  BY <1>1, <1>5 DEF SlotAimed, HandAimed, Stopping
<1>10. Delivered'
  BY <1>1, <1>4 DEF Delivered
<1>11. Carried'
  BY <1>1, <1>5 DEF Carried
<1> QED BY <1>6, <1>7, <1>8, <1>9, <1>10, <1>11

\* The invariant holds when the program starts.
LEMMA SubmitStarts == SubmitInit => SubmitInv
<1> SUFFICES ASSUME SubmitInit PROVE SubmitInv
  OBVIOUS
<1>1. /\ frames = 0 /\ publishing = FALSE /\ sticky = {} /\ submitThread = 0 /\ submitStop = FALSE
      /\ submitPending.frame = 0 /\ submitPending.gen = 0 /\ generation = 1 /\ device = 1 /\ devices = 1
      /\ life = Idle /\ life.step = "idle" /\ crossed = {} /\ shown = 0 /\ muddled = "ok"
      /\ \A f \in Frame : aimedAt[f] = 0 /\ landed[f] = {}
      /\ \A t \in Submitter : submitter[t] = "new" /\ hand[t] = Nothing /\ hand[t].taps = {}
                              /\ hand[t].frame = 0 /\ hand[t].gen = 0
  BY IdleSteps DEF SubmitInit, Empty
<1>2. Slot = {} /\ Running = {} /\ ~Alive(submitThread)
  BY <1>1 DEF Slot, Superseded, Running, Alive
<1>3. SubmitTyped
  <2>1. /\ submitPending \in [frame : Nat, gen : Nat]
        /\ life \in [step : {"idle", "bumped", "joining", "joined", "clean"},
                    op : {"none", "close", "replace"}, thread : Nat]
    BY DEF SubmitInit, Empty, Idle
  <2>2. /\ submitter \in [Submitter -> {"new", "loop", "holding", "ended"}]
        /\ hand \in [Submitter -> [frame : Nat, gen : Nat, taps : SUBSET Frame]]
    BY DEF SubmitInit, Nothing
  <2>3. aimedAt \in [Frame -> Nat] /\ landed \in [Frame -> SUBSET (Nat \X Nat)]
    BY DEF SubmitInit
  <2>4. 0 \in 0 .. MaxFrames /\ 0 \in 0 .. MaxThreads
    BY SubmitAssumption
  <2>5. publishing \in BOOLEAN /\ submitStop \in BOOLEAN
    BY <1>1
  <2> QED BY <1>1, <2>1, <2>2, <2>3, <2>4, <2>5 DEF SubmitTyped
<1> QED BY <1>1, <1>2, <1>3 DEF SubmitInv, LifeKnown, Numbered, OnePlace, SlotAimed, HandAimed, LandedAimed,
        Delivered, Carried, InOrder, Stopping

\* Every step keeps the invariant.
LEMMA SubmitSteps == SubmitInv /\ [SubmitNext]_submitVars => SubmitInv'
<1> SUFFICES ASSUME SubmitInv, [SubmitNext]_submitVars PROVE SubmitInv'
  OBVIOUS
<1>1. CASE Publishes \/ FindsThread \/ StartsThread
  BY <1>1, PublishesSteps, ThreadSteps
<1>2. CASE \E t \in Submitter : TakesPending(t) \/ Submits(t) \/ Ends(t)
  BY <1>2, TakesSteps, SubmitsSteps, EndsSteps
<1>3. CASE (\E op \in {"close", "replace"} : Begins(op)) \/ OpensDevice
  BY <1>3, NewGeneration
<1>4. CASE Flags \/ Joins \/ Clears \/ Finishes
  BY <1>4, StopSteps, FinishesSteps
<1>5. CASE UNCHANGED submitVars
  <2>1. Slot' = Slot /\ Running' = Running /\ (Alive(submitThread))' = Alive(submitThread)
    BY <1>5 DEF submitVars, Slot, Superseded, Running, Alive
  <2>2. SubmitTyped'
    BY <1>5 DEF submitVars, SubmitInv, SubmitTyped
  <2>3. (LifeKnown /\ Numbered /\ OnePlace /\ LandedAimed)'
    BY <1>5, <2>1 DEF submitVars, SubmitInv, LifeKnown, Numbered, OnePlace, LandedAimed
  <2>4. (SlotAimed /\ HandAimed /\ Delivered /\ Carried /\ InOrder)'
    BY <1>5, <2>1 DEF submitVars, SubmitInv, SlotAimed, HandAimed, Delivered, Carried, InOrder
  <2> QED BY <2>2, <2>3, <2>4 DEF SubmitInv
<1> QED BY <1>1, <1>2, <1>3, <1>4, <1>5 DEF SubmitNext, Rests

\* What waits, what is held and what was shown is of a frame that was sent, for a device
\* that was there.
LEMMA SubmitTypes == SubmitInv => SubmitTypeOK
<1> SUFFICES ASSUME SubmitInv PROVE SubmitTypeOK
  OBVIOUS
<1>1. SubmitTyped /\ Numbered
  BY DEF SubmitInv
<1>2. /\ frames \in Nat /\ generation \in Nat /\ shown \in 0 .. frames /\ device \in 0 .. devices
      /\ submitPending.frame \in 0 .. frames /\ submitPending.gen \in 0 .. generation
  BY <1>1 DEF SubmitTyped, Numbered
<1>3. sticky \subseteq 1 .. frames
  <2>1. sticky \subseteq Slot /\ sticky \subseteq Frame
    BY <1>1 DEF SubmitTyped, Slot, Superseded
  <2> QED BY <1>1, <1>2, <2>1, SubmitAssumption DEF Numbered, Frame
<1>4. \A t \in Submitter : (submitter[t] = "holding") = (hand[t].frame # 0)
  <2> SUFFICES ASSUME NEW t \in Submitter PROVE (submitter[t] = "holding") <=> (hand[t].frame # 0)
    OBVIOUS
  <2> QED BY <1>1, IdleSteps DEF Numbered
<1>5. life.step \in {"idle", "bumped", "joining", "joined", "clean"}
  BY <1>1 DEF SubmitTyped
<1> QED BY <1>1, <1>2, <1>3, <1>4, <1>5 DEF SubmitTyped, SubmitTypeOK

LEMMA SubmitShows == SubmitInv => TapsReachGame
<1> SUFFICES ASSUME SubmitInv PROVE TapsReachGame
  OBVIOUS
<1> USE DEF SubmitInv
<1>1. \A f \in 1 .. frames : f \in Frame /\ f <= frames /\ f # 0
  BY SubmitAssumption DEF SubmitTyped, Frame
<1>2. ASSUME NEW f \in 1 .. frames
      PROVE  /\ \A x, y \in landed[f] : x = y
             /\ \A x \in landed[f] : x[1] # aimedAt[f] => aimedAt[f] = 0 \/ x[2] \in crossed
             /\ (life = Idle /\ aimedAt[f] = device /\ device # 0) => landed[f] # {} \/ OnItsWay(f)
  <2>1. /\ \A x, y \in landed[f] : x = y
        /\ \A x \in landed[f] : x[1] # aimedAt[f] => aimedAt[f] = 0 \/ x[2] \in crossed
    BY <1>1 DEF OnePlace, LandedAimed
  <2>2. ASSUME life = Idle, aimedAt[f] = device, device # 0, landed[f] = {}
        PROVE  OnItsWay(f)
    <3>1. life.step = "idle"
      BY <2>2, IdleSteps
    <3>2. \/ f \in Slot
          \/ \E t \in Submitter : f \in hand[t].taps /\ hand[t].gen = generation
      BY <1>1, <2>2, <3>1 DEF Delivered
    <3> QED BY <2>2, <3>2 DEF OnItsWay, SameDevice, Slot, Superseded
  <2> QED BY <2>1, <2>2
<1>3. (submitPending.frame # 0 /\ ~publishing /\ life = Idle) => (Running # {} /\ ~submitStop)
  BY IdleSteps DEF Carried
<1> QED BY <1>2, <1>3, SubmitTypes DEF TapsReachGame, InOrder

\* Every variable of the submit worker keeps its type, for any number of threads and frames:
\* a thread holds a frame exactly while it is about to submit it, and the latches are of
\* frames that were sent.
THEOREM SubmitTypeCorrect == SubmitSpec => []SubmitTypeOK
BY SubmitStarts, SubmitSteps, SubmitTypes, PTL DEF SubmitSpec

\* Whatever the numbers of frames, threads and lives of the device: a tap reaches the game
\* once and in the device it was meant for, or it is on its way there with a thread to carry it.
THEOREM TapsArrive == SubmitSpec => []TapsReachGame
BY SubmitStarts, SubmitSteps, SubmitShows, PTL DEF SubmitSpec

-----------------------------------------------------------------------------
(* UsbIpServer *)

Answers == {"submit", "reset", "zero"}

\* What the host may have got for one request.
Submitted == <<"submit">>
Cancelled == <<"reset">>
Late == <<"zero">>
ThenLate == <<"submit", "zero">>
LateFirst == <<"zero", "submit">>

UrbTyped ==
  /\ attached \in Nat /\ link \in {"off", "up", "broken", "dead"}
  /\ urbKind \in [Urb -> {"none", "hid", "out", "mic"}]
  /\ place \in [Urb -> {"none", "queued", "held", "tx", "gone"}]
  /\ unlinkDue \in [Urb -> {"none", "reset", "zero"}] /\ wire \in [Urb -> Seq(Answers)]
  /\ \A u \in Urb : urbKind[u] = "none" <=> place[u] = "none"
  /\ \A u \in Urb : u[1] > attached => place[u] = "none"

\* Nothing reaches the host, and nothing is due to it, but for requests of a connection that lives.
OnlyHere == \A u \in Urb : ~(Here(u) /\ link = "up") => wire[u] = <<>> /\ unlinkDue[u] = "none"

\* A loop, a queue or the TX writer still has to claim the request.
Unclaimed(u) ==
  place[u] \in {"queued", "tx"} \/ (place[u] = "held" /\ urbKind[u] \in Audio)

\* The HID loop has claimed it and waits for its time.
HidHeld(u) == place[u] = "held" /\ urbKind[u] = "hid"

\* What its marks say of a request, and what of it reached the host.
AnswerOk(u) ==
  /\ place[u] = "none" =>
       Number(u) \notin marked \cup unlinked /\ wire[u] = <<>> /\ unlinkDue[u] = "none"
  /\ Unclaimed(u) =>
       /\ Number(u) \in marked
       /\ IF Number(u) \in unlinked
          THEN \/ unlinkDue[u] = "reset" /\ wire[u] = <<>>
               \/ unlinkDue[u] = "none" /\ wire[u] = Cancelled
          ELSE unlinkDue[u] = "none" /\ wire[u] = <<>>
  /\ HidHeld(u) =>
       /\ Number(u) \notin marked
       /\ \/ unlinkDue[u] = "none" /\ wire[u] \in {<<>>, Late}
          \/ unlinkDue[u] = "zero" /\ wire[u] = <<>>
  /\ place[u] = "gone" =>
       /\ Number(u) \notin marked
       /\ \/ unlinkDue[u] = "none" /\ wire[u] \in {Submitted, Cancelled, ThenLate}
          \/ unlinkDue[u] = "none" /\ wire[u] = LateFirst /\ urbKind[u] = "hid"
          \/ unlinkDue[u] = "reset" /\ wire[u] = <<>>
          \/ unlinkDue[u] = "zero" /\ wire[u] = Submitted

UrbInv ==
  /\ UrbTyped /\ OnlyHere
  /\ link = "up" => \A u \in Urb : Here(u) /\ Number(u) \notin mixed => AnswerOk(u)

\* A second answer after a first.
LEMMA AppendSecond ==
  ASSUME NEW S, NEW x \in S, NEW y \in S
  PROVE  Append(<<x>>, y) = <<x, y>>
<1> DEFINE longer == Append(<<x>>, y)
           pair == <<x, y>>
<1>1. <<x>> \in Seq(S) /\ Len(<<x>>) = 1 /\ <<x>>[1] = x
  OBVIOUS
<1>2. longer \in Seq(S) /\ Len(longer) = 2 /\ longer[1] = x /\ longer[2] = y
  BY <1>1, AppendProperties
<1>3. pair \in Seq(S) /\ Len(pair) = 2 /\ pair[1] = x /\ pair[2] = y
  OBVIOUS
<1> HIDE DEF longer, pair
<1>4. \A i \in 1 .. 2 : i = 1 \/ i = 2
  OBVIOUS
<1>5. \A i \in 1 .. Len(longer) : longer[i] = pair[i]
  BY <1>2, <1>3, <1>4
<1>6. longer = pair
  BY <1>2, <1>3, <1>5, SeqEqual
<1> QED BY <1>6 DEF longer, pair

\* The answers in order, and what one more makes of them.
LEMMA AnswerFacts ==
  /\ Append(<<>>, "submit") = Submitted /\ Append(<<>>, "reset") = Cancelled /\ Append(<<>>, "zero") = Late
  /\ Append(Submitted, "zero") = ThenLate /\ Append(Late, "submit") = LateFirst
  /\ DOMAIN Submitted = {1} /\ Submitted[1] = "submit" /\ DOMAIN Cancelled = {1} /\ Cancelled[1] = "reset"
  /\ DOMAIN Late = {1} /\ Late[1] = "zero" /\ \A s : DOMAIN s # {} => s # <<>>
  /\ DOMAIN ThenLate = {1, 2} /\ ThenLate[1] = "submit" /\ ThenLate[2] = "zero"
  /\ DOMAIN LateFirst = {1, 2} /\ LateFirst[1] = "zero" /\ LateFirst[2] = "submit"
  /\ DOMAIN <<>> = {} /\ <<>> \in Seq(Answers)
  /\ \A s \in Seq(Answers), x \in Answers : Append(s, x) \in Seq(Answers)
<1>1. /\ Append(<<>>, "submit") = Submitted /\ Append(<<>>, "reset") = Cancelled /\ Append(<<>>, "zero") = Late
  BY DEF Submitted, Cancelled, Late
<1>2. Append(Submitted, "zero") = ThenLate /\ Append(Late, "submit") = LateFirst
  <2>1. "submit" \in Answers /\ "zero" \in Answers
    BY DEF Answers
  <2>2. Append(<<"submit">>, "zero") = <<"submit", "zero">>
    BY <2>1, AppendSecond
  <2>3. Append(<<"zero">>, "submit") = <<"zero", "submit">>
    BY <2>1, AppendSecond
  <2> QED BY <2>2, <2>3, Zenon DEF Submitted, ThenLate, Late, LateFirst
<1>3. DOMAIN Submitted = {1} /\ DOMAIN Cancelled = {1} /\ DOMAIN Late = {1}
  BY DEF Submitted, Cancelled, Late
<1>4. DOMAIN ThenLate = {1, 2} /\ DOMAIN LateFirst = {1, 2}
  <2>1. 1 .. 2 = {1, 2}
    OBVIOUS
  <2> QED BY <2>1 DEF ThenLate, LateFirst
<1>5. /\ Submitted[1] = "submit" /\ Cancelled[1] = "reset" /\ Late[1] = "zero"
      /\ ThenLate[1] = "submit" /\ ThenLate[2] = "zero" /\ LateFirst[1] = "zero" /\ LateFirst[2] = "submit"
  BY DEF Submitted, Cancelled, Late, ThenLate, LateFirst
<1>6. DOMAIN <<>> = {} /\ <<>> \in Seq(Answers)
  OBVIOUS
<1>7. \A s \in Seq(Answers), x \in Answers : Append(s, x) \in Seq(Answers)
  OBVIOUS
<1> QED BY <1>1, <1>2, <1>3, <1>4, <1>5, <1>6, <1>7

\* Two requests of the connection have different numbers.
LEMMA SameNumber ==
  ASSUME NEW u \in Urb, NEW v \in Urb, Here(u), Here(v), Number(u) = Number(v)
  PROVE  u = v
<1>1. \A x \in Urb : x = <<x[1], x[2]>>
  <2> SUFFICES ASSUME NEW x \in Urb PROVE x = <<x[1], x[2]>>
    OBVIOUS
  <2>1. PICK a \in 1 .. Attachments : x \in {a} \X (1 .. Requests[a])
    BY DEF Urb
  <2> QED BY <2>1
<1> QED BY <1>1 DEF Here, Number

\* The marks of a request go with its claim and with no other's, as long as no request of an
\* older connection took them.
LEMMA UnmarkKeeps ==
  ASSUME NEW U \in SUBSET Urb, Unmark(U), NEW u \in Urb, Here(u), Number(u) \notin mixed'
  PROVE  /\ Number(u) \notin mixed
         /\ u \in U => Number(u) \notin marked' \cup unlinked'
         /\ u \notin U => /\ Number(u) \in marked' <=> Number(u) \in marked
                          /\ Number(u) \in unlinked' <=> Number(u) \in unlinked
<1>1. /\ marked' = marked \ {Number(v) : v \in U} /\ unlinked' = unlinked \ {Number(v) : v \in U}
      /\ mixed' = mixed \cup {Number(v) : v \in {w \in U : ~Here(w) /\ Number(w) \in marked \cup unlinked}}
  BY DEF Unmark
<1>2. ASSUME u \notin U, NEW v \in U, Number(v) = Number(u)
      PROVE  Number(u) \notin marked \cup unlinked
  <2>1. ~Here(v)
    BY <1>2, SameNumber
  <2> QED BY <1>1, <1>2, <2>1
<1> QED BY <1>1, <1>2

\* What a request's state says of it stays while none of it changes.
LEMMA SameAnswer ==
  ASSUME NEW u \in Urb, AnswerOk(u), place'[u] = place[u], urbKind'[u] = urbKind[u],
         wire'[u] = wire[u], unlinkDue'[u] = unlinkDue[u],
         Number(u) \in marked' <=> Number(u) \in marked,
         Number(u) \in unlinked' <=> Number(u) \in unlinked
  PROVE  AnswerOk(u)'
BY DEF AnswerOk, Unclaimed, HidHeld, Number

\* Requests are claimed, and answered if they were not withdrawn.
LEMMA ClaimSteps ==
  ASSUME UrbInv, NEW U \in SUBSET Urb, \A v \in U : Unclaimed(v), ClaimAndSend(U),
         UNCHANGED <<attached, link, urbKind, unlinkDue>>
  PROVE  UrbInv'
<1> USE DEF UrbInv
<1>1. Unmark(U) /\ place' = Leave(U) /\ wire' = Received(Answerable(U), "submit")
  BY DEF ClaimAndSend
<1>2. \A u \in Urb : place'[u] = IF u \in U THEN "gone" ELSE place[u]
  BY <1>1 DEF Leave
<1>3. \A u \in Urb : wire'[u] = IF u \in Answerable(U) /\ Here(u) /\ link = "up"
                                THEN Append(wire[u], "submit") ELSE wire[u]
  BY <1>1 DEF Received
<1>4. \A u \in U : place[u] # "none"
  BY DEF Unclaimed
<1>5. UrbTyped'
  <2>1. place' \in [Urb -> {"none", "queued", "held", "tx", "gone"}]
    BY <1>1 DEF Leave, UrbTyped
  <2>2. wire' \in [Urb -> Seq(Answers)]
    <3>1. \A u \in Urb : wire[u] \in Seq(Answers) /\ Append(wire[u], "submit") \in Seq(Answers)
      BY AnswerFacts DEF UrbTyped, Answers
    <3>2. \A u \in Urb : wire'[u] \in Seq(Answers)
      BY <1>3, <3>1
    <3>3. wire' = [u \in Urb |-> wire'[u]]
      BY <1>1 DEF Received
    <3> QED BY <3>2, <3>3
  <2>3. \A u \in Urb : /\ urbKind[u] = "none" <=> place'[u] = "none"
                       /\ u[1] > attached => place'[u] = "none"
    BY <1>2, <1>4 DEF UrbTyped
  <2> QED BY <2>1, <2>2, <2>3 DEF UrbTyped
<1>6. OnlyHere'
  BY <1>3 DEF OnlyHere, Here
<1>7. ASSUME link = "up", NEW u \in Urb, Here(u), Number(u) \notin mixed'
      PROVE  AnswerOk(u)'
  <2>1. /\ AnswerOk(u)
        /\ u \in U => Number(u) \notin marked'
        /\ u \notin U => /\ Number(u) \in marked' <=> Number(u) \in marked
                         /\ Number(u) \in unlinked' <=> Number(u) \in unlinked
    BY <1>1, <1>7, UnmarkKeeps
  <2>2. CASE u \notin U
    <3>1. u \notin Answerable(U)
      BY <2>2 DEF Answerable
    <3> QED BY <1>2, <1>3, <2>1, <2>2, <3>1, SameAnswer
  <2>3. CASE u \in U
    <3>1. Unclaimed(u) /\ place'[u] = "gone" /\ Number(u) \notin marked'
      BY <1>2, <2>1, <2>3
    <3>2. u \in Answerable(U) <=> Number(u) \notin unlinked
      BY <1>7, <2>3 DEF Answerable, Withdrawn
    <3>3. CASE Number(u) \in unlinked
      <4>1. wire'[u] = wire[u] /\ (\/ unlinkDue[u] = "reset" /\ wire[u] = <<>>
                                   \/ unlinkDue[u] = "none" /\ wire[u] = Cancelled)
        BY <1>3, <2>1, <3>1, <3>2, <3>3 DEF AnswerOk
      <4> QED BY <3>1, <4>1 DEF AnswerOk, Unclaimed, HidHeld, Number
    <3>4. CASE Number(u) \notin unlinked
      <4>1. wire[u] = <<>> /\ unlinkDue[u] = "none"
        BY <2>1, <3>1, <3>4 DEF AnswerOk
      <4>2. wire'[u] = Submitted
        BY <1>3, <1>7, <3>2, <3>4, <4>1, AnswerFacts
      <4> QED BY <3>1, <4>1, <4>2 DEF AnswerOk, Unclaimed, HidHeld, Number
    <3> QED BY <3>3, <3>4
  <2> QED BY <2>2, <2>3
<1> QED BY <1>5, <1>6, <1>7 DEF Here, Number

\* Requests of the audio streams go on to a loop or to the TX queue unclaimed.
LEMMA MoveSteps ==
  ASSUME UrbInv, NEW U \in SUBSET Urb, \A v \in U : Unclaimed(v) /\ urbKind[v] \in Audio,
         NEW p \in {"held", "tx"}, place' = [u \in Urb |-> IF u \in U THEN p ELSE place[u]],
         UNCHANGED <<attached, link, urbKind, unlinkDue, marked, unlinked, wire, mixed>>
  PROVE  UrbInv'
<1> USE DEF UrbInv
<1>1. \A u \in Urb : place'[u] = IF u \in U THEN p ELSE place[u]
  OBVIOUS
<1>2. \A u \in U : place[u] # "none"
  BY DEF Unclaimed
<1>3. UrbTyped'
  <2>1. place' \in [Urb -> {"none", "queued", "held", "tx", "gone"}]
    BY DEF UrbTyped
  <2> QED BY <1>1, <1>2, <2>1 DEF UrbTyped
<1>4. OnlyHere'
  BY DEF OnlyHere, Here
<1>5. ASSUME link = "up", NEW u \in Urb, Here(u), Number(u) \notin mixed
      PROVE  AnswerOk(u)'
  <2>1. AnswerOk(u)
    BY <1>5
  <2>2. CASE u \notin U
    BY <1>1, <2>1, <2>2, SameAnswer
  <2>3. CASE u \in U
    <3>1. Unclaimed(u) /\ Unclaimed(u)' /\ ~HidHeld(u)' /\ place'[u] \notin {"none", "gone"}
      BY <1>1, <2>3 DEF Unclaimed, HidHeld, Audio
    <3> QED BY <2>1, <3>1 DEF AnswerOk, Number
  <2> QED BY <2>2, <2>3
<1> QED BY <1>3, <1>4, <1>5 DEF Here, Number

\* The host submits a request.
LEMMA UrbSubmittedSteps ==
  ASSUME UrbInv, NEW u \in Urb, NEW k \in {"hid", "out", "mic"}, UrbSubmitted(u, k)
  PROVE  UrbInv'
<1> USE DEF UrbInv
<1>1. /\ Here(u) /\ link = "up" /\ urbKind[u] = "none"
      /\ urbKind' = [urbKind EXCEPT ![u] = k] /\ place' = [place EXCEPT ![u] = "queued"]
      /\ marked' = marked \cup {Number(u)}
      /\ UNCHANGED <<attached, link, unlinked, unlinkDue, wire, mixed>>
  BY DEF UrbSubmitted
<1>2. /\ urbKind'[u] = k /\ place'[u] = "queued" /\ place[u] = "none"
      /\ \A v \in Urb : v # u => urbKind'[v] = urbKind[v] /\ place'[v] = place[v]
  BY <1>1 DEF UrbTyped
<1>3. UrbTyped'
  <2>1. urbKind' \in [Urb -> {"none", "hid", "out", "mic"}]
        /\ place' \in [Urb -> {"none", "queued", "held", "tx", "gone"}]
    BY <1>1 DEF UrbTyped
  <2>2. ~(u[1] > attached)
    BY <1>1 DEF Here, UrbTyped
  <2>3. \A v \in Urb : /\ urbKind'[v] = "none" <=> place'[v] = "none"
                       /\ v[1] > attached => place'[v] = "none"
    BY <1>2, <2>2 DEF UrbTyped
  <2> QED BY <1>1, <2>1, <2>3 DEF UrbTyped
<1>4. OnlyHere'
  BY <1>1 DEF OnlyHere, Here
<1>5. ASSUME NEW v \in Urb, Here(v), Number(v) \notin mixed
      PROVE  AnswerOk(v)'
  <2>1. AnswerOk(v)
    BY <1>1, <1>5
  <2>2. CASE v = u
    <3>1. Number(u) \notin unlinked /\ wire[u] = <<>> /\ unlinkDue[u] = "none"
      BY <1>2, <2>1, <2>2 DEF AnswerOk
    <3> QED BY <1>1, <1>2, <2>2, <3>1 DEF AnswerOk, Unclaimed, HidHeld, Number
  <2>3. CASE v # u
    <3>1. Number(v) # Number(u)
      BY <1>1, <1>5, <2>3, SameNumber
    <3> QED BY <1>1, <1>2, <2>1, <2>3, <3>1, SameAnswer
  <2> QED BY <2>2, <2>3
<1> QED BY <1>1, <1>3, <1>4, <1>5 DEF Here, Number

\* The host withdraws a request: one that is still to be claimed will not be answered.
LEMMA UrbUnlinkedSteps ==
  ASSUME UrbInv, NEW u \in Urb, UrbUnlinked(u)
  PROVE  UrbInv'
<1> USE DEF UrbInv
<1>1. /\ Here(u) /\ link = "up" /\ urbKind[u] # "none" /\ unlinkDue[u] = "none"
      /\ \A i \in DOMAIN wire[u] : wire[u][i] = "submit"
      /\ unlinkDue' = [unlinkDue EXCEPT ![u] = IF Number(u) \in marked THEN "reset" ELSE "zero"]
      /\ unlinked' = IF Number(u) \in marked THEN unlinked \cup {Number(u)} ELSE unlinked
      /\ UNCHANGED <<attached, link, urbKind, place, marked, wire, mixed>>
  BY DEF UrbUnlinked
<1>2. /\ unlinkDue'[u] = IF Number(u) \in marked THEN "reset" ELSE "zero"
      /\ \A v \in Urb : v # u => unlinkDue'[v] = unlinkDue[v]
  BY <1>1 DEF UrbTyped
<1>3. UrbTyped'
  BY <1>1 DEF UrbTyped
<1>4. OnlyHere'
  BY <1>1, <1>2 DEF OnlyHere, Here
<1>5. wire[u] \notin {Cancelled, Late, ThenLate, LateFirst}
  BY <1>1, AnswerFacts
<1>6. ASSUME NEW v \in Urb, Here(v), Number(v) \notin mixed
      PROVE  AnswerOk(v)'
  <2>1. AnswerOk(v)
    BY <1>1, <1>6
  <2>2. CASE v = u
    <3>1. place[u] # "none"
      BY <1>1 DEF UrbTyped
    <3>2. ASSUME Unclaimed(u) PROVE AnswerOk(u)'
      <4>1. Number(u) \in marked /\ wire[u] = <<>> /\ place[u] # "gone" /\ ~HidHeld(u)
        BY <1>1, <1>5, <2>1, <2>2, <3>2 DEF AnswerOk, Unclaimed, HidHeld, Audio
      <4> QED BY <1>1, <1>2, <3>1, <4>1 DEF AnswerOk, Unclaimed, HidHeld, Number
    <3>3. ASSUME HidHeld(u) PROVE AnswerOk(u)'
      <4>1. Number(u) \notin marked /\ wire[u] = <<>> /\ place[u] # "gone" /\ ~Unclaimed(u)
        BY <1>1, <1>5, <2>1, <2>2, <3>3 DEF AnswerOk, Unclaimed, HidHeld, Audio
      <4> QED BY <1>1, <1>2, <3>1, <4>1 DEF AnswerOk, Unclaimed, HidHeld, Number
    <3>4. ASSUME place[u] = "gone" PROVE AnswerOk(u)'
      <4>1. Number(u) \notin marked /\ wire[u] = Submitted /\ ~HidHeld(u) /\ ~Unclaimed(u)
        BY <1>1, <1>5, <2>1, <2>2, <3>4 DEF AnswerOk, Unclaimed, HidHeld
      <4> QED BY <1>1, <1>2, <3>4, <4>1 DEF AnswerOk, Unclaimed, HidHeld, Number
    <3>5. Unclaimed(u) \/ HidHeld(u) \/ place[u] = "gone"
      BY <1>1, <3>1 DEF UrbTyped, Unclaimed, HidHeld, Audio
    <3> QED BY <2>2, <3>2, <3>3, <3>4, <3>5
  <2>3. CASE v # u
    <3>1. Number(v) # Number(u)
      BY <1>1, <1>6, <2>3, SameNumber
    <3> QED BY <1>1, <1>2, <2>1, <2>3, <3>1, SameAnswer
  <2> QED BY <2>2, <2>3
<1> QED BY <1>1, <1>3, <1>4, <1>6 DEF Here, Number

\* The HID loop claims a request, and drops one that was withdrawn.
LEMMA HidTakenSteps ==
  ASSUME UrbInv, NEW u \in Urb, HidTaken(u)
  PROVE  UrbInv'
<1> USE DEF UrbInv
<1>1. /\ urbKind[u] = "hid" /\ place[u] = "queued" /\ Unmark({u})
      /\ place' = [place EXCEPT ![u] = IF Number(u) \in Withdrawn({Number(u)}) THEN "gone" ELSE "held"]
      /\ UNCHANGED <<attached, link, urbKind, unlinkDue, wire>>
  BY DEF HidTaken, IsNext
<1>2. /\ place'[u] = IF Number(u) \in unlinked THEN "gone" ELSE "held"
      /\ \A v \in Urb : v # u => place'[v] = place[v]
  BY <1>1 DEF UrbTyped, Withdrawn
<1>3. UrbTyped'
  <2>1. place' \in [Urb -> {"none", "queued", "held", "tx", "gone"}]
    BY <1>1 DEF UrbTyped
  <2>2. \A v \in Urb : /\ urbKind[v] = "none" <=> place'[v] = "none"
                       /\ v[1] > attached => place'[v] = "none"
    BY <1>1, <1>2 DEF UrbTyped
  <2> QED BY <1>1, <2>1, <2>2 DEF UrbTyped
<1>4. OnlyHere'
  BY <1>1 DEF OnlyHere, Here
<1>5. ASSUME link = "up", NEW v \in Urb, Here(v), Number(v) \notin mixed'
      PROVE  AnswerOk(v)'
  <2>1. /\ AnswerOk(v)
        /\ v = u => Number(v) \notin marked'
        /\ v # u => /\ Number(v) \in marked' <=> Number(v) \in marked
                    /\ Number(v) \in unlinked' <=> Number(v) \in unlinked
    <3>1. {u} \in SUBSET Urb
      OBVIOUS
    <3> QED BY <1>1, <1>5, <3>1, UnmarkKeeps
  <2>2. CASE v = u
    <3>1. Unclaimed(u)
      BY <1>1 DEF Unclaimed
    <3>2. CASE Number(u) \in unlinked
      <4>1. \/ unlinkDue[u] = "reset" /\ wire[u] = <<>>
            \/ unlinkDue[u] = "none" /\ wire[u] = Cancelled
        BY <2>1, <2>2, <3>1, <3>2 DEF AnswerOk
      <4> QED BY <1>1, <1>2, <2>1, <2>2, <3>2, <4>1 DEF AnswerOk, Unclaimed, HidHeld, Number
    <3>3. CASE Number(u) \notin unlinked
      <4>1. unlinkDue[u] = "none" /\ wire[u] = <<>>
        BY <2>1, <2>2, <3>1, <3>3 DEF AnswerOk
      <4> QED BY <1>1, <1>2, <2>1, <2>2, <3>3, <4>1 DEF AnswerOk, Unclaimed, HidHeld, Number, Audio
    <3> QED BY <3>2, <3>3
  <2>3. CASE v # u
    BY <1>1, <1>2, <2>1, <2>3, SameAnswer
  <2> QED BY <2>2, <2>3
<1> QED BY <1>1, <1>3, <1>4, <1>5 DEF Here, Number

\* It answers what it holds.
LEMMA HidAnsweredSteps ==
  ASSUME UrbInv, NEW u \in Urb, HidAnswered(u)
  PROVE  UrbInv'
<1> USE DEF UrbInv
<1>1. /\ urbKind[u] = "hid" /\ place[u] = "held" /\ place' = Leave({u}) /\ wire' = Received({u}, "submit")
      /\ UNCHANGED <<attached, link, urbKind, marked, unlinked, unlinkDue, mixed>>
  BY DEF HidAnswered
<1>2. \A v \in Urb : place'[v] = IF v = u THEN "gone" ELSE place[v]
  BY <1>1 DEF Leave
<1>3. \A v \in Urb : wire'[v] = IF v = u /\ Here(v) /\ link = "up" THEN Append(wire[v], "submit") ELSE wire[v]
  BY <1>1 DEF Received
<1>4. UrbTyped'
  <2>1. place' \in [Urb -> {"none", "queued", "held", "tx", "gone"}]
    BY <1>1 DEF Leave, UrbTyped
  <2>2. wire' \in [Urb -> Seq(Answers)]
    <3>1. \A v \in Urb : wire[v] \in Seq(Answers) /\ Append(wire[v], "submit") \in Seq(Answers)
      BY AnswerFacts DEF UrbTyped, Answers
    <3>2. \A v \in Urb : wire'[v] \in Seq(Answers)
      BY <1>3, <3>1
    <3>3. wire' = [v \in Urb |-> wire'[v]]
      BY <1>1 DEF Received
    <3> QED BY <3>2, <3>3
  <2>3. \A v \in Urb : /\ urbKind[v] = "none" <=> place'[v] = "none"
                       /\ v[1] > attached => place'[v] = "none"
    BY <1>1, <1>2 DEF UrbTyped
  <2> QED BY <1>1, <2>1, <2>2, <2>3 DEF UrbTyped
<1>5. OnlyHere'
  BY <1>1, <1>3 DEF OnlyHere, Here
<1>6. ASSUME link = "up", NEW v \in Urb, Here(v), Number(v) \notin mixed
      PROVE  AnswerOk(v)'
  <2>1. AnswerOk(v)
    BY <1>6
  <2>2. CASE v = u
    <3>1. /\ Number(u) \notin marked
          /\ \/ unlinkDue[u] = "none" /\ wire[u] \in {<<>>, Late}
             \/ unlinkDue[u] = "zero" /\ wire[u] = <<>>
      BY <1>1, <2>1, <2>2 DEF AnswerOk, HidHeld
    <3>2. wire'[u] = Append(wire[u], "submit") /\ place'[u] = "gone"
      BY <1>2, <1>3, <1>6, <2>2
    <3>3. \/ unlinkDue[u] = "none" /\ wire'[u] = Submitted
          \/ unlinkDue[u] = "none" /\ wire'[u] = LateFirst
          \/ unlinkDue[u] = "zero" /\ wire'[u] = Submitted
      BY <3>1, <3>2, AnswerFacts
    <3> QED BY <1>1, <2>2, <3>1, <3>2, <3>3 DEF AnswerOk, Unclaimed, HidHeld, Number
  <2>3. CASE v # u
    BY <1>1, <1>2, <1>3, <2>1, <2>3, SameAnswer
  <2> QED BY <2>2, <2>3
<1> QED BY <1>1, <1>4, <1>5, <1>6 DEF Here, Number

\* The TX writer answers an UNLINK.
LEMMA UnlinkSentSteps ==
  ASSUME UrbInv, NEW u \in Urb, UnlinkSent(u)
  PROVE  UrbInv'
<1> USE DEF UrbInv
<1>1. /\ unlinkDue[u] # "none" /\ unlinkDue' = [unlinkDue EXCEPT ![u] = "none"]
      /\ wire' = Received({u}, unlinkDue[u])
      /\ UNCHANGED <<attached, link, urbKind, place, marked, unlinked, mixed>>
  BY DEF UnlinkSent
<1>2. Here(u) /\ link = "up" /\ unlinkDue[u] \in Answers
  BY <1>1 DEF OnlyHere, UrbTyped, Answers
<1>3. /\ wire'[u] = Append(wire[u], unlinkDue[u]) /\ unlinkDue'[u] = "none"
      /\ \A v \in Urb : v # u => wire'[v] = wire[v] /\ unlinkDue'[v] = unlinkDue[v]
  BY <1>1, <1>2 DEF Received, UrbTyped
<1>4. UrbTyped'
  <2>1. unlinkDue' \in [Urb -> {"none", "reset", "zero"}]
    BY <1>1 DEF UrbTyped
  <2>2. wire' \in [Urb -> Seq(Answers)]
    <3>1. Append(wire[u], unlinkDue[u]) \in Seq(Answers)
      BY <1>2, AnswerFacts DEF UrbTyped
    <3>2. ASSUME NEW v \in Urb PROVE wire'[v] \in Seq(Answers)
      <4>1. CASE v = u
        BY <1>3, <3>1, <4>1
      <4>2. CASE v # u
        <5>1. wire[v] \in Seq(Answers)
          BY DEF UrbTyped
        <5> QED BY <1>3, <4>2, <5>1
      <4> QED BY <4>1, <4>2
    <3>3. wire' = [v \in Urb |-> wire'[v]]
      BY <1>1 DEF Received
    <3> QED BY <3>2, <3>3
  <2> QED BY <1>1, <2>1, <2>2 DEF UrbTyped
<1>5. OnlyHere'
  BY <1>1, <1>2, <1>3 DEF OnlyHere, Here
<1>6. ASSUME NEW v \in Urb, Here(v), Number(v) \notin mixed
      PROVE  AnswerOk(v)'
  <2>1. AnswerOk(v)
    BY <1>2, <1>6
  <2>2. CASE v = u
    <3>1. place[u] # "none"
      BY <1>1, <2>1, <2>2 DEF AnswerOk
    <3>2. ASSUME Unclaimed(u) PROVE AnswerOk(u)'
      <4>1. /\ Number(u) \in marked /\ Number(u) \in unlinked /\ unlinkDue[u] = "reset" /\ wire[u] = <<>>
            /\ place[u] # "gone" /\ ~HidHeld(u)
        BY <1>1, <2>1, <2>2, <3>2 DEF AnswerOk, Unclaimed, HidHeld, Audio
      <4>2. wire'[u] = Cancelled
        BY <1>3, <4>1, AnswerFacts
      <4> QED BY <1>1, <1>3, <3>1, <4>1, <4>2 DEF AnswerOk, Unclaimed, HidHeld, Number
    <3>3. ASSUME HidHeld(u) PROVE AnswerOk(u)'
      <4>1. /\ Number(u) \notin marked /\ unlinkDue[u] = "zero" /\ wire[u] = <<>>
            /\ place[u] # "gone" /\ ~Unclaimed(u)
        BY <1>1, <2>1, <2>2, <3>3 DEF AnswerOk, Unclaimed, HidHeld, Audio
      <4>2. wire'[u] = Late
        BY <1>3, <4>1, AnswerFacts
      <4> QED BY <1>1, <1>3, <3>1, <4>1, <4>2 DEF AnswerOk, Unclaimed, HidHeld, Number
    <3>4. ASSUME place[u] = "gone" PROVE AnswerOk(u)'
      <4>1. /\ Number(u) \notin marked /\ ~HidHeld(u) /\ ~Unclaimed(u)
            /\ \/ unlinkDue[u] = "reset" /\ wire[u] = <<>>
               \/ unlinkDue[u] = "zero" /\ wire[u] = Submitted
        BY <1>1, <2>1, <2>2, <3>4 DEF AnswerOk, Unclaimed, HidHeld
      <4>2. wire'[u] \in {Cancelled, ThenLate}
        BY <1>3, <4>1, AnswerFacts
      <4> QED BY <1>1, <1>3, <3>4, <4>1, <4>2 DEF AnswerOk, Unclaimed, HidHeld, Number
    <3>5. Unclaimed(u) \/ HidHeld(u) \/ place[u] = "gone"
      BY <3>1 DEF UrbTyped, Unclaimed, HidHeld, Audio
    <3> QED BY <2>2, <3>2, <3>3, <3>4, <3>5
  <2>3. CASE v # u
    BY <1>1, <1>3, <2>1, <2>3, SameAnswer
  <2> QED BY <2>2, <2>3
<1> QED BY <1>1, <1>4, <1>5, <1>6 DEF Here, Number

\* The connection breaks, its end is noticed, and another is made.
LEMMA LinkSteps ==
  ASSUME UrbInv, LinkBreaks \/ DeathNoticed \/ Attaches
  PROVE  UrbInv'
<1> USE DEF UrbInv
<1>1. CASE LinkBreaks
  <2>1. /\ link' = "broken" /\ unlinkDue' = [u \in Urb |-> "none"] /\ wire' = [u \in Urb |-> <<>>]
        /\ UNCHANGED <<attached, urbKind, place, marked, unlinked, mixed>>
    BY <1>1 DEF LinkBreaks
  <2>2. UrbTyped'
    <3>1. wire' \in [Urb -> Seq(Answers)] /\ unlinkDue' \in [Urb -> {"none", "reset", "zero"}]
      BY <2>1, AnswerFacts
    <3> QED BY <2>1, <3>1 DEF UrbTyped
  <2> QED BY <2>1, <2>2 DEF OnlyHere
<1>2. CASE DeathNoticed
  <2>1. /\ link = "broken" /\ link' = "dead" /\ place' = Leave(AudioWaiting)
        /\ UNCHANGED <<attached, urbKind, unlinkDue, wire>>
    BY <1>2 DEF DeathNoticed
  <2>2. \A u \in AudioWaiting : place[u] # "none"
    BY DEF AudioWaiting, QueuedOf, InTxOf
  <2>3. \A u \in Urb : place'[u] = IF u \in AudioWaiting THEN "gone" ELSE place[u]
    BY <2>1 DEF Leave
  <2>4. UrbTyped'
    <3>1. place' \in [Urb -> {"none", "queued", "held", "tx", "gone"}]
      BY <2>1 DEF Leave, UrbTyped
    <3>2. \A u \in Urb : /\ urbKind[u] = "none" <=> place'[u] = "none"
                         /\ u[1] > attached => place'[u] = "none"
      BY <2>2, <2>3 DEF UrbTyped
    <3> QED BY <2>1, <3>1, <3>2 DEF UrbTyped
  <2>5. OnlyHere'
    BY <2>1 DEF OnlyHere, Here
  <2> QED BY <2>1, <2>4, <2>5
<1>3. CASE Attaches
  <2> DEFINE left == {u \in Urb : place[u] \in {"queued", "held"}} \ AudioWaiting
  <2>1. /\ link \in {"off", "dead"} /\ attached' = attached + 1 /\ link' = "up"
        /\ urbKind' = [u \in Urb |-> IF u \in left THEN urbKind[u] ELSE "none"]
        /\ place' = [u \in Urb |-> IF u \in left THEN place[u] ELSE "none"]
        /\ marked' = {} /\ unlinked' = {} /\ mixed' = {} /\ UNCHANGED <<unlinkDue, wire>>
    BY <1>3 DEF Attaches
  <2>2. \A u \in Urb : /\ urbKind'[u] = IF u \in left THEN urbKind[u] ELSE "none"
                       /\ place'[u] = IF u \in left THEN place[u] ELSE "none"
    BY <2>1
  <2>3. \A u \in left : place[u] # "none"
    OBVIOUS
  <2> HIDE DEF left
  <2>4. \A u \in Urb : u[1] \in Nat
    <3> SUFFICES ASSUME NEW u \in Urb PROVE u[1] \in Nat
      OBVIOUS
    <3>1. PICK a \in 1 .. Attachments : u \in {a} \X (1 .. Requests[a])
      BY DEF Urb
    <3> QED BY <3>1
  <2>5. \A u \in Urb : u[1] >= attached' => place'[u] = "none"
    <3>1. attached \in Nat
      BY DEF UrbTyped
    <3>2. \A u \in Urb : u[1] >= attached' => u[1] > attached
      BY <2>1, <2>4, <3>1
    <3> QED BY <2>2, <2>3, <3>2 DEF UrbTyped
  <2>6. UrbTyped'
    <3>1. urbKind' \in [Urb -> {"none", "hid", "out", "mic"}]
          /\ place' \in [Urb -> {"none", "queued", "held", "tx", "gone"}]
      BY <2>1 DEF UrbTyped
    <3>2. \A u \in Urb : urbKind'[u] = "none" <=> place'[u] = "none"
      BY <2>2 DEF UrbTyped
    <3>3. \A u \in Urb : u[1] > attached' => place'[u] = "none"
      BY <2>1, <2>4, <2>5 DEF UrbTyped
    <3>4. attached' \in Nat
      BY <2>1 DEF UrbTyped
    <3> QED BY <2>1, <3>1, <3>2, <3>3, <3>4 DEF UrbTyped
  <2>7. \A u \in Urb : wire'[u] = <<>> /\ unlinkDue'[u] = "none"
    BY <2>1 DEF OnlyHere
  <2>8. ASSUME NEW u \in Urb, Here(u)' PROVE AnswerOk(u)'
    <3>1. place'[u] = "none"
      BY <2>4, <2>5, <2>8 DEF Here
    <3> QED BY <2>1, <2>7, <3>1 DEF AnswerOk, Unclaimed, HidHeld
  <2> QED BY <2>6, <2>7, <2>8 DEF OnlyHere
<1> QED BY <1>1, <1>2, <1>3

\* The invariant holds when the program starts.
LEMMA UrbStarts == UrbInit => UrbInv
<1> SUFFICES ASSUME UrbInit PROVE UrbInv
  OBVIOUS
<1>1. UrbTyped
  BY AnswerFacts DEF UrbInit, UrbTyped
<1>2. OnlyHere
  BY DEF UrbInit, OnlyHere
<1> QED BY <1>1, <1>2 DEF UrbInit, UrbInv

\* Every step keeps the invariant.
LEMMA UrbSteps == UrbInv /\ [UrbNext]_urbVars => UrbInv'
<1> SUFFICES ASSUME UrbInv, [UrbNext]_urbVars PROVE UrbInv'
  OBVIOUS
<1>1. ASSUME NEW u \in Urb, NEW k \in {"hid", "out", "mic"}, UrbSubmitted(u, k) PROVE UrbInv'
  BY <1>1, UrbSubmittedSteps
<1>2. ASSUME NEW k \in Audio, NEW clear \in BOOLEAN, StreamReset(k, clear) PROVE UrbInv'
  <2>1. QueuedOf(k) \subseteq Urb /\ QueuedOf(k) \cup InTxOf(k) \subseteq Urb
    BY DEF QueuedOf, InTxOf
  <2>2. \A u \in QueuedOf(k) \cup InTxOf(k) : Unclaimed(u) /\ urbKind[u] \in Audio
    BY <1>2 DEF QueuedOf, InTxOf, Unclaimed
  <2>3. CompletesQueue(k, clear) /\ UNCHANGED <<attached, link, urbKind, unlinkDue>>
    BY <1>2 DEF StreamReset
  <2>4. CASE k = "out"
    BY <2>1, <2>2, <2>3, <2>4, ClaimSteps DEF CompletesQueue
  <2>5. CASE k # "out" /\ clear
    BY <2>1, <2>2, <2>3, <2>5, ClaimSteps DEF CompletesQueue
  <2>6. CASE k # "out" /\ ~clear
    <3>1. /\ place' = [u \in Urb |-> IF u \in QueuedOf(k) THEN "tx" ELSE place[u]]
          /\ UNCHANGED <<marked, unlinked, wire, mixed>>
      BY <2>3, <2>6 DEF CompletesQueue
    <3> QED BY <2>1, <2>2, <2>3, <3>1, MoveSteps
  <2> QED BY <2>4, <2>5, <2>6
<1>3. ASSUME NEW u \in Urb, AudioTaken(u) PROVE UrbInv'
  <2>1. /\ Unclaimed(u) /\ urbKind[u] \in Audio /\ place' = [place EXCEPT ![u] = "held"]
        /\ UNCHANGED <<attached, link, urbKind, marked, unlinked, unlinkDue, wire, mixed>>
    BY <1>3 DEF AudioTaken, IsNext, Unclaimed
  <2>2. place' = [v \in Urb |-> IF v \in {u} THEN "held" ELSE place[v]]
    BY <2>1 DEF UrbInv, UrbTyped
  <2>3. {u} \in SUBSET Urb
    OBVIOUS
  <2> QED BY <2>1, <2>2, <2>3, MoveSteps
<1>4. ASSUME NEW u \in Urb, OutAnswered(u) \/ MicQueued(u) \/ MicSent(u) PROVE UrbInv'
  <2>1. Unclaimed(u) /\ urbKind[u] \in Audio /\ UNCHANGED <<attached, link, urbKind, unlinkDue>>
    BY <1>4 DEF OutAnswered, MicQueued, MicSent, Unclaimed, Audio
  <2>2. {u} \in SUBSET Urb
    OBVIOUS
  <2>3. CASE ClaimAndSend({u})
    BY <2>1, <2>2, <2>3, ClaimSteps
  <2>4. CASE place' = [place EXCEPT ![u] = "tx"] /\ UNCHANGED <<marked, unlinked, wire, mixed>>
    <3>1. place' = [v \in Urb |-> IF v \in {u} THEN "tx" ELSE place[v]]
      BY <2>4 DEF UrbInv, UrbTyped
    <3> QED BY <2>1, <2>2, <2>4, <3>1, MoveSteps
  <2> QED BY <1>4, <2>3, <2>4 DEF OutAnswered, MicQueued, MicSent
<1>5. ASSUME NEW u \in Urb, UrbUnlinked(u) \/ HidTaken(u) \/ HidAnswered(u) \/ UnlinkSent(u) PROVE UrbInv'
  BY <1>5, UrbUnlinkedSteps, HidTakenSteps, HidAnsweredSteps, UnlinkSentSteps
<1>6. CASE LinkBreaks \/ DeathNoticed \/ Attaches
  BY <1>6, LinkSteps
<1>7. CASE UNCHANGED urbVars
  BY <1>7 DEF urbVars, UrbInv, UrbTyped, OnlyHere, AnswerOk, Unclaimed, HidHeld, Here, Number
<1> QED BY <1>1, <1>2, <1>3, <1>4, <1>5, <1>6, <1>7 DEF UrbNext

LEMMA UrbShows == UrbInv => AnsweredOnce
<1> SUFFICES ASSUME UrbInv, NEW u \in Urb, ~(Here(u) /\ Number(u) \in mixed)
             PROVE  /\ \A i, j \in Index(u, {"submit"}) : i = j
                    /\ \A i \in Index(u, IF urbKind[u] \in Audio THEN {"reset", "zero"} ELSE {"reset"}),
                          j \in Index(u, {"submit"}) : j < i /\ wire[u][i] = "zero"
                    /\ Here(u) /\ link = "up" /\ place[u] = "gone" =>
                         wire[u] # <<>> \/ unlinkDue[u] = "reset"
  BY DEF AnsweredOnce
<1>1. CASE ~(Here(u) /\ link = "up")
  <2>1. wire[u] = <<>>
    BY <1>1 DEF UrbInv, OnlyHere
  <2>2. \A A : Index(u, A) = {}
    BY <2>1, AnswerFacts DEF Index
  <2> QED BY <1>1, <2>2
<1>2. CASE Here(u) /\ link = "up"
  <2>1. AnswerOk(u)
    BY <1>2 DEF UrbInv
  <2>2. \/ wire[u] \in {<<>>, Submitted, Cancelled, Late, ThenLate}
        \/ wire[u] = LateFirst /\ urbKind[u] = "hid"
    BY <2>1 DEF AnswerOk, UrbInv, UrbTyped, Unclaimed, HidHeld, Audio
  <2>3. \A i, j \in Index(u, {"submit"}) : i = j
    BY <2>2, AnswerFacts DEF Index
  <2>4. \A i \in Index(u, IF urbKind[u] \in Audio THEN {"reset", "zero"} ELSE {"reset"}),
           j \in Index(u, {"submit"}) : j < i /\ wire[u][i] = "zero"
    <3>1. CASE wire[u] \in {<<>>, Submitted, Cancelled, Late}
      BY <3>1, AnswerFacts DEF Index
    <3>2. CASE wire[u] = ThenLate
      <4>1. Index(u, {"submit"}) \subseteq {1} /\ Index(u, {"reset"}) = {} /\ Index(u, {"reset", "zero"}) \subseteq {2}
        BY <3>2, AnswerFacts DEF Index
      <4>2. 1 < 2 /\ wire[u][2] = "zero"
        BY <3>2, AnswerFacts
      <4> QED BY <4>1, <4>2
    <3>3. CASE wire[u] = LateFirst /\ urbKind[u] = "hid"
      <4>1. urbKind[u] \notin Audio /\ Index(u, {"reset"}) = {}
        BY <3>3, AnswerFacts DEF Index, Audio
      <4> QED BY <4>1
    <3> QED BY <2>2, <3>1, <3>2, <3>3
  <2>5. place[u] = "gone" => wire[u] # <<>> \/ unlinkDue[u] = "reset"
    BY <2>1, AnswerFacts DEF AnswerOk
  <2> QED BY <2>3, <2>4, <2>5
<1> QED BY <1>1, <1>2

\* The host was told that the request is withdrawn.
Told(answers) == \E i \in DOMAIN answers : answers[i] # "submit"

\* A request is claimed once, and its withdrawal is answered once, whatever its marks say.
Short(u) ==
  /\ Len(wire[u]) <= (IF place[u] = "gone" THEN 1 ELSE 0) + (IF Told(wire[u]) THEN 1 ELSE 0)
  /\ Told(wire[u]) => unlinkDue[u] = "none"

Numbers == {Number(u) : u \in Urb}

ShortInv == marked \cup unlinked \cup mixed \subseteq Numbers /\ \A u \in Urb : Short(u)

LEMMA ToldMore ==
  /\ ~Told(<<>>) /\ Len(<<>>) = 0
  /\ \A s \in Seq(Answers), x \in Answers :
       /\ Len(s) \in Nat /\ Len(Append(s, x)) = Len(s) + 1
       /\ Told(Append(s, x)) <=> Told(s) \/ x # "submit"
<1>1. ~Told(<<>>) /\ Len(<<>>) = 0
  BY DEF Told
<1>2. ASSUME NEW s \in Seq(Answers), NEW x \in Answers
      PROVE  /\ Len(s) \in Nat /\ Len(Append(s, x)) = Len(s) + 1
             /\ Told(Append(s, x)) <=> Told(s) \/ x # "submit"
  <2> DEFINE t == Append(s, x)
  <2>1. /\ Len(s) \in Nat /\ Len(t) = Len(s) + 1 /\ t[Len(s) + 1] = x
        /\ \A i \in 1 .. Len(s) : t[i] = s[i]
        /\ DOMAIN s = 1 .. Len(s) /\ DOMAIN t = 1 .. (Len(s) + 1)
    OBVIOUS
  <2> HIDE DEF t
  <2>2. \A i \in 1 .. (Len(s) + 1) : i \in 1 .. Len(s) \/ i = Len(s) + 1
    BY <2>1
  <2>3. Len(s) + 1 \in 1 .. (Len(s) + 1) /\ \A i \in 1 .. Len(s) : i \in 1 .. (Len(s) + 1)
    BY <2>1
  <2>4. Told(t) <=> Told(s) \/ x # "submit"
    BY <2>1, <2>2, <2>3 DEF Told
  <2> QED BY <2>1, <2>4 DEF t
<1> QED BY <1>1, <1>2

\* What a step may do to one request.
LEMMA ShortKept ==
  ASSUME UrbTyped, NEW u \in Urb, Short(u),
         \/ /\ wire'[u] = wire[u] /\ (place[u] = "gone" => place'[u] = "gone")
            /\ unlinkDue'[u] \in {"none", unlinkDue[u]}
         \/ wire'[u] = wire[u] /\ place'[u] = place[u] /\ ~Told(wire[u])
         \/ /\ wire'[u] = Append(wire[u], "submit") /\ place[u] # "gone" /\ place'[u] = "gone"
            /\ unlinkDue'[u] = unlinkDue[u]
         \/ /\ unlinkDue[u] # "none" /\ wire'[u] = Append(wire[u], unlinkDue[u]) /\ unlinkDue'[u] = "none"
            /\ place'[u] = place[u]
         \/ wire'[u] = <<>>
  PROVE  Short(u)'
<1>1. /\ wire[u] \in Seq(Answers) /\ Len(wire[u]) \in Nat
      /\ unlinkDue[u] \in {"none", "reset", "zero"} /\ "submit" \in Answers
      /\ unlinkDue[u] # "none" => unlinkDue[u] \in Answers /\ unlinkDue[u] # "submit"
  BY ToldMore DEF UrbTyped, Answers
<1> DEFINE ended == IF place[u] = "gone" THEN 1 ELSE 0
           over == IF Told(wire[u]) THEN 1 ELSE 0
<1>2. Len(wire[u]) <= ended + over /\ (Told(wire[u]) => unlinkDue[u] = "none")
  BY DEF Short
<1>3. ended \in {0, 1} /\ over \in {0, 1}
  OBVIOUS
<1>4. CASE wire'[u] = wire[u] /\ (place[u] = "gone" => place'[u] = "gone") /\ unlinkDue'[u] \in {"none", unlinkDue[u]}
  BY <1>1, <1>2, <1>4 DEF Short
<1>5. CASE wire'[u] = wire[u] /\ place'[u] = place[u] /\ ~Told(wire[u])
  BY <1>1, <1>2, <1>5 DEF Short
<1>6. CASE /\ wire'[u] = Append(wire[u], "submit") /\ place[u] # "gone" /\ place'[u] = "gone"
           /\ unlinkDue'[u] = unlinkDue[u]
  <2>1. Len(wire'[u]) = Len(wire[u]) + 1 /\ (Told(wire'[u]) <=> Told(wire[u]))
    BY <1>1, <1>6, ToldMore
  <2> QED BY <1>1, <1>2, <1>6, <2>1 DEF Short
<1>7. CASE /\ unlinkDue[u] # "none" /\ wire'[u] = Append(wire[u], unlinkDue[u]) /\ unlinkDue'[u] = "none"
           /\ place'[u] = place[u]
  <2>1. Len(wire'[u]) = Len(wire[u]) + 1 /\ Told(wire'[u]) /\ ~Told(wire[u])
    BY <1>1, <1>2, <1>7, ToldMore
  <2> QED BY <1>1, <1>2, <1>7, <2>1 DEF Short
<1>8. CASE wire'[u] = <<>>
  BY <1>8, ToldMore DEF Short
<1> QED BY <1>4, <1>5, <1>6, <1>7, <1>8

\* Claims leave only marks that were there, and answer what was not gone.
LEMMA ShortClaim ==
  ASSUME UrbInv, ShortInv, NEW U \in SUBSET Urb, \A v \in U : place[v] # "gone", ClaimAndSend(U), UNCHANGED unlinkDue
  PROVE  ShortInv'
<1>1. Unmark(U) /\ place' = Leave(U) /\ wire' = Received(Answerable(U), "submit")
  BY DEF ClaimAndSend
<1>2. (marked \cup unlinked \cup mixed)' \subseteq Numbers
  BY <1>1 DEF Unmark, ShortInv, Numbers
<1>3. ASSUME NEW u \in Urb PROVE Short(u)'
  <2>1. place'[u] = IF u \in U THEN "gone" ELSE place[u]
    BY <1>1 DEF Leave
  <2>2. /\ wire'[u] = wire[u] \/ (u \in U /\ wire'[u] = Append(wire[u], "submit"))
        /\ unlinkDue'[u] = unlinkDue[u]
    BY <1>1 DEF Received, Answerable
  <2> QED BY <2>1, <2>2, ShortKept DEF UrbInv, ShortInv
<1> QED BY <1>2, <1>3 DEF ShortInv, Numbers

LEMMA ShortSteps == UrbInv /\ ShortInv /\ [UrbNext]_urbVars => ShortInv'
<1> SUFFICES ASSUME UrbInv, ShortInv, [UrbNext]_urbVars PROVE ShortInv'
  OBVIOUS
<1> DEFINE marks == marked \cup unlinked \cup mixed
<1>1. UrbTyped /\ marks \subseteq Numbers /\ (\A u \in Urb : Short(u)) /\ \A u \in Urb : Number(u) \in Numbers
  BY DEF UrbInv, ShortInv, Numbers
<1>2. ASSUME marks' \subseteq Numbers, \A u \in Urb : Short(u)' PROVE ShortInv'
  BY <1>2 DEF ShortInv, Numbers, Number
<1>3. ASSUME NEW u \in Urb, NEW k \in {"hid", "out", "mic"}, UrbSubmitted(u, k) PROVE ShortInv'
  <2>1. /\ urbKind[u] = "none" /\ place' = [place EXCEPT ![u] = "queued"] /\ marked' = marked \cup {Number(u)}
        /\ UNCHANGED <<unlinked, unlinkDue, wire, mixed>>
    BY <1>3 DEF UrbSubmitted
  <2>2. place[u] = "none"
    BY <1>1, <2>1 DEF UrbTyped
  <2>3. ASSUME NEW v \in Urb PROVE Short(v)'
    <3>1. place[v] = "gone" => place'[v] = "gone"
      BY <1>1, <2>1, <2>2 DEF UrbTyped
    <3> QED BY <1>1, <2>1, <3>1, ShortKept
  <2> QED BY <1>1, <1>2, <2>1, <2>3
<1>4. ASSUME NEW u \in Urb, UrbUnlinked(u) PROVE ShortInv'
  <2>1. /\ \A i \in DOMAIN wire[u] : wire[u][i] = "submit"
        /\ \E x : unlinkDue' = [unlinkDue EXCEPT ![u] = x]
        /\ unlinked' \subseteq unlinked \cup {Number(u)} /\ UNCHANGED <<place, marked, wire, mixed>>
    BY <1>4 DEF UrbUnlinked
  <2>2. ASSUME NEW v \in Urb PROVE Short(v)'
    <3>1. CASE v = u
      <4>1. ~Told(wire[u])
        BY <2>1 DEF Told
      <4> QED BY <1>1, <2>1, <3>1, <4>1, ShortKept
    <3>2. CASE v # u
      <4>1. unlinkDue'[v] = unlinkDue[v]
        BY <1>1, <2>1, <3>2 DEF UrbTyped
      <4> QED BY <1>1, <2>1, <4>1, ShortKept
    <3> QED BY <3>1, <3>2
  <2> QED BY <1>1, <1>2, <2>1, <2>2
<1>5. ASSUME NEW k \in Audio, NEW clear \in BOOLEAN, StreamReset(k, clear) PROVE ShortInv'
  <2>1. CompletesQueue(k, clear) /\ UNCHANGED unlinkDue
    BY <1>5 DEF StreamReset
  <2>2. /\ QueuedOf(k) \subseteq Urb /\ QueuedOf(k) \cup InTxOf(k) \subseteq Urb
        /\ \A u \in QueuedOf(k) \cup InTxOf(k) : place[u] # "gone"
    BY DEF QueuedOf, InTxOf
  <2>3. CASE ClaimAndSend(QueuedOf(k))
    BY <2>1, <2>2, <2>3, ShortClaim
  <2>4. CASE ClaimAndSend(QueuedOf(k) \cup InTxOf(k))
    BY <2>1, <2>2, <2>4, ShortClaim
  <2>5. CASE /\ place' = [u \in Urb |-> IF u \in QueuedOf(k) THEN "tx" ELSE place[u]]
             /\ UNCHANGED <<marked, unlinked, wire, mixed>>
    <3>1. ASSUME NEW u \in Urb PROVE Short(u)'
      <4>1. place[u] = "gone" => place'[u] = "gone"
        BY <2>2, <2>5
      <4> QED BY <1>1, <2>1, <2>5, <4>1, ShortKept
    <3> QED BY <1>1, <1>2, <2>5, <3>1
  <2> QED BY <2>1, <2>3, <2>4, <2>5 DEF CompletesQueue
<1>6. ASSUME NEW u \in Urb, HidTaken(u) PROVE ShortInv'
  <2>1. /\ place[u] = "queued" /\ Unmark({u}) /\ UNCHANGED <<unlinkDue, wire>>
        /\ \E x : place' = [place EXCEPT ![u] = x]
    BY <1>6 DEF HidTaken, IsNext
  <2>2. marks' \subseteq Numbers
    BY <1>1, <2>1 DEF Unmark
  <2>3. ASSUME NEW v \in Urb PROVE Short(v)'
    <3>1. place[v] = "gone" => place'[v] = "gone"
      BY <1>1, <2>1 DEF UrbTyped
    <3> QED BY <1>1, <2>1, <3>1, ShortKept
  <2> QED BY <1>2, <2>2, <2>3
<1>7. ASSUME NEW u \in Urb, HidAnswered(u) PROVE ShortInv'
  <2>1. /\ place[u] = "held" /\ place' = Leave({u}) /\ wire' = Received({u}, "submit")
        /\ UNCHANGED <<marked, unlinked, unlinkDue, mixed>>
    BY <1>7 DEF HidAnswered
  <2>2. ASSUME NEW v \in Urb PROVE Short(v)'
    <3>1. place'[v] = IF v = u THEN "gone" ELSE place[v]
      BY <2>1 DEF Leave
    <3>2. wire'[v] = wire[v] \/ (v = u /\ wire'[v] = Append(wire[v], "submit"))
      BY <2>1 DEF Received
    <3> QED BY <1>1, <2>1, <3>1, <3>2, ShortKept
  <2> QED BY <1>1, <1>2, <2>1, <2>2
<1>8. ASSUME NEW u \in Urb, AudioTaken(u) PROVE ShortInv'
  <2>1. /\ place[u] = "queued" /\ place' = [place EXCEPT ![u] = "held"]
        /\ UNCHANGED <<marked, unlinked, unlinkDue, wire, mixed>>
    BY <1>8 DEF AudioTaken, IsNext
  <2>2. ASSUME NEW v \in Urb PROVE Short(v)'
    <3>1. place[v] = "gone" => place'[v] = "gone"
      BY <1>1, <2>1 DEF UrbTyped
    <3> QED BY <1>1, <2>1, <3>1, ShortKept
  <2> QED BY <1>1, <1>2, <2>1, <2>2
<1>9. ASSUME NEW u \in Urb, OutAnswered(u) \/ MicQueued(u) \/ MicSent(u) PROVE ShortInv'
  <2>1. /\ place[u] \in {"held", "tx"} /\ UNCHANGED unlinkDue
        /\ \/ ClaimAndSend({u})
           \/ place' = [place EXCEPT ![u] = "tx"] /\ UNCHANGED <<marked, unlinked, wire, mixed>>
    BY <1>9 DEF OutAnswered, MicQueued, MicSent
  <2>2. CASE ClaimAndSend({u})
    <3>1. {u} \in SUBSET Urb /\ \A v \in {u} : place[v] # "gone"
      BY <2>1
    <3> QED BY <2>1, <2>2, <3>1, ShortClaim
  <2>3. CASE place' = [place EXCEPT ![u] = "tx"] /\ UNCHANGED <<marked, unlinked, wire, mixed>>
    <3>1. ASSUME NEW v \in Urb PROVE Short(v)'
      <4>1. place[v] = "gone" => place'[v] = "gone"
        BY <1>1, <2>1, <2>3 DEF UrbTyped
      <4> QED BY <1>1, <2>1, <2>3, <4>1, ShortKept
    <3> QED BY <1>1, <1>2, <2>3, <3>1
  <2> QED BY <2>1, <2>2, <2>3
<1>10. ASSUME NEW u \in Urb, UnlinkSent(u) PROVE ShortInv'
  <2>1. /\ unlinkDue[u] # "none" /\ unlinkDue' = [unlinkDue EXCEPT ![u] = "none"]
        /\ wire' = Received({u}, unlinkDue[u]) /\ UNCHANGED <<place, marked, unlinked, mixed>>
    BY <1>10 DEF UnlinkSent
  <2>2. ASSUME NEW v \in Urb PROVE Short(v)'
    <3>1. unlinkDue'[v] = IF v = u THEN "none" ELSE unlinkDue[v]
      BY <1>1, <2>1 DEF UrbTyped
    <3>2. wire'[v] = wire[v] \/ (v = u /\ wire'[v] = Append(wire[v], unlinkDue[v]))
      BY <2>1 DEF Received
    <3> QED BY <1>1, <2>1, <3>1, <3>2, ShortKept
  <2> QED BY <1>1, <1>2, <2>1, <2>2
<1>11. CASE LinkBreaks
  <2>1. wire' = [u \in Urb |-> <<>>] /\ UNCHANGED <<marked, unlinked, mixed>>
    BY <1>11 DEF LinkBreaks
  <2>2. \A u \in Urb : Short(u)'
    BY <1>1, <2>1, ShortKept
  <2> QED BY <1>1, <1>2, <2>1, <2>2
<1>12. CASE DeathNoticed
  <2>1. Unmark(AudioWaiting) /\ place' = Leave(AudioWaiting) /\ UNCHANGED <<unlinkDue, wire>>
    BY <1>12 DEF DeathNoticed
  <2>2. marks' \subseteq Numbers
    <3>1. AudioWaiting \subseteq Urb
      BY DEF AudioWaiting, QueuedOf, InTxOf
    <3> QED BY <1>1, <2>1, <3>1 DEF Unmark
  <2>3. ASSUME NEW u \in Urb PROVE Short(u)'
    <3>1. place[u] = "gone" => place'[u] = "gone"
      BY <2>1 DEF Leave
    <3> QED BY <1>1, <2>1, <3>1, ShortKept
  <2> QED BY <1>2, <2>2, <2>3
<1>13. CASE Attaches
  <2>1. link \in {"off", "dead"} /\ marked' = {} /\ unlinked' = {} /\ mixed' = {} /\ UNCHANGED <<unlinkDue, wire>>
    BY <1>13 DEF Attaches
  <2>2. \A u \in Urb : wire'[u] = <<>>
    BY <2>1 DEF UrbInv, OnlyHere
  <2>3. \A u \in Urb : Short(u)'
    BY <1>1, <2>2, ShortKept
  <2> QED BY <1>2, <2>1, <2>3
<1>14. CASE UNCHANGED urbVars
  <2>1. UNCHANGED <<place, marked, unlinked, unlinkDue, wire, mixed>>
    BY <1>14 DEF urbVars
  <2>2. \A u \in Urb : Short(u)'
    BY <1>1, <2>1, ShortKept
  <2> QED BY <1>1, <1>2, <2>1, <2>2
<1> QED BY <1>3, <1>4, <1>5, <1>6, <1>7, <1>8, <1>9, <1>10, <1>11, <1>12, <1>13, <1>14 DEF UrbNext

\* UrbTypeOK: the host is told two things of a request at most, its answer and that of its
\* withdrawal, also where the marks of its number were taken.
THEOREM UrbTypeCorrect == UrbSpec => []UrbTypeOK
<1>1. UrbInit => ShortInv
  BY ToldMore DEF UrbInit, ShortInv, Short
<1>2. UrbInv /\ ShortInv => UrbTypeOK
  <2> SUFFICES ASSUME UrbInv, ShortInv PROVE UrbTypeOK
    OBVIOUS
  <2>1. ASSUME NEW u \in Urb PROVE Len(wire[u]) <= 2
    <3>1. Len(wire[u]) \in Nat /\ Short(u)
      BY ToldMore DEF UrbInv, UrbTyped, ShortInv
    <3> QED BY <3>1 DEF Short
  <2>2. \A u \in Urb : (urbKind[u] = "none") = (place[u] = "none")
    <3> SUFFICES ASSUME NEW u \in Urb PROVE urbKind[u] = "none" <=> place[u] = "none"
      OBVIOUS
    <3> QED BY DEF UrbInv, UrbTyped
  <2> QED BY <2>1, <2>2 DEF UrbInv, UrbTyped, ShortInv, Numbers, UrbTypeOK
<1> QED BY <1>1, <1>2, ShortSteps, UrbStarts, UrbSteps, PTL DEF UrbSpec

\* Whatever requests the host makes in each connection: each is answered once, and none that
\* is gone was lost.
THEOREM CompletedOnce == UrbSpec => []OneCompletion
<1>1. UrbInv /\ UrbTypeOK => OneCompletion
  BY UrbShows DEF OneCompletion
<1> QED BY <1>1, UrbStarts, UrbSteps, UrbTypeCorrect, PTL DEF UrbSpec

=============================================================================
