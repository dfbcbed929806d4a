------------------------------ MODULE MCDevices ------------------------------
(***************************************************************************)
(* One run for what the devices do: the wired route (MCWiredRoute), and,   *)
(* sharing no state with it or with each other, the input reports of a     *)
(* controller as keys and layers, its sticks, and its rumble scheduler.    *)
(* A behaviour picks one of them and leaves the others as they start.      *)
(***************************************************************************)
EXTENDS MCWiredRoute, InputMapping, RumbleScheduler, StickMapping

VARIABLE part   \* the part of the program that moves

Parts == {"wired", "mapping", "scheduler", "sticks"}

(* InputMapping: layouts of two profiles and three buttons *)
Act(kind, tapped, keys) == [kind |-> kind, tap |-> tapped, keys |-> keys]
Pad == Act("pad", FALSE, {})
Maps(a, b, x) == [n \in Btn |-> CASE n = "A" -> a [] n = "B" -> b [] n = "X" -> x]
Two(base, shifted) == [l \in Layer |-> IF l = "base" THEN base ELSE shifted]
Plain(base) == Two(base, Maps(Pad, Pad, Pad))
Both(p1, p2) == [p \in Profile |-> IF p = "p1" THEN p1 ELSE p2]
NoCombo == Both({}, {})

\* Held and tapped keys on one button over two layers, while the focus switches profiles
Layers == [maps |-> Both(Two(Maps(Pad, Act("shift", TRUE, {}), Act("keys", FALSE, {"K1", "K2"})),
                             Maps(Pad, Pad, Act("keys", TRUE, {"K2"}))),
                         Plain(Maps(Pad, Pad, Act("keys", TRUE, {"K1"})))),
           shifts |-> {}, trigger |-> {}, combo |-> NoCombo, focus |-> Profile]
\* Gyro, gyro lock and mode shift
Gyro == [maps |-> Both(Two(Maps(Pad, Act("gyro", TRUE, {"K1"}), Act("shift", FALSE, {})),
                           Maps(Pad, Act("gyro", FALSE, {"K2"}), Pad)),
                       Two(Maps(Act("gyro", TRUE, {}), Act("lock", TRUE, {}), Pad),
                           Maps(Act("gyro", TRUE, {}), Pad, Act("lock", FALSE, {})))),
         shifts |-> {"p1"}, trigger |-> {}, combo |-> NoCombo, focus |-> Profile]
\* The manual selection, opened by a button
Choosing == [maps |-> Both(Plain(Maps(Pad, Pad, Act("profile", FALSE, {}))),
                           Plain(Maps(Pad, Act("keys", FALSE, {"K1"}), Act("profile", FALSE, {})))),
             shifts |-> {}, trigger |-> {}, combo |-> NoCombo, focus |-> {}]
\* Combos that switch the profile
Combos == [maps |-> Both(Plain(Maps(Pad, Act("keys", FALSE, {"K1"}), Pad)),
                         Plain(Maps(Act("keys", FALSE, {"K2"}), Pad, Act("profile", FALSE, {})))),
           shifts |-> {}, trigger |-> {"B"}, combo |-> Both({"A"}, {"X"}), focus |-> {}]
MCLayouts == {Layers, Gyro, Choosing, Combos}

(* StickMapping: a stick with three sectors whose two layers map keys twice, or keys and
   the mouse *)
Unmapped == [d \in Direction |-> {}]
On(d, t) == [Unmapped EXCEPT ![d] = t]
Mapping(m, h, t) == [mode |-> m, hold |-> h, tap |-> t]
MCDirsOf == [s \in Sector |-> IF s = "up_left" THEN {"up", "left"} ELSE {s}]
Keys1 == Mapping("Custom", On("up", {"K1", "P1"}), On("left", {"P1"}))
Keys2 == Mapping("Custom", On("left", {"K1"}), On("up", {"K2"}))
Mouse == Mapping("Mouse", Unmapped, Unmapped)
MCStickSettings ==
  {[k \in Stick |-> Two(b[1], b[2])] : b \in {<<Keys1, Keys2>>, <<Keys2, Mouse>>}}

\* A part that is not picked starts in one way only.
OneWay ==
  /\ part = "wired" \/ Seated(0)
  /\ part = "mapping" \/ (layout = Layers /\ profile = "p1")
  /\ IF part = "scheduler" THEN saving = "Off" => link = "usb"
                           ELSE saving = "Off" /\ link = "usb"
  /\ part = "sticks" \/ stickSetting["l_joystick"]["shifted"] = Mouse

DevicesInit ==
  /\ part \in Parts
  /\ SeatedInit /\ MappingInit /\ SchedulerInit /\ StickInit
  /\ OneWay

DevicesNext ==
  \/ /\ part = "wired" /\ SeatedNext
     /\ UNCHANGED <<part, mappingVars, schedulerVars, stickVars>>
  \/ /\ part = "mapping" /\ MappingNext
     /\ UNCHANGED <<part, wiredVars, schedulerVars, stickVars>>
  \/ /\ part = "scheduler" /\ SchedulerNext
     /\ UNCHANGED <<part, wiredVars, mappingVars, stickVars>>
  \/ /\ part = "sticks" /\ StickNext
     /\ UNCHANGED <<part, wiredVars, mappingVars, schedulerVars>>

DevicesSpec ==
  /\ DevicesInit
  /\ [][DevicesNext]_<<part, wiredVars, mappingVars, schedulerVars, stickVars>>
  /\ WiredFairness

\* The scheduler's scene ends with a wake-up that is lost, and where it is stopped, over
\* System Bluetooth with the end of its thread: the properties say nothing from there on.
StillRuns == ~outrun /\ sched # "ended" /\ (schedRunning \/ link = "bt")
=============================================================================
