---------------------------- MODULE MCBridgeRoute ----------------------------
(***************************************************************************)
(* Finite instances of BridgeRoute: l1 and l2 are two connections of one   *)
(* left Joy-Con, r1 is a right one.  The product of everything that may go *)
(* wrong at once is too large, so a behaviour is one of four scenes.       *)
(***************************************************************************)
EXTENDS BridgeRoute

CONSTANTS l1, l2, r1, aL, aR, noMac, nobody

MCKind == [c \in Controller |-> IF c = r1 THEN "right" ELSE "left"]
MCMacOf == [c \in Controller |-> IF c = r1 THEN aR ELSE aL]

VARIABLE scene

NoRetries == \A m \in Mac : retryCount[m] = 0 /\ retrying[m] = "no"
NoConnectFail == \A n \in DOMAIN toHost : toHost[n].ev # "connect_fail"
Absent(m) == m \notin connecting /\ \A n \in DOMAIN toHost : toHost[n].mac # m

\* "pair": two Joy-Cons meet; "return": one comes back on either channel; "retry":
\* connections fail and are retried; "lose": the bridge itself goes and comes back.
InScene ==
  \/ scene = "pair" /\ NoRetries /\ NoConnectFail /\ stage[l2] = "unused"
  \/ scene = "return" /\ NoRetries /\ NoConnectFail /\ Absent(aR)
  \/ scene = "retry" /\ stage[l2] = "unused" /\ Absent(aR) /\ 1 \in FreeChans
  \/ scene = "lose" /\ Absent(aR) /\ 1 \in FreeChans /\ NoRetries /\ NoConnectFail

\* Two Joy-Cons: only the left one goes, and the watchdogs are left to the other scenes.
\* The loss of the bridge has its own.
SceneStep ==
  /\ scene = "pair" /\ poll' = "idle" /\ poll \in {"answered", "looking"} => UNCHANGED macVars
  /\ (scene = "pair" /\ FwLinked(aR)) => FwLinked(aR)'
  /\ poll' = "teardown" => scene = "lose"

SceneInit == BridgeInit /\ scene \in {"pair", "return", "retry", "lose"}
SceneNext == BridgeNext /\ UNCHANGED scene /\ InScene' /\ SceneStep
SceneSpec == SceneInit /\ [][SceneNext]_<<bridgeVars, scene>>

=============================================================================
