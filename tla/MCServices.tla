----------------------------- MODULE MCServices -----------------------------
(***************************************************************************)
(* One run for the parts of the program that share no state with the       *)
(* player slots or with each other: a behaviour picks one of them (a scene *)
(* of the keyboard output among them) and leaves the others as they start. *)
(***************************************************************************)
EXTENDS MCKeyboardOutput, SystemBtPairRumble, SerialFraming, SerialClient, UsbHidClient,
        RumbleDispatcher, CommandChannel, UsbIpServer, ServerProxy, InputSubmit, TimerPolicy

MCTransitions == [s \in RumbleSide |-> IF s = "Left" THEN 2 ELSE 1]
MCInitIds == <<"pair", "select", "feature">>
MCRequests == <<1, 2>>

\* What the bridge may send: a line, messages of two channels whose handles and payloads
\* hold the bytes that frames and lines begin with, and noise before one of them.
Msg(kind, channel, handle, payload, noise) ==
  [kind |-> kind, channel |-> channel, handle |-> handle, payload |-> payload, noise |-> noise]
MCMessages ==
  {Msg("line", 0, <<>>, <<123>>, <<>>), Msg("ack", 1, <<>>, <<10, 85>>, <<>>),
   Msg("input", 0, <<>>, <<170>>, <<>>), Msg("notify", 1, <<10, 170>>, <<85>>, <<>>),
   Msg("legacy", 0, <<>>, <<170, 85>>, <<>>), Msg("input", 1, <<>>, <<85, 10, 170>>, <<123, 170>>)}

Scenes == {"pair_rumble", "framing", "serial", "usb_hid", "dispatcher", "commands", "usbip",
           "proxy", "submit", "timer"}

\* A part that is not picked starts in one way only.
OneStart ==
  /\ scene = "usb_hid" \/ bulk = "absent"
  /\ scene = "dispatcher" \/ pairMode = "pair"
  /\ scene = "commands" \/ hasUser = FALSE
  /\ scene = "timer" \/ powerMode = "Off"

ServicesInit ==
  /\ SceneInit \/ (KeyboardInit /\ saved = "unset" /\ scene \in Scenes)
  /\ PairRumbleInit /\ FramingInit /\ SerialInit /\ UsbInit /\ DispatcherInit
  /\ ChannelInit /\ UrbInit /\ ProxyInit /\ SubmitInit /\ TimerInit
  /\ OneStart

ServicesNext ==
  \/ SceneNext
     /\ UNCHANGED <<rumbleVars, framingVars, serialVars, usbVars, dispatchVars, channelVars,
                    urbVars, proxyVars, submitVars, timerVars>>
  \/ /\ scene = "pair_rumble" /\ PairRumbleNext
     /\ UNCHANGED <<scene, keyboardVars, framingVars, serialVars, usbVars, dispatchVars,
                    channelVars, urbVars, proxyVars, submitVars, timerVars>>
  \/ /\ scene = "framing" /\ FramingNext
     /\ UNCHANGED <<scene, keyboardVars, rumbleVars, serialVars, usbVars, dispatchVars,
                    channelVars, urbVars, proxyVars, submitVars, timerVars>>
  \/ /\ scene = "serial" /\ SerialNext
     /\ UNCHANGED <<scene, keyboardVars, rumbleVars, framingVars, usbVars, dispatchVars,
                    channelVars, urbVars, proxyVars, submitVars, timerVars>>
  \/ /\ scene = "usb_hid" /\ UsbNext
     /\ UNCHANGED <<scene, keyboardVars, rumbleVars, framingVars, serialVars, dispatchVars,
                    channelVars, urbVars, proxyVars, submitVars, timerVars>>
  \/ /\ scene = "dispatcher" /\ DispatcherNext
     /\ UNCHANGED <<scene, keyboardVars, rumbleVars, framingVars, serialVars, usbVars,
                    channelVars, urbVars, proxyVars, submitVars, timerVars>>
  \/ /\ scene = "commands" /\ ChannelNext
     /\ UNCHANGED <<scene, keyboardVars, rumbleVars, framingVars, serialVars, usbVars,
                    dispatchVars, urbVars, proxyVars, submitVars, timerVars>>
  \/ /\ scene = "usbip" /\ UrbNext
     /\ UNCHANGED <<scene, keyboardVars, rumbleVars, framingVars, serialVars, usbVars,
                    dispatchVars, channelVars, proxyVars, submitVars, timerVars>>
  \/ /\ scene = "proxy" /\ ProxyNext
     /\ UNCHANGED <<scene, keyboardVars, rumbleVars, framingVars, serialVars, usbVars,
                    dispatchVars, channelVars, urbVars, submitVars, timerVars>>
  \/ /\ scene = "submit" /\ SubmitNext
     /\ UNCHANGED <<scene, keyboardVars, rumbleVars, framingVars, serialVars, usbVars,
                    dispatchVars, channelVars, urbVars, proxyVars, timerVars>>
  \/ /\ scene = "timer" /\ TimerNext
     /\ UNCHANGED <<scene, keyboardVars, rumbleVars, framingVars, serialVars, usbVars,
                    dispatchVars, channelVars, urbVars, proxyVars, submitVars>>

ServicesSpec ==
  ServicesInit /\ [][ServicesNext]_<<scene, keyboardVars, rumbleVars, framingVars, serialVars, usbVars, dispatchVars, channelVars,
                                      urbVars, proxyVars, submitVars, timerVars>>

=============================================================================
