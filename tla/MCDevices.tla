----------------------------- MODULE MCDevices ------------------------------
(***************************************************************************)
(* The channels of the devices, and the connection before it becomes a      *)
(* channel.  They share no state, so a behaviour exercises one of them,      *)
(* `part', and the others keep their initial state.                          *)
(***************************************************************************)
EXTENDS Sound, Inputs, Smartcard, Spicevmc, StreamDevice, Link, Websocket, TLC

VARIABLE part

Parts == {"sound", "inputs", "smartcard", "spicevmc", "stream", "link", "websocket"}

-----------------------------------------------------------------------------
(* The values of the constants. *)

StreamMsg(type, size, w) == [type |-> type, size |-> size, w |-> w]
MCGuestMessages ==
    { StreamMsg("format", 2, 1), StreamMsg("format", 2, 2), StreamMsg("data", 1, 0),
      StreamMsg("data", 0, 0), StreamMsg("cursor", 1, 0), StreamMsg("bad", 1, 0) }

Frame(type, fin, len) == [type |-> type, fin |-> fin, len |-> len]
MCClientFrames ==
    { Frame("binary", TRUE, 2), Frame("binary", FALSE, 1), Frame("cont", TRUE, 1),
      Frame("ping", TRUE, 1), Frame("close", TRUE, 0) }

-----------------------------------------------------------------------------
(* One component at a time; a component that is not exercised makes none of   *)
(* its initial choices.                                                      *)

Init ==
    /\ part \in Parts
    /\ SndInit /\ InInit /\ VscInit /\ VmcInit /\ SdevInit /\ LinkInit /\ WsInit
    /\ part = "sound" \/ snd.kind = "playback"
    /\ part = "link" \/ (conf.secure = {} /\ ~conf.sasl)

Keep(p, vars) == IF p THEN TRUE ELSE UNCHANGED vars

\* The step is one of component p: every other component keeps its state.
Of(p) ==
    /\ part = p /\ UNCHANGED part
    /\ Keep(p = "sound", sndVars)         /\ Keep(p = "inputs", inVars)
    /\ Keep(p = "smartcard", vscVars)     /\ Keep(p = "spicevmc", vmcVars)
    /\ Keep(p = "stream", sdevVars)       /\ Keep(p = "link", linkVars)
    /\ Keep(p = "websocket", wsVars)

SoundStep     == Of("sound") /\ SndNext
InputsStep    == Of("inputs") /\ InNext
SmartcardStep == Of("smartcard") /\ VscNext
SpicevmcStep  == Of("spicevmc") /\ VmcNext
StreamStep    == Of("stream") /\ SdevNext
LinkStep      == Of("link") /\ LinkNext
WebsocketStep == Of("websocket") /\ WsNext

Next ==
    \/ SoundStep \/ InputsStep \/ SmartcardStep \/ SpicevmcStep \/ StreamStep \/ LinkStep
    \/ WebsocketStep

vars == <<part, sndVars, inVars, vscVars, vmcVars, sdevVars, linkVars, wsVars>>

Spec == Init /\ [][Next]_vars
=============================================================================
