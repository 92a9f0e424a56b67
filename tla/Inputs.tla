------------------------------- MODULE Inputs -------------------------------
(***************************************************************************)
(* The inputs channel (inputs-channel.cpp, inputs-channel-client.cpp) and    *)
(* the choice of the mouse mode (reds.cpp): keys, keyboard locks, mouse       *)
(* motion and its acknowledgements, one client at a time, over migrations.    *)
(*                                                                         *)
(* A scan code is a sequence of bytes: "e0" or "e1" as prefix, then           *)
(* <<key, released>>.  The guest's keyboard (external) keeps the keys it       *)
(* sees pressed, toggles a lock when its key goes down, and reports its LEDs   *)
(* some time later.                                                          *)
(***************************************************************************)
EXTENDS Integers, Sequences, FiniteSets, FiniteSetsExt, SequencesExt

CONSTANTS InKeys,       \* keys without prefix, the lock keys among them
          ExtKeys,      \* keys with prefix e0
          LockKeys,     \* CAPS_LOCK, NUM_LOCK, SCROLL_LOCK
          AckBunch,     \* SPICE_INPUT_MOTION_ACK_BUNCH
          MaxIn         \* bound on the events of the client and the devices

VARIABLES ip,           \* InputsChannel, its client and keyboard, the mouse mode of reds
          gk,           \* the guest's keyboard: [down, prefix, locks, leds, device]
          ic,           \* the remote client: [unacked, mods]
          inEvents

inVars == <<ip, gk, ic, inEvents>>

InInit ==
    /\ ip = [connected |-> FALSE, keys |-> {}, ext |-> {}, prefix |-> "", mods |-> {}, pressed |-> {},
             timer |-> FALSE, motion |-> 0, migrating |-> FALSE, stuck |-> FALSE, pipe |-> <<>>,
             tablet |-> FALSE, agent |-> FALSE, agentMouse |-> TRUE, oneDisplay |-> TRUE,
             dispatcher |-> FALSE, allowed |-> FALSE, mode |-> "server"]
    /\ gk = [down |-> {}, prefix |-> "", locks |-> {}, leds |-> <<>>, device |-> {}]
    /\ ic = [unacked |-> 0, mods |-> {}]
    /\ inEvents = 0

\* The guest's keyboard: a press of a lock key toggles the lock, a repeated one does not.
GuestScan(g, b) ==
    LET key == IF g.prefix = "e0" THEN <<"ext", b[1]>> ELSE <<"key", b[1]>>
        toggles == ~b[2] /\ key \notin g.down /\ g.prefix = "" /\ b[1] \in LockKeys
        locks == SymDiff(g.locks, {b[1]})
        t == IF toggles THEN [g EXCEPT !.locks = locks, !.leds = Append(@, locks)] ELSE g
    IN  [t EXCEPT !.down = IF b[2] THEN @ \ {key} ELSE @ \cup {key}, !.prefix = ""]

\* kbd_push_scan; x is <<ip, gk>>
PushScan(x, b) ==
    LET p == x[1]
        Track(f) == IF b[2] THEN f \ {b[1]} ELSE f \cup {b[1]}
    IN  IF b \in {<<"e0">>, <<"e1">>}
        THEN <<[p EXCEPT !.prefix = b[1]], [x[2] EXCEPT !.prefix = b[1]]>>
        ELSE <<[p EXCEPT !.keys = IF p.prefix = "" THEN Track(@) ELSE @,
                         !.ext = IF p.prefix = "e0" THEN Track(@) ELSE @,
                         !.prefix = ""], GuestScan(x[2], b)>>

\* InputsChannel::sync_locks
SyncLocks(x, b) ==
    LET p == x[1]
        k == b[1]
    IN  IF b \in {<<"e0">>, <<"e1">>} \/ k \notin LockKeys THEN x
        ELSE IF b[2] THEN <<[p EXCEPT !.pressed = @ \ {k}], x[2]>>
        ELSE IF k \in p.pressed THEN x
        ELSE <<[p EXCEPT !.mods = SymDiff(@, {k}), !.pressed = @ \cup {k}, !.timer = TRUE], x[2]>>

Scanned(x, code) == FoldLeft(LAMBDA y, b : SyncLocks(PushScan(y, b), b), x, code)

\* The variant for the mutation: the released keys are forgotten, not released in the guest.
ForgetKeys(x) == <<[x[1] EXCEPT !.keys = {}, !.ext = {}], x[2]>>

\* InputsChannel::release_keys, when the client is gone
ReleaseKeys(x) ==
    LET plain == FoldSet(LAMBDA k, y : PushScan(y, <<k, TRUE>>), x, x[1].keys)
    IN  FoldSet(LAMBDA k, y : PushScan(PushScan(y, <<"e0">>), <<k, TRUE>>), plain, plain[1].ext)

Event == inEvents < MaxIn /\ inEvents' = inEvents + 1
Queue(p, item) == [p EXCEPT !.pipe = Append(@, item)]

\* InputsChannel::push_keyboard_modifiers
PushModifiers(p) == IF ~p.connected \/ p.migrating THEN p ELSE Queue(p, <<"modifiers", p.mods>>)

\* InputsChannel::on_connect and InputsChannelClient::init: the LEDs come from the device
InConnect ==
    /\ Event /\ ~ip.connected
    /\ ip' = [ip EXCEPT !.connected = TRUE, !.motion = 0, !.pipe = <<<<"modifiers", gk.device>>>>,
                        !.stuck = ip.migrating]
    /\ ic' = [unacked |-> 0, mods |-> {}]
    /\ UNCHANGED gk

\* InputsChannelClient::on_disconnect
InDisconnect ==
    /\ ip.connected
    /\ LET x == ReleaseKeys(<<ip, gk>>)
       IN  ip' = [x[1] EXCEPT !.connected = FALSE, !.pipe = <<>>] /\ gk' = x[2]
    /\ UNCHANGED <<ic, inEvents>>

\* InputsChannelClient::handle_message: SPICE_MSGC_INPUTS_KEY_DOWN, whose first
\* byte is looked at once more; KEY_UP and KEY_SCANCODE
KeyMessage(code, down) ==
    /\ Event /\ ip.connected
    /\ LET x == <<ip, gk>>
           y == Scanned(IF down THEN SyncLocks(x, Head(code)) ELSE x, code)
       IN  ip' = y[1] /\ gk' = y[2]
    /\ UNCHANGED ic

\* SPICE_MSGC_INPUTS_KEY_MODIFIERS: the client's locks; a key held down is left alone
KeyModifiers(wanted) ==
    /\ Event /\ ip.connected
    /\ LET Tap(x, k) == PushScan(PushScan(x, <<k, FALSE>>), <<k, TRUE>>)
           differ == {k \in LockKeys \ ip.pressed : (k \in wanted) # (k \in ip.mods)}
           y == FoldSet(LAMBDA k, x : Tap(x, k), <<ip, gk>>, differ)
       IN  ip' = [y[1] EXCEPT !.mods = SymDiff(@, differ), !.timer = TRUE] /\ gk' = y[2]
    /\ UNCHANGED ic

\* spice_server_kbd_leds: the guest's report arrives
KbdLeds ==
    /\ gk.leds # <<>>
    /\ ip' = PushModifiers([ip EXCEPT !.mods = Head(gk.leds)])
    /\ gk' = [gk EXCEPT !.leds = Tail(@), !.device = Head(gk.leds)]
    /\ UNCHANGED <<ic, inEvents>>

\* key_modifiers_sender, the timer of KEY_MODIFIERS_TTL
ModifiersTimer ==
    /\ ip.timer
    /\ ip' = PushModifiers([ip EXCEPT !.timer = FALSE])
    /\ UNCHANGED <<gk, ic, inEvents>>

\* InputsChannelClient::on_mouse_motion
OnMouseMotion(p) ==
    IF (p.motion + 1) % AckBunch = 0 /\ ~p.migrating
    THEN Queue([p EXCEPT !.motion = 0], <<"ack">>) ELSE [p EXCEPT !.motion = @ + 1]

\* Where a mouse message goes: the assertion of SPICE_MSGC_INPUTS_MOUSE_POSITION
\* is that there is such a place.
MousePlace(p) ==
    IF p.mode = "server" THEN "mouse"
    ELSE IF p.agentMouse /\ p.agent THEN "agent"
    ELSE IF p.tablet THEN "tablet"
    ELSE "none"

\* SPICE_MSGC_INPUTS_MOUSE_MOTION and MOUSE_POSITION; a client has no more than
\* two bunches without acknowledgement.
MouseMotion ==
    /\ Event /\ ip.connected /\ ic.unacked < 2 * AckBunch
    /\ ip' = OnMouseMotion(ip) /\ ic' = [ic EXCEPT !.unacked = @ + 1]
    /\ UNCHANGED gk

\* InputsChannelClient::send_item; what the client makes of it
InSend ==
    /\ ip.connected /\ ip.pipe # <<>>
    /\ LET item == Head(ip.pipe)
       IN  ic' = IF item = <<"ack">> THEN [ic EXCEPT !.unacked = @ - AckBunch]
                 ELSE [ic EXCEPT !.mods = item[2]]
    /\ ip' = [ip EXCEPT !.pipe = Tail(@)]
    /\ UNCHANGED <<gk, inEvents>>

\* InputsChannelClient::migrate
InMigrate ==
    /\ Event /\ ip.connected /\ ~ip.migrating
    /\ ip' = [ip EXCEPT !.migrating = TRUE]
    /\ UNCHANGED <<gk, ic>>

\* InputsChannelClient::handle_migrate_data
MigratedMotion(p, n) ==
    FoldLeft(LAMBDA q, i : Queue(q, <<"ack">>), [p EXCEPT !.motion = n % AckBunch], [i \in 1 .. n \div AckBunch |-> i])

\* send_migrate_data at the source, once the pipe is empty, and
\* handle_migrate_data at the target, which goes on in this channel's place
InMigrateData ==
    /\ ip.connected /\ ip.migrating /\ ip.pipe = <<>>
    /\ ip' = MigratedMotion(PushModifiers([ip EXCEPT !.migrating = FALSE, !.stuck = FALSE]), ip.motion)
    /\ UNCHANGED <<gk, ic, inEvents>>

\* reds_update_mouse_mode
UpdateMouseMode(p) ==
    LET allowed == p.dispatcher /\ ((p.agentMouse /\ p.agent) \/ (p.tablet /\ p.oneDisplay))
    IN  [p EXCEPT !.allowed = allowed,
                  !.mode = IF allowed # p.allowed /\ ~allowed THEN "server" ELSE @]

\* spice_server_add_interface and remove_interface of a tablet, the agent's
\* attach and remove, spice_server_set_agent_mouse, reds_update_client_mouse_allowed
MouseSource(f, on) ==
    /\ Event /\ ip[f] # on
    /\ ip' = UpdateMouseMode([ip EXCEPT ![f] = on])
    /\ UNCHANGED <<gk, ic>>

\* A second display comes or goes: the mode is looked at only later.
DisplayCount(one) ==
    /\ Event /\ ip.oneDisplay # one
    /\ ip' = [ip EXCEPT !.oneDisplay = one]
    /\ UNCHANGED <<gk, ic>>

\* reds_on_main_mouse_mode_request
MouseModeRequest(mode) ==
    /\ Event /\ ip.connected
    /\ mode = "client" => ip.allowed
    /\ ip' = [ip EXCEPT !.mode = mode]
    /\ UNCHANGED <<gk, ic>>

ScanCodes == {<<<<k, up>>>> : k \in InKeys, up \in BOOLEAN}
             \cup {<<<<"e0">>, <<k, up>>>> : k \in ExtKeys, up \in BOOLEAN}

InNext ==
    \/ InConnect \/ InDisconnect \/ KbdLeds \/ ModifiersTimer \/ MouseMotion \/ InSend
    \/ InMigrate \/ InMigrateData
    \/ \E code \in ScanCodes, down \in BOOLEAN : KeyMessage(code, down)
    \/ \E wanted \in SUBSET LockKeys : KeyModifiers(wanted)
    \/ \E f \in {"tablet", "agent", "agentMouse", "dispatcher"}, on \in BOOLEAN : MouseSource(f, on)
    \/ \E one \in BOOLEAN : DisplayCount(one)
    \/ \E mode \in {"server", "client"} : MouseModeRequest(mode)

InSpec == InInit /\ [][InNext]_inVars
-----------------------------------------------------------------------------
Acks == Len(SelectSeq(ip.pipe, LAMBDA i : i = <<"ack">>))

(* The keys the guest sees pressed are the ones the channel tracks, so the   *)
(* client's disconnection releases all of them and no key hangs in the guest; *)
(* every motion is acknowledged once in bunches, also those counted before a  *)
(* migration, so a client never waits for an acknowledgement that is not      *)
(* queued; when nothing is on its way the client knows the guest's locks; and *)
(* in client mouse mode there is an agent or a tablet to give a position to    *)
(* (the assertion of InputsChannelClient::handle_message), whatever comes and  *)
(* goes meanwhile.                                                           *)
InputsInStep ==
    /\ gk.down = {<<"key", k>> : k \in ip.keys} \cup {<<"ext", k>> : k \in ip.ext}
    /\ ~ip.connected => gk.down = {}
    /\ ip.connected => ic.unacked = AckBunch * Acks + ip.motion
    /\ ip.connected /\ ~ip.migrating /\ ~ip.stuck => ip.motion < AckBunch
    /\ gk.leds = <<>> => ip.mods = gk.locks
    /\ ip.connected /\ ~ip.migrating /\ gk.leds = <<>> /\ ~ip.timer /\ ip.pipe = <<>> => ic.mods = gk.locks
    /\ MousePlace(ip) # "none"
=============================================================================
