------------------------------- MODULE Sound -------------------------------
(***************************************************************************)
(* The playback and record channels (sound.cpp).  A channel has one client.  *)
(* What is to be sent is a set of commands; one persistent pipe item stands   *)
(* for all of them, and PlaybackChannelClient::send_item and                  *)
(* RecordChannelClient::send_item turn it into one message, the commands in a *)
(* fixed order, whenever the socket has room.  Audio frames come from a       *)
(* container of three that the device and the client share.                   *)
(*                                                                         *)
(* Everything runs in the main loop; the device and the socket interleave.    *)
(* `k' in an action is how many messages the socket takes before it is full.  *)
(***************************************************************************)
EXTENDS Integers, Sequences, FiniteSets, FiniteSetsExt, SequencesExt

CONSTANTS SndKinds,     \* the channels to check: a subset of {"playback", "record"}
          Frames,       \* NUM_AUDIO_FRAMES frames, 1 .. 3
          SndVolumes,   \* what the device may set the volume to
          RingLen,      \* RECORD_SAMPLES_SIZE
          PosMod,       \* 2 ^ 32, a multiple of RingLen
          Packets,      \* sample counts of a record packet
          Rooms,        \* how many messages the socket may take, see above
          MaxSnd,       \* bound on the calls
          MaxGen        \* bound on the connections

ASSUME RingDividesPositions == PosMod % RingLen = 0

NoFrame == 0
NoMsg == <<>>

VARIABLES snd,          \* the channel and its client
          holder,       \* frames the device took: <<generation, frame>>
          alive,        \* generations whose frame container is allocated
          cli,          \* what the remote client was told
          mmTime,       \* reds->mm_time_enabled
          rec,          \* the record client's ring
          sndCalls

sndVars == <<snd, holder, alive, cli, mmTime, rec, sndCalls>>

NoClient == [started |-> FALSE, mode |-> "unknown", vol |-> 0, mute |-> "unknown", torn |-> FALSE]
EmptyRing == [at |-> [i \in 0 .. RingLen - 1 |-> 0], wpos |-> 0, rpos |-> 0, total |-> 0]

\* snd_attach_playback, snd_attach_record
SndInit ==
    /\ \E kind \in SndKinds :
          snd = [kind |-> kind, on |-> FALSE, vol |-> 0, mute |-> "off", connected |-> FALSE, cap |-> FALSE,
                 active |-> FALSE, clientActive |-> FALSE, cmd |-> {}, pipe |-> FALSE, out |-> NoMsg,
                 free |-> <<>>, inProgress |-> NoFrame, pending |-> NoFrame, mode |-> "raw", gen |-> 0]
    /\ holder = {} /\ alive = {} /\ cli = NoClient /\ mmTime = TRUE /\ rec = EmptyRing /\ sndCalls = 0

\* The order for the mutation: the mode after the samples.
ModeLast == <<"pcm", "ctrl", "volume", "mute", "migrate", "latency", "mode">>

\* The order in which the commands become messages.
CommandOrder == <<"mode", "pcm", "ctrl", "volume", "mute", "migrate", "latency">>

\* The commands that make a message: volume and mute do not when the client lacks the capability.
NextCommand(p) ==
    SelectSeq(CommandOrder, LAMBDA c : c \in p.cmd /\ (c \in {"volume", "mute"} => p.cap))

\* ... and those before it, which go with it.
Tried(p, c) == {CommandOrder[i] : i \in 1 .. SelectInSeq(CommandOrder, LAMBDA e : e = c)}

\* send_item: message under transmission, with the mode its samples are encoded in
SendOne(p) ==
    LET c == Head(NextCommand(p))
        q == [p EXCEPT !.cmd = @ \ Tried(p, c), !.out = <<c, p.mode, p.active>>]
    IN  IF NextCommand(p) = <<>> THEN [p EXCEPT !.cmd = {}]
        ELSE CASE c = "pcm"  -> [q EXCEPT !.inProgress = p.pending, !.pending = NoFrame]
               [] c = "ctrl" -> [q EXCEPT !.clientActive = p.active]
               [] OTHER      -> q

\* PlaybackChannelClient::on_message_marshalled, when the marshaller lets go of the samples
Marshalled(p) ==
    IF p.inProgress = NoFrame THEN p
    ELSE [p EXCEPT !.free = <<p.inProgress>> \o @, !.inProgress = NoFrame,
                   !.cmd = IF p.pending = NoFrame THEN @ ELSE @ \cup {"pcm"},
                   !.pipe = @ \/ p.pending # NoFrame]

Sent(p) == [Marshalled(p) EXCEPT !.out = NoMsg]

\* What the client makes of a message.
ClientTold(l, p) ==
    LET c == p.out[1]
    IN  CASE c = "mode"   -> [l EXCEPT !.mode = p.out[2]]
          [] c = "pcm"    -> [l EXCEPT !.torn = @ \/ l.mode # p.out[2]]
          [] c = "ctrl"   -> [l EXCEPT !.started = p.out[3]]
          [] c = "volume" -> [l EXCEPT !.vol = p.vol]
          [] c = "mute"   -> [l EXCEPT !.mute = p.mute]
          [] OTHER        -> l

\* RedChannelClient::push with room for k messages: x is <<snd, cli>>.
RECURSIVE Push(_, _)
Push(x, k) ==
    LET p == x[1]
        s == SendOne([p EXCEPT !.pipe = FALSE])
        d == Sent(s)
        Again(q) == [q EXCEPT !.pipe = q.cmd # {}]
    IN  IF p.out # NoMsg \/ ~p.pipe THEN x
        ELSE IF s.out = NoMsg THEN <<s, x[2]>>
        ELSE IF k = 0 THEN <<Again(s), x[2]>>
        ELSE Push(<<Again(d), ClientTold(x[2], s)>>, k - 1)

\* snd_send
SndSend(x, k) ==
    IF x[1].pipe \/ x[1].cmd = {} THEN x ELSE Push(<<[x[1] EXCEPT !.pipe = TRUE], x[2]>>, k)

Call == sndCalls < MaxSnd /\ sndCalls' = sndCalls + 1
Becomes(x) == snd' = x[1] /\ cli' = x[2]
Command(p, c) == [p EXCEPT !.cmd = @ \cup c]

\* snd_channel_client_start; a stop not yet sent is withdrawn
ClientStart(x, k) ==
    LET p == [x[1] EXCEPT !.active = TRUE]
    IN  IF ~p.clientActive THEN SndSend(<<Command(p, {"ctrl"}), x[2]>>, k)
        ELSE <<[p EXCEPT !.cmd = @ \ {"ctrl"}], x[2]>>

\* spice_server_playback_start, spice_server_record_start
Start(k) ==
    /\ Call /\ ~snd.on
    /\ LET x == <<[snd EXCEPT !.on = TRUE], cli>>
       IN  IF snd.connected THEN Becomes(ClientStart(x, k)) ELSE Becomes(x)
    /\ mmTime' = (mmTime /\ ~(snd.connected /\ snd.kind = "playback"))
    /\ rec' = IF snd.connected THEN [rec EXCEPT !.wpos = 0, !.rpos = 0, !.total = 0] ELSE rec
    /\ UNCHANGED <<holder, alive>>

\* spice_server_playback_stop, spice_server_record_stop; the device gives its
\* frame back before it stops.  The assertion that no frame is in progress is
\* StopFindsIdle; a server it stops goes no further.
Stop(k) ==
    /\ Call /\ snd.on /\ {h \in holder : h[1] = snd.gen} = {}
    /\ LET p == [snd EXCEPT !.on = FALSE, !.active = FALSE]
           q == [p EXCEPT !.cmd = @ \ {"ctrl", "pcm"}, !.pending = NoFrame,
                          !.free = IF p.pending = NoFrame THEN @ ELSE <<p.pending>> \o @]
       IN  IF ~snd.connected THEN snd' = [snd EXCEPT !.on = FALSE] /\ UNCHANGED cli
           ELSE IF snd.clientActive THEN Becomes(SndSend(<<Command(p, {"ctrl"}), cli>>, k))
           ELSE /\ snd.pending # NoFrame => snd.inProgress = NoFrame
                /\ snd' = q /\ UNCHANGED cli
    /\ mmTime' = (mmTime \/ (snd.connected /\ snd.kind = "playback"))
    /\ UNCHANGED <<holder, alive, rec>>

\* snd_channel_set_volume and snd_channel_set_mute; no channels, no message
SetVolume(v, k) ==
    /\ Call
    /\ LET p == [snd EXCEPT !.vol = v]
       IN  IF ~snd.connected \/ v = 0 THEN snd' = p /\ UNCHANGED cli
           ELSE Becomes(SndSend(<<Command(p, {"volume"}), cli>>, k))
    /\ UNCHANGED <<holder, alive, mmTime, rec>>

SetMute(m, k) ==
    /\ Call
    /\ LET p == [snd EXCEPT !.mute = m]
       IN  IF ~snd.connected THEN snd' = p /\ UNCHANGED cli
           ELSE Becomes(SndSend(<<Command(p, {"mute"}), cli>>, k))
    /\ UNCHANGED <<holder, alive, mmTime, rec>>

\* spice_server_playback_get_buffer
GetBuffer ==
    /\ Call /\ snd.kind = "playback" /\ snd.active /\ snd.free # <<>>
    /\ holder' = holder \cup {<<snd.gen, Head(snd.free)>>}
    /\ snd' = [snd EXCEPT !.free = Tail(@)]
    /\ UNCHANGED <<alive, cli, mmTime, rec>>

\* A container is freed with the last of its client (~PlaybackChannelClient)
\* and the frames the device took from it.
ContainerAfter(g, held, client) ==
    IF client \/ \E h \in held : h[1] = g THEN alive ELSE alive \ {g}

\* spice_server_playback_put_samples; a frame of an earlier client is dropped
PutSamples(h, k) ==
    /\ Call
    /\ holder' = holder \ {h}
    /\ alive' = ContainerAfter(h[1], holder \ {h}, snd.connected /\ h[1] = snd.gen)
    /\ LET p == [Command(snd, {"pcm"}) EXCEPT !.pending = h[2],
                    !.free = IF snd.pending = NoFrame THEN @ ELSE <<snd.pending>> \o @]
       IN  IF snd.connected /\ h[1] = snd.gen
           THEN snd.active /\ Becomes(SndSend(<<p, cli>>, k)) ELSE UNCHANGED <<snd, cli>>
    /\ UNCHANGED <<mmTime, rec>>

\* snd_set_playback_latency, SndChannelClient::migrate
Ask(c, k) ==
    /\ Call /\ snd.connected /\ (c = "latency" => snd.kind = "playback")
    /\ Becomes(SndSend(<<Command(snd, {c}), cli>>, k))
    /\ UNCHANGED <<holder, alive, mmTime, rec>>

\* snd_set_playback_compression: the next message of the client tells the mode
SetCompression(mode) ==
    /\ Call /\ snd.connected /\ snd.kind = "playback" /\ mode # snd.mode
    /\ snd' = [Command(snd, {"mode"}) EXCEPT !.mode = mode]
    /\ UNCHANGED <<holder, alive, cli, mmTime, rec>>

\* PlaybackChannel::on_connect, RecordChannel::on_connect; the frames of an
\* earlier client, disconnected first (set_peer_common), go with it.  At a
\* migration's target the client already knows the mode.
Connect(cap, mode, migrated, k) ==
    /\ Call /\ snd.gen < MaxGen
    /\ LET p == [snd EXCEPT !.connected = TRUE, !.cap = cap, !.active = FALSE, !.clientActive = FALSE,
                    !.pipe = FALSE, !.out = NoMsg, !.inProgress = NoFrame, !.pending = NoFrame, !.gen = @ + 1,
                    !.free = IF snd.kind = "playback" THEN SetToSeq(Frames) ELSE <<>>,
                    !.mode = IF snd.kind = "playback" THEN mode ELSE "raw",
                    !.cmd = (IF snd.kind = "playback" /\ ~migrated THEN {"mode"} ELSE {})
                            \cup (IF snd.vol # 0 /\ ~(snd.kind = "playback" /\ migrated)
                                  THEN {"volume", "mute"} ELSE {})]
           c == [NoClient EXCEPT !.mode = IF migrated THEN mode ELSE @]
       IN  Becomes(SndSend(IF snd.on THEN ClientStart(<<p, c>>, k) ELSE <<p, c>>, k))
    /\ alive' = (IF snd.connected THEN ContainerAfter(snd.gen, holder, FALSE) ELSE alive)
                 \cup (IF snd.kind = "playback" THEN {snd.gen + 1} ELSE {})
    /\ mmTime' = IF snd.kind = "record" THEN mmTime ELSE ~snd.on
    /\ rec' = EmptyRing
    /\ UNCHANGED holder

SndDisconnect ==
    /\ snd.connected
    /\ snd' = [snd EXCEPT !.connected = FALSE, !.active = FALSE, !.clientActive = FALSE, !.cmd = {},
                          !.pipe = FALSE, !.out = NoMsg, !.inProgress = NoFrame, !.pending = NoFrame, !.free = <<>>]
    /\ alive' = ContainerAfter(snd.gen, holder, FALSE)
    /\ mmTime' = (mmTime \/ snd.active) /\ cli' = NoClient /\ rec' = EmptyRing
    /\ UNCHANGED <<holder, sndCalls>>

\* The socket takes the rest of the message.
Writable(k) ==
    /\ snd.connected /\ snd.out # NoMsg
    /\ Becomes(Push(<<Sent(snd), ClientTold(cli, snd)>>, k))
    /\ UNCHANGED <<holder, alive, mmTime, rec, sndCalls>>

\* A reader that is lapped loses the oldest samples.
Lapped(w, rpos) == IF (w - rpos) % PosMod > RingLen THEN (w - RingLen) % PosMod ELSE rpos

\* snd_record_handle_write.  The part of the packet that goes to the start of
\* the ring is read from `data + now', in bytes where `now' counts samples of
\* four bytes: those samples are marked torn (-1).
HandleWrite(n) ==
    /\ Call /\ snd.connected /\ snd.kind = "record"
    /\ LET size == Min({n, RingLen})
           at == rec.wpos % RingLen
           now == Min({RingLen - at, size})
           w == (rec.wpos + size) % PosMod
           Index(i) == (i + RingLen - at) % RingLen
       IN  rec' = [at |-> [i \in DOMAIN rec.at |->
                              IF Index(i) >= size THEN rec.at[i]
                              ELSE IF Index(i) < now THEN rec.total + Index(i) ELSE -1],
                   wpos |-> w, total |-> rec.total + size,
                   rpos |-> Lapped(w, rec.rpos)]
    /\ UNCHANGED <<snd, holder, alive, cli, mmTime>>

\* spice_server_record_get_samples
GetSamples(n) ==
    /\ Call /\ snd.connected /\ snd.kind = "record" /\ snd.active
    /\ rec.wpos >= RingLen \div 2
    /\ rec' = [rec EXCEPT !.rpos = (@ + Min({(rec.wpos - @) % PosMod, n})) % PosMod]
    /\ UNCHANGED <<snd, holder, alive, cli, mmTime>>

SndNext ==
    \/ \E k \in Rooms : \/ Start(k) \/ Stop(k) \/ Writable(k)
                        \/ \E v \in SndVolumes : SetVolume(v, k)
                        \/ \E m \in {"on", "off"} : SetMute(m, k)
                        \/ \E h \in holder : PutSamples(h, k)
                        \/ \E c \in {"latency", "migrate"} : Ask(c, k)
                        \/ \E cap, migrated \in BOOLEAN, m \in {"raw", "opus"} : Connect(cap, m, migrated, k)
    \/ GetBuffer \/ SndDisconnect
    \/ \E m \in {"raw", "opus"} : SetCompression(m)
    \/ \E n \in Packets : HandleWrite(n) \/ GetSamples(n)

SndSpec == SndInit /\ [][SndNext]_sndVars
-----------------------------------------------------------------------------
\* The frames of the connected client, wherever they are.
Places == snd.free \o SelectSeq(<<snd.inProgress, snd.pending>>, LAMBDA f : f # NoFrame)
          \o SetToSeq({h[2] : h \in {g \in holder : g[1] = snd.gen}})

(* Every audio frame of the connected playback client is in exactly one      *)
(* place: the free list, waiting to be sent, being sent, or with the device.  *)
(* The container of a frame the device still holds is allocated, also when    *)
(* its client is gone or replaced, and freed with the last of them.  A pcm     *)
(* command always has its frame (the assertion in                             *)
(* PlaybackChannelClient::send_item), and a frame in progress its message.     *)
SndFramesAccounted ==
    /\ snd.connected /\ snd.kind = "playback" => IsInjective(Places) /\ ToSet(Places) = Frames
    /\ \A h \in holder : h[1] \in alive
    /\ \A g \in alive : (snd.connected /\ g = snd.gen) \/ \E h \in holder : h[1] = g
    /\ "pcm" \in snd.cmd => snd.pending # NoFrame
    /\ snd.inProgress # NoFrame => snd.out # NoMsg /\ snd.out[1] = "pcm"

(* The commands never lose anything although they are coalesced: a command   *)
(* other than a change of mode is on its way (the persistent item is in the   *)
(* pipe); when nothing is left to send, the client was told the state the     *)
(* channel is in; and samples reach it in the mode it was last told, so it     *)
(* can decode them.  Multimedia time follows the audio exactly while a         *)
(* playback is active.                                                        *)
SndClientInStep ==
    /\ snd.cmd \ {"mode"} # {} => snd.pipe
    /\ snd.connected /\ snd.cmd \subseteq {"mode"} /\ snd.out = NoMsg =>
          /\ cli.started = snd.active
          /\ cli.vol \in {snd.vol, 0} \/ snd.vol = 0
          /\ cli.mute \in {snd.mute, "unknown"}
    /\ ~cli.torn
    /\ snd.kind = "playback" => mmTime = ~(snd.connected /\ snd.active)

(* What the device reads is what the client sent: the samples between the    *)
(* read and the write position are the last ones written, in order, except    *)
(* those of a packet that crossed the end of the ring.                        *)
RecordRingOrdered ==
    LET n == (rec.wpos - rec.rpos) % PosMod
    IN  /\ n <= RingLen
        /\ \A i \in 0 .. n - 1 :
              rec.at[(rec.rpos + i) % RingLen] \in {rec.total - n + i, -1}

(* A sound channel is in step with its client and the device: the three      *)
(* above, of playback and of record.                                          *)
SndInStep == SndFramesAccounted /\ SndClientInStep /\ RecordRingOrdered

(* The assertion of spice_server_playback_stop (sound.cpp:880): when the      *)
(* client is not active and a frame waits to be sent, no frame is being sent. *)
(* The code does not keep it: samples go before the START that is still to be *)
(* sent, so with a full socket one frame is being sent and the next waits     *)
(* while the client is not active.                                            *)
StopFindsIdle ==
    /\ snd.on /\ {h \in holder : h[1] = snd.gen} = {}
    /\ snd.connected /\ ~snd.clientActive /\ snd.pending # NoFrame
    => snd.inProgress = NoFrame
=============================================================================
