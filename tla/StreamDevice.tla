---------------------------- MODULE StreamDevice ----------------------------
(***************************************************************************)
(* The streaming device and its display channel (red-stream-device.cpp,       *)
(* stream-channel.cpp): a guest program sends a format and then encoded        *)
(* frames through a char device, in pieces of any length; the channel turns    *)
(* them into a surface, a stream and its data for every client, stops reading  *)
(* while frames are queued, and tells the guest program to start or to stop.   *)
(*                                                                         *)
(* A message is [type, size, w]: a body of `size' units after a header of      *)
(* StreamHdr units; w is the size of the picture for a format.                *)
(***************************************************************************)
EXTENDS Integers, Sequences, FiniteSets, FiniteSetsExt, SequencesExt

CONSTANTS StreamHdr,      \* sizeof(StreamDevHeader)
          GuestMessages,  \* what the guest program may send
          Viewers,        \* the clients of the stream channel
          NumStreams,     \* NUM_STREAMS
          MaxStream       \* bound on messages, connections and port events

VARIABLES sdev,     \* StreamDevice, and the bytes the device holds for it
          schan,    \* StreamChannel: [made, id, w, items]
          view,     \* per client: [on, pipe, id (of StreamChannelClient), surface, stream, late, wrong]
          told,     \* the last STREAM_TYPE_START_STOP the guest has, and the capabilities
          sdevCalls

sdevVars == <<sdev, schan, view, told, sdevCalls>>

AwayView == [on |-> FALSE, pipe |-> <<>>, id |-> -1, surface |-> 0, stream |-> -1, late |-> FALSE, wrong |-> FALSE]

SdevInit ==
    /\ sdev = [opened |-> FALSE, error |-> FALSE, timer |-> FALSE, stopped |-> FALSE,
               hdr |-> 0, pos |-> 0, msgs |-> <<>>, wire |-> 0]
    /\ schan = [made |-> FALSE, id |-> -1, w |-> 0, items |-> {}, next |-> 1]
    /\ view = [v \in Viewers |-> AwayView]
    /\ told = "none"
    /\ sdevCalls = 0

SdevCall == sdevCalls < MaxStream /\ sdevCalls' = sdevCalls + 1

(* ---- the channel: x is [d: sdev, c: schan, v: view, t: told] -------------- *)

ConnectedTo(x) == {v \in Viewers : x.v[v].on}
PipesAdd(x, items) == [x EXCEPT !.v = [v \in Viewers |-> IF x.v[v].on THEN [x.v[v] EXCEPT !.pipe = @ \o items] ELSE x.v[v]]]
Item(type) == [type |-> type, id |-> -1, w |-> 0, n |-> 0]

\* StreamDevice::stream_start, the start callback
RequestNewStream(x, what) == IF x.d.opened THEN [x EXCEPT !.t = what] ELSE x

\* StreamChannel::change_format
ChangeFormat(x, w) ==
    LET resize == IF x.c.w = w THEN <<>>
                  ELSE (IF x.c.w # 0 THEN <<Item("surface_destroy")>> ELSE <<>>)
                       \o <<Item("surface_create"), Item("monitors"), Item("mark")>>
        id == (x.c.id + 1) % NumStreams
    IN  PipesAdd([x EXCEPT !.c.w = w, !.c.id = id],
                 <<Item("stream_destroy")>> \o resize
                 \o <<[Item("stream_create") EXCEPT !.id = id, !.w = w], Item("report")>>)

\* The variant for the mutation: the device stays stopped until it wakes up by itself.
QueueStatForgets(x) == [x EXCEPT !.d.stopped = x.c.items # {} \/ x.d.stopped]

\* StreamDevice::stream_queue_stat, the callback of update_queue_stat; the wake up
\* is the reading that follows (Readable)
QueueStat(x) == IF x.d.opened THEN [x EXCEPT !.d.stopped = x.c.items # {}] ELSE x

\* ~StreamDataItem for the items no pipe holds any more
DropItems(x) ==
    LET left == {n \in x.c.items : \E v \in Viewers : \E i \in 1 .. Len(x.v[v].pipe) : x.v[v].pipe[i].n = n}
    IN  IF left = x.c.items THEN x ELSE QueueStat([x EXCEPT !.c.items = left])

\* StreamChannel::send_data
StreamSendData(x) ==
    IF x.c.id < 0 THEN x
    ELSE LET y == QueueStat([x EXCEPT !.c.items = @ \cup {x.c.next}, !.c.next = @ + 1])
         IN  DropItems(PipesAdd(y, <<[Item("data") EXCEPT !.id = x.c.id, !.n = x.c.next]>>))

\* StreamChannel::reset, called by reset_channels
ResetChannel(x) ==
    IF ~x.c.made THEN x
    ELSE LET y == PipesAdd(x, <<Item("stream_destroy")>>
                              \o (IF x.c.w # 0 THEN <<Item("surface_destroy")>> ELSE <<>>))
             z == [y EXCEPT !.c.id = -1, !.c.w = 0]
         IN  IF ConnectedTo(z) = {} THEN z ELSE RequestNewStream(z, "start")

(* ---- the device ---------------------------------------------------------- *)

\* The handlers of the messages once their body is there: handle_msg_format,
\* handle_msg_data (an empty body is no frame), handle_msg_cursor_set,
\* handle_msg_cursor_move, handle_msg_capabilities, handle_msg_device_display_info
HandleMsg(x, m) ==
    IF m.type = "format" THEN ChangeFormat(x, m.w)
    ELSE IF m.type = "data" /\ m.size > 0 THEN StreamSendData(x)
    ELSE x

\* StreamDevice::partial_read, one call; `again' is its result
PartialRead(x) ==
    LET d == x.d
        m == Head(d.msgs)
        h == Min({StreamHdr - d.hdr, d.wire})
        e == [d EXCEPT !.hdr = @ + h, !.wire = @ - h, !.pos = IF h > 0 THEN 0 ELSE @]
        n == Min({m.size - e.pos, e.wire})
        b == [e EXCEPT !.wire = @ - n, !.pos = @ + n]
    IN  IF d.error THEN [s |-> [x EXCEPT !.d.wire = 0, !.d.msgs = <<>>, !.d.timer = TRUE], again |-> FALSE]
        ELSE IF d.stopped \/ ~x.c.made \/ d.msgs = <<>> THEN [s |-> x, again |-> FALSE]
        ELSE IF e.hdr < StreamHdr THEN [s |-> [x EXCEPT !.d = e], again |-> FALSE]
        ELSE IF m.type = "bad"                               \* handle_msg_invalid
             THEN [s |-> [x EXCEPT !.d = [e EXCEPT !.error = TRUE]], again |-> TRUE]
        ELSE IF b.pos < m.size THEN [s |-> [x EXCEPT !.d = b], again |-> FALSE]
        ELSE [s |-> HandleMsg([x EXCEPT !.d = [b EXCEPT !.hdr = 0, !.msgs = Tail(@)]], m), again |-> TRUE]

\* StreamDevice::read_one_msg_from_device
RECURSIVE ReadAll(_)
ReadAll(x) == LET r == PartialRead(x) IN IF r.again THEN ReadAll(r.s) ELSE r.s

Whole == [d |-> sdev, c |-> schan, v |-> view, t |-> told]
SdevBecomes(x) == sdev' = x.d /\ schan' = x.c /\ view' = x.v /\ told' = x.t

\* Bytes the guest has written, not yet with the device
InGuest == FoldSeq(LAMBDA m, n : StreamHdr + m.size + n, 0, sdev.msgs) - sdev.hdr
           - (IF sdev.hdr = StreamHdr THEN sdev.pos ELSE 0) - sdev.wire

\* The guest program writes a message.
GuestMessage(m) ==
    /\ SdevCall /\ sdev.opened /\ ~sdev.error
    /\ sdev' = [sdev EXCEPT !.msgs = Append(@, m)]
    /\ UNCHANGED <<schan, view, told>>

\* k more bytes reach the device, which wakes the server up; and the wake up of
\* stream_queue_stat (k = 0)
Readable(k) ==
    /\ sdev.opened
    /\ IF k > 0 THEN k <= InGuest ELSE sdev.wire > 0 /\ ~sdev.stopped
    /\ SdevBecomes(ReadAll([Whole EXCEPT !.d.wire = @ + k]))
    /\ UNCHANGED sdevCalls

\* StreamDevice::port_event: create_channel and send_capabilities, the device's
\* reset (write buffers are dropped), reset_channels
SdevPortEvent(open) ==
    /\ SdevCall /\ sdev.opened # open
    /\ SdevBecomes(ResetChannel([Whole EXCEPT
          !.d = [sdev EXCEPT !.opened = open, !.error = FALSE, !.stopped = FALSE,
                             !.hdr = 0, !.pos = 0, !.msgs = <<>>, !.wire = 0],
          !.c.made = @ \/ open, !.t = "none"]))

\* StreamDevice::close_timer_func: the emulator closes the port
CloseTimer ==
    /\ sdev.timer
    /\ IF sdev.opened /\ sdev.error
       THEN SdevBecomes(ResetChannel([Whole EXCEPT
                !.d = [sdev EXCEPT !.opened = FALSE, !.error = FALSE, !.stopped = FALSE, !.timer = FALSE,
                                   !.hdr = 0, !.pos = 0, !.msgs = <<>>, !.wire = 0], !.t = "none"]))
       ELSE sdev' = [sdev EXCEPT !.timer = FALSE] /\ UNCHANGED <<schan, view, told>>
    /\ UNCHANGED sdevCalls

\* StreamChannel::on_connect.  A client that comes while a stream runs knows
\* nothing of the stream until the guest sends the next format (late).
ViewerConnect(v) ==
    /\ SdevCall /\ schan.made /\ ~view[v].on
    /\ LET x == RequestNewStream([Whole EXCEPT !.v[v].on = TRUE], "start")
           shown == IF schan.w = 0 THEN <<>>
                    ELSE <<Item("surface_create"), Item("monitors"), Item("fill"), Item("mark")>>
       IN  SdevBecomes([x EXCEPT !.v[v].pipe = shown, !.v[v].late = schan.id >= 0])

\* StreamChannelClient::on_disconnect
ViewerDisconnect(v) ==
    /\ view[v].on
    /\ LET x == DropItems([Whole EXCEPT !.v[v] = AwayView])
       IN  SdevBecomes(IF ConnectedTo(x) # {} THEN x
                       ELSE RequestNewStream([x EXCEPT !.c.id = -1, !.c.w = 0], "stop"))
    /\ UNCHANGED sdevCalls

\* StreamChannelClient::send_item and what the client makes of the message
Shown(s, item) ==
    IF item.type = "surface_create" THEN [s EXCEPT !.surface = schan.w]
    ELSE IF item.type = "surface_destroy" THEN [s EXCEPT !.surface = 0]
    ELSE IF item.type = "stream_create" THEN [s EXCEPT !.id = item.id, !.stream = item.id, !.late = FALSE]
    ELSE IF item.type = "stream_destroy" /\ s.id >= 0 THEN [s EXCEPT !.id = -1, !.stream = -1]
    ELSE IF item.type = "data" THEN [s EXCEPT !.wrong = @ \/ (~s.late /\ item.id # s.stream)]
    ELSE s

ViewerSend(v) ==
    /\ view[v].on /\ view[v].pipe # <<>>
    /\ SdevBecomes(DropItems([Whole EXCEPT !.v[v] = [Shown(view[v], Head(view[v].pipe)) EXCEPT !.pipe = Tail(@)]]))
    /\ UNCHANGED sdevCalls

SdevNext ==
    \/ \E m \in GuestMessages : GuestMessage(m)
    \/ \E k \in 0 .. InGuest : Readable(k)
    \/ \E open \in BOOLEAN : SdevPortEvent(open)
    \/ CloseTimer
    \/ \E v \in Viewers : ViewerConnect(v) \/ ViewerDisconnect(v) \/ ViewerSend(v)

SdevSpec == SdevInit /\ [][SdevNext]_sdevVars
-----------------------------------------------------------------------------
(* However the guest's bytes are cut, the parser stands inside the message the *)
(* guest has not finished; the device is stopped only while a frame is queued,  *)
(* whose end wakes it up; every frame a client gets belongs to the stream it     *)
(* was told of; a client whose pipe is empty shows the channel's surface and     *)
(* stream; and an open device's guest program was told to start exactly when     *)
(* there is a client.                                                          *)
StreamInStep ==
    /\ ~sdev.error => InGuest >= 0
    /\ sdev.hdr = StreamHdr /\ ~sdev.error => sdev.msgs # <<>> /\ sdev.pos < Head(sdev.msgs).size
    /\ sdev.stopped => schan.items # {}
    /\ \A v \in Viewers :
          /\ ~view[v].wrong
          /\ view[v].on /\ view[v].pipe = <<>> =>
                view[v].surface = schan.w /\ (~view[v].late => view[v].stream = schan.id)
    /\ sdev.opened => (told = "start") = (ConnectedTo(Whole) # {})
=============================================================================
