---------------------------- MODULE ChannelClient ----------------------------
(***************************************************************************)
(* One connection of a channel (RedChannelClient, red-channel-client.cpp): *)
(* the pipe of items to send, sending with a socket that may be full, the  *)
(* window of unacknowledged messages, the watch that drives it, the        *)
(* latency test (ping), the connectivity monitor, and the waiting loops of *)
(* the worker thread.                                                      *)
(*                                                                         *)
(* All of it runs on the thread of the channel.  push() is cut into a step *)
(* per item; `loop' (during_send) keeps everything else of that thread out *)
(* until it has ended.  The client and the network run on their own.       *)
(***************************************************************************)
EXTENDS Naturals, Sequences, FiniteSets, Functions

CONSTANTS
  Kinds,             \* the kinds of channel, records of the features below
  Word,              \* 2^32, the modulus of messages_window
  MaxPipe            \* bound: pipe length when adding

\* Two windows and the two messages of one item are far from 2^32: the windows are 20, 40, or
\* what the migration data say.  Only the main channel starts the connectivity monitor, and
\* the main channel does not handle acks.
ASSUME ChannelAssumption ==
  /\ Word \in Nat /\ MaxPipe \in Nat
  /\ \A k \in Kinds :
       /\ {k.acks, k.drawables, k.ping, k.monitored, k.migrates, k.blocks} \subseteq BOOLEAN
       /\ {k.sendCap, k.recvCap, k.items} \subseteq Nat
       /\ \A w \in k.windows : w \in Nat /\ 0 < w /\ 2 * w + 2 < Word
       /\ k.monitored => ~k.acks

VARIABLES
  channel,                    \* the kind of this channel
  connected, mask, blockRead, \* is_connected; events of the watch; block_read
  pipe,                       \* the pipe, next item first
  sending,                    \* messages begun and not yet written: none, one, or urgent and main
  loop,                       \* during_send
  window, generation, clientGen, clientWindow,  \* ack_data
  opened,                     \* ack_zero_messages_window was called
  flushWait,                  \* wait_migrate_flush_mark
  ping, hasTimer,             \* latency_monitor.state, .timer # NULL
  monitor, gotBytes, sentBytes,  \* connectivity_monitor
  wait, marked,               \* the waiting loop being run; mark_item->item_sent
  sendq, recvq, toServer,     \* messages in the kernels, messages from the client
  cWindow, cCount,            \* the client's message_ack_window and message_ack_count
  peer,                       \* "up", "hung": reads nothing any more, "closed"
  added

watchVars  == <<connected, mask, blockRead>>
ackVars    == <<generation, clientGen, clientWindow, opened>>
pingVars   == <<ping, hasTimer>>
monVars    == <<monitor, gotBytes>>
waitVars   == <<wait, marked>>
clientVars == <<recvq, cWindow, cCount, peer>>
vars == <<channel, watchVars, pipe, sending, loop, window, ackVars, flushWait, pingVars, monVars, sentBytes,
          waitVars, sendq, toServer, clientVars, added>>

HandleAcks    == channel.acks       \* RedChannel::HandleAcks: display, cursor, stream
Drawables     == channel.drawables  \* items are removed, put between others, preceded by an urgent message: display
Windows       == channel.windows    \* values ack_set_client_window is given
HasPing       == channel.ping       \* a latency timer: the socket is not AF_UNIX
Monitored     == channel.monitored  \* start_connectivity_monitoring is called: the main channel
Waits         == channel.waits      \* the wait_* loops the channel's owner runs
Migrates      == channel.migrates   \* the server may migrate
BlocksReading == channel.blocks     \* the channel may refuse a receive buffer: spicevmc
SendCap       == channel.sendCap    \* messages the two kernels' socket buffers hold
RecvCap       == channel.recvCap
MaxItems      == channel.items      \* bound: items of the channel

Msg(k, n) == [k |-> k, n |-> n]
Item(k)   == [k |-> k, target |-> FALSE]

\* Pipe positions: before the i-th item, and without it.
Inserted(s, i, e) == SubSeq(s, 1, i - 1) \o <<e>> \o SubSeq(s, i, Len(s))
Without(s, i)     == SubSeq(s, 1, i - 1) \o SubSeq(s, i + 1, Len(s))

ItemKinds == {"data", "list", "setack", "ping", "migrate", "marker", "oldmarker"}
MsgKinds  == {"data", "urgent", "setack", "ping", "migrate"}
ReplyKinds == {"ack", "sync", "pong", "flush", "chan"}
Unsynced  == Word - 1

Init ==
  /\ channel \in Kinds
  /\ connected = TRUE /\ blockRead = FALSE
  /\ pipe = IF HandleAcks THEN <<Item("setack")>> ELSE <<>>
  /\ mask = IF HandleAcks THEN {"read", "write"} ELSE {"read"}
  /\ sending = <<>> /\ loop = FALSE
  /\ window = Word - 1 /\ generation = 0 /\ clientGen = Unsynced /\ clientWindow \in Windows
  /\ opened = FALSE /\ flushWait = FALSE
  /\ hasTimer = HasPing /\ ping = IF HasPing THEN "timer" ELSE "none"
  /\ monitor = "off" /\ gotBytes = FALSE /\ sentBytes = FALSE
  /\ wait = "no" /\ marked = FALSE
  /\ sendq = <<>> /\ recvq = <<>> /\ toServer = <<>>
  /\ cWindow = 0 /\ cCount = 0 /\ peer = "up" /\ added = 0

Idle      == connected /\ ~loop /\ wait = "no"
Blocked   == sending # <<>>
WaitForAck(win) == HandleAcks /\ win > (2 * clientWindow) % Word
waiting_for_ack == WaitForAck(window)

Masked(events) == IF blockRead THEN events \ {"read"} ELSE events

-----------------------------------------------------------------------------
(* Latency test timer *)

Cancelled(p) == IF hasTimer /\ p = "timer" THEN "none" ELSE p
StartedAgain(p) == IF hasTimer THEN "timer" ELSE p

Started(p)   == IF hasTimer /\ p = "none" THEN "timer" ELSE p

-----------------------------------------------------------------------------
(* Sending *)

SendCapLeft == SendCap - Len(sendq)

\* Writing stops at a full socket; the rest stays in `sending', and the channel is blocked.
Written(msgs) == IF Len(msgs) <= SendCapLeft THEN Len(msgs) ELSE SendCapLeft

\* begin_send_message counts a message when it is begun, not when it is written.
CountWhenWritten(msgs) == Written(msgs)

Begun(msgs) ==
  IF Written(msgs) < Len(msgs) THEN Written(msgs) + 1 ELSE Len(msgs)

\* data_sent.
SentSome == sentBytes \/ monitor # "off"

\* begin_send_message, handle_outgoing and msg_sent for an item's messages: `from' is the
\* window to count from (nobody reads it unless the channel handles acks), `already' the messages of them that were begun before.  An urgent
\* message is followed by the main one as soon as it is written.  `rest' is the pipe left.
Transmit(msgs, from, already, rest) ==
  /\ sendq' = sendq \o SubSeq(msgs, 1, Written(msgs))
  /\ sending' = SubSeq(msgs, Written(msgs) + 1, Len(msgs))
  /\ window' = IF HandleAcks THEN (from + Begun(msgs) - already) % Word ELSE window
  /\ LET cancelled == IF Begun(msgs) > already THEN Cancelled(ping) ELSE ping
     IN  ping' = IF sending' = <<>> /\ rest = <<>> THEN Started(cancelled) ELSE cancelled
  /\ sentBytes' \in IF Written(msgs) > 0 THEN {SentSome} ELSE {sentBytes, SentSome}

Messages(item) ==
  CASE item.k = "list"   -> <<Msg("urgent", 0), Msg("data", 0)>>
    [] item.k = "setack" -> <<Msg("setack", clientWindow)>>
    [] OTHER             -> <<Msg(item.k, 0)>>

\* push(): first the blocked message is resumed.  While the socket is full that changes nothing
\* but, possibly, sent_bytes.  `win' is the window and `rest' the pipe at the call.
Push(win, rest) ==
  /\ ~loop /\ loop' = TRUE
  /\ IF Blocked
     THEN Transmit(sending, win, 1, rest)
     ELSE window' = win /\ UNCHANGED <<sendq, sending, ping, sentBytes>>

\* The WRITE event of red_channel_client_event.
WriteEvent ==
  /\ Idle /\ "write" \in mask /\ SendCapLeft > 0 /\ peer # "closed"
  /\ Push(window, pipe)
  /\ UNCHANGED <<channel, watchVars, pipe, ackVars, flushWait, hasTimer, monVars, waitVars, toServer, clientVars, added>>

\* pipe_item_get succeeds: send_any_item.  Sending a drawable may put another item before the
\* rest of the pipe (pipe_add_tail): a drawable of its own, an entry dropped from a cache.
ItemReady == ~Blocked /\ ~waiting_for_ack /\ pipe # <<>>

Extra(item) == IF Drawables /\ item.k = "data" /\ added < MaxItems THEN {<<>>, <<Item("data")>>} ELSE {<<>>}

PushItem ==
  /\ loop /\ connected /\ ItemReady
  /\ LET item == Head(pipe) IN
     \E extra \in Extra(item) :
       /\ pipe' = extra \o Tail(pipe)
       /\ added' = added + Len(extra)
       /\ mask' = IF extra # <<>> /\ Tail(pipe) = <<>> THEN Masked({"read", "write"}) ELSE mask
       /\ IF item.k \in {"marker", "oldmarker"}
          THEN /\ marked' = (marked \/ item.k = "marker")
               /\ UNCHANGED <<sendq, sending, window, ping, sentBytes, generation, flushWait>>
          ELSE /\ Transmit(Messages(item), IF item.k = "setack" THEN 0 ELSE window, 0, pipe')
               /\ generation' = IF item.k = "setack" THEN (generation + 1) % Word ELSE generation
               /\ flushWait' = (flushWait \/ item.k = "migrate")
               /\ UNCHANGED marked
  /\ UNCHANGED <<channel, connected, blockRead, loop, clientGen, clientWindow, opened, hasTimer, monVars, wait, toServer,
                 clientVars>>

\* The end of push(): no WRITE events while there is nothing to write, or an ack is awaited.
MaskAfterPush ==
  IF (~Blocked /\ pipe = <<>>) \/ waiting_for_ack THEN Masked({"read"}) ELSE mask

PushEnd ==
  /\ loop /\ ~(connected /\ ItemReady)
  /\ loop' = FALSE
  /\ mask' = IF connected THEN MaskAfterPush ELSE mask
  /\ UNCHANGED <<channel, connected, blockRead, pipe, sending, window, ackVars, flushWait, pingVars, monVars,
                 sentBytes, waitVars, sendq, toServer, clientVars, added>>

-----------------------------------------------------------------------------
(* Adding and removing items *)

NeverEnable == mask

\* prepare_pipe_add.
MaskForAdd == IF pipe = <<>> THEN Masked({"read", "write"}) ELSE mask

\* pipe_add, pipe_add_push ("push"), and pipe_add_after, pipe_add_after_pos ("next"), which put
\* the item before a drawable that is waiting.
AddItem(kind, how) ==
  /\ Idle /\ added < MaxItems /\ Len(pipe) < MaxPipe /\ (Drawables \/ (kind = "data" /\ how # "next"))
  /\ added' = added + 1
  /\ mask' = MaskForAdd
  /\ \E at \in IF how = "next" THEN {i \in DOMAIN pipe : pipe[i].k = "data"} ELSE {Len(pipe) + 1} :
        pipe' = Inserted(pipe, at, Item(kind))
  /\ IF how = "push"
     THEN Push(window, pipe')
     ELSE UNCHANGED <<loop, sendq, sending, window, ping, sentBytes>>
  /\ UNCHANGED <<channel, connected, blockRead, ackVars, flushWait, hasTimer, monVars, waitVars, toServer, clientVars>>

\* pipe_remove_and_release: a drawable that is covered by another before it was sent.
RemoveItem ==
  /\ Idle /\ Drawables
  /\ \E i \in DOMAIN pipe : pipe[i].k = "data" /\ pipe' = Without(pipe, i)
  /\ UNCHANGED <<channel, watchVars, sending, loop, window, ackVars, flushWait, pingVars, monVars, sentBytes,
                 waitVars, sendq, toServer, clientVars, added>>

\* ack_zero_messages_window, once: on connection, when the client's first message has come
\* (display), or with the migration data, which may set the window first.
ZeroWindow ==
  /\ Idle /\ ~opened /\ opened' = TRUE
  /\ clientWindow' \in Windows
  /\ mask' = Masked({"read", "write"})
  /\ window' = IF HandleAcks THEN 0 ELSE window
  /\ UNCHANGED <<channel, connected, blockRead, pipe, sending, loop, generation, clientGen, flushWait, pingVars, monVars,
                 sentBytes, waitVars, sendq, toServer, clientVars, added>>

\* RedChannelClient::migrate.
Migrate ==
  /\ Idle /\ Migrates /\ added < MaxItems /\ added' = added + 1
  /\ ~flushWait /\ \A i \in DOMAIN pipe : pipe[i].k # "migrate"
  /\ ping' = Cancelled(ping) /\ hasTimer' = FALSE /\ monitor' = "off"
  /\ mask' = MaskForAdd /\ pipe' = Append(pipe, Item("migrate"))
  /\ UNCHANGED <<channel, connected, blockRead, sending, loop, window, ackVars, flushWait, gotBytes, sentBytes,
                 waitVars, sendq, toServer, clientVars>>

-----------------------------------------------------------------------------
(* Timers *)

\* SIOCOUTQ: the client's kernel has not taken everything yet.
Unsent == sendq # <<>>

\* ping_timer and push_ping.
PingTimer ==
  /\ Idle /\ hasTimer /\ ping = "timer"
  /\ IF Unsent
     THEN UNCHANGED <<ping, pipe, mask>>
     ELSE /\ ping' = "warmup" /\ mask' = MaskForAdd
          /\ pipe' = pipe \o <<Item("ping"), Item("ping")>>
  /\ UNCHANGED <<channel, connected, blockRead, sending, loop, window, ackVars, flushWait, hasTimer, monVars, sentBytes,
                 waitVars, sendq, toServer, clientVars, added>>

\* start_connectivity_monitoring.
StartMonitoring ==
  /\ Idle /\ Monitored /\ monitor = "off" /\ hasTimer
  /\ monitor' = "connected"
  /\ ping' = Started(Cancelled(ping))
  /\ UNCHANGED <<channel, watchVars, pipe, sending, loop, window, ackVars, flushWait, hasTimer, gotBytes, sentBytes,
                 waitVars, sendq, toServer, clientVars, added>>

\* RedChannelClient::disconnect: the pipe, the message being sent, the watch and the timers go.
Disconnected ==
  /\ connected' = FALSE /\ mask' = {} /\ pipe' = <<>> /\ sending' = <<>>
  /\ hasTimer' = FALSE /\ monitor' = "off"

ConnTested == ping \in {"warmup", "latency"}

Dead ==
  \/ monitor = "blocked" /\ ~gotBytes /\ ~sentBytes
  \/ monitor = "wait_pong" /\ ~gotBytes

\* connectivity_timer.
ConnectivityTimer ==
  /\ Idle /\ monitor # "off"
  /\ IF Dead
     THEN Disconnected /\ UNCHANGED <<gotBytes, sentBytes>>
     ELSE /\ gotBytes' = FALSE /\ sentBytes' = FALSE
          /\ monitor' = IF Blocked \/ waiting_for_ack THEN "blocked"
                        ELSE IF ConnTested THEN "wait_pong" ELSE "connected"
          /\ UNCHANGED <<connected, mask, pipe, sending, hasTimer>>
  /\ UNCHANGED <<channel, blockRead, loop, window, ackVars, flushWait, ping, waitVars, sendq, toServer, clientVars, added>>

-----------------------------------------------------------------------------
(* Receiving *)

Reading == connected /\ ~loop /\ (wait # "no" \/ "read" \in mask)

\* handle_pong.
AfterPongIdle(p) ==
  CASE p = "warmup"  -> "latency"
    [] p = "latency" -> "none"
    [] OTHER         -> p

AfterPong(p) ==
  CASE p = "warmup"  -> "latency"
    [] p = "latency" -> IF hasTimer THEN "timer" ELSE "none"
    [] OTHER         -> p

Acked(win) == (win + Word - clientWindow) % Word

\* handle_incoming and handle_message for the next message of the client: an ack of the
\* current generation, any other message.
Take(m) ==
  /\ Reading /\ toServer # <<>> /\ peer # "closed"
  /\ m = Head(toServer) /\ toServer' = Tail(toServer)
  /\ gotBytes' = (gotBytes \/ monitor # "off")
  /\ UNCHANGED <<channel, connected, blockRead, pipe, generation, clientWindow, opened, hasTimer, monitor, waitVars,
                 clientVars, added>>

CurrentAck(m) == m.k = "ack" /\ clientGen = generation

ReceiveAck ==
  \E m \in Range(toServer) :
    /\ CurrentAck(m) /\ Take(m)
    /\ mask' = Masked({"read", "write"})
    /\ Push(Acked(window), pipe)
    /\ UNCHANGED <<clientGen, flushWait>>

ReceiveOther ==
  \E m \in Range(toServer) :
    /\ ~CurrentAck(m) /\ Take(m)
    /\ clientGen' = IF m.k = "sync" THEN m.n ELSE clientGen
    /\ flushWait' = IF m.k = "flush" THEN FALSE ELSE flushWait
    /\ ping' = IF m.k = "pong" THEN AfterPong(ping) ELSE ping
    /\ UNCHANGED <<mask, window, loop, sendq, sending, sentBytes>>

\* block_read, when alloc_recv_buf has no buffer for the next message, and unblock_read when
\* the device can take more.
NothingMask == {}

BlockedMask == {"write"}

BlockRead ==
  /\ Reading /\ BlocksReading /\ ~blockRead
  /\ blockRead' = TRUE /\ mask' = BlockedMask
  /\ UNCHANGED <<channel, connected, pipe, sending, loop, window, ackVars, flushWait, pingVars, monVars, sentBytes, waitVars,
                 sendq, toServer, clientVars, added>>

UnblockRead ==
  /\ Idle /\ blockRead
  /\ blockRead' = FALSE /\ mask' = {"read", "write"}
  /\ UNCHANGED <<channel, connected, pipe, sending, loop, window, ackVars, flushWait, pingVars, monVars, sentBytes, waitVars,
                 sendq, toServer, clientVars, added>>

\* A read or write fails: disconnect().
ConnectionLost ==
  /\ connected /\ peer = "closed"
  /\ loop \/ wait # "no" \/ mask # {}
  /\ Disconnected
  /\ UNCHANGED <<channel, blockRead, loop, window, ackVars, flushWait, ping, gotBytes, sentBytes, waitVars, sendq, toServer,
                 clientVars, added>>

-----------------------------------------------------------------------------
(* Waiting loops of the channel's thread *)

\* wait_pipe_item_sent, wait_outgoing_item and RedChannel::wait_all_sent: each runs receive()
\* and push() or send() until it is satisfied or its time is up.
MarkerBefore(i) == i

MarkerAt(i) == i + 1

StartWaitItem ==
  /\ Idle /\ "item" \in Waits /\ Len(pipe) < MaxPipe
  /\ \E i \in DOMAIN pipe :
        /\ pipe[i].k = "data"
        /\ pipe' = Inserted([pipe EXCEPT ![i].target = TRUE], MarkerAt(i), Item("marker"))
  /\ wait' = "item" /\ marked' = FALSE
  /\ UNCHANGED <<channel, watchVars, sending, loop, window, ackVars, flushWait, pingVars, monVars, sentBytes, sendq, toServer,
                 clientVars, added>>

StartWait(w) ==
  /\ Idle /\ w \in Waits \ {"item"} /\ wait' = w
  /\ Blocked \/ (w = "all" /\ pipe # <<>>)
  /\ UNCHANGED <<channel, watchVars, pipe, sending, loop, window, ackVars, flushWait, pingVars, monVars, sentBytes, marked,
                 sendq, toServer, clientVars, added>>

\* push() in the loop, when it has an effect.
WaitPush ==
  /\ wait \in {"item", "all"} /\ connected /\ peer # "closed"
  /\ (Blocked /\ SendCapLeft > 0) \/ ItemReady \/ mask # MaskAfterPush
  /\ Push(window, pipe)
  /\ UNCHANGED <<channel, watchVars, pipe, ackVars, flushWait, hasTimer, monVars, waitVars, toServer, clientVars, added>>

\* send() in the loop.
WaitSend ==
  /\ wait \in {"outgoing", "all"} /\ ~loop /\ Blocked /\ SendCapLeft > 0 /\ peer # "closed"
  /\ Transmit(sending, window, 1, pipe)
  /\ UNCHANGED <<channel, watchVars, pipe, loop, ackVars, flushWait, hasTimer, monVars, waitVars, toServer, clientVars, added>>

Satisfied ==
  CASE wait = "item"     -> marked
    [] wait = "outgoing" -> ~Blocked
    [] wait = "all"      -> ~Blocked /\ pipe = <<>>
    [] OTHER             -> FALSE

WaitDone ==
  /\ ~loop /\ Satisfied /\ wait' = "no"
  /\ UNCHANGED <<channel, watchVars, pipe, sending, loop, window, ackVars, flushWait, pingVars, monVars, sentBytes, marked,
                 sendq, toServer, clientVars, added>>

\* The marker stays in the pipe, of no interest to anybody.
Unmark(item) == [k |-> IF item.k = "marker" THEN "oldmarker" ELSE item.k, target |-> FALSE]

\* Time is up; wait_all_sent disconnects the clients it waits for.
WaitTimeout ==
  /\ ~loop /\ wait # "no" /\ ~Satisfied
  /\ wait' = "no"
  /\ IF wait = "all" /\ connected
     THEN Disconnected
     ELSE /\ pipe' = [i \in DOMAIN pipe |-> Unmark(pipe[i])]
          /\ UNCHANGED <<connected, mask, sending, hasTimer, monitor>>
  /\ UNCHANGED <<channel, blockRead, loop, window, ackVars, flushWait, ping, gotBytes, sentBytes, marked, sendq, toServer,
                 clientVars, added>>

-----------------------------------------------------------------------------
(* The network and the client *)

serverVars == <<channel, watchVars, pipe, sending, loop, window, ackVars, flushWait, pingVars, monVars, sentBytes, waitVars, added>>

NetMove ==
  /\ sendq # <<>> /\ Len(recvq) < RecvCap /\ peer # "closed"
  /\ sendq' = Tail(sendq) /\ recvq' = Append(recvq, Head(sendq))
  /\ UNCHANGED <<serverVars, toServer, cWindow, cCount, peer>>

Reply(m) ==
  CASE m.k = "setack"  -> <<Msg("sync", 1)>>
    [] m.k = "ping"    -> <<Msg("pong", 0)>>
    [] m.k = "migrate" -> <<Msg("flush", 0)>>
    [] OTHER           -> <<>>

\* The client counts every message before it handles it, and acknowledges the last of a window.
ClientRead ==
  /\ peer = "up" /\ recvq # <<>>
  /\ recvq' = Tail(recvq)
  /\ LET m == Head(recvq)
         ack == IF cCount = 1 THEN <<Msg("ack", 0)>> ELSE <<>>
     IN  /\ toServer' = toServer \o ack \o Reply(m)
         /\ cWindow' = IF m.k = "setack" THEN m.n ELSE cWindow
         /\ cCount' = IF m.k = "setack" THEN m.n
                      ELSE IF cCount = 1 THEN cWindow
                      ELSE IF cCount = 0 THEN 0 ELSE cCount - 1
  /\ UNCHANGED <<serverVars, sendq, peer>>

\* A message of the channel's own protocol.
ClientSend ==
  /\ peer = "up" /\ ~HandleAcks /\ toServer = <<>> /\ toServer' = <<Msg("chan", 0)>>
  /\ UNCHANGED <<serverVars, sendq, clientVars>>

PeerStops(how) ==
  /\ peer = "up" /\ peer' = how
  /\ UNCHANGED <<serverVars, sendq, toServer, recvq, cWindow, cCount>>

-----------------------------------------------------------------------------
Server ==
  \/ WriteEvent \/ PushItem \/ PushEnd \/ RemoveItem \/ ZeroWindow \/ Migrate
  \/ \E kind \in {"data", "list"}, how \in {"add", "push", "next"} : AddItem(kind, how)
  \/ PingTimer \/ StartMonitoring \/ ConnectivityTimer
  \/ ReceiveAck \/ ReceiveOther \/ BlockRead \/ UnblockRead \/ ConnectionLost
  \/ StartWaitItem \/ WaitPush \/ WaitSend \/ WaitDone \/ WaitTimeout
  \/ \E w \in {"outgoing", "all"} : StartWait(w)

Environment ==
  \/ NetMove \/ ClientRead \/ ClientSend
  \/ \E how \in {"hung", "closed"} : PeerStops(how)

Next == Server \/ Environment

Spec == Init /\ [][Next]_vars

\* The event loop serves its sources, the timers fire, a waiting loop goes on; the network
\* delivers and a client that is up reads.
Fairness ==
  /\ WF_vars(WriteEvent) /\ WF_vars(PushItem) /\ WF_vars(PushEnd) /\ WF_vars(ZeroWindow)
  /\ WF_vars(PingTimer) /\ WF_vars(StartMonitoring) /\ WF_vars(ConnectivityTimer)
  /\ WF_vars(ReceiveAck) /\ WF_vars(ReceiveOther) /\ WF_vars(ConnectionLost)
  /\ WF_vars(WaitPush) /\ WF_vars(WaitSend) /\ WF_vars(WaitDone) /\ WF_vars(WaitTimeout)
  /\ WF_vars(NetMove) /\ WF_vars(ClientRead)

FairSpec == Spec /\ Fairness

-----------------------------------------------------------------------------
(* Properties *)

\* Messages on their way to the client, oldest first; and with the one being written.
Path  == recvq \o sendq
Begun1 == Path \o (IF Blocked THEN <<Head(sending)>> ELSE <<>>)

Count(seq, kind) == Cardinality({j \in DOMAIN seq : seq[j].k = kind})
SetAckAt(seq) == {j \in DOMAIN seq : seq[j].k = "setack"}

\* Type invariant.
TypeOK ==
  /\ channel \in Kinds /\ connected \in BOOLEAN /\ mask \subseteq {"read", "write"} /\ blockRead \in BOOLEAN
  /\ pipe \in Seq([k : ItemKinds, target : BOOLEAN])
  /\ sending \in Seq([k : MsgKinds, n : Nat]) /\ Len(sending) <= 2 /\ loop \in BOOLEAN
  /\ window \in 0 .. Word - 1 /\ generation \in 0 .. 1 /\ clientGen \in {1, Unsynced}
  /\ clientWindow \in Windows /\ opened \in BOOLEAN /\ flushWait \in BOOLEAN
  /\ ping \in {"none", "timer", "warmup", "latency"} /\ hasTimer \in BOOLEAN
  /\ monitor \in {"off", "connected", "blocked", "wait_pong"} /\ gotBytes \in BOOLEAN /\ sentBytes \in BOOLEAN
  /\ wait \in {"no", "item", "outgoing", "all"} /\ marked \in BOOLEAN
  /\ sendq \in Seq([k : MsgKinds, n : Nat]) /\ Len(sendq) <= SendCap
  /\ recvq \in Seq([k : MsgKinds, n : Nat]) /\ Len(recvq) <= RecvCap
  /\ toServer \in Seq([k : ReplyKinds, n : Nat]) /\ cWindow \in Nat /\ cCount \in Nat
  /\ peer \in {"up", "hung", "closed"} /\ added \in 0 .. MaxItems

\* messages_window is exactly the number of messages begun since SET_ACK that the client has
\* not acknowledged, whatever is on its way: the unsigned subtraction in handle_message never
\* wraps, and no more than two windows (and the two messages of one item) are outstanding.
AckAccounting ==
  (connected /\ HandleAcks /\ generation = 1) =>
     /\ window <= 2 * clientWindow + 2
     /\ IF SetAckAt(Begun1) # {}
        THEN \A j \in SetAckAt(Begun1) : window = Len(Begun1) - j + 1
        ELSE window = 1 + (cWindow - cCount) + Len(Begun1) + cWindow * Count(toServer, "ack")

\* An acknowledgement will come without the server writing anything more.
AckComing ==
  \/ Count(toServer, "ack") > 0
  \/ IF SetAckAt(Path) # {}
     THEN \E j \in SetAckAt(Path) : Len(Path) - j >= clientWindow
     ELSE cWindow > 0 /\ Len(Path) >= cCount

\* push() removes WRITE from the watch while there is something to write only when an
\* acknowledgement is awaited that will come by itself (or the window is not open yet): a
\* message half written when the window closed does not wait for an event nobody asked for.
NoLostWakeup ==
  (Idle /\ (Blocked \/ pipe # <<>>) /\ "write" \notin mask) =>
     waiting_for_ack /\ (AckComing \/ ~opened)

\* wait_pipe_item_sent reports the item sent only when the item's messages were written
\* completely.
MarkerAfterItem ==
  [][(~marked /\ marked') => sending = <<>> /\ \A i \in DOMAIN pipe : ~pipe[i].target]_vars

\* The PINGs in the pipe, on the wire and answered are those of the test in progress: a PONG is
\* never counted for another test, and handle_pong meets no unexpected one.  And
\* connectivity_timer never meets the "mismatch between rcc-state and connectivity-state": a
\* channel seen blocked, or waiting for a PONG, is still so if no byte went through since.
TimersMatch ==
  /\ connected =>
       Count(pipe, "ping") + Count(sending, "ping") + Count(Path, "ping") + Count(toServer, "pong")
         = CASE ping = "warmup" -> 2 [] ping = "latency" -> 1 [] OTHER -> 0
  /\ (connected /\ ~loop /\ wait = "no") =>
       /\ (monitor = "blocked" /\ ~gotBytes /\ ~sentBytes) => (Blocked \/ waiting_for_ack)
       /\ (monitor = "wait_pong" /\ ~gotBytes) => ConnTested

\* Whatever is put into the pipe is written in the end, if the client reads: no ordering of
\* events, full sockets and acknowledgements leaves an item behind.  (A thread that runs its
\* waiting loops over and over need not get to writing.)
AllSent == []<>(Waits # {} \/ ~connected \/ peer # "up" \/ (pipe = <<>> /\ sending = <<>>))

\* A client of a monitored channel that stops reading is disconnected in the end.
HungClientDropped == (peer = "hung" /\ monitor # "off") ~> (~connected \/ monitor = "off")

-----------------------------------------------------------------------------
(* What the comments say and TLC refutes *)

\* begin_send_message cancels the latency timer "till the nework is idle": an idle connection
\* has a latency test planned or in progress.
PingTimerWhenIdle ==
  (Idle /\ hasTimer /\ pipe = <<>> /\ sending = <<>>) => ping # "none"

=============================================================================
