----------------------------- MODULE CharDevice -----------------------------
(***************************************************************************)
(* RedCharDevice (server/char-device.cpp): the flow control shared by the  *)
(* guest agent port, USB redirection, smartcard and stream devices.        *)
(*                                                                         *)
(* Everything runs on the main thread, so an operation called from the     *)
(* event loop starts only when no other one is running (stack = <<>>).     *)
(* The two loops, write_to_device and red_char_device_read_from_device,    *)
(* call into the device, and the device may call wakeup() back: the calls  *)
(* in progress are the entries of `stack' (top first).  "callW" and        *)
(* "callR" are calls about to be made, "write" and "read" are loops in     *)
(* progress ("readNone" once a read found nothing), "startW" and "startR"  *)
(* are the two tests of start()'s loop.                                    *)
(***************************************************************************)
EXTENDS Integers, Sequences, FiniteSets

CONSTANTS
  Clients,       \* the clients that may be attached (RedCharDeviceClientOpaque)
  FlowControl,   \* do_flow_control of each client
  Bufs,          \* identities of the write buffers that can be alive at once
  Window,        \* num_client_tokens given to a client (REDS_AGENT_WINDOW_SIZE)
  Interval,      \* client_tokens_interval (REDS_TOKENS_TO_SEND)
  SelfTokens,    \* num_self_tokens of the device
  MaxSendQueue,  \* max_send_queue_size
  MaxSend,       \* bound: send tokens a client can hold
  BufLen,        \* bound: units of data in one write buffer
  MaxAvail,      \* bound: messages waiting in the device
  Nil, Self, NoToken, None   \* no buffer; the origins SERVER, SERVER_NO_TOKEN, NONE

ASSUME CharDeviceAssumption ==
  /\ FlowControl \in [Clients -> BOOLEAN]
  /\ IsFiniteSet(Bufs) /\ Nil \notin Bufs
  /\ {Self, NoToken, None} \cap Clients = {} /\ Self # NoToken /\ Self # None
  /\ NoToken # None
  /\ Window \in Nat /\ Interval \in Nat \ {0} /\ SelfTokens \in Nat
  /\ MaxSendQueue \in Nat /\ MaxSend \in Nat /\ BufLen \in Nat \ {0}
  /\ MaxAvail \in Nat

VARIABLES
  running, active, waitMig,  \* running, active, wait_for_migrate_data
  attached,                  \* sin # NULL
  writeQueue,                \* write_queue, the next buffer to write first
  cur, rem, price,           \* cur_write_buf, its unwritten units, its token_price
  held,                      \* buffers handed to a caller, neither added nor released
  owner,                     \* origin and client of each live buffer
  writeTimer,                \* write_to_dev_timer is armed
  selfTokens, pending,       \* num_self_tokens; a server message waits for one
  clients, tokens, free,     \* clients; num_client_tokens; num_client_tokens_free
  sendTokens, sendQueue,     \* num_send_tokens; length of send_queue
  waitTokens,                \* wait_for_tokens_started
  kicked,                    \* clients whose channel was told to shut down
  stack, ret,                \* calls in progress, result of the last one
  duringWrite, duringRead,   \* during_write_to_device, during_read_from_device (2 = "> 1")
  total, didRead, maxTok,    \* locals of the two loops (maxTok -1 stands for ~0)
  avail, signal              \* messages in the device; it owes us a wakeup()

bufVars  == <<writeQueue, cur, rem, price, held, owner, selfTokens, pending>>
ctlVars  == <<running, active, waitMig, attached>>
cliVars  == <<clients, tokens, free, sendTokens, sendQueue, waitTokens, kicked>>
loopVars == <<stack, ret, duringWrite, duringRead, total, didRead, maxTok>>
envVars  == <<avail, signal>>
vars     == <<bufVars, ctlVars, writeTimer, cliVars, loopVars, envVars>>

Queued == {writeQueue[i] : i \in DOMAIN writeQueue}
Live   == held \cup Queued \cup ({cur} \ {Nil})
Idle   == stack = <<>>
Top(e) == stack # <<>> /\ Head(stack) = e
Call(calls) == stack' = calls \o stack

\* Returns v to the caller; nobody looks at what the outermost call returns.
Return(v) == /\ stack' = Tail(stack)
             /\ ret' = (v /\ Tail(stack) # <<>>)

Init ==
  /\ running = FALSE /\ active = FALSE /\ waitMig = FALSE /\ attached = FALSE
  /\ writeQueue = <<>> /\ cur = Nil /\ rem = 0 /\ price = 0 /\ held = {}
  /\ owner = [b \in Bufs |-> None]
  /\ writeTimer = FALSE /\ selfTokens = SelfTokens /\ pending = FALSE
  /\ clients = {} /\ kicked = {}
  /\ tokens = [c \in Clients |-> 0] /\ free = [c \in Clients |-> 0]
  /\ sendTokens = [c \in Clients |-> 0] /\ sendQueue = [c \in Clients |-> 0]
  /\ waitTokens = [c \in Clients |-> FALSE]
  /\ stack = <<>> /\ ret = FALSE /\ duringWrite = 0 /\ duringRead = 0
  /\ total = FALSE /\ didRead = FALSE /\ maxTok = 0
  /\ avail = 0 /\ signal = FALSE

-----------------------------------------------------------------------------
(* Reading from the device *)

CanSendToClient(c) == ~FlowControl[c] \/ sendTokens[c] > 0

\* red_char_device_max_send_tokens, as a set of one value: -1 is ~0, given by a client
\* without flow control.
MaxSendTokens ==
  IF \E c \in clients : ~FlowControl[c] THEN {-1}
  ELSE IF clients = {} THEN {0}
  ELSE {m \in {sendTokens[c] : c \in clients} : \A c \in clients : sendTokens[c] =< m}

\* max_send_tokens--, an unsigned decrement: 0 becomes ~0.
DecMax(m) == IF m = -1 THEN -1 ELSE m - 1

\* red_char_device_read_from_device up to its loop.
CallRead ==
  /\ Top("callR")
  /\ IF ~running \/ waitMig \/ ~attached
     THEN /\ Return(FALSE)
          /\ UNCHANGED <<duringRead, didRead, maxTok>>
     ELSE IF duringRead > 0
     THEN /\ Return(FALSE) /\ duringRead' = 2
          /\ UNCHANGED <<didRead, maxTok>>
     ELSE /\ stack' = <<"read">> \o Tail(stack)
          /\ duringRead' = 1 /\ didRead' = FALSE /\ maxTok' \in MaxSendTokens
          /\ UNCHANGED ret
  /\ UNCHANGED <<bufVars, ctlVars, writeTimer, cliVars, duringWrite, total, envVars>>

ReadAgain == (maxTok # 0 \/ clients = {}) /\ running

\* The test of red_char_device_add_msg_to_client_queue.
QueueFull(c) == sendQueue[c] >= MaxSendQueue

\* One message read and passed to every client (red_char_device_send_msg_to_clients):
\* sent at the price of a token, or queued, or the client is told to go away.
ReadMessage ==
  LET sent == {c \in clients : CanSendToClient(c)}
      over == {c \in clients \ sent : QueueFull(c)}
      push == clients \ (sent \cup over)
  IN /\ Top("read") /\ ReadAgain /\ avail > 0
     /\ avail' = avail - 1
     /\ sendTokens' = [c \in Clients |-> IF c \in sent /\ FlowControl[c]
                                         THEN sendTokens[c] - 1 ELSE sendTokens[c]]
     /\ sendQueue' = [c \in Clients |-> IF c \in push THEN sendQueue[c] + 1 ELSE sendQueue[c]]
     /\ waitTokens' = [c \in Clients |-> waitTokens[c] \/ c \in push]
     /\ kicked' = kicked \cup over
     /\ didRead' = TRUE /\ maxTok' = DecMax(maxTok)
     /\ UNCHANGED <<bufVars, ctlVars, writeTimer, clients, tokens, free, stack, ret,
                    duringWrite, duringRead, total, signal>>

\* read_one_msg_from_device finds nothing; before it returns the device may call wakeup().
ReadNothing ==
  /\ Top("read") /\ ReadAgain /\ avail = 0
  /\ stack' = <<"readNone">> \o Tail(stack)
  /\ UNCHANGED <<bufVars, ctlVars, writeTimer, cliVars, ret, duringWrite, duringRead,
                 total, didRead, maxTok, envVars>>

WokenNever == FALSE

\* A wakeup was called during the read.
WokenDuringRead == duringRead > 1

\* "make sure it doesn't get lost": go round once more.
ReadRetry ==
  /\ Top("readNone") /\ WokenDuringRead
  /\ duringRead' = 1
  /\ stack' = <<"read">> \o Tail(stack)
  /\ UNCHANGED <<bufVars, ctlVars, writeTimer, cliVars, ret, duringWrite,
                 total, didRead, maxTok, envVars>>

\* The loop ends.
ReadExit ==
  /\ \/ Top("read") /\ ~ReadAgain
     \/ Top("readNone") /\ ~WokenDuringRead
  /\ duringRead' = 0 /\ Return(didRead) /\ didRead' = FALSE /\ maxTok' = 0
  /\ active' = (active \/ (running /\ didRead))
  /\ UNCHANGED <<bufVars, running, waitMig, attached, writeTimer, cliVars,
                 duringWrite, total, envVars>>

\* red_char_device_client_send_queue_push: how many queued messages n tokens let go.
SendQueuePush(c, n) == IF sendQueue[c] < n THEN sendQueue[c] ELSE n

\* red_char_device_send_to_client_tokens_absorb with its reset argument: the client
\* grants n messages; the queued ones are sent first, then the device is read.
TokensAbsorb(c, n, reset) ==
  LET base == (IF reset THEN 0 ELSE sendTokens[c]) + n
      k    == SendQueuePush(c, base)
      can  == base > k
  IN /\ Idle /\ c \in clients /\ FlowControl[c] /\ base =< MaxSend
     /\ sendTokens' = [sendTokens EXCEPT ![c] = base - k]
     /\ sendQueue'  = [sendQueue EXCEPT ![c] = @ - k]
     /\ waitTokens' = [waitTokens EXCEPT ![c] =
                         IF can THEN FALSE ELSE IF sendQueue[c] > k THEN TRUE ELSE @]
     /\ stack' = IF can THEN <<"callR">> ELSE <<>>
     /\ UNCHANGED <<bufVars, ctlVars, writeTimer, clients, tokens, free, kicked, ret,
                    duringWrite, duringRead, total, didRead, maxTok, envVars>>

\* device_client_wait_for_tokens_timeout
TokensTimeout(c) ==
  /\ Idle /\ c \in clients \ kicked /\ waitTokens[c]
  /\ kicked' = kicked \cup {c}
  /\ UNCHANGED <<bufVars, ctlVars, writeTimer, clients, tokens, free, sendTokens,
                 sendQueue, waitTokens, loopVars, envVars>>

-----------------------------------------------------------------------------
(* Writing to the device *)

TokensAddTwice(c, p) ==
  LET f == free[c] + p
  IN /\ free' = [free EXCEPT ![c] = f % Interval]
     /\ tokens' = [tokens EXCEPT ![c] = @ + f]

\* red_char_device_client_tokens_add: p tokens of client c are free again, and are
\* given back once Interval of them are.
TokensAdd(c, p) ==
  LET f == free[c] + p
  IN IF f >= Interval
     THEN /\ tokens' = [tokens EXCEPT ![c] = @ + f]
          /\ free'   = [free EXCEPT ![c] = 0]
     ELSE /\ free'   = [free EXCEPT ![c] = f]
          /\ UNCHANGED tokens

\* write_to_device up to its loop.
CallWrite ==
  /\ Top("callW")
  /\ IF ~running \/ waitMig \/ ~attached
     THEN /\ Return(FALSE)
          /\ UNCHANGED <<duringWrite, total, writeTimer>>
     ELSE IF duringWrite > 0
     THEN /\ Return(FALSE) /\ duringWrite' = 2
          /\ UNCHANGED <<total, writeTimer>>
     ELSE /\ stack' = <<"write">> \o Tail(stack)
          /\ duringWrite' = 1 /\ total' = FALSE /\ writeTimer' = FALSE
          /\ UNCHANGED ret
  /\ UNCHANGED <<bufVars, ctlVars, cliVars, duringRead, didRead, maxTok, envVars>>

WritePop ==
  /\ Top("write") /\ running /\ cur = Nil /\ writeQueue # <<>>
  /\ cur' = Head(writeQueue) /\ writeQueue' = Tail(writeQueue)
  /\ rem' \in 1..BufLen /\ price' = 1
  /\ UNCHANGED <<held, owner, selfTokens, pending, ctlVars, writeTimer, cliVars,
                 loopVars, envVars>>

\* The device takes part of the buffer.
WriteSome ==
  /\ Top("write") /\ running /\ cur # Nil
  /\ rem' \in 1..(rem - 1)
  /\ total' = TRUE
  /\ UNCHANGED <<writeQueue, cur, price, held, owner, selfTokens, pending, ctlVars,
                 writeTimer, cliVars, stack, ret, duringWrite, duringRead, didRead,
                 maxTok, envVars>>

\* RedCharDeviceVDIPort::on_free_self_token has a server message to send.
ResendsPending == pending /\ attached

\* The device takes the rest of it: write_buffer_release(&cur_write_buf).
WriteDone ==
  /\ Top("write") /\ running /\ cur # Nil
  /\ cur' = Nil /\ rem' = 0 /\ price' = 0 /\ total' = TRUE
  /\ IF owner[cur] \in Clients
     THEN /\ IF FlowControl[owner[cur]] THEN TokensAdd(owner[cur], price)
                                        ELSE UNCHANGED <<tokens, free>>
          /\ owner' = [owner EXCEPT ![cur] = None]
          /\ UNCHANGED <<writeQueue, selfTokens, pending, duringWrite>>
     ELSE IF owner[cur] = Self /\ ResendsPending
     THEN \* the waiting server message takes the token, and the buffer's place, at once
          /\ writeQueue' = Append(writeQueue, cur)
          /\ pending' = FALSE /\ duringWrite' = 2
          /\ UNCHANGED <<owner, selfTokens, tokens, free>>
     ELSE /\ selfTokens' = IF owner[cur] = Self THEN selfTokens + 1 ELSE selfTokens
          /\ owner' = [owner EXCEPT ![cur] = None]
          /\ UNCHANGED <<writeQueue, pending, duringWrite, tokens, free>>
  /\ UNCHANGED <<held, ctlVars, writeTimer, clients, sendTokens, sendQueue, waitTokens,
                 kicked, stack, ret, duringRead, didRead, maxTok, envVars>>

\* The device takes nothing but wakeup() was called meanwhile: try once more.
WriteRetry ==
  /\ Top("write") /\ running /\ cur # Nil /\ duringWrite > 1
  /\ duringWrite' = 1
  /\ UNCHANGED <<bufVars, ctlVars, writeTimer, cliVars, stack, ret, duringRead,
                 total, didRead, maxTok, envVars>>

RetryUnlessProgress == writeTimer \/ (running /\ cur # Nil /\ ~total)

\* "retry writing as long as the write queue is not empty"
RetryTimer == writeTimer \/ (running /\ cur # Nil)

\* The loop ends: nothing left, the device is full, or it was stopped meanwhile.
WriteExit ==
  /\ Top("write")
  /\ running => IF cur = Nil THEN writeQueue = <<>> ELSE duringWrite = 1
  /\ writeTimer' = RetryTimer
  /\ active' = (active \/ (running /\ total))
  /\ duringWrite' = 0 /\ Return(total) /\ total' = FALSE
  /\ UNCHANGED <<bufVars, running, waitMig, attached, cliVars, duringRead,
                 didRead, maxTok, envVars>>

\* The write timer fires: write_retry.
WriteTimerFires ==
  /\ Idle /\ writeTimer
  /\ writeTimer' = FALSE /\ Call(<<"callW">>)
  /\ UNCHANGED <<bufVars, ctlVars, cliVars, ret, duringWrite, duringRead, total,
                 didRead, maxTok, envVars>>

\* The token violation test of red_char_device_write_buffer_get.
OutOfTokens(c) == FlowControl[c] /\ tokens[c] = 0

\* write_buffer_get_client: a client without tokens is told to go away.  Callers do not
\* ask for a buffer before the client's state is restored (client_agent_started).
WriteBufferGetClient(c, b) ==
  /\ Idle /\ ~waitMig /\ c \in clients /\ b \in Bufs \ Live
  /\ \A h \in held : owner[h] # c
  /\ IF OutOfTokens(c)
     THEN /\ kicked' = kicked \cup {c}
          /\ UNCHANGED <<held, owner, tokens>>
     ELSE /\ held' = held \cup {b}
          /\ owner' = [owner EXCEPT ![b] = c]
          /\ tokens' = IF FlowControl[c] THEN [tokens EXCEPT ![c] = @ - 1] ELSE tokens
          /\ UNCHANGED kicked
  /\ UNCHANGED <<writeQueue, cur, rem, price, selfTokens, pending, ctlVars, writeTimer,
                 clients, free, sendTokens, sendQueue, waitTokens, loopVars, envVars>>

\* write_buffer_add of a client's buffer.
WriteBufferAdd(b) ==
  /\ Idle /\ b \in held
  /\ held' = held \ {b}
  /\ writeQueue' = Append(writeQueue, b)
  /\ Call(<<"callW">>)
  /\ UNCHANGED <<cur, rem, price, owner, selfTokens, pending, ctlVars, writeTimer, cliVars,
                 ret, duringWrite, duringRead, total, didRead, maxTok, envVars>>

\* write_buffer_release of a client's buffer that was not added.
WriteBufferRelease(b) ==
  /\ Idle /\ b \in held
  /\ held' = held \ {b}
  /\ owner' = [owner EXCEPT ![b] = None]
  /\ IF FlowControl[owner[b]] THEN TokensAdd(owner[b], 1) ELSE UNCHANGED <<tokens, free>>
  /\ UNCHANGED <<writeQueue, cur, rem, price, selfTokens, pending, ctlVars,
                 writeTimer, clients, sendTokens, sendQueue, waitTokens, kicked,
                 loopVars, envVars>>

\* write_buffer_get_server followed by write_buffer_add, as the server's own messages
\* are sent (reds_handle_agent_mouse_event, reds_client_disconnect); without a token
\* the message waits for on_free_self_token.
ServerMessage(b, useToken) ==
  /\ Idle /\ attached /\ ~waitMig /\ b \in Bufs \ Live
  /\ IF useToken /\ selfTokens = 0
     THEN /\ pending' = TRUE
          /\ UNCHANGED <<owner, selfTokens, writeQueue, stack>>
     ELSE /\ owner' = [owner EXCEPT ![b] = IF useToken THEN Self ELSE NoToken]
          /\ selfTokens' = IF useToken THEN selfTokens - 1 ELSE selfTokens
          /\ pending' = (pending /\ ~useToken)
          /\ writeQueue' = Append(writeQueue, b)
          /\ Call(<<"callW">>)
  /\ UNCHANGED <<cur, rem, price, held, ctlVars, writeTimer, cliVars, ret, duringWrite,
                 duringRead, total, didRead, maxTok, envVars>>

-----------------------------------------------------------------------------
(* Management *)

\* g_queue_delete_link of every buffer of S, the others keeping their order: f
\* enumerates the positions that stay.
DropFromQueue(S) ==
  \E n \in 0..Len(writeQueue) : \E f \in [1..n -> DOMAIN writeQueue] :
    /\ \A i, j \in 1..n : i < j => f[i] < f[j]
    /\ {f[i] : i \in 1..n} = {i \in DOMAIN writeQueue : writeQueue[i] \notin S}
    /\ writeQueue' = [i \in 1..n |-> writeQueue[f[i]]]

\* client_add; refused when migration data is expected and the device was in use.
ClientAdd(c, wait, send) ==
  /\ Idle /\ attached /\ c \notin clients /\ ~waitMig
  /\ wait => clients = {} /\ ~active
  /\ waitMig' = wait
  /\ clients' = clients \cup {c} /\ kicked' = kicked \ {c}
  /\ tokens' = [tokens EXCEPT ![c] = Window] /\ free' = [free EXCEPT ![c] = 0]
  /\ sendTokens' = [sendTokens EXCEPT ![c] = send]
  /\ sendQueue' = [sendQueue EXCEPT ![c] = 0]
  /\ waitTokens' = [waitTokens EXCEPT ![c] = FALSE]
  /\ Call(<<"callW", "callR">>)
  /\ UNCHANGED <<bufVars, running, active, attached, writeTimer, ret, duringWrite,
                 duringRead, total, didRead, maxTok, envVars>>

\* client_remove with red_char_device_client_free.  A channel without flow control may
\* fail, and remove its client, from inside send_msg_to_client.  The caller drops the
\* buffer it holds for the client (VmcChannelClient::on_disconnect).
ClientRemove(c) ==
  /\ Idle \/ (Top("read") /\ ~FlowControl[c])
  /\ c \in clients
  /\ DropFromQueue({b \in Bufs : owner[b] = c})
  /\ held' = {b \in held : owner[b] # c}
  /\ owner' = [b \in Bufs |-> IF owner[b] = c THEN None ELSE owner[b]]
  /\ clients' = clients \ {c} /\ kicked' = kicked \ {c}
  /\ tokens' = [tokens EXCEPT ![c] = 0] /\ free' = [free EXCEPT ![c] = 0]
  /\ sendTokens' = [sendTokens EXCEPT ![c] = 0] /\ sendQueue' = [sendQueue EXCEPT ![c] = 0]
  /\ waitTokens' = [waitTokens EXCEPT ![c] = FALSE]
  /\ IF waitMig THEN waitMig' = FALSE /\ Call(<<"callR">>) ELSE UNCHANGED <<waitMig, stack>>
  /\ UNCHANGED <<cur, rem, price, selfTokens, pending, running, active, attached,
                 writeTimer, ret, duringWrite, duringRead, total, didRead, maxTok, envVars>>

Start ==
  /\ Idle /\ running' = TRUE
  /\ Call(<<"callW", "startW">>)
  /\ UNCHANGED <<bufVars, active, waitMig, attached, writeTimer, cliVars, ret, duringWrite,
                 duringRead, total, didRead, maxTok, envVars>>

\* while (write_to_device() || red_char_device_read_from_device(this));
StartLoop ==
  /\ Top("startW") \/ Top("startR")
  /\ stack' = CASE ret -> <<"callW", "startW">> \o Tail(stack)
                [] ~ret /\ Top("startW") -> <<"callR", "startR">> \o Tail(stack)
                [] OTHER -> Tail(stack)
  /\ UNCHANGED <<bufVars, ctlVars, writeTimer, cliVars, ret, duringWrite, duringRead,
                 total, didRead, maxTok, envVars>>

Stop ==
  /\ Idle
  /\ running' = FALSE /\ active' = FALSE /\ writeTimer' = FALSE
  /\ UNCHANGED <<bufVars, waitMig, attached, cliVars, loopVars, envVars>>

\* spice_server_char_device_add_interface: reset_dev_instance(sin), and start() when
\* the virtual machine runs.
Attach(vmRunning) ==
  /\ Idle /\ ~attached /\ (vmRunning \/ ~running)
  /\ attached' = TRUE /\ writeTimer' = FALSE
  /\ running' = vmRunning
  /\ stack' = IF vmRunning THEN <<"callW", "startW">> ELSE <<>>
  /\ UNCHANGED <<bufVars, active, waitMig, cliVars, ret, duringWrite, duringRead, total,
                 didRead, maxTok, envVars>>

\* How many buffers of S have owner x.
Count(f, S, x) == Cardinality({b \in S : f[b] = x})

\* Tokens of client c that the buffers of S stand for: one each, except that the current
\* buffer has its own price.
Charged(S, c) == Count(owner, S, c)
                 + IF cur \in S /\ owner[cur] = c THEN price - 1 ELSE 0

\* Self tokens that releasing the queue and the current buffer frees.
SelfTokensFreed == Count(owner, Bufs \ held, Self)

\* stop(), reset() and reset_dev_instance(NULL), as reds_reset_vdp calls them: from the
\* event loop when the port closes, or inside the read loop on a protocol error.
Reset ==
  /\ Idle \/ Top("read")
  /\ attached
  /\ running' = FALSE /\ active' = FALSE /\ waitMig' = FALSE /\ attached' = FALSE
  /\ writeTimer' = FALSE
  /\ writeQueue' = <<>> /\ cur' = Nil /\ rem' = 0 /\ price' = 0
  /\ selfTokens' = selfTokens + SelfTokensFreed
  /\ tokens' = [c \in Clients |-> IF c \in clients /\ FlowControl[c]
                                  THEN tokens[c] + free[c] + Charged(Bufs \ held, c)
                                  ELSE tokens[c]]
  /\ free' = [c \in Clients |-> IF c \in clients THEN 0 ELSE free[c]]
  /\ sendTokens' = [c \in Clients |-> IF c \in clients /\ FlowControl[c]
                                      THEN sendTokens[c] + sendQueue[c] ELSE sendTokens[c]]
  /\ sendQueue' = [c \in Clients |-> IF c \in clients THEN 0 ELSE sendQueue[c]]
  /\ avail' = 0 /\ signal' = FALSE
  /\ owner' = [b \in Bufs |-> IF b \in held THEN owner[b] ELSE None]
  /\ UNCHANGED <<held, pending, clients, waitTokens, kicked, loopVars>>

\* restore: the state of the only client comes from the migration source, whose write
\* queue (size units, p client tokens) becomes the current buffer.
Restore(c, b, a, p, size, send) ==
  /\ Idle /\ attached /\ waitMig /\ clients = {c} /\ FlowControl[c]
  /\ cur = Nil /\ writeQueue = <<>> /\ b \in Bufs \ Live
  /\ size > 0 /\ p = 0 => selfTokens > 0
  /\ tokens' = [tokens EXCEPT ![c] = a]
  /\ free' = [free EXCEPT ![c] = tokens[c] - a - p]
  /\ sendTokens' = [sendTokens EXCEPT ![c] = send]
  /\ IF size > 0
     THEN /\ cur' = b /\ rem' = size /\ price' = IF p > 0 THEN p ELSE 1
          /\ owner' = [owner EXCEPT ![b] = IF p > 0 THEN c ELSE Self]
          /\ selfTokens' = IF p > 0 THEN selfTokens ELSE selfTokens - 1
     ELSE UNCHANGED <<cur, rem, price, owner, selfTokens>>
  /\ waitMig' = FALSE
  /\ Call(<<"callW", "callR">>)
  /\ UNCHANGED <<writeQueue, held, pending, running, active, attached, writeTimer, clients,
                 sendQueue, waitTokens, kicked, ret, duringWrite, duringRead, total,
                 didRead, maxTok, envVars>>

\* wakeup(), from the event loop or out of a call into the device.
Wakeup ==
  /\ attached
  /\ \/ Idle
     \/ Top("write") /\ running /\ cur # Nil
     \/ Top("read") /\ ReadAgain
     \/ Top("readNone")
  /\ signal' = FALSE
  /\ Call(<<"callW", "callR">>)
  /\ UNCHANGED <<bufVars, ctlVars, writeTimer, cliVars, ret, duringWrite, duringRead, total,
                 didRead, maxTok, avail>>

\* The guest writes a message; the device will call wakeup().
DeviceProduces ==
  /\ attached /\ avail < MaxAvail
  /\ avail' = avail + 1 /\ signal' = TRUE
  /\ UNCHANGED <<bufVars, ctlVars, writeTimer, cliVars, loopVars>>

-----------------------------------------------------------------------------
\* Migration data a source in a legal state can send: its tokens add up to the window
\* and fewer than Interval of them are waiting to be given back.
MigData ==
  {m \in [client : 0..Window, write : 0..Window, size : 0..BufLen] :
     /\ m.client + m.write =< Window /\ Window - m.client - m.write < Interval
     /\ m.size = 0 => m.write = 0}

DeviceLoops ==
  \/ CallRead \/ ReadMessage \/ ReadNothing \/ ReadRetry \/ ReadExit
  \/ CallWrite \/ WritePop \/ WriteSome \/ WriteDone \/ WriteRetry \/ WriteExit
  \/ StartLoop

ClientOps ==
  \/ \E c \in Clients, n \in 1..MaxSend : TokensAbsorb(c, n, FALSE)
  \/ \E c \in Clients, n \in 1..MaxSend : TokensAbsorb(c, n, TRUE)
  \/ \E c \in Clients : TokensTimeout(c)
  \/ \E c \in Clients, b \in Bufs : WriteBufferGetClient(c, b)
  \/ \E b \in Bufs : WriteBufferAdd(b)
  \/ \E b \in Bufs : WriteBufferRelease(b)
  \/ \E c \in Clients, wait \in BOOLEAN, send \in 0..MaxSend : ClientAdd(c, wait, send)
  \/ \E c \in Clients : ClientRemove(c)

DeviceOps ==
  \/ \E b \in Bufs, t \in BOOLEAN : ServerMessage(b, t)
  \/ WriteTimerFires
  \/ Start \/ Stop \/ Reset
  \/ \E vmRunning \in BOOLEAN : Attach(vmRunning)
  \/ \E c \in Clients, b \in Bufs, m \in MigData, send \in 0..MaxSend :
       Restore(c, b, m.client, m.write, m.size, send)
  \/ Wakeup \/ DeviceProduces

Next == DeviceLoops \/ ClientOps \/ DeviceOps

Spec == Init /\ [][Next]_vars

-----------------------------------------------------------------------------
(* Properties *)

BufType ==
  /\ writeQueue \in Seq(Bufs) /\ cur \in Bufs \cup {Nil} /\ held \in SUBSET Bufs
  /\ rem \in Nat /\ price \in Nat /\ selfTokens \in Nat /\ pending \in BOOLEAN
  /\ owner \in [Bufs -> Clients \cup {Self, NoToken, None}]

CtlType ==
  /\ running \in BOOLEAN /\ active \in BOOLEAN /\ waitMig \in BOOLEAN
  /\ attached \in BOOLEAN /\ writeTimer \in BOOLEAN
  /\ avail \in Nat /\ signal \in BOOLEAN

ClientType ==
  /\ clients \in SUBSET Clients /\ kicked \in SUBSET clients
  /\ tokens \in [Clients -> Nat] /\ free \in [Clients -> Nat]
  /\ sendTokens \in [Clients -> Nat] /\ sendQueue \in [Clients -> Nat]
  /\ waitTokens \in [Clients -> BOOLEAN]

LoopType ==
  /\ duringWrite \in 0..2 /\ duringRead \in 0..2 /\ maxTok \in Nat \cup {-1}
  /\ ret \in BOOLEAN /\ total \in BOOLEAN /\ didRead \in BOOLEAN

Frames == {"callW", "callR", "write", "read", "readNone", "startW", "startR"}

TypeOK == BufType /\ CtlType /\ ClientType /\ LoopType /\ stack \in Seq(Frames)

\* Every token of an attached client's window is in exactly one place: still with the
\* client, waiting to be given back, or paid for a buffer that is on its way to the
\* device.  A token lost or made twice would stall the client or let it overrun the
\* agent (red_char_device_client_tokens_add, write_buffer_get, reset, restore).
TokenConservation ==
  \A c \in clients : FlowControl[c] =>
    tokens[c] + free[c] + Charged(Bufs, c) = Window

\* The same for the device's own tokens: each is free or pays for one live server buffer.
SelfTokenConservation ==
  selfTokens + Count(owner, Bufs, Self) = SelfTokens

\* Freed tokens are given back as soon as Interval of them are, so a client is never
\* starved: with an empty write queue it has more than Window - Interval tokens.
FreeBelowInterval == \A c \in clients : FlowControl[c] => free[c] < Interval

\* A message is queued for a client only while the client has no send token, so
\* messages are never sent out of order (the assertions in
\* red_char_device_send_msg_to_clients and ..._tokens_absorb).
SendQueueOnlyWithoutTokens ==
  \A c \in clients : sendQueue[c] > 0 => FlowControl[c] /\ sendTokens[c] = 0

\* A queued message is always covered by the wait-for-tokens timer, and the queue never
\* grows beyond its limit.
SendQueueGuarded ==
  \A c \in clients : /\ sendQueue[c] =< MaxSendQueue
                     /\ sendQueue[c] > 0 => waitTokens[c]

\* No wakeup is lost: once the main loop is back, a running device with unread messages
\* and a client able to take one has a wakeup() outstanding.
NoLostWakeup ==
  /\ Idle /\ running /\ attached /\ ~waitMig /\ avail > 0
  /\ \E c \in clients : CanSendToClient(c)
  => signal

\* A client's data that the device did not take is retried: once the main loop is back,
\* a running device with such data has refused a buffer and the write timer is armed.
ClientWriteRetried ==
  /\ Idle /\ running /\ attached /\ ~waitMig
  /\ \E b \in Live \ held : owner[b] \in Clients
  => cur # Nil /\ writeTimer

\* An allocated buffer is in one place, and "when a client is removed, we remove all the
\* buffers that are associated with it": write_buffer_release asserts it.
BufferPlaces ==
  /\ \A b \in Bufs : owner[b] # None => b \in Live
  /\ \A b \in Bufs : owner[b] \in Clients => owner[b] \in clients
  /\ \A b \in held : owner[b] \in clients
  /\ held \cap Queued = {} /\ cur \notin held

MigrationWait ==
  waitMig => /\ held = {}
             /\ \A i \in DOMAIN stack : stack[i] \notin {"write", "read", "readNone"}
             /\ \A c \in clients : /\ sendQueue[c] = 0
                                   /\ FlowControl[c] => tokens[c] = Window

\* The invariants above as far as they concern tokens and queues, made inductive: an
\* allocated buffer is in one place and its client is attached, and a client that waits
\* for migration data has its whole window and nothing queued, while no loop runs.
Inductive ==
  /\ TypeOK /\ BufferPlaces /\ MigrationWait
  /\ TokenConservation /\ SelfTokenConservation /\ FreeBelowInterval
  /\ SendQueueOnlyWithoutTokens /\ SendQueueGuarded

-----------------------------------------------------------------------------
(* What the comments say and TLC refutes *)

\* "retry writing as long as the write queue is not empty" (write_to_device): once the
\* main loop is back, a running device with anything left to write has the timer armed.
WriteRetryArmed ==
  Idle /\ running /\ attached /\ ~waitMig /\ Live \ held # {} => writeTimer

\* The wait-for-tokens timer is armed only while a message is queued for the client.
TimerOnlyWithQueuedMessages ==
  \A c \in clients : waitTokens[c] => sendQueue[c] > 0

=============================================================================
