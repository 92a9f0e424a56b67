------------------------------ MODULE AgentPort ------------------------------
(***************************************************************************)
(* The guest agent port of server/reds.cpp (RedCharDeviceVDIPort): reading *)
(* the agent's chunks and filtering its messages for the client, filtering *)
(* the client's AGENT_DATA for the agent, attaching and removing the agent,*)
(* clients coming and going, and handing the port over in a seamless       *)
(* migration.  Flow control is the business of module CharDevice.          *)
(*                                                                         *)
(* All of it runs on the main thread.  An AGENT_DATA message takes two     *)
(* steps, the allocation of its buffer and its arrival, with anything else *)
(* in between.  A failed spice_assert ends the process: `abort' names it   *)
(* ("clientError": the client is dropped because of a protocol error).     *)
(***************************************************************************)
EXTENDS AgentFilter, FiniteSets, SequencesExt

CONSTANTS
  ChunkHdr,     \* sizeof(VDIChunkHeader)
  NumReadBufs,  \* REDS_VDI_PORT_NUM_RECEIVE_BUFFS
  Setups,       \* the environments considered, records of the features below
  MaxClients    \* bound: connections

VARIABLES
  setup,                  \* the environment
  attached,               \* vdagent # NULL, agent_attached
  plug,                   \* plug_generation
  started,                \* client_agent_started
  devClient, devWait,     \* the client is in the char device; it waits for migration data
  rstate, rlen, mlen,     \* read_state, receive_len, message_receive_len
  buf, numBuf,            \* contents of current_read_buf; num_read_buf
  rf, wf, clip,           \* read_filter, write_filter, agent_copypaste
  recvBuf, inMsg,         \* recv_from_client_buf # NULL; buffer of the message being received
  cmc,                    \* client_monitors_config: units collected so far
  client, conns,          \* a client is connected; connections so far
  mayStart, used,         \* the agent was announced to it; it sent AGENT_START
  pipe, got,              \* what waits for the client, what it got since an announcement
  wire, cdata, agot,      \* unread units of the agent, unsent client data, what the agent got
  unseen,                 \* messages whose beginning the client was not there to get
  side, waiting,          \* where a migration is; is_waiting_for_migrate_data
  sent, mig,              \* migration data on its way; mig_data saved for the agent
  abort, attaches

readVars   == <<rstate, rlen, mlen, buf>>
clientVars == <<client, conns, mayStart, used, cdata, inMsg>>
devVars    == <<attached, plug, started, devClient, devWait>>
migVars    == <<side, waiting, sent, mig>>
vars == <<setup, devVars, readVars, numBuf, rf, wf, clip, recvBuf, cmc, clientVars, pipe, got, wire,
          agot, unseen, migVars, abort, attaches>>

AgentStreams == setup.streams    \* what an agent instance may write: sequences of units
ClientData   == setup.data       \* what a client may send: sequences of AGENT_DATA payloads
Seamless     == setup.seamless   \* a seamless migration may happen
SplitHeaders == setup.split      \* the device may hand out part of a VDAgentMessage header
MaxAttach    == setup.attaches   \* bound: attachments of an agent

Init ==
  /\ setup \in Setups
  /\ attached = FALSE /\ plug = 0 /\ started = FALSE /\ devClient = FALSE /\ devWait = FALSE
  /\ rstate = "header" /\ rlen = ChunkHdr /\ mlen = 0 /\ buf = <<>> /\ numBuf = 0
  /\ rf = FilterInit /\ wf = FilterInit /\ recvBuf = FALSE /\ cmc = <<>>
  /\ clip \in BOOLEAN
  /\ client = FALSE /\ conns = 0 /\ mayStart = FALSE /\ used = FALSE /\ cdata = <<>> /\ inMsg = "no"
  /\ pipe = <<>> /\ got = <<>> /\ wire = <<>> /\ agot = <<>> /\ unseen = {}
  /\ side = "run" /\ waiting = FALSE /\ sent = <<>> /\ mig = <<>> /\ abort = "no" /\ attaches = 0

Alive == abort = "no" /\ side # "lost"
Min2(a, b) == IF a < b THEN a ELSE b

Fail(what) == /\ abort' = what
              /\ UNCHANGED <<setup, devVars, readVars, numBuf, rf, wf, clip, recvBuf, cmc, clientVars,
                             pipe, got, wire, agot, unseen, migVars, attaches>>

-----------------------------------------------------------------------------
(* Removing the agent *)

\* reds_reset_vdp: the read state, then both filters, then the char device.
ResetRead ==
  /\ rstate' = "header" /\ rlen' = ChunkHdr /\ mlen' = 0 /\ buf' = <<>>

ReadFilterReset == FilterInit

StopWriting == [wf EXCEPT !.all = TRUE]

WriteFilterReset == [wf EXCEPT !.result = "discard", !.all = TRUE]

StartedKept == started

StartedReset == FALSE

Data(u)   == [k |-> "data", u |-> u]
Notice(k) == [k |-> k, u |-> <<>>]

Announce(k) ==
  pipe' = IF client /\ ~waiting THEN Append(pipe, Notice(k)) ELSE pipe

\* reds_reset_vdp and the rest of reds_agent_remove.  A half-filled buffer is released; the
\* device being removed hands out nothing to the wakeup that follows from it.
GoneButRead ==
  /\ rf' = ReadFilterReset /\ wf' = WriteFilterReset
  /\ started' = StartedReset /\ attached' = FALSE /\ devWait' = FALSE
  /\ Announce("disconnected")
  /\ wire' = <<>> /\ agot' = <<>>

AgentGone == ResetRead /\ GoneButRead

\* spice_server_remove_interface of the agent port.
AgentRemove ==
  /\ Alive /\ attached
  /\ AgentGone
  /\ numBuf' = IF rstate = "data" THEN numBuf - 1 ELSE numBuf
  /\ UNCHANGED <<setup, plug, devClient, clip, recvBuf, cmc, clientVars, got, unseen, migVars, abort, attaches>>

-----------------------------------------------------------------------------
(* From the agent to the client *)

Reading == Alive /\ attached /\ side # "flush" /\ ~devWait

\* vdi_port_get_read_buf for a chunk of which n units are left to read.
GetReadBuf(n) ==
  IF numBuf >= NumReadBufs
  THEN /\ rstate' = "getbuf" /\ mlen' = n /\ rlen' = 0 /\ UNCHANGED numBuf
  ELSE /\ rstate' = "data" /\ rlen' = Min2(n, MaxData) /\ mlen' = n - Min2(n, MaxData)
       /\ numBuf' = numBuf + 1

\* VDI_PORT_READ_STATE_READ_HEADER, running on into GET_BUFF when the header is complete.
ReadHeader(n) ==
  /\ Reading /\ rstate = "header" /\ n =< Len(wire) /\ n =< rlen
  /\ wire' = SubSeq(wire, n + 1, Len(wire))
  /\ buf' = <<>>
  /\ IF n < rlen THEN rlen' = rlen - n /\ UNCHANGED <<rstate, mlen, numBuf>>
     ELSE GetReadBuf(wire[n].i)
  /\ UNCHANGED <<setup, devVars, rf, wf, clip, recvBuf, cmc, clientVars, pipe, got, agot, unseen,
                 migVars, abort, attaches>>

\* VDI_PORT_READ_STATE_GET_BUFF, retried when a buffer was freed.
GetBuff ==
  /\ Reading /\ rstate = "getbuf" /\ numBuf < NumReadBufs
  /\ GetReadBuf(mlen)
  /\ UNCHANGED <<setup, devVars, buf, rf, wf, clip, recvBuf, cmc, clientVars, pipe, got, wire, agot,
                 unseen, migVars, abort, attaches>>

ForwardAndForget(data) ==
  IF devClient THEN pipe' = Append(pipe, Data(data)) /\ UNCHANGED <<numBuf, unseen>>
  ELSE unseen' = unseen \cup {data[1].m} /\ UNCHANGED <<numBuf, pipe>>

\* Passing a buffer of the agent's data on: to the client, if the char device knows it.
Forward(data) ==
  IF devClient THEN pipe' = Append(pipe, Data(data)) /\ UNCHANGED <<numBuf, unseen>>
  ELSE /\ numBuf' = numBuf - 1 /\ UNCHANGED pipe
       /\ unseen' = unseen \cup {data[1].m}

AfterChunk == IF mlen = 0 THEN /\ rstate' = "header" /\ rlen' = ChunkHdr
              ELSE rstate' = "getbuf" /\ rlen' = 0

\* The device hands out a part of a VDAgentMessage header only if SplitHeaders.
Splits(n) == /\ rf.left = 0 /\ n < rlen /\ Len(buf) + n =< HeaderLen

\* VDI_PORT_READ_STATE_READ_DATA.
ReadData(n) ==
  /\ Reading /\ rstate = "data" /\ n =< Len(wire) /\ n =< rlen
  /\ SplitHeaders \/ ~Splits(n)
  /\ LET data == buf \o SubSeq(wire, 1, n)
         p    == Process(rf, data, clip)
     IN IF n < rlen
        THEN /\ buf' = data /\ rlen' = rlen - n
             /\ wire' = SubSeq(wire, n + 1, Len(wire))
             /\ UNCHANGED <<rstate, mlen, numBuf, rf, wf, attached, started, devWait, pipe,
                            agot, unseen>>
        ELSE IF p.res = "error"
        THEN AgentGone /\ numBuf' = numBuf - 1 /\ UNCHANGED unseen
        ELSE /\ buf' = <<>> /\ rf' = p.f /\ AfterChunk
             /\ wire' = SubSeq(wire, n + 1, Len(wire))
             /\ IF p.res = "ok" THEN Forward(data)
                ELSE numBuf' = numBuf - 1 /\ UNCHANGED <<pipe, unseen>>
             /\ UNCHANGED <<mlen, wf, attached, started, devWait, agot>>
  /\ UNCHANGED <<setup, plug, devClient, clip, recvBuf, cmc, clientVars, got, migVars, abort, attaches>>

\* The next item reaches the client; a sent buffer goes back to the pool.
ClientReceives ==
  /\ Alive /\ pipe # <<>>
  /\ pipe' = Tail(pipe)
  /\ IF Head(pipe).k # "data"
     THEN /\ got' = <<>> /\ mayStart' = (Head(pipe).k = "connected") /\ UNCHANGED numBuf
     ELSE /\ got' = got \o Head(pipe).u /\ numBuf' = numBuf - 1 /\ UNCHANGED mayStart
  /\ UNCHANGED <<setup, devVars, readVars, rf, wf, clip, recvBuf, cmc, client, conns, used, cdata, inMsg,
                 wire, agot, unseen, migVars, abort, attaches>>

-----------------------------------------------------------------------------
(* Clients *)

\* reds_handle_main_link; the client learns of the agent from MSG_MAIN_INIT.
ClientConnect ==
  /\ Alive /\ ~client /\ side # "flush" /\ conns < MaxClients
  /\ client' = TRUE /\ conns' = conns + 1 /\ mayStart' = attached /\ used' = FALSE
  /\ cdata' \in ClientData /\ inMsg' = "no"
  /\ IF attached THEN rf' = [rf EXCEPT !.all = FALSE] /\ plug' = plug + 1
     ELSE UNCHANGED <<rf, plug>>
  /\ UNCHANGED <<setup, attached, started, devClient, devWait, readVars, numBuf, wf, clip, recvBuf, cmc,
                 pipe, got, wire, agot, unseen, migVars, abort, attaches>>

KeepResult == [rf EXCEPT !.all = TRUE]

ReadFilterNoClient == [rf EXCEPT !.result = "discard", !.all = TRUE]

WriteFilterNoClient == FilterInit

\* reds_client_disconnect of the only client.  When the cause is a failed read of the stream
\* (eof), handle_incoming has released the buffer of the message it was receiving.  A client
\* lost before the port is restored takes the place in the agent's stream with it: the model
\* ends there.
ClientDisconnect(eof) ==
  /\ Alive /\ client /\ side # "flush"
  /\ client' = FALSE /\ mayStart' = FALSE /\ used' = FALSE /\ cdata' = <<>> /\ inMsg' = "no"
  /\ recvBuf' = (recvBuf /\ ~(eof /\ inMsg = "dev"))
  /\ devClient' = FALSE /\ devWait' = (devWait /\ ~devClient)
  /\ pipe' = <<>> /\ got' = <<>> /\ unseen' = {}
  /\ numBuf' = numBuf - Cardinality({j \in DOMAIN pipe : pipe[j].k = "data"})
  /\ agot' = <<>>     \* VD_AGENT_CLIENT_DISCONNECTED
  /\ wf' = WriteFilterNoClient /\ rf' = ReadFilterNoClient
  /\ waiting' = FALSE /\ mig' = <<>> /\ sent' = <<>>
  /\ side' = IF waiting \/ mig # <<>> THEN "lost" ELSE side
  /\ UNCHANGED <<setup, attached, plug, started, readVars, clip, cmc, conns, wire, abort, attaches>>

\* reds_on_main_agent_start (MSGC_MAIN_AGENT_START).
AgentStart ==
  /\ Alive /\ client /\ mayStart /\ ~waiting /\ inMsg = "no"
  /\ mayStart' = FALSE /\ used' = TRUE
  /\ IF ~attached THEN UNCHANGED <<started, devClient, wf>>
     ELSE /\ started' = TRUE /\ devClient' = TRUE
          /\ wf' = [wf EXCEPT !.all = FALSE]
  /\ UNCHANGED <<setup, attached, plug, devWait, readVars, numBuf, rf, clip, recvBuf, cmc, client, conns,
                 cdata, inMsg, pipe, got, wire, agot, unseen, migVars, abort, attaches>>

\* reds_get_agent_data_buffer: the header of an AGENT_DATA message was read.
GetAgentDataBuffer ==
  /\ Alive /\ client /\ used /\ ~waiting /\ inMsg = "no" /\ cdata # <<>>
  /\ started => devClient      \* see AgentDataTaken
  /\ IF started /\ recvBuf THEN Fail("recvBuf")
     ELSE /\ recvBuf' = (recvBuf \/ started)
          /\ inMsg' = IF started THEN "dev" ELSE "heap"
          /\ UNCHANGED <<setup, devVars, readVars, numBuf, rf, wf, clip, cmc, client, conns, mayStart, used,
                         cdata, pipe, got, wire, agot, unseen, migVars, abort, attaches>>

\* reds_on_main_agent_monitors_config collects a message and applies it when complete.
MonitorsConfig(data) ==
  LET all == cmc \o data
  IN IF Len(all) < HeaderLen \/ Size[all[1].m] > Len(all) - HeaderLen THEN all ELSE <<>>

\* reds_on_main_agent_data, then reds_release_agent_data_buffer: the message is complete.
AgentData ==
  /\ Alive /\ client /\ inMsg # "no"
  /\ LET data == Head(cdata)
         p    == Process(wf, data, clip)
     IN IF p.res = "error" THEN Fail("clientError")
        ELSE IF p.res = "ok" /\ (inMsg # "dev" \/ ~recvBuf) THEN Fail("noRecvBuf")
        ELSE IF inMsg = "heap" /\ recvBuf THEN Fail("recvBuf")
        ELSE /\ wf' = p.f
             /\ agot' = IF p.res = "ok" THEN agot \o data ELSE agot
             /\ cmc' = IF p.res = "mon" THEN MonitorsConfig(data) ELSE cmc
             /\ cdata' = Tail(cdata) /\ inMsg' = "no" /\ recvBuf' = FALSE
             /\ UNCHANGED <<setup, devVars, readVars, numBuf, rf, clip, client, conns, mayStart, used,
                            pipe, got, wire, unseen, migVars, abort, attaches>>

\* spice_server_set_agent_copypaste and reds_update_agent_properties.
SetCopyPaste ==
  /\ Alive /\ clip' = ~clip
  /\ UNCHANGED <<setup, devVars, readVars, numBuf, rf, wf, recvBuf, cmc, clientVars, pipe, got, wire, agot,
                 unseen, migVars, abort, attaches>>

-----------------------------------------------------------------------------
(* Attaching the agent, and seamless migration *)

\* reds_agent_state_restore of migration data d, with filter f as the read filter so far.
Restore(d, f) ==
  /\ rf' = [f EXCEPT !.all = FALSE,
                     !.left = IF d.done THEN d.left ELSE @,
                     !.result = IF d.done THEN d.result ELSE @]
  /\ wf' = [left |-> d.wleft, result |-> d.wresult, all |-> ~d.started]
  /\ started' = d.started /\ devWait' = FALSE
  /\ buf' = d.part
  /\ LET n == Min2(d.size, MaxData - Len(d.part))
     IN IF d.chdr < ChunkHdr
        THEN rstate' = "header" /\ rlen' = ChunkHdr - d.chdr /\ UNCHANGED <<mlen, numBuf>>
        ELSE IF d.done
        THEN rstate' = "getbuf" /\ rlen' = 0 /\ mlen' = d.size /\ UNCHANGED numBuf
        ELSE rstate' = "data" /\ rlen' = n /\ mlen' = d.size - n /\ numBuf' = numBuf + 1

\* attach_to_red_agent.  After a migration the instance of the source is attached first.
Attach ==
  /\ Alive /\ ~attached /\ side # "flush" /\ attaches < MaxAttach
  /\ attached' = TRUE /\ attaches' = attaches + 1
  /\ IF side = "dst" THEN side' = "over" /\ UNCHANGED <<wire, agot>>
     ELSE wire' \in AgentStreams /\ agot' = <<>> /\ UNCHANGED side
  /\ LET f == [rf EXCEPT !.all = FALSE]
     IN IF ~client
        THEN UNCHANGED <<plug, started, devClient, devWait, readVars, numBuf, rf, wf, pipe, mig>>
        ELSE IF mig # <<>>
        THEN /\ plug' = plug + 1 /\ devClient' = TRUE /\ mig' = <<>> /\ UNCHANGED pipe
             /\ Restore(mig[1], f)
        ELSE /\ plug' = plug + 1 /\ rf' = f
             /\ IF waiting THEN /\ devClient' = TRUE /\ devWait' = (devWait \/ ~devClient)
                                /\ UNCHANGED pipe
                ELSE Announce("connected") /\ UNCHANGED <<devClient, devWait>>
             /\ UNCHANGED <<started, readVars, numBuf, wf, mig>>
  /\ UNCHANGED <<setup, clip, recvBuf, cmc, clientVars, got, unseen, waiting, sent, abort>>

\* The VDAgentMessage header of the partial message has been read.
HeaderRead == rf.left > 0 \/ Len(buf) > HeaderLen

UnreadBeyondBuffer == mlen

\* What is left to read of the chunk.
Unread == mlen + rlen

\* reds_on_main_channel_migrate on the source, where the device no longer runs.  (The streams
\* of AgentStreams keep to the protocol, so the filter has no error to report here.)
MigrateChannel ==
  /\ Alive /\ Seamless /\ side = "run" /\ client /\ attaches > 0
  /\ IF rstate = "data" /\ buf = <<>> THEN Fail("migrateNoData")
     ELSE /\ side' = "flush"
          /\ IF rstate = "data" /\ HeaderRead
             THEN LET p == Process(rf, buf, clip)
                  IN /\ mlen' = Unread /\ rstate' = "getbuf" /\ rlen' = 0 /\ buf' = <<>>
                     /\ rf' = p.f
                     /\ IF p.res = "ok" THEN pipe' = Append(pipe, Data(buf)) /\ UNCHANGED numBuf
                        ELSE numBuf' = numBuf - 1 /\ UNCHANGED pipe
             ELSE UNCHANGED <<readVars, rf, pipe, numBuf>>
          /\ UNCHANGED <<setup, devVars, wf, clip, recvBuf, cmc, clientVars, got, wire, agot, unseen,
                         waiting, sent, mig, abort, attaches>>

FilterResult == rf.result

\* The agent part of SpiceMigrateDataMain.
MigData ==
  [connected |-> attached, started |-> started,
   chdr |-> IF rstate = "header" THEN ChunkHdr - rlen ELSE ChunkHdr,
   size |-> mlen, done |-> rstate = "getbuf",
   part |-> buf, left |-> rf.left, result |-> FilterResult,
   wleft |-> wf.left, wresult |-> wf.result]

\* reds_marshall_migrate_data, once the client has got everything; then the client talks to
\* the fresh port of the destination.
MigrateSend ==
  /\ Alive /\ side = "flush" /\ pipe = <<>> /\ inMsg = "no"
  /\ IF attached /\ rstate = "header" /\ rf.left > 0 THEN Fail("migrateMidMessage")
     ELSE IF attached /\ rstate = "data" /\ Len(buf) >= HeaderLen THEN Fail("migrateHeader")
     ELSE /\ sent' = <<MigData>> /\ waiting' = TRUE
          /\ side' = IF attached THEN "dst" ELSE "over"
          /\ attached' = FALSE /\ plug' = 0 /\ started' = FALSE /\ devClient' = FALSE
          /\ devWait' = FALSE /\ ResetRead /\ numBuf' = 0
          /\ rf' = FilterInit /\ wf' = FilterInit /\ recvBuf' = FALSE /\ cmc' = <<>>
          /\ UNCHANGED <<setup, clip, clientVars, pipe, got, wire, agot, unseen, mig, abort, attaches>>

\* reds_handle_migrate_data on the destination.
HandleMigrateData ==
  /\ Alive /\ waiting /\ sent # <<>>
  /\ LET d == sent[1]
     IN IF d.connected /\ ~attached /\ plug # 0 THEN Fail("plugGeneration")
        ELSE /\ waiting' = FALSE /\ sent' = <<>>
             /\ IF d.connected /\ ~attached
                THEN /\ mig' = sent
                     /\ UNCHANGED <<pipe, devClient, devWait, started, readVars, numBuf, rf, wf>>
                ELSE IF d.connected /\ plug = 1
                THEN Restore(d, rf) /\ UNCHANGED <<pipe, mig, devClient>>
                ELSE /\ pipe' = pipe \o (IF d.connected THEN <<Notice("disconnected")>> ELSE <<>>)
                                \o (IF attached THEN <<Notice("connected")>> ELSE <<>>)
                     /\ devClient' = (devClient /\ (d.connected \/ ~attached))
                     /\ devWait' = (devWait /\ (d.connected \/ ~attached))
                     /\ UNCHANGED <<mig, started, readVars, numBuf, rf, wf>>
             /\ UNCHANGED <<setup, attached, plug, clip, recvBuf, cmc, clientVars, got, wire, agot, unseen,
                            side, abort, attaches>>

-----------------------------------------------------------------------------
Next ==
  \/ AgentRemove \/ GetBuff \/ ClientReceives
  \/ \E n \in 1 .. ChunkHdr : ReadHeader(n)
  \/ \E n \in 1 .. MaxData : ReadData(n)
  \/ ClientConnect \/ AgentStart \/ GetAgentDataBuffer \/ AgentData \/ SetCopyPaste
  \/ \E eof \in BOOLEAN : ClientDisconnect(eof)
  \/ Attach \/ MigrateChannel \/ MigrateSend \/ HandleMigrateData

Spec == Init /\ [][Next]_vars

\* The event loop serves the device and the client's socket.
FairSpec ==
  /\ Spec
  /\ WF_vars(\E n \in 1 .. ChunkHdr : ReadHeader(n))
  /\ WF_vars(\E n \in 1 .. MaxData : ReadData(n))
  /\ WF_vars(GetBuff) /\ WF_vars(ClientReceives)

-----------------------------------------------------------------------------
(* Properties *)

Units == [m : Messages \cup {0}, i : Nat]

TypeOK ==
  /\ {attached, started, devClient, devWait, clip, recvBuf, client, mayStart, used, waiting}
       \subseteq BOOLEAN
  /\ rstate \in {"header", "getbuf", "data"} /\ rlen \in 0 .. MaxData + ChunkHdr /\ mlen \in Nat
  /\ {buf, cmc, got, wire, agot} \subseteq Seq(Units)
  /\ numBuf \in 0 .. NumReadBufs /\ plug \in 0 .. MaxAttach + MaxClients
  /\ rf \in Filters /\ wf \in Filters
  /\ inMsg \in {"no", "dev", "heap"} /\ side \in {"run", "flush", "dst", "over", "lost"}
  /\ unseen \subseteq Messages

\* What the client has got and will get of the agent's data up to the j-th item of the pipe,
\* since the last announcement of an agent before that item.
StreamUpTo(j) ==
  LET notices == {k \in 1 .. j : pipe[k].k # "data"}
      from    == IF notices = {} THEN 1 ELSE CHOOSE k \in notices : \A l \in notices : l =< k
  IN (IF notices = {} THEN got ELSE <<>>)
     \o FlattenSeq([k \in 1 .. j - from + 1 |-> pipe[from + k - 1].u])

\* Every client gets whole messages in order: whatever the interleaving of partial reads, buffer
\* shortage, changes of the copy-paste setting, agents and clients coming and going and
\* migration, it never gets a piece of a message the filter discards, nor the rest of a message
\* begun for an earlier client or agent (read_one_msg_from_device, agent_msg_filter_process_data,
\* reds_client_disconnect, reds_reset_vdp).  Only the beginning of a message that was being read
\* when the client sent AGENT_START may be missing.
ClientStreamWhole ==
  \A j \in 0 .. Len(pipe) :
    LET s == StreamUpTo(j)
    IN s # <<>> => IF s[1].m \in unseen THEN Whole(SubSeq(s, Total(s[1].m) - s[1].i + 2, Len(s)))
                   ELSE Whole(s)

\* An agent gets whole messages in order: an instance never gets the rest of a message the
\* client began for the previous instance, which keeps arriving after the reconnection
\* (the TODO of reds_reset_vdp; the agent drops what it has when told the client is gone).
AgentStreamWhole == Whole(agot)

Leading(hdrs) ==
  LET ends == {j \in DOMAIN wire : (wire[j].m = 0) # hdrs}
  IN IF ends = {} THEN Len(wire) ELSE (CHOOSE j \in ends : \A k \in ends : j =< k) - 1

\* The port never loses its place in the agent's stream: receive_len and message_receive_len
\* always add up to what is left of the current chunk.  And num_read_buf counts the buffer
\* being filled and those waiting for the client, no other: the pool of
\* REDS_VDI_PORT_NUM_RECEIVE_BUFFS never leaks (the assertion of ~RedCharDeviceVDIPort).
ReadAccounting ==
  /\ attached /\ ~devWait /\ side # "lost" =>
       CASE rstate = "header" -> IF wire = <<>> THEN rlen = ChunkHdr ELSE Leading(TRUE) = rlen
         [] rstate = "getbuf" -> Leading(FALSE) = mlen /\ mlen > 0
         [] rstate = "data"   -> Leading(FALSE) = rlen + mlen /\ rlen > 0
  /\ numBuf = Cardinality({j \in DOMAIN pipe : pipe[j].k = "data"})
              + (IF rstate = "data" THEN 1 ELSE 0)

\* A client's data finds what it needs, though agents and clients go and come between its
\* AGENT_START, the header of its message and the message: the char device knows the client, data
\* judged OK is in a buffer of the device (the assertions of reds_on_main_agent_data), and a
\* client that sends whole messages is not dropped for a protocol error.
AgentDataTaken ==
  /\ client /\ used /\ started => devClient
  /\ abort \notin {"noRecvBuf", "clientError"}

\* All the agent wrote is read, although the pool of read buffers is exhausted now and then.
AgentDrained == [](attached /\ ~Seamless => <>(wire = <<>> \/ ~attached \/ abort # "no"))

-----------------------------------------------------------------------------
(* What assertions and comments of the code say and TLC refutes *)

\* spice_assert(dev->priv->recv_from_client_buf == nullptr) of reds_get_agent_data_buffer.
RecvBufFree == abort # "recvBuf"

\* The assertion of reds_on_main_channel_migrate that a buffer being filled is not empty.
MigrateSomeData == abort # "migrateNoData"

\* The assertion of reds_marshall_migrate_data that between two chunks no message is open.
MigrateBetweenMessages == abort # "migrateMidMessage"

\* The assertion of reds_marshall_migrate_data that a header still being read is incomplete.
MigrateInHeader == abort # "migrateHeader"

\* The assertion of reds_handle_migrate_data that no agent was plugged before.
MigrateFirstPlug == abort # "plugGeneration"

\* A monitors configuration collected from the client's data is that of one message.
MonitorsConfigWhole == Whole(cmc) /\ \A k \in DOMAIN cmc : cmc[k].m = cmc[1].m

\* A client that sends whole messages is never dropped for a protocol error of its agent data,
\* not even when the migration data reaches the destination before the agent.
ClientNotBlamed == abort # "clientError"

=============================================================================
