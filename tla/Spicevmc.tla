------------------------------ MODULE Spicevmc ------------------------------
(***************************************************************************)
(* The spicevmc channels (spicevmc.cpp: usbredir, webdav and port): bytes from *)
(* the guest's device to the client up to QUEUED_DATA_LIMIT, optionally       *)
(* compressed, bytes from the client to the device under the device's self    *)
(* tokens, and the port's open and close events.                             *)
(*                                                                         *)
(* Data is counted in units.  The device (external) wakes the server up when   *)
(* it has new data and after a read that left some; a read that was refused    *)
(* makes it wait for the server.                                             *)
(***************************************************************************)
EXTENDS Integers, Sequences, FiniteSets, FiniteSetsExt, SequencesExt

CONSTANTS VmcBuf,         \* BUF_SIZE
          VmcLimit,       \* QUEUED_DATA_LIMIT
          VmcTokens,      \* the 128 self tokens of RedCharDeviceSpiceVmc
          MaxVmc          \* bound on calls of the device and messages of the client

VARIABLES vmc,            \* RedVmcChannel, its client and the char device under it
          port,           \* the device: [ready, asks, opened]
          vcl,            \* the client: [opened, got]; got counts units since it connected
          vmcCalls

vmcVars == <<vmc, port, vcl, vmcCalls>>

VmcInit ==
    /\ vmc = [rcc |-> FALSE, queued |-> 0, pipe |-> <<>>, spare |-> FALSE, recv |-> FALSE, blocked |-> FALSE,
              opened |-> FALSE, tokens |-> VmcTokens, writes |-> <<>>, waiting |-> FALSE, read |-> 0,
              lz4 |-> FALSE, gone |-> FALSE]
    /\ port = [ready |-> 0, asks |-> FALSE]
    /\ vcl = [opened |-> FALSE, got |-> 0]
    /\ vmcCalls = 0

VmcCall == vmcCalls < MaxVmc /\ vmcCalls' = vmcCalls + 1

\* The sizes n units may be sent in: try_compress_lz4
Compressed(v, n) == IF v.lz4 /\ n > 1 THEN {n, n - 1} ELSE {n}

\* spicevmc_red_channel_queue_data
QueueData(v, n, size) ==
    [v EXCEPT !.queued = @ + size, !.read = @ + n, !.pipe = Append(@, [kind |-> "data", n |-> n, size |-> size])]

\* RedCharDeviceSpiceVmc::read_one_msg_from_device: the outcomes <<vmc, port>>.
\* An item that found nothing to read is kept in `spare' (channel->pipe_item).
ReadOneMsg(v, d) ==
    IF v.waiting THEN {<<v, d>>}
    ELSE IF ~v.rcc \/ v.queued >= VmcLimit THEN {<<v, [d EXCEPT !.asks = FALSE]>>}
    ELSE IF d.ready = 0 THEN {<<[v EXCEPT !.spare = TRUE], [d EXCEPT !.asks = FALSE]>>}
    ELSE LET n == Min({d.ready, VmcBuf})
         IN  {<<QueueData([v EXCEPT !.spare = FALSE], n, size),
                [ready |-> d.ready - n, asks |-> d.ready > n]>> : size \in Compressed(v, n)}

\* The device has new data and wakes the server up.
VmcDeviceData(n) ==
    /\ VmcCall /\ port' = [ready |-> port.ready + n, asks |-> TRUE]
    /\ UNCHANGED <<vmc, vcl>>

\* spice_server_char_device_wakeup
VmcWakeup ==
    /\ port.asks
    /\ \E x \in ReadOneMsg(vmc, port) : vmc' = x[1] /\ port' = x[2]
    /\ UNCHANGED <<vcl, vmcCalls>>

\* RedVmcChannel::on_connect: port_send_init, then client_add, which wakes the
\* device up unless migrate data are to come
VmcConnect(lz4, migrated) ==
    /\ VmcCall /\ ~vmc.rcc
    /\ \E x \in ReadOneMsg([vmc EXCEPT !.rcc = TRUE, !.queued = 0, !.blocked = FALSE, !.lz4 = lz4, !.read = 0,
                                       !.waiting = migrated,
                                       !.pipe = <<[kind |-> "port", opened |-> vmc.opened]>>], port) :
          vmc' = x[1] /\ port' = x[2]
    /\ vcl' = [opened |-> FALSE, got |-> 0]

\* VmcChannelClient::on_disconnect; client_remove reads once more when migrate data
\* never came
VmcDisconnect ==
    /\ vmc.rcc
    /\ vmc' = [vmc EXCEPT !.rcc = FALSE, !.pipe = <<>>, !.recv = FALSE, !.waiting = FALSE,
                          !.tokens = IF vmc.recv THEN @ + 1 ELSE @]
    /\ port' = [port EXCEPT !.asks = IF vmc.waiting THEN FALSE ELSE @]
    /\ UNCHANGED <<vcl, vmcCalls>>

\* VmcChannelClient::handle_migrate_data; the restored write buffer takes a token
VmcMigrateData(withWrite) ==
    /\ vmc.waiting
    /\ withWrite => vmc.tokens > 0 /\ vmc.writes = <<>>
    /\ \E x \in ReadOneMsg([vmc EXCEPT !.waiting = FALSE,
                                       !.tokens = IF withWrite THEN @ - 1 ELSE @,
                                       !.writes = IF withWrite THEN <<"token">> ELSE @], port) :
          vmc' = x[1] /\ port' = x[2]
    /\ UNCHANGED <<vcl, vmcCalls>>

\* VmcChannelClient::alloc_recv_buf for SPICEVMC_DATA: without token reading stops
VmcAllocRecvBuf ==
    /\ VmcCall /\ vmc.rcc /\ ~vmc.recv /\ ~vmc.blocked /\ ~vmc.waiting
    /\ vmc' = IF vmc.tokens = 0 THEN [vmc EXCEPT !.blocked = TRUE]
              ELSE [vmc EXCEPT !.tokens = @ - 1, !.recv = TRUE]
    /\ UNCHANGED <<port, vcl>>

\* handle_message: SPICE_MSGC_SPICEVMC_DATA
VmcData ==
    /\ vmc.recv
    /\ vmc' = [vmc EXCEPT !.recv = FALSE, !.writes = Append(@, "token")]
    /\ UNCHANGED <<port, vcl, vmcCalls>>

\* handle_compressed_msg: a buffer without token
VmcCompressedData ==
    /\ VmcCall /\ vmc.rcc /\ ~vmc.recv /\ ~vmc.blocked /\ ~vmc.waiting
    /\ vmc' = [vmc EXCEPT !.writes = Append(@, "none")]
    /\ UNCHANGED <<port, vcl>>

\* write_buffer_release of a server buffer: RedCharDeviceSpiceVmc::on_free_self_token.
\* `gone': the channel has no client any more, and the code follows a null pointer.
FreeSelfToken(v) ==
    [v EXCEPT !.tokens = @ + 1, !.blocked = FALSE, !.gone = @ \/ ~v.rcc]

\* RedCharDevice::write_to_device: the device takes the oldest buffer
VmcDeviceTakes ==
    /\ vmc.writes # <<>>
    /\ LET v == [vmc EXCEPT !.writes = Tail(@)]
       IN  vmc' = IF Head(vmc.writes) = "token" THEN FreeSelfToken(v) ELSE v
    /\ UNCHANGED <<port, vcl, vmcCalls>>

\* The variant for the mutation: the device is woken up only when all was sent.
WokenWhenEmpty(old, new) == old > 0 /\ new = 0

\* The last condition of spicevmc_red_channel_send_data
CrossesLimit(old, new) == old >= VmcLimit /\ new < VmcLimit

\* VmcChannelClient::send_item: spicevmc_red_channel_send_data, send_port_init, send_port_event
VmcSend ==
    /\ vmc.rcc /\ vmc.pipe # <<>>
    /\ LET item == Head(vmc.pipe)
           v == [vmc EXCEPT !.pipe = Tail(@)]
           w == [v EXCEPT !.queued = @ - item.size]
       IN  IF item.kind = "port"
           THEN vcl' = [vcl EXCEPT !.opened = item.opened] /\ vmc' = v /\ UNCHANGED port
           ELSE /\ vcl' = [vcl EXCEPT !.got = @ + item.n]
                /\ \E x \in IF CrossesLimit(vmc.queued, w.queued) THEN ReadOneMsg(w, port) ELSE {<<w, port>>} :
                      vmc' = x[1] /\ port' = x[2]
    /\ UNCHANGED vmcCalls

\* RedCharDeviceSpiceVmc::port_event
VmcPortEvent(opened) ==
    /\ VmcCall
    /\ vmc' = [vmc EXCEPT !.opened = opened,
                          !.pipe = IF vmc.rcc THEN Append(@, [kind |-> "port", opened |-> opened]) ELSE @]
    /\ UNCHANGED <<port, vcl>>

VmcNext ==
    /\ ~vmc.gone
    /\ \/ \E n \in 1 .. VmcBuf + 1 : VmcDeviceData(n)
       \/ \E lz4, migrated \in BOOLEAN : VmcConnect(lz4, migrated)
       \/ \E withWrite \in BOOLEAN : VmcMigrateData(withWrite)
       \/ \E opened \in BOOLEAN : VmcPortEvent(opened)
       \/ VmcWakeup \/ VmcDisconnect \/ VmcAllocRecvBuf \/ VmcData \/ VmcCompressedData
       \/ VmcDeviceTakes \/ VmcSend

VmcSpec == VmcInit /\ [][VmcNext]_vmcVars
-----------------------------------------------------------------------------
DataItems == SelectSeq(vmc.pipe, LAMBDA i : i.kind = "data")
PortItems == SelectSeq(vmc.pipe, LAMBDA i : i.kind = "port")
Queued == FoldSeq(LAMBDA i, n : i.size + n, 0, DataItems)
Unsent == FoldSeq(LAMBDA i, n : i.n + n, 0, DataItems)
TokensOut == Len(SelectSeq(vmc.writes, LAMBDA w : w = "token")) + IF vmc.recv THEN 1 ELSE 0

(* Nothing stops for good: when the device waits with data for a connected     *)
(* client, the queue is at its limit and the send that brings it below will     *)
(* wake the device up; the queue's counter is exactly what is queued; reading   *)
(* from the client is blocked only while buffers hold all tokens, so a freed     *)
(* one unblocks it.  Everything read reaches the client, compressed or not,      *)
(* and once the port messages are sent the client knows whether the port is     *)
(* open.                                                                       *)
VmcNothingStops ==
    ~vmc.gone =>
    /\ vmc.tokens + TokensOut = VmcTokens
    /\ vmc.rcc => /\ vmc.queued = Queued
                  /\ vmc.read = vcl.got + Unsent
                  /\ port.ready > 0 /\ ~vmc.waiting => port.asks \/ vmc.queued >= VmcLimit
                  /\ vmc.blocked => vmc.tokens = 0
                  /\ PortItems = <<>> => vcl.opened = vmc.opened
=============================================================================
