------------------------------ MODULE Smartcard ------------------------------
(***************************************************************************)
(* The smartcard channel (smartcard.cpp, smartcard-channel-client.cpp): the   *)
(* reader is attached to one client, tells the guest's device when the client  *)
(* adds or removes it, and cuts the device's byte stream into messages, over   *)
(* disconnections and migrations.                                            *)
(*                                                                         *)
(* A message of the device is its payload's length; its bytes come in pieces  *)
(* of any length (external: the device).                                      *)
(***************************************************************************)
EXTENDS Integers, Sequences, FiniteSets, FiniteSetsExt, SequencesExt

CONSTANTS VscHeader,      \* sizeof(VSCMsgHeader)
          ApduBufSize,    \* APDUBufSize
          VscLengths,     \* payload lengths of the device's messages
          MaxVsc          \* bound on the device's messages and the client's commands

VARIABLES sc,       \* the reader and its client, as the server knows them
          vsc,      \* the device: [told: has a reader, stream: lengths not yet read whole, wire: bytes ready]
          vscCalls

vscVars == <<sc, vsc, vscCalls>>

(* A payload longer than ApduBufSize but not longer than the buffer fills the *)
(* buffer before its last byte and smartcard_read_buf_prepare does not enlarge *)
(* it: the reader then waits for ever.  No APDU is that long.                  *)
ASSUME LengthsOutsideGap ==
    \A l \in VscLengths : l \in Nat /\ ~(ApduBufSize < l /\ l <= ApduBufSize + VscHeader)

FreshBuf == ApduBufSize + VscHeader

\* RedCharDeviceSmartcardPrivate, smartcard_device_connect; the device has sent nothing
VscInit ==
    /\ sc = [connected |-> FALSE, attached |-> FALSE, added |-> FALSE, waiting |-> FALSE,
             used |-> 0, size |-> FreshBuf, recv |-> "none", pipe |-> <<>>, lost |-> FALSE,
             mig |-> [added |-> FALSE, used |-> 0]]
    /\ vsc = [told |-> FALSE, stream |-> <<>>, wire |-> 0]
    /\ vscCalls = 0

VscCall == vscCalls < MaxVsc /\ vscCalls' = vscCalls + 1

\* smartcard_read_buf_prepare
BufPrepared(size, len) ==
    IF len > size THEN Max({size * 2, len + VscHeader}) ELSE size

\* Deliver every whole message in the buffer, as the loop of
\* read_one_msg_from_device does before it reads again; r is [used, stream, out]
CutMessages(r) ==
    LET Total[i \in 0 .. Len(r.stream)] ==
            IF i = 0 THEN 0 ELSE Total[i - 1] + VscHeader + r.stream[i]
        n == Max({i \in 0 .. Len(r.stream) : Total[i] <= r.used})
    IN  [used |-> r.used - Total[n], stream |-> SubSeq(r.stream, n + 1, Len(r.stream)),
         out |-> SubSeq(r.stream, 1, n)]

\* The buffer has grown once the header of the message at its start was read.
SizeFor(size, r) ==
    IF r.used >= VscHeader /\ r.stream # <<>> THEN BufPrepared(size, Head(r.stream)) ELSE size

\* RedCharDeviceSmartcard::read_one_msg_from_device: one read of n bytes;
\* smartcard_char_device_on_message_from_device makes an item when there is a client
ReadFromDevice(n) ==
    /\ ~sc.waiting /\ ~sc.lost /\ n \in 1 .. vsc.wire /\ n <= sc.size - sc.used
    /\ LET r == CutMessages([used |-> sc.used + n, stream |-> vsc.stream, out |-> <<>>])
       IN  /\ sc' = [sc EXCEPT !.used = r.used, !.size = SizeFor(@, r),
                               !.pipe = IF sc.attached THEN @ \o r.out ELSE @]
           /\ vsc' = [vsc EXCEPT !.stream = r.stream, !.wire = @ - n]
    /\ UNCHANGED vscCalls

\* The device has a message for the client.
DeviceMessage(len) ==
    /\ VscCall
    /\ vsc' = [vsc EXCEPT !.stream = Append(@, len), !.wire = @ + VscHeader + len]
    /\ UNCHANGED sc

\* SmartCardChannelClient::send_item
VscSend ==
    /\ sc.connected /\ sc.pipe # <<>>
    /\ sc' = [sc EXCEPT !.pipe = Tail(@)]
    /\ UNCHANGED <<vsc, vscCalls>>

\* RedSmartcardChannel::on_connect, smartcard_char_device_attach_client
VscConnect ==
    /\ VscCall /\ ~sc.connected
    /\ sc' = [sc EXCEPT !.connected = TRUE, !.attached = TRUE, !.pipe = <<>>]
    /\ UNCHANGED vsc

\* SmartCardChannelClient::alloc_recv_buf: a write buffer of the device
AllocRecvBuf ==
    /\ VscCall /\ sc.connected /\ sc.recv = "none" /\ ~sc.waiting
    /\ sc' = [sc EXCEPT !.recv = "held"]
    /\ UNCHANGED vsc

\* handle_message: VSC_ReaderAdd (smartcard_char_device_notify_reader_add), then release_recv_buf
HandleReaderAdd ==
    /\ sc.recv = "held"
    /\ sc' = [sc EXCEPT !.recv = "none", !.added = TRUE]
    /\ vsc' = [vsc EXCEPT !.told = TRUE]
    /\ UNCHANGED vscCalls

\* smartcard_char_device_notify_reader_remove on <<sc, vsc>>
NotifyReaderRemove(x) ==
    IF ~x[1].added THEN x
    ELSE <<[x[1] EXCEPT !.added = FALSE], [x[2] EXCEPT !.told = FALSE]>>

\* handle_message: VSC_ReaderRemove; without a reader the client gets an error
HandleReaderRemove ==
    /\ sc.recv = "held"
    /\ LET x == NotifyReaderRemove(<<[sc EXCEPT !.recv = "none"], vsc>>)
       IN  sc' = x[1] /\ vsc' = x[2]
    /\ UNCHANGED vscCalls

\* handle_message: VSC_ATR, VSC_APDU...: the buffer goes to the device
HandleApdu ==
    /\ sc.recv = "held"
    /\ sc' = [sc EXCEPT !.recv = "none"]
    /\ UNCHANGED <<vsc, vscCalls>>

\* SmartCardChannelClient::on_disconnect: detach_client, then notify_reader_remove.
\* `lost': the target of a migration never learnt of the reader and of the bytes the
\* source had read; what it makes of the rest of the stream is not followed.
VscDisconnect ==
    /\ sc.connected
    /\ LET x == NotifyReaderRemove(<<[sc EXCEPT !.connected = FALSE, !.attached = FALSE, !.waiting = FALSE,
                                                !.recv = "none", !.pipe = <<>>,
                                                !.lost = @ \/ (sc.waiting /\ (sc.mig.added \/ sc.mig.used > 0))],
                                     vsc>>)
       IN  sc' = x[1] /\ vsc' = x[2]
    /\ UNCHANGED vscCalls

\* A migration: the source has sent everything and its migrate data; the target's
\* reader is attached and waits for them.  mig is what they hold
\* (smartcard_channel_send_migrate_data).
VscMigrate ==
    /\ VscCall /\ sc.attached /\ ~sc.waiting /\ sc.pipe = <<>> /\ sc.recv = "none"
    /\ sc' = [sc EXCEPT !.waiting = TRUE, !.mig = [added |-> sc.added, used |-> sc.used],
                        !.added = FALSE, !.used = 0, !.size = FreshBuf]
    /\ UNCHANGED vsc

\* The variant for the mutation: the partial message stays behind.
RestoredWithoutRead(s, stream) == s

\* smartcard_device_restore_partial_read into a fresh buffer
RestorePartialRead(s, stream) ==
    [s EXCEPT !.used = s.mig.used, !.size = SizeFor(@, [used |-> s.mig.used, stream |-> stream])]

\* SmartCardChannelClient::handle_migrate_data, smartcard_char_device_handle_migrate_data
VscMigrateData ==
    /\ sc.waiting
    /\ sc' = [RestorePartialRead(sc, vsc.stream) EXCEPT
                 !.waiting = FALSE, !.added = sc.mig.added, !.mig = [added |-> FALSE, used |-> 0]]
    /\ UNCHANGED <<vsc, vscCalls>>

VscNext ==
    \/ \E n \in 1 .. vsc.wire : ReadFromDevice(n)
    \/ \E len \in VscLengths : DeviceMessage(len)
    \/ VscSend \/ VscConnect \/ AllocRecvBuf \/ HandleReaderAdd \/ HandleReaderRemove \/ HandleApdu
    \/ VscDisconnect \/ VscMigrate \/ VscMigrateData

VscSpec == VscInit /\ [][VscNext]_vscVars
-----------------------------------------------------------------------------
Bytes(lens) == FoldSeq(LAMBDA l, n : l + VscHeader + n, 0, lens)

(* The buffer always holds the unfinished message at the head of the device's *)
(* stream and has room for more of it, so the reader never waits for ever on a *)
(* message it has not taken whole, also when it was cut by a migration; and the *)
(* guest's device has a reader exactly when the server says so, none once the   *)
(* client is gone.                                                            *)
SmartcardInStep ==
    /\ sc.used < sc.size
    /\ ~sc.lost /\ ~sc.waiting =>
          /\ sc.used + vsc.wire = Bytes(vsc.stream)
          /\ vsc.stream # <<>> => sc.used < VscHeader + Head(vsc.stream)
          /\ vsc.told = sc.added
          /\ vsc.told => sc.connected
=============================================================================
