------------------------- MODULE ChannelClientProofs -------------------------
(***************************************************************************)
(* Proofs about one connection of a channel (ChannelClient): the window of *)
(* unacknowledged messages, the watch, the latency test, the connectivity  *)
(* monitor and the marker of wait_pipe_item_sent, for every kind of        *)
(* channel, every size of window and socket buffer, and any number of      *)
(* items.                                                                  *)
(***************************************************************************)
EXTENDS ChannelAckProofs

-----------------------------------------------------------------------------
(* Types *)

SentSame == sentBytes' \in {sentBytes, SentSome} /\ ((sending # <<>> /\ sending' = <<>>) => sentBytes' = SentSome)

\* The monitor is left alone, switched off, or started.
MonitorSame == gotBytes' = gotBytes /\ (monitor' = monitor \/ monitor' = "off" \/ (monitor' = "connected" /\ Monitored))

\* Every step keeps the types.
LEMMA TypeStep ==
  CountLaws /\ TypeOK /\ Shape /\ Marking /\ [Next]_vars => TypeOK'
  \* What a step may do to the timers and to sent_bytes keeps their types.
  <1>TimerTypes.
        ASSUME Scalars, TimersKept
        PROVE  ping' \in {"none", "timer", "warmup", "latency"} /\ sentBytes' \in BOOLEAN
    <2> USE <1>TimerTypes
    <2>1. ping' \in {"none", "timer", "warmup", "latency"}
      BY DEF Scalars, TimersKept
    <2>2. SentSome \in BOOLEAN /\ sentBytes \in BOOLEAN
      BY DEF Scalars, SentSome
    <2>3. QED BY <2>1, <2>2 DEF TimersKept
  \* The resumed message: the timers of the steps that write.
  <1>WritersTimers.
        ASSUME TypeOK, NEW rest, Push(window, rest) \/ (Blocked /\ Transmit(sending, window, 1, rest)), UNCHANGED <<channel, recvq>>
        PROVE  ping' \in {"none", "timer", "warmup", "latency"} /\ sentBytes' \in BOOLEAN
    <2> USE <1>WritersTimers
    <2>1. window \in 0 .. Word - 1
      BY DEF TypeOK
    <2>2. TimersKept
      BY <2>1, PushFacts, ResumeFacts, Zenon
    <2>3. QED BY <2>2, TypeParts, <1>TimerTypes
  \* A step of the server thread that begins no item keeps the types.
  <1>ElsewhereScalars. ASSUME TypeOK, Elsewhere \/ StillThere PROVE Scalars'
    <2> USE <1>ElsewhereScalars
    <2>0. Scalars /\ added \in Nat /\ MaxItems \in Nat
      BY TypeParts, ThisKind DEF Scalars
    <2> USE <2>0
    <2>m. /\ \A e \in SUBSET {"read", "write"} : Masked(e) \subseteq {"read", "write"}
          /\ MaskForAdd \subseteq {"read", "write"} /\ MaskAfterPush \subseteq {"read", "write"}
      BY MaskTypes DEF Scalars
    <2>w. SUFFICES ASSUME Elsewhere \/ StillThere,
                          ~(\E kind \in {"data", "list"}, how \in {"add", "push", "next"} : AddItem(kind, how))
                   PROVE  Scalars'
      <3>1. ASSUME NEW kind \in {"data", "list"}, NEW how \in {"add", "push", "next"}, AddItem(kind, how) PROVE Scalars'
        <4>1. /\ UNCHANGED <<channel, connected, blockRead, ackVars, flushWait, hasTimer, monVars, waitVars, toServer, clientVars>>
              /\ added < MaxItems /\ added' = added + 1 /\ mask' = MaskForAdd
              /\ IF how = "push" THEN Push(window, pipe') ELSE UNCHANGED <<loop, sendq, sending, window, ping, sentBytes>>
          BY <3>1 DEF AddItem
        <4> USE <4>1
        <4>2. ping' \in {"none", "timer", "warmup", "latency"} /\ sentBytes' \in BOOLEAN /\ loop' \in BOOLEAN
          <5>1. CASE how = "push"
            <6>1. Push(window, pipe') /\ UNCHANGED <<channel, recvq>> /\ loop' = TRUE
              BY <5>1 DEF clientVars, Push
            <6>2. QED BY <6>1, <1>WritersTimers
          <5>2. CASE how # "push"
            BY <5>2 DEF Scalars
          <5>3. QED BY <5>1, <5>2
        <4>3. added' \in 0 .. MaxItems
          OBVIOUS
        <4>4. QED BY <2>m, <4>2, <4>3
                DEF Scalars, ackVars, monVars, waitVars, clientVars, Windows, MaxItems
      <3>2. QED BY <3>1
    <2>1. CASE WriteEvent \/ WaitPush
      <3>1. /\ Push(window, pipe)
            /\ UNCHANGED <<channel, watchVars, pipe, ackVars, flushWait, hasTimer, monVars, waitVars, toServer, clientVars, added>>
        BY <2>1 DEF WriteEvent, WaitPush
      <3> USE <3>1
      <3>2. loop' = TRUE /\ UNCHANGED <<channel, recvq>>
        BY DEF Push, clientVars
      <3>3. ping' \in {"none", "timer", "warmup", "latency"} /\ sentBytes' \in BOOLEAN
        BY <3>2, <1>WritersTimers
      <3>4. QED BY <3>2, <3>3 DEF Scalars, watchVars, ackVars, monVars, waitVars, clientVars, Windows, MaxItems
    <2>2. CASE WaitSend
      <3>1. /\ Transmit(sending, window, 1, pipe) /\ Blocked
            /\ UNCHANGED <<channel, watchVars, pipe, loop, ackVars, flushWait, hasTimer, monVars, waitVars, toServer, clientVars, added>>
        BY <2>2 DEF WaitSend
      <3> USE <3>1
      <3>2. ping' \in {"none", "timer", "warmup", "latency"} /\ sentBytes' \in BOOLEAN
        <4>1. UNCHANGED <<channel, recvq>>
          BY DEF clientVars
        <4>2. QED BY <4>1, <1>WritersTimers
      <3>3. QED BY <3>2 DEF Scalars, watchVars, ackVars, monVars, waitVars, clientVars, Windows, MaxItems
    <2>3. CASE PushEnd
      <3>1. /\ channel' = channel /\ connected' = connected /\ blockRead' = blockRead /\ loop' \in BOOLEAN
            /\ generation' = generation /\ clientGen' = clientGen /\ clientWindow' = clientWindow
            /\ opened' = opened /\ flushWait' = flushWait /\ ping' = ping /\ hasTimer' = hasTimer
            /\ monitor' = monitor /\ gotBytes' = gotBytes /\ sentBytes' = sentBytes /\ wait' = wait /\ marked' = marked
            /\ cWindow' = cWindow /\ cCount' = cCount /\ peer' = peer /\ added' = added
        BY <2>3, Zenon DEF PushEnd, ackVars, pingVars, monVars, waitVars, clientVars
      <3>2. mask' \subseteq {"read", "write"}
        BY <2>m, <2>3 DEF PushEnd, Scalars
      <3>3. QED BY <3>1, <3>2 DEF Scalars, Windows, MaxItems
    <2>4. CASE RemoveItem \/ WaitDone \/ \E w \in {"outgoing", "all"} : StartWait(w)
      <3>1. /\ channel' = channel /\ connected' = connected /\ mask' = mask /\ blockRead' = blockRead
            /\ loop' = loop /\ generation' = generation /\ clientGen' = clientGen /\ clientWindow' = clientWindow
            /\ opened' = opened /\ flushWait' = flushWait /\ ping' = ping /\ hasTimer' = hasTimer
            /\ monitor' = monitor /\ gotBytes' = gotBytes /\ sentBytes' = sentBytes /\ marked' = marked
            /\ cWindow' = cWindow /\ cCount' = cCount /\ peer' = peer /\ added' = added
        BY <2>4 DEF RemoveItem, WaitDone, StartWait, watchVars, ackVars, pingVars, monVars, waitVars, clientVars
      <3>2. wait' \in {"no", "item", "outgoing", "all"}
        BY <2>4 DEF RemoveItem, WaitDone, StartWait, watchVars, ackVars, pingVars, monVars, waitVars, clientVars, Scalars
      <3>3. QED BY <3>1, <3>2 DEF Scalars, Windows, MaxItems
    <2>5. CASE Migrate
      <3> USE <2>5
      <3>1. /\ channel' = channel /\ connected' = connected /\ blockRead' = blockRead /\ loop' = loop
            /\ generation' = generation /\ clientGen' = clientGen /\ clientWindow' = clientWindow
            /\ opened' = opened /\ flushWait' = flushWait /\ gotBytes' = gotBytes /\ sentBytes' = sentBytes
            /\ wait' = wait /\ marked' = marked /\ cWindow' = cWindow /\ cCount' = cCount /\ peer' = peer
        BY Zenon DEF Migrate, Cancelled, ackVars, waitVars, clientVars
      <3>2. ping' = Cancelled(ping) /\ hasTimer' = FALSE /\ monitor' = "off" /\ mask' = MaskForAdd
        BY DEF Migrate
      <3>3. /\ ping' \in {"none", "timer", "warmup", "latency"} /\ mask' \subseteq {"read", "write"}
            /\ hasTimer' \in BOOLEAN /\ monitor' \in {"off", "connected", "blocked", "wait_pong"}
        BY <2>m, <3>2, Zenon DEF Cancelled, Scalars
      <3>4. added' \in 0 .. MaxItems
        BY DEF Migrate
      <3>5. QED BY <3>1, <3>3, <3>4 DEF Scalars, Windows, MaxItems
    <2>6. CASE PingTimer
      <3>1. /\ channel' = channel /\ connected' = connected /\ blockRead' = blockRead /\ loop' = loop
            /\ generation' = generation /\ clientGen' = clientGen /\ clientWindow' = clientWindow
            /\ opened' = opened /\ flushWait' = flushWait /\ hasTimer' = hasTimer /\ monitor' = monitor
            /\ gotBytes' = gotBytes /\ sentBytes' = sentBytes /\ wait' = wait /\ marked' = marked
            /\ cWindow' = cWindow /\ cCount' = cCount /\ peer' = peer /\ added' = added
        BY <2>6 DEF PingTimer, ackVars, monVars, waitVars, clientVars
      <3>2. mask' \subseteq {"read", "write"} /\ ping' \in {"none", "timer", "warmup", "latency"}
        BY <2>m, <2>6, Zenon DEF PingTimer, ackVars, monVars, waitVars, clientVars, Scalars
      <3>3. QED BY <3>1, <3>2 DEF Scalars, Windows, MaxItems
    <2>7. CASE StartMonitoring
      <3>1. /\ channel' = channel /\ connected' = connected /\ mask' = mask /\ blockRead' = blockRead
            /\ loop' = loop /\ generation' = generation /\ clientGen' = clientGen /\ clientWindow' = clientWindow
            /\ opened' = opened /\ flushWait' = flushWait /\ hasTimer' = hasTimer /\ gotBytes' = gotBytes
            /\ sentBytes' = sentBytes /\ wait' = wait /\ marked' = marked /\ cWindow' = cWindow
            /\ cCount' = cCount /\ peer' = peer /\ added' = added
        BY <2>7 DEF StartMonitoring, Started, Cancelled, watchVars, ackVars, waitVars, clientVars
      <3>2. ping' \in {"none", "timer", "warmup", "latency"} /\ monitor' \in {"off", "connected", "blocked", "wait_pong"}
        BY <2>7 DEF StartMonitoring, Started, Cancelled, watchVars, ackVars, waitVars, clientVars, Scalars
      <3>3. QED BY <3>1, <3>2 DEF Scalars, Windows, MaxItems
    <2>8. CASE BlockRead \/ UnblockRead
      <3>1. /\ channel' = channel /\ connected' = connected /\ loop' = loop /\ generation' = generation
            /\ clientGen' = clientGen /\ clientWindow' = clientWindow /\ opened' = opened
            /\ flushWait' = flushWait /\ ping' = ping /\ hasTimer' = hasTimer /\ monitor' = monitor
            /\ gotBytes' = gotBytes /\ sentBytes' = sentBytes /\ wait' = wait /\ marked' = marked
            /\ cWindow' = cWindow /\ cCount' = cCount /\ peer' = peer /\ added' = added
        BY <2>8 DEF BlockRead, UnblockRead, BlockedMask, ackVars, pingVars, monVars, waitVars, clientVars
      <3>2. mask' \subseteq {"read", "write"} /\ blockRead' \in BOOLEAN
        BY <2>8, Zenon DEF BlockRead, UnblockRead, BlockedMask, ackVars, pingVars, monVars, waitVars, clientVars, Scalars
      <3>3. QED BY <3>1, <3>2 DEF Scalars, Windows, MaxItems
    <2>9. CASE StartWaitItem
      <3>1. /\ channel' = channel /\ connected' = connected /\ mask' = mask /\ blockRead' = blockRead
            /\ loop' = loop /\ generation' = generation /\ clientGen' = clientGen /\ clientWindow' = clientWindow
            /\ opened' = opened /\ flushWait' = flushWait /\ ping' = ping /\ hasTimer' = hasTimer
            /\ monitor' = monitor /\ gotBytes' = gotBytes /\ sentBytes' = sentBytes /\ cWindow' = cWindow
            /\ cCount' = cCount /\ peer' = peer /\ added' = added
        BY <2>9 DEF StartWaitItem, watchVars, ackVars, pingVars, monVars, clientVars
      <3>2. wait' \in {"no", "item", "outgoing", "all"} /\ marked' \in BOOLEAN
        BY <2>9, Zenon DEF StartWaitItem, watchVars, ackVars, pingVars, monVars, clientVars, Scalars
      <3>3. QED BY <3>1, <3>2 DEF Scalars, Windows, MaxItems
    <2>10. CASE NetMove \/ (\E how \in {"hung", "closed"} : PeerStops(how))
      <3>1. /\ channel' = channel /\ connected' = connected /\ mask' = mask /\ blockRead' = blockRead
            /\ loop' = loop /\ generation' = generation /\ clientGen' = clientGen /\ clientWindow' = clientWindow
            /\ opened' = opened /\ flushWait' = flushWait /\ ping' = ping /\ hasTimer' = hasTimer
            /\ monitor' = monitor /\ gotBytes' = gotBytes /\ sentBytes' = sentBytes /\ wait' = wait
            /\ marked' = marked /\ cWindow' = cWindow /\ cCount' = cCount /\ added' = added
        BY <2>10 DEF NetMove, PeerStops, serverVars, watchVars, ackVars, pingVars, monVars, waitVars
      <3>2. peer' \in {"up", "hung", "closed"}
        BY <2>10 DEF NetMove, PeerStops, serverVars, watchVars, ackVars, pingVars, monVars, waitVars, Scalars
      <3>3. QED BY <3>1, <3>2 DEF Scalars, Windows, MaxItems
    <2>11. CASE UNCHANGED vars
      <3>1. /\ channel' = channel /\ connected' = connected /\ mask' = mask /\ blockRead' = blockRead /\ loop' = loop
            /\ generation' = generation /\ clientGen' = clientGen /\ clientWindow' = clientWindow /\ opened' = opened
            /\ flushWait' = flushWait /\ ping' = ping /\ hasTimer' = hasTimer /\ monitor' = monitor /\ gotBytes' = gotBytes
            /\ sentBytes' = sentBytes /\ wait' = wait /\ marked' = marked /\ cWindow' = cWindow /\ cCount' = cCount
            /\ peer' = peer /\ added' = added
        BY <2>11 DEF vars, watchVars, ackVars, pingVars, monVars, waitVars, clientVars
      <3>2. QED BY <3>1 DEF Scalars, Windows, MaxItems
    <2>12. CASE StillThere
      <3> USE <2>12
      <3>1. CASE ConnectivityTimer
        <4> USE <3>1
        <4>0. ~Dead
          BY DEF StillThere, ConnectivityTimer, Disconnected, Idle
        <4>1. /\ channel' = channel /\ connected' = connected /\ mask' = mask /\ blockRead' = blockRead
              /\ loop' = loop /\ generation' = generation /\ clientGen' = clientGen /\ clientWindow' = clientWindow
              /\ opened' = opened /\ flushWait' = flushWait /\ ping' = ping /\ hasTimer' = hasTimer /\ wait' = wait
              /\ marked' = marked /\ cWindow' = cWindow /\ cCount' = cCount /\ peer' = peer /\ added' = added
          BY <4>0 DEF ConnectivityTimer, ackVars, waitVars, clientVars
        <4>2. monitor' \in {"off", "connected", "blocked", "wait_pong"} /\ gotBytes' \in BOOLEAN /\ sentBytes' \in BOOLEAN
          BY <4>0, Zenon DEF ConnectivityTimer
        <4>3. QED BY <4>1, <4>2 DEF Scalars, Windows, MaxItems
      <3>2. CASE WaitTimeout
        <4>1. /\ channel' = channel /\ connected' = connected /\ mask' = mask /\ blockRead' = blockRead
              /\ loop' = loop /\ generation' = generation /\ clientGen' = clientGen /\ clientWindow' = clientWindow
              /\ opened' = opened /\ flushWait' = flushWait /\ ping' = ping /\ hasTimer' = hasTimer
              /\ monitor' = monitor /\ gotBytes' = gotBytes /\ sentBytes' = sentBytes /\ marked' = marked
              /\ cWindow' = cWindow /\ cCount' = cCount /\ peer' = peer /\ added' = added
          BY <3>2 DEF Scalars, StillThere, WaitTimeout, Disconnected, ackVars, clientVars
        <4>2. wait' \in {"no", "item", "outgoing", "all"}
          BY <3>2 DEF StillThere, WaitTimeout, Disconnected, ackVars, clientVars, Scalars
        <4>3. QED BY <4>1, <4>2 DEF Scalars, Windows, MaxItems
      <3>3. QED BY <3>1, <3>2 DEF StillThere
    <2>13. QED
      BY <2>w, <2>1, <2>2, <2>3, <2>4, <2>5, <2>6, <2>7, <2>8, <2>9, <2>10, <2>11, <2>12, Zenon DEF Elsewhere
  \* The network is the only one to fill the client's socket buffer.
  <1>RecvKept.
        ASSUME CountLaws, TypeOK, Elsewhere \/ StillThere
        PROVE  recvq' \in Seq(Sent) /\ Len(recvq') <= RecvCap /\ RecvCap' = RecvCap
    <2> USE <1>RecvKept
    <2>1. CASE NetMove
      BY <2>1, NetMoveAside DEF Aside, RecvCap
    <2>2. CASE ~NetMove
      <3>1. recvq' = recvq /\ channel' = channel
        BY <2>2, Zenon DEF Elsewhere, StillThere, WriteEvent, PushEnd, RemoveItem, Migrate, AddItem, PingTimer, StartMonitoring, BlockRead, UnblockRead,
                    StartWaitItem, WaitPush, WaitSend, WaitDone, StartWait, PeerStops, ConnectivityTimer, WaitTimeout, vars, serverVars, clientVars
      <3>2. QED BY <3>1 DEF TypeOK, RecvCap, Sent
    <2>3. QED BY <2>1, <2>2
  \* The queues after a step that begins no item.
  <1>ElsewhereQueues.
        ASSUME CountLaws, TypeOK, Marking, Elsewhere \/ StillThere
        PROVE  Queues'
    <2> USE <1>ElsewhereQueues
    <2>1. Aside
      BY ElsewhereKeeps, StillKeeps
    <2>2. pipe' \in Seq(PipeItem)
      BY PipeStep DEF Piped
    <2>3. toServer' \in Seq(Received) /\ SendCap' = SendCap
      BY <2>1, TypeParts DEF Aside, Queues, SendCap
    <2>4. QED BY <2>1, <2>2, <2>3, <1>RecvKept DEF Aside, Carried, Queues
  \* disconnect() keeps the types.
  <1>GoneTypes. ASSUME TypeOK, Gone PROVE TypeOK'
    <2> USE <1>GoneTypes
    <2>0. Scalars /\ Queues
      BY TypeParts
    <2> USE <2>0
    <2>1. /\ UNCHANGED <<channel, blockRead, loop, window, generation, clientGen, clientWindow, opened, flushWait, ping, marked>>
          /\ UNCHANGED <<sendq, toServer, recvq, cWindow, cCount, peer, added>>
      BY DEF Gone, ConnectivityTimer, ConnectionLost, WaitTimeout, ackVars, waitVars, clientVars
    <2>2. connected' = FALSE /\ mask' = {} /\ pipe' = <<>> /\ sending' = <<>> /\ hasTimer' = FALSE /\ monitor' = "off"
      BY DEF Gone, Disconnected
    <2>3. wait' \in {"no", "item", "outgoing", "all"}
      BY DEF Gone, ConnectivityTimer, ConnectionLost, WaitTimeout, waitVars, Scalars
    <2>4. gotBytes' \in BOOLEAN /\ sentBytes' \in BOOLEAN
      <3>1. CASE ConnectivityTimer
        BY <3>1, Zenon DEF ConnectivityTimer, Scalars
      <3>2. CASE ConnectionLost \/ WaitTimeout
        BY <3>2 DEF ConnectionLost, WaitTimeout, Scalars
      <3>3. QED BY <3>1, <3>2 DEF Gone
    <2>5. connected' \in BOOLEAN /\ hasTimer' \in BOOLEAN /\ mask' \subseteq {"read", "write"}
          /\ monitor' \in {"off", "connected", "blocked", "wait_pong"}
      BY <2>2, Zenon
    <2>6. Scalars'
      BY <2>1, <2>3, <2>4, <2>5 DEF Scalars, Windows, MaxItems
    <2>7. Queues'
      <3>1. pipe' \in Seq(PipeItem) /\ sending' \in Seq(Sent) /\ Len(sending') <= 2
        BY <2>2
      <3>2. QED BY <2>1, <3>1 DEF Queues, SendCap, RecvCap
    <2>8. QED BY <2>6, <2>7, TypeParts
  \* An acknowledgement is handled, and push() called.
  <1>ReceiveAckTypes. ASSUME CountLaws, TypeOK, ReceiveAck PROVE TypeOK'
    <2> USE <1>ReceiveAckTypes
    <2>0. Scalars /\ Queues
      BY TypeParts
    <2> USE <2>0
    <2>1. PICK m \in Range(toServer) :
            CurrentAck(m) /\ Take(m) /\ mask' = Masked({"read", "write"}) /\ Push(Acked(window), pipe) /\ UNCHANGED <<clientGen, flushWait>>
      BY DEF ReceiveAck
    <2> USE <2>1
    <2>2. Acked(window) \in 0 .. Word - 1
      <3>1. clientWindow \in Nat /\ 2 * clientWindow + 2 < Word /\ Word \in Nat /\ window \in Nat
        BY ThisKind DEF Scalars, Queues
      <3>2. QED BY <3>1 DEF Acked
    <2>3. /\ m \in Received /\ toServer' \in Seq(Received) /\ gotBytes' \in BOOLEAN
          /\ channel' = channel /\ connected' = connected /\ blockRead' = blockRead /\ pipe' = pipe
          /\ generation' = generation /\ clientWindow' = clientWindow /\ opened' = opened /\ hasTimer' = hasTimer
          /\ monitor' = monitor /\ wait' = wait /\ marked' = marked /\ recvq' = recvq /\ cWindow' = cWindow
          /\ cCount' = cCount /\ peer' = peer /\ added' = added
      BY TakeTypes
    <2>4. Carried(Acked(window)) /\ TimersKept /\ loop' = TRUE
      BY <2>2, <2>3, PushFacts, Zenon
    <2> USE <2>4
    <2>5. ping' \in {"none", "timer", "warmup", "latency"} /\ sentBytes' \in BOOLEAN
      BY <1>TimerTypes
    <2>6. mask' \subseteq {"read", "write"} /\ loop' \in BOOLEAN /\ clientGen' = clientGen /\ flushWait' = flushWait
      BY MaskTypes
    <2>7. Scalars'
      BY <2>3, <2>5, <2>6 DEF Scalars, Windows, MaxItems
    <2>8. Queues'
      BY <2>3 DEF Carried, Queues, SendCap, RecvCap
    <2>9. QED BY <2>7, <2>8, TypeParts
  \* Any other message is handled.
  <1>ReceiveOtherTypes. ASSUME CountLaws, TypeOK, Shape, ReceiveOther PROVE TypeOK'
    <2> USE <1>ReceiveOtherTypes
    <2>0. Scalars /\ Queues
      BY TypeParts
    <2>1. PICK m \in Range(toServer) :
            /\ ~CurrentAck(m) /\ Take(m)
            /\ clientGen' = IF m.k = "sync" THEN m.n ELSE clientGen
            /\ flushWait' = IF m.k = "flush" THEN FALSE ELSE flushWait
            /\ ping' = IF m.k = "pong" THEN AfterPong(ping) ELSE ping
            /\ UNCHANGED <<mask, window, loop, sendq, sending, sentBytes>>
      BY Zenon DEF ReceiveOther
    <2>2. /\ m \in Received /\ toServer' \in Seq(Received) /\ gotBytes' \in BOOLEAN /\ m = toServer[1] /\ 1 \in DOMAIN toServer
          /\ channel' = channel /\ connected' = connected /\ blockRead' = blockRead /\ pipe' = pipe
          /\ generation' = generation /\ clientWindow' = clientWindow /\ opened' = opened /\ hasTimer' = hasTimer
          /\ monitor' = monitor /\ wait' = wait /\ marked' = marked /\ recvq' = recvq /\ cWindow' = cWindow
          /\ cCount' = cCount /\ peer' = peer /\ added' = added
      BY <2>1, TakeTypes
    <2>3. clientGen' \in {1, Unsynced}
      <3>1. m.k = "sync" => m.n = 1
        BY <2>2 DEF Shape
      <3>2. QED BY <2>0, <2>1, <3>1 DEF Scalars
    <2>4. flushWait' \in BOOLEAN
      BY <2>0, <2>1, Zenon DEF Scalars
    <2>5. ping' \in {"none", "timer", "warmup", "latency"}
      BY <2>0, <2>1 DEF Scalars, AfterPong
    <2>6. mask' = mask /\ window' = window /\ loop' = loop /\ sendq' = sendq /\ sending' = sending /\ sentBytes' = sentBytes
      BY <2>1
    <2>7. Scalars'
      BY <2>0, <2>2, <2>3, <2>4, <2>5, <2>6 DEF Scalars, Windows, MaxItems
    <2>8. Queues'
      BY <2>0, <2>2, <2>6 DEF Queues, SendCap, RecvCap
    <2>9. QED BY <2>7, <2>8, TypeParts
  \* ack_zero_messages_window keeps the types.
  <1>ZeroTypes. ASSUME TypeOK, ZeroWindow PROVE TypeOK'
    <2> USE <1>ZeroTypes
    <2>0. Scalars /\ Queues
      BY TypeParts
    <2> USE <2>0
    <2>1. /\ channel' = channel /\ connected' = connected /\ blockRead' = blockRead /\ loop' = loop
          /\ generation' = generation /\ clientGen' = clientGen /\ flushWait' = flushWait /\ ping' = ping
          /\ hasTimer' = hasTimer /\ monitor' = monitor /\ gotBytes' = gotBytes /\ sentBytes' = sentBytes
          /\ wait' = wait /\ marked' = marked /\ cWindow' = cWindow /\ cCount' = cCount /\ peer' = peer
          /\ added' = added /\ pipe' = pipe /\ sending' = sending /\ sendq' = sendq /\ recvq' = recvq /\ toServer' = toServer
      BY DEF ZeroWindow, pingVars, monVars, waitVars, clientVars
    <2>2. opened' = TRUE /\ clientWindow' \in Windows /\ mask' = Masked({"read", "write"}) /\ (window' = 0 \/ window' = window)
      BY DEF ZeroWindow
    <2>3. window' \in 0 .. Word - 1
      <3>1. window \in 0 .. Word - 1 /\ Word \in Nat
        BY ThisKind DEF Queues
      <3>2. QED BY <2>2, <3>1
    <2>4. opened' \in BOOLEAN /\ mask' \subseteq {"read", "write"} /\ clientWindow' \in Windows'
      BY <2>1, <2>2, MaskTypes DEF Windows
    <2>5. Scalars'
      BY <2>1, <2>4 DEF Scalars, MaxItems
    <2>6. Queues'
      BY <2>1, <2>3 DEF Queues, SendCap, RecvCap
    <2>7. QED BY <2>5, <2>6, TypeParts
  \* The client reads a message, or sends one of the channel's own: the types.
  <1>ClientTypes. ASSUME CountLaws, TypeOK, ClientRead \/ ClientSend PROVE TypeOK'
    <2> USE <1>ClientTypes
    <2>0. Scalars /\ Queues
      BY TypeParts
    <2> USE <2>0
    <2>1. UNCHANGED serverVars /\ sendq' = sendq /\ peer' = peer
      BY Zenon DEF ClientRead, ClientSend, clientVars
    <2> USE <2>1
    <2>2. /\ channel' = channel /\ connected' = connected /\ mask' = mask /\ blockRead' = blockRead /\ pipe' = pipe
          /\ sending' = sending /\ loop' = loop /\ window' = window /\ generation' = generation /\ clientGen' = clientGen
          /\ clientWindow' = clientWindow /\ opened' = opened /\ flushWait' = flushWait /\ ping' = ping
          /\ hasTimer' = hasTimer /\ monitor' = monitor /\ gotBytes' = gotBytes /\ sentBytes' = sentBytes
          /\ wait' = wait /\ marked' = marked /\ added' = added
      BY ServerKept
    <2>3. cWindow' \in Nat /\ cCount' \in Nat /\ recvq' \in Seq(Sent) /\ Len(recvq') <= RecvCap /\ toServer' \in Seq(Received)
      <3>1. CASE ClientRead
        <4> USE <3>1
        <4>1. recvq \in Seq(Sent) /\ recvq # <<>> /\ recvq' = Tail(recvq) /\ Head(recvq) \in Sent
          BY ClientReadFacts
        <4> USE <4>1
        <4>2. Tail(recvq) \in Seq(Sent) /\ Len(Tail(recvq)) = Len(recvq) - 1 /\ Len(recvq) \in Nat
          OBVIOUS
        <4>3. Len(recvq') <= RecvCap
          <5> DEFINE l == Len(recvq)
          <5>1. l \in Nat /\ l <= RecvCap /\ Len(recvq') = l - 1 /\ RecvCap \in Nat
            BY <4>2, ThisKind DEF Queues
          <5> HIDE DEF l
          <5>2. QED BY <5>1
        <4>4. toServer' \in Seq(Received)
          BY ReplyFacts DEF Answered
        <4>5. cWindow' \in Nat /\ cCount' \in Nat
          <5>1. Head(recvq).n \in Nat /\ cWindow \in Nat /\ cCount \in Nat
            BY DEF Sent, Scalars
          <5>2. /\ cWindow' = IF Head(recvq).k = "setack" THEN Head(recvq).n ELSE cWindow
                /\ cCount' = IF Head(recvq).k = "setack" THEN Head(recvq).n
                             ELSE IF cCount = 1 THEN cWindow ELSE IF cCount = 0 THEN 0 ELSE cCount - 1
            BY DEF ClientRead
          <5>3. QED BY <5>1, <5>2
        <4>6. QED BY <4>2, <4>3, <4>4, <4>5
      <3>2. CASE ClientSend
        <4>1. toServer' = <<Msg("chan", 0)>> /\ recvq' = recvq /\ cWindow' = cWindow /\ cCount' = cCount
          BY <3>2 DEF ClientSend, clientVars
        <4>2. Msg("chan", 0) \in Received
          BY DEF Msg, Received, ReplyKinds
        <4>3. QED BY <4>1, <4>2 DEF Scalars, Queues
      <3>3. QED BY <3>1, <3>2
    <2>4. Scalars'
      BY <2>2, <2>3 DEF Scalars, Windows, MaxItems
    <2>5. Queues'
      BY <2>2, <2>3 DEF Queues, SendCap, RecvCap
    <2>6. QED BY <2>4, <2>5, TypeParts
  <1> SUFFICES ASSUME CountLaws, TypeOK, Shape, Marking, [Next]_vars PROVE TypeOK'
    OBVIOUS
  <1>1. CASE Elsewhere \/ StillThere
    BY <1>1, <1>ElsewhereScalars, <1>ElsewhereQueues, TypeParts
  <1>2. QED BY <1>1, StepKinds, <1>GoneTypes, PushItemTypes, <1>ZeroTypes, <1>ReceiveAckTypes, <1>ReceiveOtherTypes, <1>ClientTypes

-----------------------------------------------------------------------------
(* SET_ACK goes first *)

\* No ACK_SYNC is of another generation.
SyncOne == \A i \in DOMAIN toServer : toServer[i].k = "sync" => toServer[i].n = 1

\* The main message of an item with two is a drawing; a closed connection has nothing to send.
SendingShape == (Len(sending) = 2 => sending[2].k = "data") /\ (~connected => pipe = <<>> /\ sending = <<>>)

\* Until SET_ACK is sent, nothing else is, and the window is as it was at first.
SetAckFirst ==
  /\ Foremost(pipe) /\ (Led(pipe) => generation = 0)
  /\ (HandleAcks /\ ~opened) => generation = 0 /\ window = Word - 1
  /\ (HandleAcks /\ connected /\ generation = 0) => Led(pipe) /\ sending = <<>>

\* The shape in these parts.
LEMMA ShapeParts == ASSUME pipe \in Seq(PipeItem) PROVE Shape <=> SendingShape /\ SyncOne /\ SetAckFirst
  <1>1. pipe # <<>> => 1 \in DOMAIN pipe
    OBVIOUS
  <1>2. (\A i \in DOMAIN pipe : pipe[i].k = "setack" => i = 1 /\ generation = 0) <=> Foremost(pipe) /\ (Led(pipe) => generation = 0)
    <2>1. ASSUME \A i \in DOMAIN pipe : pipe[i].k = "setack" => i = 1 /\ generation = 0
          PROVE  Foremost(pipe) /\ (Led(pipe) => generation = 0)
      BY <1>1, <2>1 DEF Foremost, Led
    <2>2. ASSUME Foremost(pipe), Led(pipe) => generation = 0, NEW i \in DOMAIN pipe, pipe[i].k = "setack" PROVE i = 1 /\ generation = 0
      <3> USE <2>2
      <3>1. i = 1
        BY DEF Foremost
      <3>2. pipe # <<>>
        OBVIOUS
      <3>3. QED BY <3>1, <3>2 DEF Led
    <2>3. QED BY <2>1, <2>2
  <1>3. QED BY <1>2 DEF Shape, SendingShape, SyncOne, SetAckFirst, Led

\* The same after a step.
LEMMA ShapePartsNext == ASSUME pipe' \in Seq(PipeItem) PROVE Shape' <=> SendingShape' /\ SyncOne' /\ SetAckFirst'
  <1>1. pipe' # <<>> => 1 \in DOMAIN pipe'
    OBVIOUS
  <1>2. (\A i \in DOMAIN pipe' : pipe'[i].k = "setack" => i = 1 /\ generation' = 0) <=> Foremost(pipe') /\ (Led(pipe') => generation' = 0)
    <2>1. ASSUME \A i \in DOMAIN pipe' : pipe'[i].k = "setack" => i = 1 /\ generation' = 0
          PROVE  Foremost(pipe') /\ (Led(pipe') => generation' = 0)
      BY <1>1, <2>1 DEF Foremost, Led
    <2>2. ASSUME Foremost(pipe'), Led(pipe') => generation' = 0, NEW i \in DOMAIN pipe', pipe'[i].k = "setack"
          PROVE  i = 1 /\ generation' = 0
      <3> USE <2>2
      <3>1. i = 1
        BY DEF Foremost
      <3>2. pipe' # <<>>
        OBVIOUS
      <3>3. QED BY <3>1, <3>2 DEF Led
    <2>3. QED BY <2>1, <2>2
  <1>3. QED BY <1>2 DEF Shape, SendingShape, SyncOne, SetAckFirst, Led, Foremost

\* An item is begun only when the window is open; SET_ACK leaves the pipe with its generation.
LEMMA PushItemShape == ASSUME CountLaws, TypeOK, Shape, PushItem PROVE Shape'
  <1> DEFINE item == Head(pipe)
             msgs == Messages(item)
  <1>1. SendingShape /\ SyncOne /\ SetAckFirst
    BY TypeParts, ShapeParts DEF Queues
  <1> USE <1>1
  <1>2. /\ connected /\ sending = <<>> /\ ~waiting_for_ack /\ pipe \in Seq(PipeItem) /\ pipe # <<>>
        /\ item \in PipeItem /\ item = pipe[1]
        /\ channel' = channel /\ connected' = connected /\ toServer' = toServer /\ opened' = opened
        /\ item.k \in {"marker", "oldmarker"} => sending' = sending /\ generation' = generation
        /\ item.k \notin {"marker", "oldmarker"} =>
             generation' = IF item.k = "setack" THEN (generation + 1) % Word ELSE generation
    BY PushItemFacts
  <1>3. PICK extra : Taken(extra)
    BY PushItemTakes
  <1>4. pipe' \in Seq(PipeItem) /\ \A i \in DOMAIN pipe' : pipe'[i].k # "setack"
    <2>1. extra = <<>> \/ (extra = <<Item("data")>> /\ pipe[1].k = "data")
      BY <1>3 DEF Taken
    <2>2. Foremost(pipe)
      BY DEF SetAckFirst
    <2>3. extra \o Tail(pipe) \in Seq(PipeItem) /\ \A i \in DOMAIN (extra \o Tail(pipe)) : (extra \o Tail(pipe))[i].k # "setack"
      BY <1>2, <2>1, <2>2, TakeKept, Zenon
    <2>4. QED BY <1>3, <2>3 DEF Taken
  <1>5. SendingShape'
    <2>1. CASE item.k \in {"marker", "oldmarker"}
      BY <1>2, <2>1 DEF SendingShape
    <2>2. CASE item.k \notin {"marker", "oldmarker"}
      <3>1. sending' \in Seq(Sent) /\ Len(sending') <= Len(msgs) /\ (Len(sending') = 2 => sending' = msgs)
        BY <2>2, PushItemFlow
      <3>2. Len(msgs) = 2 => msgs[2].k = "data"
        BY <1>2, <2>2, MessagesFacts
      <3>3. Len(sending') = 2 => sending'[2].k = "data"
        BY <3>1, <3>2, Zenon
      <3>4. QED BY <1>2, <3>3 DEF SendingShape
    <2>3. QED BY <2>1, <2>2
  <1>6. SyncOne'
    BY <1>2 DEF SyncOne
  <1>7. SetAckFirst'
    <2>1. HandleAcks' <=> HandleAcks
      BY <1>2 DEF HandleAcks
    <2>2. Foremost(pipe') /\ ~Led(pipe')
      BY <1>4 DEF Foremost, Led
    <2>3. HandleAcks => opened
      <3>1. SUFFICES ASSUME HandleAcks, ~opened PROVE FALSE
        OBVIOUS
      <3>2. window = Word - 1
        BY <3>1 DEF SetAckFirst
      <3>3. clientWindow \in Nat /\ 2 * clientWindow + 2 < Word /\ Word \in Nat
        BY ThisKind, TypeParts DEF Scalars
      <3>4. (2 * clientWindow) % Word = 2 * clientWindow
        BY <3>3
      <3>5. QED BY <1>2, <3>1, <3>2, <3>3, <3>4 DEF waiting_for_ack, WaitForAck
    <2>4. HandleAcks => generation' # 0
      <3>1. SUFFICES ASSUME HandleAcks, generation' = 0 PROVE FALSE
        OBVIOUS
      <3> USE <3>1
      <3>2. CASE item.k = "setack"
        <4>1. generation = 0
          BY <1>2, <3>2 DEF SetAckFirst, Led
        <4>2. clientWindow \in Nat /\ 2 * clientWindow + 2 < Word /\ Word \in Nat
          BY ThisKind, TypeParts DEF Scalars
        <4>3. (0 + 1) % Word = 1
          BY <4>2
        <4>4. QED BY <1>2, <3>2, <4>1, <4>3
      <3>3. CASE item.k # "setack"
        <4>1. generation = 0
          BY <1>2, <3>3
        <4>2. Led(pipe)
          BY <1>2, <4>1 DEF SetAckFirst
        <4>3. QED BY <1>2, <3>3, <4>2 DEF Led
      <3>4. QED BY <3>2, <3>3
    <2>5. QED BY <1>2, <2>1, <2>2, <2>3, <2>4 DEF SetAckFirst, Foremost, Led
  <1>8. QED BY <1>4, <1>5, <1>6, <1>7, ShapePartsNext

\* Every step keeps the shape.
LEMMA ShapeStep ==
  CountLaws /\ TypeOK /\ Shape /\ Acknowledging /\ Marking /\ [Next]_vars => Shape'
  \* A step that begins no item keeps the shape.
  <1>ElsewhereShape. ASSUME CountLaws, TypeOK, Shape, Marking, Elsewhere \/ StillThere PROVE Shape'
    <2> USE <1>ElsewhereShape
    <2>1. SendingShape /\ SyncOne /\ SetAckFirst
      BY TypeParts, ShapeParts DEF Queues
    <2>2. /\ pipe' \in Seq(PipeItem) /\ Foremost(pipe') /\ (Led(pipe') <=> Led(pipe))
          /\ connected \/ (pipe = <<>> => pipe' = <<>>)
      BY <2>1, PipeStep DEF Piped, SetAckFirst
    <2>3. Carried(window) /\ connected' = connected
          /\ UNCHANGED <<channel, toServer, generation, opened>>
      BY ElsewhereKeeps, StillKeeps DEF Aside
    <2>4. SendingShape'
      BY <2>1, <2>2, <2>3 DEF SendingShape, Carried
    <2>5. SyncOne'
      BY <2>1, <2>3 DEF SyncOne
    <2>6. SetAckFirst'
      <3>1. ASSUME HandleAcks, ~opened PROVE window' = Word - 1
        <4>1. generation = 0 /\ window = Word - 1 /\ sending = <<>>
          BY <2>1, <3>1 DEF SetAckFirst, SendingShape
        <4>2. Later = 0 /\ Later' = 0
          BY <2>3, <4>1 DEF Carried, Later
        <4>3. Word \in Nat /\ window \in 0 .. Word - 1 /\ window' \in 0 .. Word - 1
          BY <2>3, ThisKind, TypeParts DEF Queues, Carried
        <4>4. window' + Later' = window + Later
          <5>1. window + Later < Word
            BY <4>2, <4>3
          <5>2. QED BY <2>3, <3>1, <5>1 DEF Carried
        <4>5. \A x, y \in Int : x + 0 = y + 0 => x = y
          OBVIOUS
        <4>6. window' = window
          <5>1. window \in Int /\ window' \in Int /\ 0 \in Int
            BY <4>3
          <5>2. window' + 0 = window + 0
            BY <4>2, <4>4, Zenon
          <5>3. QED BY <4>5, <5>1, <5>2, Zenon
        <4>7. QED BY <4>1, <4>6
      <3>2. sending = <<>> => sending' = <<>>
        BY <2>3 DEF Carried
      <3>3. HandleAcks' <=> HandleAcks
        BY <2>3 DEF HandleAcks
      <3>4. (HandleAcks /\ ~opened) => generation' = 0 /\ window' = Word - 1
        BY <2>1, <2>3, <3>1 DEF SetAckFirst
      <3>5. (HandleAcks /\ connected /\ generation = 0) => Led(pipe') /\ sending' = <<>>
        BY <2>1, <2>2, <3>2 DEF SetAckFirst
      <3>6. Led(pipe') => generation' = 0
        BY <2>1, <2>2, <2>3 DEF SetAckFirst
      <3>7. QED BY <2>2, <2>3, <3>3, <3>4, <3>5, <3>6 DEF SetAckFirst, Foremost, Led
    <2>7. QED BY <2>2, <2>4, <2>5, <2>6, ShapePartsNext
  \* The other steps, none of which touches the pipe.
  <1>StillShape.
        ASSUME TypeOK, Shape, pipe' = pipe, channel' = channel, connected' = connected, generation' = generation,
               sending = <<>> => sending' = <<>>, Len(sending') = 2 => sending' = sending, SyncOne',
               (HandleAcks /\ ~opened') => ~opened /\ window' = window
        PROVE  Shape'
    <2> USE <1>StillShape
    <2>1. pipe \in Seq(PipeItem) /\ SendingShape /\ SetAckFirst
      BY TypeParts, ShapeParts DEF Queues
    <2> USE <2>1
    <2>2. SendingShape'
      BY DEF SendingShape
    <2>3. SetAckFirst'
      <3>1. HandleAcks' <=> HandleAcks
        BY DEF HandleAcks
      <3>2. QED BY <3>1 DEF SetAckFirst, Foremost, Led
    <2>4. QED BY <2>2, <2>3, ShapePartsNext
  \* A message from the client is taken: ACK_SYNC is of the first generation.
  <1>TakeSync. ASSUME CountLaws, TypeOK, SyncOne, NEW m, Take(m) PROVE SyncOne'
    <2> USE <1>TakeSync
    <2>1. /\ DOMAIN toServer = 1 .. Len(toServer) /\ DOMAIN toServer' = 1 .. Len(toServer) - 1 /\ Len(toServer) \in Nat \ {0}
          /\ \A i \in 1 .. Len(toServer) - 1 : toServer'[i] = toServer[i + 1]
      BY TakeFacts
    <2>2. SUFFICES ASSUME NEW i \in 1 .. Len(toServer) - 1, toServer'[i].k = "sync" PROVE toServer'[i].n = 1
      BY <2>1 DEF SyncOne
    <2>3. i + 1 \in 1 .. Len(toServer)
      BY <2>1
    <2>4. QED BY <2>1, <2>2, <2>3 DEF SyncOne
  \* The client answers SET_ACK with ACK_SYNC of the first generation.
  <1>AnswerSync. ASSUME CountLaws, TypeOK, SyncOne, ClientRead PROVE SyncOne'
    <2> USE <1>AnswerSync
    <2>1. PICK a, r \in Seq(Received) : Answered(a, r)
      BY ReplyFacts
    <2>2. /\ \A x \in Range(a) : x.k = "ack"
          /\ \A x \in Range(r) : x.k = "sync" => x.n = 1
      <3>1. a = (IF cCount = 1 THEN <<Msg("ack", 0)>> ELSE <<>>) /\ r = Reply(Head(recvq))
        BY <2>1 DEF Answered
      <3>2. /\ \A x \in Range(IF cCount = 1 THEN <<Msg("ack", 0)>> ELSE <<>>) : x.k = "ack"
            /\ \A x \in Range(Reply(Head(recvq))) : x.k = "sync" => x.n = 1
        BY AnswerKinds, Zenon
      <3>3. QED BY <3>1, <3>2
    <2>3. SUFFICES ASSUME NEW i \in 1 .. Len(toServer'), toServer'[i].k = "sync" PROVE toServer'[i].n = 1
      BY <2>1, Zenon DEF SyncOne, Answered
    <2>4. CASE i \in 1 .. Len(toServer)
      <3>1. toServer'[i] = toServer[i]
        BY <2>1, <2>4, Zenon DEF Answered
      <3>2. QED BY <2>3, <2>4, <3>1 DEF SyncOne
    <2>5. CASE toServer'[i] \in Range(a) \cup Range(r)
      BY <2>2, <2>3, <2>5
    <2>6. QED BY <2>1, <2>4, <2>5, Zenon DEF Answered
  <1> SUFFICES ASSUME CountLaws, TypeOK, Shape, Acknowledging, Marking, [Next]_vars PROVE Shape'
    OBVIOUS
  <1>0. pipe \in Seq(PipeItem) /\ SyncOne
    BY TypeParts, ShapeParts DEF Queues
  <1> USE <1>0
  <1>1. CASE Elsewhere \/ StillThere
    BY <1>1, <1>ElsewhereShape
  <1>2. CASE Gone
    <2>1. /\ connected' = FALSE /\ pipe' = <<>> /\ sending' = <<>> /\ UNCHANGED <<channel, toServer, generation, opened, window>>
      BY <1>2 DEF Gone, Disconnected, ConnectivityTimer, ConnectionLost, WaitTimeout, ackVars
    <2>2. QED BY <2>1 DEF Shape, HandleAcks
  <1>3. CASE ZeroWindow
    <2>1. pipe' = pipe /\ channel' = channel /\ connected' = connected /\ generation' = generation /\ sending' = sending
          /\ toServer' = toServer /\ opened' = TRUE
      BY <1>3 DEF ZeroWindow
    <2>2. SyncOne'
      BY <2>1 DEF SyncOne
    <2>3. QED BY <2>1, <2>2, <1>StillShape
  <1>4. CASE ReceiveAck
    <2>1. PICK m : CurrentAck(m) /\ Take(m) /\ Push(Acked(window), pipe)
      BY <1>4 DEF ReceiveAck
    <2> USE <2>1
    <2>2. pipe' = pipe /\ channel' = channel /\ connected' = connected /\ generation' = generation /\ opened' = opened /\ recvq' = recvq
      BY TakeTypes
    <2>3. Acked(window) \in 0 .. Word - 1
      <3>1. clientWindow \in Nat /\ 2 * clientWindow + 2 < Word /\ Word \in Nat /\ window \in Nat
        BY ThisKind, TypeParts DEF Scalars, Queues
      <3>2. QED BY <3>1 DEF Acked
    <2>4. (sending = <<>> => sending' = <<>>) /\ (Len(sending') = 2 => sending' = sending)
      BY <2>2, <2>3, PushFacts, Zenon DEF Carried
    <2>5. HandleAcks => opened
      BY AckIsDue DEF CurrentAck
    <2>6. SyncOne'
      BY <1>TakeSync
    <2>7. QED BY <2>2, <2>4, <2>5, <2>6, <1>StillShape
  <1>5. CASE ReceiveOther
    <2>1. PICK m : Take(m) /\ UNCHANGED <<window, sending>>
      BY <1>5 DEF ReceiveOther
    <2> USE <2>1
    <2>2. pipe' = pipe /\ channel' = channel /\ connected' = connected /\ generation' = generation /\ opened' = opened
      BY TakeTypes
    <2>3. SyncOne'
      BY <1>TakeSync
    <2>4. QED BY <2>2, <2>3, <1>StillShape
  <1>6. CASE ClientRead \/ ClientSend
    <2>1. UNCHANGED serverVars
      BY <1>6, Zenon DEF ClientRead, ClientSend
    <2>2. pipe' = pipe /\ channel' = channel /\ connected' = connected /\ generation' = generation /\ opened' = opened
          /\ sending' = sending /\ window' = window
      BY <2>1, ServerKept
    <2>3. SyncOne'
      <3>1. CASE ClientRead
        BY <3>1, <1>AnswerSync
      <3>2. CASE ClientSend
        BY <3>2 DEF ClientSend, SyncOne, Msg
      <3>3. QED BY <1>6, <3>1, <3>2
    <2>4. QED BY <2>2, <2>3, <1>StillShape
  <1>7. QED BY <1>1, <1>2, <1>3, <1>4, <1>5, <1>6, StepKinds, PushItemShape

-----------------------------------------------------------------------------
(* The watch *)

\* The window moves only with the messages that are written.
LEMMA WindowStill ==
  ASSUME TypeOK, Elsewhere \/ StillThere
  PROVE  sending = <<>> => window' = window
  <1>1. SUFFICES ASSUME sending = <<>> PROVE window' = window
    OBVIOUS
  <1>2. ~Blocked
    BY <1>1 DEF Blocked
  <1> USE <1>2
  <1>3. CASE \E kind \in {"data", "list"}, how \in {"add", "push", "next"} : AddItem(kind, how)
    BY <1>3, Zenon DEF AddItem, Push
  <1>4. CASE WriteEvent \/ WaitPush
    BY <1>4 DEF WriteEvent, WaitPush, Push
  <1>5. CASE WaitSend
    BY <1>5 DEF WaitSend
  <1>6. CASE PushEnd \/ RemoveItem \/ Migrate \/ PingTimer \/ StartMonitoring \/ BlockRead \/ UnblockRead \/ StartWaitItem \/ WaitDone
             \/ \E w \in {"outgoing", "all"} : StartWait(w)
    BY <1>6 DEF PushEnd, RemoveItem, Migrate, PingTimer, StartMonitoring, BlockRead, UnblockRead, StartWaitItem, WaitDone, StartWait
  <1>7. CASE NetMove \/ \E how \in {"hung", "closed"} : PeerStops(how)
    <2>1. UNCHANGED serverVars
      BY <1>7 DEF NetMove, PeerStops
    <2>2. QED BY <2>1, ServerKept
  <1>8. CASE StillThere \/ UNCHANGED vars
    BY <1>8, Zenon DEF StillThere, ConnectivityTimer, WaitTimeout, vars
  <1>9. QED BY <1>3, <1>4, <1>5, <1>6, <1>7, <1>8 DEF Elsewhere

\* Nothing that is to be written is left without a WRITE event, unless an ack is awaited.
LEMMA WatchStep ==
  CountLaws /\ TypeOK /\ Shape /\ Acknowledging /\ Watching /\ Marking /\ [Next]_vars => Watching'
  \* Only push() takes WRITE from the watch, at its end.
  <1>ElsewhereMask.
        ASSUME TypeOK, Elsewhere \/ StillThere
        PROVE  mask' = mask \/ "write" \in mask' \/ PushEnd
    <2> USE <1>ElsewhereMask
    <2>0. "write" \in Masked({"read", "write"})
      BY MaskedWrites
    <2>1. CASE \E kind \in {"data", "list"}, how \in {"add", "push", "next"} : AddItem(kind, how)
      <3>1. mask' = MaskForAdd
        BY <2>1, Zenon DEF AddItem
      <3>2. QED BY <2>0, <3>1 DEF MaskForAdd
    <2>2. CASE Migrate \/ PingTimer
      <3>1. mask' = MaskForAdd \/ mask' = mask
        BY <2>2 DEF Migrate, PingTimer
      <3>2. QED BY <2>0, <3>1 DEF MaskForAdd
    <2>3. CASE BlockRead \/ UnblockRead
      BY <2>3 DEF BlockRead, UnblockRead, BlockedMask
    <2>4. CASE WriteEvent \/ RemoveItem \/ StartMonitoring \/ StartWaitItem \/ WaitPush \/ WaitSend \/ WaitDone
               \/ \E w \in {"outgoing", "all"} : StartWait(w)
      <3>1. UNCHANGED watchVars
        BY <2>4 DEF WriteEvent, RemoveItem, StartMonitoring, StartWaitItem, WaitPush, WaitSend, WaitDone, StartWait
      <3>2. QED BY <3>1 DEF watchVars
    <2>5. CASE NetMove \/ \E how \in {"hung", "closed"} : PeerStops(how)
      <3>1. UNCHANGED serverVars
        BY <2>5 DEF NetMove, PeerStops
      <3>2. QED BY <3>1, ServerKept
    <2>6. CASE StillThere
      BY <2>6, StillKeeps
    <2>7. CASE UNCHANGED vars
      BY <2>7 DEF vars, watchVars
    <2>8. QED BY <2>1, <2>2, <2>3, <2>4, <2>5, <2>6, <2>7 DEF Elsewhere
  \* While messages are written the window does not shrink: an ack that was awaited still is.
  <1>StillWaits.
        ASSUME TypeOK, Shape, Acknowledging, connected, Carried(window), channel' = channel, clientWindow' = clientWindow,
               waiting_for_ack, sending = <<>> => window' = window
        PROVE  waiting_for_ack'
    <2> USE <1>StillWaits
    <2>1. HandleAcks /\ window > (2 * clientWindow) % Word
      BY DEF waiting_for_ack, WaitForAck
    <2> USE <2>1
    <2>2. SUFFICES window' >= window
      <3>1. HandleAcks' /\ (2 * clientWindow') % Word = (2 * clientWindow) % Word
        BY DEF HandleAcks
      <3>2. window \in Nat /\ window' \in Nat /\ clientWindow \in Nat /\ 2 * clientWindow + 2 < Word /\ Word \in Nat
        <4>1. window \in 0 .. Word - 1 /\ window' \in 0 .. Word - 1
          BY TypeParts DEF Queues, Carried
        <4>2. clientWindow \in Windows /\ Word \in Nat
          BY ThisKind, TypeParts DEF Scalars
        <4>3. clientWindow \in Nat /\ 2 * clientWindow + 2 < Word
          BY <4>2, ThisKind
        <4>4. QED BY <4>1, <4>2, <4>3
      <3>3. (2 * clientWindow) % Word = 2 * clientWindow
        BY <3>2
      <3>4. window' > (2 * clientWindow) % Word
        BY <2>2, <3>2, <3>3
      <3>5. QED BY <3>1, <3>4 DEF waiting_for_ack, WaitForAck
    <2>3. CASE sending = <<>>
      <3>1. window \in Nat
        BY TypeParts DEF Queues
      <3>2. QED BY <2>3, <3>1
    <2>4. CASE sending # <<>>
      <3>1. generation = 1
        <4>1. generation \in 0 .. 1
          BY TypeParts DEF Scalars
        <4>2. generation # 0
          BY <2>4 DEF Shape
        <4>3. QED BY <4>1, <4>2
      <3>2. window + Later < Word /\ window \in Nat /\ Later \in 0 .. 1
        BY <3>1, DueFits
      <3>3. window' + Later' = window + Later /\ window' \in 0 .. Word - 1
        BY <3>2 DEF Carried
      <3>4. Later' <= Later /\ Later' \in 0 .. 1
        BY DEF Later, Carried
      <3>5. Word \in Nat
        BY ThisKind
      <3>6. \A w, v, k, l \in Int : (v + l = w + k /\ l <= k) => v >= w
        OBVIOUS
      <3>7. window \in Int /\ window' \in Int /\ Later \in Int /\ Later' \in Int
        BY <3>2, <3>3, <3>4, <3>5
      <3>8. QED BY <3>3, <3>4, <3>6, <3>7, Zenon
    <2>5. QED BY <2>3, <2>4
  <1> SUFFICES ASSUME CountLaws, TypeOK, Shape, Acknowledging, Watching, Marking, [Next]_vars PROVE Watching'
    OBVIOUS
  <1>1. CASE Elsewhere \/ StillThere
    <2> USE <1>1
    <2>1. SUFFICES ASSUME connected', Blocked' \/ pipe' # <<>>, "write" \notin mask' PROVE waiting_for_ack'
      BY DEF Watching
    <2> USE <2>1
    <2>2. Carried(window) /\ connected /\ channel' = channel /\ clientWindow' = clientWindow /\ (sending = <<>> => sending' = <<>>)
      BY ElsewhereKeeps, StillKeeps, Zenon DEF Aside, Carried
    <2> USE <2>2
    <2>3. Blocked \/ pipe # <<>>
      <3>1. Piped
        BY PipeStep
      <3>2. QED BY <3>1 DEF Piped, Blocked
    <2>4. "write" \notin mask => waiting_for_ack
      BY <2>3 DEF Watching
    <2>5. waiting_for_ack
      <3>1. CASE mask' = mask
        BY <2>4, <3>1
      <3>2. CASE PushEnd
        <4>1. mask' = MaskAfterPush
          BY <3>2 DEF PushEnd
        <4>2. QED BY <2>3, <2>4, <4>1 DEF MaskAfterPush
      <3>3. QED BY <3>1, <3>2, <1>ElsewhereMask
    <2>6. QED BY <2>5, <1>StillWaits, WindowStill
  <1>2. CASE Gone
    BY <1>2 DEF Gone, Disconnected, Watching
  <1>3. CASE ZeroWindow
    BY <1>3, MaskedWrites DEF ZeroWindow, Watching
  <1>4. CASE ReceiveAck
    BY <1>4, MaskedWrites DEF ReceiveAck, Watching
  <1>5. CASE ReceiveOther
    <2>1. PICK m : Take(m) /\ UNCHANGED <<mask, window, sending>>
      BY <1>5 DEF ReceiveOther
    <2>2. pipe' = pipe /\ channel' = channel /\ connected' = connected /\ clientWindow' = clientWindow
      BY <2>1, TakeTypes
    <2>3. QED BY <2>1, <2>2 DEF Watching, waiting_for_ack, WaitForAck, HandleAcks, Blocked
  <1>6. CASE ClientRead \/ ClientSend
    <2>1. UNCHANGED serverVars
      BY <1>6, Zenon DEF ClientRead, ClientSend
    <2>2. pipe' = pipe /\ channel' = channel /\ connected' = connected /\ clientWindow' = clientWindow
          /\ sending' = sending /\ window' = window /\ mask' = mask
      BY <2>1, ServerKept
    <2>3. QED BY <2>2 DEF Watching, waiting_for_ack, WaitForAck, HandleAcks, Blocked
  <1>7. CASE PushItem
    <2>1. connected /\ ~waiting_for_ack /\ pipe # <<>>
      BY <1>7, PushItemFacts
    <2>2. "write" \in mask
      BY <2>1 DEF Watching
    <2>3. PICK extra : Taken(extra)
      BY <1>7, PushItemTakes
    <2>4. "write" \in mask'
      BY <2>2, <2>3, MaskedWrites DEF Taken
    <2>5. QED BY <2>4 DEF Watching
  <1>8. QED BY <1>1, <1>2, <1>3, <1>4, <1>5, <1>6, <1>7, StepKinds

-----------------------------------------------------------------------------
(* The latency test and the connectivity monitor *)

\* A new test is begun by its timer, when nothing is in the kernel.
LEMMA ElsewhereTimers ==
  ASSUME TypeOK, Elsewhere
  PROVE  /\ MonitorSame /\ SentSame
         /\ IF PingTimer /\ sendq = <<>> THEN ping = "timer" /\ ping' = "warmup" ELSE PingSame
  <1>0. sentBytes' = sentBytes /\ sending' = sending => SentSame
    BY DEF SentSame
  <1> USE <1>0
  <1>1. TimersKept => PingSame /\ SentSame
    BY DEF TimersKept, PingSame, SentSame
  <1>2. CASE ~PingTimer /\ (WriteEvent \/ WaitPush \/ WaitSend)
    <2> USE <1>2
    <2>1. Push(window, pipe) \/ (Blocked /\ Transmit(sending, window, 1, pipe))
      BY DEF WriteEvent, WaitPush, WaitSend
    <2>2. channel' = channel /\ recvq' = recvq /\ monitor' = monitor /\ gotBytes' = gotBytes
      BY DEF WriteEvent, WaitPush, WaitSend, monVars, clientVars
    <2>3. window \in 0 .. Word - 1
      BY TypeParts DEF Queues
    <2>4. TimersKept
      BY <2>1, <2>2, <2>3, PushFacts, ResumeFacts, Zenon
    <2>5. QED BY <1>1, <2>2, <2>4 DEF MonitorSame
  <1>3. CASE ~PingTimer /\ \E kind \in {"data", "list"}, how \in {"add", "push", "next"} : AddItem(kind, how)
    <2> USE <1>3
    <2>1. Push(window, pipe') \/ UNCHANGED <<sending, ping, sentBytes>>
      BY Zenon DEF AddItem
    <2>2. channel' = channel /\ recvq' = recvq /\ monitor' = monitor /\ gotBytes' = gotBytes
      BY Zenon DEF AddItem, monVars, clientVars
    <2> USE <2>2
    <2>3. window \in 0 .. Word - 1
      BY TypeParts DEF Queues
    <2>4. CASE Push(window, pipe')
      <3>1. TimersKept
        BY <2>3, <2>4, PushFacts, Zenon
      <3>2. QED BY <1>1, <3>1 DEF MonitorSame
    <2>5. CASE UNCHANGED <<sending, ping, sentBytes>>
      BY <2>5 DEF MonitorSame, PingSame
    <2>6. QED BY <2>1, <2>4, <2>5
  <1>4. CASE PingTimer
    <2> USE <1>4
    <2>1. ping = "timer" /\ (IF sendq # <<>> THEN ping' = ping ELSE ping' = "warmup")
      BY DEF PingTimer, Unsent
    <2>2. monitor' = monitor /\ gotBytes' = gotBytes /\ sentBytes' = sentBytes /\ sending' = sending
      BY DEF PingTimer, monVars
    <2>3. QED BY <2>1, <2>2 DEF MonitorSame, PingSame
  <1>5. CASE ~PingTimer /\ Migrate
    <2>1. ping' = Cancelled(ping) /\ monitor' = "off" /\ gotBytes' = gotBytes /\ sentBytes' = sentBytes /\ sending' = sending
      BY <1>5 DEF Migrate
    <2>2. PingSame
      BY <2>1 DEF Cancelled, PingSame
    <2>3. QED BY <1>5, <2>1, <2>2 DEF MonitorSame
  <1>6. CASE ~PingTimer /\ StartMonitoring
    <2>1. ping' = Started(Cancelled(ping)) /\ monitor' = "connected" /\ Monitored /\ gotBytes' = gotBytes
          /\ sentBytes' = sentBytes /\ sending' = sending
      BY <1>6 DEF StartMonitoring
    <2>2. PingSame
      BY <2>1 DEF Started, Cancelled, PingSame
    <2>3. QED BY <1>6, <2>1, <2>2 DEF MonitorSame
  <1>7. CASE ~PingTimer /\ (PushEnd \/ RemoveItem \/ BlockRead \/ UnblockRead \/ StartWaitItem \/ WaitDone
             \/ \E w \in {"outgoing", "all"} : StartWait(w))
    <2>1. UNCHANGED <<pingVars, monVars, sentBytes, sending>>
      BY <1>7 DEF PushEnd, RemoveItem, BlockRead, UnblockRead, StartWaitItem, WaitDone, StartWait
    <2>2. monitor' = monitor /\ gotBytes' = gotBytes /\ sentBytes' = sentBytes /\ sending' = sending /\ ping' = ping
      BY <2>1 DEF pingVars, monVars
    <2>3. QED BY <1>7, <2>2 DEF MonitorSame, PingSame
  <1>8. CASE ~PingTimer /\ (NetMove \/ (\E how \in {"hung", "closed"} : PeerStops(how)) \/ UNCHANGED vars)
    <2>1. UNCHANGED serverVars
      BY <1>8 DEF NetMove, PeerStops, vars, serverVars
    <2>2. monitor' = monitor /\ gotBytes' = gotBytes /\ sentBytes' = sentBytes /\ sending' = sending /\ ping' = ping
      BY <2>1, ServerKept
    <2>3. QED BY <1>8, <2>2 DEF MonitorSame, PingSame
  <1>9. QED BY <1>2, <1>3, <1>4, <1>5, <1>6, <1>7, <1>8 DEF Elsewhere

\* Every step: the PINGs are those of the test.
LEMMA PingStep ==
  CountLaws /\ TypeOK /\ Shape /\ Acknowledging /\ Marking /\ Pinging /\ [Next]_vars => Pinging'
  \* A message from the client: a PONG takes the test one step on.
  <1>PongStep.
        ASSUME CountLaws, TypeOK, Pinging, ReceiveOther
        PROVE  Pinging'
    <2> USE <1>PongStep
    <2>1. PICK m : /\ Take(m) /\ ping' = (IF m.k = "pong" THEN AfterPong(ping) ELSE ping)
                   /\ UNCHANGED <<sendq, sending>>
      BY DEF ReceiveOther
    <2> USE <2>1
    <2>2. pipe' = pipe /\ connected' = connected /\ recvq' = recvq
      BY TakeTypes
    <2>3. Flow' = Flow /\ Count(pipe', "ping") = Count(pipe, "ping")
      BY <2>2 DEF Flow, Path
    <2>4. Count(toServer', "pong") \in Nat /\ Count(toServer, "pong") = Count(toServer', "pong") + (IF m.k = "pong" THEN 1 ELSE 0)
      BY TakeFacts
    <2> USE <2>4
    <2>5. SUFFICES ASSUME connected
                   PROVE  Count(pipe, "ping") + Count(Flow, "ping") + Count(toServer', "pong") = Tested(ping')
      BY <2>2, <2>3 DEF Pinging
    <2>6. Count(pipe, "ping") + Count(Flow, "ping") + Count(toServer, "pong") = Tested(ping)
      BY <2>5 DEF Pinging
    <2> USE <2>6
    <2>7. CASE m.k # "pong"
      <3>1. Count(toServer', "pong") = Count(toServer, "pong") /\ ping' = ping
        BY <2>7, PingCounts
      <3>2. QED BY <3>1
    <2>8. CASE m.k = "pong"
      <3> USE <2>8
      <3>1. Tested(ping) # 0
        BY PingCounts
      <3>2. ping \in {"warmup", "latency"}
        BY <3>1 DEF Tested
      <3>3. Tested(ping') = Tested(ping) - 1
        BY <3>2, TestedFacts DEF AfterPong
      <3>4. Tested(ping) \in Nat
        BY <3>2, TestedFacts
      <3>5. QED BY <3>3, <3>4, PingCounts
    <2>9. QED BY <2>7, <2>8
  \* An item is taken from the pipe: a PING is then on its way.
  <1>PushItemPings.
        ASSUME CountLaws, TypeOK, Pinging, PushItem
        PROVE  Pinging'
    <2> USE <1>PushItemPings
    <2> DEFINE item == Head(pipe)
               msgs == Messages(item)
    <2>1. /\ connected /\ connected' = connected /\ toServer' = toServer /\ recvq' = recvq
          /\ pipe \in Seq(PipeItem) /\ pipe # <<>> /\ item \in PipeItem
          /\ item.k \in {"marker", "oldmarker"} => sendq' = sendq /\ sending' = sending /\ ping' = ping
      BY PushItemFacts
    <2> USE <2>1
    <2>2. PICK extra : Taken(extra)
      BY PushItemTakes
    <2>3. Count(pipe, "ping") = Count(<<item>>, "ping") + Count(Tail(pipe), "ping") /\ Tail(pipe) \in Seq(PipeItem)
          /\ Count(Tail(pipe), "ping") \in Nat /\ Count(<<item>>, "ping") = (IF item.k = "ping" THEN 1 ELSE 0)
      BY TailFacts, CountType, CountOne, Zenon
    <2> USE <2>3
    <2>4. Count(pipe', "ping") = Count(Tail(pipe), "ping")
      <3>1. extra \in Seq(PipeItem) /\ Count(extra, "ping") = 0
        <4>1. Item("data") \in PipeItem /\ Item("data").k = "data"
          BY DEF Item, PipeItem, ItemKinds
        <4>2. CASE extra = <<>>
          <5>1. <<>> \in Seq(PipeItem)
            OBVIOUS
          <5>2. Count(<<>>, "ping") = 0
            BY DEF CountLaws
          <5>3. QED BY <4>2, <5>1, <5>2, Zenon
        <4>3. CASE extra = <<Item("data")>>
          BY <4>1, <4>3, CountOne
        <4>4. QED BY <2>2, <4>2, <4>3 DEF Taken
      <3>2. Count(extra \o Tail(pipe), "ping") = Count(extra, "ping") + Count(Tail(pipe), "ping")
        <4>1. \A u, v \in Seq(PipeItem) : \A kind : Count(u \o v, kind) = Count(u, kind) + Count(v, kind)
          BY CountJoined, Zenon
        <4>2. QED BY <3>1, <4>1, Zenon
      <3>3. pipe' = extra \o Tail(pipe)
        BY <2>2 DEF Taken
      <3>4. QED BY <3>1, <3>2, <3>3
    <2>5. Count(Flow', "ping") = Count(Flow, "ping") + (IF item.k = "ping" THEN 1 ELSE 0) /\ Tested(ping') = Tested(ping)
      <3>1. CASE item.k \in {"marker", "oldmarker"}
        <4>1. Flow' = Flow /\ ping' = ping
          BY <3>1 DEF Flow, Path
        <4>2. item.k # "ping"
          BY <3>1
        <4>3. QED BY <4>1, <4>2, PingCounts
      <3>2. CASE item.k \notin {"marker", "oldmarker"}
        <4>1. Flow' = Flow \o msgs /\ Flow \in Seq(Sent) /\ PingSame
          BY <3>2, PushItemFlow DEF PingSame
        <4>2. msgs \in Seq(Sent) /\ Count(msgs, "ping") = (IF item.k = "ping" THEN 1 ELSE 0)
          BY <3>2, MessagesFacts
        <4>3. Count(Flow \o msgs, "ping") = Count(Flow, "ping") + Count(msgs, "ping")
          BY <4>1, <4>2, CountJoined
        <4>4. QED BY <4>1, <4>2, <4>3, TestedFacts
      <3>3. QED BY <3>1, <3>2
    <2>6. Count(pipe, "ping") + Count(Flow, "ping") + Count(toServer, "pong") = Tested(ping)
      BY DEF Pinging
    <2>7. Count(pipe', "ping") + Count(Flow', "ping") + Count(toServer', "pong") = Tested(ping')
      <3>1. Count(toServer', "pong") = Count(toServer, "pong")
        OBVIOUS
      <3>2. QED BY <2>4, <2>5, <2>6, <3>1, PingCounts
    <2>8. QED BY <2>7 DEF Pinging
  <1> SUFFICES ASSUME CountLaws, TypeOK, Shape, Acknowledging, Marking, Pinging, [Next]_vars PROVE Pinging'
    OBVIOUS
  <1>1. CASE Elsewhere
    <2> USE <1>1
    <2>1. connected' = connected /\ Flow' = Flow /\ toServer' = toServer
      BY ElsewhereKeeps DEF Aside, Carried
    <2>2. Count(pipe', "ping") = Count(pipe, "ping") + (IF PingTimer /\ sendq = <<>> THEN 2 ELSE 0)
      BY PipeStep DEF Piped
    <2>3. IF PingTimer /\ sendq = <<>> THEN ping = "timer" /\ ping' = "warmup" ELSE PingSame
      BY ElsewhereTimers
    <2>4. CASE PingTimer /\ sendq = <<>>
      <3>1. Tested(ping) = 0 /\ Tested(ping') = 2 /\ Count(pipe', "ping") = Count(pipe, "ping") + 2
        BY <2>2, <2>3, <2>4, TestedFacts
      <3>2. QED BY <2>1, <3>1, PingCounts DEF Pinging
    <2>5. CASE ~(PingTimer /\ sendq = <<>>)
      <3>1. Tested(ping') = Tested(ping)
        BY <2>3, <2>5, TestedFacts
      <3>2. Count(pipe', "ping") = Count(pipe, "ping")
        BY <2>2, <2>5, PingCounts
      <3>3. QED BY <2>1, <3>1, <3>2 DEF Pinging
    <2>6. QED BY <2>4, <2>5
  <1>2. CASE StillThere
    <2>1. connected' = connected /\ Flow' = Flow /\ toServer' = toServer /\ ping' = ping
      BY <1>2, StillKeeps DEF Aside, Carried
    <2>2. Count(pipe', "ping") = Count(pipe, "ping")
      <3>1. Count(pipe', "ping") = Count(pipe, "ping") + (IF PingTimer /\ sendq = <<>> THEN 2 ELSE 0)
        BY <1>2, PipeStep DEF Piped
      <3>2. ~(PingTimer /\ sendq = <<>>)
        <4>1. (PingTimer /\ sendq = <<>>) => ping' # ping
          BY DEF PingTimer, Unsent
        <4>2. QED BY <2>1, <4>1
      <3>3. QED BY <3>1, <3>2, PingCounts
    <2>3. QED BY <2>1, <2>2 DEF Pinging
  <1>3. CASE Gone
    BY <1>3 DEF Gone, Disconnected, Pinging
  <1>4. CASE ZeroWindow
    <2>1. connected' = connected /\ pipe' = pipe /\ sending' = sending /\ sendq' = sendq /\ recvq' = recvq /\ toServer' = toServer
          /\ ping' = ping
      BY <1>4 DEF ZeroWindow, pingVars, clientVars
    <2>2. QED BY <2>1, Zenon DEF Pinging, Flow, Path, Tested, Count
  <1>5. CASE ReceiveAck
    <2>1. PICK m : m.k = "ack" /\ Take(m) /\ Push(Acked(window), pipe)
      BY <1>5 DEF ReceiveAck, CurrentAck
    <2> USE <2>1
    <2>2. pipe' = pipe /\ channel' = channel /\ connected' = connected /\ recvq' = recvq
      BY TakeTypes
    <2>3. Acked(window) \in 0 .. Word - 1
      <3>1. clientWindow \in Windows /\ window \in 0 .. Word - 1
        BY TypeParts, Zenon DEF Scalars, Queues
      <3>2. clientWindow \in Nat /\ 2 * clientWindow + 2 < Word /\ Word \in Nat /\ window \in Nat
        BY <3>1, ThisKind
      <3>3. QED BY <3>2 DEF Acked
    <2>4. Carried(Acked(window)) /\ TimersKept
      BY <2>2, <2>3, PushFacts, Zenon
    <2>5. Flow' = Flow /\ Tested(ping') = Tested(ping)
      <3>1. PingSame
        BY <2>4 DEF TimersKept, PingSame
      <3>2. QED BY <2>4, <3>1, TestedFacts DEF Carried
    <2>6. Count(toServer', "pong") = Count(toServer, "pong")
      <3>1. Count(toServer', "pong") \in Nat /\ Count(toServer, "pong") = Count(toServer', "pong") + (IF m.k = "pong" THEN 1 ELSE 0)
        BY TakeFacts, Zenon
      <3>2. QED BY <3>1
    <2>7. QED BY <2>2, <2>5, <2>6 DEF Pinging
  <1>6. CASE ClientRead
    <2>1. Flow \in Seq(Sent) /\ Flow # <<>> /\ Head(Flow) = Head(recvq) /\ Flow' = Tail(Flow) /\ UNCHANGED serverVars
      BY <1>6, ClientReadFacts
    <2> USE <2>1
    <2>2. pipe' = pipe /\ connected' = connected /\ ping' = ping
      BY ServerKept
    <2>3. PICK a, r \in Seq(Received) : Answered(a, r)
      BY <1>6, ReplyFacts
    <2>4. Count(toServer', "pong") = Count(toServer, "pong") + (IF Head(recvq).k = "ping" THEN 1 ELSE 0)
      <3>1. a = (IF cCount = 1 THEN <<Msg("ack", 0)>> ELSE <<>>) /\ r = Reply(Head(recvq))
            /\ Count(toServer', "pong") = Count(toServer, "pong") + Count(a, "pong") + Count(r, "pong")
        BY <2>3 DEF Answered
      <3>2. /\ Count(IF cCount = 1 THEN <<Msg("ack", 0)>> ELSE <<>>, "pong") = 0
            /\ Count(Reply(Head(recvq)), "pong") = (IF Head(recvq).k = "ping" THEN 1 ELSE 0)
        BY AnswerKinds, Zenon
      <3>3. QED BY <3>1, <3>2, PingCounts
    <2>5. Count(Flow, "ping") = (IF Head(recvq).k = "ping" THEN 1 ELSE 0) + Count(Flow', "ping") /\ Count(Flow', "ping") \in Nat
      <3>1. Count(Flow, "ping") = Count(<<Head(Flow)>>, "ping") + Count(Tail(Flow), "ping") /\ Tail(Flow) \in Seq(Sent)
        BY TailFacts
      <3>2. Count(<<Head(Flow)>>, "ping") = IF Head(Flow).k = "ping" THEN 1 ELSE 0
        BY CountOne
      <3>3. Count(Tail(Flow), "ping") \in Nat
        BY <3>1, CountType, Zenon
      <3>4. QED BY <3>1, <3>2, <3>3
    <2>6. QED BY <2>2, <2>4, <2>5, PingCounts DEF Pinging
  <1>7. CASE ClientSend
    <2>1. UNCHANGED serverVars /\ sendq' = sendq /\ recvq' = recvq /\ toServer = <<>> /\ toServer' = <<Msg("chan", 0)>>
      BY <1>7 DEF ClientSend, clientVars
    <2> USE <2>1
    <2>2. pipe' = pipe /\ connected' = connected /\ ping' = ping /\ sending' = sending
      BY ServerKept
    <2>3. Count(toServer, "pong") = 0 /\ Count(toServer', "pong") = 0
      <3>1. Msg("chan", 0).k = "chan"
        BY DEF Msg
      <3>2. Count(<<Msg("chan", 0)>>, "pong") = 0 /\ Count(<<>>, "pong") = 0
        BY <3>1, CountOne
      <3>3. QED BY <3>2
    <2>4. Flow' = Flow
      BY <2>2 DEF Flow, Path
    <2>5. QED BY <2>2, <2>3, <2>4 DEF Pinging
  <1>8. QED BY <1>1, <1>2, <1>3, <1>4, <1>5, <1>6, <1>7, StepKinds, <1>PongStep, <1>PushItemPings

\* What the connectivity monitor saw is still so, unless bytes went through since.
LEMMA MonitorStep ==
  ASSUME CountLaws, TypeOK, Monitoring, [Next]_vars
  PROVE  Monitoring'
  <1>0. /\ monitor \in {"off", "connected", "blocked", "wait_pong"} /\ gotBytes \in BOOLEAN /\ sentBytes \in BOOLEAN
        /\ ping \in {"none", "timer", "warmup", "latency"}
    BY TypeParts DEF Scalars
  <1>1. CASE Elsewhere
    <2>1. /\ MonitorSame /\ SentSame
          /\ IF PingTimer /\ sendq = <<>> THEN ping = "timer" /\ ping' = "warmup" ELSE PingSame
      BY <1>1, ElsewhereTimers
    <2> USE <2>1
    <2>2. connected' = connected /\ channel' = channel /\ (sending = <<>> => sending' = <<>>)
      BY <1>1, ElsewhereKeeps DEF Aside, Carried
    <2> USE <2>2
    <2>3. monitor' # "off" => Monitored'
      BY DEF Monitoring, MonitorSame, Monitored
    <2>4. ASSUME connected', monitor' = "blocked", ~gotBytes', ~sentBytes' PROVE Blocked'
      <3> USE <2>4
      <3>1. monitor = "blocked" /\ ~gotBytes
        BY DEF MonitorSame
      <3>2. SentSome
        BY <3>1 DEF SentSome
      <3>3. ~sentBytes /\ ~(sending # <<>> /\ sending' = <<>>)
        BY <1>0, <3>2, Zenon DEF SentSame
      <3>4. QED BY <3>1, <3>3 DEF Monitoring, Blocked
    <2>5. ASSUME connected', monitor' = "wait_pong", ~gotBytes' PROVE ConnTested'
      <3>1. monitor = "wait_pong" /\ ~gotBytes
        BY <2>5 DEF MonitorSame
      <3>2. ConnTested
        BY <2>5, <3>1 DEF Monitoring
      <3>3. QED BY <3>2 DEF ConnTested, PingSame
    <2>6. QED BY <2>3, <2>4, <2>5 DEF Monitoring
  <1>2. CASE StillThere
    <2> USE <1>2
    <2>1. /\ connected' = connected /\ channel' = channel /\ sending' = sending /\ ping' = ping
          /\ WaitTimeout => monitor' = monitor /\ gotBytes' = gotBytes /\ sentBytes' = sentBytes
      BY StillKeeps DEF Aside
    <2>2. CASE WaitTimeout
      BY <2>1, <2>2 DEF Monitoring, Monitored, Blocked, ConnTested
    <2>3. CASE ~WaitTimeout /\ ~Dead
      <3>1. /\ monitor # "off"
            /\ monitor' = IF Blocked \/ waiting_for_ack THEN "blocked"
                          ELSE IF ConnTested THEN "wait_pong" ELSE "connected"
        BY <2>3 DEF StillThere, ConnectivityTimer
      <3>2. Monitored /\ ~waiting_for_ack
        BY <3>1, ThisKind DEF Monitoring, waiting_for_ack, WaitForAck
      <3>3. QED BY <2>1, <3>1, <3>2 DEF Monitoring, Monitored, Blocked, ConnTested
    <2>4. CASE ~WaitTimeout /\ Dead
      <3>1. monitor' = "off"
        BY <2>4 DEF StillThere, ConnectivityTimer, Disconnected
      <3>2. QED BY <3>1 DEF Monitoring
    <2>5. QED BY <2>2, <2>3, <2>4
  <1>3. CASE Gone
    BY <1>3 DEF Gone, Disconnected, Monitoring
  <1>4. CASE ZeroWindow
    <2>1. connected' = connected /\ channel' = channel /\ sending' = sending /\ ping' = ping /\ monitor' = monitor
          /\ gotBytes' = gotBytes /\ sentBytes' = sentBytes
      BY <1>4 DEF ZeroWindow, pingVars, monVars
    <2>2. QED BY <2>1 DEF Monitoring, Monitored, Blocked, ConnTested
  <1>5. CASE ReceiveAck \/ ReceiveOther
    <2>1. PICK m : Take(m)
      BY <1>5, Zenon DEF ReceiveAck, ReceiveOther
    <2>2. monitor' = monitor /\ gotBytes' = (gotBytes \/ monitor # "off") /\ channel' = channel
      BY <2>1 DEF Take
    <2>3. QED BY <2>2, Zenon DEF Monitoring, Monitored
  <1>6. CASE ClientRead \/ ClientSend
    <2>1. UNCHANGED serverVars
      BY <1>6, Zenon DEF ClientRead, ClientSend
    <2>2. connected' = connected /\ channel' = channel /\ sending' = sending /\ ping' = ping /\ monitor' = monitor
          /\ gotBytes' = gotBytes /\ sentBytes' = sentBytes
      BY <2>1, ServerKept
    <2>3. QED BY <2>2 DEF Monitoring, Monitored, Blocked, ConnTested
  <1>7. CASE PushItem
    <2>1. /\ connected /\ sending = <<>> /\ channel' = channel /\ monitor' = monitor /\ gotBytes' = gotBytes
          /\ Head(pipe).k \in {"marker", "oldmarker"} => ping' = ping /\ sentBytes' = sentBytes
      BY <1>7, PushItemFacts, Zenon
    <2> USE <2>1
    <2>2. PingSame /\ sentBytes' \in {sentBytes, SentSome}
      <3>1. CASE Head(pipe).k \in {"marker", "oldmarker"}
        BY <3>1 DEF PingSame
      <3>2. CASE Head(pipe).k \notin {"marker", "oldmarker"}
        BY <1>7, <3>2, PushItemFlow DEF PingSame
      <3>3. QED BY <3>1, <3>2
    <2>3. monitor = "blocked" /\ ~gotBytes => sentBytes'
      <3>1. SUFFICES ASSUME monitor = "blocked", ~gotBytes PROVE sentBytes'
        OBVIOUS
      <3>2. sentBytes
        BY <3>1 DEF Monitoring, Blocked
      <3>3. QED BY <2>2, <3>2, Zenon DEF SentSome
    <2>4. ConnTested => ConnTested'
      BY <2>2 DEF PingSame, ConnTested
    <2>5. QED BY <2>3, <2>4 DEF Monitoring, Monitored
  <1>8. QED BY <1>1, <1>2, <1>3, <1>4, <1>5, <1>6, <1>7, StepKinds

\* Every step: the marker stays behind the item waited for.
LEMMA MarkStep ==
  ASSUME CountLaws, TypeOK, Marking, [Next]_vars
  PROVE  Marking'
  <1>1. CASE Elsewhere \/ StillThere
    BY <1>1, PipeStep DEF Piped
  <1>2. CASE Gone
    BY <1>2 DEF Gone, Disconnected, Marking
  <1>3. CASE PushItem
    <2>1. wait' = wait /\ pipe \in Seq(PipeItem) /\ pipe # <<>>
      BY <1>3, PushItemFacts
    <2>2. PICK extra : Taken(extra)
      BY <1>3, PushItemTakes
    <2>3. extra = <<>> \/ (extra = <<Item("data")>> /\ pipe[1].k = "data")
      BY <2>2 DEF Taken
    <2>4. /\ Marked(pipe) => Marked(extra \o Tail(pipe))
          /\ Unmarked(pipe) => Unmarked(extra \o Tail(pipe))
          /\ (Marked(pipe) /\ pipe[1].k = "marker") => Unmarked(extra \o Tail(pipe))
      BY <2>1, <2>3, TakeKept
    <2>5. Marked(pipe) /\ ((wait # "item" \/ marked) => Unmarked(pipe))
      BY MarkingParts
    <2>6. pipe' = extra \o Tail(pipe) /\ marked' = (marked \/ pipe[1].k = "marker")
      BY <2>2 DEF Taken
    <2>7. Marked(pipe') /\ ((wait' # "item" \/ marked') => Unmarked(pipe'))
      BY <2>1, <2>4, <2>5, <2>6, Zenon
    <2>8. QED BY <2>7, MarkingNext
  <1>4. CASE ZeroWindow
    BY <1>4, Zenon DEF ZeroWindow, waitVars, Marking
  <1>5. CASE ReceiveAck \/ ReceiveOther
    <2>1. PICK m : Take(m)
      BY <1>5, Zenon DEF ReceiveAck, ReceiveOther
    <2>2. pipe' = pipe /\ wait' = wait /\ marked' = marked
      BY <2>1, TakeTypes
    <2>3. QED BY <2>2 DEF Marking
  <1>6. CASE ClientRead \/ ClientSend
    <2>1. UNCHANGED serverVars
      BY <1>6, Zenon DEF ClientRead, ClientSend
    <2>2. pipe' = pipe /\ wait' = wait /\ marked' = marked
      BY <2>1, ServerKept
    <2>3. QED BY <2>2 DEF Marking
  <1>7. QED BY <1>1, <1>2, <1>3, <1>4, <1>5, <1>6, StepKinds

-----------------------------------------------------------------------------
(* The window is empty until SET_ACK is sent *)

\* Nothing is counted, and no ack of that generation received, between the opening of the
\* window and SET_ACK.
LEMMA OpenStep ==
  CountLaws /\ TypeOK /\ Shape /\ Acknowledging /\ Opening /\ Marking /\ [Next]_vars => Opening'
  \* SET_ACK is not in the pipe once an item was taken from it.
  <1>PushItemUnled. ASSUME CountLaws, TypeOK, Shape, PushItem PROVE ~Led(pipe')
    <2> USE <1>PushItemUnled
    <2>1. pipe \in Seq(PipeItem) /\ pipe # <<>>
      BY PushItemFacts
    <2>2. PICK extra : Taken(extra)
      BY PushItemTakes
    <2>3. extra = <<>> \/ (extra = <<Item("data")>> /\ pipe[1].k = "data")
      BY <2>2 DEF Taken
    <2>4. Foremost(pipe)
      BY <2>1, ShapeParts DEF SetAckFirst
    <2>5. extra \o Tail(pipe) \in Seq(PipeItem) /\ \A i \in DOMAIN (extra \o Tail(pipe)) : (extra \o Tail(pipe))[i].k # "setack"
      BY <2>1, <2>3, <2>4, TakeKept, Zenon
    <2>6. pipe' \in Seq(PipeItem) /\ \A i \in DOMAIN pipe' : pipe'[i].k # "setack"
      BY <2>2, <2>5 DEF Taken
    <2>7. QED BY <2>6 DEF Led
  <1> SUFFICES ASSUME CountLaws, TypeOK, Shape, Acknowledging, Opening, Marking, [Next]_vars PROVE Opening'
    OBVIOUS
  <1>1. CASE Elsewhere \/ StillThere
    <2>1. channel' = channel /\ opened' = opened /\ generation' = generation /\ (connected' => connected)
      BY <1>1, ElsewhereKeeps, StillKeeps DEF Aside
    <2> USE <2>1
    <2>2. SUFFICES ASSUME connected', HandleAcks, opened, generation = 0 PROVE window' = 0
      BY DEF Opening, HandleAcks
    <2>3. sending = <<>>
      BY <2>2 DEF Shape
    <2>4. window' = window
      BY <1>1, <2>3, WindowStill
    <2>5. QED BY <2>2, <2>4 DEF Opening
  <1>2. CASE Gone
    BY <1>2 DEF Gone, Disconnected, Opening
  <1>3. CASE ZeroWindow
    <2>1. channel' = channel /\ window' = IF HandleAcks THEN 0 ELSE window
      BY <1>3 DEF ZeroWindow
    <2>2. QED BY <2>1 DEF Opening, HandleAcks
  <1>4. CASE ReceiveAck
    <2>1. PICK m : m.k = "ack" /\ CurrentAck(m) /\ Take(m)
      BY <1>4 DEF ReceiveAck, CurrentAck
    <2>2. channel' = channel /\ generation' = generation
      BY <2>1, TakeTypes
    <2>3. HandleAcks => generation = 1
      BY <2>1, AckIsDue
    <2>4. QED BY <2>2, <2>3 DEF Opening, HandleAcks
  <1>5. CASE ReceiveOther
    <2>1. PICK m : Take(m) /\ window' = window
      BY <1>5 DEF ReceiveOther
    <2>2. channel' = channel /\ generation' = generation /\ opened' = opened /\ connected' = connected
      BY <2>1, TakeTypes
    <2>3. QED BY <2>1, <2>2 DEF Opening, HandleAcks
  <1>6. CASE ClientRead \/ ClientSend
    <2>1. UNCHANGED serverVars
      BY <1>6, Zenon DEF ClientRead, ClientSend
    <2>2. channel' = channel /\ generation' = generation /\ opened' = opened /\ connected' = connected /\ window' = window
      BY <2>1, ServerKept
    <2>3. QED BY <2>2 DEF Opening, HandleAcks
  <1>7. CASE PushItem
    <2> USE <1>7
    <2>1. pipe' \in Seq(PipeItem)
      BY PushItemTypes, TypeParts DEF Queues
    <2>2. SetAckFirst'
      BY <2>1, PushItemShape, ShapePartsNext
    <2>3. ~Led(pipe')
      BY <1>PushItemUnled
    <2>4. QED BY <2>2, <2>3 DEF SetAckFirst, Opening
  <1>8. QED BY <1>1, <1>2, <1>3, <1>4, <1>5, <1>6, <1>7, StepKinds

-----------------------------------------------------------------------------
(* The invariant *)

\* Every step keeps the invariant.
LEMMA NextChannel ==
  ASSUME CountLaws, ChannelInductive, Opening, [Next]_vars
  PROVE  ChannelInductive' /\ Opening'
  <1>1. TypeOK /\ Shape /\ Acknowledging /\ Watching /\ Pinging /\ Monitoring /\ Marking
    BY DEF ChannelInductive
  <1> USE <1>1
  <1>2. TypeOK'
    BY TypeStep
  <1>3. Shape'
    BY ShapeStep
  <1>4. Acknowledging'
    BY AckStep
  <1>5. Watching'
    BY WatchStep
  <1>6. Pinging'
    BY PingStep
  <1>7. Monitoring' /\ Marking' /\ Opening'
    BY MonitorStep, MarkStep, OpenStep
  <1>8. QED BY <1>2, <1>3, <1>4, <1>5, <1>6, <1>7 DEF ChannelInductive

-----------------------------------------------------------------------------
(* Counting *)

INSTANCE FiniteSetTheorems

\* The laws of counting that the lemmas above rest on.
LEMMA CountingHolds == CountLaws
  \* The positions of a kind are finitely many.
  <1>KindsCounted.
        ASSUME NEW S, NEW s \in Seq(S), NEW kind
        PROVE  /\ IsFiniteSet({j \in DOMAIN s : s[j].k = kind}) /\ Count(s, kind) \in Nat
               /\ Count(s, kind) = 0 <=> \A j \in DOMAIN s : s[j].k # kind
    <2> USE <1>KindsCounted
    <2>1. IsFiniteSet(1 .. Len(s))
      BY FS_Interval
    <2>2. {j \in DOMAIN s : s[j].k = kind} \in SUBSET (1 .. Len(s))
      OBVIOUS
    <2>3. IsFiniteSet({j \in DOMAIN s : s[j].k = kind})
      BY <2>1, <2>2, FS_Subset
    <2>4. QED BY <2>3, FS_CardinalityType, FS_EmptySet, Zenon DEF Count
  \* Counting in two sequences put together.
  <1>BothCounted.
        ASSUME NEW S, NEW s \in Seq(S), NEW t \in Seq(S), NEW kind
        PROVE  Count(s \o t, kind) = Count(s, kind) + Count(t, kind)
    <2> USE <1>BothCounted
    <2> DEFINE A == {j \in DOMAIN s : s[j].k = kind}
               B == {j \in DOMAIN t : t[j].k = kind}
               C == {j \in Len(s) + 1 .. Len(s) + Len(t) : t[j - Len(s)].k = kind}
               f == [j \in B |-> Len(s) + j]
    <2>1. IsFiniteSet(A) /\ IsFiniteSet(B)
      BY <1>KindsCounted, Zenon
    <2> USE <2>1
    <2>2. f \in Bijection(B, C)
      <3>1. f \in [B -> C]
        OBVIOUS
      <3>2. \A i, j \in B : f[i] = f[j] => i = j
        OBVIOUS
      <3>3. \A j \in C : \E i \in B : f[i] = j
        <4>1. TAKE j \in C
        <4>2. j - Len(s) \in B /\ f[j - Len(s)] = j
          OBVIOUS
        <4>3. QED BY <4>2, Zenon
      <3>4. QED BY <3>1, <3>2, <3>3, Zenon DEF Bijection, Injection, Surjection, IsInjective
    <2>3. IsFiniteSet(C) /\ Cardinality(C) = Cardinality(B)
      BY <2>2, FS_Bijection, Zenon DEF ExistsBijection
    <2>4. A \cap C = {}
      OBVIOUS
    <2>5. {j \in DOMAIN (s \o t) : (s \o t)[j].k = kind} = A \cup C
      <3>1. \A j \in DOMAIN (s \o t) : (s \o t)[j] = IF j \in 1 .. Len(s) THEN s[j] ELSE t[j - Len(s)]
        OBVIOUS
      <3>2. ASSUME NEW j \in DOMAIN (s \o t) PROVE (s \o t)[j].k = kind <=> j \in A \cup C
        BY <3>1, <3>2
      <3>3. A \cup C \subseteq DOMAIN (s \o t)
        OBVIOUS
      <3>4. QED BY <3>2, <3>3, Zenon
    <2>6. Cardinality(A \cup C) = Cardinality(A) + Cardinality(C) - Cardinality(A \cap C)
      BY <2>3, FS_Union, Zenon
    <2>7. Cardinality(A) \in Nat /\ Cardinality(B) \in Nat /\ Cardinality(A \cap C) = 0
      BY <2>4, FS_EmptySet, FS_CardinalityType, Zenon
    <2>8. Cardinality(A \cup C) = Cardinality(A) + Cardinality(B)
      <3> HIDE DEF A, B, C, f
      <3>1. QED BY <2>3, <2>6, <2>7
    <2>9. QED BY <2>5, <2>8, Zenon DEF Count
  \* Counting in one element.
  <1>OneCounted.
        ASSUME NEW m, NEW kind
        PROVE  /\ Count(<<m>>, kind) = IF m.k = kind THEN 1 ELSE 0
               /\ Count(<<>>, kind) = 0
    <2> USE <1>OneCounted
    <2>1. {j \in DOMAIN <<m>> : <<m>>[j].k = kind} = IF m.k = kind THEN {1} ELSE {}
      OBVIOUS
    <2>2. {j \in DOMAIN <<>> : <<>>[j].k = kind} = {}
      OBVIOUS
    <2>3. QED BY <2>1, <2>2, FS_Singleton, FS_EmptySet, Zenon DEF Count
  <1>1. \A S : \A s \in Seq(S) : \A kind : Count(s, kind) \in Nat /\ (Count(s, kind) = 0 <=> \A j \in DOMAIN s : s[j].k # kind)
    BY <1>KindsCounted, Zenon
  <1>2. \A S : \A s, t \in Seq(S) : \A kind : Count(s \o t, kind) = Count(s, kind) + Count(t, kind)
    BY <1>BothCounted
  <1>3. \A m, kind : Count(<<m>>, kind) = (IF m.k = kind THEN 1 ELSE 0) /\ Count(<<>>, kind) = 0
    BY <1>OneCounted, Zenon
  <1>4. QED BY <1>1, <1>2, <1>3 DEF CountLaws

-----------------------------------------------------------------------------
(* Theorems *)

\* For every kind of channel: the inductive invariant of a connection (red-channel-client.cpp)
\* holds in every state.
THEOREM AlwaysChannelInductive == Spec => [](ChannelInductive /\ Opening)
  <1>1. Init => ChannelInductive /\ Opening
    BY CountingHolds, InitChannel
  <1>2. (ChannelInductive /\ Opening) /\ [Next]_vars => (ChannelInductive /\ Opening)'
    BY CountingHolds, NextChannel
  <1>3. QED BY <1>1, <1>2, PTL DEF Spec

\* messages_window is exactly the number of messages begun since SET_ACK that the client has
\* not acknowledged; the subtraction in handle_message never wraps.
THEOREM WindowAlwaysExact == Spec => []AckAccounting
  <1>1. ChannelInductive /\ Opening => AckAccounting
    BY CountingHolds, WindowExact
  <1>2. QED BY <1>1, AlwaysChannelInductive, PTL

\* push() leaves nothing to write behind without a WRITE event or an acknowledgement that
\* comes by itself.
THEOREM ChannelWakeupKept == Spec => []NoLostWakeup
  <1>1. ChannelInductive /\ Opening => NoLostWakeup
    BY CountingHolds, WakeupKept
  <1>2. QED BY <1>1, AlwaysChannelInductive, PTL

\* The PINGs and PONGs under way are those of the latency test in progress, and the
\* connectivity timer meets the state it left.
THEOREM TimersAlwaysMatch == Spec => []TimersMatch
  <1>1. ChannelInductive /\ Opening => TimersMatch
    BY CountingHolds, TimersAgree
  <1>2. QED BY <1>1, AlwaysChannelInductive, PTL

\* wait_pipe_item_sent reports the item sent only when it was written completely.
THEOREM MarkerIsAfterItem == Spec => MarkerAfterItem
  <1>1. ChannelInductive /\ Opening /\ [Next]_vars =>
          [(~marked /\ marked') => sending = <<>> /\ \A i \in DOMAIN pipe : ~pipe[i].target]_vars
    BY CountingHolds, MarkerLast
  <1>2. QED BY <1>1, AlwaysChannelInductive, PTL DEF Spec, MarkerAfterItem
=============================================================================
