-------------------------- MODULE ChannelAckProofs ---------------------------
(***************************************************************************)
(* The window of unacknowledged messages of one connection of a channel    *)
(* (ChannelClient), for every size of window and socket buffer: every step *)
(* keeps the part of the invariant (ChannelPipeProofs) that relates the    *)
(* window to the messages and acknowledgements on their way.               *)
(***************************************************************************)
EXTENDS ChannelPipeProofs

-----------------------------------------------------------------------------
(* Sending *)

\* A sequence from its first to its last element, and cut in two.
LEMMA WholeSeq == ASSUME NEW S, NEW q \in Seq(S) PROVE SubSeq(q, 1, Len(q)) = q
  OBVIOUS

\* handle_outgoing with one or two messages: what is written and what is left are the messages;
\* with the main message not begun yet, the window grows by the messages that were not begun.
LEMMA TransmitFacts ==
  ASSUME TypeOK, NEW msgs \in Seq(Sent), Len(msgs) \in 1 .. 2, NEW from \in Nat, NEW already \in 0 .. 1, NEW rest,
         Transmit(msgs, from, already, rest), UNCHANGED channel
  PROVE  /\ sendq' \in Seq(Sent) /\ Len(sendq') <= SendCap
         /\ sending' \in Seq(Sent) /\ Len(sending') <= Len(msgs)
         /\ sendq' \o sending' = sendq \o msgs
         /\ Len(sending') = 2 => sending' = msgs
         /\ Len(sending') = Len(msgs) => sending' = msgs
         /\ window' \in 0 .. Word - 1
         /\ (HandleAcks /\ from + Len(msgs) - already < Word) => window' + Later' = from + Len(msgs) - already
         /\ ping' = ping \/ (ping \in {"none", "timer"} /\ ping' \in {"none", "timer"})
         /\ sentBytes' \in {sentBytes, SentSome}
         /\ Len(sending') < Len(msgs) => sentBytes' = SentSome
  <1> DEFINE w == Written(msgs)
             n == Len(msgs)
             b == Begun(msgs)
             left == Len(sending')
  <1>1. SendCapLeft \in Nat /\ Len(sendq) + SendCapLeft = SendCap /\ sendq \in Seq(Sent) /\ Len(sendq) \in Nat
    <2>1. sendq \in Seq(Sent) /\ Len(sendq) <= SendCap
      BY DEF TypeOK, Sent
    <2>2. SendCap \in Nat
      BY ThisKind
    <2>3. Len(sendq) \in Nat
      BY <2>1
    <2>4. QED BY <2>1, <2>2, <2>3 DEF SendCapLeft
  <1>a. n \in 1 .. 2 /\ w = (IF n <= SendCapLeft THEN n ELSE SendCapLeft) /\ b = (IF w < n THEN w + 1 ELSE n)
    BY DEF Written, Begun
  <1>2. n \in 1 .. 2 /\ w \in 0 .. n /\ w <= SendCapLeft /\ b \in 1 .. n /\ b = (IF w < n THEN w + 1 ELSE n)
    <2> HIDE DEF w, n, b
    <2>1. QED BY <1>1, <1>a
  <1>3. /\ SubSeq(msgs, 1, w) \in Seq(Sent) /\ SubSeq(msgs, w + 1, n) \in Seq(Sent)
        /\ Len(SubSeq(msgs, 1, w)) = w /\ Len(SubSeq(msgs, w + 1, n)) = n - w
        /\ SubSeq(msgs, 1, w) \o SubSeq(msgs, w + 1, n) = msgs
    BY <1>2, Split, Zenon
  <1>4. sendq' = sendq \o SubSeq(msgs, 1, w) /\ sending' = SubSeq(msgs, w + 1, n)
    BY DEF Transmit
  <1>5. sendq' \in Seq(Sent) /\ Len(sendq') <= SendCap
    <2> HIDE DEF w, n
    <2>1. Len(sendq') = Len(sendq) + w /\ sendq' \in Seq(Sent)
      BY <1>1, <1>3, <1>4
    <2>2. Len(sendq) + w <= SendCap
      BY <1>1, <1>2, ThisKind
    <2>3. QED BY <2>1, <2>2
  <1>6. sending' \in Seq(Sent) /\ left = n - w
    BY <1>3, <1>4
  <1>7. sendq' \o sending' = sendq \o msgs
    <2> DEFINE x == SubSeq(msgs, 1, w)
               y == SubSeq(msgs, w + 1, n)
    <2>1. x \in Seq(Sent) /\ y \in Seq(Sent) /\ x \o y = msgs /\ sendq' = sendq \o x /\ sending' = y
      BY <1>3, <1>4, Zenon
    <2> HIDE DEF x, y
    <2>2. (sendq \o x) \o y = sendq \o (x \o y)
      <3>1. sendq \in Seq(Sent) /\ x \in Seq(Sent) /\ y \in Seq(Sent)
        BY <1>1, <2>1
      <3>2. \A c, d \in Seq(Sent) : (sendq \o c) \o d = sendq \o (c \o d)
        BY <3>1, MessagesAssociate, Zenon
      <3>3. QED BY <3>1, <3>2, Zenon
    <2>3. QED BY <2>1, <2>2
  <1>8. left = n => sending' = msgs
    <2>1. SUFFICES ASSUME w = 0 PROVE SubSeq(msgs, w + 1, n) = msgs
      <3> HIDE DEF w, n, left
      <3>1. left = n => w = 0
        BY <1>2, <1>6
      <3>2. QED BY <1>4, <3>1
    <2>2. SubSeq(msgs, 1, Len(msgs)) = msgs
      BY WholeSeq
    <2>3. QED BY <2>1, <2>2
  <1>10. window' = IF HandleAcks THEN (from + b - already) % Word ELSE window
    BY DEF Transmit
  <1>11. window' \in 0 .. Word - 1
    <2> HIDE DEF b
    <2>1. Word \in Nat /\ window \in 0 .. Word - 1
      BY ThisKind, Zenon DEF TypeOK
    <2>2. from + b - already \in Nat /\ Word > 0
      <3> HIDE DEF n
      <3>1. QED BY <1>2, <2>1
    <2>3. (from + b - already) % Word \in 0 .. Word - 1
      <3>1. \A x \in Nat : x % Word \in 0 .. Word - 1
        BY <2>1, <2>2
      <3>2. QED BY <2>2, <3>1
    <2>4. QED BY <1>10, <2>1, <2>3
  <1>12. ASSUME HandleAcks, from + n - already < Word
         PROVE  window' + Later' = from + n - already
    <2>1. b + Later' = n /\ Later' \in 0 .. 1
      <3>1. Later' = IF left = 2 THEN 1 ELSE 0
        BY DEF Later
      <3> HIDE DEF w, n, b, left
      <3>2. QED BY <1>2, <1>6, <3>1
    <2> HIDE DEF b, n, w
    <2>w. Word \in Nat
      BY ThisKind
    <2>2. from + b - already \in Nat /\ from + b - already < Word
      BY <1>2, <1>12, <2>w
    <2>3. (from + b - already) % Word = from + b - already
      <3>1. \A x \in Nat : x < Word => x % Word = x
        BY ThisKind
      <3>2. QED BY <2>2, <3>1
    <2>4. window' = from + b - already
      BY <1>10, <1>12, <2>3
    <2>5. b \in Int /\ n \in Int /\ Later' \in Int
      BY <1>2, <2>1
    <2>6. \A x, y, z, l \in Int : y + l = z => (from + y - already) + l = from + z - already
      OBVIOUS
    <2>7. QED BY <2>1, <2>4, <2>5, <2>6, Zenon
  <1>13. ping' = ping \/ (ping \in {"none", "timer"} /\ ping' \in {"none", "timer"})
    BY Zenon DEF Transmit, Cancelled, Started, TypeOK
  <1>14. sentBytes' \in {sentBytes, SentSome} /\ (w > 0 => sentBytes' = SentSome)
    <2>1. sentBytes' \in IF Written(msgs) > 0 THEN {SentSome} ELSE {sentBytes, SentSome}
      BY DEF Transmit
    <2>2. QED BY <2>1
  <1>15. left <= n /\ (left = 2 => left = n) /\ (left < n => w > 0)
    <2> HIDE DEF w, n, left
    <2>1. QED BY <1>2, <1>6
  <1>17. QED BY <1>5, <1>6, <1>7, <1>8, <1>11, <1>12, <1>13, <1>14, <1>15

\* The step begins no message of the pipe: it leaves what is on its way as it was, or writes
\* more of it.  `win' is the window it counts from.
Carried(win) ==
  /\ Flow' = Flow
  /\ sendq' \in Seq(Sent) /\ Len(sendq') <= SendCap /\ sending' \in Seq(Sent) /\ Len(sending') <= 2
  /\ Len(sending') = 2 => sending' = sending
  /\ window' \in 0 .. Word - 1
  /\ (HandleAcks /\ win + Later < Word) => window' + Later' = win + Later
  /\ sending = <<>> => sending' = <<>>

\* The latency test goes on as it was; its timer may have been started or cancelled.  A message
\* that was written is noted for the connectivity monitor.
TimersKept ==
  /\ ping' = ping \/ (ping \in {"none", "timer"} /\ ping' \in {"none", "timer"})
  /\ sentBytes' \in {sentBytes, SentSome}
  /\ (sending # <<>> /\ sending' = <<>>) => sentBytes' = SentSome

\* Resuming the blocked message writes more of what is on its way.
LEMMA ResumeFacts ==
  ASSUME TypeOK, Blocked, NEW win \in 0 .. Word - 1, NEW rest,
         Transmit(sending, win, 1, rest), UNCHANGED <<channel, recvq>>
  PROVE  Carried(win) /\ TimersKept
  <1> DEFINE n == Len(sending)
             m == Len(sending')
  <1>a. sending \in Seq(Sent) /\ sendq \in Seq(Sent) /\ recvq \in Seq(Sent) /\ n \in 0 .. 2 /\ n # 0
    BY FlowTypes, Zenon DEF Blocked
  <1> USE <1>a
  <1>1. win \in Nat /\ n \in 1 .. 2
    <2> HIDE DEF n
    <2>1. QED BY ThisKind
  <1> USE <1>1
  <1>2. /\ sendq' \in Seq(Sent) /\ Len(sendq') <= SendCap
        /\ sending' \in Seq(Sent) /\ m <= n
        /\ sendq' \o sending' = sendq \o sending
        /\ m = 2 => sending' = sending
        /\ window' \in 0 .. Word - 1
        /\ (HandleAcks /\ win + n - 1 < Word) => window' + Later' = win + n - 1
        /\ ping' = ping \/ (ping \in {"none", "timer"} /\ ping' \in {"none", "timer"})
        /\ sentBytes' \in {sentBytes, SentSome}
        /\ m < n => sentBytes' = SentSome
    <2>1. 1 \in 0 .. 1
      OBVIOUS
    <2>2. QED BY <2>1, TransmitFacts, Zenon
  <1>3. Flow' = Flow
    <2>1. Flow = recvq \o (sendq \o sending)
      <3>1. Flow = (recvq \o sendq) \o sending
        BY DEF Flow, Path
      <3>2. QED BY <3>1, MessagesAssociate, Zenon
    <2>2. Flow' = recvq \o (sendq' \o sending')
      <3>1. Flow' = (recvq \o sendq') \o sending'
        BY DEF Flow, Path
      <3>2. QED BY <1>2, <3>1, MessagesAssociate, Zenon
    <2>3. sendq' \o sending' = sendq \o sending
      BY <1>2, Zenon
    <2>4. QED BY <2>1, <2>2, <2>3, Zenon
  <1>4. win + n - 1 = win + Later
    <2>1. Later = IF n = 2 THEN 1 ELSE 0
      BY DEF Later
    <2> HIDE DEF n
    <2>2. QED BY <2>1
  <1>5. m <= 2 /\ (m = 0 => m < n) /\ (sending' = <<>> => m = 0)
    <2>1. m \in Nat /\ (sending' = <<>> => m = 0)
      <3>1. sending' \in Seq(Sent)
        BY <1>2, Zenon
      <3>2. QED BY <3>1
    <2>2. m <= n
      BY <1>2, Zenon
    <2> HIDE DEF m, n
    <2>3. QED BY <2>1, <2>2
  <1>6. sending # <<>>
    BY DEF Blocked
  <1> HIDE DEF m, n
  <1>7. QED BY <1>2, <1>3, <1>4, <1>5, <1>6, Zenon DEF Carried, TimersKept, m

\* So does push(), before it takes an item.
LEMMA PushFacts ==
  ASSUME TypeOK, NEW win \in 0 .. Word - 1, NEW rest, Push(win, rest), UNCHANGED <<channel, recvq>>
  PROVE  Carried(win) /\ TimersKept /\ loop' = TRUE
  <1>1. CASE Blocked
    BY <1>1, ResumeFacts DEF Push
  <1>2. CASE ~Blocked
    <2>1. window' = win /\ UNCHANGED <<sendq, sending, ping, sentBytes>> /\ loop' = TRUE
      BY <1>2 DEF Push
    <2> USE <2>1
    <2>2. Flow' = Flow /\ Later' = Later
      BY DEF Flow, Path, Later
    <2>a. Len(sending) <= 2 /\ Len(sendq) <= SendCap /\ sending \in Seq(Sent) /\ sendq \in Seq(Sent)
      <3>1. \A x \in 0 .. 2 : x <= 2
        OBVIOUS
      <3>2. QED BY <3>1, FlowTypes, Zenon
    <2>3. Len(sending') <= 2 /\ Len(sendq') <= SendCap /\ sending' \in Seq(Sent) /\ sendq' \in Seq(Sent)
      BY <2>a, Zenon
    <2>4. QED BY <1>2, <2>2, <2>3 DEF Carried, TimersKept, Blocked
  <1>3. QED BY <1>1, <1>2, Zenon

\* And every step that leaves them alone.
LEMMA CarriedAlong ==
  ASSUME TypeOK, UNCHANGED <<channel, recvq, sendq, sending, window>>
  PROVE  Carried(window)
  <1>2. Flow' = Flow /\ Later' = Later
    BY DEF Flow, Path, Later
  <1>3. Len(sending') <= 2 /\ Len(sendq') <= SendCap /\ sending' \in Seq(Sent) /\ sendq' \in Seq(Sent) /\ window' \in 0 .. Word - 1
    <2>1. Len(sending) <= 2 /\ Len(sendq) <= SendCap /\ sending \in Seq(Sent) /\ sendq \in Seq(Sent) /\ window \in 0 .. Word - 1
      <3>1. \A x \in 0 .. 2 : x <= 2
        OBVIOUS
      <3>2. QED BY <3>1, FlowTypes, Zenon
    <2>2. QED BY <2>1, Zenon
  <1>4. QED BY <1>2, <1>3 DEF Carried

-----------------------------------------------------------------------------
(* The window *)

\* A step that has nothing to do with acknowledgements, or only writes more.
Aside ==
  /\ Carried(window) /\ (connected' => connected)
  /\ UNCHANGED <<channel, toServer, cWindow, cCount, generation, clientGen, clientWindow, opened>>

\* The type of a message of the client, and of what is behind it.
LEMMA TakeFacts ==
  ASSUME CountLaws, TypeOK, NEW m, Take(m)
  PROVE  /\ toServer \in Seq(Received) /\ toServer # <<>> /\ m = toServer[1] /\ m \in Received
         /\ toServer' \in Seq(Received) /\ Len(toServer') = Len(toServer) - 1 /\ Len(toServer) \in Nat \ {0}
         /\ DOMAIN toServer = 1 .. Len(toServer) /\ DOMAIN toServer' = 1 .. Len(toServer) - 1
         /\ \A i \in 1 .. Len(toServer) - 1 : toServer'[i] = toServer[i + 1]
         /\ \A kind : Count(toServer', kind) \in Nat /\ Count(toServer, kind) = Count(toServer', kind) + (IF m.k = kind THEN 1 ELSE 0)
  <1>1. toServer \in Seq(Received) /\ toServer # <<>> /\ m = Head(toServer) /\ toServer' = Tail(toServer)
    BY FlowTypes DEF Take
  <1> USE <1>1
  <1>2. /\ Head(toServer) \in Received /\ Head(toServer) = toServer[1] /\ Tail(toServer) \in Seq(Received)
        /\ Len(Tail(toServer)) = Len(toServer) - 1 /\ Len(toServer) \in Nat \ {0}
        /\ \A i \in 1 .. Len(toServer) - 1 : Tail(toServer)[i] = toServer[i + 1]
        /\ \A kind : Count(toServer, kind) = Count(<<Head(toServer)>>, kind) + Count(Tail(toServer), kind)
    BY TailFacts
  <1>3. \A kind : Count(<<m>>, kind) = IF m.k = kind THEN 1 ELSE 0
    BY CountOne
  <1>4. \A kind : Count(toServer', kind) \in Nat
    BY <1>2, CountType, Zenon
  <1>5. \A kind : Count(toServer, kind) = Count(toServer', kind) + (IF m.k = kind THEN 1 ELSE 0)
    BY <1>2, <1>3, <1>4
  <1>6. QED BY <1>2, <1>4, <1>5

\* An ACK is never subtracted from less than a window: the unsigned subtraction does not wrap.
LEMMA AckIsDue ==
  ASSUME CountLaws, TypeOK, Shape, Acknowledging, HandleAcks, NEW m, m.k = "ack", CurrentAck(m), Take(m)
  PROVE  /\ generation = 1 /\ clientGen = 1 /\ SetAckAt(Flow) = {} /\ Counting
         /\ window - clientWindow \in Nat /\ Acked(window) = window - clientWindow
         /\ window + Later < Word /\ window + Later <= 2 * clientWindow + 2 /\ opened
  <1>1. connected
    BY DEF Take, Reading
  <1>2. ~Unasked
    <2>1. 1 \in DOMAIN toServer /\ toServer[1].k = "ack"
      BY TakeFacts
    <2>2. QED BY <2>1 DEF Unasked
  <1>3. generation = 1
    <2>1. generation = 0 \/ generation = 1
      BY DEF TypeOK
    <2>2. QED BY <1>1, <1>2, <2>1 DEF Acknowledging
  <1>4. OnItsWay /\ Counting /\ opened /\ window + Later <= 2 * clientWindow + 2
    BY <1>1, <1>3 DEF Acknowledging
  <1>5. SetAckAt(Flow) = {}
    BY <1>2, <1>4 DEF OnItsWay
  <1>6. /\ window + Later < Word /\ window \in Nat /\ Later \in 0 .. 1
        /\ clientWindow \in Nat /\ 0 < clientWindow /\ 2 * clientWindow + 2 < Word
    BY <1>1, <1>3, DueFits
  <1>7. window - clientWindow \in Nat
    <2> DEFINE n == Len(Flow)
               a == Count(toServer', "ack")
    <2>1. /\ cWindow = clientWindow /\ cCount \in 1 .. cWindow
          /\ window + Later = 1 + (cWindow - cCount) + n + cWindow * Count(toServer, "ack")
      BY <1>4, <1>5 DEF Counting
    <2>2. a \in Nat /\ Count(toServer, "ack") = a + 1
      BY TakeFacts
    <2>3. n \in Nat /\ Later <= n
      <3>1. Flow \in Seq(Sent) /\ Len(Flow) = Len(recvq) + Len(sendq) + Len(sending) /\ recvq \in Seq(Sent) /\ sendq \in Seq(Sent)
            /\ sending \in Seq(Sent)
        BY FlowTypes, Zenon
      <3>2. Len(recvq) \in Nat /\ Len(sendq) \in Nat /\ Len(sending) \in Nat
        BY <3>1
      <3>3. Len(Flow) \in Nat /\ Len(sending) <= Len(Flow)
        BY <3>1, <3>2
      <3>4. (Later = 1 /\ Len(sending) = 2) \/ Later = 0
        BY Zenon DEF Later
      <3>5. QED BY <3>2, <3>3, <3>4
    <2> HIDE DEF n, a
    <2>4. cWindow * (a + 1) = cWindow * a + cWindow /\ cWindow * a \in Nat
      BY <1>6, <2>1, <2>2, Distributes
    <2>5. window + Later = 1 + (cWindow - cCount) + n + (cWindow * a + cWindow)
      BY <2>1, <2>2, <2>4
    <2> DEFINE x == cWindow * a
    <2>6. x \in Nat /\ window + Later = 1 + (cWindow - cCount) + n + (x + cWindow)
      BY <2>4, <2>5
    <2> HIDE DEF x
    <2>7. QED BY <1>6, <2>1, <2>3, <2>6
  <1>8. Acked(window) = window - clientWindow
    <2>1. \A x \in Nat : x < Word => (x + Word) % Word = x
      BY ThisKind
    <2>2. window + Word - clientWindow = (window - clientWindow) + Word /\ window - clientWindow < Word
      BY <1>6, <1>7, ThisKind
    <2>3. QED BY <1>7, <2>1, <2>2 DEF Acked
  <1>9. clientGen = 1
    BY <1>3 DEF CurrentAck
  <1>10. QED BY <1>3, <1>4, <1>5, <1>6, <1>7, <1>8, <1>9

\* The client reads the oldest message.
LEMMA ClientReadFacts ==
  ASSUME CountLaws, TypeOK, ClientRead
  PROVE  /\ Flow \in Seq(Sent) /\ Flow # <<>> /\ Head(Flow) = Head(recvq) /\ Head(Flow) \in Sent
         /\ recvq \in Seq(Sent) /\ recvq # <<>> /\ recvq' = Tail(recvq)
         /\ Flow' = Tail(Flow) /\ Len(Flow') = Len(Flow) - 1 /\ Len(Flow) \in Nat \ {0}
         /\ UNCHANGED <<serverVars, sendq, peer>>
  <1>1. recvq # <<>> /\ recvq' = Tail(recvq) /\ UNCHANGED <<serverVars, sendq, peer>>
    BY DEF ClientRead
  <1> USE <1>1
  <1>2. recvq \in Seq(Sent) /\ sendq \in Seq(Sent) /\ sending \in Seq(Sent) /\ Flow \in Seq(Sent)
    BY FlowTypes, Zenon
  <1> USE <1>2
  <1> DEFINE t == sendq \o sending
  <1>3. t \in Seq(Sent) /\ Flow = recvq \o t
    <2>1. Flow = (recvq \o sendq) \o sending
      BY DEF Flow, Path
    <2>2. t \in Seq(Sent)
      BY Joined, Zenon
    <2>3. \A c, d \in Seq(Sent) : (recvq \o c) \o d = recvq \o (c \o d)
      BY MessagesAssociate, Zenon
    <2>4. (recvq \o sendq) \o sending = recvq \o (sendq \o sending)
      BY <2>3, Zenon
    <2>5. QED BY <2>1, <2>2, <2>4
  <1>4. Tail(recvq) \in Seq(Sent) /\ Flow' = Tail(recvq) \o t
    <2>1. Tail(recvq) \in Seq(Sent)
      BY TailFacts, Zenon
    <2>2. Flow' = (Tail(recvq) \o sendq) \o sending
      BY DEF Flow, Path, serverVars
    <2>3. \A c, d \in Seq(Sent) : (Tail(recvq) \o c) \o d = Tail(recvq) \o (c \o d)
      BY <2>1, MessagesAssociate, Zenon
    <2>4. (Tail(recvq) \o sendq) \o sending = Tail(recvq) \o (sendq \o sending)
      BY <2>3, Zenon
    <2>5. QED BY <2>1, <2>2, <2>4, Zenon
  <1> HIDE DEF t
  <1>5. Flow # <<>> /\ Head(recvq \o t) = Head(recvq) /\ Tail(recvq \o t) = Tail(recvq) \o t
    BY <1>3
  <1> USE <1>5
  <1>6. Head(Flow) \in Sent /\ Len(Tail(Flow)) = Len(Flow) - 1 /\ Len(Flow) \in Nat \ {0}
    BY TailFacts
  <1>7. Flow' = Tail(Flow) /\ Head(Flow) = Head(recvq)
    BY <1>3, <1>4, Zenon
  <1>8. QED BY <1>6, <1>7, Zenon

\* The client answers with `a', an ACK or nothing, and `r', the answer to the message.
Answered(a, r) ==
  /\ toServer' = toServer \o a \o r /\ r = Reply(Head(recvq))
  /\ a = IF cCount = 1 THEN <<Msg("ack", 0)>> ELSE <<>>
  /\ \A kind : Count(toServer', kind) = Count(toServer, kind) + Count(a, kind) + Count(r, kind)
  /\ toServer' \in Seq(Received) /\ Len(toServer') \in Nat /\ Len(toServer) \in Nat
  /\ DOMAIN toServer' = 1 .. Len(toServer') /\ DOMAIN toServer = 1 .. Len(toServer)
  /\ \A i \in 1 .. Len(toServer) : i \in 1 .. Len(toServer') /\ toServer'[i] = toServer[i]
  /\ \A i \in 1 .. Len(toServer') : i \in 1 .. Len(toServer) \/ toServer'[i] \in Range(a) \cup Range(r)
  /\ \A x \in Range(r) : \E i \in 1 .. Len(toServer') : toServer'[i] = x

\* What a client that reads a message adds to what is on its way to the server.
LEMMA ReplyFacts ==
  ASSUME CountLaws, TypeOK, ClientRead
  PROVE  \E a, r \in Seq(Received) : Answered(a, r)
  <1> DEFINE a == IF cCount = 1 THEN <<Msg("ack", 0)>> ELSE <<>>
             r == Reply(Head(recvq))
  <1>1. toServer' = toServer \o a \o r
    BY DEF ClientRead
  <1>2. a \in Seq(Received)
    <2>1. Msg("ack", 0) \in Received
      BY DEF Msg, Received, ReplyKinds
    <2>2. QED BY <2>1
  <1>3. r \in Seq(Received)
    <2>1. Msg("sync", 1) \in Received /\ Msg("pong", 0) \in Received /\ Msg("flush", 0) \in Received
      BY DEF Msg, Received, ReplyKinds
    <2>2. QED BY <2>1 DEF Reply
  <1> HIDE DEF r
  <1>a. a = IF cCount = 1 THEN <<Msg("ack", 0)>> ELSE <<>>
    OBVIOUS
  <1> HIDE DEF a
  <1> DEFINE t == toServer \o a
  <1>4. toServer \in Seq(Received)
    BY FlowTypes
  <1>5. /\ t \in Seq(Received) /\ Len(t) = Len(toServer) + Len(a) /\ DOMAIN t = 1 .. Len(toServer) + Len(a)
        /\ \A i \in 1 .. Len(toServer) : t[i] = toServer[i]
        /\ \A i \in 1 .. Len(a) : t[Len(toServer) + i] = a[i]
        /\ \A i \in DOMAIN t : i \in 1 .. Len(toServer) \/ \E j \in 1 .. Len(a) : i = Len(toServer) + j
    BY <1>2, <1>4, Joined
  <1>6. \A kind : Count(t, kind) = Count(toServer, kind) + Count(a, kind)
    BY <1>2, <1>4, CountJoined
  <1> HIDE DEF t
  <1>7. toServer' = t \o r
    BY <1>1 DEF t
  <1>t. t \in Seq(Received)
    BY <1>5
  <1>8. /\ t \o r \in Seq(Received) /\ Len(t \o r) = Len(t) + Len(r) /\ DOMAIN (t \o r) = 1 .. Len(t) + Len(r)
        /\ \A i \in 1 .. Len(t) : (t \o r)[i] = t[i]
        /\ \A i \in 1 .. Len(r) : (t \o r)[Len(t) + i] = r[i]
        /\ \A i \in DOMAIN (t \o r) : i \in 1 .. Len(t) \/ \E j \in 1 .. Len(r) : i = Len(t) + j
    BY <1>3, <1>t, Joined
  <1>9. \A kind : Count(t \o r, kind) = Count(t, kind) + Count(r, kind)
    BY <1>3, <1>5, CountJoined
  <1>10. Len(toServer) \in Nat /\ Len(a) \in Nat /\ Len(r) \in Nat /\ Len(t) \in Nat
         /\ DOMAIN a = 1 .. Len(a) /\ DOMAIN r = 1 .. Len(r) /\ DOMAIN toServer = 1 .. Len(toServer)
    BY <1>2, <1>3, <1>4, <1>5
  <1>11. \A i \in 1 .. Len(toServer) : i \in 1 .. Len(toServer') /\ toServer'[i] = toServer[i]
    <2>1. TAKE i \in 1 .. Len(toServer)
    <2>2. i \in 1 .. Len(t) /\ i \in 1 .. Len(t) + Len(r)
      BY <1>5, <1>10
    <2>3. QED BY <1>5, <1>7, <1>8, <2>2
  <1>12. \A i \in 1 .. Len(toServer') : i \in 1 .. Len(toServer) \/ toServer'[i] \in Range(a) \cup Range(r)
    <2>1. SUFFICES ASSUME NEW i \in DOMAIN (t \o r), i \notin 1 .. Len(toServer) PROVE (t \o r)[i] \in Range(a) \cup Range(r)
      BY <1>7, <1>8, Zenon
    <2>2. CASE i \in 1 .. Len(t)
      <3>1. PICK j \in 1 .. Len(a) : i = Len(toServer) + j
        BY <1>5, <2>1, <2>2
      <3>2. (t \o r)[i] = a[j]
        BY <1>5, <1>8, <2>2, <3>1
      <3>3. QED BY <1>10, <3>2 DEF Range
    <2>3. CASE i \notin 1 .. Len(t)
      <3>1. PICK j \in 1 .. Len(r) : i = Len(t) + j
        BY <1>8, <2>1, <2>3
      <3>2. (t \o r)[i] = r[j]
        BY <1>8, <3>1
      <3>3. QED BY <1>10, <3>2 DEF Range
    <2>4. QED BY <2>2, <2>3
  <1>13. \A x \in Range(r) : \E i \in 1 .. Len(toServer') : toServer'[i] = x
    <2>1. TAKE x \in Range(r)
    <2>2. PICK j \in 1 .. Len(r) : x = r[j]
      BY <1>10 DEF Range
    <2>3. Len(t) + j \in 1 .. Len(t) + Len(r)
      BY <1>10
    <2>4. QED BY <1>7, <1>8, <2>2, <2>3, Zenon
  <1>14. \A kind : Count(toServer', kind) = Count(toServer, kind) + Count(a, kind) + Count(r, kind)
    BY <1>6, <1>7, <1>9
  <1>15. toServer' \in Seq(Received) /\ Len(toServer') \in Nat /\ DOMAIN toServer' = 1 .. Len(toServer')
    BY <1>7, <1>8, <1>10
  <1>17. r = Reply(Head(recvq))
    BY DEF r
  <1>18. Answered(a, r)
    BY <1>1, <1>a, <1>10, <1>11, <1>12, <1>13, <1>14, <1>15, <1>17, Zenon DEF Answered
  <1>19. QED BY <1>2, <1>3, <1>18, Zenon

\* What the answers are.
LEMMA AnswerKinds ==
  ASSUME CountLaws, NEW m, NEW c
  PROVE  LET a == IF c = 1 THEN <<Msg("ack", 0)>> ELSE <<>>
             r == Reply(m)
         IN  /\ \A x \in Range(a) : c = 1 /\ x.k = "ack"
             /\ \A x \in Range(r) : x.k # "ack" /\ (x.k = "sync" => m.k = "setack" /\ x.n = 1)
             /\ m.k = "setack" => \E x \in Range(r) : x.k = "sync"
             /\ Count(a, "ack") = (IF c = 1 THEN 1 ELSE 0) /\ Count(a, "pong") = 0
             /\ Count(r, "ack") = 0 /\ Count(r, "pong") = (IF m.k = "ping" THEN 1 ELSE 0)
  <1> DEFINE a == IF c = 1 THEN <<Msg("ack", 0)>> ELSE <<>>
             r == Reply(m)
  <1>1. /\ Msg("ack", 0).k = "ack" /\ Msg("sync", 1).k = "sync" /\ Msg("sync", 1).n = 1
        /\ Msg("pong", 0).k = "pong" /\ Msg("flush", 0).k = "flush"
    BY DEF Msg
  <1> USE <1>1
  <1>2. \A x : Range(<<x>>) = {x}
    BY DEF Range
  <1>3. Range(<<>>) = {}
    BY DEF Range
  <1>4. \A x, kind : Count(<<x>>, kind) = (IF x.k = kind THEN 1 ELSE 0) /\ Count(<<>>, kind) = 0
    BY CountOne, Zenon
  <1>5. /\ \A x \in Range(a) : c = 1 /\ x.k = "ack"
        /\ Count(a, "ack") = (IF c = 1 THEN 1 ELSE 0) /\ Count(a, "pong") = 0
    <2>1. CASE c = 1
      <3>1. a = <<Msg("ack", 0)>>
        BY <2>1
      <3>2. QED BY <1>2, <1>4, <2>1, <3>1
    <2>2. CASE c # 1
      <3>1. a = <<>>
        BY <2>2
      <3>2. QED BY <1>3, <1>4, <2>2, <3>1
    <2>3. QED BY <2>1, <2>2
  <1>6. /\ \A x \in Range(r) : x.k # "ack" /\ (x.k = "sync" => m.k = "setack" /\ x.n = 1)
        /\ m.k = "setack" => \E x \in Range(r) : x.k = "sync"
        /\ Count(r, "ack") = 0 /\ Count(r, "pong") = (IF m.k = "ping" THEN 1 ELSE 0)
    <2>1. CASE m.k = "setack"
      <3>1. r = <<Msg("sync", 1)>>
        BY <2>1 DEF Reply
      <3>2. QED BY <1>2, <1>4, <2>1, <3>1
    <2>2. CASE m.k = "ping"
      <3>1. r = <<Msg("pong", 0)>>
        BY <2>2 DEF Reply
      <3>2. QED BY <1>2, <1>4, <2>2, <3>1
    <2>3. CASE m.k = "migrate"
      <3>1. r = <<Msg("flush", 0)>>
        BY <2>3 DEF Reply
      <3>2. QED BY <1>2, <1>4, <2>3, <3>1
    <2>4. CASE m.k \notin {"setack", "ping", "migrate"}
      <3>1. r = <<>>
        BY <2>4 DEF Reply
      <3>2. QED BY <1>3, <1>4, <2>4, <3>1
    <2>5. QED BY <2>1, <2>2, <2>3, <2>4
  <1>7. QED BY <1>5, <1>6

\* The messages of an item.
LEMMA MessagesFacts ==
  ASSUME CountLaws, TypeOK, NEW item \in PipeItem, item.k \notin {"marker", "oldmarker"}
  PROVE  /\ Messages(item) \in Seq(Sent) /\ Len(Messages(item)) \in 1 .. 2
         /\ Len(Messages(item)) = 2 => Messages(item)[2].k = "data"
         /\ item.k = "setack" => Messages(item) = <<Msg("setack", clientWindow)>>
         /\ item.k # "setack" => \A i \in DOMAIN Messages(item) : Messages(item)[i].k # "setack"
         /\ Count(Messages(item), "ping") = IF item.k = "ping" THEN 1 ELSE 0
  <1>1. clientWindow \in Nat
    <2>1. clientWindow \in Windows
      BY DEF TypeOK
    <2>2. QED BY <2>1, ThisKind
  <1>2. item.k \in {"data", "list", "setack", "ping", "migrate"}
    BY DEF PipeItem, ItemKinds
  <1>3. \A kind \in MsgKinds, x \in Nat : Msg(kind, x) \in Sent /\ Msg(kind, x).k = kind
    BY DEF Msg, Sent
  <1>4. {"data", "urgent", "setack", "ping", "migrate"} \subseteq MsgKinds
    BY DEF MsgKinds
  <1> USE <1>4
  <1>5. \A x, kind : Count(<<x>>, kind) = IF x.k = kind THEN 1 ELSE 0
    BY CountOne, Zenon
  <1>6. CASE item.k = "list"
    <2> DEFINE u == Msg("urgent", 0)
               d == Msg("data", 0)
    <2>1. Messages(item) = <<u, d>>
      BY <1>6 DEF Messages
    <2>2. u \in Sent /\ d \in Sent /\ u.k = "urgent" /\ d.k = "data"
      BY <1>3
    <2> USE <2>2
    <2> HIDE DEF u, d
    <2>3. <<u, d>> \in Seq(Sent) /\ Len(<<u, d>>) = 2 /\ <<u, d>>[1] = u /\ <<u, d>>[2] = d /\ DOMAIN <<u, d>> = 1 .. 2
      OBVIOUS
    <2> USE <2>3
    <2>6. \A i \in 1 .. 2 : i = 1 \/ i = 2
      OBVIOUS
    <2>7. 2 \in 1 .. 2
      OBVIOUS
    <2>8. \A i \in DOMAIN <<u, d>> : <<u, d>>[i].k # "setack"
      BY <2>6
    <2>5. Count(<<u, d>>, "ping") = 0
      <3>1. \A i \in DOMAIN <<u, d>> : <<u, d>>[i].k # "ping"
        BY <2>6
      <3>2. QED BY <3>1, CountType, Zenon
    <2>9. Len(<<u, d>>) \in 1 .. 2
      BY <2>7
    <2>10. QED BY <1>6, <2>1, <2>5, <2>8, <2>9
  <1>7. CASE item.k # "list"
    <2>1. PICK m \in Sent : Messages(item) = <<m>> /\ m.k = item.k /\ (item.k = "setack" => m = Msg("setack", clientWindow))
      <3>1. CASE item.k = "setack"
        <4>1. Messages(item) = <<Msg("setack", clientWindow)>>
          BY <3>1 DEF Messages
        <4>2. QED BY <1>1, <1>3, <3>1, <4>1
      <3>2. CASE item.k # "setack"
        <4>1. Messages(item) = <<Msg(item.k, 0)>>
          BY <1>7, <3>2 DEF Messages
        <4>2. item.k \in MsgKinds
          BY <1>2, <1>7
        <4>3. QED BY <1>3, <3>2, <4>1, <4>2
      <3>3. QED BY <3>1, <3>2
    <2>2. <<m>> \in Seq(Sent) /\ Len(<<m>>) = 1 /\ DOMAIN <<m>> = {1} /\ <<m>>[1] = m
      OBVIOUS
    <2>3. 1 \in 1 .. 2 /\ 1 # 2
      OBVIOUS
    <2>4. Len(<<m>>) \in 1 .. 2 /\ Len(<<m>>) # 2
      BY <2>2, <2>3
    <2>5. QED BY <1>5, <2>1, <2>2, <2>4
  <1>8. QED BY <1>6, <1>7

\* send_any_item: nothing was left to write and no ack is awaited.
LEMMA PushItemFacts ==
  ASSUME CountLaws, TypeOK, PushItem
  PROVE  /\ connected /\ loop /\ sending = <<>> /\ Later = 0 /\ ~waiting_for_ack
         /\ pipe \in Seq(PipeItem) /\ pipe # <<>> /\ Head(pipe) \in PipeItem /\ Head(pipe) = pipe[1]
         /\ UNCHANGED <<channel, connected, blockRead, loop, clientGen, clientWindow, opened, hasTimer, monitor, gotBytes, wait,
                        toServer, recvq, cWindow, cCount, peer>>
         /\ Head(pipe).k \in {"marker", "oldmarker"} => UNCHANGED <<sendq, sending, window, ping, sentBytes, generation, flushWait>>
         /\ Head(pipe).k \notin {"marker", "oldmarker"} =>
              /\ Transmit(Messages(Head(pipe)), IF Head(pipe).k = "setack" THEN 0 ELSE window, 0, pipe')
              /\ generation' = IF Head(pipe).k = "setack" THEN (generation + 1) % Word ELSE generation
  <1>1. sending = <<>> /\ pipe # <<>> /\ connected /\ loop
    BY DEF PushItem, ItemReady, Blocked
  <1> USE <1>1
  <1>2. pipe \in Seq(PipeItem)
    BY FlowTypes
  <1>3. Head(pipe) \in PipeItem /\ Head(pipe) = pipe[1]
    BY <1>2, TailFacts
  <1>4. Later = 0
    BY DEF Later
  <1>5. ~waiting_for_ack
    BY DEF PushItem, ItemReady
  <1>6. UNCHANGED <<channel, connected, blockRead, loop, clientGen, clientWindow, opened, hasTimer, monitor, gotBytes, wait,
                    toServer, recvq, cWindow, cCount, peer>>
    BY DEF PushItem, monVars, clientVars
  <1>7. Head(pipe).k \in {"marker", "oldmarker"} => UNCHANGED <<sendq, sending, window, ping, sentBytes, generation, flushWait>>
    BY DEF PushItem
  <1>8. Head(pipe).k \notin {"marker", "oldmarker"} =>
              /\ Transmit(Messages(Head(pipe)), IF Head(pipe).k = "setack" THEN 0 ELSE window, 0, pipe')
              /\ generation' = IF Head(pipe).k = "setack" THEN (generation + 1) % Word ELSE generation
    BY DEF PushItem
  <1>9. QED BY <1>2, <1>3, <1>4, <1>5, <1>6, <1>7, <1>8, Zenon

\* What send_any_item does to the messages on their way.
LEMMA PushItemFlow ==
  ASSUME CountLaws, TypeOK, PushItem, Head(pipe).k \notin {"marker", "oldmarker"}
  PROVE  LET msgs == Messages(Head(pipe))
             from == IF Head(pipe).k = "setack" THEN 0 ELSE window
         IN  /\ Flow' = Flow \o msgs /\ Flow \in Seq(Sent)
             /\ sendq' \in Seq(Sent) /\ Len(sendq') <= SendCap
             /\ sending' \in Seq(Sent) /\ Len(sending') <= Len(msgs) /\ (Len(sending') = 2 => sending' = msgs)
             /\ window' \in 0 .. Word - 1
             /\ (HandleAcks /\ from + Len(msgs) < Word) => window' + Later' = from + Len(msgs)
             /\ ping' = ping \/ (ping \in {"none", "timer"} /\ ping' \in {"none", "timer"})
             /\ sentBytes' \in {sentBytes, SentSome}
  <1> DEFINE msgs == Messages(Head(pipe))
             from == IF Head(pipe).k = "setack" THEN 0 ELSE window
  <1>1. Transmit(msgs, from, 0, pipe') /\ UNCHANGED <<channel, recvq>> /\ sending = <<>>
    BY PushItemFacts
  <1> USE <1>1
  <1>2. msgs \in Seq(Sent) /\ Len(msgs) \in 1 .. 2
    BY PushItemFacts, MessagesFacts, Zenon
  <1> USE <1>2
  <1>3. from \in Nat /\ 0 \in 0 .. 1
    BY FlowTypes, ThisKind
  <1> HIDE DEF msgs, from
  <1>4. /\ sendq' \in Seq(Sent) /\ Len(sendq') <= SendCap
        /\ sending' \in Seq(Sent) /\ Len(sending') <= Len(msgs)
        /\ sendq' \o sending' = sendq \o msgs
        /\ Len(sending') = 2 => sending' = msgs
        /\ window' \in 0 .. Word - 1
        /\ (HandleAcks /\ from + Len(msgs) - 0 < Word) => window' + Later' = from + Len(msgs) - 0
        /\ ping' = ping \/ (ping \in {"none", "timer"} /\ ping' \in {"none", "timer"})
        /\ sentBytes' \in {sentBytes, SentSome}
    BY <1>3, TransmitFacts, Zenon
  <1>5. from + Len(msgs) - 0 = from + Len(msgs)
    <2>1. Len(msgs) \in Nat
      OBVIOUS
    <2>2. QED BY <1>3, <2>1
  <1>6. Flow' = Flow \o msgs /\ Flow \in Seq(Sent)
    <2>1. recvq \in Seq(Sent) /\ sendq \in Seq(Sent) /\ Flow \in Seq(Sent)
      BY FlowTypes, Zenon
    <2> USE <2>1
    <2>2. Flow = recvq \o sendq
      <3>1. recvq \o sendq \in Seq(Sent)
        BY Joined, Zenon
      <3>2. Flow = (recvq \o sendq) \o <<>>
        BY DEF Flow, Path
      <3>3. QED BY <3>1, <3>2, WithNothing, Zenon
    <2>3. Flow' = (recvq \o sendq') \o sending'
      BY DEF Flow, Path
    <2>a. \A c, d \in Seq(Sent) : (recvq \o c) \o d = recvq \o (c \o d)
      BY MessagesAssociate, Zenon
    <2>4. Flow' = recvq \o (sendq' \o sending')
      <3>1. sendq' \in Seq(Sent) /\ sending' \in Seq(Sent)
        BY <1>4, Zenon
      <3>2. (recvq \o sendq') \o sending' = recvq \o (sendq' \o sending')
        BY <2>a, <3>1, Zenon
      <3>3. QED BY <2>3, <3>2, Zenon
    <2>5. (recvq \o sendq) \o msgs = recvq \o (sendq \o msgs)
      BY <2>a, Zenon
    <2>6. sendq' \o sending' = sendq \o msgs
      BY <1>4, Zenon
    <2>7. QED BY <2>2, <2>4, <2>5, <2>6, Zenon
  <1>7. QED BY <1>4, <1>5, <1>6, Zenon DEF msgs, from

\* The network moves a message from one buffer to the other.
LEMMA NetMoveAside ==
  ASSUME CountLaws, TypeOK, NetMove
  PROVE  Aside /\ recvq' \in Seq(Sent) /\ Len(recvq') <= RecvCap
  <1>1. /\ sendq # <<>> /\ sendq' = Tail(sendq) /\ recvq' = Append(recvq, Head(sendq)) /\ Len(recvq) < RecvCap
        /\ UNCHANGED <<channel, connected, sending, window, generation, clientGen, clientWindow, opened, toServer, cWindow, cCount>>
    BY DEF NetMove, serverVars, watchVars, ackVars
  <1>2. recvq \in Seq(Sent) /\ sendq \in Seq(Sent) /\ sending \in Seq(Sent)
    BY FlowTypes, Zenon
  <1>3. /\ Tail(sendq) \in Seq(Sent) /\ Head(sendq) \in Sent /\ <<Head(sendq)>> \o Tail(sendq) = sendq
        /\ Len(Tail(sendq)) = Len(sendq) - 1 /\ Len(sendq) \in Nat
    BY <1>1, <1>2, TailFacts
  <1> DEFINE h == <<Head(sendq)>>
             t == Tail(sendq)
  <1>4. h \in Seq(Sent) /\ Append(recvq, Head(sendq)) = recvq \o h /\ Len(recvq') = Len(recvq) + 1 /\ recvq' \in Seq(Sent)
    BY <1>1, <1>2, <1>3
  <1>5. Path' = Path
    <2>1. h \in Seq(Sent) /\ t \in Seq(Sent) /\ recvq' = recvq \o h /\ h \o t = sendq
      BY <1>1, <1>3, <1>4
    <2>2. Path' = (recvq \o h) \o t
      <3>1. Path' = recvq' \o sendq'
        BY DEF Path
      <3>2. QED BY <1>1, <2>1, <3>1, Zenon
    <2> HIDE DEF h, t
    <2>a. h \in Seq(Sent) /\ t \in Seq(Sent) /\ recvq \in Seq(Sent)
      BY <1>2, <2>1
    <2>3. (recvq \o h) \o t = recvq \o (h \o t)
      BY <2>a, MessagesAssociate, Zenon
    <2>4. Path = recvq \o sendq
      BY DEF Path
    <2>5. QED BY <2>1, <2>2, <2>3, <2>4, Zenon
  <1>6. Flow' = Flow /\ Later' = Later
    BY <1>1, <1>5 DEF Flow, Later
  <1>7. Len(sendq') <= SendCap
    <2>1. Len(sendq) <= SendCap
      BY FlowTypes, Zenon
    <2>2. SendCap \in Nat
      BY ThisKind
    <2> DEFINE x == Len(sendq)
    <2>3. Len(sendq') = x - 1 /\ x \in Nat /\ x <= SendCap
      BY <1>1, <1>3, <2>1
    <2> HIDE DEF x
    <2>4. QED BY <2>2, <2>3
  <1>8. Len(recvq') <= RecvCap
    <2>1. RecvCap \in Nat /\ Len(recvq) \in Nat
      BY <1>2, ThisKind
    <2>2. QED BY <1>1, <1>4, <2>1
  <1>9. Len(sending') <= 2 /\ sending' \in Seq(Sent) /\ window' \in 0 .. Word - 1
    <2>1. \A x \in 0 .. 2 : x <= 2
      OBVIOUS
    <2>2. QED BY <1>1, <2>1, FlowTypes, Zenon
  <1>10. Carried(window)
    BY <1>1, <1>3, <1>6, <1>7, <1>9 DEF Carried
  <1>11. QED BY <1>1, <1>4, <1>8, <1>10 DEF Aside

\* What such steps leave alone.
LEMMA ElsewhereKeeps ==
  ASSUME CountLaws, TypeOK, Elsewhere
  PROVE  Aside /\ connected' = connected
  <1> DEFINE Same == UNCHANGED <<channel, connected, recvq, toServer, cWindow, cCount, generation, clientGen, clientWindow, opened>>
             Still == UNCHANGED <<sendq, sending, window>>
  <1>1. ASSUME Same, Still PROVE Aside /\ connected' = connected
    BY <1>1, CarriedAlong DEF Aside
  <1>2. ASSUME Same, NEW rest, Push(window, rest) PROVE Aside /\ connected' = connected
    <2>1. window \in 0 .. Word - 1
      BY FlowTypes
    <2>2. QED BY <1>2, <2>1, PushFacts, Zenon DEF Aside
  <1>3. CASE PushEnd \/ RemoveItem \/ Migrate \/ PingTimer \/ StartMonitoring \/ BlockRead \/ UnblockRead \/ StartWaitItem \/ WaitDone
    <2>1. Same /\ Still
      BY <1>3, Zenon DEF PushEnd, RemoveItem, Migrate, PingTimer, StartMonitoring, BlockRead, UnblockRead, StartWaitItem, WaitDone,
                  watchVars, ackVars, clientVars
    <2>2. QED BY <1>1, <2>1
  <1>4. CASE \/ \E w \in {"outgoing", "all"} : StartWait(w)
             \/ \E how \in {"hung", "closed"} : PeerStops(how)
             \/ UNCHANGED vars
    <2>1. Same /\ Still
      BY <1>4 DEF StartWait, PeerStops, vars, serverVars, watchVars, ackVars, clientVars
    <2>2. QED BY <1>1, <2>1
  <1>5. CASE WriteEvent \/ WaitPush
    <2>1. Same /\ Push(window, pipe)
      BY <1>5 DEF WriteEvent, WaitPush, watchVars, ackVars, clientVars
    <2>2. QED BY <1>2, <2>1
  <1>6. ASSUME NEW kind \in {"data", "list"}, NEW how \in {"add", "push", "next"}, AddItem(kind, how)
        PROVE  Aside /\ connected' = connected
    <2> USE <1>6
    <2>1. Same
      BY Zenon DEF AddItem, ackVars, clientVars
    <2>2. CASE how = "push"
      <3>1. Push(window, pipe')
        BY <2>2 DEF AddItem
      <3>2. QED BY <1>2, <2>1, <3>1
    <2>3. CASE how # "push"
      <3>1. Still
        BY <2>3 DEF AddItem
      <3>2. QED BY <1>1, <2>1, <3>1
    <2>4. QED BY <2>2, <2>3
  <1>7. CASE WaitSend
    <2>1. Same /\ Blocked /\ Transmit(sending, window, 1, pipe)
      BY <1>7 DEF WaitSend, watchVars, ackVars, clientVars
    <2>2. window \in 0 .. Word - 1
      BY FlowTypes
    <2>3. QED BY <2>1, <2>2, ResumeFacts DEF Aside
  <1>8. CASE NetMove
    <2>1. connected' = connected
      BY <1>8 DEF NetMove, serverVars, watchVars
    <2>2. QED BY <1>8, <2>1, NetMoveAside
  <1>9. QED BY <1>3, <1>4, <1>5, <1>6, <1>7, <1>8 DEF Elsewhere

\* The account of acknowledgements is kept by every step.
LEMMA AckStep ==
  CountLaws /\ TypeOK /\ Shape /\ Acknowledging /\ [Next]_vars => Acknowledging'
  \* Such a step keeps the account.
  <1>AsideAcks.
        ASSUME TypeOK, Acknowledging, Aside
        PROVE  Acknowledging'
    <2> USE <1>AsideAcks
    <2>1. SUFFICES ASSUME connected, HandleAcks
                   PROVE  (/\ generation = 0 => SetAckAt(Flow) = {} /\ Unasked
                           /\ generation = 1 => /\ opened /\ window + Later <= 2 * clientWindow + 2
                                                /\ OnItsWay /\ Counting /\ AckOrder)'
      BY DEF Acknowledging, Aside, HandleAcks
    <2> USE <2>1
    <2>2. /\ Flow' = Flow
          /\ UNCHANGED <<channel, toServer, cWindow, cCount, generation, clientGen, clientWindow, opened>>
      BY DEF Aside, Carried
    <2> USE <2>2
    <2>3. SetAckAt(Flow)' = SetAckAt(Flow) /\ Unasked' = Unasked /\ Synced' = Synced /\ AckOrder' = AckOrder
      BY DEF SetAckAt, Unasked, Synced, AckOrder
    <2> USE <2>3
    <2>4. CASE generation = 0
      BY <2>4 DEF Acknowledging
    <2>5. CASE generation = 1
      <3> USE <2>5
      <3>1. window' + Later' = window + Later
        BY DueFits DEF Aside, Carried
      <3> USE <3>1
      <3>2. opened /\ window + Later <= 2 * clientWindow + 2 /\ OnItsWay /\ Counting /\ AckOrder
        BY DEF Acknowledging
      <3> USE <3>2
      <3>3. OnItsWay'
        BY DEF OnItsWay
      <3>4. Counting'
        BY DEF Counting
      <3>5. QED BY <3>3, <3>4
    <2>6. generation = 0 \/ generation = 1
      BY DEF TypeOK
    <2>7. QED BY <2>4, <2>5, <2>6
  \* ack_zero_messages_window comes before the first message.
  <1>ZeroAcks.
        ASSUME TypeOK, Shape, Acknowledging, ZeroWindow
        PROVE  Acknowledging'
    <2> USE <1>ZeroAcks
    <2>1. SUFFICES ASSUME HandleAcks, connected PROVE generation' = 0 /\ SetAckAt(Flow)' = {} /\ Unasked'
      BY DEF Acknowledging, ZeroWindow, HandleAcks
    <2>2. generation = 0
      BY <2>1 DEF Shape, ZeroWindow
    <2>3. SetAckAt(Flow) = {} /\ Unasked
      BY <2>1, <2>2 DEF Acknowledging
    <2>4. UNCHANGED <<generation, recvq, sendq, sending, cWindow, cCount, clientGen, toServer>>
      BY DEF ZeroWindow, clientVars
    <2>5. QED BY <2>2, <2>3, <2>4 DEF SetAckAt, Flow, Path, Unasked
  \* An ACK of the current generation takes the client's window off (red_channel_client_handle_message).
  <1>ReceiveAckAcks.
        ASSUME CountLaws, TypeOK, Shape, Acknowledging, ReceiveAck
        PROVE  Acknowledging'
    <2> USE <1>ReceiveAckAcks
    <2>1. PICK m : CurrentAck(m) /\ Take(m) /\ Push(Acked(window), pipe) /\ UNCHANGED <<clientGen, flushWait>>
      BY DEF ReceiveAck
    <2> USE <2>1
    <2>2. UNCHANGED <<channel, connected, recvq, generation, clientWindow, opened, cWindow, cCount>>
      BY DEF Take, clientVars
    <2> USE <2>2
    <2>3. SUFFICES ASSUME HandleAcks, connected PROVE Acknowledging'
      BY DEF Acknowledging, HandleAcks
    <2> USE <2>3
    <2>4. m.k = "ack"
      BY DEF CurrentAck
    <2>5. /\ generation = 1 /\ clientGen = 1 /\ SetAckAt(Flow) = {} /\ Counting
          /\ window - clientWindow \in Nat /\ Acked(window) = window - clientWindow
          /\ window + Later < Word /\ window + Later <= 2 * clientWindow + 2 /\ opened
      BY <2>4, AckIsDue
    <2> USE <2>5
    <2>6. /\ window \in Nat /\ Later \in 0 .. 1 /\ clientWindow \in Nat /\ Word \in Nat
          /\ Acked(window) \in 0 .. Word - 1 /\ Acked(window) + Later < Word
      <3>1. window \in Nat /\ Later \in 0 .. 1 /\ clientWindow \in Nat /\ Word \in Nat
        BY DueFits, ThisKind
      <3>2. QED BY <3>1
    <2> USE <2>6
    <2>7. Carried(Acked(window))
      BY PushFacts, Zenon
    <2>8. Flow' = Flow /\ window' + Later' = (window - clientWindow) + Later
      BY <2>7 DEF Carried
    <2> USE <2>8
    <2>9. SetAckAt(Flow)' = {} /\ clientGen' = 1 /\ generation' = 1
      BY DEF SetAckAt
    <2> USE <2>9
    <2>10. Counting'
      <3> DEFINE a == Count(toServer', "ack")
                 n == Len(Flow)
      <3>1. a \in Nat /\ Count(toServer, "ack") = a + 1
        BY <2>4, TakeFacts
      <3>2. /\ cWindow = clientWindow /\ cCount \in 1 .. cWindow
            /\ window + Later = 1 + (cWindow - cCount) + n + cWindow * Count(toServer, "ack")
        BY DEF Counting
      <3> USE <3>2
      <3>3. n \in Nat
        <4>1. Flow \in Seq(Sent)
          BY FlowTypes
        <4>2. QED BY <4>1
      <3>4. cWindow * (a + 1) = cWindow * a + cWindow /\ cWindow * a \in Nat
        BY <3>1, Distributes
      <3> HIDE DEF a, n
      <3> DEFINE x == cWindow * a
      <3>5. x \in Nat /\ window + Later = 1 + (cWindow - cCount) + n + (x + cWindow)
        BY <3>1, <3>4
      <3>6. (window - clientWindow) + Later = 1 + (cWindow - cCount) + n + x
        <4> HIDE DEF x
        <4>1. QED BY <3>3, <3>5
      <3>7. window' + Later' = 1 + (cWindow' - cCount') + Len(Flow') + cWindow' * Count(toServer', "ack")
        BY <3>6 DEF a, n
      <3>8. QED BY <3>7 DEF Counting, Synced
    <2>11. OnItsWay' /\ AckOrder'
      BY DEF OnItsWay, AckOrder
    <2>12. window' + Later' <= 2 * clientWindow' + 2
      <3>1. (window - clientWindow) + Later <= 2 * clientWindow + 2
        OBVIOUS
      <3>2. QED BY <3>1
    <2>13. QED BY <2>10, <2>11, <2>12 DEF Acknowledging
  \* ACK_SYNC is noted; no other message than an ACK has to do with the window, and no ACK is ignored.
  <1>ReceiveOtherAcks.
        ASSUME CountLaws, TypeOK, Shape, Acknowledging, ReceiveOther
        PROVE  Acknowledging'
    <2> USE <1>ReceiveOtherAcks
    <2>1. PICK m : /\ ~CurrentAck(m) /\ Take(m)
                   /\ clientGen' = IF m.k = "sync" THEN m.n ELSE clientGen
                   /\ UNCHANGED <<mask, window, loop, sendq, sending, sentBytes>>
      BY DEF ReceiveOther
    <2> USE <2>1
    <2>2. UNCHANGED <<channel, connected, recvq, generation, clientWindow, opened, cWindow, cCount>>
      BY DEF Take, clientVars
    <2> USE <2>2
    <2>3. SUFFICES ASSUME HandleAcks, connected PROVE Acknowledging'
      BY DEF Acknowledging, HandleAcks
    <2>4. Flow' = Flow /\ Later' = Later /\ SetAckAt(Flow)' = SetAckAt(Flow)
      BY DEF Flow, Path, Later, SetAckAt
    <2> USE <2>4
    <2> DEFINE n == Len(toServer)
    <2>5. /\ m = toServer[1] /\ n \in Nat \ {0} /\ DOMAIN toServer = 1 .. n /\ DOMAIN toServer' = 1 .. n - 1
          /\ \A i \in 1 .. n - 1 : toServer'[i] = toServer[i + 1]
          /\ Count(toServer', "ack") \in Nat
          /\ Count(toServer, "ack") = Count(toServer', "ack") + (IF m.k = "ack" THEN 1 ELSE 0)
      BY TakeFacts
    <2> HIDE DEF n
    <2>6. 1 \in 1 .. n /\ \A i \in 1 .. n - 1 : i + 1 \in 1 .. n
      BY <2>5
    <2>7. m.k = "sync" => clientGen' = 1
      BY <2>5, <2>6 DEF Shape
    <2>8. ASSUME Unasked PROVE Unasked'
      <3>1. m.k # "sync" /\ clientGen' = clientGen
        BY <2>5, <2>6, <2>8 DEF Unasked
      <3>2. QED BY <2>5, <2>6, <2>8, <3>1 DEF Unasked
    <2>9. CASE generation = 0
      BY <2>3, <2>8, <2>9 DEF Acknowledging
    <2>10. CASE generation = 1
      <3> USE <2>10
      <3>1. opened /\ window + Later <= 2 * clientWindow + 2 /\ OnItsWay /\ Counting /\ AckOrder
        BY <2>3 DEF Acknowledging
      <3> USE <3>1
      <3>2. m.k # "ack"
        <4>1. SUFFICES ASSUME m.k = "ack" PROVE FALSE
          OBVIOUS
        <4>2. clientGen = 1
          <5>1. 1 \in DOMAIN toServer /\ toServer[1].k = "ack" /\ 1 .. 1 - 1 = {}
            BY <2>5, <2>6, <4>1
          <5>2. QED BY <5>1 DEF AckOrder
        <4>3. QED BY <4>1, <4>2 DEF CurrentAck
      <3>3. Count(toServer', "ack") = Count(toServer, "ack")
        BY <2>5, <3>2
      <3>4. OnItsWay'
        BY <2>8 DEF OnItsWay
      <3>5. ASSUME Synced PROVE Synced'
        <4>1. CASE m.k = "sync"
          BY <2>7, <4>1 DEF Synced
        <4>2. CASE m.k # "sync"
          <5>1. clientGen' = clientGen
            BY <4>2
          <5>2. CASE clientGen = 1
            BY <5>1, <5>2 DEF Synced
          <5>3. CASE \E i \in DOMAIN toServer : toServer[i].k = "sync"
            <6>1. PICK i \in 1 .. n : toServer[i].k = "sync"
              BY <2>5, <5>3
            <6>2. i - 1 \in 1 .. n - 1 /\ (i - 1) + 1 = i
              BY <2>5, <4>2, <6>1
            <6>3. toServer'[i - 1] = toServer[(i - 1) + 1]
              BY <2>5, <6>2
            <6>4. QED BY <2>5, <6>1, <6>2, <6>3 DEF Synced
          <5>4. QED BY <3>5, <5>2, <5>3 DEF Synced
        <4>3. QED BY <4>1, <4>2
      <3>6. Counting'
        BY <3>3, <3>5 DEF Counting
      <3>7. AckOrder'
        <4>1. SUFFICES ASSUME NEW j \in 1 .. n - 1, toServer'[j].k = "ack", clientGen' # 1
                       PROVE  \E i \in 1 .. j - 1 : toServer'[i].k = "sync"
          BY <2>5 DEF AckOrder
        <4>2. m.k # "sync" /\ clientGen # 1
          BY <2>7, <4>1
        <4>3. j + 1 \in 1 .. n /\ toServer[j + 1].k = "ack"
          BY <2>5, <2>6, <4>1
        <4>4. PICK i \in 1 .. (j + 1) - 1 : toServer[i].k = "sync"
          BY <2>5, <4>2, <4>3, Zenon DEF AckOrder
        <4>5. i - 1 \in 1 .. j - 1 /\ i - 1 \in 1 .. n - 1 /\ (i - 1) + 1 = i
          BY <2>5, <4>2, <4>4
        <4>6. toServer'[i - 1] = toServer[(i - 1) + 1]
          BY <2>5, <4>5
        <4>7. QED BY <4>4, <4>5, <4>6
      <3>8. QED BY <3>4, <3>6, <3>7 DEF Acknowledging
    <2>11. generation = 0 \/ generation = 1
      BY DEF TypeOK
    <2>12. QED BY <2>9, <2>10, <2>11
  \* The positions of SET_ACK when the oldest message was read, and when messages follow.
  <1>SetAckTail.
        ASSUME CountLaws, NEW s \in Seq(Sent), s # <<>>
        PROVE  /\ \A j \in SetAckAt(Tail(s)) : j + 1 \in SetAckAt(s) /\ j \in Nat \ {0} /\ Tail(s)[j] = s[j + 1]
               /\ \A j \in SetAckAt(s) : j \in Nat /\ (j = 1 \/ j - 1 \in SetAckAt(Tail(s)))
               /\ 1 \in SetAckAt(s) <=> Head(s).k = "setack"
    <2> USE <1>SetAckTail
    <2>1. /\ Tail(s) \in Seq(Sent) /\ Len(Tail(s)) = Len(s) - 1 /\ Len(s) \in Nat \ {0} /\ Head(s) = s[1]
          /\ \A i \in 1 .. Len(s) - 1 : Tail(s)[i] = s[i + 1]
      BY TailFacts
    <2>2. DOMAIN s = 1 .. Len(s) /\ DOMAIN Tail(s) = 1 .. Len(s) - 1
      BY <2>1
    <2> DEFINE n == Len(s)
               t == Tail(s)
    <2>3. n \in Nat \ {0} /\ SetAckAt(s) = {j \in 1 .. n : s[j].k = "setack"} /\ SetAckAt(t) = {j \in 1 .. n - 1 : t[j].k = "setack"}
      BY <2>1, <2>2 DEF SetAckAt
    <2> USE <2>3
    <2>4. Head(s) = s[1] /\ \A i \in 1 .. n - 1 : t[i] = s[i + 1]
      BY <2>1
    <2> HIDE DEF n, t
    <2>5. \A j \in SetAckAt(t) : j + 1 \in SetAckAt(s) /\ j \in Nat \ {0} /\ t[j] = s[j + 1]
      BY <2>4
    <2>6. \A j \in SetAckAt(s) : j \in Nat /\ (j = 1 \/ j - 1 \in SetAckAt(t))
      <3>1. SUFFICES ASSUME NEW j \in 1 .. n, s[j].k = "setack", j # 1 PROVE j - 1 \in 1 .. n - 1 /\ t[j - 1].k = "setack"
        OBVIOUS
      <3>2. j - 1 \in 1 .. n - 1 /\ (j - 1) + 1 = j
        BY <3>1
      <3>3. t[j - 1] = s[(j - 1) + 1]
        BY <2>4, <3>2
      <3>4. QED BY <3>1, <3>2, <3>3
    <2>7. 1 \in SetAckAt(s) <=> Head(s).k = "setack"
      BY <2>4
    <2>8. QED BY <2>5, <2>6, <2>7, Zenon DEF t
  \* The client reads a message: it counts it, or it learns the window.
  <1>ClientReadAcks.
        ASSUME CountLaws, TypeOK, Shape, Acknowledging, ClientRead
        PROVE  Acknowledging'
    <2> USE <1>ClientReadAcks
    <2> DEFINE m == Head(recvq)
    <2>1. /\ Flow \in Seq(Sent) /\ Flow # <<>> /\ Head(Flow) = m /\ m \in Sent
          /\ Flow' = Tail(Flow) /\ Len(Flow') = Len(Flow) - 1 /\ Len(Flow) \in Nat \ {0}
      BY ClientReadFacts
    <2>2. UNCHANGED <<channel, connected, sending, window, generation, clientGen, clientWindow, opened>>
      BY DEF ClientRead, serverVars, watchVars, ackVars
    <2>3. SUFFICES ASSUME HandleAcks, connected PROVE Acknowledging'
      BY <2>2 DEF Acknowledging, HandleAcks
    <2>4. PICK a, r \in Seq(Received) : Answered(a, r)
      BY ReplyFacts
    <2>5. /\ \A x \in Range(a) : cCount = 1 /\ x.k = "ack"
          /\ \A x \in Range(r) : x.k # "ack" /\ (x.k = "sync" => m.k = "setack" /\ x.n = 1)
          /\ m.k = "setack" => \E x \in Range(r) : x.k = "sync"
          /\ Count(a, "ack") = (IF cCount = 1 THEN 1 ELSE 0) /\ Count(r, "ack") = 0
      <3>1. r = Reply(m) /\ a = IF cCount = 1 THEN <<Msg("ack", 0)>> ELSE <<>>
        BY <2>4 DEF Answered
      <3>2. QED BY <3>1, AnswerKinds, Zenon
    <2> DEFINE n == Len(toServer)
               k == Len(toServer')
    <2>6. /\ DOMAIN toServer = 1 .. n /\ DOMAIN toServer' = 1 .. k /\ n \in Nat /\ k \in Nat
          /\ \A i \in 1 .. n : i \in 1 .. k /\ toServer'[i] = toServer[i]
          /\ \A i \in 1 .. k : i \in 1 .. n \/ toServer'[i] \in Range(a) \cup Range(r)
          /\ \A x \in Range(r) : \E i \in 1 .. k : toServer'[i] = x
      BY <2>4, Zenon DEF Answered
    <2>7. Count(toServer', "ack") = Count(toServer, "ack") + (IF cCount = 1 THEN 1 ELSE 0) /\ Count(toServer, "ack") \in Nat
      <3>1. Count(toServer', "ack") = Count(toServer, "ack") + Count(a, "ack") + Count(r, "ack")
        BY <2>4 DEF Answered
      <3>2. Count(toServer, "ack") \in Nat
        BY FlowTypes, CountType
      <3>3. QED BY <2>5, <3>1, <3>2
    <2> HIDE DEF n, k
    <2>8. /\ cWindow' = (IF m.k = "setack" THEN m.n ELSE cWindow)
          /\ m.k = "setack" => cCount' = m.n
          /\ (m.k # "setack" /\ cCount = 1) => cCount' = cWindow
          /\ (m.k # "setack" /\ cCount = 0) => cCount' = 0
          /\ (m.k # "setack" /\ cCount \notin {0, 1}) => cCount' = cCount - 1
      BY DEF ClientRead
    <2>9. Later' = Later
      BY <2>2 DEF Later
    <2>10. ASSUME Unasked, m.k # "setack" PROVE Unasked'
      BY <2>2, <2>5, <2>6, <2>8, <2>10 DEF Unasked
    <2> HIDE DEF m
    <2>11. /\ \A j \in SetAckAt(Flow)' : j + 1 \in SetAckAt(Flow) /\ j \in Nat \ {0} /\ Flow'[j] = Flow[j + 1]
           /\ \A j \in SetAckAt(Flow) : j \in Nat /\ (j = 1 \/ j - 1 \in SetAckAt(Flow)')
           /\ 1 \in SetAckAt(Flow) <=> m.k = "setack"
      <3>1. SetAckAt(Flow)' = SetAckAt(Tail(Flow))
        BY <2>1 DEF SetAckAt
      <3>2. QED BY <2>1, <3>1, <1>SetAckTail, Zenon
    <2>12. CASE generation = 0
      <3>1. SetAckAt(Flow) = {} /\ Unasked
        BY <2>3, <2>12 DEF Acknowledging
      <3>2. SetAckAt(Flow)' = {} /\ Unasked'
        BY <2>10, <2>11, <3>1
      <3>3. QED BY <2>2, <2>12, <3>2 DEF Acknowledging
    <2>13. CASE generation = 1
      <3>1. opened /\ window + Later <= 2 * clientWindow + 2 /\ OnItsWay /\ Counting /\ AckOrder
        BY <2>3, <2>13 DEF Acknowledging
      <3>2. window \in Nat /\ Later \in 0 .. 1 /\ clientWindow \in Nat /\ 0 < clientWindow
        BY <2>3, <2>13, DueFits
      <3> SUFFICES OnItsWay' /\ Counting' /\ AckOrder'
        BY <2>2, <2>9, <2>13, <3>1 DEF Acknowledging
      <3>3. CASE SetAckAt(Flow) = {}
        <4>1. m.k # "setack" /\ SetAckAt(Flow)' = {}
          BY <2>11, <3>3
        <4>2. /\ cWindow = clientWindow /\ cCount \in 1 .. cWindow /\ Synced
              /\ window + Later = 1 + (cWindow - cCount) + Len(Flow) + cWindow * Count(toServer, "ack")
          BY <3>1, <3>3 DEF Counting
        <4>3. Synced'
          BY <2>2, <2>6, <4>2 DEF Synced
        <4>4. cWindow' = clientWindow' /\ cCount' \in 1 .. cWindow'
          BY <2>2, <2>8, <3>2, <4>1, <4>2
        <4>5. window' + Later' = 1 + (cWindow' - cCount') + Len(Flow') + cWindow' * Count(toServer', "ack")
          <5> DEFINE c == Count(toServer, "ack")
                     l == Len(Flow)
          <5>1. c \in Nat /\ l \in Nat \ {0} /\ Len(Flow') = l - 1 /\ cWindow \in Nat /\ cWindow' = cWindow
            BY <2>1, <2>7, <2>8, <3>2, <4>1, <4>2
          <5>2. cWindow * (c + 1) = cWindow * c + cWindow /\ cWindow * c \in Nat
            BY <5>1, Distributes
          <5>3. window + Later = 1 + (cWindow - cCount) + l + cWindow * c /\ cCount \in 1 .. cWindow
            BY <4>2
          <5>4. Count(toServer', "ack") = c + (IF cCount = 1 THEN 1 ELSE 0)
            BY <2>7
          <5> HIDE DEF c, l
          <5> DEFINE x == cWindow * c
          <5>5. CASE cCount = 1
            <6>1. cCount' = cWindow /\ cWindow' * Count(toServer', "ack") = x + cWindow
              BY <2>8, <4>1, <5>1, <5>2, <5>4, <5>5
            <6>2. x \in Nat /\ window + Later = 1 + (cWindow - cCount) + l + x
              BY <5>2, <5>3
            <6> HIDE DEF x
            <6>3. window + Later = 1 + (cWindow - cWindow) + (l - 1) + (x + cWindow)
              BY <5>1, <5>3, <5>5, <6>2
            <6>4. QED BY <2>2, <2>9, <5>1, <6>1, <6>3
          <5>6. CASE cCount # 1
            <6>1. cCount' = cCount - 1 /\ cWindow' * Count(toServer', "ack") = x
              BY <2>8, <4>1, <5>1, <5>3, <5>4, <5>6
            <6>2. x \in Nat /\ window + Later = 1 + (cWindow - cCount) + l + x
              BY <5>2, <5>3
            <6> HIDE DEF x
            <6>3. window + Later = 1 + (cWindow - (cCount - 1)) + (l - 1) + x
              BY <5>1, <5>3, <5>6, <6>2
            <6>4. QED BY <2>2, <2>9, <5>1, <6>1, <6>3
          <5>7. QED BY <5>5, <5>6
        <4>6. AckOrder'
          <5>1. SUFFICES ASSUME NEW j \in 1 .. k, toServer'[j].k = "ack", clientGen' # 1
                         PROVE  \E i \in 1 .. j - 1 : toServer'[i].k = "sync"
            BY <2>6 DEF AckOrder
          <5>2. clientGen # 1
            BY <2>2, <5>1
          <5>3. CASE j \in 1 .. n
            <6>1. PICK i \in 1 .. j - 1 : toServer[i].k = "sync"
              BY <2>6, <3>1, <5>1, <5>2, <5>3 DEF AckOrder
            <6>2. i \in 1 .. n
              BY <2>6, <5>3, <6>1
            <6>3. QED BY <2>6, <6>1, <6>2
          <5>4. CASE j \notin 1 .. n
            <6>1. PICK i \in 1 .. n : toServer[i].k = "sync"
              BY <2>6, <4>2, <5>2 DEF Synced
            <6>2. i \in 1 .. j - 1
              BY <2>6, <5>1, <5>4, <6>1
            <6>3. QED BY <2>6, <6>1, <6>2
          <5>5. QED BY <5>3, <5>4
        <4>7. OnItsWay'
          BY <4>1 DEF OnItsWay
        <4>8. QED BY <4>3, <4>4, <4>5, <4>6, <4>7 DEF Counting
      <3>4. CASE SetAckAt(Flow) # {}
        <4>1. PICK j \in SetAckAt(Flow) : TRUE
          BY <3>4
        <4>2. window + Later = Len(Flow) - j + 1 /\ Flow[j].n = clientWindow /\ Unasked /\ j \in Nat
          BY <2>11, <3>1, <4>1 DEF OnItsWay
        <4>3. \A i \in SetAckAt(Flow) : i = j
          <5>1. TAKE i \in SetAckAt(Flow)
          <5>2. window + Later = Len(Flow) - i + 1 /\ i \in Nat
            BY <2>11, <3>1 DEF OnItsWay
          <5> DEFINE l == Len(Flow)
          <5>3. l \in Nat /\ window + Later = l - i + 1 /\ window + Later = l - j + 1
            BY <2>1, <4>2, <5>2
          <5> HIDE DEF l
          <5>4. QED BY <3>2, <4>2, <5>2, <5>3
        <4>4. AckOrder'
          <5>1. cCount = 0 /\ \A i \in 1 .. n : toServer[i].k # "ack"
            BY <2>6, <4>2 DEF Unasked
          <5>2. \A i \in 1 .. k : toServer'[i].k # "ack"
            BY <2>5, <2>6, <5>1
          <5>3. QED BY <2>6, <5>2 DEF AckOrder
        <4>5. CASE m.k = "setack"
          <5>1. j = 1
            BY <2>11, <4>3, <4>5
          <5>2. SetAckAt(Flow)' = {}
            <6>1. SUFFICES ASSUME NEW i \in SetAckAt(Flow)' PROVE FALSE
              OBVIOUS
            <6>2. i + 1 = 1 /\ i \in Nat \ {0}
              BY <2>11, <4>3, <5>1
            <6>3. QED BY <6>2
          <5>3. m.n = clientWindow
            <6>1. Flow[1] = Head(Flow)
              BY <2>1, TailFacts
            <6>2. QED BY <2>1, <4>2, <5>1, <6>1
          <5>4. cWindow' = clientWindow' /\ cCount' = cWindow'
            BY <2>2, <2>8, <4>5, <5>3
          <5>5. Synced'
            BY <2>5, <2>6, <4>5 DEF Synced
          <5>6. Count(toServer', "ack") = 0
            <6>1. cCount = 0 /\ \A i \in DOMAIN toServer : toServer[i].k # "ack"
              BY <4>2 DEF Unasked
            <6>2. Count(toServer, "ack") = 0
              BY <6>1, FlowTypes, CountType
            <6>3. QED BY <2>7, <6>1, <6>2
          <5>7. window' + Later' = 1 + (cWindow' - cCount') + Len(Flow') + cWindow' * Count(toServer', "ack")
            <6>1. cWindow' * 0 = 0 /\ cWindow' - cCount' = 0
              BY <2>2, <3>2, <5>4
            <6> DEFINE l == Len(Flow)
            <6>2. l \in Nat /\ window + Later = l - 1 + 1 /\ Len(Flow') = l - 1
              BY <2>1, <4>2, <5>1
            <6> HIDE DEF l
            <6>3. window + Later = 1 + 0 + (l - 1) + 0
              BY <6>2
            <6>4. QED BY <2>2, <2>9, <5>6, <6>1, <6>2, <6>3
          <5>8. cCount' \in 1 .. cWindow'
            BY <2>2, <3>2, <5>4
          <5>9. QED BY <4>4, <5>2, <5>4, <5>5, <5>7, <5>8 DEF OnItsWay, Counting
        <4>6. CASE m.k # "setack"
          <5>1. Unasked'
            BY <2>10, <4>2, <4>6
          <5>2. j # 1 /\ j - 1 \in SetAckAt(Flow)'
            BY <2>11, <4>1, <4>6
          <5>3. \A i \in SetAckAt(Flow)' : window' + Later' = Len(Flow') - i + 1 /\ Flow'[i].n = clientWindow'
            <6>1. TAKE i \in SetAckAt(Flow)'
            <6>2. i + 1 = j /\ i \in Nat /\ Flow'[i] = Flow[i + 1]
              BY <2>11, <4>3
            <6> DEFINE l == Len(Flow)
            <6>3. l \in Nat /\ window + Later = l - j + 1 /\ Len(Flow') = l - 1
              BY <2>1, <4>2
            <6> HIDE DEF l
            <6>4. window + Later = (l - 1) - i + 1
              BY <6>2, <6>3
            <6>5. QED BY <2>2, <2>9, <4>2, <6>2, <6>3, <6>4
          <5>4. QED BY <4>4, <5>1, <5>2, <5>3 DEF OnItsWay, Counting
        <4>7. QED BY <4>5, <4>6
      <3>5. QED BY <3>3, <3>4
    <2>14. generation = 0 \/ generation = 1
      BY DEF TypeOK
    <2>15. QED BY <2>12, <2>13, <2>14
  \* The first message is SET_ACK, and the window was opened before; the others follow it.
  <1>PushItemAcks.
        ASSUME CountLaws, TypeOK, Shape, Acknowledging, PushItem
        PROVE  Acknowledging'
    <2> USE <1>PushItemAcks
    <2> DEFINE item == Head(pipe)
               msgs == Messages(item)
    <2>1. /\ connected /\ sending = <<>> /\ Later = 0 /\ ~waiting_for_ack /\ pipe # <<>> /\ item \in PipeItem /\ item = pipe[1]
          /\ pipe \in Seq(PipeItem)
          /\ UNCHANGED <<channel, connected, clientGen, clientWindow, opened, toServer, recvq, cWindow, cCount>>
      BY PushItemFacts
    <2>2. 1 \in DOMAIN pipe
      BY <2>1
    <2>3. SUFFICES ASSUME HandleAcks PROVE Acknowledging'
      BY <2>1 DEF Acknowledging, HandleAcks
    <2>4. clientWindow \in Nat /\ 0 < clientWindow /\ 2 * clientWindow + 2 < Word /\ Word \in Nat /\ window \in Nat
      <3>1. clientWindow \in Windows
        BY DEF TypeOK
      <3>2. QED BY <3>1, ThisKind, FlowTypes
    <2>5. window <= 2 * clientWindow
      <3>1. (2 * clientWindow) % Word = 2 * clientWindow
        BY <2>4
      <3>2. ~(window > 2 * clientWindow)
        BY <2>1, <2>3, <3>1 DEF waiting_for_ack, WaitForAck
      <3>3. QED BY <2>4, <3>2
    <2>6. CASE item.k \in {"marker", "oldmarker"}
      <3>1. UNCHANGED <<sendq, sending, window, ping, sentBytes, generation>>
        BY <2>6, PushItemFacts
      <3>2. Aside
        BY <2>1, <3>1, CarriedAlong DEF Aside
      <3>3. QED BY <3>2, <1>AsideAcks
    <2>7. CASE item.k \notin {"marker", "oldmarker"}
      <3> DEFINE from == IF item.k = "setack" THEN 0 ELSE window
      <3>1. /\ Flow' = Flow \o msgs /\ Flow \in Seq(Sent)
            /\ (HandleAcks /\ from + Len(msgs) < Word) => window' + Later' = from + Len(msgs)
        BY <2>7, PushItemFlow, Zenon
      <3>2. generation' = IF item.k = "setack" THEN (generation + 1) % Word ELSE generation
        BY <2>7, PushItemFacts
      <3>3. /\ msgs \in Seq(Sent) /\ Len(msgs) \in 1 .. 2
            /\ item.k = "setack" => msgs = <<Msg("setack", clientWindow)>>
            /\ item.k # "setack" => \A i \in DOMAIN msgs : msgs[i].k # "setack"
        BY <2>1, <2>7, MessagesFacts, Zenon
      <3>4. /\ Flow' \in Seq(Sent) /\ Len(Flow') = Len(Flow) + Len(msgs) /\ Len(Flow) \in Nat
            /\ DOMAIN Flow' = 1 .. Len(Flow) + Len(msgs)
            /\ \A i \in 1 .. Len(Flow) : Flow'[i] = Flow[i]
            /\ \A i \in 1 .. Len(msgs) : Flow'[Len(Flow) + i] = msgs[i]
            /\ \A i \in DOMAIN Flow' : i \in 1 .. Len(Flow) \/ \E j \in 1 .. Len(msgs) : i = Len(Flow) + j
        <4>1. Flow \in Seq(Sent) /\ msgs \in Seq(Sent) /\ Flow' = Flow \o msgs
          BY <3>1, <3>3, Zenon
        <4>2. Len(Flow) \in Nat
          BY <4>1
        <4> HIDE DEF msgs
        <4>3. /\ Flow \o msgs \in Seq(Sent) /\ Len(Flow \o msgs) = Len(Flow) + Len(msgs)
              /\ DOMAIN (Flow \o msgs) = 1 .. Len(Flow) + Len(msgs)
              /\ \A i \in 1 .. Len(Flow) : (Flow \o msgs)[i] = Flow[i]
              /\ \A i \in 1 .. Len(msgs) : (Flow \o msgs)[Len(Flow) + i] = msgs[i]
              /\ \A i \in DOMAIN (Flow \o msgs) : i \in 1 .. Len(Flow) \/ \E j \in 1 .. Len(msgs) : i = Len(Flow) + j
          BY <4>1, Joined
        <4>4. QED BY <4>1, <4>2, <4>3, Zenon
      <3>5. CASE item.k = "setack"
        <4>1. generation = 0 /\ generation' = 1
          <5>1. generation = 0
            BY <2>1, <2>2, <3>5 DEF Shape
          <5>2. (0 + 1) % Word = 1
            BY <2>4
          <5>3. QED BY <3>2, <3>5, <5>1, <5>2
        <4>2. SetAckAt(Flow) = {} /\ Unasked
          BY <2>1, <2>3, <4>1 DEF Acknowledging
        <4>3. opened
          <5>1. SUFFICES ASSUME ~opened PROVE FALSE
            OBVIOUS
          <5>2. window = Word - 1
            BY <2>3, <5>1 DEF Shape
          <5>3. QED BY <2>4, <2>5, <5>2
        <4>4. Len(msgs) = 1 /\ msgs[1] = Msg("setack", clientWindow)
          BY <3>3, <3>5
        <4>5. window' + Later' = 1
          <5>1. from + Len(msgs) = 1 /\ 1 < Word
            BY <2>4, <3>5, <4>4
          <5>2. HandleAcks /\ ((HandleAcks /\ from + Len(msgs) < Word) => window' + Later' = from + Len(msgs))
            BY <2>3, <3>1, Zenon
          <5> HIDE DEF from, msgs
          <5>3. QED BY <5>1, <5>2
        <4>6. SetAckAt(Flow)' = {Len(Flow) + 1} /\ Flow'[Len(Flow) + 1].n = clientWindow /\ Len(Flow') = Len(Flow) + 1
          <5> DEFINE l == Len(Flow)
                     f == Flow'
          <5>1. /\ l \in Nat /\ DOMAIN f = 1 .. l + 1 /\ Len(f) = l + 1
                /\ \A i \in 1 .. l : f[i] = Flow[i]
                /\ f[l + 1] = Msg("setack", clientWindow)
                /\ \A i \in DOMAIN f : i \in 1 .. l \/ i = l + 1
            <6>1. 1 \in 1 .. 1 /\ \A j \in 1 .. 1 : j = 1
              OBVIOUS
            <6> HIDE DEF msgs
            <6>2. QED BY <3>4, <4>4, <6>1
          <5>2. DOMAIN Flow = 1 .. l
            BY <3>1
          <5>3. \A i \in 1 .. l : Flow[i].k # "setack"
            BY <4>2, <5>2 DEF SetAckAt
          <5>4. f[l + 1].k = "setack" /\ f[l + 1].n = clientWindow
            BY <5>1 DEF Msg
          <5>5. SetAckAt(Flow)' = {j \in DOMAIN f : f[j].k = "setack"}
            BY DEF SetAckAt
          <5> HIDE DEF l, f
          <5>6. l + 1 \in 1 .. l + 1
            BY <5>1
          <5>7. SetAckAt(Flow)' = {l + 1}
            BY <5>1, <5>3, <5>4, <5>5, <5>6
          <5>8. QED BY <5>1, <5>4, <5>7 DEF l, f
        <4>7. Unasked'
          BY <2>1, <4>2 DEF Unasked
        <4>8. OnItsWay'
          <5>1. 1 = (Len(Flow) + 1) - (Len(Flow) + 1) + 1
            BY <3>4
          <5>2. QED BY <2>1, <4>5, <4>6, <4>7, <5>1 DEF OnItsWay
        <4>9. Counting'
          BY <4>6 DEF Counting
        <4>10. AckOrder'
          BY <4>7 DEF AckOrder, Unasked
        <4>11. window' + Later' <= 2 * clientWindow' + 2
          BY <2>1, <2>4, <4>5
        <4>12. QED BY <2>1, <4>1, <4>3, <4>8, <4>9, <4>10, <4>11 DEF Acknowledging
      <3>6. CASE item.k # "setack"
        <4>1. generation = 1 /\ generation' = 1
          <5>1. generation = 0 \/ generation = 1
            BY DEF TypeOK
          <5>2. generation # 0
            BY <2>1, <2>3, <3>6 DEF Shape
          <5>3. QED BY <3>2, <3>6, <5>1, <5>2
        <4>2. opened /\ OnItsWay /\ Counting /\ AckOrder
          BY <2>1, <2>3, <4>1 DEF Acknowledging
        <4> DEFINE l == Len(Flow)
                   n == Len(msgs)
        <4>3. SetAckAt(Flow)' = SetAckAt(Flow) /\ \A j \in SetAckAt(Flow) : j \in 1 .. l /\ Flow'[j] = Flow[j]
          <5>1. SetAckAt(Flow)' = SetAckAt(Flow \o msgs)
            BY <3>1 DEF SetAckAt
          <5>2. Flow \in Seq(Sent) /\ msgs \in Seq(Sent) /\ Flow' = Flow \o msgs /\ \A i \in DOMAIN msgs : msgs[i].k # "setack"
            BY <3>1, <3>3, <3>6, Zenon
          <5> HIDE DEF msgs
          <5>3. QED BY <5>1, <5>2, SetAckJoined
        <4>4. l \in Nat /\ n \in 1 .. 2 /\ Len(Flow') = l + n
          BY <3>3, <3>4, Zenon
        <4>5. window' + Later' = window + n
          <5>1. from = window
            BY <3>6
          <5>2. from + n < Word
            <6> HIDE DEF n
            <6>1. QED BY <2>4, <2>5, <4>4, <5>1
          <5>3. QED BY <2>3, <3>1, <5>1, <5>2, Zenon
        <4> HIDE DEF l, n
        <4>6. OnItsWay'
          <5>1. SUFFICES ASSUME NEW j \in SetAckAt(Flow)
                         PROVE  window' + Later' = Len(Flow') - j + 1 /\ Flow'[j].n = clientWindow' /\ Unasked'
            BY <4>3 DEF OnItsWay
          <5>2. window + Later = Len(Flow) - j + 1 /\ Flow[j].n = clientWindow /\ Unasked /\ j \in 1 .. l
            BY <4>2, <4>3 DEF OnItsWay
          <5>3. Unasked'
            BY <2>1, <5>2 DEF Unasked
          <5>4. window = l - j + 1
            BY <2>1, <2>4, <5>2 DEF l
          <5>5. window + n = (l + n) - j + 1
            BY <4>4, <5>2, <5>4
          <5>6. QED BY <2>1, <4>3, <4>4, <4>5, <5>2, <5>3, <5>5
        <4>7. Counting'
          <5>1. SUFFICES ASSUME SetAckAt(Flow) = {}
                         PROVE  /\ cWindow' = clientWindow' /\ cCount' \in 1 .. cWindow' /\ Synced'
                                /\ window' + Later' = 1 + (cWindow' - cCount') + Len(Flow') + cWindow' * Count(toServer', "ack")
            BY <4>3 DEF Counting
          <5> DEFINE x == cWindow * Count(toServer, "ack")
          <5>2. /\ cWindow = clientWindow /\ cCount \in 1 .. cWindow /\ Synced
                /\ window + Later = 1 + (cWindow - cCount) + l + x
            BY <4>2, <5>1 DEF Counting, l
          <5>3. x \in Nat
            <6>1. Count(toServer, "ack") \in Nat
              BY FlowTypes, CountType
            <6>2. QED BY <2>4, <5>2, <6>1, Distributes
          <5>4. x = cWindow' * Count(toServer', "ack")
            BY <2>1
          <5> HIDE DEF x
          <5>5. window + n = 1 + (cWindow - cCount) + (l + n) + x
            BY <2>1, <2>4, <4>4, <5>2, <5>3
          <5>6. Synced'
            BY <2>1, <5>2 DEF Synced
          <5>7. QED BY <2>1, <4>4, <4>5, <5>2, <5>4, <5>5, <5>6
        <4>8. AckOrder'
          BY <2>1, <4>2 DEF AckOrder
        <4>9. window' + Later' <= 2 * clientWindow' + 2
          <5>1. window + n <= 2 * clientWindow + 2
            BY <2>4, <2>5, <4>4
          <5>2. QED BY <2>1, <4>5, <5>1
        <4>10. QED BY <2>1, <4>1, <4>2, <4>6, <4>7, <4>8, <4>9 DEF Acknowledging
      <3>7. QED BY <3>5, <3>6
    <2>8. QED BY <2>6, <2>7
  <1> SUFFICES ASSUME CountLaws, TypeOK, Shape, Acknowledging, [Next]_vars PROVE Acknowledging'
    OBVIOUS
  <1>1. CASE Elsewhere
    BY <1>1, ElsewhereKeeps, <1>AsideAcks
  <1>2. CASE StillThere
    <2>1. UNCHANGED <<channel, connected, recvq, toServer, cWindow, cCount, generation, clientGen, clientWindow, opened, sendq, window>>
      BY <1>2 DEF StillThere, ConnectivityTimer, WaitTimeout, ackVars, clientVars
    <2>2. sending' = sending \/ connected' = FALSE
      BY <1>2 DEF StillThere, ConnectivityTimer, WaitTimeout, Disconnected
    <2>3. CASE sending' = sending
      <3>1. Aside
        BY <2>1, <2>3, CarriedAlong DEF Aside
      <3>2. QED BY <3>1, <1>AsideAcks
    <2>4. CASE connected' = FALSE
      BY <2>4 DEF Acknowledging
    <2>5. QED BY <2>2, <2>3, <2>4, Zenon
  <1>3. CASE Gone
    <2>1. connected' = FALSE
      BY <1>3 DEF Gone, Disconnected
    <2>2. QED BY <2>1 DEF Acknowledging
  <1>4. CASE ClientSend
    <2>1. ~HandleAcks /\ channel' = channel
      BY <1>4 DEF ClientSend, serverVars
    <2>2. QED BY <2>1 DEF Acknowledging, HandleAcks
  <1>5. QED BY <1>1, <1>2, <1>3, <1>4, StepKinds, <1>PushItemAcks, <1>ZeroAcks, <1>ReceiveAckAcks, <1>ReceiveOtherAcks, <1>ClientReadAcks

\* pipe_item_get takes the first item; sending it may put one in its place.
LEMMA TakeKept ==
  ASSUME CountLaws, NEW p \in Seq(PipeItem), p # <<>>, NEW e, e = <<>> \/ (e = <<Item("data")>> /\ p[1].k = "data")
  PROVE  LET q == e \o Tail(p)
         IN  /\ q \in Seq(PipeItem)
             /\ Foremost(p) => \A i \in DOMAIN q : q[i].k # "setack"
             /\ Marked(p) => Marked(q)
             /\ Unmarked(p) => Unmarked(q)
             /\ (Marked(p) /\ p[1].k = "marker") => Unmarked(q) /\ \A i \in DOMAIN p : ~p[i].target
  <1> DEFINE q == e \o Tail(p)
             n == Len(p)
             t == Tail(p)
  <1>1. t \in Seq(PipeItem) /\ Len(t) = n - 1 /\ n \in Nat \ {0} /\ \A i \in 1 .. n - 1 : t[i] = p[i + 1]
    BY TailFacts, Zenon
  <1>2. DOMAIN p = 1 .. n /\ DOMAIN t = 1 .. n - 1
    BY <1>1
  <1>d. Item("data") \in PipeItem /\ Item("data").k = "data" /\ ~Item("data").target
    BY DEF Item, PipeItem, ItemKinds
  <1>3. /\ q \in Seq(PipeItem)
        /\ \/ DOMAIN q = 1 .. n - 1 /\ \A i \in 1 .. n - 1 : q[i] = p[i + 1]
           \/ p[1].k = "data" /\ DOMAIN q = 1 .. n /\ q[1] = Item("data") /\ \A i \in 2 .. n : q[i] = p[i]
    <2>1. CASE e = <<>>
      <3>1. q = t
        <4>1. t \in Seq(PipeItem)
          BY <1>1
        <4> HIDE DEF t
        <4>2. <<>> \o t = t
          BY <4>1, WithNothing, Zenon
        <4>3. QED BY <2>1, <4>2 DEF t
      <3> HIDE DEF q
      <3>2. QED BY <1>1, <1>2, <3>1
    <2>2. CASE e = <<Item("data")>> /\ p[1].k = "data"
      <3>1. e \in Seq(PipeItem) /\ t \in Seq(PipeItem) /\ Len(e) = 1 /\ e[1] = Item("data")
        BY <1>1, <1>d, <2>2
      <3> HIDE DEF t
      <3>2. /\ q \in Seq(PipeItem) /\ DOMAIN q = 1 .. 1 + Len(t)
            /\ \A i \in 1 .. 1 : q[i] = e[i]
            /\ \A i \in 1 .. Len(t) : q[1 + i] = t[i]
        <4>1. /\ e \o t \in Seq(PipeItem) /\ DOMAIN (e \o t) = 1 .. Len(e) + Len(t)
              /\ \A i \in 1 .. Len(e) : (e \o t)[i] = e[i]
              /\ \A i \in 1 .. Len(t) : (e \o t)[Len(e) + i] = t[i]
          <5>1. e \in Seq(PipeItem) /\ t \in Seq(PipeItem)
            BY <3>1
          <5>2. QED BY <5>1, Joined
        <4>2. q = e \o t
          BY DEF t
        <4> HIDE DEF q
        <4>3. QED BY <3>1, <4>1, <4>2
      <3> HIDE DEF q, n
      <3>3. 1 + Len(t) = n /\ 1 \in 1 .. 1
        BY <1>1
      <3>4. ASSUME NEW i \in 2 .. n PROVE q[i] = p[i]
        <4>1. i - 1 \in 1 .. n - 1 /\ 1 + (i - 1) = i /\ (i - 1) + 1 = i
          BY <1>1
        <4>2. q[1 + (i - 1)] = t[i - 1] /\ t[i - 1] = p[(i - 1) + 1]
          BY <1>1, <3>2, <4>1
        <4>3. QED BY <4>1, <4>2
      <3>5. QED BY <2>2, <3>1, <3>2, <3>3, <3>4
    <2>3. QED BY <2>1, <2>2
  <1> HIDE DEF q, n, t
  <1> USE DEF Foremost, Marked, Unmarked
  <1>4. CASE DOMAIN q = 1 .. n - 1 /\ \A i \in 1 .. n - 1 : q[i] = p[i + 1]
    <2>1. \A i \in 1 .. n - 1 : i + 1 \in 1 .. n /\ i + 1 # 1 /\ i \in Nat
      BY <1>1
    <2>2. 1 \in 1 .. n /\ \A i \in 1 .. n : ~(i < 1)
      BY <1>1
    <2>3. \A i, j \in 1 .. n - 1 : (i + 1 < j + 1 => i < j) /\ (i + 1 = j + 1 => i = j)
      BY <1>1
    <2>4. Foremost(p) => \A i \in DOMAIN q : q[i].k # "setack"
      BY <1>2, <1>4, <2>1
    <2>5. Marked(p) => Marked(q)
      BY <1>2, <1>4, <2>1, <2>3
    <2>6. Unmarked(p) => Unmarked(q)
      BY <1>2, <1>4, <2>1
    <2>7. (Marked(p) /\ p[1].k = "marker") => Unmarked(q) /\ \A i \in DOMAIN p : ~p[i].target
      BY <1>2, <1>4, <2>1, <2>2
    <2>8. QED BY <1>3, <2>4, <2>5, <2>6, <2>7, Zenon DEF q, t
  <1>5. CASE p[1].k = "data" /\ DOMAIN q = 1 .. n /\ q[1] = Item("data") /\ \A i \in 2 .. n : q[i] = p[i]
    <2>1. \A i \in 1 .. n : i = 1 \/ (i \in 2 .. n /\ i # 1 /\ q[i] = p[i])
      BY <1>1, <1>5
    <2>2. \A i \in 1 .. n : q[i].k # "setack" \/ q[i] = p[i]
      BY <1>5, <1>d, <2>1
    <2>3. Foremost(p) => \A i \in DOMAIN q : q[i].k # "setack"
      BY <1>2, <1>5, <1>d, <2>1
    <2>4. Marked(p) => Marked(q)
      BY <1>2, <1>5, <1>d, <2>1
    <2>5. Unmarked(p) => Unmarked(q)
      BY <1>2, <1>5, <1>d, <2>1
    <2>6. QED BY <1>3, <1>5, <2>3, <2>4, <2>5, Zenon DEF q, t
  <1>6. QED BY <1>3, <1>4, <1>5, Zenon

-----------------------------------------------------------------------------
(* An item is taken from the pipe *)

\* The events of the watch are READ and WRITE.
LEMMA MaskTypes ==
  /\ \A e \in SUBSET {"read", "write"} : Masked(e) \subseteq {"read", "write"}
  /\ mask \subseteq {"read", "write"} => MaskForAdd \subseteq {"read", "write"} /\ MaskAfterPush \subseteq {"read", "write"}
  BY DEF Masked, MaskForAdd, MaskAfterPush

\* connectivity_timer and a timeout that do not disconnect.
LEMMA StillKeeps ==
  ASSUME TypeOK, StillThere
  PROVE  /\ Aside /\ UNCHANGED <<connected, mask, blockRead, loop, sending, hasTimer, ping, recvq, sendq, peer, flushWait, added>>
         /\ WaitTimeout => UNCHANGED <<monitor, gotBytes, sentBytes>>
  <1>1. UNCHANGED <<channel, blockRead, loop, window, ackVars, flushWait, ping, sendq, toServer, clientVars, added>>
    BY DEF StillThere, ConnectivityTimer, WaitTimeout
  <1> USE <1>1
  <1>2. /\ UNCHANGED <<connected, mask, sending, hasTimer>>
        /\ WaitTimeout => UNCHANGED <<monitor, gotBytes, sentBytes>>
    <2>1. CASE ConnectivityTimer /\ ~WaitTimeout
      <3>1. ~Dead
        BY <2>1 DEF StillThere, ConnectivityTimer, Disconnected, Idle
      <3>2. QED BY <2>1, <3>1 DEF ConnectivityTimer
    <2>2. CASE WaitTimeout
      <3>1. ~(wait = "all" /\ connected)
        BY <2>2 DEF StillThere, WaitTimeout, Disconnected
      <3>2. QED BY <2>2, <3>1 DEF WaitTimeout
    <2>3. QED BY <2>1, <2>2 DEF StillThere
  <1> USE <1>2
  <1>3. UNCHANGED <<channel, recvq, sendq, sending, window>>
    BY DEF clientVars
  <1>4. Aside
    BY <1>3, CarriedAlong DEF Aside, ackVars, clientVars
  <1>5. QED BY <1>4 DEF clientVars

\* send_any_item: the item at the head of the pipe goes, another may take its place.
Taken(extra) ==
  /\ extra = <<>> \/ (extra = <<Item("data")>> /\ pipe[1].k = "data" /\ added < MaxItems)
  /\ pipe' = extra \o Tail(pipe) /\ added' = added + Len(extra)
  /\ mask' = IF extra # <<>> /\ Tail(pipe) = <<>> THEN Masked({"read", "write"}) ELSE mask
  /\ marked' = (marked \/ pipe[1].k = "marker")
  /\ flushWait' = flushWait \/ flushWait' = (flushWait \/ pipe[1].k = "migrate")

\* The item that goes is the one at the head.
LEMMA PushItemTakes == ASSUME CountLaws, TypeOK, PushItem PROVE \E extra : Taken(extra)
  <1>1. Head(pipe) = pipe[1] /\ marked \in BOOLEAN
    BY PushItemFacts DEF TypeOK
  <1> USE <1>1
  <1>2. PICK extra \in Extra(Head(pipe)) :
          /\ pipe' = extra \o Tail(pipe) /\ added' = added + Len(extra)
          /\ mask' = IF extra # <<>> /\ Tail(pipe) = <<>> THEN Masked({"read", "write"}) ELSE mask
          /\ IF Head(pipe).k \in {"marker", "oldmarker"}
             THEN marked' = (marked \/ Head(pipe).k = "marker") /\ flushWait' = flushWait
             ELSE flushWait' = (flushWait \/ Head(pipe).k = "migrate") /\ marked' = marked
    BY Zenon DEF PushItem
  <1>3. extra = <<>> \/ (extra = <<Item("data")>> /\ pipe[1].k = "data" /\ added < MaxItems)
    BY <1>2 DEF Extra
  <1>4. /\ marked' = (marked \/ pipe[1].k = "marker")
        /\ flushWait' = flushWait \/ flushWait' = (flushWait \/ pipe[1].k = "migrate")
    <2>1. CASE Head(pipe).k \in {"marker", "oldmarker"}
      BY <1>2, <2>1
    <2>2. CASE Head(pipe).k \notin {"marker", "oldmarker"}
      BY <1>2, <2>2
    <2>3. QED BY <2>1, <2>2
  <1>5. Taken(extra)
    BY <1>2, <1>3, <1>4 DEF Taken
  <1>6. QED BY <1>5

\* send_any_item keeps the types; SET_ACK is sent once.
LEMMA PushItemTypes == ASSUME CountLaws, TypeOK, Shape, PushItem PROVE TypeOK'
  <1>0. Scalars /\ Queues
    BY TypeParts
  <1> USE <1>0
  <1> DEFINE item == Head(pipe)
  <1>1. /\ item = pipe[1] /\ item \in PipeItem /\ pipe \in Seq(PipeItem) /\ pipe # <<>>
        /\ channel' = channel /\ connected' = connected /\ blockRead' = blockRead /\ loop' = loop
        /\ clientGen' = clientGen /\ clientWindow' = clientWindow /\ opened' = opened /\ hasTimer' = hasTimer
        /\ monitor' = monitor /\ gotBytes' = gotBytes /\ wait' = wait /\ toServer' = toServer /\ recvq' = recvq
        /\ cWindow' = cWindow /\ cCount' = cCount /\ peer' = peer
    BY PushItemFacts
  <1>2. PICK extra : Taken(extra)
    BY PushItemTakes
  <1> USE <1>2
  <1>3. added' \in 0 .. MaxItems
    <2>1. added \in 0 .. MaxItems /\ MaxItems \in Nat /\ MaxItems' = MaxItems
      BY <1>1, ThisKind DEF Scalars, MaxItems
    <2>2. Len(extra) = 0 \/ (Len(extra) = 1 /\ added < MaxItems)
      BY DEF Taken
    <2>3. added' = added + Len(extra)
      BY DEF Taken
    <2>4. added' = added + 0 \/ (added' = added + 1 /\ added < MaxItems)
      BY <2>2, <2>3, Zenon
    <2>5. QED BY <2>1, <2>4
  <1>4. mask' \subseteq {"read", "write"} /\ marked' \in BOOLEAN /\ flushWait' \in BOOLEAN
    BY MaskTypes, Zenon DEF Taken, Scalars
  <1>5. pipe' \in Seq(PipeItem)
    <2>1. extra = <<>> \/ (extra = <<Item("data")>> /\ pipe[1].k = "data")
      BY DEF Taken
    <2>2. extra \o Tail(pipe) \in Seq(PipeItem)
      BY <1>1, <2>1, TakeKept
    <2>3. QED BY <2>2 DEF Taken
  <1>6. /\ generation' \in 0 .. 1
        /\ sending' \in Seq(Sent) /\ Len(sending') <= 2 /\ window' \in 0 .. Word - 1
        /\ sendq' \in Seq(Sent) /\ Len(sendq') <= SendCap
        /\ ping' \in {"none", "timer", "warmup", "latency"} /\ sentBytes' \in BOOLEAN
    <2>1. CASE item.k \in {"marker", "oldmarker"}
      <3>1. UNCHANGED <<sendq, sending, window, ping, sentBytes, generation>>
        BY <2>1, PushItemFacts
      <3>2. QED BY <3>1 DEF Scalars, Queues
    <2>2. CASE item.k \notin {"marker", "oldmarker"}
      <3> USE <2>2
      <3> DEFINE msgs == Messages(item)
      <3>1. /\ sendq' \in Seq(Sent) /\ Len(sendq') <= SendCap
            /\ sending' \in Seq(Sent) /\ Len(sending') <= Len(msgs) /\ window' \in 0 .. Word - 1
            /\ ping' = ping \/ (ping \in {"none", "timer"} /\ ping' \in {"none", "timer"})
            /\ sentBytes' \in {sentBytes, SentSome}
        BY PushItemFlow
      <3> USE <3>1
      <3>2. Len(msgs) \in 1 .. 2
        BY <1>1, MessagesFacts
      <3>3. Len(sending') <= 2
        <4>1. \A l, m : m \in 1 .. 2 /\ l \in Nat /\ l <= m => l <= 2
          OBVIOUS
        <4>2. Len(sending') \in Nat
          OBVIOUS
        <4>3. QED BY <3>2, <4>1, <4>2, Zenon
      <3>4. sentBytes' \in BOOLEAN
        <4>1. SentSome \in BOOLEAN /\ sentBytes \in BOOLEAN
          BY DEF Scalars, SentSome
        <4>2. QED BY <4>1
      <3>5. generation' \in 0 .. 1
        <4>1. generation' = IF item.k = "setack" THEN (generation + 1) % Word ELSE generation
          BY PushItemFacts
        <4>2. CASE item.k = "setack"
          <5>1. generation = 0
            BY <1>1, <4>2 DEF Shape
          <5>2. clientWindow \in Nat /\ 2 * clientWindow + 2 < Word /\ Word \in Nat
            BY ThisKind DEF Scalars
          <5>3. (0 + 1) % Word = 1
            BY <5>2
          <5>4. QED BY <4>1, <4>2, <5>1, <5>3
        <4>3. CASE item.k # "setack"
          BY <4>1, <4>3 DEF Scalars
        <4>4. QED BY <4>2, <4>3
      <3>6. ping' \in {"none", "timer", "warmup", "latency"}
        BY DEF Scalars
      <3>7. QED BY <3>3, <3>4, <3>5, <3>6
    <2>3. QED BY <2>1, <2>2
  <1> HIDE DEF item
  <1>7. Scalars'
    BY <1>1, <1>3, <1>4, <1>6 DEF Scalars, Windows, MaxItems
  <1>8. Queues'
    BY <1>1, <1>5, <1>6 DEF Queues, SendCap, RecvCap
  <1>9. QED BY <1>7, <1>8, TypeParts

\* handle_message takes a message: what it leaves alone.
LEMMA TakeTypes ==
  ASSUME CountLaws, TypeOK, NEW m, Take(m)
  PROVE  /\ m \in Received /\ toServer' \in Seq(Received) /\ gotBytes' \in BOOLEAN /\ m = toServer[1] /\ 1 \in DOMAIN toServer
         /\ channel' = channel /\ connected' = connected /\ blockRead' = blockRead /\ pipe' = pipe
         /\ generation' = generation /\ clientWindow' = clientWindow /\ opened' = opened /\ hasTimer' = hasTimer
         /\ monitor' = monitor /\ wait' = wait /\ marked' = marked /\ recvq' = recvq /\ cWindow' = cWindow
         /\ cCount' = cCount /\ peer' = peer /\ added' = added
  <1>1. m \in Received /\ toServer' \in Seq(Received) /\ m = toServer[1] /\ Len(toServer) \in Nat \ {0} /\ DOMAIN toServer = 1 .. Len(toServer)
    BY TakeFacts
  <1>2. 1 \in DOMAIN toServer
    BY <1>1
  <1>3. gotBytes' \in BOOLEAN
    BY DEF Take, TypeOK
  <1>4. QED BY <1>1, <1>2, <1>3 DEF Take, waitVars, clientVars

\* The client's steps leave the server alone.
LEMMA ServerKept ==
  ASSUME UNCHANGED serverVars
  PROVE  /\ channel' = channel /\ connected' = connected /\ mask' = mask /\ blockRead' = blockRead /\ pipe' = pipe
         /\ sending' = sending /\ loop' = loop /\ window' = window /\ generation' = generation /\ clientGen' = clientGen
         /\ clientWindow' = clientWindow /\ opened' = opened /\ flushWait' = flushWait /\ ping' = ping
         /\ hasTimer' = hasTimer /\ monitor' = monitor /\ gotBytes' = gotBytes /\ sentBytes' = sentBytes
         /\ wait' = wait /\ marked' = marked /\ added' = added
  BY DEF serverVars, watchVars, ackVars, pingVars, monVars, waitVars

\* When it does, the item waited for has been written.
LEMMA MarkerLast ==
  CountLaws /\ ChannelInductive /\ ~marked /\ marked' /\ [Next]_vars => sending = <<>> /\ \A i \in DOMAIN pipe : ~pipe[i].target
  \* Only the marker's leaving the pipe sets item_sent.
  <1>MarkedByMarker.
        ASSUME CountLaws, TypeOK, ~marked, marked', [Next]_vars
        PROVE  PushItem
    <2> USE <1>MarkedByMarker
    <2>1. SUFFICES ASSUME ~PushItem PROVE marked' => marked
      OBVIOUS
    <2>2. CASE Elsewhere
      <3>1. marked' = marked \/ ~marked'
        BY <2>2, Zenon DEF Elsewhere, WriteEvent, PushEnd, RemoveItem, Migrate, AddItem, PingTimer, StartMonitoring, BlockRead, UnblockRead,
                    StartWaitItem, WaitPush, WaitSend, WaitDone, StartWait, NetMove, PeerStops, vars, serverVars, waitVars
      <3>2. QED BY <3>1, Zenon
    <2>3. CASE StillThere \/ Gone
      BY <2>3, Zenon DEF StillThere, Gone, ConnectivityTimer, ConnectionLost, WaitTimeout, waitVars
    <2>4. CASE ZeroWindow
      BY <2>4 DEF ZeroWindow, waitVars
    <2>5. CASE ReceiveAck \/ ReceiveOther
      BY <2>5, Zenon DEF ReceiveAck, ReceiveOther, Take, waitVars
    <2>6. CASE ClientRead \/ ClientSend
      <3>1. UNCHANGED serverVars
        BY <2>6, Zenon DEF ClientRead, ClientSend
      <3>2. QED BY <3>1, ServerKept, Zenon
    <2>7. QED BY <2>1, <2>2, <2>3, <2>4, <2>5, <2>6, StepKinds
  <1> SUFFICES ASSUME CountLaws, ChannelInductive, ~marked, marked', [Next]_vars PROVE sending = <<>> /\ \A i \in DOMAIN pipe : ~pipe[i].target
    OBVIOUS
  <1>1. TypeOK /\ Marking
    BY DEF ChannelInductive
  <1> USE <1>1
  <1>2. PushItem
    BY <1>MarkedByMarker
  <1>3. sending = <<>> /\ pipe \in Seq(PipeItem) /\ pipe # <<>>
    BY <1>2, PushItemFacts
  <1>4. PICK extra : Taken(extra)
    BY <1>2, PushItemTakes
  <1>5. pipe[1].k = "marker" /\ (extra = <<>> \/ (extra = <<Item("data")>> /\ pipe[1].k = "data"))
    BY <1>4, Zenon DEF Taken
  <1>6. Marked(pipe)
    BY MarkingParts
  <1>7. \A i \in DOMAIN pipe : ~pipe[i].target
    BY <1>3, <1>5, <1>6, TakeKept, Zenon
  <1>8. QED BY <1>3, <1>7
=============================================================================
