-------------------------- MODULE ChannelPipeProofs --------------------------
(***************************************************************************)
(* The invariant of one connection of a channel (ChannelClient), what it   *)
(* says about the window, the watch and the timers, and what every step    *)
(* does to the pipe, for every kind of channel and every size of window    *)
(* and socket buffer.  That every step keeps the invariant is shown in     *)
(* ChannelAckProofs and ChannelClientProofs.                               *)
(***************************************************************************)
EXTENDS ChannelClient, TLAPS

PipeItem == [k : ItemKinds, target : BOOLEAN]

Sent     == [k : MsgKinds, n : Nat]

Received == [k : ReplyKinds, n : Nat]

-----------------------------------------------------------------------------
(* Sequences *)

\* Nothing put before or behind a sequence.
LEMMA WithNothing == ASSUME NEW S, NEW q \in Seq(S) PROVE q \o <<>> = q /\ <<>> \o q = q
  OBVIOUS

\* Writing stops anywhere in the messages of an item: what is written and what is left are the
\* messages, in order.
LEMMA Split ==
  ASSUME NEW S, NEW s \in Seq(S), NEW n \in 0 .. Len(s)
  PROVE  /\ SubSeq(s, 1, n) \in Seq(S) /\ SubSeq(s, n + 1, Len(s)) \in Seq(S)
         /\ Len(SubSeq(s, 1, n)) = n /\ Len(SubSeq(s, n + 1, Len(s))) = Len(s) - n
         /\ \A i \in 1 .. n : SubSeq(s, 1, n)[i] = s[i]
         /\ \A i \in 1 .. Len(s) - n : SubSeq(s, n + 1, Len(s))[i] = s[n + i]
         /\ SubSeq(s, 1, n) \o SubSeq(s, n + 1, Len(s)) = s
  <1> DEFINE a == SubSeq(s, 1, n)
             b == SubSeq(s, n + 1, Len(s))
  <1>1. a \in Seq(S) /\ Len(a) = n /\ \A i \in 1 .. n : a[i] = s[i]
    OBVIOUS
  <1>2. b \in Seq(S) /\ Len(b) = Len(s) - n /\ \A i \in 1 .. Len(s) - n : b[i] = s[n + i]
    OBVIOUS
  <1>3. a \o b = s
    <2> DEFINE l == Len(s)
    <2>1. l \in Nat /\ n \in Nat /\ n <= l /\ DOMAIN s = 1 .. l /\ Len(b) = l - n /\ \A i \in 1 .. l - n : b[i] = s[n + i]
      BY <1>2
    <2> HIDE DEF a, b, l
    <2>2. a \o b \in Seq(S) /\ Len(a \o b) = l /\ DOMAIN (a \o b) = 1 .. l
      <3>1. a \in Seq(S) /\ b \in Seq(S)
        BY <1>1, <1>2, Zenon
      <3>2. a \o b \in Seq(S) /\ Len(a \o b) = Len(a) + Len(b) /\ DOMAIN (a \o b) = 1 .. Len(a) + Len(b)
        BY <3>1
      <3>3. Len(a) + Len(b) = l
        BY <1>1, <2>1
      <3>4. QED BY <3>2, <3>3, Zenon
    <2>3. ASSUME NEW i \in 1 .. l PROVE (a \o b)[i] = s[i]
      <3>1. CASE i <= n
        BY <1>1, <1>2, <2>1, <3>1
      <3>2. CASE ~(i <= n)
        <4>1. (a \o b)[i] = b[i - n] /\ i - n \in 1 .. l - n
          BY <1>1, <1>2, <2>1, <3>2
        <4>2. b[i - n] = s[n + (i - n)] /\ n + (i - n) = i
          BY <2>1, <4>1
        <4>3. QED BY <4>1, <4>2
      <3>3. QED BY <3>1, <3>2, Zenon
    <2>4. QED BY <2>1, <2>2, <2>3
  <1>4. QED BY <1>1, <1>2, <1>3, Zenon

\* What is at a position of two sequences put together.
LEMMA Joined ==
  ASSUME NEW S, NEW s \in Seq(S), NEW t \in Seq(S)
  PROVE  /\ s \o t \in Seq(S) /\ Len(s \o t) = Len(s) + Len(t) /\ DOMAIN (s \o t) = 1 .. Len(s) + Len(t)
         /\ \A i \in 1 .. Len(s) : (s \o t)[i] = s[i]
         /\ \A i \in 1 .. Len(t) : (s \o t)[Len(s) + i] = t[i]
         /\ \A i \in DOMAIN (s \o t) : i \in 1 .. Len(s) \/ \E j \in 1 .. Len(t) : i = Len(s) + j
  <1>1. s \o t \in Seq(S) /\ Len(s \o t) = Len(s) + Len(t) /\ DOMAIN (s \o t) = 1 .. Len(s) + Len(t)
    OBVIOUS
  <1>2. \A i \in DOMAIN (s \o t) : i \in 1 .. Len(s) \/ \E j \in 1 .. Len(t) : i = Len(s) + j
    <2>1. SUFFICES ASSUME NEW i \in 1 .. Len(s) + Len(t), i \notin 1 .. Len(s)
                   PROVE  \E j \in 1 .. Len(t) : i = Len(s) + j
      BY <1>1
    <2>2. i - Len(s) \in 1 .. Len(t) /\ i = Len(s) + (i - Len(s))
      BY <2>1
    <2>3. QED BY <2>2, Zenon
  <1>3. QED BY <1>1, <1>2

\* What counting the messages of a kind needs of cardinalities; proved in
\* ChannelClientProofs (CountingHolds) from the theorems about finite sets.
CountLaws ==
  /\ \A S : \A s \in Seq(S) : \A kind : Count(s, kind) \in Nat /\ (Count(s, kind) = 0 <=> \A j \in DOMAIN s : s[j].k # kind)
  /\ \A S : \A s, t \in Seq(S) : \A kind : Count(s \o t, kind) = Count(s, kind) + Count(t, kind)
  /\ \A m, kind : Count(<<m>>, kind) = IF m.k = kind THEN 1 ELSE 0
  /\ \A kind : Count(<<>>, kind) = 0

\* Counting in a sequence.
LEMMA CountType ==
  ASSUME CountLaws, NEW S, NEW s \in Seq(S), NEW kind
  PROVE  Count(s, kind) \in Nat /\ (Count(s, kind) = 0 <=> \A j \in DOMAIN s : s[j].k # kind)
  BY Zenon DEF CountLaws

\* Counting in two sequences put together.
LEMMA CountJoined ==
  ASSUME CountLaws, NEW S, NEW s \in Seq(S), NEW t \in Seq(S), NEW kind
  PROVE  Count(s \o t, kind) = Count(s, kind) + Count(t, kind)
  BY DEF CountLaws

\* Counting in one element.
LEMMA CountOne ==
  ASSUME CountLaws, NEW m, NEW kind
  PROVE  /\ Count(<<m>>, kind) = IF m.k = kind THEN 1 ELSE 0
         /\ Count(<<>>, kind) = 0
  BY Zenon DEF CountLaws

\* A sequence is its first element and the rest.
LEMMA TailFacts ==
  ASSUME CountLaws, NEW S, NEW s \in Seq(S), s # <<>>
  PROVE  /\ Head(s) \in S /\ Head(s) = s[1] /\ Tail(s) \in Seq(S) /\ Len(Tail(s)) = Len(s) - 1 /\ Len(s) \in Nat \ {0}
         /\ \A i \in 1 .. Len(s) - 1 : Tail(s)[i] = s[i + 1]
         /\ <<Head(s)>> \o Tail(s) = s
         /\ \A kind : Count(s, kind) = Count(<<Head(s)>>, kind) + Count(Tail(s), kind)
  <1>1. /\ Head(s) \in S /\ Head(s) = s[1] /\ Tail(s) \in Seq(S) /\ Len(Tail(s)) = Len(s) - 1 /\ Len(s) \in Nat \ {0}
        /\ \A i \in 1 .. Len(s) - 1 : Tail(s)[i] = s[i + 1]
    OBVIOUS
  <1>2. <<Head(s)>> \o Tail(s) = s
    OBVIOUS
  <1>3. <<Head(s)>> \in Seq(S)
    BY <1>1
  <1>4. \A kind : Count(<<Head(s)>> \o Tail(s), kind) = Count(<<Head(s)>>, kind) + Count(Tail(s), kind)
    BY <1>1, <1>3, CountJoined, Zenon
  <1>5. QED BY <1>1, <1>2, <1>4, Zenon

-----------------------------------------------------------------------------
(* The inductive invariant *)

\* Everything begun or about to be, oldest first; and the main message that follows an urgent
\* one, which is not counted before it is begun.
Flow  == Path \o sending

Later == IF Len(sending) = 2 THEN 1 ELSE 0

\* The second of two messages is the main one.  A connection that is gone has nothing to send.
\* SET_ACK is the first item of the pipe until it is begun, and that is after the window was
\* opened.  ACK_SYNC carries the generation of the only SET_ACK.
Shape ==
  /\ Len(sending) = 2 => sending[2].k = "data"
  /\ ~connected => pipe = <<>> /\ sending = <<>>
  /\ \A i \in DOMAIN pipe : pipe[i].k = "setack" => i = 1 /\ generation = 0
  /\ \A i \in DOMAIN toServer : toServer[i].k = "sync" => toServer[i].n = 1
  /\ (HandleAcks /\ ~opened) => generation = 0 /\ window = Word - 1
  /\ (HandleAcks /\ connected /\ generation = 0) => pipe # <<>> /\ pipe[1].k = "setack" /\ sending = <<>>

\* The client has not seen SET_ACK.
Unasked ==
  /\ cWindow = 0 /\ cCount = 0 /\ clientGen = Unsynced
  /\ \A i \in DOMAIN toServer : toServer[i].k \notin {"ack", "sync"}

\* SET_ACK is on its way: the window counts it and what follows it.
OnItsWay ==
  \A j \in SetAckAt(Flow) :
     /\ window + Later = Len(Flow) - j + 1 /\ Flow[j].n = clientWindow
     /\ Unasked

\* ACK_SYNC was received, or will be.
Synced == clientGen = 1 \/ \E i \in DOMAIN toServer : toServer[i].k = "sync"

\* The client has seen SET_ACK: the window is the messages on their way, those the client has
\* counted and not acknowledged, and those of the ACKs on their way.
Counting ==
  SetAckAt(Flow) = {} =>
     /\ cWindow = clientWindow /\ cCount \in 1 .. cWindow /\ Synced
     /\ window + Later = 1 + (cWindow - cCount) + Len(Flow) + cWindow * Count(toServer, "ack")

\* No ACK is received before ACK_SYNC, so none is ignored.
AckOrder ==
  \A j \in DOMAIN toServer : toServer[j].k = "ack" =>
     clientGen = 1 \/ \E i \in 1 .. j - 1 : toServer[i].k = "sync"

Acknowledging ==
  (connected /\ HandleAcks) =>
    /\ generation = 0 => SetAckAt(Flow) = {} /\ Unasked
    /\ generation = 1 =>
         /\ opened /\ window + Later <= 2 * clientWindow + 2
         /\ OnItsWay /\ Counting /\ AckOrder

\* The watch asks for WRITE while there is something to write, unless an ack is awaited.
Watching == (connected /\ (Blocked \/ pipe # <<>>) /\ "write" \notin mask) => waiting_for_ack

\* The PINGs of the test in progress.
Tested(p) == CASE p = "warmup" -> 2 [] p = "latency" -> 1 [] OTHER -> 0

Pinging == connected => Count(pipe, "ping") + Count(Flow, "ping") + Count(toServer, "pong") = Tested(ping)

\* What the connectivity monitor saw still holds unless bytes went through.
Monitoring ==
  /\ monitor # "off" => Monitored
  /\ connected => /\ (monitor = "blocked" /\ ~gotBytes /\ ~sentBytes) => Blocked
                  /\ (monitor = "wait_pong" /\ ~gotBytes) => ConnTested

\* The marker is behind the item waited for, and neither outlives the wait.
Marking ==
  /\ \A i, j \in DOMAIN pipe : (pipe[i].k = "marker" /\ pipe[j].target) => j < i
  /\ \A i, j \in DOMAIN pipe : (pipe[i].k = "marker" /\ pipe[j].k = "marker") => i = j
  /\ (wait # "item" \/ marked) => \A i \in DOMAIN pipe : pipe[i].k # "marker" /\ ~pipe[i].target

ChannelInductive == TypeOK /\ Shape /\ Acknowledging /\ Watching /\ Pinging /\ Monitoring /\ Marking

-----------------------------------------------------------------------------
(* The kinds of a channel and of its steps *)

\* What the assumption says of this channel.
LEMMA ThisKind ==
  ASSUME TypeOK
  PROVE  /\ Word \in Nat /\ MaxPipe \in Nat /\ SendCap \in Nat /\ RecvCap \in Nat /\ MaxItems \in Nat
         /\ HandleAcks \in BOOLEAN /\ Monitored \in BOOLEAN /\ HasPing \in BOOLEAN
         /\ Monitored => ~HandleAcks
         /\ \A w \in Windows : w \in Nat /\ 0 < w /\ 2 * w + 2 < Word
  BY ChannelAssumption DEF TypeOK, SendCap, RecvCap, MaxItems, HandleAcks, Monitored, HasPing, Windows

\* The steps of the server that begin no message and receive none, and the network's.
Elsewhere ==
  \/ WriteEvent \/ PushEnd \/ RemoveItem \/ Migrate
  \/ \E kind \in {"data", "list"}, how \in {"add", "push", "next"} : AddItem(kind, how)
  \/ PingTimer \/ StartMonitoring \/ BlockRead \/ UnblockRead
  \/ StartWaitItem \/ WaitPush \/ WaitSend \/ WaitDone
  \/ \E w \in {"outgoing", "all"} : StartWait(w)
  \/ NetMove \/ \E how \in {"hung", "closed"} : PeerStops(how)
  \/ UNCHANGED vars

\* The connectivity timer and the end of a wait, when they do not disconnect.
StillThere == (ConnectivityTimer \/ WaitTimeout) /\ connected' = connected

\* The connection is closed.
Gone == (ConnectivityTimer \/ ConnectionLost \/ WaitTimeout) /\ Disconnected

\* All the steps.
LEMMA StepKinds ==
  ASSUME [Next]_vars
  PROVE  \/ Elsewhere \/ StillThere \/ Gone
         \/ PushItem \/ ZeroWindow \/ ReceiveAck \/ ReceiveOther \/ ClientRead \/ ClientSend
  <1>1. ASSUME ConnectivityTimer PROVE StillThere \/ Gone
    BY <1>1 DEF StillThere, Gone, ConnectivityTimer
  <1>2. ASSUME WaitTimeout PROVE StillThere \/ Gone
    BY <1>2 DEF StillThere, Gone, WaitTimeout
  <1>3. ASSUME ConnectionLost PROVE Gone
    BY <1>3 DEF Gone, ConnectionLost
  <1>4. QED BY <1>1, <1>2, <1>3 DEF Next, Server, Environment, Elsewhere

\* The types of the messages on their way.
LEMMA FlowTypes ==
  ASSUME TypeOK
  PROVE  /\ sendq \in Seq(Sent) /\ recvq \in Seq(Sent) /\ sending \in Seq(Sent) /\ Flow \in Seq(Sent)
         /\ Len(sending) \in 0 .. 2 /\ Len(sendq) <= SendCap /\ Later \in 0 .. 1
         /\ sending = <<>> <=> Len(sending) = 0
         /\ Len(Flow) = Len(recvq) + Len(sendq) + Len(sending)
         /\ window \in 0 .. Word - 1 /\ toServer \in Seq(Received) /\ pipe \in Seq(PipeItem)
  <1>1. /\ sendq \in Seq(Sent) /\ recvq \in Seq(Sent) /\ sending \in Seq(Sent) /\ Len(sending) <= 2 /\ Len(sendq) <= SendCap
        /\ window \in 0 .. Word - 1 /\ toServer \in Seq(Received) /\ pipe \in Seq(PipeItem)
    BY DEF TypeOK, Sent, Received, PipeItem
  <1> USE <1>1
  <1>2. Path \in Seq(Sent) /\ Len(Path) = Len(recvq) + Len(sendq)
    BY DEF Path
  <1>3. Flow \in Seq(Sent) /\ Len(Flow) = Len(Path) + Len(sending)
    <2>1. Path \in Seq(Sent) /\ sending \in Seq(Sent)
      BY <1>2
    <2>2. QED BY <2>1, Joined DEF Flow
  <1>4. Len(sending) \in Nat /\ (sending = <<>> <=> Len(sending) = 0)
    OBVIOUS
  <1>5. Len(sending) \in 0 .. 2
    <2>1. Len(sending) \in Nat /\ Len(sending) <= 2
      BY <1>4, Zenon
    <2>2. \A x \in Nat : x <= 2 => x \in 0 .. 2
      OBVIOUS
    <2>3. QED BY <2>1, <2>2, Zenon
  <1>6. Later \in 0 .. 1
    BY DEF Later
  <1>7. QED BY <1>2, <1>3, <1>4, <1>5, <1>6

-----------------------------------------------------------------------------
(* The pipe *)

\* SET_ACK is nowhere but at the head of the pipe; it is at the head.
Foremost(p) == \A i \in DOMAIN p : p[i].k = "setack" => i = 1

Led(p)      == p # <<>> /\ p[1].k = "setack"

\* The marker is behind the item waited for; there is neither.
Marked(p)   == /\ \A i, j \in DOMAIN p : (p[i].k = "marker" /\ p[j].target) => j < i
               /\ \A i, j \in DOMAIN p : (p[i].k = "marker" /\ p[j].k = "marker") => i = j

Unmarked(p) == \A i \in DOMAIN p : p[i].k # "marker" /\ ~p[i].target

\* An item like any other.
Plain(e) == e \in PipeItem /\ e.k \notin {"setack", "marker"} /\ ~e.target

\* The pipe changes and its head, the marker and the item waited for keep their order.
Kept(p, q) ==
  /\ q \in Seq(PipeItem) /\ (Foremost(p) => Foremost(q) /\ (Led(q) <=> Led(p)))
  /\ (Marked(p) => Marked(q)) /\ (Unmarked(p) => Unmarked(q))

\* q is s with e at position i.
WithItem(q, s, i, e) ==
  /\ Len(q) = Len(s) + 1 /\ q[i] = e
  /\ \A j \in 1 .. i - 1 : q[j] = s[j]
  /\ \A j \in i + 1 .. Len(s) + 1 : q[j] = s[j - 1]
  /\ \A kind : Count(q, kind) = Count(s, kind) + Count(<<e>>, kind)

\* q is s without its item at position i.
WithoutItem(q, s, i) ==
  /\ Len(q) = Len(s) - 1
  /\ \A j \in 1 .. i - 1 : q[j] = s[j]
  /\ \A j \in i .. Len(s) - 1 : q[j] = s[j + 1]
  /\ \A kind : Count(s, kind) = Count(q, kind) + Count(<<s[i]>>, kind)

\* What the steps that begin no message do to the pipe.
Piped ==
  /\ pipe' \in Seq(PipeItem)
  /\ Foremost(pipe) => Foremost(pipe') /\ (Led(pipe') <=> Led(pipe))
  /\ Count(pipe', "ping") = Count(pipe, "ping") + (IF PingTimer /\ sendq = <<>> THEN 2 ELSE 0)
  /\ connected \/ (pipe = <<>> => pipe' = <<>>)
  /\ (pipe = <<>> /\ pipe' # <<>>) => "write" \in mask'
  /\ Marking => Marking'

\* Marking, of the pipe.
LEMMA MarkingParts == Marking <=> Marked(pipe) /\ ((wait # "item" \/ marked) => Unmarked(pipe))
  BY DEF Marking, Marked, Unmarked

\* ... and after a step.
LEMMA MarkingNext == Marking' <=> Marked(pipe') /\ ((wait' # "item" \/ marked') => Unmarked(pipe'))
  BY DEF Marking, Marked, Unmarked

\* Masked keeps WRITE.
LEMMA MaskedWrites == "write" \in Masked({"read", "write"}) /\ Masked({"read", "write"}) \subseteq {"read", "write"}
  BY DEF Masked

\* The steps that begin no message.
LEMMA PipeStep ==
  CountLaws /\ TypeOK /\ Marking /\ (Elsewhere \/ StillThere) => Piped
  \* The sequences over a set, as functions.
  <1>SequencesOver. \A S : Seq(S) = UNION {[1 .. n -> S] : n \in Nat}
    OBVIOUS
  \* The same, cut before a position.
  <1>SplitAt.
        ASSUME NEW S, NEW s \in Seq(S), NEW n \in 1 .. Len(s) + 1
        PROVE  /\ SubSeq(s, 1, n - 1) \in Seq(S) /\ SubSeq(s, n, Len(s)) \in Seq(S)
               /\ Len(SubSeq(s, 1, n - 1)) = n - 1 /\ Len(SubSeq(s, n, Len(s))) = Len(s) - (n - 1)
               /\ \A i \in 1 .. n - 1 : SubSeq(s, 1, n - 1)[i] = s[i]
               /\ \A i \in 1 .. Len(s) - (n - 1) : SubSeq(s, n, Len(s))[i] = s[(n - 1) + i]
               /\ SubSeq(s, 1, n - 1) \o SubSeq(s, n, Len(s)) = s
    <2> USE <1>SplitAt
    <2>1. PICK m \in 0 .. Len(s) : n = m + 1
      <3>1. n - 1 \in 0 .. Len(s) /\ n = (n - 1) + 1
        OBVIOUS
      <3>2. QED BY <3>1
    <2>2. n - 1 = m
      BY <2>1
    <2>3. /\ SubSeq(s, 1, m) \in Seq(S) /\ SubSeq(s, m + 1, Len(s)) \in Seq(S)
          /\ Len(SubSeq(s, 1, m)) = m /\ Len(SubSeq(s, m + 1, Len(s))) = Len(s) - m
          /\ \A i \in 1 .. m : SubSeq(s, 1, m)[i] = s[i]
          /\ \A i \in 1 .. Len(s) - m : SubSeq(s, m + 1, Len(s))[i] = s[m + i]
          /\ SubSeq(s, 1, m) \o SubSeq(s, m + 1, Len(s)) = s
      BY Split, Zenon
    <2>4. QED BY <2>1, <2>2, <2>3, Zenon
  \* The pipe after an item was put at a position (pipe_add, pipe_add_after_pos).
  <1>InsertedFacts.
        ASSUME CountLaws, NEW S, NEW s \in Seq(S), NEW i \in 1 .. Len(s) + 1, NEW e \in S
        PROVE  Inserted(s, i, e) \in Seq(S) /\ WithItem(Inserted(s, i, e), s, i, e)
    <2> USE <1>InsertedFacts
    <2> DEFINE a == SubSeq(s, 1, i - 1)
               b == SubSeq(s, i, Len(s))
    <2>1. i - 1 \in 0 .. Len(s) /\ (i - 1) + 1 = i
      OBVIOUS
    <2>2. /\ a \in Seq(S) /\ b \in Seq(S) /\ Len(a) = i - 1 /\ Len(b) = Len(s) - (i - 1) /\ a \o b = s
          /\ \A j \in 1 .. i - 1 : a[j] = s[j]
          /\ \A j \in 1 .. Len(s) - (i - 1) : b[j] = s[(i - 1) + j]
      BY <1>SplitAt, Zenon
    <2> HIDE DEF a, b
    <2>3. <<e>> \in Seq(S) /\ a \o <<e>> \in Seq(S)
      BY <2>2
    <2>4. Inserted(s, i, e) = (a \o <<e>>) \o b
      BY DEF Inserted, a, b
    <2> DEFINE c == a \o <<e>>
    <2>c. c \in Seq(S) /\ Len(c) = i /\ c[i] = e /\ \A j \in 1 .. i - 1 : c[j] = a[j]
      <3>1. /\ c \in Seq(S) /\ Len(c) = Len(a) + 1
            /\ \A j \in 1 .. Len(a) + 1 : c[j] = IF j <= Len(a) THEN a[j] ELSE <<e>>[j - Len(a)]
        BY <2>2, <2>3
      <3> HIDE DEF c
      <3>2. Len(a) + 1 = i /\ <<e>>[i - Len(a)] = e /\ ~(i <= Len(a)) /\ i \in 1 .. Len(a) + 1
        BY <2>2
      <3>3. QED BY <2>2, <3>1, <3>2
    <2>d. /\ c \o b \in Seq(S) /\ Len(c \o b) = i + Len(b)
          /\ \A j \in 1 .. i + Len(b) : (c \o b)[j] = IF j <= i THEN c[j] ELSE b[j - i]
      <3> HIDE DEF c
      <3>1. QED BY <2>2, <2>c
    <2>5. /\ (a \o <<e>>) \o b \in Seq(S) /\ Len((a \o <<e>>) \o b) = Len(s) + 1
          /\ \A j \in 1 .. i - 1 : ((a \o <<e>>) \o b)[j] = a[j]
          /\ ((a \o <<e>>) \o b)[i] = e
          /\ \A j \in i + 1 .. Len(s) + 1 : ((a \o <<e>>) \o b)[j] = b[j - i]
      <3>1. c \o b = (a \o <<e>>) \o b
        OBVIOUS
      <3> HIDE DEF c
      <3>2. i + Len(b) = Len(s) + 1
        BY <2>2
      <3>3. QED BY <2>c, <2>d, <3>1, <3>2
    <2>6. \A j \in i + 1 .. Len(s) + 1 : b[j - i] = s[j - 1]
      <3>1. SUFFICES ASSUME NEW j \in i + 1 .. Len(s) + 1
                     PROVE  b[j - i] = s[j - 1]
        BY Zenon
      <3>2. j - i \in 1 .. Len(s) - (i - 1) /\ (i - 1) + (j - i) = j - 1
        BY <3>1
      <3>3. QED BY <2>2, <3>2, Zenon
    <2>7. \A kind : Count((a \o <<e>>) \o b, kind) = Count(s, kind) + Count(<<e>>, kind)
      <3>1. TAKE kind
      <3>2. /\ Count((a \o <<e>>) \o b, kind) = Count(a \o <<e>>, kind) + Count(b, kind)
            /\ Count(a \o <<e>>, kind) = Count(a, kind) + Count(<<e>>, kind)
            /\ Count(a \o b, kind) = Count(a, kind) + Count(b, kind)
        <4> DEFINE c1 == a \o <<e>>
                   e1 == <<e>>
        <4>a. a \in Seq(S) /\ b \in Seq(S) /\ e1 \in Seq(S) /\ c1 \in Seq(S)
          BY <2>2, <2>3
        <4>b. c1 = a \o e1
          OBVIOUS
        <4> HIDE DEF e1, c1
        <4>c. /\ Count(c1 \o b, kind) = Count(c1, kind) + Count(b, kind)
              /\ Count(a \o e1, kind) = Count(a, kind) + Count(e1, kind)
              /\ Count(a \o b, kind) = Count(a, kind) + Count(b, kind)
          BY <4>a, CountJoined
        <4>d. QED BY <4>b, <4>c DEF c1, e1
      <3>3. Count(a, kind) \in Nat /\ Count(b, kind) \in Nat /\ Count(<<e>>, kind) \in Nat
        BY <2>2, <2>3, CountType, Zenon
      <3>4. QED BY <2>2, <3>2, <3>3
    <2>8. /\ Inserted(s, i, e) \in Seq(S) /\ Len(Inserted(s, i, e)) = Len(s) + 1
          /\ \A j \in 1 .. i - 1 : Inserted(s, i, e)[j] = s[j]
          /\ Inserted(s, i, e)[i] = e
          /\ \A j \in i + 1 .. Len(s) + 1 : Inserted(s, i, e)[j] = s[j - 1]
          /\ \A kind : Count(Inserted(s, i, e), kind) = Count(s, kind) + Count(<<e>>, kind)
      BY <2>2, <2>4, <2>5, <2>6, <2>7, Zenon
    <2>9. QED BY <2>8, Zenon DEF WithItem
  \* The pipe after an item was taken out of it (pipe_remove_and_release).
  <1>WithoutFacts.
        ASSUME CountLaws, NEW S, NEW s \in Seq(S), NEW i \in 1 .. Len(s)
        PROVE  Without(s, i) \in Seq(S) /\ WithoutItem(Without(s, i), s, i)
    <2> USE <1>WithoutFacts
    <2> DEFINE a == SubSeq(s, 1, i - 1)
               b == SubSeq(s, i + 1, Len(s))
               c == SubSeq(s, i, Len(s))
    <2>1. i \in 1 .. Len(s) + 1
      OBVIOUS
    <2>2. /\ a \in Seq(S) /\ c \in Seq(S) /\ Len(a) = i - 1 /\ Len(c) = Len(s) - (i - 1) /\ a \o c = s
          /\ \A j \in 1 .. i - 1 : a[j] = s[j]
          /\ \A j \in 1 .. Len(s) - (i - 1) : c[j] = s[(i - 1) + j]
      BY <2>1, <1>SplitAt, Zenon
    <2>3. /\ b \in Seq(S) /\ Len(b) = Len(s) - i
          /\ \A j \in 1 .. Len(s) - i : b[j] = s[i + j]
      BY Split
    <2>4. c = <<s[i]>> \o b /\ <<s[i]>> \in Seq(S)
      OBVIOUS
    <2>5. Without(s, i) = a \o b
      BY DEF Without
    <2> HIDE DEF a, b, c
    <2>6. /\ a \o b \in Seq(S) /\ Len(a \o b) = Len(s) - 1
          /\ \A j \in 1 .. i - 1 : (a \o b)[j] = a[j]
          /\ \A j \in i .. Len(s) - 1 : (a \o b)[j] = b[j - (i - 1)]
      <3>1. a \in Seq(S) /\ b \in Seq(S) /\ Len(a) = i - 1 /\ Len(b) = Len(s) - i /\ Len(s) \in Nat
        BY <2>2, <2>3
      <3>2. QED BY <3>1
    <2>7. \A j \in i .. Len(s) - 1 : b[j - (i - 1)] = s[j + 1]
      <3>1. TAKE j \in i .. Len(s) - 1
      <3>2. j - (i - 1) \in 1 .. Len(s) - i /\ i + (j - (i - 1)) = j + 1
        OBVIOUS
      <3>3. QED BY <2>3, <3>2
    <2>8. \A kind : Count(s, kind) = Count(a \o b, kind) + Count(<<s[i]>>, kind)
      <3>1. TAKE kind
      <3>2. /\ Count(a \o c, kind) = Count(a, kind) + Count(c, kind)
            /\ Count(<<s[i]>> \o b, kind) = Count(<<s[i]>>, kind) + Count(b, kind)
            /\ Count(a \o b, kind) = Count(a, kind) + Count(b, kind)
        <4> DEFINE e1 == <<s[i]>>
        <4>a. a \in Seq(S) /\ b \in Seq(S) /\ c \in Seq(S) /\ e1 \in Seq(S)
          BY <2>2, <2>3, <2>4
        <4> HIDE DEF e1
        <4>c. /\ Count(a \o c, kind) = Count(a, kind) + Count(c, kind)
              /\ Count(e1 \o b, kind) = Count(e1, kind) + Count(b, kind)
              /\ Count(a \o b, kind) = Count(a, kind) + Count(b, kind)
          BY <4>a, CountJoined
        <4>d. QED BY <4>c DEF e1
      <3>3. Count(a, kind) \in Nat /\ Count(b, kind) \in Nat /\ Count(<<s[i]>>, kind) \in Nat
        BY <2>2, <2>3, <2>4, CountType, Zenon
      <3>4. QED BY <2>2, <2>4, <3>2, <3>3
    <2>9. /\ Without(s, i) \in Seq(S) /\ Len(Without(s, i)) = Len(s) - 1
          /\ \A j \in 1 .. i - 1 : Without(s, i)[j] = s[j]
          /\ \A j \in i .. Len(s) - 1 : Without(s, i)[j] = s[j + 1]
          /\ \A kind : Count(s, kind) = Count(Without(s, i), kind) + Count(<<s[i]>>, kind)
      BY <2>2, <2>5, <2>6, <2>7, <2>8, Zenon
    <2>10. QED BY <2>9, Zenon DEF WithoutItem
  \* The length of a sequence.
  <1>PipeLen.
        ASSUME NEW S, NEW p \in Seq(S)
        PROVE  DOMAIN p = 1 .. Len(p) /\ Len(p) \in Nat /\ (p = <<>> <=> Len(p) = 0)
    <2> USE <1>PipeLen
    <2>1. Len(p) \in Nat /\ DOMAIN p = 1 .. Len(p)
      OBVIOUS
    <2>2. (p = <<>>) <=> Len(p) = 0
      OBVIOUS
    <2>3. QED BY <2>1, <2>2
  \* pipe_add and pipe_add_after_pos.
  <1>InsertKept.
        ASSUME CountLaws, NEW p \in Seq(PipeItem), NEW i \in 1 .. Len(p) + 1, NEW e, Plain(e), Led(p) => i # 1
        PROVE  Kept(p, Inserted(p, i, e)) /\ Inserted(p, i, e) # <<>>
    <2> USE <1>InsertKept
    <2> DEFINE q == Inserted(p, i, e)
               n == Len(p)
    <2>1. e \in PipeItem /\ e.k # "setack" /\ e.k # "marker" /\ ~e.target
      BY DEF Plain
    <2> USE <2>1
    <2>2. /\ q \in Seq(PipeItem) /\ Len(q) = n + 1
          /\ \A j \in 1 .. i - 1 : q[j] = p[j]
          /\ q[i] = e
          /\ \A j \in i + 1 .. n + 1 : q[j] = p[j - 1]
      <3>1. e \in PipeItem
        OBVIOUS
      <3>2. Inserted(p, i, e) \in Seq(PipeItem) /\ WithItem(Inserted(p, i, e), p, i, e)
        BY <3>1, <1>InsertedFacts, Zenon
      <3>3. QED BY <3>2, Zenon DEF WithItem
    <2>3. DOMAIN p = 1 .. n /\ n \in Nat /\ (p = <<>> <=> n = 0)
      BY <1>PipeLen, Zenon
    <2> USE <2>3
    <2> HIDE DEF q, n
    <2>4. DOMAIN q = 1 .. n + 1 /\ q # <<>>
      BY <2>2
    <2> USE <2>4
    <2>i. i \in 1 .. n + 1
      BY DEF n
    <2> USE <2>i
    <2> DEFINE f == [j \in 1 .. n + 1 |-> IF j < i THEN j ELSE j - 1]
    <2>5. \A j \in 1 .. n + 1 : j = i \/ (f[j] \in 1 .. n /\ q[j] = p[f[j]] /\ (f[j] = j \/ (f[j] = j - 1 /\ j > i)) /\ (j < i => f[j] = j))
      <3>1. TAKE j \in 1 .. n + 1
      <3>2. CASE j < i
        <4>1. f[j] = j /\ j \in 1 .. i - 1 /\ j \in 1 .. n
          BY <3>2
        <4>2. QED BY <2>2, <3>2, <4>1
      <3>3. CASE j > i
        <4>1. f[j] = j - 1 /\ j \in i + 1 .. n + 1 /\ j - 1 \in 1 .. n
          BY <3>3
        <4>2. QED BY <2>2, <3>3, <4>1
      <3>4. j = i \/ j < i \/ j > i
        OBVIOUS
      <3>5. QED BY <3>2, <3>3, <3>4, Zenon
    <2> HIDE DEF f
    <2>6. \A j, k \in 1 .. n + 1 : (j # i /\ k # i) => (f[j] < f[k] <=> j < k) /\ (f[j] = f[k] => j = k)
      <3>1. TAKE j, k \in 1 .. n + 1
      <3>2. \A l \in 1 .. n + 1 : l \in Nat
        OBVIOUS
      <3>3. f \in [1 .. n + 1 -> Int] /\ f[j] = (IF j < i THEN j ELSE j - 1) /\ f[k] = (IF k < i THEN k ELSE k - 1)
        BY DEF f
      <3>4. QED BY <3>2, <3>3
    <2>7. ASSUME Foremost(p) PROVE Foremost(q) /\ (Led(q) <=> Led(p))
      <3>1. ASSUME NEW j \in 1 .. n + 1, q[j].k = "setack" PROVE j = 1 /\ p # <<>> /\ p[1].k = "setack" /\ i # 1
        <4> USE <3>1
        <4>1. j # i
          BY <2>2
        <4>2. f[j] \in 1 .. n /\ p[f[j]].k = "setack"
          BY <2>5, <4>1
        <4>3. f[j] = 1
          BY <2>7, <4>2 DEF Foremost
        <4>4. p # <<>> /\ p[1].k = "setack" /\ i # 1
          BY <4>2, <4>3 DEF Led
        <4>5. j = 1
          BY <2>5, <4>1, <4>3, <4>4
        <4>6. QED BY <4>4, <4>5
      <3>2. ASSUME Led(p) PROVE Led(q)
        <4>1. i # 1 /\ 1 \in 1 .. i - 1
          BY <3>2
        <4>2. QED BY <2>2, <3>2, <4>1 DEF Led
      <3>3. ASSUME Led(q) PROVE Led(p)
        <4>1. 1 \in 1 .. n + 1
          OBVIOUS
        <4>2. QED BY <3>1, <3>3, <4>1 DEF Led
      <3>4. QED BY <3>1, <3>2, <3>3 DEF Foremost
    <2>8. ASSUME Marked(p) PROVE Marked(q)
      <3>1. ASSUME NEW j \in 1 .. n + 1, NEW k \in 1 .. n + 1, q[j].k = "marker", q[k].target PROVE k < j
        <4>1. j # i /\ k # i
          BY <2>2, <3>1
        <4>2. f[j] \in 1 .. n /\ f[k] \in 1 .. n /\ p[f[j]].k = "marker" /\ p[f[k]].target
          BY <2>5, <3>1, <4>1
        <4>3. f[k] < f[j]
          BY <2>8, <4>2 DEF Marked
        <4>4. QED BY <2>6, <4>1, <4>3
      <3>2. ASSUME NEW j \in 1 .. n + 1, NEW k \in 1 .. n + 1, q[j].k = "marker", q[k].k = "marker" PROVE j = k
        <4>1. j # i /\ k # i
          BY <2>2, <3>2
        <4>2. f[j] \in 1 .. n /\ f[k] \in 1 .. n /\ p[f[j]].k = "marker" /\ p[f[k]].k = "marker"
          BY <2>5, <3>2, <4>1
        <4>3. f[k] = f[j]
          BY <2>8, <4>2 DEF Marked
        <4>4. QED BY <2>6, <4>1, <4>3
      <3>3. QED BY <3>1, <3>2 DEF Marked
    <2>9. ASSUME Unmarked(p) PROVE Unmarked(q)
      BY <2>2, <2>5, <2>9 DEF Unmarked
    <2>10. QED BY <2>2, <2>7, <2>8, <2>9 DEF Kept, q
  \* The marker and the item waited for were in the pipe before, in the same order: f says where.
  <1>MarksMoved.
        ASSUME NEW p \in Seq(PipeItem), NEW q \in Seq(PipeItem), NEW f,
               \A j \in DOMAIN q : (q[j].k # "marker" /\ ~q[j].target) \/ (f[j] \in DOMAIN p /\ q[j] = p[f[j]]),
               \A j, k \in DOMAIN q : (f[j] < f[k] => j < k) /\ (f[j] = f[k] => j = k)
        PROVE  (Marked(p) => Marked(q)) /\ (Unmarked(p) => Unmarked(q))
    <2> USE <1>MarksMoved
    <2>1. ASSUME Marked(p), NEW i \in DOMAIN q, NEW j \in DOMAIN q, q[i].k = "marker", q[j].target PROVE j < i
      <3>1. f[i] \in DOMAIN p /\ f[j] \in DOMAIN p /\ p[f[i]].k = "marker" /\ p[f[j]].target
        BY <2>1
      <3>2. f[j] < f[i]
        BY <2>1, <3>1 DEF Marked
      <3>3. QED BY <3>2
    <2>2. ASSUME Marked(p), NEW i \in DOMAIN q, NEW j \in DOMAIN q, q[i].k = "marker", q[j].k = "marker" PROVE i = j
      <3>1. f[i] \in DOMAIN p /\ f[j] \in DOMAIN p /\ p[f[i]].k = "marker" /\ p[f[j]].k = "marker"
        BY <2>2
      <3>2. f[j] = f[i]
        BY <2>2, <3>1 DEF Marked
      <3>3. QED BY <3>2
    <2>3. ASSUME Unmarked(p), NEW i \in DOMAIN q PROVE q[i].k # "marker" /\ ~q[i].target
      BY <2>3 DEF Unmarked
    <2>4. QED BY <2>1, <2>2, <2>3, Zenon DEF Marked, Unmarked
  \* pipe_remove_and_release.
  <1>RemoveKept.
        ASSUME CountLaws, NEW p \in Seq(PipeItem), NEW i \in 1 .. Len(p), p[i].k = "data"
        PROVE  Kept(p, Without(p, i))
    <2> USE <1>RemoveKept
    <2> DEFINE q == Without(p, i)
               n == Len(p)
    <2>1. q \in Seq(PipeItem) /\ WithoutItem(q, p, i)
      BY <1>WithoutFacts, Zenon
    <2> USE <2>1
    <2>2. /\ Len(q) = n - 1
          /\ \A j \in 1 .. i - 1 : q[j] = p[j]
          /\ \A j \in i .. n - 1 : q[j] = p[j + 1]
      BY Zenon DEF WithoutItem
    <2>3. DOMAIN p = 1 .. n /\ n \in Nat /\ (p = <<>> <=> n = 0) /\ DOMAIN q = 1 .. Len(q) /\ (q = <<>> <=> Len(q) = 0)
      <3>1. p \in Seq(PipeItem) /\ q \in Seq(PipeItem)
        OBVIOUS
      <3> HIDE DEF q
      <3>2. QED BY <3>1, <1>PipeLen, Zenon
    <2> USE <2>3
    <2>i. i \in 1 .. n
      OBVIOUS
    <2> USE <2>i
    <2> HIDE DEF q, n
    <2>4. DOMAIN q = 1 .. n - 1
      BY <2>2
    <2> USE <2>4
    <2> DEFINE f == [j \in 1 .. n - 1 |-> IF j < i THEN j ELSE j + 1]
    <2>5. \A j \in 1 .. n - 1 : f[j] \in 1 .. n /\ f[j] # i /\ q[j] = p[f[j]]
      <3>1. TAKE j \in 1 .. n - 1
      <3>2. CASE j < i
        <4>1. f[j] = j /\ j \in 1 .. i - 1 /\ j \in 1 .. n
          BY <3>2
        <4>2. QED BY <2>2, <3>2, <4>1
      <3>3. CASE ~(j < i)
        <4>1. f[j] = j + 1 /\ j \in i .. n - 1 /\ j + 1 \in 1 .. n /\ j + 1 # i
          BY <3>3
        <4>2. QED BY <2>2, <4>1
      <3>4. QED BY <3>2, <3>3
    <2>6. \A j, k \in 1 .. n - 1 : (f[j] < f[k] => j < k) /\ (f[j] = f[k] => j = k)
      OBVIOUS
    <2>7. \A j \in 1 .. n - 1 : (f[j] = 1 => j = 1) /\ (1 # i => f[1] = 1)
      OBVIOUS
    <2> HIDE DEF f
    <2>8. (Marked(p) => Marked(q)) /\ (Unmarked(p) => Unmarked(q))
      <3>1. \A j \in DOMAIN q : (q[j].k # "marker" /\ ~q[j].target) \/ (f[j] \in DOMAIN p /\ q[j] = p[f[j]])
        BY <2>5
      <3>2. \A j, k \in DOMAIN q : (f[j] < f[k] => j < k) /\ (f[j] = f[k] => j = k)
        BY <2>6
      <3>3. q \in Seq(PipeItem)
        OBVIOUS
      <3>4. QED BY <3>1, <3>2, <3>3, <1>MarksMoved, Zenon
    <2>9. ASSUME Foremost(p) PROVE Foremost(q) /\ (Led(q) <=> Led(p))
      <3>1. Foremost(q)
        BY <2>5, <2>7, <2>9 DEF Foremost
      <3>2. ASSUME Led(p) PROVE Led(q)
        <4>1. i # 1
          BY <3>2 DEF Led
        <4>2. 1 \in 1 .. n - 1 /\ n - 1 # 0
          BY <4>1
        <4>3. q[1] = p[1] /\ q # <<>>
          BY <2>2, <2>5, <2>7, <4>1, <4>2
        <4>4. QED BY <3>2, <4>3 DEF Led
      <3>3. ASSUME Led(q) PROVE Led(p)
        <4>1. 1 \in 1 .. n - 1
          BY <2>2, <3>3 DEF Led
        <4>2. p[f[1]].k = "setack" /\ f[1] \in 1 .. n
          BY <2>5, <3>3, <4>1 DEF Led
        <4>3. f[1] = 1
          BY <2>9, <4>2 DEF Foremost
        <4>4. QED BY <4>2, <4>3 DEF Led
      <3>4. QED BY <3>1, <3>2, <3>3
    <2>10. QED BY <2>8, <2>9, Zenon DEF Kept, q
  \* Items put behind the others.
  <1>AppendKept.
        ASSUME NEW p \in Seq(PipeItem), NEW r \in Seq(PipeItem), \A i \in DOMAIN r : Plain(r[i])
        PROVE  Kept(p, p \o r)
    <2> USE <1>AppendKept
    <2> DEFINE q == p \o r
               n == Len(p)
               l == Len(r)
    <2>1. /\ q \in Seq(PipeItem) /\ DOMAIN q = 1 .. n + l
          /\ \A i \in 1 .. n : q[i] = p[i]
          /\ \A i \in 1 .. l : q[n + i] = r[i]
          /\ \A i \in DOMAIN q : i \in 1 .. n \/ \E j \in 1 .. l : i = n + j
      BY Joined
    <2>2. DOMAIN p = 1 .. n /\ n \in Nat /\ (p = <<>> <=> n = 0) /\ DOMAIN r = 1 .. l /\ l \in Nat
      <3>1. p \in Seq(PipeItem) /\ r \in Seq(PipeItem)
        OBVIOUS
      <3>2. QED BY <3>1, <1>PipeLen, Zenon
    <2>q. (q = <<>>) <=> (n + l = 0)
      <3>1. q \in Seq(PipeItem) /\ DOMAIN q = 1 .. n + l
        BY <2>1, Zenon
      <3> HIDE DEF q
      <3>2. DOMAIN q = 1 .. Len(q) /\ Len(q) \in Nat /\ (q = <<>> <=> Len(q) = 0)
        BY <3>1, <1>PipeLen, Zenon
      <3> DEFINE k == Len(q)
      <3>3. 1 .. k = 1 .. n + l /\ k \in Nat /\ n + l \in Nat
        BY <2>2, <3>1, <3>2
      <3> HIDE DEF k, n, l
      <3>4. k = n + l
        BY <3>3
      <3>5. QED BY <3>2, <3>4 DEF k
    <2>r. \A i \in 1 .. l : r[i].k # "setack" /\ r[i].k # "marker" /\ ~r[i].target
      BY <2>2 DEF Plain
    <2> HIDE DEF q, n, l
    <2>3. \A i \in 1 .. n + l : (i \in 1 .. n /\ q[i] = p[i]) \/ (i \notin 1 .. n /\ q[i].k # "setack" /\ q[i].k # "marker" /\ ~q[i].target)
      <3>1. TAKE i \in 1 .. n + l
      <3>2. CASE i \in 1 .. n
        BY <2>1, <3>2
      <3>3. CASE i \notin 1 .. n
        <4>1. PICK j \in 1 .. l : i = n + j
          BY <2>1, <3>3
        <4>2. QED BY <2>1, <2>r, <3>3, <4>1
      <3>4. QED BY <3>2, <3>3
    <2>4. (Marked(p) => Marked(q)) /\ (Unmarked(p) => Unmarked(q))
      BY <2>1, <2>2, <2>3, Zenon DEF Marked, Unmarked
    <2>5. ASSUME Foremost(p) PROVE Foremost(q) /\ (Led(q) <=> Led(p))
      <3>1. Foremost(q)
        BY <2>1, <2>2, <2>3, <2>5 DEF Foremost
      <3>2. ASSUME Led(p) PROVE Led(q)
        <4>1. 1 \in 1 .. n /\ n + l # 0
          BY <2>2, <3>2 DEF Led
        <4>2. QED BY <2>1, <2>q, <3>2, <4>1 DEF Led
      <3>3. ASSUME Led(q) PROVE Led(p)
        <4>1. 1 \in 1 .. n + l
          BY <2>2, <2>q, <3>3 DEF Led
        <4>2. 1 \in 1 .. n /\ q[1] = p[1]
          BY <2>3, <3>3, <4>1 DEF Led
        <4>3. QED BY <2>2, <3>3, <4>2 DEF Led
      <3>4. QED BY <3>1, <3>2, <3>3
    <2>6. QED BY <2>1, <2>4, <2>5 DEF Kept, q
  \* pipe_add_after_pos puts the marker behind the item that wait_pipe_item_sent waits for.
  <1>WaitItemMarks.
        ASSUME CountLaws, NEW p \in Seq(PipeItem), NEW i \in 1 .. Len(p), p[i].k = "data", Unmarked(p)
        PROVE  LET q == Inserted([p EXCEPT ![i].target = TRUE], MarkerAt(i), Item("marker"))
               IN  /\ q \in Seq(PipeItem) /\ q # <<>> /\ (Foremost(p) => Foremost(q) /\ (Led(q) <=> Led(p)))
                   /\ Marked(q) /\ Count(q, "ping") = Count(p, "ping")
    <2> USE <1>WaitItemMarks
    <2> DEFINE x == [p EXCEPT ![i].target = TRUE]
               m == Item("marker")
               q == Inserted(x, i + 1, m)
               n == Len(p)
    <2>1. DOMAIN p = 1 .. n /\ n \in Nat /\ p \in [1 .. n -> PipeItem]
      OBVIOUS
    <2> USE <2>1
    <2>2. [p[i] EXCEPT !.target = TRUE] \in PipeItem /\ [p[i] EXCEPT !.target = TRUE].k = p[i].k
      BY Zenon DEF PipeItem
    <2>3. x \in [1 .. n -> PipeItem] /\ (\A j \in 1 .. n : j # i => x[j] = p[j]) /\ x[i] = [p[i] EXCEPT !.target = TRUE]
      BY <2>2
    <2>m. m \in PipeItem /\ m.k = "marker" /\ ~m.target
      BY DEF Item, PipeItem, ItemKinds
    <2> USE <2>m
    <2> HIDE DEF x, m
    <2>4. x \in Seq(PipeItem) /\ Len(x) = n /\ DOMAIN x = 1 .. n
      BY <2>3, <1>SequencesOver
    <2> USE <2>4
    <2>5. \A j \in 1 .. n : x[j].k = p[j].k /\ (j # i => ~x[j].target) /\ x[j].k # "marker"
      BY <2>2, <2>3, Zenon DEF Unmarked
    <2>i. i \in 1 .. n /\ i + 1 \in 1 .. n + 1
      OBVIOUS
    <2> USE <2>i
    <2>6. q \in Seq(PipeItem) /\ WithItem(q, x, i + 1, m)
      <3>1. i + 1 \in 1 .. Len(x) + 1
        OBVIOUS
      <3>2. QED BY <3>1, <1>InsertedFacts, Zenon
    <2> USE <2>6
    <2> HIDE DEF q
    <2>7. /\ Len(q) = n + 1 /\ q[i + 1] = m
          /\ \A j \in 1 .. (i + 1) - 1 : q[j] = x[j]
          /\ \A j \in (i + 1) + 1 .. n + 1 : q[j] = x[j - 1]
          /\ \A kind : Count(q, kind) = Count(x, kind) + Count(<<m>>, kind)
      BY Zenon DEF WithItem
    <2>8. DOMAIN q = 1 .. n + 1 /\ q # <<>>
      BY <2>7
    <2> USE <2>8
    <2> HIDE DEF n
    <2>9. \A j \in 1 .. n + 1 : \/ j = i + 1
                                \/ j \in 1 .. i /\ j \in 1 .. n /\ q[j] = x[j]
                                \/ j \in i + 2 .. n + 1 /\ j - 1 \in 1 .. n /\ j - 1 # i /\ j - 1 # 1 /\ q[j] = x[j - 1]
      <3>1. TAKE j \in 1 .. n + 1
      <3>2. CASE j < i + 1
        <4>1. j \in 1 .. i /\ j \in 1 .. (i + 1) - 1 /\ j \in 1 .. n
          BY <3>2
        <4>2. QED BY <2>7, <4>1
      <3>3. CASE j > i + 1
        <4>1. j \in i + 2 .. n + 1 /\ j \in (i + 1) + 1 .. n + 1 /\ j - 1 \in 1 .. n /\ j - 1 # i /\ j - 1 # 1
          BY <3>3
        <4>2. QED BY <2>7, <4>1
      <3>4. QED BY <3>2, <3>3
    <2>10. Marked(q)
      <3>1. \A j \in 1 .. n + 1 : (q[j].k = "marker" => j = i + 1) /\ (q[j].target => j = i)
        <4>1. TAKE j \in 1 .. n + 1
        <4>2. CASE j = i + 1
          BY <2>7, <4>2, Zenon
        <4>3. CASE j \in 1 .. n /\ q[j] = x[j]
          BY <2>5, <4>3, Zenon
        <4>4. CASE j - 1 \in 1 .. n /\ j - 1 # i /\ q[j] = x[j - 1]
          BY <2>5, <4>4, Zenon
        <4>5. QED BY <2>9, <4>2, <4>3, <4>4, Zenon
      <3>2. i < i + 1
        OBVIOUS
      <3>3. QED BY <3>1, <3>2 DEF Marked
    <2>11. ASSUME Foremost(p) PROVE Foremost(q) /\ (Led(q) <=> Led(p))
      <3>1. \A j \in 1 .. n + 1 : q[j].k = "setack" => j = 1
        <4>1. TAKE j \in 1 .. n + 1
        <4>2. CASE j = i + 1
          BY <2>7, <4>2
        <4>3. CASE j \in 1 .. n /\ q[j] = x[j]
          BY <2>5, <2>11, <4>3, Zenon DEF Foremost
        <4>4. CASE j - 1 \in 1 .. n /\ j - 1 # 1 /\ q[j] = x[j - 1]
          BY <2>5, <2>11, <4>4, Zenon DEF Foremost
        <4>5. QED BY <2>9, <4>2, <4>3, <4>4, Zenon
      <3>2. 1 \in 1 .. (i + 1) - 1 /\ 1 \in 1 .. n /\ p # <<>>
        BY DEF n
      <3>3. q[1].k = p[1].k
        BY <2>5, <2>7, <3>2
      <3>4. QED BY <3>1, <3>2, <3>3 DEF Foremost, Led
    <2>12. Count(q, "ping") = Count(p, "ping")
      <3>1. Count(<<m>>, "ping") = 0
        BY CountOne
      <3>2. {j \in DOMAIN x : x[j].k = "ping"} = {j \in DOMAIN p : p[j].k = "ping"}
        BY <2>5
      <3>3. Count(x, "ping") = Count(p, "ping")
        BY <3>2, Zenon DEF Count
      <3>4. Count(p, "ping") \in Nat
        BY CountType
      <3>5. QED BY <2>7, <3>1, <3>3, <3>4
    <2>13. QED BY <2>10, <2>11, <2>12 DEF q, x, m, MarkerAt
  \* wait_pipe_item_sent gives up: the marker is of no interest any more.
  <1>UnmarkKept.
        ASSUME NEW p \in Seq(PipeItem)
        PROVE  LET q == [i \in DOMAIN p |-> Unmark(p[i])]
               IN  /\ q \in Seq(PipeItem) /\ (q = <<>> <=> p = <<>>)
                   /\ (Foremost(p) => Foremost(q)) /\ (Led(q) <=> Led(p))
                   /\ Unmarked(q) /\ Count(q, "ping") = Count(p, "ping")
    <2> USE <1>UnmarkKept
    <2> DEFINE q == [i \in DOMAIN p |-> Unmark(p[i])]
               n == Len(p)
    <2>1. DOMAIN p = 1 .. n /\ n \in Nat /\ (p = <<>> <=> n = 0)
      BY <1>PipeLen, Zenon
    <2>2. \A j \in 1 .. n : p[j] \in PipeItem
      OBVIOUS
    <2>3. ASSUME NEW e \in PipeItem
          PROVE  /\ Unmark(e) \in PipeItem /\ Unmark(e).k # "marker" /\ ~Unmark(e).target
                 /\ (Unmark(e).k = "setack" <=> e.k = "setack") /\ (Unmark(e).k = "ping" <=> e.k = "ping")
      BY DEF Unmark, PipeItem, ItemKinds
    <2>4. DOMAIN q = 1 .. n /\ \A j \in 1 .. n : q[j] = Unmark(p[j])
      BY <2>1
    <2> HIDE DEF q, n
    <2>5. \A j \in 1 .. n : /\ q[j] \in PipeItem /\ q[j].k # "marker" /\ ~q[j].target
                            /\ (q[j].k = "setack" <=> p[j].k = "setack") /\ (q[j].k = "ping" <=> p[j].k = "ping")
      BY <2>2, <2>3, <2>4 DEF n
    <2>6. q \in [1 .. n -> PipeItem]
      BY <2>1, <2>4, <2>5 DEF q
    <2>7. q \in Seq(PipeItem) /\ Len(q) = n
      BY <2>1, <2>4, <2>6, <1>SequencesOver
    <2>8. (q = <<>>) <=> (p = <<>>)
      <3>1. (q = <<>>) <=> Len(q) = 0
        BY <2>7, <1>PipeLen, Zenon
      <3>2. QED BY <2>1, <2>7, <3>1
    <2>9. Led(q) <=> Led(p)
      <3>1. ASSUME p # <<>> PROVE 1 \in 1 .. n
        BY <2>1, <3>1
      <3>2. QED BY <2>5, <2>8, <3>1 DEF Led
    <2>10. Count(q, "ping") = Count(p, "ping")
      <3>1. {j \in DOMAIN q : q[j].k = "ping"} = {j \in DOMAIN p : p[j].k = "ping"}
        BY <2>1, <2>4, <2>5
      <3>2. QED BY <3>1 DEF Count
    <2>11. (Foremost(p) => Foremost(q)) /\ Unmarked(q)
      BY <2>1, <2>4, <2>5 DEF Foremost, Unmarked
    <2>12. QED BY <2>7, <2>8, <2>9, <2>10, <2>11 DEF q
  \* Items that are neither SET_ACK nor marker nor waited for.
  <1>PlainItems.
        /\ \A k \in ItemKinds \ {"setack", "marker"} : Plain(Item(k)) /\ Item(k).k = k
        /\ {"data", "list", "ping", "migrate"} \subseteq ItemKinds \ {"setack", "marker"}
    BY DEF Plain, Item, PipeItem, ItemKinds
  \* The pipe is left alone.
  <1>SamePipe.
        ASSUME CountLaws, TypeOK, pipe' = pipe, (wait' = wait /\ marked' = marked) \/ wait # "item" \/ marked, wait' # "item" \/ wait' = wait,
               ~PingTimer \/ sendq # <<>>, wait' = wait => marked' = marked
        PROVE  Piped
    <2> USE <1>SamePipe
    <2>1. pipe \in Seq(PipeItem)
      BY FlowTypes
    <2>2. Count(pipe', "ping") = Count(pipe, "ping") + 0
      <3>1. Count(pipe, "ping") \in Nat
        BY <2>1, CountType
      <3>2. QED BY <3>1
    <2>3. Marking => Marking'
      BY DEF Marking
    <2>4. QED BY <2>1, <2>2, <2>3 DEF Piped
  \* An item is put into the pipe.
  <1>AddPiped.
        ASSUME CountLaws, TypeOK, NEW kind \in {"data", "list"}, NEW how \in {"add", "push", "next"}, AddItem(kind, how)
        PROVE  Piped
    <2> USE <1>AddPiped
    <2>1. PICK at \in IF how = "next" THEN {i \in DOMAIN pipe : pipe[i].k = "data"} ELSE {Len(pipe) + 1} :
               pipe' = Inserted(pipe, at, Item(kind))
      BY Zenon DEF AddItem
    <2> USE <2>1
    <2>2. pipe \in Seq(PipeItem)
      BY FlowTypes
    <2> USE <2>2
    <2>3. DOMAIN pipe = 1 .. Len(pipe) /\ Len(pipe) \in Nat /\ (pipe = <<>> <=> Len(pipe) = 0)
      BY <1>PipeLen, Zenon
    <2>4. at \in 1 .. Len(pipe) + 1 /\ (Led(pipe) => at # 1)
      <3>1. CASE how = "next"
        <4>1. at \in DOMAIN pipe /\ pipe[at].k = "data"
          BY <3>1
        <4>2. at # 1 \/ ~Led(pipe)
          BY <4>1 DEF Led
        <4>3. QED BY <2>3, <4>1, <4>2
      <3>2. CASE how # "next"
        <4>1. at = Len(pipe) + 1
          BY <3>2
        <4>2. QED BY <2>3, <4>1 DEF Led
      <3>3. QED BY <3>1, <3>2
    <2>5. Plain(Item(kind)) /\ Item(kind) \in PipeItem /\ Item(kind).k # "ping"
      BY <1>PlainItems DEF Plain
    <2> USE <2>5
    <2>6. Kept(pipe, pipe')
      BY <2>4, <1>InsertKept, Zenon
    <2>7. Count(pipe', "ping") = Count(pipe, "ping")
      <3>1. WithItem(pipe', pipe, at, Item(kind))
        BY <2>4, <1>InsertedFacts, Zenon
      <3>2. Count(pipe', "ping") = Count(pipe, "ping") + Count(<<Item(kind)>>, "ping")
        BY <3>1, Zenon DEF WithItem
      <3>3. Count(<<Item(kind)>>, "ping") = 0
        BY CountOne
      <3>4. Count(pipe, "ping") \in Nat
        BY CountType
      <3>5. QED BY <3>2, <3>3, <3>4
    <2>8. ~PingTimer /\ connected /\ wait' = wait /\ marked' = marked /\ mask' = MaskForAdd
      <3>1. added' = added + 1 /\ added \in Nat
        <4>1. added \in 0 .. MaxItems /\ MaxItems \in Nat
          BY ThisKind, Zenon DEF TypeOK
        <4>2. added' = added + 1
          BY DEF AddItem
        <4>3. QED BY <4>1, <4>2
      <3>2. PingTimer => added' = added
        BY DEF PingTimer
      <3>3. ~PingTimer
        BY <3>1, <3>2
      <3>4. QED BY <3>3, Zenon DEF AddItem, Idle, waitVars
    <2> USE <2>8
    <2>9. pipe = <<>> => "write" \in mask'
      BY MaskedWrites DEF MaskForAdd
    <2>10. Marking => Marking'
      BY <2>6, MarkingParts, MarkingNext, Zenon DEF Kept
    <2>11. Count(pipe, "ping") \in Nat
      BY CountType
    <2>12. Count(pipe', "ping") = Count(pipe, "ping") + (IF PingTimer /\ sendq = <<>> THEN 2 ELSE 0)
      BY <2>7, <2>11
    <2>13. QED BY <2>6, <2>9, <2>10, <2>12, Zenon DEF Piped, Kept
  \* A drawable leaves the pipe.
  <1>RemovePiped.
        ASSUME CountLaws, TypeOK, RemoveItem
        PROVE  Piped
    <2> USE <1>RemovePiped
    <2>1. PICK i \in DOMAIN pipe : pipe[i].k = "data" /\ pipe' = Without(pipe, i)
      BY DEF RemoveItem
    <2> USE <2>1
    <2>2. pipe \in Seq(PipeItem)
      BY FlowTypes
    <2> USE <2>2
    <2>3. DOMAIN pipe = 1 .. Len(pipe) /\ Len(pipe) \in Nat /\ (pipe = <<>> <=> Len(pipe) = 0)
      BY <1>PipeLen, Zenon
    <2>4. i \in 1 .. Len(pipe) /\ pipe # <<>>
      BY <2>3
    <2> USE <2>4
    <2>5. Kept(pipe, pipe')
      BY <1>RemoveKept, Zenon
    <2> USE <2>5
    <2>6. Count(pipe', "ping") = Count(pipe, "ping")
      <3>1. WithoutItem(pipe', pipe, i)
        BY <1>WithoutFacts, Zenon
      <3>2. Count(pipe, "ping") = Count(pipe', "ping") + Count(<<pipe[i]>>, "ping")
        BY <3>1, Zenon DEF WithoutItem
      <3>3. Count(<<pipe[i]>>, "ping") = 0
        BY CountOne
      <3>4. pipe' \in Seq(PipeItem)
        BY DEF Kept
      <3>5. Count(pipe', "ping") \in Nat
        BY <3>4, CountType
      <3>6. QED BY <3>2, <3>3, <3>5
    <2>7. connected /\ wait' = wait /\ marked' = marked /\ ping' = ping
      BY DEF RemoveItem, Idle, waitVars, pingVars
    <2> USE <2>7
    <2>8. ~PingTimer \/ sendq # <<>>
      BY Zenon DEF PingTimer, Unsent
    <2>9. Marking => Marking'
      BY MarkingParts, MarkingNext DEF Kept
    <2>10. Count(pipe, "ping") \in Nat
      BY CountType
    <2>11. QED BY <2>6, <2>8, <2>9, <2>10 DEF Piped, Kept
  \* RedChannelClient::migrate and push_ping put their items behind the others.
  <1>AppendPiped.
        ASSUME CountLaws, TypeOK, Migrate \/ PingTimer
        PROVE  Piped
    <2> USE <1>AppendPiped
    <2>1. pipe \in Seq(PipeItem)
      BY FlowTypes
    <2> USE <2>1
    <2>2. connected /\ wait' = wait /\ marked' = marked /\ Count(pipe, "ping") \in Nat
      <3>1. Count(pipe, "ping") \in Nat
        BY CountType
      <3>2. QED BY <3>1, Zenon DEF Migrate, PingTimer, Idle, waitVars
    <2> USE <2>2
    <2>3. ASSUME NEW r \in Seq(PipeItem), \A i \in DOMAIN r : Plain(r[i]), pipe' = pipe \o r, mask' = MaskForAdd,
                 Count(r, "ping") = IF PingTimer /\ sendq = <<>> THEN 2 ELSE 0
          PROVE  Piped
      <3>1. Kept(pipe, pipe')
        BY <2>3, <1>AppendKept, Zenon
      <3>2. Count(pipe', "ping") = Count(pipe, "ping") + Count(r, "ping")
        BY <2>3, CountJoined
      <3>3. pipe = <<>> => "write" \in mask'
        BY <2>3, MaskedWrites DEF MaskForAdd
      <3>4. Marking => Marking'
        BY <3>1, MarkingParts, MarkingNext DEF Kept
      <3>5. QED BY <2>3, <3>1, <3>2, <3>3, <3>4 DEF Piped, Kept
    <2>4. CASE Migrate
      <3> DEFINE r == <<Item("migrate")>>
      <3>1. Plain(Item("migrate")) /\ Item("migrate") \in PipeItem /\ Item("migrate").k = "migrate"
        BY <1>PlainItems DEF Plain
      <3> USE <3>1
      <3>2. r \in Seq(PipeItem) /\ \A i \in DOMAIN r : Plain(r[i])
        OBVIOUS
      <3>3. Count(r, "ping") = 0
        BY CountOne
      <3>4. pipe' = pipe \o r /\ mask' = MaskForAdd
        <4>1. pipe' = Append(pipe, Item("migrate")) /\ mask' = MaskForAdd
          BY <2>4 DEF Migrate
        <4>2. QED BY <4>1
      <3>5. ~PingTimer
        <4>1. added' = added + 1 /\ added \in Nat
          <5>1. added \in 0 .. MaxItems
            BY DEF TypeOK
          <5>2. QED BY <2>4, <5>1, ThisKind DEF Migrate
        <4>2. PingTimer => added' = added
          BY DEF PingTimer
        <4>3. QED BY <4>1, <4>2
      <3> HIDE DEF r
      <3>6. QED BY <2>3, <3>2, <3>3, <3>4, <3>5
    <2>5. CASE PingTimer /\ sendq = <<>>
      <3> DEFINE e == Item("ping")
                 r == <<e, e>>
      <3>1. Plain(e) /\ e \in PipeItem /\ e.k = "ping"
        BY <1>PlainItems DEF Plain
      <3> USE <3>1
      <3>2. pipe' = pipe \o r /\ mask' = MaskForAdd
        BY <2>5 DEF PingTimer, Unsent
      <3> HIDE DEF e
      <3>3. r \in Seq(PipeItem) /\ \A i \in DOMAIN r : Plain(r[i])
        <4>1. r \in Seq(PipeItem) /\ DOMAIN r = 1 .. 2 /\ r[1] = e /\ r[2] = e
          OBVIOUS
        <4>2. \A i \in 1 .. 2 : i = 1 \/ i = 2
          OBVIOUS
        <4>3. QED BY <4>1, <4>2
      <3>4. Count(r, "ping") = 2
        <4>1. <<e>> \in Seq(PipeItem) /\ r = <<e>> \o <<e>>
          OBVIOUS
        <4>2. Count(<<e>>, "ping") = 1
          BY CountOne
        <4> DEFINE u == <<e>>
        <4>3. u \in Seq(PipeItem) /\ r = u \o u /\ Count(u, "ping") = 1
          BY <4>1, <4>2
        <4> HIDE DEF u, r
        <4>4. Count(u \o u, "ping") = Count(u, "ping") + Count(u, "ping")
          BY <4>3, CountJoined
        <4>5. QED BY <4>3, <4>4
      <3> HIDE DEF r
      <3>5. QED BY <2>3, <2>5, <3>2, <3>3, <3>4
    <2>6. CASE PingTimer /\ sendq # <<>>
      <3>1. pipe' = pipe
        BY <2>6 DEF PingTimer, Unsent
      <3>2. QED BY <2>6, <3>1, <1>SamePipe
    <2>7. QED BY <2>4, <2>5, <2>6
  \* A wait for an item begins.
  <1>WaitItemPiped.
        ASSUME CountLaws, TypeOK, StartWaitItem
        PROVE  Marking => Piped
    <2> USE <1>WaitItemPiped
    <2>1. PICK i \in DOMAIN pipe :
                 /\ pipe[i].k = "data"
                 /\ pipe' = Inserted([pipe EXCEPT ![i].target = TRUE], MarkerAt(i), Item("marker"))
      BY Zenon DEF StartWaitItem
    <2>2. pipe \in Seq(PipeItem)
      BY FlowTypes
    <2> USE <2>2
    <2>3. DOMAIN pipe = 1 .. Len(pipe) /\ Len(pipe) \in Nat /\ (pipe = <<>> <=> Len(pipe) = 0)
      BY <1>PipeLen, Zenon
    <2>4. i \in 1 .. Len(pipe) /\ pipe # <<>>
      BY <2>1, <2>3
    <2>5. connected /\ wait = "no" /\ wait' = "item" /\ marked' = FALSE /\ ping' = ping
      BY DEF StartWaitItem, Idle, pingVars
    <2> USE <2>5
    <2>6. SUFFICES ASSUME Marking PROVE Piped
      OBVIOUS
    <2>7. Unmarked(pipe)
      BY <2>6, MarkingParts
    <2>8. /\ pipe' \in Seq(PipeItem) /\ (Foremost(pipe) => Foremost(pipe') /\ (Led(pipe') <=> Led(pipe)))
          /\ Marked(pipe') /\ Count(pipe', "ping") = Count(pipe, "ping")
      BY <2>1, <2>4, <2>7, <1>WaitItemMarks, Zenon
    <2>9. Marking'
      BY <2>8, MarkingNext
    <2>10. ~PingTimer \/ sendq # <<>>
      BY Zenon DEF PingTimer, Unsent
    <2>11. Count(pipe, "ping") \in Nat
      BY CountType
    <2>12. QED BY <2>4, <2>8, <2>9, <2>10, <2>11 DEF Piped
  <1> SUFFICES ASSUME CountLaws, TypeOK, Marking, Elsewhere \/ StillThere PROVE Piped
    OBVIOUS
  <1>1. CASE PushEnd \/ WriteEvent \/ StartMonitoring \/ BlockRead \/ UnblockRead \/ WaitPush \/ WaitSend \/ NetMove
             \/ (\E how \in {"hung", "closed"} : PeerStops(how)) \/ UNCHANGED vars
    <2>1. pipe' = pipe /\ wait' = wait /\ marked' = marked
      BY <1>1, Zenon DEF PushEnd, WriteEvent, StartMonitoring, BlockRead, UnblockRead, WaitPush, WaitSend, NetMove, PeerStops, vars,
                  serverVars, waitVars
    <2>2. ~PingTimer \/ sendq # <<>>
      <3>1. SUFFICES ASSUME PingTimer, sendq = <<>> PROVE FALSE
        OBVIOUS
      <3>2. pipe' = pipe \o <<Item("ping"), Item("ping")>> /\ pipe \in Seq(PipeItem)
        BY <3>1, FlowTypes, Zenon DEF PingTimer, Unsent
      <3>3. Item("ping") \in PipeItem
        BY <1>PlainItems DEF Plain
      <3>4. Len(pipe') = Len(pipe) + 2 /\ Len(pipe) \in Nat
        BY <3>2, <3>3
      <3>5. QED BY <2>1, <3>4
    <2>3. QED BY <2>1, <2>2, <1>SamePipe
  <1>2. CASE WaitDone \/ \E w \in {"outgoing", "all"} : StartWait(w)
    <2>1. pipe' = pipe /\ ping' = ping /\ marked' = marked /\ wait' # "item"
      BY <1>2 DEF WaitDone, StartWait, pingVars
    <2>2. ~PingTimer \/ sendq # <<>>
      BY <2>1 DEF PingTimer, Unsent
    <2>3. wait # "item" \/ marked
      BY <1>2 DEF WaitDone, StartWait, Idle, Satisfied
    <2>4. QED BY <2>1, <2>2, <2>3, <1>SamePipe
  <1>3. CASE StillThere /\ pipe' = pipe /\ wait' = wait
    <2>1. pipe' = pipe /\ wait' = wait /\ marked' = marked /\ ping' = ping
      BY <1>3, Zenon DEF StillThere, ConnectivityTimer, WaitTimeout, waitVars
    <2>2. ~PingTimer \/ sendq # <<>>
      BY <2>1 DEF PingTimer, Unsent
    <2>3. QED BY <2>1, <2>2, <1>SamePipe
  <1>4. CASE StillThere /\ WaitTimeout /\ pipe' = [i \in DOMAIN pipe |-> Unmark(pipe[i])]
    <2>1. ping' = ping /\ wait' = "no" /\ marked' = marked
      BY <1>4 DEF WaitTimeout
    <2>2. ~PingTimer \/ sendq # <<>>
      BY <2>1 DEF PingTimer, Unsent
    <2>3. pipe \in Seq(PipeItem)
      BY FlowTypes
    <2>4. /\ pipe' \in Seq(PipeItem) /\ (pipe' = <<>> <=> pipe = <<>>)
          /\ (Foremost(pipe) => Foremost(pipe')) /\ (Led(pipe') <=> Led(pipe))
          /\ Unmarked(pipe') /\ Count(pipe', "ping") = Count(pipe, "ping")
      BY <1>4, <2>3, <1>UnmarkKept, Zenon
    <2> USE <2>4
    <2>5. Marked(pipe')
      BY DEF Unmarked, Marked
    <2>6. Marking'
      BY <2>5, MarkingNext
    <2>7. Count(pipe, "ping") \in Nat
      BY <2>3, CountType
    <2>8. QED BY <2>2, <2>6, <2>7 DEF Piped
  <1>5. ASSUME StillThere PROVE \/ pipe' = pipe /\ wait' = wait
                                \/ WaitTimeout /\ pipe' = [i \in DOMAIN pipe |-> Unmark(pipe[i])]
    <2> USE <1>5
    <2>1. CASE ConnectivityTimer
      BY <2>1, Zenon DEF StillThere, ConnectivityTimer, Disconnected, waitVars, Idle
    <2>2. CASE WaitTimeout
      BY <2>2, Zenon DEF StillThere, WaitTimeout, Disconnected
    <2>3. QED BY <2>1, <2>2 DEF StillThere
  <1>6. QED BY <1>1, <1>2, <1>3, <1>4, <1>5, <1>AddPiped, <1>RemovePiped, <1>AppendPiped, <1>WaitItemPiped DEF Elsewhere

-----------------------------------------------------------------------------
(* What the invariant says *)

\* Putting sequences one behind another.
LEMMA Associates ==
  ASSUME NEW S, NEW q \in Seq(S), NEW r \in Seq(S), NEW s \in Seq(S)
  PROVE  (q \o r) \o s = q \o (r \o s)
  OBVIOUS

\* Messages put one after another.
LEMMA MessagesAssociate ==
  \A a, b, c \in Seq(Sent) : (a \o b) \o c = a \o (b \o c)
  BY Associates

\* The window is far from wrapping.
LEMMA DueFits ==
  ASSUME TypeOK, Acknowledging, connected, HandleAcks, generation = 1
  PROVE  /\ window + Later < Word /\ window \in Nat /\ Later \in 0 .. 1
         /\ clientWindow \in Nat /\ 0 < clientWindow /\ 2 * clientWindow + 2 < Word
         /\ (2 * clientWindow) % Word = 2 * clientWindow
  <1>1. window + Later <= 2 * clientWindow + 2
    BY DEF Acknowledging
  <1>2. clientWindow \in Windows
    BY DEF TypeOK
  <1>3. clientWindow \in Nat /\ 0 < clientWindow /\ 2 * clientWindow + 2 < Word /\ Word \in Nat
    BY <1>2, ThisKind
  <1> USE <1>3
  <1>4. window \in Nat /\ Later \in 0 .. 1
    BY FlowTypes, ThisKind
  <1>5. window + Later < Word
    BY <1>1, <1>4
  <1>6. (2 * clientWindow) % Word = 2 * clientWindow
    OBVIOUS
  <1>7. QED BY <1>4, <1>5, <1>6

\* Messages behind SET_ACK, none of them one themselves, leave it where it is.
LEMMA SetAckJoined ==
  ASSUME NEW s \in Seq(Sent), NEW t \in Seq(Sent), \A i \in DOMAIN t : t[i].k # "setack"
  PROVE  /\ SetAckAt(s \o t) = SetAckAt(s)
         /\ \A j \in SetAckAt(s) : j \in 1 .. Len(s) /\ (s \o t)[j] = s[j]
  <1>1. /\ DOMAIN (s \o t) = 1 .. Len(s) + Len(t)
        /\ \A i \in 1 .. Len(s) : (s \o t)[i] = s[i]
        /\ \A i \in 1 .. Len(t) : (s \o t)[Len(s) + i] = t[i]
        /\ \A i \in DOMAIN (s \o t) : i \in 1 .. Len(s) \/ \E j \in 1 .. Len(t) : i = Len(s) + j
    BY Joined
  <1>2. DOMAIN s = 1 .. Len(s) /\ DOMAIN t = 1 .. Len(t) /\ Len(s) \in Nat /\ Len(t) \in Nat
    OBVIOUS
  <1>3. 1 .. Len(s) \subseteq DOMAIN (s \o t)
    BY <1>1, <1>2
  <1>4. QED BY <1>1, <1>2, <1>3 DEF SetAckAt

\* An acknowledgement of a whole window more.
LEMMA Distributes == \A c, a \in Nat : c * (a + 1) = c * a + c /\ c * a \in Nat
  OBVIOUS

\* The types of what is not a queue.
Scalars ==
  /\ channel \in Kinds /\ connected \in BOOLEAN /\ mask \subseteq {"read", "write"} /\ blockRead \in BOOLEAN /\ loop \in BOOLEAN
  /\ generation \in 0 .. 1 /\ clientGen \in {1, Unsynced}
  /\ clientWindow \in Windows /\ opened \in BOOLEAN /\ flushWait \in BOOLEAN
  /\ ping \in {"none", "timer", "warmup", "latency"} /\ hasTimer \in BOOLEAN
  /\ monitor \in {"off", "connected", "blocked", "wait_pong"} /\ gotBytes \in BOOLEAN /\ sentBytes \in BOOLEAN
  /\ wait \in {"no", "item", "outgoing", "all"} /\ marked \in BOOLEAN
  /\ cWindow \in Nat /\ cCount \in Nat /\ peer \in {"up", "hung", "closed"} /\ added \in 0 .. MaxItems

\* The types of the queues, and of the window that counts what goes through them.
Queues ==
  /\ pipe \in Seq(PipeItem) /\ sending \in Seq(Sent) /\ Len(sending) <= 2 /\ window \in 0 .. Word - 1
  /\ sendq \in Seq(Sent) /\ Len(sendq) <= SendCap /\ recvq \in Seq(Sent) /\ Len(recvq) <= RecvCap
  /\ toServer \in Seq(Received)

\* The type invariant in these two parts, before and after a step.
LEMMA TypeParts == (TypeOK <=> Scalars /\ Queues) /\ (TypeOK' <=> Scalars' /\ Queues')
  BY DEF TypeOK, Scalars, Queues, PipeItem, Sent, Received

\* The test as it was, its timer aside; and the bytes that went through.
PingSame == ping' = ping \/ (ping \in {"none", "timer"} /\ ping' \in {"none", "timer"})

Opening == (connected /\ HandleAcks /\ opened /\ generation = 0) => window = 0

\* The PINGs a test has, and its answers.
LEMMA TestedFacts ==
  /\ Tested("none") = 0 /\ Tested("timer") = 0 /\ Tested("warmup") = 2 /\ Tested("latency") = 1
  /\ (TypeOK /\ PingSame) => Tested(ping') = Tested(ping)
  BY DEF Tested, PingSame

\* The counts of the latency test are numbers.
LEMMA PingCounts ==
  ASSUME CountLaws, TypeOK
  PROVE  Count(pipe, "ping") \in Nat /\ Count(Flow, "ping") \in Nat /\ Count(toServer, "pong") \in Nat
  BY FlowTypes, CountType

\* A new connection.
LEMMA InitChannel == ASSUME CountLaws, Init PROVE ChannelInductive /\ Opening
  <1>1. TypeOK
    <2>1. /\ Item("setack") \in [k : ItemKinds, target : BOOLEAN]
          /\ channel \in Kinds
      BY DEF Init, Item, ItemKinds
    <2> USE <2>1
    <2>2. pipe \in Seq([k : ItemKinds, target : BOOLEAN])
      <3>1. \A S : <<>> \in Seq(S) /\ \A x \in S : <<x>> \in Seq(S)
        OBVIOUS
      <3>2. pipe = <<Item("setack")>> \/ pipe = <<>>
        BY DEF Init
      <3>3. QED BY <3>1, <3>2, Zenon
    <2>3. /\ Word \in Nat /\ channel.acks \in BOOLEAN /\ channel.ping \in BOOLEAN
          /\ channel.sendCap \in Nat /\ channel.recvCap \in Nat /\ channel.items \in Nat
          /\ \A w \in channel.windows : w \in Nat /\ 0 < w /\ 2 * w + 2 < Word
      BY ChannelAssumption
    <2>4. clientWindow \in Windows /\ Word - 1 \in 0 .. Word - 1
      BY <2>3 DEF Init, Windows
    <2>5. /\ sending \in Seq([k : MsgKinds, n : Nat]) /\ Len(sending) <= 2
          /\ sendq \in Seq([k : MsgKinds, n : Nat]) /\ Len(sendq) <= SendCap
          /\ recvq \in Seq([k : MsgKinds, n : Nat]) /\ Len(recvq) <= RecvCap
          /\ toServer \in Seq([k : ReplyKinds, n : Nat])
      BY <2>3 DEF Init, SendCap, RecvCap
    <2>6. added \in 0 .. MaxItems /\ window \in 0 .. Word - 1 /\ generation \in 0 .. 1 /\ clientGen \in {1, Unsynced}
      BY <2>3, <2>4 DEF Init, MaxItems
    <2>7. mask \subseteq {"read", "write"} /\ ping \in {"none", "timer", "warmup", "latency"} /\ hasTimer \in BOOLEAN
      BY <2>3 DEF Init, HasPing
    <2>8. QED BY <2>2, <2>4, <2>5, <2>6, <2>7, Zenon DEF Init, TypeOK
  <1>2. /\ pipe = (IF HandleAcks THEN <<Item("setack")>> ELSE <<>>) /\ sending = <<>> /\ sendq = <<>> /\ recvq = <<>> /\ toServer = <<>>
        /\ generation = 0 /\ window = Word - 1 /\ connected = TRUE /\ opened = FALSE /\ wait = "no" /\ marked = FALSE
        /\ cWindow = 0 /\ cCount = 0 /\ clientGen = Unsynced /\ monitor = "off" /\ ping \in {"none", "timer"}
        /\ HandleAcks => "write" \in mask
    BY DEF Init
  <1>3. Item("setack").k = "setack" /\ ~Item("setack").target
    BY DEF Item
  <1>4. \A i \in DOMAIN pipe : i = 1 /\ pipe[i].k = "setack" /\ ~pipe[i].target
    BY <1>2, <1>3
  <1>5. Shape
    BY <1>2, <1>3, <1>4 DEF Shape
  <1>6. Acknowledging
    <2>1. Flow = <<>>
      BY <1>2 DEF Flow, Path
    <2>2. SetAckAt(<<>>) = {}
      BY DEF SetAckAt
    <2>3. Unasked
      BY <1>2 DEF Unasked
    <2>4. QED BY <1>2, <2>1, <2>2, <2>3 DEF Acknowledging
  <1>7. Watching
    BY <1>2 DEF Watching, Blocked
  <1>8. Pinging
    <2>1. Flow = <<>>
      BY <1>2 DEF Flow, Path
    <2>2. Count(<<>>, "ping") = 0 /\ Count(<<>>, "pong") = 0
      BY DEF CountLaws
    <2>3. Count(pipe, "ping") = 0
      BY <1>1, <1>4, FlowTypes, CountType
    <2>4. Count(Flow, "ping") = 0 /\ Count(toServer, "pong") = 0
      BY <1>2, <2>1, <2>2
    <2>5. QED BY <1>2, <2>3, <2>4, TestedFacts DEF Pinging
  <1>9. Monitoring
    BY <1>2 DEF Monitoring
  <1>10. Marking
    BY <1>2, <1>4 DEF Marking
  <1>11. QED BY <1>1, <1>2, <1>5, <1>6, <1>7, <1>8, <1>9, <1>10 DEF ChannelInductive, Opening

\* The window is what is not acknowledged.
LEMMA WindowExact ==
  CountLaws /\ ChannelInductive => AckAccounting
  \* One message.
  <1>OneMessage. ASSUME NEW S, NEW s \in Seq(S), Len(s) = 1 PROVE s = <<s[1]>> /\ s[1] \in S
    <2> USE <1>OneMessage
    <2>1. s[1] \in S /\ Len(<<s[1]>>) = 1 /\ <<s[1]>>[1] = s[1] /\ <<s[1]>> \in Seq(S)
      OBVIOUS
    <2>2. \A i \in 1 .. 1 : s[i] = <<s[1]>>[i]
      BY <2>1
    <2>3. QED BY <2>1, <2>2
  \* The messages begun, which the window counts, are those on their way but the main message
  \* that still follows an urgent one.
  <1>BegunFlow.
        ASSUME CountLaws, TypeOK, Shape
        PROVE  /\ SetAckAt(Begun1) = SetAckAt(Flow) /\ Len(Begun1) + Later = Len(Flow) /\ Len(Begun1) \in Nat
    <2> USE <1>BegunFlow
    <2>0. sending \in Seq(Sent) /\ (sending = <<>> <=> Len(sending) = 0)
      BY FlowTypes
    <2> USE <2>0
    <2>1. sendq \in Seq(Sent) /\ recvq \in Seq(Sent) /\ sending \in Seq(Sent) /\ Len(sending) \in 0 .. 2
      BY FlowTypes
    <2> USE <2>1
    <2>2. Path \in Seq(Sent)
      BY DEF Path
    <2> USE <2>2
    <2>3. CASE Len(sending) = 0
      <3>1. sending = <<>>
        BY <2>3
      <3>2. Begun1 = Flow /\ Later = 0
        BY <3>1 DEF Begun1, Flow, Later, Blocked
      <3>3. QED BY <3>2, Joined DEF Flow
    <2>4. CASE Len(sending) = 1
      <3> USE <2>4
      <3>1. sending = <<Head(sending)>> /\ sending # <<>>
        <4>1. sending # <<>>
          OBVIOUS
        <4>2. Head(sending) = sending[1]
          BY <4>1, TailFacts
        <4>3. QED BY <4>1, <4>2, <1>OneMessage
      <3>2. Begun1 = Flow
        BY <3>1, Zenon DEF Begun1, Flow, Blocked
      <3>3. Later = 0
        BY DEF Later
      <3>4. QED BY <3>2, <3>3, Joined DEF Flow
    <2>5. CASE Len(sending) = 2
      <3> USE <2>5
      <3> DEFINE a == Head(sending)
                 b == sending[2]
      <3>1. sending = <<a>> \o <<b>> /\ sending # <<>> /\ a \in Sent /\ b \in Sent
        <4>1. sending # <<>>
          OBVIOUS
        <4>2. /\ a \in Sent /\ Tail(sending) \in Seq(Sent) /\ Len(Tail(sending)) = 1 /\ <<a>> \o Tail(sending) = sending
              /\ Tail(sending)[1] = sending[2]
          <5>1. /\ a \in Sent /\ Tail(sending) \in Seq(Sent) /\ Len(Tail(sending)) = Len(sending) - 1 /\ <<a>> \o Tail(sending) = sending
                /\ \A i \in 1 .. Len(sending) - 1 : Tail(sending)[i] = sending[i + 1]
            BY <4>1, TailFacts, Zenon
          <5>2. QED BY <5>1
        <4>3. Tail(sending) = <<b>> /\ b \in Sent
          BY <4>2, <1>OneMessage, Zenon
        <4>4. QED BY <4>1, <4>2, <4>3
      <3> USE <3>1
      <3>2. b.k # "setack" /\ Later = 1
        BY DEF Shape, Later
      <3>3. Begun1 = Path \o <<a>>
        BY DEF Begun1, Blocked
      <3> HIDE DEF a, b
      <3>4. <<a>> \in Seq(Sent) /\ <<b>> \in Seq(Sent) /\ Len(<<b>>) = 1
        OBVIOUS
      <3> USE <3>4
      <3>5. Begun1 \in Seq(Sent) /\ Len(Begun1) \in Nat
        BY <3>3
      <3> USE <3>5
      <3>6. Flow = Begun1 \o <<b>>
        BY <3>3, MessagesAssociate DEF Flow
      <3>7. \A i \in DOMAIN <<b>> : <<b>>[i].k # "setack"
        BY <3>2
      <3>8. SetAckAt(Begun1 \o <<b>>) = SetAckAt(Begun1)
        BY <3>7, SetAckJoined, Zenon
      <3>9. Len(Begun1 \o <<b>>) = Len(Begun1) + Len(<<b>>)
        BY Joined
      <3>10. QED BY <3>2, <3>6, <3>8, <3>9
    <2>6. QED BY <2>3, <2>4, <2>5
  <1> SUFFICES ASSUME CountLaws, ChannelInductive PROVE AckAccounting
    OBVIOUS
  <1>1. TypeOK /\ Shape /\ Acknowledging
    BY DEF ChannelInductive
  <1> USE <1>1
  <1>2. SUFFICES ASSUME connected, HandleAcks, generation = 1
                 PROVE  /\ window <= 2 * clientWindow + 2
                        /\ IF SetAckAt(Begun1) # {}
                           THEN \A j \in SetAckAt(Begun1) : window = Len(Begun1) - j + 1
                           ELSE window = 1 + (cWindow - cCount) + Len(Begun1) + cWindow * Count(toServer, "ack")
    BY DEF AckAccounting
  <1>3. window + Later <= 2 * clientWindow + 2 /\ OnItsWay /\ Counting
    BY <1>2 DEF Acknowledging
  <1> USE <1>3
  <1>4. window \in Nat /\ Later \in 0 .. 1 /\ clientWindow \in Nat
    BY <1>2, DueFits
  <1> USE <1>4
  <1>5. SetAckAt(Begun1) = SetAckAt(Flow) /\ Len(Begun1) + Later = Len(Flow) /\ Len(Begun1) \in Nat
    BY <1>BegunFlow
  <1> USE <1>5
  <1>6. window <= 2 * clientWindow + 2
    OBVIOUS
  <1>7. ASSUME NEW j \in SetAckAt(Begun1) PROVE window = Len(Begun1) - j + 1
    <2>1. window + Later = Len(Flow) - j + 1
      BY <1>7 DEF OnItsWay
    <2>2. j \in Nat
      <3>1. Flow \in Seq(Sent)
        BY FlowTypes
      <3>2. j \in DOMAIN Flow
        BY <1>7 DEF SetAckAt
      <3>3. QED BY <3>1, <3>2
    <2>3. \A w, l, b, i \in Int : w + l = (b + l) - i + 1 => w = b - i + 1
      OBVIOUS
    <2>4. QED BY <2>1, <2>2, <2>3
  <1>8. ASSUME SetAckAt(Begun1) = {} PROVE window = 1 + (cWindow - cCount) + Len(Begun1) + cWindow * Count(toServer, "ack")
    <2>1. window + Later = 1 + (cWindow - cCount) + Len(Flow) + cWindow * Count(toServer, "ack")
      BY <1>8 DEF Counting
    <2> DEFINE acks == cWindow * Count(toServer, "ack")
    <2>2. cWindow \in Nat /\ cCount \in Nat /\ acks \in Nat
      <3>1. cWindow \in Nat /\ cCount \in Nat
        BY TypeParts DEF Scalars
      <3>2. Count(toServer, "ack") \in Nat
        BY FlowTypes, CountType
      <3>3. QED BY <3>1, <3>2, Distributes
    <2>3. window + Later = 1 + (cWindow - cCount) + Len(Flow) + acks
      BY <2>1
    <2> HIDE DEF acks
    <2>4. window = 1 + (cWindow - cCount) + Len(Begun1) + acks
      BY <2>2, <2>3
    <2>5. QED BY <2>4 DEF acks
  <1>9. QED BY <1>6, <1>7, <1>8

\* No wake-up is lost.
LEMMA WakeupKept ==
  CountLaws /\ ChannelInductive /\ Opening => NoLostWakeup
  \* An ack that is awaited comes without anything more being written.
  <1>AckComes.
        ASSUME CountLaws, TypeOK, Shape, Acknowledging, connected, HandleAcks, generation = 1, waiting_for_ack
        PROVE  AckComing
    <2> USE <1>AckComes
    <2>1. window + Later < Word /\ window \in Nat /\ Later \in 0 .. 1 /\ clientWindow \in Nat /\ 0 < clientWindow
          /\ (2 * clientWindow) % Word = 2 * clientWindow
      BY DueFits
    <2> USE <2>1
    <2>2. window > 2 * clientWindow
      BY DEF waiting_for_ack, WaitForAck
    <2>3. OnItsWay /\ Counting
      BY DEF Acknowledging
    <2> DEFINE p == Len(Path)
               q == Len(sending)
               f == Len(Flow)
    <2>4. Path \in Seq(Sent) /\ sending \in Seq(Sent) /\ q \in 0 .. 2 /\ p \in Nat /\ f = p + q
          /\ DOMAIN Path = 1 .. p /\ DOMAIN Flow = 1 .. f
      <3>1. sendq \in Seq(Sent) /\ recvq \in Seq(Sent) /\ sending \in Seq(Sent) /\ q \in 0 .. 2
        BY FlowTypes
      <3>2. Path \in Seq(Sent)
        BY <3>1 DEF Path
      <3>3. QED BY <3>1, <3>2, Joined DEF Flow
    <2> USE <2>4
    <2>5. \A i \in 1 .. p : Flow[i] = Path[i]
      BY Joined DEF Flow
    <2>6. Later = IF q = 2 THEN 1 ELSE 0
      BY DEF Later
    <2>7. SetAckAt(Path) \subseteq SetAckAt(Flow)
      <3>1. SUFFICES ASSUME NEW j \in 1 .. p, Path[j].k = "setack" PROVE j \in 1 .. f /\ Flow[j].k = "setack"
        BY DEF SetAckAt
      <3> HIDE DEF p, q, f
      <3>2. j \in 1 .. f
        OBVIOUS
      <3>3. QED BY <2>5, <3>1, <3>2
    <2>8. CASE SetAckAt(Flow) = {}
      <3>1. cWindow = clientWindow /\ cCount \in 1 .. cWindow
            /\ window + Later = 1 + (cWindow - cCount) + f + cWindow * Count(toServer, "ack")
        BY <2>3, <2>8 DEF Counting
      <3> USE <3>1
      <3>2. Count(toServer, "ack") \in Nat
        BY FlowTypes, CountType
      <3>3. CASE Count(toServer, "ack") = 0
        <4>1. SetAckAt(Path) = {}
          BY <2>7, <2>8
        <4> HIDE DEF p, q, f
        <4>2. cWindow * 0 = 0
          OBVIOUS
        <4>3. window + Later = 1 + (cWindow - cCount) + f
          BY <3>3, <4>2
        <4>4. p >= cCount
          BY <2>2, <2>6, <4>3
        <4>5. cWindow > 0 /\ Len(Path) >= cCount
          BY <4>4 DEF p
        <4>6. QED BY <4>1, <4>5 DEF AckComing
      <3>4. Count(toServer, "ack") = 0 \/ Count(toServer, "ack") > 0
        BY <3>2
      <3>5. QED BY <3>3, <3>4, Zenon DEF AckComing
    <2>9. CASE SetAckAt(Flow) # {}
      <3>1. PICK j \in SetAckAt(Flow) : window + Later = f - j + 1
        BY <2>3, <2>9 DEF OnItsWay
      <3>2. j \in 1 .. f /\ Flow[j].k = "setack"
        BY <3>1 DEF SetAckAt
      <3> HIDE DEF p, q, f
      <3>3. p - j >= clientWindow /\ j \in 1 .. p
        BY <2>2, <2>6, <3>1, <3>2
      <3>4. j \in SetAckAt(Path)
        BY <2>5, <3>2, <3>3 DEF SetAckAt
      <3>5. Len(Path) - j >= clientWindow
        BY <3>3 DEF p
      <3>6. QED BY <3>4, <3>5 DEF AckComing
    <2>10. QED BY <2>8, <2>9
  <1> SUFFICES ASSUME CountLaws, ChannelInductive, Opening PROVE NoLostWakeup
    OBVIOUS
  <1>1. TypeOK /\ Shape /\ Acknowledging /\ Watching
    BY DEF ChannelInductive
  <1> USE <1>1
  <1>2. SUFFICES ASSUME Idle, Blocked \/ pipe # <<>>, "write" \notin mask, opened PROVE waiting_for_ack /\ AckComing
    <2>1. (Idle /\ (Blocked \/ pipe # <<>>) /\ "write" \notin mask) => waiting_for_ack
      BY DEF Watching, Idle
    <2>2. QED BY <1>2, <2>1 DEF NoLostWakeup
  <1>3. connected /\ waiting_for_ack
    BY <1>2 DEF Watching, Idle
  <1> USE <1>3
  <1>4. HandleAcks /\ window > (2 * clientWindow) % Word
    BY DEF waiting_for_ack, WaitForAck
  <1> USE <1>4
  <1>5. generation = 1
    <2>1. clientWindow \in Windows /\ generation \in 0 .. 1
      BY TypeParts DEF Scalars
    <2>2. clientWindow \in Nat /\ 2 * clientWindow + 2 < Word /\ Word \in Nat
      BY <2>1, ThisKind
    <2>3. (2 * clientWindow) % Word = 2 * clientWindow
      BY <2>2
    <2>4. window # 0
      BY <2>2, <2>3
    <2>5. generation # 0
      BY <1>2, <2>4 DEF Opening
    <2>6. QED BY <2>1, <2>5
  <1>6. QED BY <1>5, <1>AckComes

\* The timers match the state of the connection.
LEMMA TimersAgree == ASSUME CountLaws, ChannelInductive PROVE TimersMatch
  <1>1. TypeOK /\ Pinging /\ Monitoring
    BY DEF ChannelInductive
  <1> USE <1>1
  <1>2. connected =>
          Count(pipe, "ping") + Count(sending, "ping") + Count(Path, "ping") + Count(toServer, "pong")
            = CASE ping = "warmup" -> 2 [] ping = "latency" -> 1 [] OTHER -> 0
    <2>1. sendq \in Seq(Sent) /\ recvq \in Seq(Sent) /\ sending \in Seq(Sent)
      BY FlowTypes
    <2> USE <2>1
    <2>2. Path \in Seq(Sent)
      BY DEF Path
    <2>3. Count(Path \o sending, "ping") = Count(Path, "ping") + Count(sending, "ping")
      BY <2>2, CountJoined
    <2>4. Count(Path, "ping") \in Nat /\ Count(sending, "ping") \in Nat
      BY <2>2, CountType
    <2>5. Flow = Path \o sending
      BY DEF Flow
    <2>6. Tested(ping) = CASE ping = "warmup" -> 2 [] ping = "latency" -> 1 [] OTHER -> 0
      BY DEF Tested
    <2>7. connected => Count(pipe, "ping") + (Count(Path, "ping") + Count(sending, "ping")) + Count(toServer, "pong") = Tested(ping)
      BY <2>3, <2>5 DEF Pinging
    <2>8. QED BY <2>4, <2>6, <2>7, PingCounts
  <1>3. QED BY <1>2 DEF TimersMatch, Monitoring
=============================================================================
