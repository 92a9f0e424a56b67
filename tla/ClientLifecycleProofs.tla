------------------------ MODULE ClientLifecycleProofs ------------------------
(***************************************************************************)
(* The lists of channel clients that two threads keep agree, for any       *)
(* clients and channels, any number of links and any interleaving of the   *)
(* worker with the main thread.                                            *)
(*                                                                         *)
(* The invariant says who may be named where: a session that is not being  *)
(* disconnected is open, a call in progress of RedClient::destroy names a  *)
(* session that is both open and being disconnected, and queued messages   *)
(* name only clients that were created.  A second one (Agreement), on top  *)
(* of it, follows a channel client while it is handed from one thread to   *)
(* the other; nothing that was freed is used.                              *)
(***************************************************************************)

EXTENDS ClientLifecycle, TLAPS

\* The calls in progress, innermost first: an awaited acknowledgement is inside a destroy, and a
\* destroy inside the handler that called it.
JobKinds == {"destroy", "await", "release", "link", "link migrated"}

Depth(k) == IF k = "await" THEN 2 ELSE IF k = "destroy" THEN 1 ELSE 0

JobShape(q) == q \in Seq(Message(JobKinds)) /\ \A i \in 1 .. Len(q) : i + Depth(q[i].k) = Len(q)

\* Destroy runs on an open session that is being disconnected; a link is of a new client.
JobNames ==
  \A i \in 1 .. Len(job) :
    /\ job[i].k = "destroy" => job[i].c \in held \cap ending
    /\ job[i].k \in {"link", "link migrated"} => job[i].c \notin made

Named(ks) == [k : ks, c : made, ch : Channels]

SetsOK ==
  /\ made \subseteq Clients /\ held \subseteq made /\ ending \subseteq made
  /\ listed \subseteq held \ ending /\ made \ ending \subseteq held

ListsOK ==
  /\ channels \in [Clients -> SUBSET Channels] /\ \A c \in Clients \ made : channels[c] = {}
  /\ conn \subseteq made \X Channels

PendingOK == pending \in [Clients -> [near : SUBSET Channels, far : Seq(OfWorker)]]

QueuesOK ==
  /\ wq \in Seq(Named({"connect", "disconnect"})) /\ mq \in Seq(Named({"disconnect client", "complete"}))
  /\ worker = Idle \/ worker \in Named({"connect", "disconnect", "close"})

JobOK == JobShape(job) /\ JobNames

SessionInductive == SetsOK /\ ListsOK /\ PendingOK /\ QueuesOK /\ JobOK

-----------------------------------------------------------------------------
(* Sequences *)

\* The sequences over a set, and what a queue of messages is after one more or one less.
LEMMA SequencesOver == \A S : Seq(S) = UNION {[1 .. n -> S] : n \in Nat}
OBVIOUS

\* The elements of a sequence are in its set.
LEMMA ElementIn == ASSUME NEW S, NEW q \in Seq(S), NEW i \in 1 .. Len(q) PROVE q[i] \in S
OBVIOUS

\* Only the empty sequence has no first element.
LEMMA EmptySequence ==
  ASSUME NEW S
  PROVE  <<>> \in Seq(S) /\ Len(<<>>) = 0 /\ \A q \in Seq(S) : q # <<>> => Len(q) \in Nat \ {0}
OBVIOUS

\* A sequence as a function.
LEMMA Lengths == ASSUME NEW S, NEW q \in Seq(S) PROVE Len(q) \in Nat /\ q \in [1 .. Len(q) -> S] /\ DOMAIN q = 1 .. Len(q)
OBVIOUS

\* One sequence behind another.
LEMMA Concatenated ==
  ASSUME NEW S, NEW q \in Seq(S), NEW r \in Seq(S)
  PROVE  /\ q \o r \in Seq(S) /\ Len(q \o r) = Len(q) + Len(r)
         /\ \A i \in 1 .. Len(q) + Len(r) : (q \o r)[i] = IF i <= Len(q) THEN q[i] ELSE r[i - Len(q)]
OBVIOUS

\* The first element taken off.
LEMMA HeadAndTail ==
  ASSUME NEW S, NEW q \in Seq(S), q # <<>>
  PROVE  /\ Head(q) \in S /\ Tail(q) \in Seq(S) /\ Len(Tail(q)) = Len(q) - 1
         /\ \A i \in 1 .. Len(Tail(q)) : Tail(q)[i] = q[i + 1]
OBVIOUS

\* One more element at the end.
LEMMA Appended ==
  ASSUME NEW S, NEW q \in Seq(S), NEW e \in S
  PROVE  /\ Append(q, e) \in Seq(S) /\ Append(q, e) # <<>> /\ Len(Append(q, e)) = Len(q) + 1
         /\ \A i \in 1 .. Len(q) : Append(q, e)[i] = q[i]
         /\ Append(q, e)[Len(q) + 1] = e
OBVIOUS

\* The first message of a queue and the rest.
LEMMA HeadTail ==
  ASSUME NEW S, NEW q \in Seq(S), q # <<>>
  PROVE  Head(q) \in S /\ Tail(q) \in Seq(S) /\ Len(q) \in Nat /\ Len(q) > 0 /\ Head(q) = q[1]
         /\ Len(Tail(q)) = Len(q) - 1 /\ \A i \in 1 .. Len(Tail(q)) : Tail(q)[i] = q[i + 1]
BY HeadAndTail, Lengths, ElementIn, EmptySequence

\* The first of two.
LEMMA HeadOfPair == ASSUME NEW a, NEW b PROVE Head(<<a, b>>) = a
OBVIOUS

\* What the two of a list are, and how deep.
LEMMA TwoIndices ==
  /\ \A n : n = 2 => \A i \in 1 .. n : i = 1 \/ i = 2
  /\ \A a, b : a = 1 /\ b = 0 => 1 + a = 2 /\ 2 + b = 2
OBVIOUS

\* The call that returns leaves those around it.
LEMMA JobReturns ==
  ASSUME JobOK, job # <<>>
  PROVE  /\ JobShape(Tail(job))
         /\ \A i \in 1 .. Len(Tail(job)) : i + 1 \in 1 .. Len(job) /\ Tail(job)[i] = job[i + 1]
<1>1. job \in Seq(Message(JobKinds)) /\ \A i \in 1 .. Len(job) : i + Depth(job[i].k) = Len(job)
  BY DEF JobOK, JobShape
<1>2. /\ Tail(job) \in Seq(Message(JobKinds)) /\ Len(job) \in Nat /\ Len(job) > 0
      /\ Len(Tail(job)) = Len(job) - 1 /\ \A i \in 1 .. Len(Tail(job)) : Tail(job)[i] = job[i + 1]
  BY <1>1, HeadTail
<1>3. \A i \in 1 .. Len(Tail(job)) : i + 1 \in 1 .. Len(job)
  BY <1>2
<1>4. ASSUME NEW i \in 1 .. Len(Tail(job)) PROVE i + Depth(Tail(job)[i].k) = Len(Tail(job))
  <2>1. (i + 1) + Depth(job[i + 1].k) = Len(job)
    BY <1>1, <1>3
  <2>2. Depth(job[i + 1].k) \in Nat
    BY DEF Depth
  <2> QED BY <1>2, <2>1, <2>2
<1> QED BY <1>2, <1>3, <1>4 DEF JobShape

\* The innermost call fixes how many there are.
LEMMA ShapeHead ==
  ASSUME NEW q, JobShape(q), q # <<>>
  PROVE  /\ Head(q) = q[1] /\ Head(q) \in Message(JobKinds) /\ 1 \in 1 .. Len(q)
         /\ Len(q) = IF Head(q).k = "await" THEN 3 ELSE IF Head(q).k = "destroy" THEN 2 ELSE 1
<1>1. q \in Seq(Message(JobKinds)) /\ \A i \in 1 .. Len(q) : i + Depth(q[i].k) = Len(q)
  BY DEF JobShape
<1>2. Head(q) \in Message(JobKinds) /\ Len(q) \in Nat /\ Len(q) > 0 /\ Head(q) = q[1]
  BY <1>1, HeadTail
<1>3. 1 \in 1 .. Len(q)
  BY <1>2
<1>4. 1 + Depth(Head(q).k) = Len(q)
  BY <1>1, <1>2, <1>3
<1> QED BY <1>2, <1>3, <1>4 DEF Depth

\* The job the main thread is doing, by how deep its calls are nested.
LEMMA JobHead ==
  ASSUME JobOK, job # <<>>
  PROVE  /\ Head(job) = job[1] /\ Head(job) \in Message(JobKinds) /\ 1 \in 1 .. Len(job)
         /\ Len(job) = IF Head(job).k = "await" THEN 3 ELSE IF Head(job).k = "destroy" THEN 2 ELSE 1
BY ShapeHead DEF JobOK

-----------------------------------------------------------------------------
(* The invariant: what several actions do *)

\* A client whose main channel is connected was made.
LEMMA UpMade == ASSUME SessionInductive, NEW c, NEW ch, <<c, ch>> \in conn PROVE c \in made /\ c \in Clients /\ ch \in Channels
BY DEF SessionInductive, ListsOK, SetsOK

\* reds_handle_main_link goes on once the clients there were are gone: it is the outermost call,
\* and of a client that is new.
LEMMA LinkMainEndFacts ==
  ASSUME SessionInductive, LinkMainEnd
  PROVE  Head(job).c \in Clients \ made /\ job' = <<>>
<1>1. job # <<>> /\ Head(job).k \in {"link", "link migrated"} /\ job' = Tail(job) /\ JobOK
  BY Zenon DEF LinkMainEnd, SessionInductive
<1>2. Head(job) = job[1] /\ Head(job) \in Message(JobKinds) /\ 1 \in 1 .. Len(job) /\ Len(job) = 1
  BY <1>1, JobHead, Zenon
<1>3. Head(job).c \in Clients \ made
  BY <1>1, <1>2, Zenon DEF Message, JobOK, JobNames
<1>4. job \in Seq(Message(JobKinds))
  BY <1>1, Zenon DEF JobOK, JobShape
<1>5. Len(Tail(job)) = Len(job) - 1 /\ Tail(job) \in Seq(Message(JobKinds))
  BY <1>1, <1>4, HeadTail, Zenon
<1>6. Len(job) - 1 = 0
  BY <1>2
<1> QED BY <1>1, <1>3, <1>5, <1>6, EmptySequence, Zenon

\* The message at the head of the main thread's queue is taken.
LEMMA MessageTaken ==
  ASSUME QueuesOK, mq # <<>>
  PROVE  Head(mq).c \in made /\ Tail(mq) \in Seq(Named({"disconnect client", "complete"}))
<1>1. Head(mq) \in Named({"disconnect client", "complete"}) /\ Tail(mq) \in Seq(Named({"disconnect client", "complete"}))
  BY HeadTail, Zenon DEF QueuesOK
<1> QED BY <1>1, Zenon DEF Named

\* What the worker is in the middle of names a client that was made.
LEMMA WorkerNames ==
  ASSUME SessionInductive, worker.k \in {"connect", "disconnect", "close"}
  PROVE  worker.c \in made /\ worker.c \in Clients /\ worker.ch \in Channels
<1>1. Idle.k = "idle"
  BY DEF Idle
<1>2. worker # Idle
  BY <1>1
<1>3. worker \in Named({"connect", "disconnect", "close"})
  BY <1>2, Zenon DEF SessionInductive, QueuesOK
<1> QED BY <1>3 DEF Named, SessionInductive, SetsOK

\* Every step of either thread preserves the invariant.
LEMMA InductiveStep ==
  SessionInductive /\ [Next]_vars => SessionInductive'
\* A sequence over a set is one over a larger set.
<1>SeqMono. ASSUME NEW S, NEW T, S \subseteq T, NEW q \in Seq(S) PROVE q \in Seq(T)
  <2> USE <1>SeqMono
  <2>1. /\ Len(q) \in Nat /\ q = [i \in 1 .. Len(q) |-> q[i]] /\ \A i \in 1 .. Len(q) : q[i] \in S
    BY Lengths, ElementIn
  <2>2. q \in [1 .. Len(q) -> T]
    BY <2>1
  <2> QED BY <2>1, <2>2, SequencesOver
\* Messages to the worker about links follow those that were sent.
<1>ConnectsTyped.
      ASSUME QueuesOK, NEW c \in made, NEW far \in Seq(OfWorker), SendConnects(c, far)
      PROVE  wq' \in Seq(Named({"connect", "disconnect"}))
  <2> USE <1>ConnectsTyped
  <2> DEFINE new == [i \in DOMAIN far |-> Msg("connect", c, far[i])]
  <2>1. Len(far) \in Nat /\ DOMAIN far = 1 .. Len(far) /\ \A i \in 1 .. Len(far) : far[i] \in OfWorker
    BY Lengths, ElementIn
  <2>2. \A i \in 1 .. Len(far) : Msg("connect", c, far[i]) \in Named({"connect", "disconnect"})
    BY <2>1 DEF Msg, Named, Channels
  <2>3. new \in [1 .. Len(far) -> Named({"connect", "disconnect"})]
    BY <2>1, <2>2
  <2>4. new \in Seq(Named({"connect", "disconnect"}))
    BY <2>1, <2>3, SequencesOver
  <2> HIDE DEF new
  <2>5. wq' = wq \o new
    BY DEF SendConnects, new
  <2> QED BY <2>4, <2>5, Concatenated, Zenon DEF QueuesOK
\* A list of two.
<1>PairOfMessages.
      ASSUME NEW S, NEW a \in S, NEW b \in S
      PROVE  <<a, b>> \in Seq(S) /\ Len(<<a, b>>) = 2 /\ <<a, b>>[1] = a /\ <<a, b>>[2] = b
  BY <1>PairOfMessages
\* The same call, inside one more list of calls.
<1>OneDeeper.
      ASSUME NEW i \in Nat, NEW d \in Nat, NEW n \in Nat, (i - 1) + d = n
      PROVE  i + d = 1 + n
  BY <1>OneDeeper
\* Messages stay well named when clients are added.
<1>QueuesKeep.
      ASSUME QueuesOK, made \subseteq made', wq' = wq, mq' = mq, worker' = worker
      PROVE  QueuesOK'
  <2> USE <1>QueuesKeep
  <2>1. ASSUME NEW ks PROVE Named(ks) \subseteq Named(ks)'
    BY DEF Named
  <2>2. Named({"connect", "disconnect"}) \subseteq Named({"connect", "disconnect"})'
        /\ Named({"disconnect client", "complete"}) \subseteq Named({"disconnect client", "complete"})'
        /\ Named({"connect", "disconnect", "close"}) \subseteq Named({"connect", "disconnect", "close"})'
    BY <2>1, Zenon
  <2>3. wq \in Seq(Named({"connect", "disconnect"})') /\ mq \in Seq(Named({"disconnect client", "complete"})')
    BY <2>2, <1>SeqMono, Zenon DEF QueuesOK
  <2> QED BY <2>2, <2>3, Zenon DEF QueuesOK, Idle
\* No call is in progress.
<1>NoJob. ASSUME job' = <<>> PROVE JobOK'
  BY <1>NoJob DEF JobOK, JobShape, JobNames
\* The sets of clients, the calls in progress and the pending links are as they were.
<1>SetsKeep.
      ASSUME SetsOK, made' = made, held' = held, ending' = ending, listed' = listed
      PROVE  SetsOK'
  BY <1>SetsKeep DEF SetsOK
\* A step that changes neither the calls in progress nor the clients.
<1>JobKeep.
      ASSUME JobOK, made' = made, held' = held, ending' = ending, job' = job
      PROVE  JobOK'
  BY <1>JobKeep, Zenon DEF JobOK, JobShape, JobNames
\* A call returns.
<1>ReturnKeep.
      ASSUME JobOK, job # <<>>, made' = made, held' = held, ending' = ending, job' = Tail(job)
      PROVE  JobOK'
  BY <1>ReturnKeep, JobReturns, Zenon DEF JobOK, JobNames
\* RedClient::add_channel and the end of RedChannelClient::init.
<1>JoinsLists.
      ASSUME ListsOK, made \subseteq Clients, NEW c \in made, NEW chs \in SUBSET Channels, NEW wait, Joins(c, chs, wait),
             made' = made
      PROVE  ListsOK'
  <2> USE <1>JoinsLists
  <2>1. c \in Clients
    OBVIOUS
  <2>2. channels' = [channels EXCEPT ![c] = channels[c] \cup chs]
    BY DEF Joins
  <2>3. channels' \in [Clients -> SUBSET Channels]
    BY <2>1, <2>2 DEF ListsOK
  <2>4. \A d \in Clients \ made : channels'[d] = {}
    BY <2>1, <2>2 DEF ListsOK
  <2>5. conn' \subseteq made \X Channels
    BY DEF Joins, ListsOK
  <2> QED BY <2>3, <2>4, <2>5 DEF ListsOK
\* RedClient::remove_channel; the channel's list keeps its channel clients or loses some.
<1>RemoveLists.
      ASSUME ListsOK, NEW c \in Clients, NEW ch, RemoveChannel(c, ch), conn' \subseteq conn, made' = made
      PROVE  ListsOK'
  <2> USE <1>RemoveLists
  <2>1. channels' = [channels EXCEPT ![c] = channels[c] \ {ch}]
    BY DEF RemoveChannel
  <2>2. channels' \in [Clients -> SUBSET Channels]
    BY <2>1 DEF ListsOK
  <2>3. \A d \in Clients \ made : channels'[d] = {}
    BY <2>1 DEF ListsOK
  <2> QED BY <2>2, <2>3 DEF ListsOK
\* reds_handle_main_link makes a client of one that was not there.
<1>NewClientStep.
      ASSUME SessionInductive, NEW c \in Clients, c \notin made, NEW migrated \in BOOLEAN, NewClient(c, migrated), job' = <<>>
      PROVE  SessionInductive'
  <2> USE <1>NewClientStep
  <2> USE DEF SessionInductive
  <2>1. made' = made \cup {c} /\ held' = held \cup {c} /\ listed' = listed \cup {c} /\ ending' = ending
        /\ pending' = pending /\ wq' = wq /\ mq' = mq /\ worker' = worker
    BY DEF NewClient
  <2>2. SetsOK'
    BY <2>1 DEF SetsOK
  <2>3. channels' = [channels EXCEPT ![c] = channels[c] \cup {Main}] /\ conn' = conn \cup {<<c, Main>>}
    BY DEF NewClient, Joins
  <2>4. channels' \in [Clients -> SUBSET Channels]
    BY <2>3 DEF ListsOK, Channels
  <2>5. \A d \in Clients \ made' : channels'[d] = {}
    BY <2>1, <2>3 DEF ListsOK
  <2>6. ListsOK'
    BY <2>1, <2>3, <2>4, <2>5 DEF ListsOK, Channels
  <2> QED BY <2>1, <2>2, <2>6, <1>QueuesKeep, <1>NoJob DEF PendingOK
\* reds_client_disconnect begins, inside the handler m.
<1>BeginStep.
      ASSUME SessionInductive, NEW d \in held \ ending, BeginDisconnect(d),
             NEW m \in Message({"release", "link", "link migrated"}), m.k = "release" \/ m.c \notin made,
             job' = <<Msg("destroy", d, Main), m>>, made' = made, held' = held, channels' = channels, conn' = conn,
             wq' = wq, worker' = worker, mq' \in Seq(Named({"disconnect client", "complete"}))
      PROVE  SessionInductive'
  <2> USE <1>BeginStep
  <2> USE DEF SessionInductive
  <2>1. ending' = ending \cup {d} /\ listed' = listed \ {d} /\ d \in Clients
    BY Zenon DEF BeginDisconnect, SetsOK
  <2>2. SetsOK'
    BY <2>1, Zenon DEF SetsOK
  <2>3. ListsOK' /\ QueuesOK'
    BY Zenon DEF ListsOK, QueuesOK, Named
  <2>4. PendingOK'
    <3>1. NoLinks \in [near : SUBSET Channels, far : Seq(OfWorker)]
      BY EmptySequence, Zenon DEF NoLinks
    <3> QED BY <2>1, <3>1, Zenon DEF PendingOK, BeginDisconnect
  <2>5. Msg("destroy", d, Main) \in Message(JobKinds) /\ m \in Message(JobKinds)
    BY <2>1, Zenon DEF Msg, Message, JobKinds, Channels
  <2>6. job' \in Seq(Message(JobKinds)) /\ Len(job') = 2 /\ job'[1] = Msg("destroy", d, Main) /\ job'[2] = m
    BY <2>5, <1>PairOfMessages, Zenon
  <2>7. Msg("destroy", d, Main).k = "destroy" /\ Msg("destroy", d, Main).c = d
        /\ m.k \in {"release", "link", "link migrated"}
    BY Zenon DEF Msg, Message
  <2> HIDE DEF SessionInductive
  <2>8. \A i \in 1 .. Len(job') : i = 1 \/ i = 2
    <3>1. Len(job') = 2
      BY <2>6, Zenon
    <3> QED BY <3>1, TwoIndices, Zenon
  <2>9. 1 + Depth(job'[1].k) = 2 /\ 2 + Depth(job'[2].k) = 2
    <3>1. job'[1].k = "destroy" /\ job'[2].k \notin {"await", "destroy"}
      BY <2>6, <2>7, Zenon
    <3>2. Depth(job'[1].k) = 1 /\ Depth(job'[2].k) = 0
      BY <3>1, Zenon DEF Depth
    <3> QED BY <3>2, TwoIndices, Zenon
  <2>10. JobShape(job')
    BY <2>6, <2>8, <2>9, Zenon DEF JobShape
  <2>11. JobNames'
    <3>1. job'[1].k = "destroy" /\ job'[1].c = d /\ job'[2].k # "destroy"
          /\ (job'[2].k \in {"link", "link migrated"} => job'[2].c \notin made)
      BY <2>6, <2>7, Zenon
    <3> QED BY <2>1, <2>8, <3>1, Zenon DEF JobNames
  <2> USE DEF SessionInductive
  <2> QED BY <2>2, <2>3, <2>4, <2>10, <2>11, Zenon DEF JobOK, JobShape, Message
\* reds_link_mig_target_channels: what it does to the lists, the links and the queue.
<1>LinkPendingKeeps.
      ASSUME SessionInductive, NEW c \in made, NEW wait, LinkPending(c, wait), made' = made, mq' = mq, worker' = worker
      PROVE  ListsOK' /\ PendingOK' /\ QueuesOK'
  <2> USE <1>LinkPendingKeeps
  <2> USE DEF SessionInductive
  <2> DEFINE new == Accepted(c, pending[c].near)
  <2>1. c \in Clients /\ made \subseteq Clients
    BY DEF SetsOK
  <2>2. pending[c] \in [near : SUBSET Channels, far : Seq(OfWorker)]
    BY <2>1 DEF PendingOK
  <2>3. pending[c].far \in Seq(OfWorker)
    BY <2>2
  <2>4. new \in SUBSET Channels
    BY DEF Accepted, Channels
  <2>5. /\ SendConnects(c, pending[c].far) /\ pending' = [pending EXCEPT ![c] = NoLinks]
        /\ Joins(c, new, IF wait THEN channels[c] \cup new ELSE {})
    BY DEF LinkPending
  <2> HIDE DEF new
  <2>6. ListsOK'
    BY <2>1, <2>4, <2>5, <1>JoinsLists
  <2>7. NoLinks \in [near : SUBSET Channels, far : Seq(OfWorker)]
    BY EmptySequence DEF NoLinks
  <2>8. PendingOK'
    BY <2>1, <2>5, <2>7 DEF PendingOK
  <2>9. QueuesOK'
    BY <2>3, <2>5, <1>ConnectsTyped, Zenon DEF QueuesOK, Named
  <2> QED BY <2>6, <2>8, <2>9
\* reds_handle_main_link.
<1>LinkMainStep.
      ASSUME SessionInductive, NEW c \in Clients, NEW migrated \in BOOLEAN, LinkMain(c, migrated)
      PROVE  SessionInductive'
  <2> USE <1>LinkMainStep
  <2>1. job = <<>> /\ c \notin made
    BY Zenon DEF LinkMain, MainIdle
  <2>2. CASE NewClient(c, migrated) /\ job' = job
    BY <2>1, <2>2, <1>NewClientStep
  <2>3. ASSUME NEW d \in listed, BeginDisconnect(d),
               job' = <<Msg("destroy", d, Main), Msg(IF migrated THEN "link migrated" ELSE "link", c, Main)>>,
               UNCHANGED <<made, held, channels, conn, wq, mq, worker>>
        PROVE  SessionInductive'
    <3> DEFINE m == Msg(IF migrated THEN "link migrated" ELSE "link", c, Main)
    <3>1. d \in held \ ending
      BY DEF SessionInductive, SetsOK
    <3>2. m \in Message({"release", "link", "link migrated"}) /\ m.c \notin made
      BY <2>1 DEF Msg, Message, Channels
    <3>3. mq' \in Seq(Named({"disconnect client", "complete"}))
      BY <2>3, Zenon DEF SessionInductive, QueuesOK
    <3>4. job' = <<Msg("destroy", d, Main), m>>
      BY <2>3, Zenon
    <3> HIDE DEF m
    <3> QED BY <2>3, <3>1, <3>2, <3>3, <3>4, <1>BeginStep, Zenon
  <2> QED BY <2>2, <2>3, Zenon DEF LinkMain
\* The second half of reds_handle_main_link, once the client that had to go is destroyed.
<1>LinkMainEndStep. ASSUME SessionInductive, LinkMainEnd PROVE SessionInductive'
  <2> USE <1>LinkMainEndStep
  <2> DEFINE c == Head(job).c
  <2>1. c \in Clients /\ c \notin made /\ job' = <<>>
    BY LinkMainEndFacts
  <2>2. NewClient(c, Head(job).k = "link migrated") /\ (Head(job).k = "link migrated") \in BOOLEAN
    BY Zenon DEF LinkMainEnd
  <2> HIDE DEF c
  <2> QED BY <2>1, <2>2, <1>NewClientStep, Zenon
\* reds_handle_other_links.
<1>LinkOtherStep.
      ASSUME SessionInductive, NEW c \in Clients, NEW ch \in Others \cup OfWorker, LinkOther(c, ch)
      PROVE  SessionInductive'
  <2> USE <1>LinkOtherStep
  <2> USE DEF SessionInductive
  <2>1. made' = made /\ held' = held /\ listed' = listed /\ ending' = ending /\ mq' = mq /\ job' = job /\ worker' = worker
    BY DEF LinkOther
  <2>2. SetsOK' /\ JobOK'
    BY <2>1, <1>SetsKeep, <1>JobKeep
  <2>3. c \in made /\ made \subseteq Clients
    BY UpMade DEF LinkOther, Up, SetsOK
  <2>4. LinkOf(ch) \in [near : SUBSET Channels, far : Seq(OfWorker)]
    <3>1. CASE ch \in OfWorker
      <4>1. <<ch>> \in Seq(OfWorker)
        BY <3>1
      <4> QED BY <3>1, <4>1 DEF LinkOf
    <3>2. CASE ch \notin OfWorker
      BY <3>2, EmptySequence DEF LinkOf, Channels
    <3> QED BY <3>1, <3>2
  <2>5. LinkOf(ch).near \in SUBSET Channels /\ LinkOf(ch).far \in Seq(OfWorker)
    BY <2>4
  <2>6. CASE /\ pending' = [pending EXCEPT ![c] = [near |-> pending[c].near \cup LinkOf(ch).near,
                                                  far |-> pending[c].far \o LinkOf(ch).far]]
             /\ UNCHANGED <<channels, conn, wq>>
    <3> DEFINE new == [near |-> pending[c].near \cup LinkOf(ch).near, far |-> pending[c].far \o LinkOf(ch).far]
    <3>1. pending[c] \in [near : SUBSET Channels, far : Seq(OfWorker)]
      BY DEF PendingOK
    <3>2. pending[c].near \in SUBSET Channels /\ pending[c].far \in Seq(OfWorker)
      BY <3>1
    <3>3. pending[c].far \o LinkOf(ch).far \in Seq(OfWorker)
      BY <2>5, <3>2, Concatenated
    <3>4. new \in [near : SUBSET Channels, far : Seq(OfWorker)]
      BY <2>5, <3>2, <3>3
    <3> HIDE DEF new
    <3>5. pending' = [pending EXCEPT ![c] = new]
      BY <2>6 DEF new
    <3>6. PendingOK'
      BY <3>4, <3>5 DEF PendingOK
    <3>7. ListsOK' /\ QueuesOK'
      BY <2>1, <2>6, Zenon DEF ListsOK, QueuesOK, Named
    <3> QED BY <2>2, <3>6, <3>7
  <2>7. CASE /\ SendConnects(c, LinkOf(ch).far) /\ Joins(c, Accepted(c, {ch}), Waiting(c, Accepted(c, {ch})))
             /\ UNCHANGED pending
    <3>1. Accepted(c, {ch}) \in SUBSET Channels
      BY DEF Accepted, Channels
    <3>2. ListsOK'
      BY <2>1, <2>3, <2>7, <3>1, <1>JoinsLists
    <3>3. QueuesOK'
      BY <2>1, <2>3, <2>5, <2>7, <1>ConnectsTyped, Zenon DEF QueuesOK, Named
    <3>4. PendingOK'
      BY <2>7 DEF PendingOK
    <3> QED BY <2>2, <3>2, <3>3, <3>4
  <2> QED BY <2>6, <2>7, Zenon DEF LinkOther
\* MainChannelClient::handle_migrate_dst_do_seamless and handle_migrate_end.
<1>TargetStep.
      ASSUME SessionInductive, NEW c \in Clients, DstDoSeamless(c) \/ DstRefuseSeamless(c) \/ MigrateEnd(c)
      PROVE  SessionInductive'
  <2> USE <1>TargetStep
  <2>1. /\ made' = made /\ held' = held /\ listed' = listed /\ ending' = ending /\ mq' = mq /\ job' = job
        /\ worker' = worker
    BY Zenon DEF DstDoSeamless, DstRefuseSeamless, MigrateEnd
  <2>2. SetsOK' /\ JobOK'
    BY <2>1, <1>SetsKeep, <1>JobKeep DEF SessionInductive
  <2>3. c \in made
    BY UpMade, Zenon DEF DstDoSeamless, DstRefuseSeamless, MigrateEnd, Up
  <2>4. CASE LinkPending(c, TRUE) \/ LinkPending(c, FALSE)
    BY <2>1, <2>2, <2>3, <2>4, <1>LinkPendingKeeps, Zenon DEF SessionInductive
  <2>5. CASE DstRefuseSeamless(c)
    BY <2>1, <2>2, <2>5, Zenon DEF DstRefuseSeamless, SessionInductive, ListsOK, PendingOK, QueuesOK, Named
  <2> QED BY <2>4, <2>5, Zenon DEF DstDoSeamless, MigrateEnd
\* A message to the main thread that names a client that was made.
<1>MessageSent.
      ASSUME QueuesOK, NEW c \in made, NEW ch \in Channels, NEW k \in {"disconnect client", "complete"}
      PROVE  Append(mq, Msg(k, c, ch)) \in Seq(Named({"disconnect client", "complete"}))
  <2> USE <1>MessageSent
  <2>1. Msg(k, c, ch) \in Named({"disconnect client", "complete"})
    BY Zenon DEF Msg, Named
  <2> QED BY <2>1, Appended, Zenon DEF QueuesOK
\* RedChannelClient::handle_migrate_data_early on either thread.
<1>MigrateDataStep.
      ASSUME SessionInductive, NEW c \in Clients, NEW ch \in Channels, MainMigrateData(c, ch) \/ WorkerMigrateData(c, ch)
      PROVE  SessionInductive'
  <2> USE <1>MigrateDataStep
  <2> USE DEF SessionInductive
  <2>1. MigrateData(c, ch) /\ c \in made
    BY UpMade DEF MainMigrateData, WorkerMigrateData, MigrateData
  <2>2. /\ made' = made /\ held' = held /\ listed' = listed /\ ending' = ending /\ channels' = channels /\ conn' = conn
        /\ pending' = pending /\ wq' = wq /\ job' = job /\ worker' = worker
    BY <2>1 DEF MigrateData
  <2>3. mq' = mq \/ mq' = Append(mq, Msg("complete", c, ch))
    BY DEF MainMigrateData, WorkerMigrateData
  <2>4. mq' \in Seq(Named({"disconnect client", "complete"}))
    BY <2>1, <2>3, <1>MessageSent, Zenon DEF QueuesOK
  <2>5. QueuesOK'
    BY <2>2, <2>4, Zenon DEF QueuesOK, Named
  <2> QED BY <2>2, <2>5, <1>SetsKeep, <1>JobKeep DEF ListsOK, PendingOK
\* A channel of the main thread is closed.
<1>MainCloseStep.
      ASSUME SessionInductive, NEW c \in Clients, NEW ch \in Channels, MainClose(c, ch)
      PROVE  SessionInductive'
  <2> USE <1>MainCloseStep
  <2> USE DEF SessionInductive
  <2>1. c \in made
    BY UpMade, Zenon DEF MainClose
  <2>2. /\ made' = made /\ held' = held /\ listed' = listed /\ ending' = ending /\ conn' \subseteq conn
        /\ pending' = pending /\ wq' = wq /\ job' = job /\ worker' = worker /\ RemoveChannel(c, ch)
    BY Zenon DEF MainClose, Unlists
  <2>3. mq' = mq \/ mq' = Append(mq, Msg("disconnect client", c, Main))
    BY Zenon DEF MainClose
  <2>4. mq' \in Seq(Named({"disconnect client", "complete"}))
    BY <2>1, <2>3, <1>MessageSent, Zenon DEF QueuesOK, Channels
  <2>5. QueuesOK'
    BY <2>2, <2>4, Zenon DEF QueuesOK, Named
  <2>6. ListsOK'
    BY <2>2, <1>RemoveLists
  <2> QED BY <2>2, <2>5, <2>6, <1>SetsKeep, <1>JobKeep DEF PendingOK
\* main_dispatcher_handle_client_disconnect.
<1>HandleDisconnectStep. ASSUME SessionInductive, HandleDisconnectClient PROVE SessionInductive'
  <2> USE <1>HandleDisconnectStep
  <2> DEFINE c == Head(mq).c
  <2>1. mq # <<>> /\ mq' = Tail(mq)
    BY Zenon DEF HandleDisconnectClient
  <2>2. c \in made /\ mq' \in Seq(Named({"disconnect client", "complete"}))
    BY <2>1, MessageTaken, Zenon DEF SessionInductive
  <2>3. made' = made /\ held' = held /\ channels' = channels /\ conn' = conn /\ wq' = wq /\ worker' = worker
    BY Zenon DEF HandleDisconnectClient
  <2>4. CASE c \in ending
    <3>1. listed' = listed /\ ending' = ending /\ pending' = pending /\ job' = job
      BY <2>4, Zenon DEF HandleDisconnectClient
    <3> QED BY <2>2, <2>3, <3>1, <1>SetsKeep, <1>JobKeep, Zenon DEF SessionInductive, ListsOK, PendingOK, QueuesOK, Named
  <2>5. CASE c \notin ending
    <3>1. BeginDisconnect(c) /\ job' = <<Msg("destroy", c, Main), Msg("release", c, Main)>>
      BY <2>5, Zenon DEF HandleDisconnectClient
    <3>2. c \in held \ ending /\ c \in Clients
      BY <2>2, <2>5, Zenon DEF SessionInductive, SetsOK
    <3>3. Msg("release", c, Main) \in Message({"release", "link", "link migrated"}) /\ Msg("release", c, Main).k = "release"
      BY <3>2 DEF Msg, Message, Channels
    <3> HIDE DEF c
    <3> QED BY <2>2, <2>3, <3>1, <3>2, <3>3, <1>BeginStep, Zenon
  <2> QED BY <2>4, <2>5
\* main_dispatcher_handle_migrate_complete.
<1>HandleCompleteStep. ASSUME SessionInductive, HandleComplete PROVE SessionInductive'
  <2> USE <1>HandleCompleteStep
  <2>1. mq # <<>> /\ mq' = Tail(mq)
    BY DEF HandleComplete
  <2>2. mq' \in Seq(Named({"disconnect client", "complete"}))
    BY <2>1, MessageTaken, Zenon DEF SessionInductive
  <2>3. /\ made' = made /\ held' = held /\ listed' = listed /\ ending' = ending /\ channels' = channels /\ conn' = conn
        /\ pending' = pending /\ wq' = wq /\ job' = job /\ worker' = worker
    BY DEF HandleComplete
  <2> QED BY <2>2, <2>3, <1>SetsKeep, <1>JobKeep, Zenon DEF SessionInductive, ListsOK, PendingOK, QueuesOK, Named
\* A round of the loop of RedClient::destroy.
<1>DestroyChannelStep. ASSUME SessionInductive, DestroyChannel PROVE SessionInductive'
  <2> USE <1>DestroyChannelStep
  <2> USE DEF SessionInductive
  <2> DEFINE c == Head(job).c
  <2>1. job # <<>> /\ Head(job).k = "destroy"
    BY DEF DestroyChannel
  <2>2. /\ Head(job) = job[1] /\ Head(job) \in Message(JobKinds) /\ 1 \in 1 .. Len(job)
        /\ Len(job) = 2
    BY <2>1, JobHead
  <2>3. c \in Clients /\ c \in held \cap ending /\ c \in made
    BY <2>1, <2>2, Zenon DEF Message, JobOK, JobNames, SetsOK
  <2>4. /\ made' = made /\ held' = held /\ listed' = listed /\ ending' = ending /\ pending' = pending /\ mq' = mq
        /\ worker' = worker
    BY DEF DestroyChannel
  <2>5. PICK ch \in channels[c] :
          /\ RemoveChannel(c, ch)
          /\ \/ /\ ch \in OfWorker /\ wq' = Append(wq, Msg("disconnect", c, ch)) /\ job' = Awaits(c, ch)
                /\ conn' = conn
             \/ Unlists(c, ch) /\ wq' = wq /\ job' = job
    BY DEF DestroyChannel
  <2>6. ch \in Channels
    BY <2>3, <2>5 DEF ListsOK
  <2>7. ListsOK'
    BY <2>3, <2>4, <2>5, <1>RemoveLists DEF Unlists
  <2>8. QueuesOK'
    <3>1. Msg("disconnect", c, ch) \in Named({"connect", "disconnect"})
      BY <2>3, <2>6 DEF Msg, Named
    <3>2. wq \in Seq(Named({"connect", "disconnect"}))
      BY Zenon DEF QueuesOK
    <3>3. Append(wq, Msg("disconnect", c, ch)) \in Seq(Named({"connect", "disconnect"}))
      BY <3>1, <3>2, Appended
    <3>4. wq' \in Seq(Named({"connect", "disconnect"}))
      BY <2>5, <3>2, <3>3
    <3> QED BY <2>4, <3>4, Zenon DEF QueuesOK, Named
  <2>9. JobOK'
    <3>1. CASE job' = job
      BY <2>4, <3>1, <1>JobKeep
    <3>2. CASE job' = Awaits(c, ch)
      <4>1. Msg("await", c, ch) \in Message(JobKinds) /\ Msg("await", c, ch).k = "await"
        BY <2>3, <2>6 DEF Msg, Message, JobKinds
      <4> DEFINE a == Msg("await", c, ch)
      <4>2. job \in Seq(Message(JobKinds))
        BY DEF JobOK, JobShape
      <4> HIDE DEF a, c
      <4>3. <<a>> \in Seq(Message(JobKinds)) /\ Len(<<a>>) = 1 /\ <<a>>[1] = a
        BY <4>1 DEF a
      <4>4. job' = <<a>> \o job
        BY <3>2 DEF Awaits, a, c
      <4>5. /\ job' \in Seq(Message(JobKinds)) /\ Len(job') = 1 + Len(job) /\ job'[1] = a
            /\ \A i \in 2 .. Len(job') : i - 1 \in 1 .. Len(job) /\ job'[i] = job[i - 1]
        BY <4>2, <4>3, <4>4, Concatenated, Lengths
      <4>6. ASSUME NEW i \in 1 .. Len(job') PROVE i + Depth(job'[i].k) = Len(job')
        <5>1. CASE i = 1
          <6>1. Depth(job'[1].k) = 2
            BY <4>1, <4>5 DEF Depth, a
          <6>2. Len(job') = 3
            BY <2>2, <4>5
          <6> QED BY <5>1, <6>1, <6>2
        <5>2. CASE i # 1
          <6>1. i \in 2 .. Len(job') /\ Len(job) \in Nat
            BY <4>2, <4>5, <5>2, Lengths
          <6>2. (i - 1) + Depth(job[i - 1].k) = Len(job) /\ job'[i] = job[i - 1]
            BY <4>5, <6>1 DEF JobOK, JobShape
          <6>3. Depth(job[i - 1].k) \in Nat
            BY DEF Depth
          <6>4. Depth(job'[i].k) = Depth(job[i - 1].k)
            BY <6>2
          <6>5. i \in Nat /\ Len(job') = 1 + Len(job)
            BY <4>5, <6>1
          <6>6. i + Depth(job[i - 1].k) = 1 + Len(job)
            BY <6>1, <6>2, <6>3, <6>5, <1>OneDeeper, Zenon
          <6> QED BY <6>4, <6>5, <6>6
        <5> QED BY <5>1, <5>2
      <4>7. ASSUME NEW i \in 1 .. Len(job')
            PROVE  /\ job'[i].k = "destroy" => job'[i].c \in held \cap ending
                   /\ job'[i].k \in {"link", "link migrated"} => job'[i].c \notin made
        <5>1. CASE i = 1
          BY <4>1, <4>5, <5>1, Zenon DEF a
        <5>2. CASE i # 1
          <6>1. i \in 2 .. Len(job')
            BY <2>2, <4>5, <5>2
          <6> QED BY <4>5, <6>1, Zenon DEF JobOK, JobNames
        <5> QED BY <5>1, <5>2, Zenon
      <4> QED BY <2>4, <4>5, <4>6, <4>7, Zenon DEF JobOK, JobShape, JobNames
    <3> QED BY <2>5, <3>1, <3>2
  <2> QED BY <2>4, <2>7, <2>8, <2>9, <1>SetsKeep DEF PendingOK
\* The acknowledgement came; the message is dealt with.
<1>ReturnStep. ASSUME SessionInductive, DestroyAcked \/ ReleaseMessage PROVE SessionInductive'
  <2> USE <1>ReturnStep
  <2>1. /\ job # <<>> /\ job' = Tail(job) /\ made' = made /\ held' = held /\ listed' = listed /\ ending' = ending
        /\ channels' = channels /\ conn' = conn /\ pending' = pending /\ wq' = wq /\ mq' = mq /\ worker' = worker
    BY DEF DestroyAcked, ReleaseMessage, migVars
  <2> QED BY <2>1, <1>SetsKeep, <1>ReturnKeep, Zenon DEF SessionInductive, ListsOK, PendingOK, QueuesOK, Named
\* The end of RedClient::destroy: the session is over.
<1>DestroyEndStep. ASSUME SessionInductive, DestroyEnd PROVE SessionInductive'
  <2> USE <1>DestroyEndStep
  <2> USE DEF SessionInductive
  <2> DEFINE c == Head(job).c
  <2>1. job # <<>> /\ Head(job).k = "destroy" /\ job' = Tail(job) /\ held' = held \ {c}
    BY DEF DestroyEnd
  <2>2. /\ Head(job) = job[1] /\ 1 \in 1 .. Len(job) /\ Len(job) = 2
    BY <2>1, JobHead
  <2>3. c \in held \cap ending
    BY <2>1, <2>2, Zenon DEF JobOK, JobNames
  <2>4. /\ made' = made /\ listed' = listed /\ ending' = ending /\ channels' = channels /\ conn' = conn
        /\ pending' = pending /\ wq' = wq /\ mq' = mq /\ worker' = worker
    BY DEF DestroyEnd, migVars
  <2>5. SetsOK'
    BY <2>1, <2>3, <2>4 DEF SetsOK
  <2>6. JobOK'
    <3>1. /\ JobShape(job') /\ \A i \in 1 .. Len(job') : i + 1 \in 1 .. Len(job) /\ job'[i] = job[i + 1]
      BY <2>1, JobReturns
    <3>2. ASSUME NEW i \in 1 .. Len(job') PROVE job'[i].k # "destroy"
      <4>1. i + 1 \in 1 .. Len(job) /\ job'[i] = job[i + 1] /\ (i + 1) + Depth(job[i + 1].k) = Len(job)
        BY <3>1 DEF JobOK, JobShape
      <4>2. CASE job'[i].k = "destroy"
        <5>1. Depth(job[i + 1].k) = 1
          BY <4>1, <4>2 DEF Depth
        <5>2. (i + 1) + 1 = 2 /\ i \in Nat /\ i >= 1
          BY <2>2, <4>1, <5>1
        <5> QED BY <5>2
      <4> QED BY <4>2
    <3> QED BY <2>4, <3>1, <3>2, Zenon DEF JobOK, JobShape, JobNames
  <2> QED BY <2>4, <2>5, <2>6, Zenon DEF ListsOK, PendingOK, QueuesOK, Named
\* The message at the head of the worker's queue is taken.
<1>WorkerTakes.
      ASSUME QueuesOK, wq # <<>>
      PROVE  /\ Head(wq) \in Named({"connect", "disconnect", "close"}) /\ Head(wq).c \in made /\ Head(wq).ch \in Channels
             /\ Tail(wq) \in Seq(Named({"connect", "disconnect"}))
  <2> USE <1>WorkerTakes
  <2>1. Head(wq) \in Named({"connect", "disconnect"}) /\ Tail(wq) \in Seq(Named({"connect", "disconnect"}))
    BY HeadTail, Zenon DEF QueuesOK
  <2> QED BY <2>1 DEF Named
\* The worker's steps that leave RedClient::channels alone.
<1>WorkerListStep.
      ASSUME SessionInductive, WorkerConnect \/ WorkerDisconnect \/ \E c \in Clients, ch \in Channels : WorkerClose(c, ch)
      PROVE  SessionInductive'
  <2> USE <1>WorkerListStep
  <2> USE DEF SessionInductive
  <2>1. /\ made' = made /\ held' = held /\ listed' = listed /\ ending' = ending /\ channels' = channels /\ conn' \subseteq conn
        /\ pending' = pending /\ mq' = mq /\ job' = job
    BY Zenon DEF WorkerConnect, WorkerDisconnect, WorkerClose, Unlists, migVars
  <2>2. wq' \in Seq(Named({"connect", "disconnect"}))
    <3>1. wq \in Seq(Named({"connect", "disconnect"}))
      BY Zenon DEF QueuesOK
    <3>2. wq' = wq \/ (wq # <<>> /\ wq' = Tail(wq))
      BY Zenon DEF WorkerConnect, WorkerDisconnect, WorkerClose
    <3> QED BY <3>1, <3>2, <1>WorkerTakes
  <2>3. worker' = Idle \/ worker' \in Named({"connect", "disconnect", "close"})
    <3>1. CASE WorkerConnect \/ WorkerDisconnect
      <4>1. wq # <<>> /\ (worker' = Head(wq) \/ worker' = worker)
        BY <3>1 DEF WorkerConnect, WorkerDisconnect
      <4> QED BY <4>1, <1>WorkerTakes, Zenon DEF QueuesOK
    <3>2. ASSUME NEW c \in Clients, NEW ch \in Channels, WorkerClose(c, ch)
          PROVE  worker' \in Named({"connect", "disconnect", "close"})
      <4>1. c \in made /\ worker' = Msg("close", c, ch)
        BY <3>2, UpMade DEF WorkerClose
      <4> QED BY <4>1 DEF Msg, Named
    <3> QED BY <3>1, <3>2
  <2>4. QueuesOK'
    BY <2>1, <2>2, <2>3, Zenon DEF QueuesOK, Named, Idle
  <2>5. ListsOK'
    BY <2>1 DEF ListsOK
  <2> QED BY <2>1, <2>4, <2>5, <1>SetsKeep, <1>JobKeep DEF PendingOK
\* RedClient::add_channel on the worker, and the end of RedChannelClient::disconnect there.
<1>WorkerEndStep. ASSUME SessionInductive, WorkerConnectEnd \/ WorkerRemove PROVE SessionInductive'
  <2> USE <1>WorkerEndStep
  <2> USE DEF SessionInductive
  <2>1. /\ made' = made /\ held' = held /\ listed' = listed /\ ending' = ending /\ pending' = pending /\ mq' = mq
        /\ wq' = wq /\ job' = job /\ worker' = Idle
    BY DEF WorkerConnectEnd, WorkerRemove, migVars
  <2>2. worker.c \in made /\ worker.c \in Clients /\ worker.ch \in Channels /\ made \subseteq Clients
    BY WorkerNames DEF WorkerConnectEnd, WorkerRemove, SetsOK
  <2>3. ListsOK'
    <3>1. CASE WorkerConnectEnd
      <4> DEFINE new == {ch \in {worker.ch} : ~Refuses(worker.c, ch)}
      <4>1. new \in SUBSET Channels
        BY <2>2
      <4>2. Joins(worker.c, new, Waiting(worker.c, new))
        BY <3>1 DEF WorkerConnectEnd
      <4> HIDE DEF new
      <4> QED BY <2>1, <2>2, <4>1, <4>2, <1>JoinsLists
    <3>2. CASE WorkerRemove
      BY <2>1, <2>2, <3>2, <1>RemoveLists DEF WorkerRemove
    <3> QED BY <3>1, <3>2
  <2>4. QueuesOK'
    BY <2>1, Zenon DEF QueuesOK, Named
  <2> QED BY <2>1, <2>3, <2>4, <1>SetsKeep, <1>JobKeep DEF PendingOK
<1> SUFFICES ASSUME SessionInductive, [Next]_vars PROVE SessionInductive'
  OBVIOUS
<1>1. CASE FromClient
  <2>1. PICK c \in Clients :
          \/ \E migrated \in BOOLEAN : LinkMain(c, migrated)
          \/ \E ch \in Others \cup OfWorker : LinkOther(c, ch)
          \/ DstDoSeamless(c) \/ DstRefuseSeamless(c) \/ MigrateEnd(c)
          \/ \E ch \in Channels : MainMigrateData(c, ch) \/ WorkerMigrateData(c, ch) \/ MainClose(c, ch) \/ WorkerClose(c, ch)
    BY <1>1 DEF FromClient
  <2> QED BY <2>1, <1>LinkMainStep, <1>LinkOtherStep, <1>TargetStep, <1>MigrateDataStep, <1>MainCloseStep, <1>WorkerListStep
<1>2. CASE MainStep
  BY <1>2, <1>HandleDisconnectStep, <1>HandleCompleteStep, <1>DestroyChannelStep, <1>ReturnStep, <1>DestroyEndStep, <1>LinkMainEndStep
  DEF MainStep
<1>3. CASE WorkerStep
  BY <1>3, <1>WorkerListStep, <1>WorkerEndStep DEF WorkerStep
<1>4. CASE UNCHANGED vars
  <2>1. /\ made' = made /\ held' = held /\ listed' = listed /\ ending' = ending /\ channels' = channels /\ conn' = conn
        /\ pending' = pending /\ mq' = mq /\ wq' = wq /\ job' = job /\ worker' = worker
    BY <1>4 DEF vars, migVars
  <2> QED BY <2>1, <1>SetsKeep, <1>JobKeep, Zenon DEF SessionInductive, ListsOK, PendingOK, QueuesOK, Named
<1> QED BY <1>1, <1>2, <1>3, <1>4 DEF Next

\* It holds when the server starts.
LEMMA InductiveInit == Init => SessionInductive
<1> SUFFICES ASSUME Init PROVE SessionInductive
  OBVIOUS
<1>1. SetsOK /\ ListsOK
  BY DEF Init, SetsOK, ListsOK
<1>2. PendingOK
  <2>1. NoLinks \in [near : SUBSET Channels, far : Seq(OfWorker)]
    BY EmptySequence DEF NoLinks
  <2> QED BY <2>1 DEF Init, PendingOK
<1>3. QueuesOK
  BY EmptySequence DEF Init, QueuesOK
<1>4. JobOK
  BY EmptySequence DEF Init, JobOK, JobShape, JobNames
<1> QED BY <1>1, <1>2, <1>3, <1>4 DEF SessionInductive

\* Who may be named where, at all times: lists, queues and calls in progress.
THEOREM AlwaysSessionInductive == Spec => []SessionInductive
BY InductiveInit, InductiveStep, PTL DEF Spec

-----------------------------------------------------------------------------
(* The hand-over of a channel client between the threads *)

\* RedClient::destroy waits for the worker to disconnect what m names.
AwaitingIn(q, a, m) == q # <<>> /\ Head(q) = Msg("await", m.c, m.ch) /\ ~a

\* A message in the worker's queue is about a channel of the worker, and a disconnection there
\* is the one that destroy waits for; there is at most one.
InQueue(m) == m.ch \in OfWorker /\ (m.k = "disconnect" => AwaitingIn(job, acked, m) /\ worker.k # "disconnect")

Queued == \A i \in 1 .. Len(wq) : InQueue(wq[i])

Once(q) == \A i, j \in 1 .. Len(q) : q[i].k = "disconnect" /\ q[j].k = "disconnect" => i = j

\* A channel client that the worker is removing has left the channel's list.  It is still in
\* its client's, or destroy took it from there and waits.
WorkerAt ==
  /\ worker.k # "idle" => worker.ch \in OfWorker
  /\ worker.k = "disconnect" => AwaitingIn(job, acked, worker)
  /\ worker.k \in {"disconnect", "close"} => <<worker.c, worker.ch>> \notin conn
  /\ worker.k = "close" => worker.ch \in channels[worker.c] \/ AwaitingIn(job, acked, worker)

\* What destroy waits for, it took from its client's list, and it cannot come back.
AwaitAt ==
  job # <<>> /\ Head(job).k = "await" =>
    /\ Head(job).c \in held \cap ending
    /\ Head(job).ch \notin channels[Head(job).c] /\ Head(job).ch \in OfWorker

\* A session that is over has no channel; one that is neither over nor listed is being destroyed.
Going(q, c) == \E i \in 1 .. Len(q) : q[i].k = "destroy" /\ q[i].c = c

SessionsAt ==
  /\ \A c \in made \ held : channels[c] = {}
  /\ \A c \in held \cap ending : Going(job, c)
  /\ listed = made \ ending

Agreement == Queued /\ Once(wq) /\ WorkerAt /\ AwaitAt /\ SessionsAt /\ ListsAgree

-----------------------------------------------------------------------------
(* Lemmas on queues and calls *)

\* What follows the head of a queue.
LEMMA TailOf ==
  ASSUME NEW S, NEW q \in Seq(S), q # <<>>, NEW i \in 1 .. Len(Tail(q))
  PROVE  i + 1 \in 1 .. Len(q) /\ Tail(q)[i] = q[i + 1]
<1>1. Len(q) \in Nat /\ Len(q) > 0 /\ Len(Tail(q)) = Len(q) - 1 /\ Tail(q)[i] = q[i + 1]
  BY HeadTail
<1> QED BY <1>1

\* A queue grows by messages that are no disconnections.
Grown(q, r) ==
  \A i \in 1 .. Len(r) : \/ i \in 1 .. Len(q) /\ r[i] = q[i]
                         \/ r[i].k = "connect" /\ r[i].ch \in OfWorker

-----------------------------------------------------------------------------
(* Consequences of the invariant *)

\* A connected channel client is of a session that is not over.
LEMMA ConnHeld ==
  ASSUME SessionInductive, Agreement, NEW c, NEW ch, <<c, ch>> \in conn
  PROVE  c \in held /\ c \in Clients /\ ch \in Channels
<1>1. c \in made /\ c \in Clients /\ ch \in Channels
  BY UpMade
<1>2. CASE ch \in channels[c]
  BY <1>1, <1>2 DEF Agreement, SessionsAt
<1>3. CASE ch \notin channels[c]
  <2>1. \/ worker.k \in {"disconnect", "close"} /\ worker.c = c /\ worker.ch = ch
        \/ job # <<>> /\ Head(job) = Msg("await", c, ch) /\ ~acked
    BY <1>1, <1>3 DEF Agreement, ListsAgree
  <2>2. job # <<>> /\ Head(job) = Msg("await", c, ch)
    BY <2>1 DEF Agreement, WorkerAt
  <2>3. Head(job).k = "await" /\ Head(job).c = c
    BY <2>2 DEF Msg
  <2> QED BY <1>1, <2>2, <2>3 DEF Agreement, AwaitAt
<1> QED BY <1>1, <1>2, <1>3

\* Between the handlers of the main thread a connected client is open and in reds->clients.
LEMMA UpOpen ==
  ASSUME SessionInductive, Agreement, job = <<>>, NEW c, NEW ch, <<c, ch>> \in conn
  PROVE  c \in held /\ c \notin ending /\ c \in listed /\ c \in Clients
<1>1. c \in held /\ c \in Clients
  BY ConnHeld
<1>2. ~Going(job, c)
  BY DEF Going
<1> QED BY <1>1, <1>2 DEF Agreement, SessionsAt, SessionInductive, SetsOK

-----------------------------------------------------------------------------
(* The steps *)

\* Every step of either thread keeps the agreement.
LEMMA AgreementStep ==
  SessionInductive /\ Agreement /\ [Next]_vars => Agreement'
\* If a disconnection is at the head there is none behind it.
<1>OnceTail.
      ASSUME NEW S, NEW q \in Seq(S), q # <<>>, Once(q)
      PROVE  Once(Tail(q)) /\ (Head(q).k = "disconnect" => \A i \in 1 .. Len(Tail(q)) : Tail(q)[i].k # "disconnect")
  <2> USE <1>OnceTail
  <2>1. \A i \in 1 .. Len(Tail(q)) : i + 1 \in 1 .. Len(q) /\ Tail(q)[i] = q[i + 1]
    BY TailOf
  <2>2. ASSUME NEW i \in 1 .. Len(Tail(q)), NEW j \in 1 .. Len(Tail(q)),
               Tail(q)[i].k = "disconnect" /\ Tail(q)[j].k = "disconnect"
        PROVE  i = j
    <3>1. i + 1 = j + 1
      BY <2>1, <2>2 DEF Once
    <3> QED BY <3>1
  <2>3. ASSUME Head(q).k = "disconnect", NEW i \in 1 .. Len(Tail(q)), Tail(q)[i].k = "disconnect" PROVE FALSE
    <3>1. Head(q) = q[1] /\ Len(q) > 0 /\ Len(q) \in Nat
      BY HeadTail
    <3>2. 1 \in 1 .. Len(q)
      BY <3>1
    <3>3. i + 1 = 1
      BY <2>1, <2>3, <3>1, <3>2 DEF Once
    <3> QED BY <3>3
  <2> QED BY <2>2, <2>3 DEF Once
\* A queue that grew by no disconnection still holds at most one.
<1>OnceGrown. ASSUME NEW q, NEW r, Once(q), Grown(q, r) PROVE Once(r)
  BY <1>OnceGrown DEF Once, Grown
\* The messages that connect a client's channels of the worker are no disconnections.
<1>ConnectsGrow.
      ASSUME QueuesOK, NEW c \in made, NEW far \in Seq(OfWorker), SendConnects(c, far)
      PROVE  Grown(wq, wq')
  <2> USE <1>ConnectsGrow
  <2> DEFINE new == [i \in DOMAIN far |-> Msg("connect", c, far[i])]
  <2>1. Len(far) \in Nat /\ DOMAIN far = 1 .. Len(far) /\ \A i \in 1 .. Len(far) : far[i] \in OfWorker
    BY Lengths, ElementIn
  <2>2. new \in [1 .. Len(far) -> Named({"connect", "disconnect"})]
    <3>1. \A i \in 1 .. Len(far) : Msg("connect", c, far[i]) \in Named({"connect", "disconnect"})
      BY <2>1 DEF Msg, Named, Channels
    <3> QED BY <2>1, <3>1
  <2>3. new \in Seq(Named({"connect", "disconnect"}))
    BY <2>1, <2>2, SequencesOver
  <2>4. \A i \in DOMAIN new : new[i].k = "connect" /\ new[i].ch \in OfWorker
    BY <2>1 DEF Msg
  <2> HIDE DEF new
  <2>5. wq' = wq \o new /\ wq \in Seq(Named({"connect", "disconnect"}))
    BY Zenon DEF SendConnects, new, QueuesOK
  <2>6. Len(wq) \in Nat /\ Len(new) \in Nat /\ DOMAIN new = 1 .. Len(new)
    BY <2>3, <2>5, Lengths
  <2>7. /\ Len(wq') = Len(wq) + Len(new)
        /\ \A i \in 1 .. Len(wq') : wq'[i] = IF i <= Len(wq) THEN wq[i] ELSE new[i - Len(wq)]
    BY <2>3, <2>5, Concatenated
  <2>8. ASSUME NEW i \in 1 .. Len(wq'), ~(i \in 1 .. Len(wq)) PROVE i - Len(wq) \in 1 .. Len(new) /\ ~(i <= Len(wq))
    BY <2>6, <2>7, <2>8
  <2>9. ASSUME NEW i \in 1 .. Len(wq')
        PROVE  \/ i \in 1 .. Len(wq) /\ wq'[i] = wq[i]
               \/ wq'[i].k = "connect" /\ wq'[i].ch \in OfWorker
    <3>1. CASE i \in 1 .. Len(wq)
      <4>1. i <= Len(wq)
        BY <2>6, <3>1
      <4> QED BY <2>7, <3>1, <4>1
    <3>2. CASE i \notin 1 .. Len(wq)
      <4>1. i - Len(wq) \in DOMAIN new /\ ~(i <= Len(wq))
        BY <2>6, <2>8, <3>2
      <4>2. wq'[i] = new[i - Len(wq)]
        BY <2>7, <4>1
      <4> QED BY <2>4, <4>1, <4>2
    <3> QED BY <3>1, <3>2
  <2> QED BY <2>9 DEF Grown
\* A disconnection is appended to a queue that has none.
<1>OnceAppend.
      ASSUME NEW S, NEW q \in Seq(S), NEW m \in S, \A i \in 1 .. Len(q) : q[i].k # "disconnect"
      PROVE  /\ Once(Append(q, m))
             /\ \A i \in 1 .. Len(Append(q, m)) : \/ i \in 1 .. Len(q) /\ Append(q, m)[i] = q[i]
                                                  \/ Append(q, m)[i] = m
  <2> USE <1>OnceAppend
  <2> DEFINE r == Append(q, m)
  <2>1. Len(q) \in Nat /\ Len(r) = Len(q) + 1 /\ r[Len(q) + 1] = m /\ \A i \in 1 .. Len(q) : r[i] = q[i]
    BY Appended, Lengths
  <2> HIDE DEF r
  <2>2. ASSUME NEW i \in 1 .. Len(r) PROVE i \in 1 .. Len(q) \/ i = Len(q) + 1
    BY <2>1
  <2>3. \A i \in 1 .. Len(r) : (i \in 1 .. Len(q) /\ r[i] = q[i]) \/ (i = Len(q) + 1 /\ r[i] = m)
    BY <2>1, <2>2
  <2>4. \A i \in 1 .. Len(r) : r[i].k = "disconnect" => i = Len(q) + 1
    BY <2>3
  <2> QED BY <2>3, <2>4 DEF Once, r
\* A call returns that is not the destroy of c: the destroy of c goes on.
<1>GoingOn.
      ASSUME JobOK, job # <<>>, NEW c, Going(job, c), Head(job).k # "destroy" \/ Head(job).c # c
      PROVE  Going(Tail(job), c)
  <2> USE <1>GoingOn
  <2>1. job \in Seq(Message(JobKinds)) /\ Head(job) = job[1]
    BY JobHead DEF JobOK, JobShape
  <2>2. PICK i \in 1 .. Len(job) : job[i].k = "destroy" /\ job[i].c = c
    BY DEF Going
  <2>3. i # 1 /\ i \in Nat /\ i >= 1
    BY <2>1, <2>2
  <2>4. Len(Tail(job)) = Len(job) - 1 /\ Len(job) \in Nat /\ \A n \in 1 .. Len(Tail(job)) : Tail(job)[n] = job[n + 1]
    BY <2>1, HeadTail
  <2>5. i - 1 \in 1 .. Len(Tail(job)) /\ (i - 1) + 1 = i
    BY <2>3, <2>4
  <2>6. Tail(job)[i - 1] = job[i]
    BY <2>4, <2>5
  <2> QED BY <2>2, <2>5, <2>6, Zenon DEF Going
\* One more call inside.
<1>GoingInside.
      ASSUME JobOK, NEW a \in Message(JobKinds), NEW c, Going(job, c)
      PROVE  Going(<<a>> \o job, c) /\ Head(<<a>> \o job) = a
  <2> USE <1>GoingInside
  <2> DEFINE r == <<a>> \o job
  <2>1. job \in Seq(Message(JobKinds)) /\ <<a>> \in Seq(Message(JobKinds)) /\ Len(<<a>>) = 1 /\ <<a>>[1] = a
    BY DEF JobOK, JobShape
  <2>2. /\ r \in Seq(Message(JobKinds)) /\ Len(r) = 1 + Len(job) /\ Len(job) \in Nat
        /\ \A i \in 1 .. Len(r) : r[i] = IF i <= 1 THEN <<a>>[i] ELSE job[i - 1]
    BY <2>1, Concatenated, Lengths
  <2> HIDE DEF r
  <2>3. PICK i \in 1 .. Len(job) : job[i].k = "destroy" /\ job[i].c = c
    BY DEF Going
  <2>4. i + 1 \in 1 .. Len(r) /\ ~(i + 1 <= 1) /\ (i + 1) - 1 = i
    BY <2>2
  <2>5. r[i + 1] = job[i]
    BY <2>2, <2>4
  <2>6. 1 \in 1 .. Len(r) /\ r # <<>>
    BY <2>2
  <2>7. Head(r) = r[1] /\ r[1] = a
    BY <2>1, <2>2, <2>6, HeadTail
  <2> QED BY <2>3, <2>4, <2>5, <2>7, Zenon DEF Going, r
\* Nothing is awaited.
<1>NoneAwaiting.
      ASSUME Agreement, job = <<>> \/ Head(job).k # "await"
      PROVE  /\ \A m : ~AwaitingIn(job, acked, m)
             /\ \A i \in 1 .. Len(wq) : wq[i].k # "disconnect" /\ wq[i].ch \in OfWorker
             /\ worker.k # "disconnect" /\ (worker.k = "close" => worker.ch \in channels[worker.c])
             /\ \A c \in Clients, ch \in Channels : (<<c, ch>> \in conn) # (ch \in channels[c]) =>
                  worker.k \in {"disconnect", "close"} /\ worker.c = c /\ worker.ch = ch
  <2> USE <1>NoneAwaiting
  <2>1. ASSUME NEW c, NEW ch PROVE ~(job # <<>> /\ Head(job) = Msg("await", c, ch))
    <3>1. Msg("await", c, ch).k = "await"
      BY DEF Msg
    <3> QED BY <3>1
  <2>2. \A m : ~AwaitingIn(job, acked, m)
    BY <2>1 DEF AwaitingIn
  <2>3. \A i \in 1 .. Len(wq) : wq[i].k # "disconnect" /\ wq[i].ch \in OfWorker
    BY <2>2 DEF Agreement, Queued, InQueue
  <2> QED BY <2>1, <2>2, <2>3 DEF Agreement, WorkerAt, ListsAgree
\* A step that leaves the lists, the queue, the calls and the sets of clients alone.
<1>AgreementKept.
      ASSUME Agreement, made' = made, held' = held, listed' = listed, ending' = ending, channels' = channels, conn' = conn,
             wq' = wq, job' = job, acked' = acked, worker' = worker
      PROVE  Agreement'
  <2> USE <1>AgreementKept
  <2>1. Queued' /\ Once(wq)' /\ WorkerAt'
    BY DEF Agreement, Queued, InQueue, Once, WorkerAt, AwaitingIn
  <2>2. AwaitAt' /\ SessionsAt' /\ ListsAgree'
    BY DEF Agreement, AwaitAt, SessionsAt, Going, ListsAgree
  <2> QED BY <2>1, <2>2 DEF Agreement
\* Channels of the main thread join an open client, with no other call of the main thread in
\* progress; links of the worker's channels are sent.
<1>JoinsAgree.
      ASSUME SessionInductive, Agreement, NEW c \in Clients, NEW chs \in SUBSET (Channels \ OfWorker), c \notin ending, c \in held',
             channels' = [channels EXCEPT ![c] = channels[c] \cup chs], conn' = conn \cup {<<c, ch>> : ch \in chs},
             Grown(wq, wq'), worker' = worker, acked' = acked, job' = <<>>, job = <<>> \/ Head(job).k \notin {"await", "destroy"},
             held' \cap ending \subseteq held \cap ending, made' \ held' \subseteq made \ held, ending' = ending,
             listed' = made' \ ending'
      PROVE  Agreement'
  <2> USE <1>JoinsAgree
  <2>1. /\ \A i \in 1 .. Len(wq) : wq[i].k # "disconnect" /\ wq[i].ch \in OfWorker
        /\ worker.k # "disconnect" /\ (worker.k = "close" => worker.ch \in channels[worker.c])
        /\ \A d \in Clients, ch \in Channels : (<<d, ch>> \in conn) # (ch \in channels[d]) =>
                worker.k \in {"disconnect", "close"} /\ worker.c = d /\ worker.ch = ch
    BY <1>NoneAwaiting
  <2>2. \A d \in Clients : channels'[d] = IF d = c THEN channels[c] \cup chs ELSE channels[d]
    BY DEF SessionInductive, ListsOK
  <2>3. Queued'
    <3>1. ASSUME NEW i \in 1 .. Len(wq') PROVE wq'[i].k # "disconnect" /\ wq'[i].ch \in OfWorker
      BY <2>1 DEF Grown
    <3> QED BY <3>1 DEF Queued, InQueue
  <2>4. Once(wq')
    BY <1>OnceGrown DEF Agreement
  <2>5. WorkerAt'
    <3>1. worker.k # "idle" => worker.ch \in OfWorker
      BY DEF Agreement, WorkerAt
    <3>2. worker.k = "close" => <<worker.c, worker.ch>> \notin conn'
      BY <3>1 DEF Agreement, WorkerAt
    <3>3. worker.k = "close" => worker.ch \in channels'[worker.c]
      <4>1. worker.k = "close" => worker.c \in Clients
        BY WorkerNames
      <4> QED BY <2>1, <2>2, <4>1
    <3> QED BY <2>1, <3>1, <3>2, <3>3 DEF WorkerAt
  <2>6. AwaitAt'
    BY DEF AwaitAt
  <2>7. SessionsAt'
    <3>1. ASSUME NEW d \in made' \ held' PROVE channels'[d] = {}
      BY <2>2 DEF Agreement, SessionsAt, SessionInductive, SetsOK
    <3>2. ASSUME NEW d \in held' \cap ending' PROVE FALSE
      <4>1. Going(job, d)
        BY <3>2 DEF Agreement, SessionsAt
      <4>2. job # <<>>
        BY <4>1 DEF Going
      <4>3. JobOK
        BY DEF SessionInductive
      <4>4. Len(job) = 1 /\ Head(job) = job[1]
        BY <4>2, <4>3, JobHead
      <4>5. \A i \in 1 .. Len(job) : i = 1
        BY <4>4
      <4> QED BY <4>1, <4>2, <4>4, <4>5 DEF Going
    <3> QED BY <3>1, <3>2 DEF SessionsAt
  <2>8. ListsAgree'
    <3>1. ASSUME NEW d \in Clients, NEW ch \in Channels, (<<d, ch>> \in conn') # (ch \in channels'[d])
          PROVE  (<<d, ch>> \in conn) # (ch \in channels[d])
      BY <2>2, <3>1
    <3> QED BY <2>1, <3>1 DEF ListsAgree
  <2> QED BY <2>3, <2>4, <2>5, <2>6, <2>7, <2>8 DEF Agreement
\* The same queue.
<1>GrownSame. ASSUME NEW q PROVE Grown(q, q)
  BY <1>GrownSame DEF Grown
\* reds_handle_main_link makes a client.
<1>NewClientAgrees.
      ASSUME SessionInductive, Agreement, NEW c \in Clients, c \notin made, NEW migrated \in BOOLEAN, NewClient(c, migrated),
             job' = <<>>, job = <<>> \/ Head(job).k \notin {"await", "destroy"}
      PROVE  Agreement'
  <2> USE <1>NewClientAgrees
  <2>1. /\ made' = made \cup {c} /\ held' = held \cup {c} /\ listed' = listed \cup {c} /\ ending' = ending
        /\ wq' = wq /\ worker' = worker /\ acked' = acked
        /\ channels' = [channels EXCEPT ![c] = channels[c] \cup {Main}] /\ conn' = conn \cup {<<c, ch>> : ch \in {Main}}
    BY DEF NewClient, Joins
  <2>2. {Main} \in SUBSET (Channels \ OfWorker)
    BY LifecycleAssumption DEF Channels
  <2>3. c \notin ending /\ held' \cap ending \subseteq held \cap ending /\ made' \ held' \subseteq made \ held
        /\ listed' = made' \ ending'
    BY <2>1 DEF SessionInductive, SetsOK, Agreement, SessionsAt
  <2>4. Grown(wq, wq')
    BY <2>1, <1>GrownSame
  <2> QED BY <2>1, <2>2, <2>3, <2>4, <1>JoinsAgree, Zenon
\* reds_client_disconnect begins.
<1>BeginAgrees.
      ASSUME SessionInductive, Agreement, job = <<>>, NEW d \in held \ ending, BeginDisconnect(d), NEW m,
             job' = <<Msg("destroy", d, Main), m>>, made' = made, held' = held, channels' = channels, conn' = conn,
             wq' = wq, worker' = worker, acked' = acked
      PROVE  Agreement'
  <2> USE <1>BeginAgrees
  <2>1. /\ \A i \in 1 .. Len(wq) : wq[i].k # "disconnect" /\ wq[i].ch \in OfWorker
        /\ worker.k # "disconnect" /\ (worker.k = "close" => worker.ch \in channels[worker.c])
        /\ \A c \in Clients, ch \in Channels : (<<c, ch>> \in conn) # (ch \in channels[c]) =>
                worker.k \in {"disconnect", "close"} /\ worker.c = c /\ worker.ch = ch
    BY <1>NoneAwaiting
  <2>2. ending' = ending \cup {d} /\ listed' = listed \ {d}
    BY DEF BeginDisconnect
  <2>3. Head(job') = Msg("destroy", d, Main) /\ Head(job').k = "destroy"
    BY HeadOfPair DEF Msg
  <2>4. Queued' /\ Once(wq)' /\ WorkerAt'
    BY <2>1 DEF Queued, InQueue, Agreement, Once, WorkerAt
  <2>5. AwaitAt'
    BY <2>3 DEF AwaitAt
  <2>6. SessionsAt'
    <3>1. ASSUME NEW c \in held' \cap ending' PROVE Going(job', c)
      <4>1. CASE c = d
        <5>1. Len(job') = 2 /\ job'[1] = Msg("destroy", d, Main)
          OBVIOUS
        <5>2. 1 \in 1 .. Len(job') /\ job'[1].k = "destroy" /\ job'[1].c = d
          BY <5>1 DEF Msg
        <5> QED BY <4>1, <5>2 DEF Going
      <4>2. CASE c # d
        <5>1. Going(job, c)
          BY <2>2, <4>2 DEF Agreement, SessionsAt
        <5> QED BY <5>1 DEF Going
      <4> QED BY <4>1, <4>2
    <3> QED BY <2>2, <3>1 DEF Agreement, SessionsAt
  <2>7. ListsAgree'
    BY <2>1 DEF ListsAgree
  <2> QED BY <2>4, <2>5, <2>6, <2>7 DEF Agreement
\* reds_handle_main_link: a new client, or first the end of the ones there are.
<1>LinkMainAgrees.
      ASSUME SessionInductive, Agreement, NEW c \in Clients, NEW migrated \in BOOLEAN, LinkMain(c, migrated)
      PROVE  Agreement'
  <2> USE <1>LinkMainAgrees
  <2>1. job = <<>> /\ c \notin made
    BY Zenon DEF LinkMain, MainIdle
  <2>2. CASE NewClient(c, migrated) /\ job' = job
    BY <2>1, <2>2, <1>NewClientAgrees
  <2>3. ASSUME NEW d \in listed, BeginDisconnect(d),
               job' = <<Msg("destroy", d, Main), Msg(IF migrated THEN "link migrated" ELSE "link", c, Main)>>,
               UNCHANGED <<made, held, channels, conn, wq, acked, worker>>
        PROVE  Agreement'
    <3> DEFINE m == Msg(IF migrated THEN "link migrated" ELSE "link", c, Main)
    <3>1. d \in held \ ending
      BY DEF SessionInductive, SetsOK
    <3>2. job' = <<Msg("destroy", d, Main), m>>
      BY <2>3, Zenon
    <3> HIDE DEF m
    <3> QED BY <2>1, <2>3, <3>1, <3>2, <1>BeginAgrees, Zenon
  <2> QED BY <2>2, <2>3, Zenon DEF LinkMain
\* reds_handle_main_link goes on when the other clients are gone.
<1>LinkMainEndAgrees. ASSUME SessionInductive, Agreement, LinkMainEnd PROVE Agreement'
  <2> USE <1>LinkMainEndAgrees
  <2> DEFINE c == Head(job).c
  <2>1. c \in Clients /\ c \notin made /\ job' = <<>>
    BY LinkMainEndFacts
  <2>2. NewClient(c, Head(job).k = "link migrated") /\ (Head(job).k = "link migrated") \in BOOLEAN
        /\ Head(job).k \notin {"await", "destroy"}
    BY Zenon DEF LinkMainEnd
  <2> HIDE DEF c
  <2> QED BY <2>1, <2>2, <1>NewClientAgrees, Zenon
\* Links of channels, activated by reds_handle_other_links or reds_link_mig_target_channels.
<1>LinkedAgrees.
      ASSUME SessionInductive, Agreement, job = <<>>, NEW c, Up(c), NEW chs \in SUBSET (Channels \ OfWorker), NEW wait,
             NEW far \in Seq(OfWorker), SendConnects(c, far), Joins(c, chs, wait),
             made' = made, held' = held, listed' = listed, ending' = ending, job' = job, acked' = acked, worker' = worker
      PROVE  Agreement'
  <2> USE <1>LinkedAgrees
  <2>1. c \in held /\ c \notin ending /\ c \in listed /\ c \in Clients /\ c \in made
    BY UpOpen DEF Up, SessionInductive, SetsOK
  <2>2. channels' = [channels EXCEPT ![c] = channels[c] \cup chs] /\ conn' = conn \cup {<<c, ch>> : ch \in chs}
    BY DEF Joins
  <2>3. Grown(wq, wq')
    BY <2>1, <1>ConnectsGrow DEF SessionInductive
  <2>4. listed' = made' \ ending'
    BY DEF Agreement, SessionsAt
  <2> QED BY <2>1, <2>2, <2>3, <2>4, <1>JoinsAgree, Zenon
\* Those accepted on the main thread are channels of the main thread.
<1>AcceptedNear. ASSUME NEW c, NEW chs PROVE Accepted(c, chs) \in SUBSET (Channels \ OfWorker)
  BY <1>AcceptedNear, LifecycleAssumption DEF Accepted, Channels
\* reds_handle_other_links: a channel of the main thread joins at once, one of the worker by a message.
<1>LinkOtherAgrees.
      ASSUME SessionInductive, Agreement, NEW c \in Clients, NEW ch \in Others \cup OfWorker, LinkOther(c, ch)
      PROVE  Agreement'
  <2> USE <1>LinkOtherAgrees
  <2>1. /\ made' = made /\ held' = held /\ listed' = listed /\ ending' = ending /\ job' = job /\ acked' = acked
        /\ worker' = worker /\ job = <<>> /\ Up(c)
    BY DEF LinkOther, MainIdle
  <2>2. LinkOf(ch).far \in Seq(OfWorker)
    <3>1. CASE ch \in OfWorker
      <4>1. <<ch>> \in Seq(OfWorker)
        BY <3>1
      <4> QED BY <3>1, <4>1 DEF LinkOf
    <3>2. CASE ch \notin OfWorker
      BY <3>2, EmptySequence DEF LinkOf
    <3> QED BY <3>1, <3>2
  <2>3. CASE UNCHANGED <<channels, conn, wq>>
    BY <2>1, <2>3, <1>AgreementKept
  <2>4. CASE SendConnects(c, LinkOf(ch).far) /\ Joins(c, Accepted(c, {ch}), Waiting(c, Accepted(c, {ch})))
    BY <2>1, <2>2, <2>4, <1>AcceptedNear, <1>LinkedAgrees
  <2> QED BY <2>3, <2>4, Zenon DEF LinkOther
\* The migration messages of the main channel: pending links become channel clients.
<1>TargetAgrees.
      ASSUME SessionInductive, Agreement, NEW c \in Clients, DstDoSeamless(c) \/ DstRefuseSeamless(c) \/ MigrateEnd(c)
      PROVE  Agreement'
  <2> USE <1>TargetAgrees
  <2>1. /\ made' = made /\ held' = held /\ listed' = listed /\ ending' = ending /\ job' = job /\ acked' = acked
        /\ worker' = worker /\ job = <<>> /\ Up(c)
    BY Zenon DEF DstDoSeamless, DstRefuseSeamless, MigrateEnd, MainIdle
  <2>2. ASSUME NEW wait, LinkPending(c, wait) PROVE Agreement'
    <3> DEFINE new == Accepted(c, pending[c].near)
    <3>1. pending[c] \in [near : SUBSET Channels, far : Seq(OfWorker)]
      BY DEF SessionInductive, PendingOK
    <3>2. pending[c].far \in Seq(OfWorker)
      BY <3>1
    <3>3. SendConnects(c, pending[c].far) /\ Joins(c, new, IF wait THEN channels[c] \cup new ELSE {})
      BY <2>2 DEF LinkPending
    <3>4. new \in SUBSET (Channels \ OfWorker)
      BY <1>AcceptedNear
    <3> HIDE DEF new
    <3> QED BY <2>1, <3>2, <3>3, <3>4, <1>LinkedAgrees
  <2>3. CASE DstRefuseSeamless(c)
    <3>1. channels' = channels /\ conn' = conn /\ wq' = wq
      BY <2>3 DEF DstRefuseSeamless
    <3> QED BY <2>1, <3>1, <1>AgreementKept
  <2> QED BY <2>2, <2>3, Zenon DEF DstDoSeamless, MigrateEnd
\* handle_migrate_data_early changes no list.
<1>MigrateDataAgrees.
      ASSUME Agreement, NEW c, NEW ch, MigrateData(c, ch)
      PROVE  Agreement'
  <2> USE <1>MigrateDataAgrees
  <2>1. /\ made' = made /\ held' = held /\ listed' = listed /\ ending' = ending /\ channels' = channels /\ conn' = conn
        /\ wq' = wq /\ job' = job /\ acked' = acked /\ worker' = worker
    BY DEF MigrateData
  <2> QED BY <2>1, <1>AgreementKept
\* main_dispatcher_handle_migrate_complete changes no list.
<1>HandleCompleteAgrees. ASSUME Agreement, HandleComplete PROVE Agreement'
  <2> USE <1>HandleCompleteAgrees
  <2>1. /\ made' = made /\ held' = held /\ listed' = listed /\ ending' = ending /\ channels' = channels /\ conn' = conn
        /\ wq' = wq /\ job' = job /\ acked' = acked /\ worker' = worker
    BY DEF HandleComplete
  <2> QED BY <2>1, <1>AgreementKept
\* main_dispatcher_handle_client_disconnect begins to end the client.
<1>HandleDisconnectAgrees. ASSUME SessionInductive, Agreement, HandleDisconnectClient PROVE Agreement'
  <2> USE <1>HandleDisconnectAgrees
  <2> DEFINE c == Head(mq).c
  <2>1. mq # <<>> /\ job = <<>> /\ c \in made
    BY MessageTaken, Zenon DEF HandleDisconnectClient, MainIdle, SessionInductive
  <2>2. /\ made' = made /\ held' = held /\ channels' = channels /\ conn' = conn /\ wq' = wq /\ worker' = worker
        /\ acked' = acked
    BY Zenon DEF HandleDisconnectClient
  <2>3. CASE c \in ending
    <3>1. listed' = listed /\ ending' = ending /\ job' = job
      BY <2>3, Zenon DEF HandleDisconnectClient
    <3> QED BY <2>2, <3>1, <1>AgreementKept
  <2>4. CASE c \notin ending
    <3>1. BeginDisconnect(c) /\ job' = <<Msg("destroy", c, Main), Msg("release", c, Main)>>
      BY <2>4, Zenon DEF HandleDisconnectClient
    <3>2. c \in held \ ending
      BY <2>1, <2>4 DEF SessionInductive, SetsOK
    <3> HIDE DEF c
    <3> QED BY <2>1, <2>2, <3>1, <3>2, <1>BeginAgrees
  <2> QED BY <2>3, <2>4
\* A channel of the main thread leaves both lists, closed or in the loop of destroy.
<1>LeavesAgree.
      ASSUME SessionInductive, Agreement, NEW c \in Clients, NEW ch \in Channels \ OfWorker, RemoveChannel(c, ch), Unlists(c, ch),
             made' = made, held' = held, listed' = listed, ending' = ending, wq' = wq, job' = job, acked' = acked,
             worker' = worker
      PROVE  Agreement'
  <2> USE <1>LeavesAgree
  <2>1. \A d \in Clients : channels'[d] = IF d = c THEN channels[c] \ {ch} ELSE channels[d]
    BY DEF RemoveChannel, SessionInductive, ListsOK
  <2>2. conn' = conn \ {<<c, ch>>}
    BY DEF Unlists
  <2>3. Queued' /\ Once(wq)'
    BY DEF Agreement, Queued, InQueue, Once, AwaitingIn
  <2>4. WorkerAt'
    <3>1. worker.k = "close" => worker.c \in Clients
      BY WorkerNames
    <3> QED BY <2>1, <2>2, <3>1 DEF Agreement, WorkerAt, AwaitingIn
  <2>5. AwaitAt'
    BY <2>1 DEF Agreement, AwaitAt, SessionInductive, SetsOK
  <2>6. SessionsAt'
    BY <2>1 DEF Agreement, SessionsAt, SessionInductive, SetsOK
  <2>7. ListsAgree'
    <3>1. ASSUME NEW d \in Clients, NEW x \in Channels, (<<d, x>> \in conn') # (x \in channels'[d])
          PROVE  (<<d, x>> \in conn) # (x \in channels[d])
      BY <2>1, <2>2, <3>1
    <3> QED BY <3>1 DEF ListsAgree, Agreement
  <2> QED BY <2>3, <2>4, <2>5, <2>6, <2>7 DEF Agreement
\* A channel client of the main thread disconnects by itself.
<1>MainCloseAgrees.
      ASSUME SessionInductive, Agreement, NEW c \in Clients, NEW ch \in Channels, MainClose(c, ch)
      PROVE  Agreement'
  <2> USE <1>MainCloseAgrees
  <2>1. /\ made' = made /\ held' = held /\ listed' = listed /\ ending' = ending /\ wq' = wq /\ job' = job
        /\ acked' = acked /\ worker' = worker /\ RemoveChannel(c, ch) /\ Unlists(c, ch) /\ ch \notin OfWorker
    BY Zenon DEF MainClose
  <2> QED BY <2>1, <1>LeavesAgree
\* A round of the loop of RedClient::destroy.
<1>DestroyChannelAgrees. ASSUME SessionInductive, Agreement, DestroyChannel PROVE Agreement'
  <2> USE <1>DestroyChannelAgrees
  <2> DEFINE c == Head(job).c
  <2>1. job # <<>> /\ Head(job).k = "destroy" /\ JobOK
    BY DEF DestroyChannel, SessionInductive
  <2>2. Head(job) = job[1] /\ Head(job) \in Message(JobKinds) /\ 1 \in 1 .. Len(job)
    BY <2>1, JobHead
  <2>3. c \in Clients /\ c \in held \cap ending /\ c \in made
    BY <2>1, <2>2, Zenon DEF Message, JobOK, JobNames, SessionInductive, SetsOK
  <2>4. made' = made /\ held' = held /\ listed' = listed /\ ending' = ending /\ worker' = worker
    BY DEF DestroyChannel
  <2>5. PICK ch \in channels[c] :
          /\ RemoveChannel(c, ch)
          /\ \/ /\ ch \in OfWorker /\ wq' = Append(wq, Msg("disconnect", c, ch)) /\ job' = Awaits(c, ch) /\ acked' = FALSE
                /\ conn' = conn
             \/ ch \notin OfWorker /\ Unlists(c, ch) /\ wq' = wq /\ job' = job /\ acked' = acked
    BY DEF DestroyChannel
  <2>6. ch \in Channels
    BY <2>3, <2>5 DEF SessionInductive, ListsOK
  <2>7. CASE ch \notin OfWorker
    <3> HIDE DEF c
    <3>1. Unlists(c, ch) /\ wq' = wq /\ job' = job /\ acked' = acked
      BY <2>5, <2>7
    <3> QED BY <2>3, <2>4, <2>5, <2>6, <2>7, <3>1, <1>LeavesAgree
  <2>8. CASE ch \in OfWorker
    <3> DEFINE a == Msg("await", c, ch)
               m == Msg("disconnect", c, ch)
    <3>1. a \in Message(JobKinds) /\ a.k = "await" /\ a.c = c /\ a.ch = ch
      BY <2>3, <2>6 DEF Msg, Message, JobKinds
    <3>2. m \in Named({"connect", "disconnect"}) /\ m.k = "disconnect" /\ m.c = c /\ m.ch = ch
      BY <2>3, <2>6 DEF Msg, Named
    <3>3. job' = <<a>> \o job /\ wq' = Append(wq, m) /\ acked' = FALSE /\ conn' = conn
      BY <2>5, <2>8 DEF Awaits
    <3>4. \A d \in Clients : channels'[d] = IF d = c THEN channels[c] \ {ch} ELSE channels[d]
      BY <2>3, <2>5 DEF RemoveChannel, SessionInductive, ListsOK
    <3>5. /\ \A i \in 1 .. Len(wq) : wq[i].k # "disconnect" /\ wq[i].ch \in OfWorker
          /\ worker.k # "disconnect" /\ (worker.k = "close" => worker.ch \in channels[worker.c])
          /\ \A d \in Clients, x \in Channels : (<<d, x>> \in conn) # (x \in channels[d]) =>
                worker.k \in {"disconnect", "close"} /\ worker.c = d /\ worker.ch = x
      BY <2>1, <1>NoneAwaiting
    <3>6. Going(job, c)
      BY <2>1, <2>2 DEF Going
    <3>7. Head(job') = a /\ job' # <<>>
      <4>1. <<a>> \o job # <<>>
        <5>1. job \in Seq(Message(JobKinds)) /\ <<a>> \in Seq(Message(JobKinds)) /\ Len(<<a>>) = 1
          BY <2>1, <3>1 DEF JobOK, JobShape
        <5>2. Len(<<a>> \o job) = 1 + Len(job) /\ Len(job) \in Nat
          BY <5>1, Concatenated, Lengths
        <5>3. Len(<<>>) = 0
          OBVIOUS
        <5> HIDE DEF a
        <5> QED BY <5>2, <5>3
      <4> HIDE DEF a
      <4> QED BY <2>1, <3>1, <3>3, <3>6, <4>1, <1>GoingInside
    <3>8. \A x : AwaitingIn(job', acked', x) <=> (x.c = c /\ x.ch = ch)
      BY <3>1, <3>3, <3>7 DEF AwaitingIn, Msg
    <3> HIDE DEF a, m
    <3>9. wq \in Seq(Named({"connect", "disconnect"}))
      BY Zenon DEF SessionInductive, QueuesOK
    <3>10. /\ Once(wq')
           /\ \A i \in 1 .. Len(wq') : (i \in 1 .. Len(wq) /\ wq'[i] = wq[i]) \/ wq'[i] = m
      BY <3>2, <3>3, <3>5, <3>9, <1>OnceAppend
    <3>11. Queued'
      <4>1. ASSUME NEW i \in 1 .. Len(wq')
            PROVE  /\ wq'[i].ch \in OfWorker /\ worker'.k # "disconnect"
                   /\ (wq'[i].k = "disconnect" => AwaitingIn(job', acked', wq'[i]))
        BY <2>4, <2>8, <3>2, <3>5, <3>8, <3>10
      <4> QED BY <4>1 DEF Queued, InQueue
    <3>12. WorkerAt'
      <4>1. worker.k = "close" => worker.c \in Clients
        BY WorkerNames
      <4>2. worker.k = "close" => worker.ch \in channels'[worker.c] \/ AwaitingIn(job', acked', worker)
        BY <3>4, <3>5, <3>8, <4>1
      <4> QED BY <2>4, <3>3, <3>5, <4>2 DEF WorkerAt, Agreement
    <3>13. AwaitAt'
      BY <2>3, <2>4, <2>8, <3>1, <3>4, <3>7 DEF AwaitAt
    <3>14. SessionsAt'
      <4>1. ASSUME NEW d \in made' \ held' PROVE channels'[d] = {}
        BY <2>3, <2>4, <3>4 DEF Agreement, SessionsAt, SessionInductive, SetsOK
      <4>2. ASSUME NEW d \in held' \cap ending' PROVE Going(job', d)
        <5>1. Going(job, d)
          BY <2>4 DEF Agreement, SessionsAt
        <5> QED BY <2>1, <3>1, <3>3, <5>1, <1>GoingInside
      <4> QED BY <2>4, <4>1, <4>2 DEF Agreement, SessionsAt
    <3>15. ListsAgree'
      <4>1. ASSUME NEW d \in Clients, NEW x \in Channels, (<<d, x>> \in conn') # (x \in channels'[d])
            PROVE  \/ worker'.k \in {"disconnect", "close"} /\ worker'.c = d /\ worker'.ch = x
                   \/ job' # <<>> /\ Head(job') = Msg("await", d, x) /\ ~acked'
        <5>1. CASE d = c /\ x = ch
          BY <3>3, <3>7, <5>1 DEF a
        <5>2. CASE ~(d = c /\ x = ch)
          BY <2>4, <3>3, <3>4, <3>5, <4>1, <5>2
        <5> QED BY <5>1, <5>2
      <4> QED BY <4>1 DEF ListsAgree
    <3> QED BY <3>10, <3>11, <3>12, <3>13, <3>14, <3>15 DEF Agreement
  <2> QED BY <2>7, <2>8
\* A call that is not the last of a session returns, with nothing awaited any more.
<1>ReturnAgrees.
      ASSUME SessionInductive, Agreement, job # <<>>, job' = Tail(job), \A m : ~AwaitingIn(job, acked, m),
             made' = made, held' \subseteq held, listed' = listed, ending' = ending, channels' = channels, conn' = conn,
             wq' = wq, worker' = worker,
             \A c \in held' : Head(job).k # "destroy" \/ Head(job).c # c, \A c \in held \ held' : channels[c] = {}
      PROVE  Agreement'
  <2> USE <1>ReturnAgrees
  <2>1. JobOK
    BY DEF SessionInductive
  <2>2. \A i \in 1 .. Len(wq) : wq[i].k # "disconnect" /\ wq[i].ch \in OfWorker
    BY DEF Agreement, Queued, InQueue
  <2>3. Queued' /\ Once(wq)' /\ WorkerAt'
    <3>1. Queued' /\ Once(wq)'
      BY <2>2 DEF Agreement, Queued, InQueue, Once
    <3>2. WorkerAt'
      BY DEF Agreement, WorkerAt
    <3> QED BY <3>1, <3>2
  <2>4. AwaitAt'
    <3>1. JobShape(job') /\ \A i \in 1 .. Len(job') : i + 1 \in 1 .. Len(job) /\ job'[i] = job[i + 1]
      BY <2>1, JobReturns
    <3>2. CASE job' # <<>> /\ Head(job').k = "await"
      <4>1. Len(job') = 3
        BY <3>1, <3>2, ShapeHead, Zenon
      <4>2. Len(job) = 1 \/ Len(job) = 2 \/ Len(job) = 3
        BY <2>1, JobHead
      <4>a. \A n : n = 3 => 3 \in 1 .. n
        OBVIOUS
      <4>3. 3 \in 1 .. Len(job')
        BY <4>1, <4>a, Zenon
      <4>4. 3 + 1 \in 1 .. Len(job)
        BY <3>1, <4>3
      <4>5. \A n : n = 1 \/ n = 2 \/ n = 3 => ~(3 + 1 \in 1 .. n)
        OBVIOUS
      <4>6. FALSE
        BY <4>2, <4>4, <4>5, Zenon
      <4> QED BY <4>6
    <3> QED BY <3>2 DEF AwaitAt
  <2>5. SessionsAt'
    <3>1. ASSUME NEW c \in made' \ held' PROVE channels'[c] = {}
      BY DEF Agreement, SessionsAt
    <3>2. ASSUME NEW c \in held' \cap ending' PROVE Going(job', c)
      <4>1. Going(job, c)
        BY DEF Agreement, SessionsAt
      <4> QED BY <2>1, <4>1, <1>GoingOn
    <3> QED BY <3>1, <3>2 DEF Agreement, SessionsAt
  <2>6. ListsAgree'
    <3>1. ASSUME NEW c, NEW ch, job # <<>> /\ Head(job) = Msg("await", c, ch) /\ ~acked PROVE FALSE
      <4>1. Msg("await", c, ch).c = c /\ Msg("await", c, ch).ch = ch
        BY DEF Msg
      <4> QED BY <3>1, <4>1 DEF AwaitingIn
    <3> QED BY <3>1 DEF Agreement, ListsAgree
  <2> QED BY <2>3, <2>4, <2>5, <2>6 DEF Agreement
\* red_client_destroy goes on or returns, or the message's reference is dropped.
<1>DestroyReturnsAgree.
      ASSUME SessionInductive, Agreement, DestroyAcked \/ DestroyEnd \/ ReleaseMessage
      PROVE  Agreement'
  <2> USE <1>DestroyReturnsAgree
  <2>1. /\ job # <<>> /\ job' = Tail(job) /\ made' = made /\ listed' = listed /\ ending' = ending /\ channels' = channels
        /\ conn' = conn /\ wq' = wq /\ worker' = worker
    BY DEF DestroyAcked, DestroyEnd, ReleaseMessage, migVars
  <2>2. \A m : ~AwaitingIn(job, acked, m)
    <3>1. CASE DestroyAcked
      BY <3>1 DEF DestroyAcked, AwaitingIn
    <3>2. CASE DestroyEnd \/ ReleaseMessage
      <4>1. Head(job).k # "await"
        BY <3>2 DEF DestroyEnd, ReleaseMessage
      <4> QED BY <4>1, <1>NoneAwaiting
    <3> QED BY <3>1, <3>2
  <2>3. CASE DestroyEnd
    <3>1. held' = held \ {Head(job).c} /\ channels[Head(job).c] = {}
      BY <2>3 DEF DestroyEnd
    <3> QED BY <2>1, <2>2, <3>1, <1>ReturnAgrees
  <2>4. CASE DestroyAcked \/ ReleaseMessage
    <3>1. held' = held /\ Head(job).k # "destroy"
      BY <2>4 DEF DestroyAcked, ReleaseMessage
    <3> QED BY <2>1, <2>2, <3>1, <1>ReturnAgrees
  <2> QED BY <2>3, <2>4
\* Messages name one channel client each.
<1>SameMessage. ASSUME NEW c, NEW ch, NEW d, NEW x, Msg("await", c, ch) = Msg("await", d, x) PROVE c = d /\ ch = x
  <2> USE <1>SameMessage
  <2>1. /\ Msg("await", c, ch).c = c /\ Msg("await", c, ch).ch = ch
        /\ Msg("await", d, x).c = d /\ Msg("await", d, x).ch = x
    BY DEF Msg
  <2> QED BY <2>1
\* handle_dispatcher_connect begins.
<1>WorkerConnectAgrees. ASSUME SessionInductive, Agreement, WorkerConnect PROVE Agreement'
  <2> USE <1>WorkerConnectAgrees
  <2>1. /\ made' = made /\ held' = held /\ listed' = listed /\ ending' = ending /\ channels' = channels /\ conn' = conn
        /\ job' = job /\ acked' = acked
        /\ worker = Idle /\ wq # <<>> /\ wq' = Tail(wq) /\ worker' = Head(wq) /\ Head(wq).k = "connect"
    BY DEF WorkerConnect, migVars
  <2>2. wq \in Seq(Named({"connect", "disconnect"}))
    BY Zenon DEF SessionInductive, QueuesOK
  <2>3. \A i \in 1 .. Len(wq') : i + 1 \in 1 .. Len(wq) /\ wq'[i] = wq[i + 1]
    BY <2>1, <2>2, TailOf
  <2>4. Head(wq) = wq[1] /\ 1 \in 1 .. Len(wq)
    BY <2>1, <2>2, HeadTail
  <2>5. Queued'
    <3>1. ASSUME NEW i \in 1 .. Len(wq') PROVE wq'[i].ch \in OfWorker /\ (wq'[i].k = "disconnect" => AwaitingIn(job, acked, wq'[i]))
      BY <2>3 DEF Agreement, Queued, InQueue
    <3> QED BY <2>1, <3>1 DEF Queued, InQueue
  <2>6. Once(wq')
    BY <2>1, <2>2, <1>OnceTail DEF Agreement
  <2>7. WorkerAt'
    <3>1. Head(wq).ch \in OfWorker
      BY <2>4 DEF Agreement, Queued, InQueue
    <3> QED BY <2>1, <3>1 DEF WorkerAt
  <2>8. AwaitAt' /\ SessionsAt'
    BY <2>1 DEF Agreement, AwaitAt, SessionsAt, Going
  <2>9. ListsAgree'
    BY <2>1 DEF Agreement, ListsAgree, Idle
  <2> QED BY <2>5, <2>6, <2>7, <2>8, <2>9 DEF Agreement
\* RedClient::add_channel on the worker.
<1>WorkerConnectEndAgrees. ASSUME SessionInductive, Agreement, WorkerConnectEnd PROVE Agreement'
  <2> USE <1>WorkerConnectEndAgrees
  <2> DEFINE c == worker.c
             new == {ch \in {worker.ch} : ~Refuses(c, ch)}
  <2>1. /\ made' = made /\ held' = held /\ listed' = listed /\ ending' = ending /\ wq' = wq
        /\ job' = job /\ acked' = acked /\ worker.k = "connect" /\ worker' = Idle
    BY DEF WorkerConnectEnd
  <2>2. c \in made /\ c \in Clients
    BY <2>1, WorkerNames
  <2>3. channels' = [channels EXCEPT ![c] = channels[c] \cup new] /\ conn' = conn \cup {<<c, ch>> : ch \in new}
    BY DEF WorkerConnectEnd, Joins
  <2>4. new # {} => c \notin ending /\ c \in held
    BY <2>2 DEF Refuses, SessionInductive, SetsOK
  <2> HIDE DEF c, new
  <2>5. \A d \in Clients : channels'[d] = IF d = c THEN channels[c] \cup new ELSE channels[d]
    BY <2>2, <2>3 DEF SessionInductive, ListsOK
  <2>6. worker'.k = "idle"
    BY <2>1 DEF Idle
  <2>7. Queued' /\ Once(wq)' /\ WorkerAt'
    <3>1. Queued' /\ Once(wq)'
      BY <2>1, <2>6 DEF Agreement, Queued, InQueue, Once, AwaitingIn
    <3>2. WorkerAt'
      BY <2>6 DEF WorkerAt
    <3> QED BY <3>1, <3>2
  <2>8. AwaitAt'
    BY <2>1, <2>4, <2>5 DEF Agreement, AwaitAt, SessionInductive, SetsOK
  <2>9. SessionsAt'
    BY <2>1, <2>4, <2>5 DEF Agreement, SessionsAt, SessionInductive, SetsOK
  <2>10. ListsAgree'
    <3>1. ASSUME NEW d \in Clients, NEW x \in Channels, (<<d, x>> \in conn') # (x \in channels'[d])
          PROVE  (<<d, x>> \in conn) # (x \in channels[d])
      BY <2>3, <2>5, <3>1
    <3>2. ASSUME NEW d \in Clients, NEW x \in Channels, (<<d, x>> \in conn') # (x \in channels'[d])
          PROVE  job # <<>> /\ Head(job) = Msg("await", d, x) /\ ~acked
      BY <2>1, <3>1, <3>2 DEF Agreement, ListsAgree
    <3> QED BY <2>1, <3>2 DEF ListsAgree
  <2> QED BY <2>7, <2>8, <2>9, <2>10 DEF Agreement
\* handle_dispatcher_disconnect.
<1>WorkerDisconnectAgrees. ASSUME SessionInductive, Agreement, WorkerDisconnect PROVE Agreement'
  <2> USE <1>WorkerDisconnectAgrees
  <2> DEFINE m == Head(wq)
  <2>1. /\ made' = made /\ held' = held /\ listed' = listed /\ ending' = ending /\ channels' = channels /\ job' = job
        /\ worker = Idle /\ wq # <<>> /\ wq' = Tail(wq) /\ m.k = "disconnect"
    BY DEF WorkerDisconnect
  <2>2. wq \in Seq(Named({"connect", "disconnect"}))
    BY Zenon DEF SessionInductive, QueuesOK
  <2>3. \A i \in 1 .. Len(wq') : i + 1 \in 1 .. Len(wq) /\ wq'[i] = wq[i + 1]
    BY <2>1, <2>2, TailOf
  <2>4. m = wq[1] /\ 1 \in 1 .. Len(wq)
    BY <2>1, <2>2, HeadTail
  <2>5. m.ch \in OfWorker /\ AwaitingIn(job, acked, m)
    BY <2>1, <2>4 DEF Agreement, Queued, InQueue
  <2>6. Once(wq') /\ \A i \in 1 .. Len(wq') : wq'[i].k # "disconnect"
    BY <2>1, <2>2, <1>OnceTail DEF Agreement
  <2>7. Queued'
    <3>1. \A i \in 1 .. Len(wq') : wq'[i].ch \in OfWorker
      BY <2>3 DEF Agreement, Queued, InQueue
    <3> QED BY <2>6, <3>1 DEF Queued, InQueue
  <2>8. AwaitAt' /\ SessionsAt'
    BY <2>1 DEF Agreement, AwaitAt, SessionsAt, Going
  <2>9. job # <<>> /\ Head(job) = Msg("await", m.c, m.ch) /\ ~acked
    BY <2>5 DEF AwaitingIn
  <2>10. \A d \in Clients, x \in Channels : (<<d, x>> \in conn) # (x \in channels[d]) => d = m.c /\ x = m.ch
    <3>1. ASSUME NEW d \in Clients, NEW x \in Channels, (<<d, x>> \in conn) # (x \in channels[d])
          PROVE  Head(job) = Msg("await", d, x)
      BY <2>1, <3>1 DEF Agreement, ListsAgree, Idle
    <3> QED BY <2>9, <3>1, <1>SameMessage
  <2>11. m.ch \notin channels[m.c]
    BY <2>9 DEF Agreement, AwaitAt, Msg
  <2>12. CASE <<m.c, m.ch>> \in conn
    <3>1. conn' = conn \ {<<m.c, m.ch>>} /\ worker' = m /\ acked' = acked
      BY <2>12 DEF WorkerDisconnect, Unlists
    <3> HIDE DEF m
    <3>2. WorkerAt'
      BY <2>1, <2>5, <3>1 DEF WorkerAt, AwaitingIn
    <3>3. ListsAgree'
      <4>1. ASSUME NEW d \in Clients, NEW x \in Channels, (<<d, x>> \in conn') # (x \in channels'[d])
            PROVE  worker'.k \in {"disconnect", "close"} /\ worker'.c = d /\ worker'.ch = x
        BY <2>1, <2>10, <3>1, <4>1
      <4> QED BY <4>1 DEF ListsAgree
    <3> QED BY <2>6, <2>7, <2>8, <3>2, <3>3 DEF Agreement
  <2>13. CASE <<m.c, m.ch>> \notin conn
    <3>1. conn' = conn /\ worker' = worker
      BY <2>13 DEF WorkerDisconnect
    <3> HIDE DEF m
    <3>2. WorkerAt'
      BY <2>1, <3>1 DEF WorkerAt, Idle
    <3>3. ListsAgree'
      <4>1. ASSUME NEW d \in Clients, NEW x \in Channels, (<<d, x>> \in conn') # (x \in channels'[d])
            PROVE  FALSE
        BY <2>1, <2>10, <2>11, <2>13, <3>1, <4>1
      <4> QED BY <4>1 DEF ListsAgree
    <3> QED BY <2>6, <2>7, <2>8, <3>2, <3>3 DEF Agreement
  <2> QED BY <2>12, <2>13
\* The client or the network closes a channel of the worker.
<1>WorkerCloseAgrees.
      ASSUME SessionInductive, Agreement, NEW c \in Clients, NEW ch \in Channels, WorkerClose(c, ch)
      PROVE  Agreement'
  <2> USE <1>WorkerCloseAgrees
  <2>1. /\ made' = made /\ held' = held /\ listed' = listed /\ ending' = ending /\ channels' = channels /\ job' = job
        /\ acked' = acked /\ wq' = wq /\ worker = Idle /\ worker' = Msg("close", c, ch) /\ conn' = conn \ {<<c, ch>>}
        /\ ch \in OfWorker /\ <<c, ch>> \in conn
    BY DEF WorkerClose, Unlists
  <2>2. worker'.k = "close" /\ worker'.c = c /\ worker'.ch = ch
    BY <2>1 DEF Msg
  <2>3. \A d \in Clients, x \in Channels : (<<d, x>> \in conn) # (x \in channels[d]) =>
          job # <<>> /\ Head(job) = Msg("await", d, x) /\ ~acked
    BY <2>1 DEF Agreement, ListsAgree, Idle
  <2>4. Queued' /\ Once(wq)'
    BY <2>1, <2>2 DEF Agreement, Queued, InQueue, Once, AwaitingIn
  <2>5. WorkerAt'
    <3>1. ch \in channels[c] \/ (job # <<>> /\ Head(job) = Msg("await", c, ch) /\ ~acked)
      BY <2>1, <2>3
    <3> QED BY <2>1, <2>2, <3>1 DEF WorkerAt, AwaitingIn
  <2>6. AwaitAt' /\ SessionsAt'
    BY <2>1 DEF Agreement, AwaitAt, SessionsAt, Going
  <2>7. ListsAgree'
    <3>1. ASSUME NEW d \in Clients, NEW x \in Channels, (<<d, x>> \in conn') # (x \in channels'[d]), ~(d = c /\ x = ch)
          PROVE  job # <<>> /\ Head(job) = Msg("await", d, x) /\ ~acked
      BY <2>1, <2>3, <3>1
    <3> QED BY <2>1, <2>2, <3>1 DEF ListsAgree
  <2> QED BY <2>4, <2>5, <2>6, <2>7 DEF Agreement
\* The end of RedChannelClient::disconnect on the worker, and the acknowledgement.
<1>WorkerRemoveAgrees. ASSUME SessionInductive, Agreement, WorkerRemove PROVE Agreement'
  <2> USE <1>WorkerRemoveAgrees
  <2> DEFINE c == worker.c
             ch == worker.ch
  <2>1. /\ made' = made /\ held' = held /\ listed' = listed /\ ending' = ending /\ conn' = conn /\ job' = job
        /\ wq' = wq /\ worker' = Idle /\ worker.k \in {"disconnect", "close"} /\ RemoveChannel(c, ch)
    BY DEF WorkerRemove
  <2>2. worker'.k = "idle"
    BY <2>1 DEF Idle
  <2>3. c \in Clients /\ <<c, ch>> \notin conn
    BY <2>1, WorkerNames DEF Agreement, WorkerAt
  <2>4. \A d \in Clients : channels'[d] = IF d = c THEN channels[c] \ {ch} ELSE channels[d]
    BY <2>1, <2>3 DEF RemoveChannel, SessionInductive, ListsOK
  <2>5. WorkerAt'
    BY <2>2 DEF WorkerAt
  <2>6. AwaitAt' /\ SessionsAt'
    <3>1. AwaitAt'
      BY <2>1, <2>4 DEF Agreement, AwaitAt, SessionInductive, SetsOK
    <3>2. SessionsAt'
      BY <2>1, <2>4 DEF Agreement, SessionsAt, Going, SessionInductive, SetsOK
    <3> QED BY <3>1, <3>2
  <2>7. ASSUME NEW d \in Clients, NEW x \in Channels, (<<d, x>> \in conn') # (x \in channels'[d])
        PROVE  job # <<>> /\ Head(job) = Msg("await", d, x) /\ ~acked /\ ~(d = c /\ x = ch)
    <3>1. ~(d = c /\ x = ch)
      BY <2>1, <2>3, <2>4, <2>7
    <3>2. (<<d, x>> \in conn) # (x \in channels[d])
      BY <2>1, <2>4, <2>7, <3>1
    <3> QED BY <3>1, <3>2 DEF Agreement, ListsAgree
  <2>8. CASE worker.k = "close"
    <3>1. acked' <=> acked
      BY <2>8, Zenon DEF WorkerRemove
    <3>2. Queued' /\ Once(wq)'
      BY <2>1, <2>2, <3>1 DEF Agreement, Queued, InQueue, Once, AwaitingIn
    <3>3. ListsAgree'
      BY <2>1, <2>7, <3>1 DEF ListsAgree
    <3> QED BY <2>5, <2>6, <3>2, <3>3 DEF Agreement
  <2>9. CASE worker.k = "disconnect"
    <3>1. \A i \in 1 .. Len(wq) : wq[i].k # "disconnect" /\ wq[i].ch \in OfWorker
      BY <2>9 DEF Agreement, Queued, InQueue
    <3>2. Queued' /\ Once(wq)'
      BY <2>1, <3>1 DEF Agreement, Queued, InQueue, Once
    <3>3. Head(job) = Msg("await", c, ch)
      BY <2>9 DEF Agreement, WorkerAt, AwaitingIn
    <3>4. ASSUME NEW d \in Clients, NEW x \in Channels, (<<d, x>> \in conn') # (x \in channels'[d]) PROVE FALSE
      <4>1. Msg("await", c, ch) = Msg("await", d, x) /\ ~(d = c /\ x = ch)
        BY <2>7, <3>3, <3>4
      <4> HIDE DEF c, ch
      <4> QED BY <4>1, <1>SameMessage
    <3>5. ListsAgree'
      BY <3>4 DEF ListsAgree
    <3> QED BY <2>5, <2>6, <3>2, <3>5 DEF Agreement
  <2> QED BY <2>1, <2>8, <2>9
<1> SUFFICES ASSUME SessionInductive, Agreement, [Next]_vars PROVE Agreement'
  OBVIOUS
<1>1. CASE FromClient
  <2>1. PICK c \in Clients :
          \/ \E migrated \in BOOLEAN : LinkMain(c, migrated)
          \/ \E ch \in Others \cup OfWorker : LinkOther(c, ch)
          \/ DstDoSeamless(c) \/ DstRefuseSeamless(c) \/ MigrateEnd(c)
          \/ \E ch \in Channels : MainMigrateData(c, ch) \/ WorkerMigrateData(c, ch) \/ MainClose(c, ch) \/ WorkerClose(c, ch)
    BY <1>1 DEF FromClient
  <2>2. ASSUME NEW ch, MainMigrateData(c, ch) \/ WorkerMigrateData(c, ch) PROVE MigrateData(c, ch)
    BY <2>2 DEF MainMigrateData, WorkerMigrateData
  <2> QED BY <2>1, <2>2, <1>LinkMainAgrees, <1>LinkOtherAgrees, <1>TargetAgrees, <1>MigrateDataAgrees, <1>MainCloseAgrees, <1>WorkerCloseAgrees
<1>2. CASE MainStep
  BY <1>2, <1>HandleDisconnectAgrees, <1>HandleCompleteAgrees, <1>DestroyChannelAgrees, <1>DestroyReturnsAgree, <1>LinkMainEndAgrees
  DEF MainStep
<1>3. CASE WorkerStep
  BY <1>3, <1>WorkerConnectAgrees, <1>WorkerConnectEndAgrees, <1>WorkerDisconnectAgrees, <1>WorkerRemoveAgrees DEF WorkerStep
<1>4. CASE UNCHANGED vars
  <2>1. /\ made' = made /\ held' = held /\ listed' = listed /\ ending' = ending /\ channels' = channels /\ conn' = conn
        /\ wq' = wq /\ job' = job /\ acked' = acked /\ worker' = worker
    BY <1>4 DEF vars
  <2> QED BY <2>1, <1>AgreementKept
<1> QED BY <1>1, <1>2, <1>3, <1>4 DEF Next

\* Before the first client there is nothing to disagree about.
LEMMA AgreementInit == Init => Agreement
<1> SUFFICES ASSUME Init PROVE Agreement
  OBVIOUS
<1>1. /\ made = {} /\ held = {} /\ listed = {} /\ ending = {} /\ channels = [c \in Clients |-> {}] /\ conn = {}
      /\ wq = <<>> /\ job = <<>> /\ worker = Idle
  BY DEF Init
<1>2. Queued /\ Once(wq) /\ WorkerAt
  BY <1>1 DEF Queued, Once, WorkerAt, Idle
<1>3. AwaitAt
  BY <1>1 DEF AwaitAt
<1>4. SessionsAt
  BY <1>1 DEF SessionsAt
<1>5. ListsAgree
  BY <1>1 DEF ListsAgree
<1> QED BY <1>2, <1>3, <1>4, <1>5 DEF Agreement

\* The invariant of the hand-over holds at all times.
THEOREM AlwaysAgreement == Spec => [](SessionInductive /\ Agreement)
<1>1. Init => SessionInductive /\ Agreement
  BY InductiveInit, AgreementInit
<1>2. SessionInductive /\ Agreement /\ [Next]_vars => (SessionInductive /\ Agreement)'
  BY InductiveStep, AgreementStep
<1> QED BY <1>1, <1>2, PTL DEF Spec

\* A channel client is in the list of its channel exactly when its client owns it, except while
\* the worker is between the two lists or RedClient::destroy waits for the worker: whatever the
\* interleaving of a close on the worker with a disconnection of the whole client.
THEOREM ListsAlwaysAgree == Spec => []ListsAgree
<1>1. SessionInductive /\ Agreement => ListsAgree
  BY DEF Agreement
<1> QED BY <1>1, AlwaysAgreement, PTL

\* The registered targets of a migration are listed.
TargetsListed == migTargets \subseteq listed

\* Every step of either thread keeps the migration targets among the clients listed.
LEMMA TargetsListedStep == ASSUME SessionInductive, TargetsListed, [Next]_vars PROVE TargetsListed'
<1>1. CASE FromClient
  <2>1. PICK c \in Clients :
          \/ \E migrated \in BOOLEAN : LinkMain(c, migrated)
          \/ \E ch \in Others \cup OfWorker : LinkOther(c, ch)
          \/ DstDoSeamless(c) \/ DstRefuseSeamless(c) \/ MigrateEnd(c)
          \/ \E ch \in Channels : MainMigrateData(c, ch) \/ WorkerMigrateData(c, ch) \/ MainClose(c, ch) \/ WorkerClose(c, ch)
    BY <1>1 DEF FromClient
  <2>2. ASSUME NEW migrated \in BOOLEAN, LinkMain(c, migrated) PROVE TargetsListed'
    BY <2>2, Zenon DEF LinkMain, NewClient, BeginDisconnect, TargetsListed
  <2>3. ASSUME NEW ch, LinkOther(c, ch) PROVE TargetsListed'
    BY <2>3 DEF LinkOther, TargetsListed
  <2>4. CASE DstDoSeamless(c) \/ MigrateEnd(c)
    BY <2>4 DEF DstDoSeamless, MigrateEnd, LinkPending, TargetsListed
  <2>5. CASE DstRefuseSeamless(c)
    BY <2>5 DEF DstRefuseSeamless, TargetsListed
  <2>6. ASSUME NEW ch, MainMigrateData(c, ch) \/ WorkerMigrateData(c, ch) \/ MainClose(c, ch) \/ WorkerClose(c, ch)
        PROVE  TargetsListed'
    BY <2>6, Zenon DEF MainMigrateData, WorkerMigrateData, MigrateData, MainClose, WorkerClose, TargetsListed
  <2> QED BY <2>1, <2>2, <2>3, <2>4, <2>5, <2>6
<1>2. CASE MainStep
  <2>1. CASE HandleDisconnectClient
    BY <2>1, Zenon DEF HandleDisconnectClient, BeginDisconnect, TargetsListed
  <2>2. CASE LinkMainEnd
    BY <2>2, Zenon DEF LinkMainEnd, NewClient, TargetsListed
  <2>3. CASE HandleComplete \/ DestroyChannel \/ DestroyAcked \/ DestroyEnd \/ ReleaseMessage
    BY <2>3 DEF HandleComplete, DestroyChannel, DestroyAcked, DestroyEnd, ReleaseMessage, migVars, TargetsListed
  <2> QED BY <1>2, <2>1, <2>2, <2>3 DEF MainStep
<1>3. CASE WorkerStep
  BY <1>3 DEF WorkerStep, WorkerConnect, WorkerConnectEnd, WorkerDisconnect, WorkerRemove, migVars, TargetsListed
<1>4. CASE UNCHANGED vars
  BY <1>4 DEF vars, migVars, TargetsListed
<1> QED BY <1>1, <1>2, <1>3, <1>4 DEF Next

\* What is in a queue is one of its elements.
LEMMA InRange == ASSUME NEW S, NEW q \in Seq(S), NEW m \in Range(q) PROVE m \in S /\ \E i \in 1 .. Len(q) : m = q[i]
<1>1. Len(q) \in Nat /\ DOMAIN q = 1 .. Len(q) /\ \A i \in 1 .. Len(q) : q[i] \in S
  BY Lengths, ElementIn
<1> QED BY <1>1 DEF Range

\* When nothing refers to a client any more, nothing names it.
LEMMA FreedNowhere == ASSUME SessionInductive, Agreement, TargetsListed PROVE FreedUnused
<1> SUFFICES ASSUME NEW c \in made, Freed(c)
             PROVE  /\ c \notin listed \cup migTargets /\ channels[c] = {}
                    /\ \A pair \in conn : pair[1] # c
                    /\ \A m \in Range(wq) \cup Range(mq) \cup Range(job) \cup ({worker} \ {Idle}) : m.c # c
  BY DEF FreedUnused
<1>1. c \notin held
  BY DEF Freed, Referenced
<1>2. \A m \in Range(wq) \cup Range(mq) \cup Range(job) \cup {worker} : HoldsReference(m.k) => m.c # c
  BY DEF Freed, Referenced
<1>3. c \notin listed \cup migTargets /\ channels[c] = {}
  BY <1>1 DEF TargetsListed, SessionInductive, SetsOK, Agreement, SessionsAt
<1>4. \A pair \in conn : pair[1] # c
  <2>1. ASSUME NEW pair \in conn PROVE pair[1] # c
    <3>1. pair = <<pair[1], pair[2]>>
      BY DEF SessionInductive, ListsOK
    <3>2. pair[1] \in held
      BY <3>1, ConnHeld
    <3> QED BY <1>1, <3>2
  <2> QED BY <2>1
<1>5. ASSUME NEW m, AwaitingIn(job, acked, m) PROVE m.c # c
  <2>1. job # <<>> /\ Head(job).k = "await" /\ Head(job).c = m.c
    BY <1>5 DEF AwaitingIn, Msg
  <2> QED BY <1>1, <2>1 DEF Agreement, AwaitAt
<1>6. ASSUME NEW m \in Range(wq) PROVE m.c # c
  <2>1. wq \in Seq(Named({"connect", "disconnect"}))
    BY Zenon DEF SessionInductive, QueuesOK
  <2>2. m \in Named({"connect", "disconnect"}) /\ \E i \in 1 .. Len(wq) : m = wq[i]
    BY <2>1, InRange
  <2>3. CASE m.k = "connect"
    BY <1>2, <2>3, Zenon DEF HoldsReference
  <2>4. CASE m.k = "disconnect"
    BY <1>5, <2>2, <2>4 DEF Agreement, Queued, InQueue
  <2> QED BY <2>2, <2>3, <2>4 DEF Named
<1>7. ASSUME NEW m \in Range(mq) PROVE m.c # c
  <2>1. mq \in Seq(Named({"disconnect client", "complete"}))
    BY Zenon DEF SessionInductive, QueuesOK
  <2>2. m \in Named({"disconnect client", "complete"})
    BY <2>1, InRange, Zenon
  <2>3. m.k \in {"disconnect client", "complete"}
    BY <2>2, Zenon DEF Named
  <2> QED BY <1>2, <2>3, Zenon DEF HoldsReference
<1>8. ASSUME NEW m \in Range(job) PROVE m.c # c
  <2>1. JobOK /\ job \in Seq(Message(JobKinds))
    BY DEF SessionInductive, JobOK, JobShape
  <2>2. m \in Message(JobKinds) /\ \E i \in 1 .. Len(job) : m = job[i]
    BY <2>1, InRange
  <2>3. PICK i \in 1 .. Len(job) : m = job[i]
    BY <2>2
  <2>4. CASE m.k = "release"
    BY <1>2, <2>4, Zenon DEF HoldsReference
  <2>5. CASE m.k \in {"destroy", "link", "link migrated"}
    BY <1>1, <2>1, <2>3, <2>5, Zenon DEF JobOK, JobNames
  <2>6. CASE m.k = "await"
    <3>1. i + Depth(job[i].k) = Len(job) /\ Depth(job[i].k) = 2
      BY <2>1, <2>3, <2>6 DEF JobOK, JobShape, Depth
    <3>2. job # <<>> /\ (Len(job) = 3 \/ Len(job) = 2 \/ Len(job) = 1) /\ Head(job) = job[1] /\ Len(job) \in Nat
      <4>1. job # <<>>
        BY <2>3
      <4> QED BY <2>1, <4>1, JobHead
    <3>3. i = 1
      <4>1. i \in Nat /\ i >= 1
        BY <3>2
      <4>2. \A n \in Nat, k \in Nat : k >= 1 /\ k + 2 = n /\ (n = 3 \/ n = 2 \/ n = 1) => k = 1
        OBVIOUS
      <4> QED BY <3>1, <3>2, <4>1, <4>2, Zenon
    <3> QED BY <1>1, <2>3, <2>6, <3>2, <3>3 DEF Agreement, AwaitAt
  <2>7. m.k \in JobKinds
    BY <2>2 DEF Message
  <2> QED BY <2>4, <2>5, <2>6, <2>7, Zenon DEF JobKinds
<1>9. ASSUME worker # Idle PROVE worker.c # c
  <2>1. worker.k \in {"connect", "disconnect", "close"}
    BY <1>9, Zenon DEF SessionInductive, QueuesOK, Named
  <2>2. CASE worker.k = "connect"
    BY <1>2, <2>2, Zenon DEF HoldsReference
  <2>3. CASE worker.k \in {"disconnect", "close"}
    BY <1>3, <1>5, <2>3 DEF Agreement, WorkerAt
  <2> QED BY <2>1, <2>2, <2>3
<1> QED BY <1>3, <1>4, <1>6, <1>7, <1>8, <1>9

\* A RedClient that is freed is named by no list, no channel client, no queued message and no
\* call in progress, of either thread.
THEOREM FreedIsUnused == Spec => []FreedUnused
<1>1. Init => TargetsListed
  BY DEF Init, TargetsListed
<1>2. SessionInductive /\ TargetsListed /\ [Next]_vars => TargetsListed'
  BY TargetsListedStep
<1>3. SessionInductive /\ Agreement /\ TargetsListed => FreedUnused
  BY FreedNowhere
<1> QED BY <1>1, <1>2, <1>3, AlwaysAgreement, PTL DEF Spec
=============================================================================
