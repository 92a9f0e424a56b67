------------------------ MODULE ClientSessionsProofs ------------------------
(***************************************************************************)
(* What the sessions of the clients promise, for any clients and channels. *)
(* First the bookkeeping of a migration to this server: the channels that  *)
(* wait for their data are counted, a client is told once that its         *)
(* migration is over, and the clients that arrive are registered.  Then    *)
(* the refinement: the two threads that share the clients implement        *)
(* Sessions.  The invariants are on top of those of ClientLifecycleProofs. *)
(***************************************************************************)

EXTENDS ClientLifecycleProofs

-----------------------------------------------------------------------------
(* A migration to this server *)

\* The channel clients of c in w.
Of(w, c) == {pair \in w : pair[1] = c}

\* Channels that wait for their data are of clients in a seamless migration, and the count of
\* such a client covers them.
CountsOK ==
  /\ target \subseteq made /\ seamless \subseteq target /\ waitData \subseteq seamless \X Channels
  /\ num \in [Clients -> Nat] /\ \A c \in Clients : Cardinality(Of(waitData, c)) <= num[c]

\* A client is told once, and until then it is in its migration or a message about it is queued.
Completes(q, told1, target1) == \A i \in 1 .. Len(q) : q[i].k = "complete" => told1[q[i].c] = 0 /\ q[i].c \notin target1

CompleteOnce(q) ==
  \A i, j \in 1 .. Len(q) : q[i].k = "complete" /\ q[j].k = "complete" /\ q[i].c = q[j].c => i = j

ToldOK ==
  /\ told \in [Clients -> {0, 1}] /\ \A c \in Clients : c \in target \/ c \notin made => told[c] = 0
  /\ Completes(mq, told, target) /\ CompleteOnce(mq)

\* Which clients are registered as targets; with a single arrival there is one, it is registered
\* until its links are made, and dst_do_seamless_migrate is about it.
Arrives(q) == \A i \in 1 .. Len(q) : q[i].k = "link migrated" => arrivals < MaxArrivals

Single ==
  /\ ~failed /\ (arrivals = 0 => target = {} /\ ~dstSeamless)
  /\ \A c, d \in target : c = d
  /\ \A c \in target : IF dstSeamless THEN c \in seamless ELSE c \in ending \/ c \in migTargets

TargetsOK ==
  /\ arrivals \in Nat /\ Arrives(job) /\ migTargets \subseteq target /\ migTargets \cap seamless = {}
  /\ MaxArrivals <= 1 => Single

\* handle_migrate_data_early is of a client of a seamless migration that has not completed.
LEMMA DataTarget ==
  ASSUME CountsOK, made \subseteq Clients, NEW c, NEW ch, MigrateData(c, ch)
  PROVE  c \in target /\ c \in seamless /\ c \in Clients
<1>1. <<c, ch>> \in waitData
  BY DEF MigrateData
<1> QED BY <1>1 DEF CountsOK

\* Every step of either thread keeps the list of migration targets.
LEMMA TargetsStep ==
  SessionInductive /\ Agreement /\ CountsOK /\ TargetsOK /\ [Next]_vars => TargetsOK'
\* Nothing that the registration of targets is about changes.
<1>TargetsKept.
      ASSUME TargetsOK, arrivals' = arrivals, Arrives(job)', migTargets' = migTargets, target' = target, seamless' = seamless,
             dstSeamless' = dstSeamless, ending' = ending, failed' = failed
      PROVE  TargetsOK'
  <2> USE <1>TargetsKept
  <2>1. ASSUME MaxArrivals <= 1 PROVE Single'
    BY <2>1 DEF TargetsOK, Single
  <2> QED BY <2>1 DEF TargetsOK
\* The calls in progress: the same, one less, or one more inside.
<1>ArrivesKept.
      ASSUME JobOK, Arrives(job), arrivals' = arrivals,
             job' = job \/ (job # <<>> /\ job' = Tail(job)) \/ \E c \in Clients, ch \in Channels : job' = Awaits(c, ch)
      PROVE  Arrives(job)'
  <2> USE <1>ArrivesKept
  <2>1. CASE job' = job
    BY <2>1, Zenon DEF Arrives
  <2>2. CASE job # <<>> /\ job' = Tail(job)
    <3>1. \A i \in 1 .. Len(job') : i + 1 \in 1 .. Len(job) /\ job'[i] = job[i + 1]
      BY <2>2, JobReturns
    <3> QED BY <3>1, Zenon DEF Arrives
  <2>3. ASSUME NEW c \in Clients, NEW ch \in Channels, job' = Awaits(c, ch) PROVE Arrives(job)'
    <3> DEFINE a == Msg("await", c, ch)
               r == <<a>> \o job
    <3>1. a \in Message(JobKinds) /\ a.k = "await"
      BY DEF Msg, Message, JobKinds
    <3>2. job' = r
      BY <2>3 DEF Awaits
    <3>3. job \in Seq(Message(JobKinds))
      BY DEF JobOK, JobShape
    <3> HIDE DEF a
    <3>4. <<a>> \in Seq(Message(JobKinds)) /\ Len(<<a>>) = 1 /\ <<a>>[1] = a
      BY <3>1
    <3>5. Len(r) = 1 + Len(job) /\ Len(job) \in Nat /\ \A i \in 1 .. Len(r) : r[i] = IF i <= 1 THEN <<a>>[i] ELSE job[i - 1]
      BY <3>3, <3>4, Concatenated, Lengths
    <3> HIDE DEF r
    <3>6. ASSUME NEW i \in 1 .. Len(r) PROVE i = 1 \/ (i - 1 \in 1 .. Len(job) /\ ~(i <= 1))
      BY <3>5
    <3>7. \A i \in 1 .. Len(r) : r[i] = a \/ \E j \in 1 .. Len(job) : r[i] = job[j]
      BY <3>4, <3>5, <3>6
    <3> QED BY <3>1, <3>2, <3>7, Zenon DEF Arrives
  <2> QED BY <2>1, <2>2, <2>3
\* reds_handle_main_link registers the client that arrives.
<1>TargetsNew.
      ASSUME SessionInductive, CountsOK, TargetsOK, NEW c \in Clients, c \notin made, NEW migrated \in BOOLEAN,
             NewClient(c, migrated), job' = <<>>, migrated => arrivals < MaxArrivals
      PROVE  TargetsOK'
  <2> USE <1>TargetsNew
  <2>1. seamless' = seamless /\ dstSeamless' = dstSeamless /\ ending' = ending /\ failed' = failed
    BY DEF NewClient
  <2>2. Arrives(job)'
    <3>1. \A i \in 1 .. Len(job') : FALSE
      OBVIOUS
    <3> QED BY <3>1, Zenon DEF Arrives
  <2>3. target \subseteq made /\ seamless \subseteq target
    BY DEF CountsOK
  <2>4. CASE migrated
    <3>1. target' = target \cup {c} /\ migTargets' = migTargets \cup {c} /\ arrivals' = arrivals + 1
      BY <2>4 DEF NewClient
    <3>2. arrivals' \in Nat /\ arrivals' # 0
      BY <3>1 DEF TargetsOK
    <3>3. migTargets' \subseteq target' /\ migTargets' \cap seamless' = {}
      BY <2>1, <2>3, <3>1 DEF TargetsOK
    <3>4. ASSUME MaxArrivals <= 1 PROVE Single'
      <4>1. arrivals = 0
        BY <2>4, <3>4, LifecycleAssumption DEF TargetsOK
      <4>2. target = {} /\ ~dstSeamless /\ ~failed
        BY <3>4, <4>1 DEF TargetsOK, Single
      <4> QED BY <2>1, <3>1, <3>2, <4>2 DEF Single
    <3> QED BY <2>2, <3>2, <3>3, <3>4 DEF TargetsOK
  <2>5. CASE ~migrated
    <3>1. target' = target /\ migTargets' = migTargets /\ arrivals' = arrivals
      BY <2>5 DEF NewClient
    <3> QED BY <2>1, <2>2, <3>1, <1>TargetsKept
  <2> QED BY <2>4, <2>5
\* reds_client_disconnect forgets the target.
<1>TargetsBegin.
      ASSUME SessionInductive, TargetsOK, NEW d \in Clients, BeginDisconnect(d), NEW m, job' = <<Msg("destroy", d, Main), m>>,
             m.k = "link migrated" => arrivals < MaxArrivals, arrivals' = arrivals, target' = target, seamless' = seamless,
             dstSeamless' = dstSeamless, failed' = failed
      PROVE  TargetsOK'
  <2> USE <1>TargetsBegin
  <2>1. ending' = ending \cup {d} /\ migTargets' = migTargets \ {d}
    BY Zenon DEF BeginDisconnect
  <2>2. Arrives(job)'
    <3>1. Len(job') = 2 /\ job'[1] = Msg("destroy", d, Main) /\ job'[2] = m /\ Msg("destroy", d, Main).k = "destroy"
      BY Zenon DEF Msg
    <3>2. \A i \in 1 .. Len(job') : i = 1 \/ i = 2
      BY <3>1, TwoIndices, Zenon
    <3> QED BY <3>1, <3>2, Zenon DEF Arrives
  <2>3. migTargets' \subseteq target' /\ migTargets' \cap seamless' = {} /\ arrivals' \in Nat
    BY <2>1, Zenon DEF TargetsOK
  <2>4. ASSUME MaxArrivals <= 1 PROVE Single'
    BY <2>1, <2>4, Zenon DEF TargetsOK, Single
  <2> QED BY <2>2, <2>3, <2>4, Zenon DEF TargetsOK
\* reds_handle_other_links: its assertions hold.
<1>TargetsLink.
      ASSUME SessionInductive, Agreement, TargetsOK, NEW c \in Clients, NEW ch, LinkOther(c, ch)
      PROVE  TargetsOK'
  <2> USE <1>TargetsLink
  <2>1. /\ job = <<>> /\ Up(c) /\ arrivals' = arrivals /\ target' = target /\ seamless' = seamless /\ dstSeamless' = dstSeamless
        /\ ending' = ending /\ migTargets' = migTargets /\ job' = job
    BY DEF LinkOther, MainIdle
  <2>2. c \notin ending
    BY <2>1, UpOpen DEF Up
  <2>3. Arrives(job)'
    BY <2>1, Zenon DEF Arrives, TargetsOK
  <2>4. ASSUME MaxArrivals <= 1 PROVE ~failed'
    <3>1. CASE LinkPends(c) /\ failed' = (c \notin migTargets)
      BY <2>2, <2>4, <3>1, Zenon DEF LinkPends, TargetsOK, Single
    <3>2. CASE ~LinkPends(c) /\ failed' = (c \in migTargets)
      BY <2>4, <3>2, Zenon DEF LinkPends, TargetsOK, Single
    <3> QED BY <3>1, <3>2, Zenon DEF LinkOther
  <2>5. ASSUME MaxArrivals <= 1 PROVE Single'
    BY <2>1, <2>4, <2>5 DEF TargetsOK, Single
  <2> QED BY <2>1, <2>3, <2>5 DEF TargetsOK
\* handle_migrate_dst_do_seamless and handle_migrate_end: the links of the target are made.
<1>TargetsLinked.
      ASSUME SessionInductive, Agreement, CountsOK, TargetsOK, NEW c \in Clients,
             DstDoSeamless(c) \/ DstRefuseSeamless(c) \/ MigrateEnd(c)
      PROVE  TargetsOK'
  <2> USE <1>TargetsLinked
  <2>1. /\ job = <<>> /\ Up(c) /\ arrivals' = arrivals /\ ending' = ending /\ failed' = failed /\ job' = job
        /\ c \in target /\ c \notin seamless
    BY Zenon DEF DstDoSeamless, DstRefuseSeamless, MigrateEnd, MainIdle
  <2>2. c \notin ending
    BY <2>1, UpOpen DEF Up
  <2>3. Arrives(job)'
    BY <2>1, Zenon DEF Arrives, TargetsOK
  <2>4. MaxArrivals <= 1 => ~dstSeamless /\ c \in migTargets /\ arrivals # 0
    BY <2>1, <2>2 DEF TargetsOK, Single
  <2>5. CASE DstDoSeamless(c)
    <3>1. target' = target /\ seamless' = seamless \cup {c} /\ dstSeamless' = (c \in migTargets) /\ migTargets' = migTargets \ {c}
      BY <2>5 DEF DstDoSeamless, LinkPending
    <3>2. ASSUME MaxArrivals <= 1 PROVE Single'
      BY <2>1, <2>4, <3>1, <3>2, Zenon DEF TargetsOK, Single
    <3>3. migTargets' \subseteq target' /\ migTargets' \cap seamless' = {}
      BY <3>1 DEF TargetsOK
    <3> QED BY <2>1, <2>3, <3>2, <3>3 DEF TargetsOK
  <2>6. CASE DstRefuseSeamless(c)
    <3>1. target' = target /\ seamless' = seamless /\ dstSeamless' = FALSE /\ migTargets' = migTargets
      BY <2>6 DEF DstRefuseSeamless
    <3>2. ASSUME MaxArrivals <= 1 PROVE Single'
      BY <2>1, <2>4, <3>1, <3>2 DEF TargetsOK, Single
    <3> QED BY <2>1, <2>3, <3>1, <3>2 DEF TargetsOK
  <2>7. CASE MigrateEnd(c)
    <3>1. target' = target \ {c} /\ seamless' = seamless /\ dstSeamless' = dstSeamless /\ migTargets' = migTargets \ {c}
      BY <2>7 DEF MigrateEnd, LinkPending
    <3>2. ASSUME MaxArrivals <= 1 PROVE Single'
      BY <2>1, <3>1, <3>2 DEF TargetsOK, Single
    <3>3. migTargets' \subseteq target' /\ migTargets' \cap seamless' = {}
      BY <3>1 DEF TargetsOK
    <3> QED BY <2>1, <2>3, <3>2, <3>3 DEF TargetsOK
  <2> QED BY <2>5, <2>6, <2>7
\* handle_migrate_data_early: a client that completes was not registered any more.
<1>TargetsData.
      ASSUME SessionInductive, CountsOK, TargetsOK, NEW c \in Clients, NEW ch, MigrateData(c, ch)
      PROVE  TargetsOK'
  <2> USE <1>TargetsData
  <2>1. /\ arrivals' = arrivals /\ ending' = ending /\ failed' = failed /\ job' = job /\ migTargets' = migTargets
        /\ dstSeamless' = dstSeamless
        /\ (target' = target /\ seamless' = seamless) \/ (target' = target \ {c} /\ seamless' = seamless \ {c})
    BY DEF MigrateData
  <2>2. c \in seamless
    BY DataTarget DEF SessionInductive, SetsOK
  <2>3. Arrives(job)'
    BY <2>1, Zenon DEF Arrives, TargetsOK
  <2>4. migTargets' \subseteq target' /\ migTargets' \cap seamless' = {}
    BY <2>1, <2>2 DEF TargetsOK
  <2>5. ASSUME MaxArrivals <= 1 PROVE Single'
    BY <2>1, <2>2, <2>5 DEF TargetsOK, Single
  <2> QED BY <2>1, <2>3, <2>4, <2>5 DEF TargetsOK
<1> SUFFICES ASSUME SessionInductive, Agreement, CountsOK, TargetsOK, [Next]_vars PROVE TargetsOK'
  OBVIOUS
<1>0. JobOK /\ Arrives(job)
  BY DEF SessionInductive, TargetsOK
<1>1. CASE FromClient
  <2>1. PICK c \in Clients :
          \/ \E migrated \in BOOLEAN : LinkMain(c, migrated)
          \/ \E ch \in Others \cup OfWorker : LinkOther(c, ch)
          \/ DstDoSeamless(c) \/ DstRefuseSeamless(c) \/ MigrateEnd(c)
          \/ \E ch \in Channels : MainMigrateData(c, ch) \/ WorkerMigrateData(c, ch) \/ MainClose(c, ch) \/ WorkerClose(c, ch)
    BY <1>1 DEF FromClient
  <2>2. ASSUME NEW migrated \in BOOLEAN, LinkMain(c, migrated) PROVE TargetsOK'
    <3>1. job = <<>> /\ c \notin made /\ (migrated => arrivals < MaxArrivals)
      BY <2>2, Zenon DEF LinkMain, MainIdle
    <3>2. CASE NewClient(c, migrated) /\ job' = job
      BY <3>1, <3>2, <1>TargetsNew
    <3>3. ASSUME NEW d \in listed, BeginDisconnect(d),
                 job' = <<Msg("destroy", d, Main), Msg(IF migrated THEN "link migrated" ELSE "link", c, Main)>>,
                 UNCHANGED <<arrivals, target, seamless, dstSeamless, failed>>
          PROVE  TargetsOK'
      <4> DEFINE m == Msg(IF migrated THEN "link migrated" ELSE "link", c, Main)
      <4>1. d \in Clients
        BY DEF SessionInductive, SetsOK
      <4>2. job' = <<Msg("destroy", d, Main), m>> /\ (m.k = "link migrated" => migrated)
        BY <3>3, Zenon DEF Msg
      <4> HIDE DEF m
      <4> QED BY <3>1, <3>3, <4>1, <4>2, <1>TargetsBegin, Zenon
    <3> QED BY <2>2, <3>2, <3>3, Zenon DEF LinkMain
  <2>3. ASSUME NEW ch, MainMigrateData(c, ch) \/ WorkerMigrateData(c, ch) PROVE TargetsOK'
    <3>1. MigrateData(c, ch)
      BY <2>3 DEF MainMigrateData, WorkerMigrateData
    <3> QED BY <3>1, <1>TargetsData
  <2>4. ASSUME NEW ch, MainClose(c, ch) \/ WorkerClose(c, ch) PROVE TargetsOK'
    <3>1. /\ arrivals' = arrivals /\ migTargets' = migTargets /\ target' = target /\ seamless' = seamless
          /\ dstSeamless' = dstSeamless /\ ending' = ending /\ failed' = failed /\ job' = job
      BY <2>4, Zenon DEF MainClose, WorkerClose
    <3> QED BY <1>0, <3>1, <1>TargetsKept, <1>ArrivesKept
  <2> QED BY <2>1, <2>2, <2>3, <2>4, <1>TargetsLink, <1>TargetsLinked
<1>2. CASE LinkMainEnd
  <2> DEFINE c == Head(job).c
             migrated == Head(job).k = "link migrated"
  <2>1. c \in Clients /\ c \notin made /\ job' = <<>> /\ NewClient(c, migrated) /\ migrated \in BOOLEAN
    BY <1>2, LinkMainEndFacts, Zenon DEF LinkMainEnd
  <2>2. migrated => arrivals < MaxArrivals
    <3>1. job # <<>>
      BY <1>2, Zenon DEF LinkMainEnd
    <3>2. Head(job) = job[1] /\ 1 \in 1 .. Len(job)
      BY <1>0, <3>1, JobHead
    <3> QED BY <1>0, <3>2, Zenon DEF Arrives
  <2> HIDE DEF c, migrated
  <2> QED BY <2>1, <2>2, <1>TargetsNew
<1>3. CASE HandleDisconnectClient
  <2> DEFINE c == Head(mq).c
  <2>1. mq # <<>> /\ UNCHANGED <<arrivals, target, seamless, dstSeamless, failed>>
    BY <1>3, Zenon DEF HandleDisconnectClient
  <2>2. c \in Clients
    BY <2>1, MessageTaken, Zenon DEF SessionInductive, SetsOK
  <2>3. CASE c \in ending
    <3>1. UNCHANGED <<migTargets, ending, job>>
      BY <1>3, <2>3, Zenon DEF HandleDisconnectClient
    <3> QED BY <1>0, <2>1, <3>1, <1>TargetsKept, <1>ArrivesKept
  <2>4. CASE c \notin ending
    <3>1. BeginDisconnect(c) /\ job' = <<Msg("destroy", c, Main), Msg("release", c, Main)>>
      BY <1>3, <2>4, Zenon DEF HandleDisconnectClient
    <3>2. Msg("release", c, Main).k # "link migrated"
      BY DEF Msg
    <3> HIDE DEF c
    <3> QED BY <2>1, <2>2, <3>1, <3>2, <1>TargetsBegin, Zenon
  <2> QED BY <2>3, <2>4
<1>4. CASE DestroyChannel
  <2>1. UNCHANGED <<arrivals, migTargets, target, seamless, dstSeamless, ending, failed>>
    BY <1>4 DEF DestroyChannel
  <2>2. job # <<>> /\ Head(job).c \in Clients
    <3>1. job # <<>>
      BY <1>4 DEF DestroyChannel
    <3> QED BY <1>0, <3>1, JobHead DEF Message
  <2>3. channels[Head(job).c] \subseteq Channels
    BY <2>2 DEF SessionInductive, ListsOK
  <2>4. job' = job \/ \E ch \in Channels : job' = Awaits(Head(job).c, ch)
    BY <1>4, <2>3 DEF DestroyChannel
  <2> QED BY <1>0, <2>1, <2>2, <2>4, <1>TargetsKept, <1>ArrivesKept
<1>5. CASE HandleComplete \/ DestroyAcked \/ DestroyEnd \/ ReleaseMessage
  <2>1. UNCHANGED <<arrivals, migTargets, target, seamless, dstSeamless, ending, failed>>
        /\ (job' = job \/ (job # <<>> /\ job' = Tail(job)))
    BY <1>5 DEF HandleComplete, DestroyAcked, DestroyEnd, ReleaseMessage, migVars
  <2> QED BY <1>0, <2>1, <1>TargetsKept, <1>ArrivesKept
<1>6. CASE WorkerStep
  <2>1. UNCHANGED <<arrivals, migTargets, target, seamless, dstSeamless, ending, failed, job>>
    BY <1>6 DEF WorkerStep, WorkerConnect, WorkerConnectEnd, WorkerDisconnect, WorkerRemove, migVars
  <2> QED BY <1>0, <2>1, <1>TargetsKept, <1>ArrivesKept
<1>7. CASE UNCHANGED vars
  <2>1. UNCHANGED <<arrivals, migTargets, target, seamless, dstSeamless, ending, failed, job>>
    BY <1>7 DEF vars, migVars
  <2> QED BY <1>0, <2>1, <1>TargetsKept, <1>ArrivesKept
<1> QED BY <1>1, <1>2, <1>3, <1>4, <1>5, <1>6, <1>7 DEF Next, MainStep

-----------------------------------------------------------------------------
(* Counting the channels that wait *)

INSTANCE FiniteSetTheorems

\* Every step of either thread keeps the counts.
LEMMA CountsStep ==
  SessionInductive /\ CountsOK /\ [Next]_vars => CountsOK'
\* Cardinalities of sets of channel clients.
<1>ChannelsFinite. IsFiniteSet(Channels)
  <2>1. IsFiniteSet({Main}) /\ IsFiniteSet(Others) /\ IsFiniteSet(OfWorker)
    BY FS_Singleton, LifecycleAssumption, Zenon
  <2>2. IsFiniteSet({Main} \cup Others)
    BY <2>1, FS_Union, Zenon
  <2>3. IsFiniteSet(({Main} \cup Others) \cup OfWorker)
    BY <2>1, <2>2, FS_Union, Zenon
  <2> QED BY <2>3 DEF Channels
\* Pairing with one client does not change how many channels there are.
<1>PairsCount.
      ASSUME NEW c, NEW S, IsFiniteSet(S)
      PROVE  IsFiniteSet({c} \X S) /\ Cardinality({c} \X S) = Cardinality(S) /\ Cardinality(S) \in Nat
  <2> USE <1>PairsCount
  <2>1. IsFiniteSet({c}) /\ Cardinality({c}) = 1 /\ Cardinality(S) \in Nat
    BY FS_Singleton, FS_CardinalityType, Zenon
  <2>2. IsFiniteSet({c} \X S) /\ Cardinality({c} \X S) = Cardinality({c}) * Cardinality(S)
    BY <2>1, FS_Product
  <2>3. \A n \in Nat : 1 * n = n
    OBVIOUS
  <2> QED BY <2>1, <2>2, <2>3
\* The channels of a client are finitely many.
<1>OfFinite.
      ASSUME NEW S, NEW w \in SUBSET (S \X Channels), NEW c
      PROVE  IsFiniteSet(Of(w, c)) /\ Cardinality(Of(w, c)) \in Nat
  <2> USE <1>OfFinite
  <2>1. IsFiniteSet({c} \X Channels)
    BY <1>ChannelsFinite, <1>PairsCount, Zenon
  <2>2. Of(w, c) \in SUBSET ({c} \X Channels)
    BY DEF Of
  <2>3. IsFiniteSet(Of(w, c))
    BY <2>1, <2>2, FS_Subset
  <2> QED BY <2>3, FS_CardinalityType
\* Fewer channels wait.
<1>OfFewer.
      ASSUME NEW S, NEW w \in SUBSET (S \X Channels), NEW v \in SUBSET w, NEW c
      PROVE  Cardinality(Of(v, c)) <= Cardinality(Of(w, c)) /\ Cardinality(Of(v, c)) \in Nat /\ Cardinality(Of(w, c)) \in Nat
  <2> USE <1>OfFewer
  <2>1. Of(v, c) \in SUBSET Of(w, c) /\ v \in SUBSET (S \X Channels)
    BY DEF Of
  <2>2. IsFiniteSet(Of(w, c)) /\ Cardinality(Of(w, c)) \in Nat /\ Cardinality(Of(v, c)) \in Nat
    BY <2>1, <1>OfFinite
  <2> QED BY <2>1, <2>2, FS_Subset
\* One channel got its data.
<1>OfOneLess.
      ASSUME NEW S, NEW w \in SUBSET (S \X Channels), NEW c, NEW ch, <<c, ch>> \in w
      PROVE  /\ Cardinality(Of(w, c)) \in Nat /\ Cardinality(Of(w, c)) >= 1
             /\ Cardinality(Of(w \ {<<c, ch>>}, c)) = Cardinality(Of(w, c)) - 1
             /\ \A d : d # c => Of(w \ {<<c, ch>>}, d) = Of(w, d)
             /\ Cardinality(Of(w, c)) = 1 => Of(w \ {<<c, ch>>}, c) = {}
  <2> USE <1>OfOneLess
  <2>1. IsFiniteSet(Of(w, c)) /\ Cardinality(Of(w, c)) \in Nat /\ <<c, ch>> \in Of(w, c)
    BY <1>OfFinite, Zenon DEF Of
  <2>2. Of(w \ {<<c, ch>>}, c) = Of(w, c) \ {<<c, ch>>}
    BY DEF Of
  <2>3. Cardinality(Of(w, c) \ {<<c, ch>>}) = Cardinality(Of(w, c)) - 1 /\ IsFiniteSet(Of(w, c) \ {<<c, ch>>})
    BY <2>1, FS_RemoveElement
  <2>4. \A d : d # c => Of(w \ {<<c, ch>>}, d) = Of(w, d)
    BY DEF Of
  <2>5. Cardinality(Of(w, c)) >= 1
    <3>1. Cardinality(Of(w, c)) # 0
      BY <2>1, FS_EmptySet
    <3> QED BY <2>1, <3>1
  <2>6. Cardinality(Of(w, c)) = 1 => Of(w, c) \ {<<c, ch>>} = {}
    <3>1. ASSUME Cardinality(Of(w, c)) = 1 PROVE Cardinality(Of(w, c) \ {<<c, ch>>}) = 0
      BY <2>3, <3>1
    <3> QED BY <2>3, <3>1, FS_EmptySet
  <2> QED BY <2>1, <2>2, <2>3, <2>4, <2>5, <2>6, Zenon
\* More channels wait.
<1>OfMore.
      ASSUME NEW w, NEW c, IsFiniteSet(Of(w, c)), NEW T, IsFiniteSet(T), NEW v, v = w \cup ({c} \X T)
      PROVE  /\ Cardinality(Of(v, c)) <= Cardinality(Of(w, c)) + Cardinality(T)
             /\ Cardinality(T) \in Nat /\ Cardinality(Of(w, c)) \in Nat
             /\ Cardinality(Of(v, c)) \in Nat
             /\ \A d : d # c => Of(v, d) = Of(w, d)
  <2> USE <1>OfMore
  <2>1. IsFiniteSet(T) /\ IsFiniteSet(Of(w, c)) /\ Cardinality(Of(w, c)) \in Nat
    BY FS_CardinalityType
  <2>2. Of(v, c) = Of(w, c) \cup ({c} \X T)
    BY DEF Of
  <2>3. IsFiniteSet({c} \X T) /\ Cardinality({c} \X T) = Cardinality(T) /\ Cardinality(T) \in Nat
    BY <2>1, <1>PairsCount, Zenon
  <2>4. /\ IsFiniteSet(Of(w, c) \cup ({c} \X T)) /\ IsFiniteSet(Of(w, c) \cap ({c} \X T))
        /\ Cardinality(Of(w, c) \cup ({c} \X T))
             = Cardinality(Of(w, c)) + Cardinality({c} \X T) - Cardinality(Of(w, c) \cap ({c} \X T))
    <3>1. Of(w, c) \cap ({c} \X T) \in SUBSET Of(w, c)
      OBVIOUS
    <3>2. IsFiniteSet(Of(w, c) \cap ({c} \X T))
      BY <2>1, <3>1, FS_Subset
    <3> QED BY <2>1, <2>3, <3>2, FS_Union
  <2>5. Cardinality(Of(w, c) \cap ({c} \X T)) \in Nat /\ Cardinality(Of(w, c) \cup ({c} \X T)) \in Nat
    BY <2>4, FS_CardinalityType
  <2>6. \A d : d # c => Of(v, d) = Of(w, d)
    BY DEF Of
  <2>7. Cardinality(Of(w, c) \cup ({c} \X T)) <= Cardinality(Of(w, c)) + Cardinality(T)
    BY <2>1, <2>3, <2>4, <2>5
  <2> QED BY <2>1, <2>2, <2>3, <2>5, <2>6, <2>7, Zenon
\* RedClient::add_channel and set_migration_seamless count what they make wait.
<1>JoinsCounts.
      ASSUME CountsOK, NEW c \in Clients, NEW chs, NEW wait \in SUBSET Channels, Joins(c, chs, wait)
      PROVE  /\ num' \in [Clients -> Nat] /\ \A d \in Clients : Cardinality(Of(waitData', d)) <= num'[d]
             /\ waitData' = waitData \cup {<<c, ch>> : ch \in wait \cap NeedData}
  <2> USE <1>JoinsCounts
  <2> DEFINE T == wait \cap NeedData
  <2>1. waitData' = waitData \cup ({c} \X T) /\ num' = [num EXCEPT ![c] = num[c] + Cardinality(T)]
    BY DEF Joins
  <2>2. waitData \in SUBSET (seamless \X Channels) /\ T \in SUBSET Channels
    BY DEF CountsOK
  <2> HIDE DEF T
  <2>3. /\ Cardinality(Of(waitData', c)) <= Cardinality(Of(waitData, c)) + Cardinality(T)
        /\ Cardinality(T) \in Nat /\ Cardinality(Of(waitData, c)) \in Nat /\ Cardinality(Of(waitData', c)) \in Nat
        /\ \A d : d # c => Of(waitData', d) = Of(waitData, d)
    <3>1. IsFiniteSet(Of(waitData, c)) /\ IsFiniteSet(T)
      BY <2>2, <1>OfFinite, <1>ChannelsFinite, FS_Subset, Zenon
    <3> QED BY <2>1, <3>1, <1>OfMore
  <2>4. num[c] \in Nat /\ Cardinality(Of(waitData, c)) <= num[c] /\ num \in [Clients -> Nat]
    BY DEF CountsOK
  <2>5. num' \in [Clients -> Nat] /\ num'[c] = num[c] + Cardinality(T) /\ \A d \in Clients : d # c => num'[d] = num[d]
    BY <2>1, <2>3, <2>4
  <2>6. Cardinality(Of(waitData', c)) <= num'[c]
    BY <2>3, <2>4, <2>5
  <2>7. \A d \in Clients : d # c => Cardinality(Of(waitData', d)) <= num'[d]
    BY <2>3, <2>5 DEF CountsOK
  <2>8. \A d \in Clients : Cardinality(Of(waitData', d)) <= num'[d]
    BY <2>6, <2>7
  <2>9. waitData' = waitData \cup {<<c, ch>> : ch \in wait \cap NeedData}
    BY DEF Joins
  <2> QED BY <2>5, <2>8, <2>9
\* Channels that leave wait no longer; the count stays.
<1>CountsFewer.
      ASSUME CountsOK, waitData' \subseteq waitData, num' = num, target' = target, seamless' = seamless, made' = made
      PROVE  CountsOK'
  <2> USE <1>CountsFewer
  <2>1. waitData \in SUBSET (seamless \X Channels) /\ waitData' \in SUBSET waitData
    BY DEF CountsOK
  <2>2. ASSUME NEW c \in Clients PROVE Cardinality(Of(waitData', c)) <= num'[c]
    <3>1. /\ Cardinality(Of(waitData', c)) <= Cardinality(Of(waitData, c))
          /\ Cardinality(Of(waitData', c)) \in Nat /\ Cardinality(Of(waitData, c)) \in Nat
      BY <2>1, <1>OfFewer, Zenon
    <3>2. num[c] \in Nat /\ Cardinality(Of(waitData, c)) <= num[c]
      BY DEF CountsOK
    <3> QED BY <3>1, <3>2
  <2>3. waitData' \subseteq seamless' \X Channels /\ target' \subseteq made' /\ seamless' \subseteq target'
        /\ num' \in [Clients -> Nat]
    BY <2>1 DEF CountsOK
  <2> QED BY <2>2, <2>3 DEF CountsOK
\* A link joins: it waits when its client is in a seamless migration.
<1>CountsLinked.
      ASSUME CountsOK, NEW c \in Clients, NEW chs \in SUBSET Channels, Joins(c, chs, Waiting(c, chs)),
             target' = target, seamless' = seamless, made' = made
      PROVE  CountsOK'
  <2> USE <1>CountsLinked
  <2> DEFINE wait == Waiting(c, chs)
  <2>1. wait \in SUBSET Channels /\ (wait # {} => c \in seamless)
    BY DEF Waiting
  <2>2. Joins(c, chs, wait)
    OBVIOUS
  <2> HIDE DEF wait
  <2>3. /\ num' \in [Clients -> Nat] /\ \A d \in Clients : Cardinality(Of(waitData', d)) <= num'[d]
        /\ waitData' = waitData \cup {<<c, ch>> : ch \in wait \cap NeedData}
    BY <2>1, <2>2, <1>JoinsCounts
  <2>4. waitData' \subseteq seamless' \X Channels
    BY <2>1, <2>3 DEF CountsOK
  <2> QED BY <2>3, <2>4 DEF CountsOK
\* A new client waits for nothing.
<1>CountsNew.
      ASSUME SessionInductive, CountsOK, NEW c \in Clients, NEW migrated, NewClient(c, migrated)
      PROVE  CountsOK'
  <2> USE <1>CountsNew
  <2>1. /\ made' = made \cup {c} /\ (target' = target \/ target' = target \cup {c}) /\ seamless' = seamless
        /\ Joins(c, {Main}, {})
    BY DEF NewClient
  <2>2. {} \in SUBSET Channels
    OBVIOUS
  <2>3. /\ num' \in [Clients -> Nat] /\ \A d \in Clients : Cardinality(Of(waitData', d)) <= num'[d]
        /\ waitData' = waitData \cup {<<c, ch>> : ch \in {} \cap NeedData}
    BY <2>1, <2>2, <1>JoinsCounts
  <2>4. waitData' = waitData
    BY <2>3
  <2> QED BY <2>1, <2>3, <2>4 DEF CountsOK
\* handle_migrate_dst_do_seamless: the channels there are wait, and those that were pending.
<1>CountsSeamless.
      ASSUME SessionInductive, CountsOK, NEW c \in Clients, DstDoSeamless(c)
      PROVE  CountsOK'
  <2> USE <1>CountsSeamless
  <2> DEFINE new == Accepted(c, pending[c].near)
             wait == channels[c] \cup new
  <2>1. seamless' = seamless \cup {c} /\ c \in target /\ target' = target /\ made' = made /\ Joins(c, new, wait)
    BY DEF DstDoSeamless, LinkPending
  <2>2. wait \in SUBSET Channels
    BY DEF SessionInductive, ListsOK, Accepted, Channels
  <2> HIDE DEF new, wait
  <2>3. /\ num' \in [Clients -> Nat] /\ \A d \in Clients : Cardinality(Of(waitData', d)) <= num'[d]
        /\ waitData' = waitData \cup {<<c, ch>> : ch \in wait \cap NeedData}
    BY <2>1, <2>2, <1>JoinsCounts
  <2>4. waitData' \subseteq seamless' \X Channels
    BY <2>1, <2>2, <2>3 DEF CountsOK
  <2> QED BY <2>1, <2>3, <2>4 DEF CountsOK
\* handle_migrate_end: nothing waits, the migration is over.
<1>CountsEnd.
      ASSUME CountsOK, NEW c \in Clients, MigrateEnd(c)
      PROVE  CountsOK'
  <2> USE <1>CountsEnd
  <2> DEFINE new == Accepted(c, pending[c].near)
  <2>1. seamless' = seamless /\ c \notin seamless /\ target' = target \ {c} /\ made' = made /\ Joins(c, new, {})
    BY DEF MigrateEnd, LinkPending
  <2>2. {} \in SUBSET Channels
    OBVIOUS
  <2> HIDE DEF new
  <2>3. /\ num' \in [Clients -> Nat] /\ \A d \in Clients : Cardinality(Of(waitData', d)) <= num'[d]
        /\ waitData' = waitData \cup {<<c, ch>> : ch \in {} \cap NeedData}
    BY <2>1, <2>2, <1>JoinsCounts
  <2>4. waitData' = waitData
    BY <2>3
  <2> QED BY <2>1, <2>3, <2>4 DEF CountsOK
\* handle_migrate_data_early: one fewer waits and one fewer is counted, on the last one none does.
<1>CountsData.
      ASSUME CountsOK, made \subseteq Clients, NEW c, NEW ch, MigrateData(c, ch)
      PROVE  CountsOK' /\ c \in target /\ c \in seamless /\ c \in Clients
  <2> USE <1>CountsData
  <2>1. /\ <<c, ch>> \in waitData /\ waitData' = waitData \ {<<c, ch>>} /\ num' = [num EXCEPT ![c] = num[c] - 1]
        /\ made' = made
    BY DEF MigrateData
  <2>2. c \in seamless /\ c \in target /\ c \in Clients /\ num \in [Clients -> Nat]
    BY <2>1 DEF CountsOK
  <2>3. waitData \in SUBSET (seamless \X Channels)
    BY DEF CountsOK
  <2>4. /\ Cardinality(Of(waitData, c)) \in Nat /\ Cardinality(Of(waitData, c)) >= 1
        /\ Cardinality(Of(waitData', c)) = Cardinality(Of(waitData, c)) - 1
        /\ \A d : d # c => Of(waitData', d) = Of(waitData, d)
        /\ Cardinality(Of(waitData, c)) = 1 => Of(waitData', c) = {}
    BY <2>1, <2>3, <1>OfOneLess
  <2>5. num[c] \in Nat /\ Cardinality(Of(waitData, c)) <= num[c]
    BY <2>2 DEF CountsOK
  <2>6. num' \in [Clients -> Nat] /\ num'[c] = num[c] - 1 /\ \A d \in Clients : d # c => num'[d] = num[d]
    <3>1. num[c] - 1 \in Nat
      BY <2>4, <2>5
    <3> QED BY <2>1, <2>2, <3>1
  <2>7. ASSUME NEW d \in Clients PROVE Cardinality(Of(waitData', d)) <= num'[d]
    <3>1. CASE d = c
      BY <2>4, <2>5, <2>6, <3>1
    <3>2. CASE d # c
      BY <2>4, <2>6, <3>2 DEF CountsOK
    <3> QED BY <3>1, <3>2
  <2>8. CASE LastChannel(c)
    <3>1. target' = target \ {c} /\ seamless' = seamless \ {c}
      BY <2>8 DEF MigrateData
    <3>2. Cardinality(Of(waitData, c)) = 1
      BY <2>4, <2>5, <2>8 DEF LastChannel
    <3>3. Of(waitData', c) = {}
      BY <2>4, <3>2
    <3>4. waitData' \subseteq seamless' \X Channels
      BY <2>1, <2>3, <3>1, <3>3 DEF Of
    <3> QED BY <2>1, <2>2, <2>6, <2>7, <3>1, <3>4, Zenon DEF CountsOK
  <2>9. CASE ~LastChannel(c)
    <3>1. target' = target /\ seamless' = seamless
      BY <2>9 DEF MigrateData
    <3> QED BY <2>1, <2>2, <2>3, <2>6, <2>7, <3>1 DEF CountsOK
  <2> QED BY <2>2, <2>8, <2>9
<1> SUFFICES ASSUME SessionInductive, CountsOK, [Next]_vars PROVE CountsOK'
  OBVIOUS
<1>0. made \subseteq Clients
  BY DEF SessionInductive, SetsOK
<1>1. CASE FromClient
  <2>1. PICK c \in Clients :
          \/ \E migrated \in BOOLEAN : LinkMain(c, migrated)
          \/ \E ch \in Others \cup OfWorker : LinkOther(c, ch)
          \/ DstDoSeamless(c) \/ DstRefuseSeamless(c) \/ MigrateEnd(c)
          \/ \E ch \in Channels : MainMigrateData(c, ch) \/ WorkerMigrateData(c, ch) \/ MainClose(c, ch) \/ WorkerClose(c, ch)
    BY <1>1 DEF FromClient
  <2>2. ASSUME NEW migrated \in BOOLEAN, LinkMain(c, migrated) PROVE CountsOK'
    <3>1. CASE NewClient(c, migrated)
      BY <3>1, <1>CountsNew
    <3>2. CASE UNCHANGED <<made, target, seamless, num, waitData>>
      BY <3>2, <1>CountsFewer
    <3> QED BY <2>2, <3>1, <3>2, Zenon DEF LinkMain
  <2>3. ASSUME NEW ch, LinkOther(c, ch) PROVE CountsOK'
    <3>1. made' = made /\ target' = target /\ seamless' = seamless
      BY <2>3 DEF LinkOther
    <3>2. CASE num' = num /\ waitData' = waitData
      BY <3>1, <3>2, <1>CountsFewer
    <3>3. CASE Joins(c, Accepted(c, {ch}), Waiting(c, Accepted(c, {ch})))
      <4>1. Accepted(c, {ch}) \in SUBSET Channels
        BY DEF Accepted, Channels
      <4> QED BY <3>1, <3>3, <4>1, <1>CountsLinked
    <3> QED BY <2>3, <3>2, <3>3, Zenon DEF LinkOther
  <2>4. CASE DstRefuseSeamless(c)
    <3>1. waitData' = waitData /\ num' = num /\ target' = target /\ seamless' = seamless /\ made' = made
      BY <2>4 DEF DstRefuseSeamless
    <3> QED BY <3>1, <1>CountsFewer
  <2>5. ASSUME NEW ch, MainMigrateData(c, ch) \/ WorkerMigrateData(c, ch) PROVE CountsOK'
    <3>1. MigrateData(c, ch)
      BY <2>5 DEF MainMigrateData, WorkerMigrateData
    <3> QED BY <1>0, <3>1, <1>CountsData
  <2>6. ASSUME NEW ch, MainClose(c, ch) \/ WorkerClose(c, ch) PROVE CountsOK'
    <3>1. waitData' \subseteq waitData /\ num' = num /\ target' = target /\ seamless' = seamless /\ made' = made
      BY <2>6, Zenon DEF MainClose, WorkerClose, Unlists
    <3> QED BY <3>1, <1>CountsFewer
  <2> QED BY <2>1, <2>2, <2>3, <2>4, <2>5, <2>6, <1>CountsSeamless, <1>CountsEnd
<1>2. CASE LinkMainEnd
  <2>1. Head(job).c \in Clients /\ NewClient(Head(job).c, Head(job).k = "link migrated")
    BY <1>2, LinkMainEndFacts, Zenon DEF LinkMainEnd
  <2> QED BY <2>1, <1>CountsNew, Zenon
<1>3. CASE HandleDisconnectClient \/ HandleComplete \/ DestroyChannel \/ DestroyAcked \/ DestroyEnd \/ ReleaseMessage
  <2>1. waitData' \subseteq waitData /\ num' = num /\ target' = target /\ seamless' = seamless /\ made' = made
    BY <1>3, Zenon DEF HandleDisconnectClient, HandleComplete, DestroyChannel, DestroyAcked, DestroyEnd, ReleaseMessage, migVars, Unlists
  <2> QED BY <2>1, <1>CountsFewer
<1>4. CASE WorkerConnectEnd
  <2> DEFINE new == {ch \in {worker.ch} : ~Refuses(worker.c, ch)}
  <2>1. worker.c \in Clients /\ new \in SUBSET Channels
    BY <1>4, WorkerNames DEF WorkerConnectEnd
  <2>2. Joins(worker.c, new, Waiting(worker.c, new)) /\ made' = made /\ target' = target /\ seamless' = seamless
    BY <1>4 DEF WorkerConnectEnd
  <2> HIDE DEF new
  <2> QED BY <2>1, <2>2, <1>CountsLinked
<1>5. CASE WorkerConnect \/ WorkerDisconnect \/ WorkerRemove
  <2>1. waitData' \subseteq waitData /\ num' = num /\ target' = target /\ seamless' = seamless /\ made' = made
    BY <1>5 DEF WorkerConnect, WorkerDisconnect, WorkerRemove, migVars, Unlists
  <2> QED BY <2>1, <1>CountsFewer
<1>6. CASE UNCHANGED vars
  <2>1. waitData' = waitData /\ num' = num /\ target' = target /\ seamless' = seamless /\ made' = made
    BY <1>6 DEF vars, migVars
  <2> QED BY <2>1, <1>CountsFewer
<1> QED BY <1>1, <1>2, <1>3, <1>4, <1>5, <1>6 DEF Next, MainStep, WorkerStep

\* Every step of either thread keeps what the main thread is told about completed migrations.
LEMMA ToldStep ==
  SessionInductive /\ CountsOK /\ ToldOK /\ [Next]_vars => ToldOK'
\* The messages about completed migrations: nothing told, nobody enters a migration.
<1>ToldKept.
      ASSUME ToldOK, told' = told, target' \subseteq target, made \subseteq made', mq' = mq
      PROVE  ToldOK'
  <2> USE <1>ToldKept
  <2>1. Completes(mq', told', target') /\ CompleteOnce(mq')
    BY DEF ToldOK, Completes
  <2> QED BY <2>1 DEF ToldOK
\* A message is appended to the queue of the main thread.
<1>AppendFacts.
      ASSUME NEW S, NEW q \in Seq(S), NEW m \in S
      PROVE  Len(q) \in Nat /\ Len(Append(q, m)) = Len(q) + 1 /\ Append(q, m)[Len(q) + 1] = m
             /\ \A i \in 1 .. Len(q) : Append(q, m)[i] = q[i]
  BY <1>AppendFacts, Appended, Lengths
\* A position in a queue with one message more.
<1>LastOrBefore. ASSUME NEW n \in Nat, NEW i \in 1 .. n + 1 PROVE i \in 1 .. n \/ i = n + 1
  BY <1>LastOrBefore
\* The main thread's queue after a message was sent to it.
<1>SentLast.
      ASSUME SessionInductive, NEW m \in Named({"disconnect client", "complete"}), mq' = Append(mq, m)
      PROVE  \A i \in 1 .. Len(mq') : (i \in 1 .. Len(mq) /\ mq'[i] = mq[i]) \/ (i = Len(mq) + 1 /\ mq'[i] = m)
  <2> USE <1>SentLast
  <2>1. mq \in Seq(Named({"disconnect client", "complete"}))
    BY Zenon DEF SessionInductive, QueuesOK
  <2>2. Len(mq) \in Nat /\ Len(mq') = Len(mq) + 1 /\ mq'[Len(mq) + 1] = m /\ \A i \in 1 .. Len(mq) : mq'[i] = mq[i]
    BY <2>1, <1>AppendFacts, Zenon
  <2>3. \A i \in 1 .. Len(mq') : i \in 1 .. Len(mq) \/ i = Len(mq) + 1
    BY <2>2, <1>LastOrBefore, Zenon
  <2> QED BY <2>2, <2>3, Zenon
\* What is behind the head of the queue.
<1>CompletesTail.
      ASSUME NEW S, NEW q \in Seq(S), q # <<>>, NEW t, NEW g, Completes(q, t, g), CompleteOnce(q)
      PROVE  /\ Completes(Tail(q), t, g) /\ CompleteOnce(Tail(q))
             /\ Head(q).k = "complete" =>
                  /\ t[Head(q).c] = 0 /\ Head(q).c \notin g
                  /\ \A i \in 1 .. Len(Tail(q)) : Tail(q)[i].k = "complete" => Tail(q)[i].c # Head(q).c
  <2> USE <1>CompletesTail
  <2>1. \A i \in 1 .. Len(Tail(q)) : i + 1 \in 1 .. Len(q) /\ Tail(q)[i] = q[i + 1]
    BY TailOf
  <2>2. Head(q) = q[1] /\ 1 \in 1 .. Len(q)
    BY HeadTail
  <2>3. Completes(Tail(q), t, g)
    BY <2>1 DEF Completes
  <2>4. CompleteOnce(Tail(q))
    <3>1. ASSUME NEW i \in 1 .. Len(Tail(q)), NEW j \in 1 .. Len(Tail(q)),
                 Tail(q)[i].k = "complete" /\ Tail(q)[j].k = "complete" /\ Tail(q)[i].c = Tail(q)[j].c
          PROVE  i = j
      <4>1. i + 1 = j + 1
        BY <2>1, <3>1 DEF CompleteOnce
      <4> QED BY <4>1
    <3> QED BY <3>1 DEF CompleteOnce
  <2>5. ASSUME Head(q).k = "complete", NEW i \in 1 .. Len(Tail(q)), Tail(q)[i].k = "complete", Tail(q)[i].c = Head(q).c
        PROVE  FALSE
    <3>1. i + 1 = 1
      BY <2>1, <2>2, <2>5 DEF CompleteOnce
    <3> QED BY <3>1
  <2>6. Head(q).k = "complete" => t[Head(q).c] = 0 /\ Head(q).c \notin g
    BY <2>2 DEF Completes
  <2> QED BY <2>3, <2>4, <2>5, <2>6
\* A client is told that its migration is complete; no message is left that would tell it again.
<1>ToldNow.
      ASSUME ToldOK, NEW c \in made, c \in Clients, told[c] = 0, told' = [told EXCEPT ![c] = told[c] + 1],
             c \notin target', target' \subseteq target, made' = made, CompleteOnce(mq'), Completes(mq', told, target),
             \A i \in 1 .. Len(mq') : mq'[i].k = "complete" => mq'[i].c # c,
             \A i \in 1 .. Len(mq') : mq'[i].c \in Clients
      PROVE  ToldOK'
  <2> USE <1>ToldNow
  <2>1. told \in [Clients -> {0, 1}]
    BY DEF ToldOK
  <2>2. told'[c] = 1 /\ \A d \in Clients : d # c => told'[d] = told[d]
    BY <2>1
  <2>3. told' \in [Clients -> {0, 1}]
    BY <2>1
  <2>4. Completes(mq', told', target')
    BY <2>2 DEF Completes
  <2>5. \A d \in Clients : d \in target' \/ d \notin made' => told'[d] = 0
    BY <2>2 DEF ToldOK
  <2> QED BY <2>3, <2>4, <2>5 DEF ToldOK
\* A client enters its migration.
<1>ToldNew.
      ASSUME SessionInductive, ToldOK, NEW c \in Clients, c \notin made, NEW migrated, NewClient(c, migrated)
      PROVE  ToldOK'
  <2> USE <1>ToldNew
  <2>1. /\ told' = told /\ mq' = mq /\ made' = made \cup {c} /\ target' \subseteq target \cup {c}
    BY DEF NewClient
  <2>2. \A i \in 1 .. Len(mq) : mq[i].c # c
    <3>1. mq \in Seq(Named({"disconnect client", "complete"}))
      BY Zenon DEF SessionInductive, QueuesOK
    <3>2. \A i \in 1 .. Len(mq) : mq[i] \in Named({"disconnect client", "complete"})
      BY <3>1, ElementIn, Zenon
    <3> QED BY <3>2, Zenon DEF Named
  <2>3. Completes(mq', told', target')
    BY <2>1, <2>2 DEF ToldOK, Completes
  <2>4. CompleteOnce(mq')
    BY <2>1 DEF ToldOK
  <2>5. told' \in [Clients -> {0, 1}] /\ \A d \in Clients : d \in target' \/ d \notin made' => told'[d] = 0
    BY <2>1 DEF ToldOK
  <2> QED BY <2>3, <2>4, <2>5 DEF ToldOK
\* The messages are about clients that there are.
<1>QueueNames. ASSUME SessionInductive PROVE \A i \in 1 .. Len(mq) : mq[i].c \in Clients /\ mq[i].c \in made
  <2> USE <1>QueueNames
  <2>1. mq \in Seq(Named({"disconnect client", "complete"})) /\ made \subseteq Clients
    BY Zenon DEF SessionInductive, QueuesOK, SetsOK
  <2>2. \A i \in 1 .. Len(mq) : mq[i] \in Named({"disconnect client", "complete"})
    BY <2>1, ElementIn, Zenon
  <2> QED BY <2>1, <2>2, Zenon DEF Named
\* handle_migrate_end.
<1>ToldEnd. ASSUME SessionInductive, CountsOK, ToldOK, NEW c \in Clients, MigrateEnd(c) PROVE ToldOK'
  <2> USE <1>ToldEnd
  <2>1. /\ told' = [told EXCEPT ![c] = told[c] + 1] /\ mq' = mq /\ made' = made /\ target' = target \ {c} /\ c \in target
    BY DEF MigrateEnd
  <2>2. c \in made /\ told[c] = 0
    BY <2>1 DEF CountsOK, ToldOK
  <2>3. \A i \in 1 .. Len(mq') : mq'[i].k = "complete" => mq'[i].c # c
    BY <2>1 DEF ToldOK, Completes
  <2>4. CompleteOnce(mq') /\ Completes(mq', told, target)
    BY <2>1 DEF ToldOK
  <2>5. \A i \in 1 .. Len(mq') : mq'[i].c \in Clients
    BY <2>1, <1>QueueNames
  <2> QED BY <2>1, <2>2, <2>3, <2>4, <2>5, <1>ToldNow, Zenon
\* A channel of the worker got its data: a message tells the main thread about the last one.
<1>ToldWorker.
      ASSUME SessionInductive, CountsOK, ToldOK, NEW c \in Clients, NEW ch \in Channels, WorkerMigrateData(c, ch)
      PROVE  ToldOK'
  <2> USE <1>ToldWorker
  <2>1. MigrateData(c, ch) /\ told' = told /\ made' = made /\ target' \subseteq target
    BY DEF WorkerMigrateData, MigrateData
  <2>2. c \in target /\ c \in made /\ told[c] = 0
    <3>1. c \in target
      BY <2>1, DataTarget DEF SessionInductive, SetsOK
    <3> QED BY <3>1 DEF CountsOK, ToldOK
  <2>3. CASE LastChannel(c)
    <3> DEFINE m == Msg("complete", c, ch)
    <3>1. mq' = Append(mq, m) /\ target' = target \ {c}
      BY <2>1, <2>3 DEF WorkerMigrateData, MigrateData
    <3>2. m \in Named({"disconnect client", "complete"}) /\ m.c = c /\ m.k = "complete"
      BY <2>2 DEF Msg, Named
    <3> HIDE DEF m
    <3>4. \A i \in 1 .. Len(mq') : (i \in 1 .. Len(mq) /\ mq'[i] = mq[i]) \/ (i = Len(mq) + 1 /\ mq'[i] = m)
      BY <3>1, <3>2, <1>SentLast, Zenon
    <3>5. \A i \in 1 .. Len(mq) : mq[i].k = "complete" => mq[i].c # c
      BY <2>2 DEF ToldOK, Completes
    <3>6. Completes(mq', told', target')
      <4>1. ASSUME NEW i \in 1 .. Len(mq'), mq'[i].k = "complete" PROVE told[mq'[i].c] = 0 /\ mq'[i].c \notin target \ {c}
        <5>1. CASE i \in 1 .. Len(mq) /\ mq'[i] = mq[i]
          BY <4>1, <5>1 DEF ToldOK, Completes
        <5>2. CASE mq'[i] = m
          BY <2>2, <3>2, <5>2, Zenon
        <5> QED BY <3>4, <5>1, <5>2
      <4> QED BY <2>1, <3>1, <4>1 DEF Completes
    <3>7. CompleteOnce(mq')
      BY <3>2, <3>4, <3>5, Zenon DEF ToldOK, CompleteOnce
    <3> QED BY <2>1, <3>6, <3>7 DEF ToldOK
  <2>4. CASE ~LastChannel(c)
    <3>1. mq' = mq
      BY <2>4 DEF WorkerMigrateData
    <3> QED BY <2>1, <3>1, <1>ToldKept
  <2> QED BY <2>3, <2>4
\* main_dispatcher_handle_migrate_complete.
<1>ToldHandled. ASSUME SessionInductive, ToldOK, HandleComplete PROVE ToldOK'
  <2> USE <1>ToldHandled
  <2> DEFINE c == Head(mq).c
  <2>1. mq # <<>> /\ mq' = Tail(mq) /\ Head(mq).k = "complete" /\ made' = made /\ target' = target
    BY DEF HandleComplete
  <2>2. mq \in Seq(Named({"disconnect client", "complete"}))
    BY Zenon DEF SessionInductive, QueuesOK
  <2>3. Completes(mq, told, target) /\ CompleteOnce(mq)
    BY DEF ToldOK
  <2>4. /\ Completes(mq', told, target) /\ CompleteOnce(mq') /\ told[c] = 0 /\ c \notin target
        /\ \A i \in 1 .. Len(mq') : mq'[i].k = "complete" => mq'[i].c # c
    BY <2>1, <2>2, <2>3, <1>CompletesTail, Zenon
  <2>5. c \in made /\ c \in Clients
    BY <2>1, MessageTaken, Zenon DEF SessionInductive, SetsOK
  <2>6. \A i \in 1 .. Len(mq') : mq'[i].c \in Clients
    BY <2>1, <2>2, TailOf, <1>QueueNames, Zenon
  <2>7. CASE c \in listed
    <3>1. told' = [told EXCEPT ![c] = told[c] + 1]
      BY <2>7 DEF HandleComplete
    <3> HIDE DEF c
    <3> QED BY <2>1, <2>4, <2>5, <2>6, <3>1, <1>ToldNow, Zenon
  <2>8. CASE c \notin listed
    <3>1. told' = told
      BY <2>8 DEF HandleComplete
    <3> QED BY <2>1, <2>4, <3>1 DEF ToldOK
  <2> QED BY <2>7, <2>8
\* The queue loses its first message, or a disconnection is appended; the rest stays.
<1>ToldQueue.
      ASSUME SessionInductive, ToldOK, told' = told, target' = target, made' = made,
             \/ mq # <<>> /\ mq' = Tail(mq)
             \/ \E c \in made : mq' = Append(mq, Msg("disconnect client", c, Main))
             \/ mq' = mq
      PROVE  ToldOK'
  <2> USE <1>ToldQueue
  <2>1. mq \in Seq(Named({"disconnect client", "complete"})) /\ Completes(mq, told, target) /\ CompleteOnce(mq)
    BY Zenon DEF SessionInductive, QueuesOK, ToldOK
  <2>2. CASE mq # <<>> /\ mq' = Tail(mq)
    <3>1. Completes(mq', told, target) /\ CompleteOnce(mq')
      BY <2>1, <2>2, <1>CompletesTail, Zenon
    <3> QED BY <3>1, Zenon DEF ToldOK
  <2>3. ASSUME NEW c \in made, mq' = Append(mq, Msg("disconnect client", c, Main)) PROVE ToldOK'
    <3> DEFINE m == Msg("disconnect client", c, Main)
    <3>1. m \in Named({"disconnect client", "complete"}) /\ m.k = "disconnect client"
      BY Zenon DEF Msg, Named, Channels
    <3>2. mq' = Append(mq, m)
      BY <2>3, Zenon
    <3> HIDE DEF m
    <3>3. \A i \in 1 .. Len(mq') : (i \in 1 .. Len(mq) /\ mq'[i] = mq[i]) \/ (i = Len(mq) + 1 /\ mq'[i] = m)
      BY <3>1, <3>2, <1>SentLast, Zenon
    <3>4. Completes(mq', told, target)
      BY <2>1, <3>1, <3>3, Zenon DEF Completes
    <3>5. CompleteOnce(mq')
      BY <2>1, <3>1, <3>3, Zenon DEF CompleteOnce
    <3> QED BY <3>4, <3>5, Zenon DEF ToldOK
  <2>4. CASE mq' = mq
    BY <2>4, <1>ToldKept
  <2> QED BY <2>2, <2>3, <2>4, Zenon
\* A channel of the main thread got its data.
<1>ToldMain.
      ASSUME SessionInductive, CountsOK, ToldOK, NEW c \in Clients, NEW ch, MainMigrateData(c, ch)
      PROVE  ToldOK'
  <2> USE <1>ToldMain
  <2>1. MigrateData(c, ch) /\ mq' = mq /\ made' = made /\ target' \subseteq target
    BY DEF MainMigrateData, MigrateData
  <2>2. c \in target /\ c \in made /\ told[c] = 0
    <3>1. c \in target
      BY <2>1, DataTarget DEF SessionInductive, SetsOK
    <3> QED BY <3>1 DEF CountsOK, ToldOK
  <2>3. CASE LastChannel(c) /\ c \in listed
    <3>1. told' = [told EXCEPT ![c] = told[c] + 1] /\ target' = target \ {c}
      BY <2>1, <2>3 DEF MainMigrateData, MigrateData
    <3>2. \A i \in 1 .. Len(mq') : mq'[i].k = "complete" => mq'[i].c # c
      BY <2>1, <2>2 DEF ToldOK, Completes
    <3>3. CompleteOnce(mq') /\ Completes(mq', told, target)
      BY <2>1 DEF ToldOK
    <3>4. \A i \in 1 .. Len(mq') : mq'[i].c \in Clients
      BY <2>1, <1>QueueNames
    <3> QED BY <2>1, <2>2, <3>1, <3>2, <3>3, <3>4, <1>ToldNow, Zenon
  <2>4. CASE ~(LastChannel(c) /\ c \in listed)
    <3>1. told' = told
      BY <2>4 DEF MainMigrateData
    <3> QED BY <2>1, <3>1, <1>ToldKept
  <2> QED BY <2>3, <2>4
<1> SUFFICES ASSUME SessionInductive, CountsOK, ToldOK, [Next]_vars PROVE ToldOK'
  OBVIOUS
<1>1. CASE FromClient
  <2>1. PICK c \in Clients :
          \/ \E migrated \in BOOLEAN : LinkMain(c, migrated)
          \/ \E ch \in Others \cup OfWorker : LinkOther(c, ch)
          \/ DstDoSeamless(c) \/ DstRefuseSeamless(c) \/ MigrateEnd(c)
          \/ \E ch \in Channels : MainMigrateData(c, ch) \/ WorkerMigrateData(c, ch) \/ MainClose(c, ch) \/ WorkerClose(c, ch)
    BY <1>1 DEF FromClient
  <2>2. ASSUME NEW migrated \in BOOLEAN, LinkMain(c, migrated) PROVE ToldOK'
    <3>1. c \notin made
      BY <2>2, Zenon DEF LinkMain
    <3>2. CASE NewClient(c, migrated)
      BY <3>1, <3>2, <1>ToldNew
    <3>3. CASE UNCHANGED <<made, target, told, mq>>
      BY <3>3, <1>ToldKept
    <3> QED BY <2>2, <3>2, <3>3, Zenon DEF LinkMain
  <2>3. ASSUME NEW ch, LinkOther(c, ch) PROVE ToldOK'
    <3>1. made' = made /\ target' = target /\ told' = told /\ mq' = mq
      BY <2>3 DEF LinkOther
    <3> QED BY <3>1, <1>ToldKept
  <2>4. CASE DstRefuseSeamless(c) \/ DstDoSeamless(c)
    <3>1. made' = made /\ target' = target /\ told' = told /\ mq' = mq
      BY <2>4, Zenon DEF DstRefuseSeamless, DstDoSeamless
    <3> QED BY <3>1, <1>ToldKept
  <2>5. ASSUME NEW ch, MainClose(c, ch) PROVE ToldOK'
    <3>1. made' = made /\ target' = target /\ told' = told
          /\ (mq' = Append(mq, Msg("disconnect client", c, Main)) \/ mq' = mq)
      BY <2>5, Zenon DEF MainClose
    <3>2. c \in made
      BY <2>5, UpMade, Zenon DEF MainClose
    <3> QED BY <3>1, <3>2, <1>ToldQueue, Zenon
  <2>6. ASSUME NEW ch, WorkerClose(c, ch) PROVE ToldOK'
    <3>1. made' = made /\ target' = target /\ told' = told /\ mq' = mq
      BY <2>6 DEF WorkerClose
    <3> QED BY <3>1, <1>ToldKept
  <2> QED BY <2>1, <2>2, <2>3, <2>4, <2>5, <2>6, <1>ToldEnd, <1>ToldMain, <1>ToldWorker
<1>2. CASE LinkMainEnd
  <2>1. Head(job).c \in Clients /\ Head(job).c \notin made /\ NewClient(Head(job).c, Head(job).k = "link migrated")
    BY <1>2, LinkMainEndFacts, Zenon DEF LinkMainEnd
  <2> QED BY <2>1, <1>ToldNew, Zenon
<1>3. CASE HandleDisconnectClient
  <2>1. made' = made /\ target' = target /\ told' = told /\ mq # <<>> /\ mq' = Tail(mq)
    BY <1>3, Zenon DEF HandleDisconnectClient
  <2> QED BY <2>1, <1>ToldQueue
<1>4. CASE DestroyChannel \/ DestroyAcked \/ DestroyEnd \/ ReleaseMessage
  <2>1. made' = made /\ target' = target /\ told' = told /\ mq' = mq
    BY <1>4 DEF DestroyChannel, DestroyAcked, DestroyEnd, ReleaseMessage, migVars
  <2> QED BY <2>1, <1>ToldKept
<1>5. CASE WorkerStep
  <2>1. made' = made /\ target' = target /\ told' = told /\ mq' = mq
    BY <1>5 DEF WorkerStep, WorkerConnect, WorkerConnectEnd, WorkerDisconnect, WorkerRemove, migVars
  <2> QED BY <2>1, <1>ToldKept
<1>6. CASE UNCHANGED vars
  <2>1. made' = made /\ target' = target /\ told' = told /\ mq' = mq
    BY <1>6 DEF vars, migVars
  <2> QED BY <2>1, <1>ToldKept
<1> QED BY <1>1, <1>2, <1>3, <1>4, <1>5, <1>6, <1>ToldHandled DEF Next, MainStep

\* Before the first client there is no migration target.
LEMMA TargetInit == Init => CountsOK /\ ToldOK /\ TargetsOK
<1> SUFFICES ASSUME Init PROVE CountsOK /\ ToldOK /\ TargetsOK
  OBVIOUS
<1>1. CountsOK
  <2>1. \A c : Of(waitData, c) = {}
    BY DEF Init, Of
  <2>2. num = [c \in Clients |-> 0] /\ target = {} /\ seamless = {} /\ waitData = {}
    BY DEF Init
  <2>3. \A c \in Clients : Cardinality(Of(waitData, c)) <= num[c]
    BY <2>1, <2>2, FS_EmptySet
  <2> QED BY <2>2, <2>3 DEF CountsOK
<1>2. ToldOK
  BY DEF Init, ToldOK, Completes, CompleteOnce
<1>3. TargetsOK
  BY DEF Init, TargetsOK, Single, Arrives
<1> QED BY <1>1, <1>2, <1>3

\* The bookkeeping of migrations to this server, for any number of arrivals.
THEOREM AlwaysTargets == Spec => [](CountsOK /\ ToldOK /\ TargetsOK)
<1>1. Init => CountsOK /\ ToldOK /\ TargetsOK
  BY TargetInit
<1>2. SessionInductive /\ Agreement /\ CountsOK /\ ToldOK /\ TargetsOK /\ [Next]_vars => (CountsOK /\ ToldOK /\ TargetsOK)'
  BY CountsStep, ToldStep, TargetsStep
<1> QED BY <1>1, <1>2, AlwaysAgreement, PTL DEF Spec

\* While one client arrives by a migration: num_migrated_channels covers the channels that wait
\* for their data, a client is told at most once, and the assertions of reds_handle_other_links
\* hold.  (With a second arrival dst_do_seamless_migrate is stale, and they do not.)
THEOREM TargetsBookkept == ASSUME MaxArrivals <= 1 PROVE Spec => []TargetBookkeeping
<1>1. CountsOK /\ ToldOK /\ TargetsOK => TargetBookkeeping
  <2> SUFFICES ASSUME CountsOK, ToldOK, TargetsOK PROVE TargetBookkeeping
    OBVIOUS
  <2>1. ASSUME NEW c \in Clients PROVE Cardinality({pair \in waitData : pair[1] = c}) <= num[c] /\ told[c] <= 1
    <3>1. Cardinality({pair \in waitData : pair[1] = c}) <= num[c]
      BY DEF CountsOK, Of
    <3>2. told[c] = 0 \/ told[c] = 1
      BY DEF ToldOK
    <3> QED BY <3>1, <3>2
  <2>2. ~failed
    BY DEF TargetsOK, Single
  <2> QED BY <2>1, <2>2 DEF TargetBookkeeping
<1> QED BY <1>1, AlwaysTargets, PTL

-----------------------------------------------------------------------------
(* The threads implement the sessions *)

\* The sessions and their members, as the refinement maps them.
SessionState == [c \in Clients |-> IF c \notin made THEN "none" ELSE IF c \in held THEN "open" ELSE "over"]

AwaitedIn(q, c) == {m.ch : m \in {m \in Range(q) : m.k = "await" /\ m.c = c}}

Members == [c \in Clients |-> channels[c] \cup AwaitedIn(job, c)]

\* A channel is awaited by the innermost call or not at all.
HeadAwaits(q, c) == IF q # <<>> /\ Head(q).k = "await" /\ Head(q).c = c THEN {Head(q).ch} ELSE {}

\* The client whose channels the worker is to end is the one of the innermost call.
LEMMA AwaitedIsHead == ASSUME NEW q, JobShape(q), NEW c PROVE AwaitedIn(q, c) = HeadAwaits(q, c)
<1>1. q \in Seq(Message(JobKinds)) /\ Len(q) \in Nat /\ DOMAIN q = 1 .. Len(q)
  BY Lengths DEF JobShape
<1>2. ASSUME NEW i \in 1 .. Len(q), q[i].k = "await" PROVE i = 1 /\ q # <<>> /\ Head(q) = q[1]
  <2>1. \A j \in 1 .. Len(q) : j + Depth(q[j].k) = Len(q)
    BY DEF JobShape
  <2>2. q # <<>>
    BY <1>1
  <2>3. Head(q) = q[1] /\ Len(q) > 0
    BY <1>1, <2>2, HeadTail
  <2>4. i + 2 = Len(q)
    BY <1>2, <2>1 DEF Depth
  <2>5. 1 + Depth(q[1].k) = Len(q)
    BY <1>1, <2>1, <2>3
  <2>6. Depth(q[1].k) \in 0 .. 2
    BY DEF Depth
  <2>7. i = 1
    BY <1>1, <2>4, <2>5, <2>6
  <2> QED BY <2>2, <2>3, <2>7
<1>3. ASSUME NEW m \in Range(q), m.k = "await", m.c = c PROVE m.ch \in HeadAwaits(q, c)
  <2>1. PICK i \in 1 .. Len(q) : m = q[i]
    BY <1>1 DEF Range
  <2> QED BY <1>2, <1>3, <2>1 DEF HeadAwaits
<1>4. ASSUME NEW x \in HeadAwaits(q, c) PROVE x \in AwaitedIn(q, c)
  <2>1. q # <<>> /\ Head(q).k = "await" /\ Head(q).c = c /\ x = Head(q).ch
    BY <1>4 DEF HeadAwaits
  <2>2. Head(q) = q[1] /\ 1 \in 1 .. Len(q)
    BY <1>1, <2>1, HeadTail
  <2>3. Head(q) \in Range(q)
    BY <1>1, <2>2 DEF Range
  <2> QED BY <2>1, <2>3 DEF AwaitedIn
<1> QED BY <1>3, <1>4 DEF AwaitedIn

\* A step of the threads is a step of the sessions, or none.
Refines == [Session!Next]_<<SessionState, Members>>

\* No call awaits an acknowledgement.
LEMMA NoneAwaited ==
  ASSUME NEW q, JobShape(q), q = <<>> \/ Head(q).k # "await", NEW c
  PROVE  AwaitedIn(q, c) = {}
BY AwaitedIsHead DEF HeadAwaits

\* Every step of either thread is a step of the sessions, or none.
LEMMA StepRefines ==
  SessionInductive /\ SessionInductive' /\ [Next]_vars => Refines
\* What Sessions says, with the mapping in place.
<1>MapsStart.
      ASSUME NEW c \in Clients, NEW chs \in SUBSET Channels, SessionState[c] = "none",
             SessionState' = [SessionState EXCEPT ![c] = "open"], Members' = [Members EXCEPT ![c] = chs]
      PROVE  Session!Next
  BY <1>MapsStart, Zenon DEF Session!Next, Session!Start, SessionState, Members, AwaitedIn
\* A step that adds channels to an open session is a Join.
<1>MapsJoin.
      ASSUME NEW c \in Clients, NEW chs \in SUBSET Channels, SessionState[c] = "open", SessionState' = SessionState,
             Members' = [Members EXCEPT ![c] = Members[c] \cup chs]
      PROVE  Session!Next
  BY <1>MapsJoin, Zenon DEF Session!Next, Session!Join, SessionState, Members, AwaitedIn
\* A step that takes a channel from a session is a Leave.
<1>MapsLeave.
      ASSUME NEW c \in Clients, NEW ch \in Channels, ch \in Members[c], SessionState' = SessionState,
             Members' = [Members EXCEPT ![c] = Members[c] \ {ch}]
      PROVE  Session!Next
  BY <1>MapsLeave, Zenon DEF Session!Next, Session!Leave, SessionState, Members, AwaitedIn
\* A step that ends a session without channels is an End.
<1>MapsEnd.
      ASSUME NEW c \in Clients, SessionState[c] = "open", Members[c] = {},
             SessionState' = [SessionState EXCEPT ![c] = "over"], Members' = Members
      PROVE  Session!Next
  BY <1>MapsEnd, Zenon DEF Session!Next, Session!End, SessionState, Members, AwaitedIn
\* Neither the sessions nor their members change.
<1>RefinesNone.
      ASSUME made' = made, held' = held, channels' = channels, \A c \in Clients : AwaitedIn(job', c) = AwaitedIn(job, c)
      PROVE  Refines
  <2> USE <1>RefinesNone
  <2>1. SessionState' = SessionState
    BY DEF SessionState
  <2>2. Members' = Members
    BY DEF Members, AwaitedIn
  <2> QED BY <2>1, <2>2 DEF Refines
\* Channels join a client that is not being disconnected: its session is open.
<1>RefinesJoin.
      ASSUME SessionInductive, NEW c \in made, NEW chs \in SUBSET Channels, chs # {} => c \notin ending, NEW wait,
             Joins(c, chs, wait), made' = made, held' = held, job' = job
      PROVE  Refines
  <2> USE <1>RefinesJoin
  <2>1. c \in Clients /\ channels \in [Clients -> SUBSET Channels]
    BY DEF SessionInductive, SetsOK, ListsOK
  <2>2. channels' = [channels EXCEPT ![c] = channels[c] \cup chs]
    BY DEF Joins
  <2>3. CASE chs = {}
    <3>1. channels' = channels
      BY <2>1, <2>2, <2>3
    <3> QED BY <3>1, <1>RefinesNone
  <2>4. CASE chs # {}
    <3>1. SessionState[c] = "open" /\ SessionState' = SessionState
      BY <2>1, <2>4 DEF SessionInductive, SetsOK, SessionState
    <3>2. Members' = [d \in Clients |-> channels'[d] \cup AwaitedIn(job, d)]
      BY DEF Members, AwaitedIn
    <3>3. Members' = [Members EXCEPT ![c] = Members[c] \cup chs]
      BY <2>1, <2>2, <3>2, Zenon DEF Members
    <3> QED BY <2>1, <3>1, <3>3, <1>MapsJoin, Zenon DEF Refines
  <2> QED BY <2>3, <2>4
\* RedClient::remove_channel: the channel leaves, unless it is not there or still awaited.
<1>RefinesLeave.
      ASSUME SessionInductive, NEW c \in Clients, NEW ch \in Channels, RemoveChannel(c, ch), made' = made, held' = held,
             job' = job
      PROVE  Refines
  <2> USE <1>RefinesLeave
  <2>1. channels \in [Clients -> SUBSET Channels] /\ channels' = [channels EXCEPT ![c] = channels[c] \ {ch}]
    BY DEF SessionInductive, ListsOK, RemoveChannel
  <2>2. SessionState' = SessionState
    BY DEF SessionState
  <2>3. Members' = [d \in Clients |-> channels'[d] \cup AwaitedIn(job, d)]
    BY DEF Members, AwaitedIn
  <2>4. CASE ch \in channels[c] /\ ch \notin AwaitedIn(job, c)
    <3>1. ch \in Members[c]
      BY <2>4 DEF Members
    <3>2. Members' = [Members EXCEPT ![c] = Members[c] \ {ch}]
      <4>1. ASSUME NEW d \in Clients PROVE Members'[d] = IF d = c THEN Members[c] \ {ch} ELSE Members[d]
        <5>1. Members'[d] = channels'[d] \cup AwaitedIn(job, d) /\ Members[d] = channels[d] \cup AwaitedIn(job, d)
          BY <2>3 DEF Members
        <5>2. CASE d = c
          BY <2>1, <2>4, <5>1, <5>2
        <5>3. CASE d # c
          BY <2>1, <5>1, <5>3
        <5> QED BY <5>2, <5>3
      <4>2. Members = [d \in Clients |-> Members[d]] /\ Members' = [d \in Clients |-> Members'[d]]
        BY <2>3 DEF Members
      <4> QED BY <4>1, <4>2
    <3> QED BY <2>2, <3>1, <3>2, <1>MapsLeave, Zenon DEF Refines
  <2>5. CASE ch \notin channels[c] \/ ch \in AwaitedIn(job, c)
    <3>1. Members' = Members
      BY <2>1, <2>3, <2>5 DEF Members
    <3> QED BY <2>2, <3>1 DEF Refines
  <2> QED BY <2>4, <2>5
\* A client is made: its session starts with the main channel.
<1>RefinesStart.
      ASSUME SessionInductive, NEW c \in Clients, c \notin made, NEW migrated \in BOOLEAN, NewClient(c, migrated),
             job' = <<>>, job = <<>> \/ Head(job).k # "await"
      PROVE  Refines
  <2> USE <1>RefinesStart
  <2>1. made' = made \cup {c} /\ held' = held \cup {c} /\ channels' = [channels EXCEPT ![c] = channels[c] \cup {Main}]
    BY DEF NewClient, Joins
  <2>2. channels \in [Clients -> SUBSET Channels] /\ channels[c] = {} /\ held \subseteq made
    BY DEF SessionInductive, SetsOK, ListsOK
  <2>3. SessionState[c] = "none"
    BY DEF SessionState
  <2>4. SessionState' = [SessionState EXCEPT ![c] = "open"]
    BY <2>1, <2>2, Zenon DEF SessionState
  <2>5. \A d : AwaitedIn(job, d) = {}
    BY NoneAwaited DEF SessionInductive, JobOK
  <2>6. \A d : AwaitedIn(job', d) = {}
    <3>1. JobShape(job')
      BY EmptySequence DEF JobShape
    <3> QED BY <3>1, NoneAwaited
  <2>7. Members = channels
    BY <2>2, <2>5 DEF Members
  <2>8. Members' = [d \in Clients |-> channels'[d] \cup AwaitedIn(job', d)]
    BY DEF Members, AwaitedIn
  <2>9. Members' = [Members EXCEPT ![c] = {Main}]
    BY <2>1, <2>2, <2>6, <2>7, <2>8, Zenon
  <2> QED BY <2>3, <2>4, <2>9, <1>MapsStart, Zenon DEF Refines, Channels
\* reds_handle_main_link.
<1>LinkMainRefines.
      ASSUME SessionInductive, SessionInductive', NEW c \in Clients, NEW migrated \in BOOLEAN, LinkMain(c, migrated)
      PROVE  Refines
  <2> USE <1>LinkMainRefines
  <2>1. job = <<>> /\ c \notin made
    BY Zenon DEF LinkMain, MainIdle
  <2>2. CASE NewClient(c, migrated) /\ job' = job
    BY <2>1, <2>2, <1>RefinesStart
  <2>3. ASSUME NEW d \in listed, UNCHANGED <<made, held, channels>>,
               job' = <<Msg("destroy", d, Main), Msg(IF migrated THEN "link migrated" ELSE "link", c, Main)>>
        PROVE  Refines
    <3>1. Head(job').k # "await"
      <4>1. Head(job') = Msg("destroy", d, Main)
        BY <2>3, HeadOfPair, Zenon
      <4>2. Msg("destroy", d, Main).k = "destroy"
        BY DEF Msg
      <4> QED BY <4>1, <4>2
    <3>2. JobShape(job) /\ JobShape(job')
      BY DEF SessionInductive, JobOK, JobShape, Message
    <3>3. \A e : AwaitedIn(job, e) = {} /\ AwaitedIn(job', e) = {}
      BY <2>1, <3>1, <3>2, NoneAwaited
    <3> QED BY <2>3, <3>3, <1>RefinesNone, Zenon
  <2> QED BY <2>2, <2>3, Zenon DEF LinkMain
\* A session begins, after the others have ended.
<1>LinkMainEndRefines. ASSUME SessionInductive, LinkMainEnd PROVE Refines
  <2> USE <1>LinkMainEndRefines
  <2> DEFINE c == Head(job).c
  <2>1. c \in Clients /\ c \notin made /\ job' = <<>>
    BY LinkMainEndFacts
  <2>2. NewClient(c, Head(job).k = "link migrated") /\ (Head(job).k = "link migrated") \in BOOLEAN
        /\ Head(job).k # "await"
    BY Zenon DEF LinkMainEnd
  <2> HIDE DEF c
  <2> QED BY <2>1, <2>2, <1>RefinesStart, Zenon
\* Links of other channels, made at once or at the end of a migration.
<1>LinksRefine.
      ASSUME SessionInductive, NEW c \in made, NEW chs, NEW wait, Joins(c, Accepted(c, chs), wait), made' = made,
             held' = held, job' = job
      PROVE  Refines
  <2> USE <1>LinksRefine
  <2>1. Accepted(c, chs) \in SUBSET Channels /\ (Accepted(c, chs) # {} => c \notin ending)
    BY DEF Accepted, Channels, Refuses
  <2> QED BY <2>1, <1>RefinesJoin
\* A channel joins a session, or a message that will make it join is sent.
<1>LinkOtherRefines.
      ASSUME SessionInductive, NEW c \in Clients, NEW ch \in Others \cup OfWorker, LinkOther(c, ch)
      PROVE  Refines
  <2> USE <1>LinkOtherRefines
  <2>1. made' = made /\ held' = held /\ job' = job
    BY DEF LinkOther
  <2>2. c \in made
    BY UpMade DEF LinkOther, Up
  <2>3. CASE Joins(c, Accepted(c, {ch}), Waiting(c, Accepted(c, {ch})))
    BY <2>1, <2>2, <2>3, <1>LinksRefine
  <2>4. CASE channels' = channels
    BY <2>1, <2>4, <1>RefinesNone
  <2> QED BY <2>3, <2>4, Zenon DEF LinkOther
\* The pending links of a migrating client join its session.
<1>TargetRefines.
      ASSUME SessionInductive, NEW c \in Clients, DstDoSeamless(c) \/ DstRefuseSeamless(c) \/ MigrateEnd(c)
      PROVE  Refines
  <2> USE <1>TargetRefines
  <2>1. made' = made /\ held' = held /\ job' = job
    BY Zenon DEF DstDoSeamless, DstRefuseSeamless, MigrateEnd
  <2>2. c \in made
    BY UpMade, Zenon DEF DstDoSeamless, DstRefuseSeamless, MigrateEnd, Up
  <2>3. ASSUME NEW wait, LinkPending(c, wait) PROVE Refines
    <3>1. PICK w : Joins(c, Accepted(c, pending[c].near), w)
      BY <2>3 DEF LinkPending
    <3> QED BY <2>1, <2>2, <3>1, <1>LinksRefine
  <2>4. CASE DstRefuseSeamless(c)
    BY <2>1, <2>4, <1>RefinesNone DEF DstRefuseSeamless
  <2> QED BY <2>3, <2>4, Zenon DEF DstDoSeamless, MigrateEnd
\* main_dispatcher_handle_client_disconnect: RedClient::destroy is only about to begin.
<1>HandleDisconnectRefines.
      ASSUME SessionInductive, SessionInductive', HandleDisconnectClient
      PROVE  Refines
  <2> USE <1>HandleDisconnectRefines
  <2> DEFINE c == Head(mq).c
  <2>1. made' = made /\ held' = held /\ channels' = channels /\ job = <<>>
    BY Zenon DEF HandleDisconnectClient, MainIdle
  <2>2. CASE c \in ending
    <3>1. job' = job
      BY <2>2, Zenon DEF HandleDisconnectClient
    <3> QED BY <2>1, <3>1, <1>RefinesNone
  <2>3. CASE c \notin ending
    <3>1. job' = <<Msg("destroy", c, Main), Msg("release", c, Main)>>
      BY <2>3, Zenon DEF HandleDisconnectClient
    <3>2. Head(job') = Msg("destroy", c, Main)
      BY <3>1, HeadOfPair
    <3>3. Msg("destroy", c, Main).k = "destroy"
      BY DEF Msg
    <3>4. JobShape(job) /\ JobShape(job')
      BY DEF SessionInductive, JobOK, JobShape, Message
    <3>5. \A e : AwaitedIn(job, e) = {} /\ AwaitedIn(job', e) = {}
      BY <2>1, <3>2, <3>3, <3>4, NoneAwaited
    <3> QED BY <2>1, <3>5, <1>RefinesNone
  <2> QED BY <2>2, <2>3
\* A round of RedClient::destroy: a channel of this thread leaves, one of the worker stays a
\* member until the worker has let it go.
<1>DestroyChannelRefines.
      ASSUME SessionInductive, SessionInductive', DestroyChannel
      PROVE  Refines
  <2> USE <1>DestroyChannelRefines
  <2> DEFINE c == Head(job).c
  <2>1. job # <<>> /\ Head(job).k = "destroy" /\ made' = made /\ held' = held
    BY DEF DestroyChannel
  <2>2. c \in Clients
    BY <2>1, JobHead DEF SessionInductive, Message
  <2>3. PICK ch \in channels[c] :
          RemoveChannel(c, ch) /\ (job' = job \/ job' = Awaits(c, ch))
    BY DEF DestroyChannel
  <2>4. channels \in [Clients -> SUBSET Channels] /\ ch \in Channels
    BY <2>2, <2>3 DEF SessionInductive, ListsOK
  <2>5. CASE job' = job
    BY <2>1, <2>2, <2>3, <2>4, <2>5, <1>RefinesLeave
  <2>6. CASE job' = Awaits(c, ch)
    <3> DEFINE a == Msg("await", c, ch)
    <3>1. a.k = "await" /\ a.c = c /\ a.ch = ch /\ a \in Message(JobKinds)
      BY <2>2, <2>4 DEF Msg, Message, JobKinds
    <3>2. JobShape(job) /\ JobShape(job') /\ job \in Seq(Message(JobKinds))
      BY DEF SessionInductive, JobOK, JobShape, Message
    <3>3. job' = <<a>> \o job
      BY <2>6 DEF Awaits
    <3> HIDE DEF a
    <3>4. job' # <<>> /\ Head(job') = a
      <4>1. <<a>> \in Seq(Message(JobKinds)) /\ Len(<<a>>) = 1 /\ <<a>>[1] = a
        BY <3>1
      <4>2. Len(<<a>> \o job) = 1 + Len(job) /\ (<<a>> \o job)[1] = a /\ <<a>> \o job \in Seq(Message(JobKinds))
        BY <3>2, <4>1, Concatenated, Lengths
      <4>3. <<a>> \o job # <<>>
        BY <3>2, <4>2, Lengths, EmptySequence
      <4> QED BY <3>3, <4>2, <4>3, HeadTail
    <3> HIDE DEF c
    <3>5. \A d : AwaitedIn(job, d) = {}
      BY <2>1, <3>2, NoneAwaited
    <3>6. \A d : AwaitedIn(job', d) = IF d = c THEN {ch} ELSE {}
      BY <3>1, <3>2, <3>4, AwaitedIsHead DEF HeadAwaits
    <3>7. channels' = [channels EXCEPT ![c] = channels[c] \ {ch}]
      BY <2>3 DEF RemoveChannel
    <3>8. \A d \in Clients : channels'[d] \cup AwaitedIn(job', d) = channels[d] \cup AwaitedIn(job, d)
      BY <2>2, <2>3, <2>4, <3>5, <3>6, <3>7
    <3>9. Members' = Members
      BY <3>8 DEF Members, AwaitedIn
    <3>10. SessionState' = SessionState
      BY <2>1 DEF SessionState
    <3> QED BY <3>9, <3>10 DEF Refines
  <2> QED BY <2>3, <2>5, <2>6
\* The worker has let a channel go: it leaves, if no other link made it a member again.
<1>DestroyAckedRefines.
      ASSUME SessionInductive, SessionInductive', DestroyAcked
      PROVE  Refines
  <2> USE <1>DestroyAckedRefines
  <2> DEFINE c == Head(job).c
             ch == Head(job).ch
  <2>1. /\ job # <<>> /\ Head(job).k = "await" /\ job' = Tail(job) /\ made' = made /\ held' = held
        /\ channels' = channels
    BY DEF DestroyAcked
  <2>2. Head(job) \in Message(JobKinds) /\ Len(job) = 3 /\ JobShape(job) /\ JobShape(job') /\ job \in Seq(Message(JobKinds))
    BY <2>1, JobHead DEF SessionInductive, JobOK, JobShape, Message
  <2>3. c \in Clients /\ ch \in Channels
    BY <2>2 DEF Message
  <2>4. job' = <<>> \/ Head(job').k # "await"
    <3>1. CASE job' # <<>> /\ Head(job').k = "await"
      <4>1. Len(job') = 3
        BY <2>2, <3>1, ShapeHead
      <4>2. Len(job') = Len(job) - 1
        BY <2>1, <2>2, HeadTail
      <4>3. Len(job) - 1 = 2
        BY <2>2
      <4> QED BY <4>1, <4>2, <4>3
    <3> QED BY <3>1
  <2> HIDE DEF c, ch
  <2>5. \A d : AwaitedIn(job', d) = {}
    BY <2>2, <2>4, NoneAwaited
  <2>6. \A d : AwaitedIn(job, d) = IF d = c THEN {ch} ELSE {}
    BY <2>1, <2>2, AwaitedIsHead DEF HeadAwaits, c, ch
  <2>7. SessionState' = SessionState /\ channels \in [Clients -> SUBSET Channels]
    BY <2>1 DEF SessionState, SessionInductive, ListsOK
  <2>8. Members' = [d \in Clients |-> channels[d]]
    BY <2>1, <2>5, Zenon DEF Members, AwaitedIn
  <2>9. Members = [d \in Clients |-> IF d = c THEN channels[d] \cup {ch} ELSE channels[d]]
    BY <2>6 DEF Members
  <2>10. CASE ch \in channels[c]
    <3>1. Members' = Members
      BY <2>8, <2>9, <2>10
    <3> QED BY <2>7, <3>1 DEF Refines
  <2>11. CASE ch \notin channels[c]
    <3>1. ch \in Members[c] /\ Members' = [Members EXCEPT ![c] = Members[c] \ {ch}]
      BY <2>3, <2>8, <2>9, <2>11
    <3> QED BY <2>3, <2>7, <3>1, <1>MapsLeave, Zenon DEF Refines
  <2> QED BY <2>10, <2>11
\* The end of RedClient::destroy: the session is over, and no channel is left in it.
<1>DestroyEndRefines.
      ASSUME SessionInductive, SessionInductive', DestroyEnd
      PROVE  Refines
  <2> USE <1>DestroyEndRefines
  <2> DEFINE c == Head(job).c
  <2>1. /\ job # <<>> /\ Head(job).k = "destroy" /\ job' = Tail(job) /\ made' = made /\ held' = held \ {c}
        /\ channels' = channels /\ channels[c] = {}
    BY DEF DestroyEnd
  <2>2. Head(job) = job[1] /\ Head(job) \in Message(JobKinds) /\ 1 \in 1 .. Len(job) /\ Len(job) = 2
    BY <2>1, JobHead DEF SessionInductive
  <2>3. c \in Clients /\ c \in held /\ held \subseteq made
    BY <2>1, <2>2, Zenon DEF SessionInductive, SetsOK, JobOK, JobNames, Message
  <2>4. JobShape(job) /\ JobShape(job') /\ job \in Seq(Message(JobKinds))
    BY DEF SessionInductive, JobOK, JobShape, Message
  <2>5. job' = <<>> \/ Head(job').k # "await"
    <3>1. CASE job' # <<>> /\ Head(job').k = "await"
      <4>1. Len(job') = 3
        BY <2>4, <3>1, ShapeHead
      <4>2. Len(job') = Len(job) - 1
        BY <2>1, <2>4, HeadTail
      <4>3. Len(job) - 1 = 1
        BY <2>2
      <4> QED BY <4>1, <4>2, <4>3
    <3> QED BY <3>1
  <2>6. \A d : AwaitedIn(job, d) = {} /\ AwaitedIn(job', d) = {}
    BY <2>1, <2>4, <2>5, NoneAwaited, Zenon
  <2> HIDE DEF c
  <2>7. Members' = Members
    BY <2>1, <2>6, Zenon DEF Members, AwaitedIn
  <2>8. SessionState[c] = "open" /\ Members[c] = {}
    BY <2>1, <2>3, <2>6 DEF SessionState, Members
  <2>9. SessionState' = [SessionState EXCEPT ![c] = "over"]
    BY <2>1, <2>3, Zenon DEF SessionState
  <2> QED BY <2>3, <2>7, <2>8, <2>9, <1>MapsEnd, Zenon DEF Refines
\* The handler around a destroy returns.
<1>ReleaseRefines. ASSUME SessionInductive, SessionInductive', ReleaseMessage PROVE Refines
  <2> USE <1>ReleaseRefines
  <2>1. /\ job # <<>> /\ Head(job).k = "release" /\ job' = Tail(job) /\ made' = made /\ held' = held
        /\ channels' = channels
    BY DEF ReleaseMessage
  <2>2. JobShape(job) /\ JobShape(job') /\ job \in Seq(Message(JobKinds)) /\ Len(job) = 1
    BY <2>1, JobHead DEF SessionInductive, JobOK, JobShape, Message
  <2>3. job' = <<>>
    <3>1. Len(job') = Len(job) - 1 /\ job' \in Seq(Message(JobKinds))
      BY <2>1, <2>2, HeadTail
    <3>2. Len(job) - 1 = 0
      BY <2>2
    <3> QED BY <3>1, <3>2, EmptySequence, Zenon
  <2>4. \A d : AwaitedIn(job, d) = {} /\ AwaitedIn(job', d) = {}
    BY <2>1, <2>2, <2>3, NoneAwaited, Zenon
  <2> QED BY <2>1, <2>4, <1>RefinesNone, Zenon
\* RedClient::add_channel on the worker refuses a client that is being disconnected.
<1>WorkerConnectEndRefines. ASSUME SessionInductive, WorkerConnectEnd PROVE Refines
  <2> USE <1>WorkerConnectEndRefines
  <2> DEFINE new == {ch \in {worker.ch} : ~Refuses(worker.c, ch)}
  <2>1. worker.c \in made /\ worker.ch \in Channels
    BY WorkerNames DEF WorkerConnectEnd
  <2>2. new \in SUBSET Channels /\ (new # {} => worker.c \notin ending)
    BY <2>1 DEF Refuses
  <2>3. Joins(worker.c, new, Waiting(worker.c, new)) /\ made' = made /\ held' = held /\ job' = job
    BY DEF WorkerConnectEnd
  <2> HIDE DEF new
  <2> QED BY <2>1, <2>2, <2>3, <1>RefinesJoin
<1> SUFFICES ASSUME SessionInductive, SessionInductive', [Next]_vars PROVE Refines
  OBVIOUS
<1>1. CASE FromClient
  <2>1. PICK c \in Clients :
          \/ \E migrated \in BOOLEAN : LinkMain(c, migrated)
          \/ \E ch \in Others \cup OfWorker : LinkOther(c, ch)
          \/ DstDoSeamless(c) \/ DstRefuseSeamless(c) \/ MigrateEnd(c)
          \/ \E ch \in Channels : MainMigrateData(c, ch) \/ WorkerMigrateData(c, ch) \/ MainClose(c, ch) \/ WorkerClose(c, ch)
    BY <1>1 DEF FromClient
  <2>2. ASSUME NEW ch \in Channels, MainMigrateData(c, ch) \/ WorkerMigrateData(c, ch) PROVE Refines
    <3>1. made' = made /\ held' = held /\ channels' = channels /\ job' = job
      BY <2>2 DEF MainMigrateData, WorkerMigrateData, MigrateData
    <3> QED BY <3>1, <1>RefinesNone
  <2>3. ASSUME NEW ch \in Channels, MainClose(c, ch) PROVE Refines
    <3>1. RemoveChannel(c, ch) /\ made' = made /\ held' = held /\ job' = job
      BY <2>3, Zenon DEF MainClose
    <3> QED BY <3>1, <1>RefinesLeave
  <2>4. ASSUME NEW ch \in Channels, WorkerClose(c, ch) PROVE Refines
    <3>1. made' = made /\ held' = held /\ channels' = channels /\ job' = job
      BY <2>4 DEF WorkerClose
    <3> QED BY <3>1, <1>RefinesNone
  <2> QED BY <2>1, <2>2, <2>3, <2>4, <1>LinkMainRefines, <1>LinkOtherRefines, <1>TargetRefines
<1>2. CASE HandleComplete
  <2>1. made' = made /\ held' = held /\ channels' = channels /\ job' = job
    BY <1>2, Zenon DEF HandleComplete
  <2> QED BY <2>1, <1>RefinesNone
<1>3. CASE MainStep
  BY <1>2, <1>3, <1>HandleDisconnectRefines, <1>DestroyChannelRefines, <1>DestroyAckedRefines, <1>DestroyEndRefines, <1>ReleaseRefines,
     <1>LinkMainEndRefines DEF MainStep
<1>4. CASE WorkerConnect \/ WorkerDisconnect
  <2>1. made' = made /\ held' = held /\ channels' = channels /\ job' = job
    BY <1>4 DEF WorkerConnect, WorkerDisconnect
  <2> QED BY <2>1, <1>RefinesNone
<1>5. CASE WorkerRemove
  <2>1. RemoveChannel(worker.c, worker.ch) /\ made' = made /\ held' = held /\ job' = job
    BY <1>5 DEF WorkerRemove
  <2>2. worker.c \in Clients /\ worker.ch \in Channels
    BY <1>5, WorkerNames DEF WorkerRemove
  <2> QED BY <2>1, <2>2, <1>RefinesLeave
<1>6. CASE WorkerStep
  BY <1>4, <1>5, <1>6, <1>WorkerConnectEndRefines DEF WorkerStep
<1>7. CASE UNCHANGED vars
  <2>1. made' = made /\ held' = held /\ channels' = channels /\ job' = job
    BY <1>7 DEF vars
  <2> QED BY <2>1, <1>RefinesNone
<1> QED BY <1>1, <1>3, <1>6, <1>7 DEF Next

\* The threads of ClientLifecycle implement Sessions: a session starts once, channels join only
\* while it is open and it is over, for good, only when all of them have left, however the
\* worker's connects and disconnects interleave with RedClient::destroy.
THEOREM ThreadsImplementSessions == Spec => ImplementsSessions
<1>1. Init => Session!Init
  <2> SUFFICES ASSUME Init PROVE Session!Init
    OBVIOUS
  <2>1. made = {} /\ channels = [c \in Clients |-> {}] /\ job = <<>>
    BY DEF Init
  <2>2. \A c : AwaitedIn(job, c) = {}
    <3>1. JobShape(job)
      BY <2>1, EmptySequence DEF JobShape
    <3> QED BY <2>1, <3>1, NoneAwaited
  <2>3. SessionState = [c \in Clients |-> "none"] /\ Members = [c \in Clients |-> {}]
    BY <2>1, <2>2 DEF SessionState, Members
  <2> QED BY <2>3 DEF Session!Init, SessionState, Members, AwaitedIn
<1>2. SessionInductive /\ SessionInductive' /\ [Next]_vars => Refines
  BY StepRefines
<1>3. Refines = [Session!Next]_<<SessionState, Members>>
  BY DEF Refines
<1> QED BY <1>1, <1>2, AlwaysSessionInductive, PTL
        DEF Spec, ImplementsSessions, Session!Spec, Refines, SessionState, Members, AwaitedIn
=============================================================================
