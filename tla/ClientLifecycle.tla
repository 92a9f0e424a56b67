--------------------------- MODULE ClientLifecycle ---------------------------
(***************************************************************************)
(* Clients and their channels over two threads: RedClient (red-client.cpp),*)
(* the connection and disconnection of channels (red-channel.cpp,          *)
(* red-channel-client.cpp), the messages between the main thread and a     *)
(* worker (dispatcher.cpp, main-dispatcher.cpp), and the part of reds.cpp  *)
(* that links clients and removes them, with the target side of a          *)
(* migration.                                                              *)
(*                                                                         *)
(* A step is what a thread does under the client's lock or on state of its *)
(* own.  `job' is what the main thread is in the middle of (first: the     *)
(* innermost call), `worker' what the worker is.  A channel client is a    *)
(* pair of a client and a channel.                                         *)
(***************************************************************************)
EXTENDS Naturals, Sequences, FiniteSets, Functions

CONSTANTS
  Clients,
  Main, Others,  \* the main channel; the other channels of the main thread
  OfWorker,      \* channels of the worker: display, cursor
  NeedData,      \* channels with SPICE_MIGRATE_NEED_DATA_TRANSFER
  MaxLinks,      \* bound: links of channels other than the main one
  MaxArrivals    \* bound: clients that arrive by a migration

Channels == {Main} \cup Others \cup OfWorker

ASSUME LifecycleAssumption ==
  /\ Main \notin Others \cup OfWorker /\ Others \cap OfWorker = {} /\ NeedData \subseteq Channels
  /\ IsFiniteSet(Others) /\ IsFiniteSet(OfWorker) /\ MaxLinks \in Nat /\ MaxArrivals \in Nat

VARIABLES
  multi,            \* allow_multiple_clients
  made, held,       \* RedClients created; those whose first reference is still held
  listed,           \* reds->clients
  ending,           \* disconnecting
  channels,         \* RedClient::channels of each client
  conn,             \* RedChannel::clients, of all channels
  target, seamless, \* during_target_migrate, seamless_migrate
  num, waitData,    \* num_migrated_channels; channel clients with wait_migrate_data
  migTargets, pending, dstSeamless,  \* mig_target_clients, pending_links, dst_do_seamless_migrate
  told,             \* times the main channel was told that the migration is complete
  wq, mq,           \* messages to the worker, to the main thread
  job, acked,       \* calls in progress on the main thread; the worker acknowledged
  worker,           \* the worker is adding or removing a channel client
  failed,           \* an assertion failed
  links, arrivals

migVars == <<target, seamless, num, waitData, migTargets, pending, dstSeamless, told>>
vars == <<multi, made, held, listed, ending, channels, conn, migVars, wq, mq, job, acked, worker, failed, links, arrivals>>

Msg(k, c, ch) == [k |-> k, c |-> c, ch |-> ch]
Idle == [k |-> "idle"]

\* Links of channels: those of this thread are made in one step, those of the worker in order.
NoLinks == [near |-> {}, far |-> <<>>]
LinkOf(ch) == IF ch \in OfWorker THEN [near |-> {}, far |-> <<ch>>] ELSE [near |-> {ch}, far |-> <<>>]

Init ==
  /\ multi \in BOOLEAN
  /\ made = {} /\ held = {} /\ listed = {} /\ ending = {}
  /\ channels = [c \in Clients |-> {}] /\ conn = {}
  /\ target = {} /\ seamless = {} /\ num = [c \in Clients |-> 0] /\ waitData = {}
  /\ migTargets = {} /\ pending = [c \in Clients |-> NoLinks] /\ dstSeamless = FALSE /\ told = [c \in Clients |-> 0]
  /\ wq = <<>> /\ mq = <<>> /\ job = <<>> /\ acked = FALSE /\ worker = Idle
  /\ failed = FALSE /\ links = 0 /\ arrivals = 0

MainIdle == job = <<>> /\ ~failed
Up(c)    == <<c, Main>> \in conn

\* References on a RedClient: its creator's, given up at the end of RedClient::destroy, and one
\* per message that names it, until its handler returns.
NoReference(k) == k \in {"disconnect client", "complete", "release"}

HoldsReference(k) == k \in {"connect", "disconnect client", "complete", "release"}

Referenced(c) ==
  \/ c \in held
  \/ \E m \in Range(wq) \cup Range(mq) \cup Range(job) \cup {worker} : HoldsReference(m.k) /\ m.c = c

Freed(c) == c \in made /\ ~Referenced(c)

-----------------------------------------------------------------------------
(* Channel clients join and leave *)

\* RedClient::add_channel refuses a client that is being disconnected and a second channel
\* client of the same channel.
RefusesSecond(c, ch) == ch \in channels[c]

Refuses(c, ch) == c \in ending \/ ch \in channels[c]

\* The channels of chs, of the main thread, that add_channel accepts.
Accepted(c, chs) == {ch \in chs \cap Others : ~Refuses(c, ch)}

\* RedChannelClient::init and RedClient::add_channel; set_migration_seamless for those of wait.
Joins(c, chs, wait) ==
  /\ channels' = [channels EXCEPT ![c] = @ \cup chs]
  /\ conn' = conn \cup {<<c, ch>> : ch \in chs}
  /\ num' = [num EXCEPT ![c] = @ + Cardinality(wait \cap NeedData)]
  /\ waitData' = waitData \cup {<<c, ch>> : ch \in wait \cap NeedData}

Waiting(c, chs) == IF c \in target \cap seamless THEN chs ELSE {}

\* RedChannel::connect for a channel of another thread: a message, with no answer awaited.
SendConnects(c, far) == wq' = wq \o [i \in DOMAIN far |-> Msg("connect", c, far[i])]

\* RedChannelClient::disconnect up to on_disconnect, for a channel client that is connected.
Unlists(c, ch) == conn' = conn \ {<<c, ch>>} /\ waitData' = waitData \ {<<c, ch>>}

\* RedClient::remove_channel.
RemoveChannel(c, ch) == channels' = [channels EXCEPT ![c] = @ \ {ch}]

-----------------------------------------------------------------------------
(* Clients come: reds_handle_link *)

\* reds_handle_main_link once the clients there were are gone.
NewClient(c, migrated) ==
  /\ made' = made \cup {c} /\ held' = held \cup {c} /\ listed' = listed \cup {c}
  /\ Joins(c, {Main}, {})
  /\ target' = IF migrated THEN target \cup {c} ELSE target
  /\ migTargets' = IF migrated THEN migTargets \cup {c} ELSE migTargets
  /\ arrivals' = IF migrated THEN arrivals + 1 ELSE arrivals
  /\ UNCHANGED <<multi, ending, seamless, pending, dstSeamless, told, wq, mq, acked, worker, failed, links>>

\* reds_client_disconnect up to RedClient::destroy: reds_mig_target_client_free, which also
\* drops the pending links, and the client leaves reds->clients.
BeginDisconnect(c) ==
  /\ ending' = ending \cup {c} /\ listed' = listed \ {c}
  /\ migTargets' = migTargets \ {c} /\ pending' = [pending EXCEPT ![c] = NoLinks]

\* reds_handle_main_link; reds_disconnect comes first when there may be only one client.
LinkMain(c, migrated) ==
  /\ MainIdle /\ c \notin made /\ (migrated => arrivals < MaxArrivals)
  /\ \/ /\ multi \/ listed = {}
        /\ NewClient(c, migrated) /\ UNCHANGED job
     \/ /\ ~multi
        /\ \E d \in listed :
             /\ BeginDisconnect(d)
             /\ job' = <<Msg("destroy", d, Main), Msg(IF migrated THEN "link migrated" ELSE "link", c, Main)>>
        /\ UNCHANGED <<multi, made, held, channels, conn, target, seamless, num, waitData, dstSeamless, told, wq, mq,
                       acked, worker, failed, links, arrivals>>

LinkMainEnd ==
  /\ job # <<>> /\ Head(job).k \in {"link", "link migrated"} /\ job' = Tail(job)
  /\ NewClient(Head(job).c, Head(job).k = "link migrated")

\* reds_handle_other_links: the link waits in pending_links, or reds_channel_do_link.
PendsAlways(c) == c \in target

LinkPends(c) == c \in target /\ ~dstSeamless

LinkOther(c, ch) ==
  /\ MainIdle /\ Up(c) /\ links < MaxLinks /\ links' = links + 1
  /\ \/ /\ LinkPends(c) /\ failed' = (c \notin migTargets)
        /\ pending' = [pending EXCEPT ![c] = [near |-> @.near \cup LinkOf(ch).near, far |-> @.far \o LinkOf(ch).far]]
        /\ UNCHANGED <<channels, conn, num, waitData, wq>>
     \/ /\ ~LinkPends(c) /\ failed' = (c \in migTargets)
        /\ SendConnects(c, LinkOf(ch).far) /\ Joins(c, Accepted(c, {ch}), Waiting(c, Accepted(c, {ch})))
        /\ UNCHANGED pending
  /\ UNCHANGED <<multi, made, held, listed, ending, target, seamless, migTargets, dstSeamless, told, mq, job, acked,
                 worker, arrivals>>

-----------------------------------------------------------------------------
(* A migration to this server *)

\* reds_link_mig_target_channels: activates the pending links, those in wait wait for data.
LinkPending(c, wait) ==
  LET new == Accepted(c, pending[c].near)
  IN  /\ SendConnects(c, pending[c].far) /\ Joins(c, new, IF wait THEN channels[c] \cup new ELSE {})
      /\ migTargets' = migTargets \ {c} /\ pending' = [pending EXCEPT ![c] = NoLinks]

\* MainChannelClient::handle_migrate_dst_do_seamless, accepted: RedClient::set_migration_seamless,
\* then the pending links.
DstDoSeamless(c) ==
  /\ MainIdle /\ Up(c) /\ c \in target \ seamless /\ ~multi
  /\ seamless' = seamless \cup {c} /\ dstSeamless' = (c \in migTargets)
  /\ LinkPending(c, TRUE)
  /\ UNCHANGED <<multi, made, held, listed, ending, target, told, mq, job, acked, worker, failed, links, arrivals>>

\* The same refused: with several clients, or a version that is not supported.
DstRefuseSeamless(c) ==
  /\ MainIdle /\ Up(c) /\ c \in target \ seamless /\ dstSeamless' = FALSE
  /\ UNCHANGED <<multi, made, held, listed, ending, channels, conn, target, seamless, num, waitData, migTargets,
                 pending, told, wq, mq, job, acked, worker, failed, links, arrivals>>

\* MainChannelClient::handle_migrate_end and RedClient::semi_seamless_migrate_complete.
MigrateEnd(c) ==
  /\ MainIdle /\ Up(c) /\ c \in target \ seamless
  /\ target' = target \ {c} /\ told' = [told EXCEPT ![c] = @ + 1]
  /\ LinkPending(c, FALSE)
  /\ UNCHANGED <<multi, made, held, listed, ending, seamless, dstSeamless, mq, job, acked, worker, failed, links,
                 arrivals>>

\* RedChannelClient::handle_migrate_data_early and RedClient::seamless_migration_done_for_channel;
\* the last channel completes the migration.
LastChannel(c) == num[c] = 1

MigrateData(c, ch) ==
  /\ <<c, ch>> \in conn \cap waitData /\ waitData' = waitData \ {<<c, ch>>}
  /\ num' = [num EXCEPT ![c] = @ - 1]
  /\ IF LastChannel(c)
     THEN target' = target \ {c} /\ seamless' = seamless \ {c}
     ELSE UNCHANGED <<target, seamless>>
  /\ UNCHANGED <<multi, made, held, listed, ending, channels, conn, migTargets, pending, dstSeamless, wq, job, acked,
                 worker, failed, links, arrivals>>

\* On the main thread reds_on_client_seamless_migrate_complete is called, ...
MainMigrateData(c, ch) ==
  /\ MainIdle /\ ch \notin OfWorker /\ MigrateData(c, ch)
  /\ told' = IF LastChannel(c) /\ c \in listed THEN [told EXCEPT ![c] = @ + 1] ELSE told
  /\ UNCHANGED mq

\* ... the worker sends a message that holds a reference.
WorkerMigrateData(c, ch) ==
  /\ worker = Idle /\ ch \in OfWorker /\ MigrateData(c, ch)
  /\ mq' = IF LastChannel(c) THEN Append(mq, Msg("complete", c, ch)) ELSE mq
  /\ UNCHANGED told

-----------------------------------------------------------------------------
(* The main thread: clients go *)

\* A channel of the main thread is closed by its client or by the network:
\* RedChannelClient::disconnect.  MainChannelClient::on_disconnect has the whole client
\* disconnected, by a message to this same thread.
NoDisconnect(c, ch) == FALSE

DisconnectsClient(c, ch) == ch = Main /\ c \notin ending

MainClose(c, ch) ==
  /\ MainIdle /\ ch \notin OfWorker /\ <<c, ch>> \in conn
  /\ Unlists(c, ch) /\ RemoveChannel(c, ch)
  /\ mq' = IF DisconnectsClient(c, ch) THEN Append(mq, Msg("disconnect client", c, Main)) ELSE mq
  /\ UNCHANGED <<multi, made, held, listed, ending, target, seamless, num, migTargets, pending, dstSeamless, told, wq,
                 job, acked, worker, failed, links, arrivals>>

\* main_dispatcher_handle_client_disconnect.  Nothing if the client is already disconnecting;
\* the message's reference is given up at the end.
HandleDisconnectClient ==
  /\ MainIdle /\ mq # <<>> /\ Head(mq).k = "disconnect client" /\ mq' = Tail(mq)
  /\ LET c == Head(mq).c
     IN  IF c \in ending
         THEN UNCHANGED <<listed, ending, migTargets, pending, job>>
         ELSE BeginDisconnect(c) /\ job' = <<Msg("destroy", c, Main), Msg("release", c, Main)>>
  /\ UNCHANGED <<multi, made, held, channels, conn, target, seamless, num, waitData, dstSeamless, told, wq, acked,
                 worker, failed, links, arrivals>>

\* main_dispatcher_handle_migrate_complete.
HandleComplete ==
  /\ MainIdle /\ mq # <<>> /\ Head(mq).k = "complete" /\ mq' = Tail(mq)
  /\ told' = IF Head(mq).c \in listed THEN [told EXCEPT ![Head(mq).c] = @ + 1] ELSE told
  /\ UNCHANGED <<multi, made, held, listed, ending, channels, conn, target, seamless, num, waitData, migTargets,
                 pending, dstSeamless, wq, job, acked, worker, failed, links, arrivals>>

\* One round of the loop of RedClient::destroy: a channel is taken off the list and
\* RedChannel::disconnect_client disconnects it, at once on this thread or by a message whose
\* acknowledgement the main thread waits for.
AwaitsNothing(c, ch) == job

Awaits(c, ch) == <<Msg("await", c, ch)>> \o job

DestroyChannel ==
  /\ job # <<>> /\ Head(job).k = "destroy"
  /\ \E ch \in channels[Head(job).c] :
       LET c == Head(job).c
       IN  /\ RemoveChannel(c, ch)
           /\ \/ /\ ch \in OfWorker
                 /\ wq' = Append(wq, Msg("disconnect", c, ch)) /\ job' = Awaits(c, ch) /\ acked' = FALSE
                 /\ UNCHANGED <<conn, waitData>>
              \/ /\ ch \notin OfWorker /\ Unlists(c, ch)
                 /\ UNCHANGED <<wq, job, acked>>
  /\ UNCHANGED <<multi, made, held, listed, ending, target, seamless, num, migTargets, pending, dstSeamless, told, mq,
                 worker, failed, links, arrivals>>

DestroyAcked ==
  /\ job # <<>> /\ Head(job).k = "await" /\ acked /\ job' = Tail(job) /\ acked' = FALSE
  /\ UNCHANGED <<multi, made, held, listed, ending, channels, conn, migVars, wq, mq, worker, failed, links, arrivals>>

\* The loop ends: unref.
DestroyEnd ==
  /\ job # <<>> /\ Head(job).k = "destroy" /\ channels[Head(job).c] = {}
  /\ held' = held \ {Head(job).c} /\ job' = Tail(job)
  /\ UNCHANGED <<multi, made, listed, ending, channels, conn, migVars, wq, mq, acked, worker, failed, links, arrivals>>

ReleaseMessage ==
  /\ job # <<>> /\ Head(job).k = "release" /\ job' = Tail(job)
  /\ UNCHANGED <<multi, made, held, listed, ending, channels, conn, migVars, wq, mq, acked, worker, failed, links,
                 arrivals>>

-----------------------------------------------------------------------------
(* The worker thread *)

\* handle_dispatcher_connect: on_connect creates a channel client, which RedChannelClient::init
\* puts in the channel's list ...
WorkerConnect ==
  /\ worker = Idle /\ wq # <<>> /\ Head(wq).k = "connect" /\ wq' = Tail(wq) /\ worker' = Head(wq)
  /\ UNCHANGED <<multi, made, held, listed, ending, channels, conn, migVars, mq, job, acked, failed, links, arrivals>>

\* ... and then, under the client's lock, in the client's; if the client refuses, it leaves the
\* channel's list again.  The message's reference is given up.
WorkerConnectEnd ==
  /\ worker.k = "connect" /\ worker' = Idle
  /\ LET new == {ch \in {worker.ch} : ~Refuses(worker.c, ch)}
     IN  Joins(worker.c, new, Waiting(worker.c, new))
  /\ UNCHANGED <<multi, made, held, listed, ending, target, seamless, migTargets, pending, dstSeamless, told, wq, mq,
                 job, acked, failed, links, arrivals>>

\* handle_dispatcher_disconnect: RedChannelClient::disconnect, nothing if it is not connected.
WorkerDisconnect ==
  /\ worker = Idle /\ wq # <<>> /\ Head(wq).k = "disconnect" /\ wq' = Tail(wq)
  /\ LET m == Head(wq)
     IN  IF <<m.c, m.ch>> \in conn
         THEN Unlists(m.c, m.ch) /\ worker' = m /\ UNCHANGED acked
         ELSE acked' = TRUE /\ UNCHANGED <<conn, waitData, worker>>
  /\ UNCHANGED <<multi, made, held, listed, ending, channels, target, seamless, num, migTargets, pending, dstSeamless,
                 told, mq, job, failed, links, arrivals>>

\* The client closes a channel of the worker, or the network does.
WorkerClose(c, ch) ==
  /\ worker = Idle /\ ch \in OfWorker /\ <<c, ch>> \in conn
  /\ Unlists(c, ch) /\ worker' = Msg("close", c, ch)
  /\ UNCHANGED <<multi, made, held, listed, ending, channels, target, seamless, num, migTargets, pending, dstSeamless,
                 told, wq, mq, job, acked, failed, links, arrivals>>

\* The end of RedChannelClient::disconnect, and the acknowledgement of the message.
WorkerRemove ==
  /\ worker.k \in {"disconnect", "close"} /\ worker' = Idle
  /\ RemoveChannel(worker.c, worker.ch)
  /\ acked' = (acked \/ worker.k = "disconnect")
  /\ UNCHANGED <<multi, made, held, listed, ending, conn, migVars, wq, mq, job, failed, links, arrivals>>

-----------------------------------------------------------------------------
FromClient ==
  \E c \in Clients :
    \/ \E migrated \in BOOLEAN : LinkMain(c, migrated)
    \/ \E ch \in Others \cup OfWorker : LinkOther(c, ch)
    \/ DstDoSeamless(c) \/ DstRefuseSeamless(c) \/ MigrateEnd(c)
    \/ \E ch \in Channels : MainMigrateData(c, ch) \/ WorkerMigrateData(c, ch) \/ MainClose(c, ch) \/ WorkerClose(c, ch)

MainStep ==
  \/ HandleDisconnectClient \/ HandleComplete
  \/ DestroyChannel \/ DestroyAcked \/ DestroyEnd \/ ReleaseMessage \/ LinkMainEnd

WorkerStep == WorkerConnect \/ WorkerConnectEnd \/ WorkerDisconnect \/ WorkerRemove

Next == FromClient \/ MainStep \/ WorkerStep

\* Both threads run their loops; the clients and the network owe nothing.
Spec == Init /\ [][Next]_vars /\ WF_vars(MainStep) /\ WF_vars(WorkerStep)

-----------------------------------------------------------------------------
(* Properties *)
Message(ks) == [k : ks, c : Clients, ch : Channels]

\* The type invariant.
TypeOK ==
  /\ held \subseteq made /\ listed \subseteq held /\ ending \subseteq made
  /\ channels \in [Clients -> SUBSET Channels] /\ conn \subseteq Clients \X Channels
  /\ target \subseteq made /\ seamless \subseteq target /\ num \in [Clients -> Nat] /\ waitData \subseteq conn
  /\ migTargets \subseteq listed /\ told \in [Clients -> Nat]
  /\ \A c \in Clients : pending[c] # NoLinks => c \in migTargets
  /\ wq \in Seq(Message({"connect", "disconnect"})) /\ mq \in Seq(Message({"disconnect client", "complete"}))
  /\ job \in Seq(Message({"destroy", "await", "release", "link", "link migrated"}))
  /\ worker \in {Idle} \cup Message({"connect", "disconnect", "close"})

\* A client that was freed is no longer named anywhere: not in the server's lists, not by a
\* channel client of either thread, not by a queued message or by a call in progress.
FreedUnused ==
  \A c \in made : Freed(c) =>
    /\ c \notin listed \cup migTargets /\ channels[c] = {}
    /\ \A pair \in conn : pair[1] # c
    /\ \A m \in Range(wq) \cup Range(mq) \cup Range(job) \cup ({worker} \ {Idle}) : m.c # c

\* A channel client is in its channel's list exactly when its client owns it, except while the
\* worker is between the two lists or RedClient::destroy waits for it.  So when destroy goes on
\* after disconnect_client the channel client is disconnected, as its assertions on the pipe need.
ListsAgree ==
  \A c \in Clients, ch \in Channels : (<<c, ch>> \in conn) # (ch \in channels[c]) =>
    \/ worker.k \in {"disconnect", "close"} /\ worker.c = c /\ worker.ch = ch
    \/ job # <<>> /\ Head(job) = Msg("await", c, ch) /\ ~acked

\* A migration to this server: num_migrated_channels covers every channel that waits for its
\* data, a client is told at most once that the migration is complete, and the assertions of
\* reds_handle_other_links hold (a link is pending only for a client registered as a target,
\* and made at once only for one that is not).
TargetBookkeeping ==
  /\ \A c \in Clients : Cardinality({pair \in waitData : pair[1] = c}) <= num[c] /\ told[c] <= 1
  /\ ~failed

\* The threads implement the sessions: no channel joins a client whose session is over, and a
\* session is over only when all its channels have left.
Session == INSTANCE Sessions WITH
  state  <- [c \in Clients |-> IF c \notin made THEN "none" ELSE IF c \in held THEN "open" ELSE "over"],
  joined <- [c \in Clients |-> channels[c] \cup {m.ch : m \in {m \in Range(job) : m.k = "await" /\ m.c = c}}]
ImplementsSessions == Session!Spec

\* When the main channel of a client is disconnected the whole client is: it is freed.
ClientGoesWithMain == \A c \in Clients : (c \in made /\ ~Up(c)) ~> Freed(c)

-----------------------------------------------------------------------------
(* What comments say and TLC refutes *)

\* "returns TRUE If all channels are finished migrating": when the migration of a client is
\* declared complete, none of its channels is still on its way to the worker.
AllChannelsMigrated ==
  [][\A c \in target \ target' : c \in seamless =>
       \A m \in Range(wq) \cup {worker} : m.k = "connect" => m.c # c]_vars
=============================================================================
