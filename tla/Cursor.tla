------------------------------- MODULE Cursor -------------------------------
(***************************************************************************)
(* The cursor channel (cursor-channel.cpp, cursor-channel-client.cpp) and the *)
(* cache of shapes the server keeps for each client (cache-item.tmpl.cpp).     *)
(*                                                                         *)
(* A pipe is sent from its head; an item put in front of the others is sent    *)
(* next (pipe_add_tail in the code, whose list runs the other way).            *)
(***************************************************************************)
EXTENDS Integers, Sequences, FiniteSets, FiniteSetsExt, SequencesExt

CONSTANTS Shapes,           \* header.unique of the cursor shapes that may be cached
          CursorCacheSize,  \* CLIENT_CURSOR_CACHE_SIZE
          CursorClients,
          MaxCursor         \* bound on the commands and connections

ASSUME CursorAssumption == CursorCacheSize \in Nat \ {0} /\ 0 \notin Shapes

VARIABLES cur,      \* CursorChannel: [item, visible, mode, migrate, waiting]
          ccc,      \* per client: CursorChannelClient [on, pipe, lru]
          ptr,      \* per client, at the other end: [shape, visible, cache, broken], and
                    \* told: all that the cursor depends on was queued for it
          curCalls

curVars == <<cur, ccc, ptr, curCalls>>

NoShape == 0
AwayCcc == [on |-> FALSE, pipe |-> <<>>, lru |-> <<>>]
FreshPtr == [shape |-> NoShape, visible |-> TRUE, cache |-> {}, broken |-> FALSE, told |-> FALSE]

CurInit ==
    /\ cur = [item |-> NoShape, visible |-> TRUE, mode |-> "server", migrate |-> FALSE, waiting |-> FALSE]
    /\ ccc = [c \in CursorClients |-> AwayCcc]
    /\ ptr = [c \in CursorClients |-> FreshPtr]
    /\ curCalls = 0

CurCall == curCalls < MaxCursor /\ curCalls' = curCalls + 1 /\ ~cur.waiting
CurItem(type) == [type |-> type, shape |-> NoShape]
CurTold(told) == [c \in CursorClients |-> IF ccc[c].on THEN [ptr[c] EXCEPT !.told = told] ELSE ptr[c]]
CurPipesAdd(items) == [c \in CursorClients |-> IF ccc[c].on THEN [ccc[c] EXCEPT !.pipe = @ \o items] ELSE ccc[c]]

\* CursorChannel::process_cmd; cmd is [type, shape, visible]
ProcessCmd(cmd) ==
    /\ CurCall
    /\ LET show == cmd.type = "move" /\ ~cur.visible
           sent == cur.mode = "server" \/ cmd.type # "move" \/ show
       IN  /\ cur' = [cur EXCEPT !.item = IF cmd.type = "set" THEN cmd.shape ELSE @,
                                 !.visible = IF cmd.type = "set" THEN cmd.visible
                                             ELSE IF cmd.type = "move" THEN TRUE
                                             ELSE IF cmd.type = "hide" THEN FALSE ELSE @]
           /\ ccc' = IF sent THEN CurPipesAdd(<<[type |-> cmd.type, shape |-> cmd.shape]>>) ELSE ccc
    /\ UNCHANGED ptr

\* CursorChannel::reset, which waits until everything is sent; while the channel is the
\* target of a migration no client is told
CurReset ==
    /\ CurCall
    /\ cur' = [cur EXCEPT !.item = NoShape, !.visible = TRUE, !.waiting = \E c \in CursorClients : ccc[c].on]
    /\ ccc' = CurPipesAdd(<<CurItem("inval_all")>> \o IF cur.migrate THEN <<>> ELSE <<CurItem("reset")>>)
    /\ ptr' = CurTold(~cur.migrate)

\* The end of wait_all_sent: all is sent (a client that took too long is gone)
CurAllSent ==
    /\ cur.waiting /\ \A c \in CursorClients : ccc[c].pipe = <<>>
    /\ cur' = [cur EXCEPT !.waiting = FALSE]
    /\ UNCHANGED <<ccc, ptr, curCalls>>

\* CursorChannel::do_init, for all clients
CurDoInit ==
    /\ CurCall
    /\ IF cur.migrate THEN UNCHANGED <<ccc, ptr>>
       ELSE ccc' = CurPipesAdd(<<CurItem("init")>>) /\ ptr' = CurTold(TRUE)
    /\ UNCHANGED cur

\* CursorChannel::set_mouse_mode
CurMouseMode(mode) ==
    /\ CurCall /\ cur.mode # mode
    /\ cur' = [cur EXCEPT !.mode = mode]
    /\ UNCHANGED <<ccc, ptr>>

\* CursorChannel::on_connect, cursor_channel_client_new, cursor_channel_init_client.
\* A migrated client brings what the source had shown it.
CurConnect(c, migrated) ==
    /\ CurCall /\ ~ccc[c].on
    /\ cur' = [cur EXCEPT !.migrate = migrated]
    /\ ccc' = [ccc EXCEPT ![c] = [on |-> TRUE, lru |-> <<>>,
                                  pipe |-> IF migrated THEN <<>> ELSE <<CurItem("init")>>]]
    /\ ptr' = [ptr EXCEPT ![c] = [FreshPtr EXCEPT !.told = ~migrated]]

\* handle_dev_start: the migration is over
CurStart ==
    /\ cur.migrate /\ ~cur.waiting
    /\ cur' = [cur EXCEPT !.migrate = FALSE]
    /\ UNCHANGED <<ccc, ptr, curCalls>>

\* CursorChannelClient::on_disconnect
CurDisconnect(c) ==
    /\ ccc[c].on
    /\ ccc' = [ccc EXCEPT ![c] = AwayCcc] /\ ptr' = [ptr EXCEPT ![c] = FreshPtr]
    /\ UNCHANGED <<cur, curCalls>>

\* CursorChannelClient::migrate
CurMigrate(c) ==
    /\ CurCall /\ ccc[c].on
    /\ ccc' = [ccc EXCEPT ![c].pipe = Append(@, CurItem("inval_all"))]
    /\ UNCHANGED <<cur, ptr>>

\* cache_find: the shape becomes the most recently used
CacheFind(k, id) ==
    [k EXCEPT !.lru = <<id>> \o RemoveAt(@, CHOOSE i \in DOMAIN @ : @[i] = id)]

\* The variant for the mutation: the invalidation goes behind what is queued.
InvalLast(k, id) == [k EXCEPT !.lru = Front(@), !.pipe = Append(@, [type |-> "inval_one", shape |-> id])]

\* cache_remove: the client is told next
CacheRemove(k, id) == [k EXCEPT !.lru = Front(@), !.pipe = <<[type |-> "inval_one", shape |-> id]>> \o @]

\* cache_add: the least recently used shape makes room
CacheAdd(k, id) ==
    LET room == IF Len(k.lru) = CursorCacheSize THEN CacheRemove(k, Last(k.lru)) ELSE k
    IN  [room EXCEPT !.lru = <<id>> \o @]

\* cursor_fill: how the shape travels, and the cache afterwards
CursorFill(k, id) ==
    IF id = NoShape THEN [k |-> k, how |-> "none"]
    ELSE IF id \in ToSet(k.lru) THEN [k |-> CacheFind(k, id), how |-> "from_cache"]
    ELSE [k |-> CacheAdd(k, id), how |-> "cache_me"]

\* The client gets a shape: one it does not have any more breaks it.
TakeShape(p, id, how) ==
    [p EXCEPT !.shape = id, !.cache = IF how = "cache_me" THEN @ \cup {id} ELSE @,
              !.broken = @ \/ (how = "from_cache" /\ id \notin p.cache)]

\* CursorChannelClient::send_item (red_marshall_cursor, red_marshall_cursor_init,
\* red_marshall_inval) and the client's side of it, as <<CursorChannelClient, client>>
CurSent(k, p, item) ==
    LET clean == [k EXCEPT !.lru = <<>>]                     \* reset_cursor_cache
        set == CursorFill(k, item.shape)
        init == CursorFill(clean, cur.item)
    IN  CASE item.type = "set" -> <<set.k, [TakeShape(p, item.shape, set.how) EXCEPT !.visible = cur.visible]>>
          [] item.type = "init" -> <<init.k, [TakeShape([p EXCEPT !.cache = {}], cur.item, init.how) EXCEPT
                                                 !.visible = cur.visible]>>
          [] item.type = "inval_all" -> <<clean, [p EXCEPT !.cache = {}]>>
          [] item.type = "inval_one" -> <<k, [p EXCEPT !.cache = @ \ {item.shape}]>>
          [] item.type = "reset" -> <<k, [p EXCEPT !.shape = NoShape, !.visible = TRUE]>>
          [] item.type = "move" -> <<k, [p EXCEPT !.visible = TRUE]>>
          [] item.type = "hide" -> <<k, [p EXCEPT !.visible = FALSE]>>
          [] item.type = "trail" -> <<k, p>>

CurSend(c) ==
    /\ ccc[c].on /\ ccc[c].pipe # <<>>
    /\ LET r == CurSent([ccc[c] EXCEPT !.pipe = Tail(@)], ptr[c], Head(ccc[c].pipe))
       IN  ccc' = [ccc EXCEPT ![c] = r[1]] /\ ptr' = [ptr EXCEPT ![c] = r[2]]
    /\ UNCHANGED <<cur, curCalls>>

CursorCmds == {[type |-> "set", shape |-> s, visible |-> v] : s \in Shapes \cup {NoShape}, v \in BOOLEAN}
              \cup {[type |-> t, shape |-> NoShape, visible |-> TRUE] : t \in {"move", "hide", "trail"}}

CurNext ==
    \/ \E cmd \in CursorCmds : ProcessCmd(cmd)
    \/ CurReset \/ CurAllSent \/ CurDoInit \/ CurStart
    \/ \E mode \in {"server", "client"} : CurMouseMode(mode)
    \/ \E c \in CursorClients : CurDisconnect(c) \/ CurMigrate(c) \/ CurSend(c)
                                \/ \E migrated \in BOOLEAN : CurConnect(c, migrated)

CurSpec == CurInit /\ [][CurNext]_curVars
-----------------------------------------------------------------------------
Invalidated(c) == {i.shape : i \in {j \in ToSet(ccc[c].pipe) : j.type = "inval_one"}}

(* The server never sends a shape from a cache the client no longer has it in: *)
(* what the server holds to be cached is in the client's cache and not about    *)
(* to be invalidated, whatever is queued, evicted, reset or migrated meanwhile; *)
(* and a client to which everything was sent shows the channel's cursor.        *)
CursorClientShows ==
    \A c \in CursorClients : ccc[c].on =>
        /\ ~ptr[c].broken
        /\ ToSet(ccc[c].lru) \subseteq ptr[c].cache \ Invalidated(c)
        /\ Len(ccc[c].lru) <= CursorCacheSize
        /\ ccc[c].pipe = <<>> /\ ptr[c].told => ptr[c].shape = cur.item /\ ptr[c].visible = cur.visible
=============================================================================
