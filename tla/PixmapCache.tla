---------------------------- MODULE PixmapCache ----------------------------
(***************************************************************************)
(* The pixmap cache (pixmap-cache.cpp, dcc.cpp, dcc-send.cpp): the server's *)
(* record of the images a client keeps.  The display channels of one client *)
(* share it; each belongs to the thread of its own worker and locks the     *)
(* cache for one image at a time while it builds a message.  The channels   *)
(* reach the client at different speeds, so an image one channel evicts may *)
(* still be asked for by a message of another: the invalidation waits for   *)
(* the serial of the last message of each channel that used the image.      *)
(*                                                                         *)
(* A message is a sequence of the parts the client acts on, in order:       *)
(* wait, inval, inval_all, add, get, plain.                                 *)
(***************************************************************************)
EXTENDS Integers, Sequences, FiniteSets, SequencesExt, FiniteSetsExt

CONSTANTS Dccs,         \* channel clients (below MAX_CACHE_CLIENTS)
          Images,
          CacheSize,    \* images the cache holds
          MaxSerial,    \* bounds on the serials of the channels
          MaxParts      \* bound on the images of a message

VARIABLES pc,           \* PixmapCache
          dcc,          \* per channel, see PixmapInit
          wire,         \* per channel, messages the client has not finished
          shown,        \* the client's cache
          handled,      \* per channel, serial of the last message handled
          raced         \* an image of an unfinished message was evicted

pixmapVars == <<pc, dcc, wire, shown, handled, raced>>

NoSync == [d \in Dccs |-> 0]

\* every channel has got the cache (dcc_handle_init, pixmap_cache_get)
PixmapInit ==
    /\ pc = [lru |-> <<>>,              \* items, the last used first
             sync |-> NoSync, size |-> CacheSize, generation |-> 0,
             initiator |-> [client |-> CHOOSE d \in Dccs : TRUE, message |-> 0]]
    /\ \E mini \in BOOLEAN :              \* the client uses mini headers
          dcc = [d \in Dccs |-> [serial |-> 1, generation |-> 0, mini |-> mini,
                                 pendingSync |-> FALSE, building |-> FALSE,
                                 parts |-> <<>>, items |-> {},   \* pixmap_cache_items
                                 res |-> {}, sync |-> NoSync]]   \* FreeList
    /\ wire = [d \in Dccs |-> <<>>]
    /\ shown = {}
    /\ handled = NoSync /\ raced = FALSE

-----------------------------------------------------------------------------
(* The cache, locked. *)

Cached(c, i) == \E k \in DOMAIN c.lru : c.lru[k].id = i
ItemOf(c, i) == c.lru[CHOOSE k \in DOMAIN c.lru : c.lru[k].id = i]
Others(c, i) == SelectSeq(c.lru, LAMBDA e : e.id # i)

\* dcc_pixmap_cache_unlocked_hit of channel d for the message of this serial
UnlockedHit(c, d, serial, i) ==
    IF ~Cached(c, i) THEN c
    ELSE [c EXCEPT !.lru = <<[ItemOf(c, i) EXCEPT !.sync[d] = serial]>> \o Others(c, i),
                   !.sync[d] = serial]

\* dcc_pixmap_cache_unlocked_add: the evicted items go to the free list; an
\* item of this very message is never evicted
Evictable(c, d) == c.lru # <<>> /\ Last(c.lru).sync[d] # dcc[d].serial

UnlockedAdd(c, d, i) ==
    [c EXCEPT !.lru = <<[id |-> i, sync |-> [NoSync EXCEPT ![d] = dcc[d].serial]]>>
                        \o (IF Len(@) < c.size THEN @ ELSE Front(@)),
              !.sync[d] = dcc[d].serial]

MayAdd(c, d) ==
    /\ c.generation = dcc[d].generation
    /\ Len(c.lru) < c.size \/ Evictable(c, d)

Part(what, i) == [what |-> what, id |-> i, sync |-> NoSync]
WaitPart(sync) == [what |-> "wait", id |-> CHOOSE i \in Images : TRUE, sync |-> sync]

\* who, of the other channels, is building a message that uses the image
UsedBy(i, d) == {e \in Dccs \ {d} : dcc[e].building /\ i \in dcc[e].items}

-----------------------------------------------------------------------------
(* Building a message. *)

BeginMessage(d) ==
    /\ ~dcc[d].building /\ dcc[d].serial + 1 < MaxSerial[d]
    /\ dcc' = [dcc EXCEPT ![d] = [@ EXCEPT !.building = TRUE, !.parts = <<>>, !.items = {},
                                           !.res = {}, !.sync = NoSync]]
    /\ UNCHANGED <<pc, wire, shown, handled, raced>>

\* fill_bits of an image found in the cache; one the client has in a lossy form
\* only, for a drawing that needs it whole, is sent again to replace that
FillBitsHit(d, i, replace) ==
    /\ dcc[d].building /\ Len(dcc[d].parts) < MaxParts /\ Cached(pc, i)
    /\ pc' = UnlockedHit(pc, d, dcc[d].serial, i)
    /\ dcc' = [dcc EXCEPT ![d].parts = Append(@, Part(IF replace THEN "add" ELSE "get", i)),
                          ![d].items = @ \cup {i}]
    /\ UNCHANGED <<wire, shown, handled, raced>>

\* fill_bits of an image that is not: it is sent, and cached if that succeeds
FillBitsMiss(d, i) ==
    /\ dcc[d].building /\ Len(dcc[d].parts) < MaxParts /\ ~Cached(pc, i)
    /\ LET add == MayAdd(pc, d)
           out == IF add /\ Len(pc.lru) = pc.size THEN {Last(pc.lru)} ELSE {}
       IN  /\ pc' = IF add THEN UnlockedAdd(pc, d, i) ELSE pc
           /\ dcc' = [dcc EXCEPT ![d] =
                 [@ EXCEPT !.parts = Append(@, Part(IF add THEN "add" ELSE "plain", i)),
                           !.items = IF add THEN @ \cup {i} ELSE @,
                           !.res = @ \cup {e.id : e \in out},
                           !.sync = [e \in Dccs |-> Max({@[e]} \cup {x.sync[e] : x \in out})],
                           !.pendingSync = @ \/ pc.generation # dcc[d].generation]]
           /\ raced' = (raced \/ \E e \in out : UsedBy(e.id, d) # {})
    /\ UNCHANGED <<wire, shown, handled>>

Invalidation(d) ==
    <<WaitPart([dcc[d].sync EXCEPT ![d] = 0])>>
        \o SetToSeq({Part("inval", i) : i \in dcc[d].res})

\* The variant for the mutation: the items keep the old serial.
NoReHit(d) == pc

\* send_free_list: an urgent message with the invalidations goes first and
\* takes the serial, so that what the message uses is hit again for the next
ReHit(d) ==
    FoldSet(LAMBDA i, c : UnlockedHit(c, d, dcc[d].serial + 1, i), pc, dcc[d].items)

\* begin_send_message
SendMessage(d) ==
    /\ dcc[d].building /\ dcc[d].parts # <<>>
    /\ LET n == dcc[d].serial
           parts == dcc[d].parts
           urgent == dcc[d].res # {} /\ dcc[d].mini
       IN  /\ wire' = [wire EXCEPT ![d] = @ \o
                 CASE urgent -> <<[serial |-> n, parts |-> Invalidation(d)],
                                  [serial |-> n + 1, parts |-> parts]>>
                   [] dcc[d].res # {} /\ ~urgent -> <<[serial |-> n, parts |-> Invalidation(d) \o parts]>>
                   [] OTHER -> <<[serial |-> n, parts |-> parts]>>]
           /\ pc' = IF urgent THEN ReHit(d) ELSE pc
           /\ dcc' = [dcc EXCEPT ![d] = [@ EXCEPT !.building = FALSE, !.parts = <<>>, !.items = {}, !.res = {},
                                                  !.sync = NoSync, !.serial = IF urgent THEN n + 2 ELSE n + 1]]
    /\ UNCHANGED <<shown, handled, raced>>

\* display_channel_marshall_pixmap_sync: wait for the reset of another channel
MarshallPixmapSync(d) ==
    /\ ~dcc[d].building /\ dcc[d].pendingSync /\ dcc[d].serial < MaxSerial[d]
    /\ wire' = [wire EXCEPT ![d] = Append(@, [serial |-> dcc[d].serial,
                   parts |-> <<WaitPart([NoSync EXCEPT ![pc.initiator.client] = pc.initiator.message])>>])]
    /\ dcc' = [dcc EXCEPT ![d].serial = @ + 1, ![d].generation = pc.generation, ![d].pendingSync = FALSE]
    /\ UNCHANGED <<pc, shown, handled, raced>>

\* display_channel_marshall_reset_cache, once per instance: the unfreezing of a
\* migrated cache (dcc_pixmap_cache_reset)
MarshallResetCache(d) ==
    /\ ~dcc[d].building /\ dcc[d].serial < MaxSerial[d] /\ pc.generation = 0
    /\ LET n == dcc[d].serial
       IN  /\ wire' = [wire EXCEPT ![d] = Append(@, [serial |-> n,
                         parts |-> <<WaitPart([pc.sync EXCEPT ![d] = 0]), Part("inval_all", CHOOSE i \in Images : TRUE)>>])]
           /\ pc' = [pc EXCEPT !.lru = <<>>, !.size = CacheSize, !.generation = @ + 1, !.sync[d] = n,
                               !.initiator = [client |-> d, message |-> n]]
           /\ dcc' = [dcc EXCEPT ![d].serial = @ + 1, ![d].generation = pc.generation + 1]
           /\ raced' = (raced \/ \E i \in Images : Cached(pc, i) /\ UsedBy(i, d) # {})
    /\ UNCHANGED <<shown, handled>>

\* pixmap_cache_freeze, when a channel hands over its migration data
Freeze ==
    /\ pc.size > 0 /\ \A d \in Dccs : ~dcc[d].building
    /\ pc' = [pc EXCEPT !.lru = <<>>, !.size = 0]
    /\ UNCHANGED <<dcc, wire, shown, handled, raced>>

-----------------------------------------------------------------------------
(* The client takes the next part of a channel's first message. *)

Runnable(d) ==
    /\ wire[d] # <<>>
    /\ LET p == wire[d][1].parts[1]
       IN  CASE p.what = "wait" -> \A e \in Dccs : handled[e] >= p.sync[e]
             [] p.what = "get" -> p.id \in shown
             [] OTHER -> TRUE

ClientTakesPart(d) ==
    /\ Runnable(d)
    /\ LET p == wire[d][1].parts[1]
           last == Len(wire[d][1].parts) = 1
       IN  /\ shown' = CASE p.what = "add" -> shown \cup {p.id}
                         [] p.what = "inval" -> shown \ {p.id}
                         [] p.what = "inval_all" -> {}
                         [] OTHER -> shown
           /\ wire' = [wire EXCEPT ![d] = IF last THEN Tail(@) ELSE [@ EXCEPT ![1].parts = Tail(@)]]
           /\ handled' = IF last THEN [handled EXCEPT ![d] = wire[d][1].serial] ELSE handled
    /\ UNCHANGED <<pc, dcc, raced>>

PixmapNext ==
    \/ \E d \in Dccs : BeginMessage(d) \/ SendMessage(d) \/ MarshallPixmapSync(d)
                       \/ MarshallResetCache(d) \/ ClientTakesPart(d)
    \/ \E d \in Dccs, i \in Images, replace \in BOOLEAN : FillBitsHit(d, i, replace)
    \/ \E d \in Dccs, i \in Images : FillBitsMiss(d, i)
    \/ Freeze

PixmapSpec == PixmapInit /\ [][PixmapNext]_pixmapVars

-----------------------------------------------------------------------------
\* The channels of the client never wait for each other or for an image that
\* will not come: when messages are under way and none is being built, the
\* client can go on with one of them.  So no message asks for an image that was
\* invalidated before it (fill_bits, send_free_list), no two waits block each
\* other.  Excepted are the behaviours in which a channel evicts an image that
\* a message another channel is just building uses.
PixmapClientProceeds ==
    /\ ~raced
    /\ \E d \in Dccs : wire[d] # <<>>
    /\ \A d \in Dccs : ~dcc[d].building
    => \E d \in Dccs : Runnable(d)

=============================================================================
