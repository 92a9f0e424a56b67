------------------------------ MODULE DrawTree ------------------------------
(***************************************************************************)
(* The tree of drawables a surface still has to render (tree.cpp, and the  *)
(* functions of display-channel.cpp that add to it).                       *)
(*                                                                         *)
(* A surface has a ring of items, newest first.  An item is a drawable, the *)
(* shadow of a drawable (the source of a COPY_BITS) or a container, which   *)
(* has a ring of its own whose items lie within its oldest, opaque one.  A  *)
(* drawable that newer opaque ones cover completely leaves the tree and is  *)
(* never rendered nor sent.                                                 *)
(*                                                                         *)
(* A node is <<kind, number>>; the rings are sequences of nodes, indexed by *)
(* the container, or by <<"root", surface>>.  Regions are sets of cells of  *)
(* a one-dimensional surface.                                               *)
(***************************************************************************)
EXTENDS Integers, Sequences, FiniteSets, FiniteSetsExt, SequencesExt

Root(s) == <<"root", s>>
Draw(i) == <<"draw", i>>
ShadowOf(i) == <<"shadow", i>>
None == <<"none", 0>>                   \* the null pointer; also a ring's head

EmptyTree(surfaces) ==
    [ring   |-> [r \in {Root(s) : s \in surfaces} |-> <<>>],
     par    |-> [n \in {} |-> None],    \* ring an item is in
     rgn    |-> [n \in {} |-> {}],
     hold   |-> [n \in {} |-> {}],      \* Shadow::on_hold
     effect |-> [n \in {} |-> ""],
     rooted |-> {},                     \* DrawItem::container_root
     gone   |-> {},                     \* drawables current_remove took out
     log    |-> <<>>]                   \* calls into video-stream.cpp

Extend(f, x, v) == [y \in DOMAIN f \cup {x} |-> IF y = x THEN v ELSE f[y]]
Without(f, S) == [y \in DOMAIN f \ S |-> f[y]]

IsDraw(n) == n[1] = "draw"
IsShadow(n) == n[1] = "shadow"
IsContainer(n) == n[1] = "cont"

HasShadow(t, n) == IsDraw(n) /\ ShadowOf(n[2]) \in DOMAIN t.rgn

-----------------------------------------------------------------------------
(* Rings. *)

Head1(t, r) == IF t.ring[r] = <<>> THEN None ELSE t.ring[r][1]

At(t, r, n) == CHOOSE i \in DOMAIN t.ring[r] : t.ring[r][i] = n

\* ring_next: None at the end; the head is before the first item
RingNext(t, r, n) ==
    IF n = None THEN Head1(t, r)
    ELSE IF At(t, r, n) = Len(t.ring[r]) THEN None ELSE t.ring[r][At(t, r, n) + 1]

RingPrev(t, r, n) == IF At(t, r, n) = 1 THEN None ELSE t.ring[r][At(t, r, n) - 1]

\* ring_add_after; after the head when n is None
RingAddAfter(t, r, n, new) ==
    [t EXCEPT !.ring[r] = InsertAt(@, IF n = None THEN 1 ELSE At(t, r, n) + 1, new)]

Drop(t, S) ==
    [t EXCEPT !.ring = [r \in DOMAIN @ \ S |-> SelectSeq(@[r], LAMBDA n : n \notin S)],
              !.par = Without(@, S), !.rgn = Without(@, S), !.hold = Without(@, S),
              !.effect = Without(@, S), !.rooted = @ \ S]

-----------------------------------------------------------------------------
(* tree.cpp *)

ShadowNew(t, r, d, delta) ==
    LET n == ShadowOf(d)
    IN  RingAddAfter([t EXCEPT !.par = Extend(@, n, r),
                               !.rgn = Extend(@, n, {c + delta : c \in t.rgn[Draw(d)]}),
                               !.hold = Extend(@, n, {})], r, None, n)

FreshContainer(t) == <<"cont", Min({k \in 1 .. 9 : <<"cont", k>> \notin DOMAIN t.rgn})>>

\* the container takes the item's place and the item becomes its only one
ContainerNew(t, n) ==
    LET c == FreshContainer(t) r == t.par[n]
    IN  [t EXCEPT !.ring = Extend([@ EXCEPT ![r] = [@ EXCEPT ![At(t, r, n)] = c]], c, <<n>>),
                  !.par = Extend([@ EXCEPT ![n] = c], c, r),
                  !.rgn = Extend(@, c, t.rgn[n]),
                  !.rooted = @ \cup {n}]

\* upward, a container left with one item gives it to its own ring
RECURSIVE ContainerCleanup(_, _)
ContainerCleanup(t, c) ==
    IF ~IsContainer(c) \/ Len(t.ring[c]) > 1 THEN t
    ELSE LET up == t.par[c]
             moved == IF t.ring[c] = <<>> THEN t
                      ELSE [RingAddAfter(t, up, c, t.ring[c][1]) EXCEPT
                              !.ring[c] = <<>>, !.par[t.ring[c][1]] = up]
         IN  ContainerCleanup(Drop(moved, {c}), up)

\* the shadow of the oldest drawable of a container
RECURSIVE TreeItemFindShadow(_, _)
TreeItemFindShadow(t, n) ==
    IF IsContainer(n)
    THEN IF t.ring[n] = <<>> THEN None ELSE TreeItemFindShadow(t, Last(t.ring[n]))
    ELSE IF HasShadow(t, n) THEN ShadowOf(n[2]) ELSE None

\* the rings above an item; an item of the root ring counts as contained by any
RECURSIVE TreeItemContainedBy(_, _, _)
TreeItemContainedBy(t, n, r) ==
    ~IsContainer(t.par[n]) \/ t.par[n] = r \/ TreeItemContainedBy(t, t.par[n], r)

TreeItemContainerItems(t, n, r) == IF IsContainer(t.par[n]) THEN t.par[n] ELSE r

IsOpaqueItem(t, n) == IsContainer(n) \/ (IsDraw(n) /\ t.effect[n] = "OPAQUE")

-----------------------------------------------------------------------------
(* Removal. *)

RECURSIVE Below(_, _)
Below(t, n) ==
    {n} \cup (IF IsContainer(n) THEN UNION {Below(t, t.ring[n][i]) : i \in DOMAIN t.ring[n]} ELSE {})

Shadows(S) == {ShadowOf(n[2]) : n \in {m \in S : IsDraw(m)}}

\* current_remove_drawable
CurrentRemoveDrawable(t, d) == [Drop(t, {Draw(d), ShadowOf(d)}) EXCEPT !.log = Append(@, <<"trace_add", d>>)]

\* current_remove: the drawables below the item leave the tree and the pipes;
\* it is never called for a shadow
CurrentRemove(t, n) ==
    LET S == Below(t, n)
        draws == {m[2] : m \in {x \in S : IsDraw(x)}}
    IN  [Drop(t, S \cup Shadows(S)) EXCEPT
            !.gone = @ \cup draws,
            !.log = @ \o [i \in 1 .. Cardinality(draws) |-> <<"trace_add", SetToSortSeq(draws, <)[i]>>]]

RECURSIVE CurrentRemoveAll(_, _)
CurrentRemoveAll(t, r) ==
    IF t.ring[r] = <<>> THEN t ELSE CurrentRemoveAll(CurrentRemove(t, Head1(t, r)), r)

-----------------------------------------------------------------------------
(* Excluding a region from what is behind a new opaque drawable. *)

\* __exclude_region: one item.  Returns the tree, what is left of the region,
\* and the ring at which the walk ends.
ExcludeItem(t, r, n, rgn, top) ==
    LET and == rgn \cap t.rgn[n]
        rest == IF IsDraw(n) /\ t.effect[n] # "OPAQUE" THEN rgn ELSE rgn \ and
        cut == [t EXCEPT !.rgn[n] = @ \ and]
        Out(u, left, shadow) ==
            [t |-> u, rgn |-> left,
             top |-> IF shadow = None \/ TreeItemContainedBy(t, shadow, top) THEN top
                     ELSE TreeItemContainerItems(t, shadow, r)]
    IN  CASE IsShadow(n) -> Out([t EXCEPT !.hold[n] = @ \cup and], rgn \ and, None)
          [] IsContainer(n) ->
                IF cut.rgn[n] # {} THEN Out(cut, rgn, None)
                ELSE LET shadow == TreeItemFindShadow(t, n)
                     IN  Out(cut, (rgn \ and) \cup IF shadow = None THEN {} ELSE t.hold[shadow], shadow)
          [] HasShadow(t, n) ->
                LET shadow == ShadowOf(n[2])
                    delta == Min(t.rgn[shadow]) - Min(t.rgn[n])
                    moved == {c + delta : c \in and}
                    freed == moved \cap t.hold[shadow]
                IN  Out([cut EXCEPT !.rgn[shadow] = @ \ moved, !.hold[shadow] = @ \ freed],
                        rest \cup freed, IF freed = {} THEN None ELSE shadow)
          [] OTHER -> Out([cut EXCEPT !.log = Append(@, <<"maintenance", n[2]>>)], rest, None)

\* exclude_region: walk the ring from item n, down into containers, until the
\* region is used up, the item `last' is done, or the ring `top' ends.
RECURSIVE ExcludeRegion(_, _, _, _, _, _), ExcludeWent(_, _, _, _, _, _),
          ExcludeOn(_, _, _, _, _), ExcludeAdvance(_, _, _, _, _, _)

ExcludeRegion(t, r, n, rgn, last, top) ==
    IF rgn \cap t.rgn[n] = {} THEN ExcludeAdvance(t, r, n, rgn, last, <<top, t.par[n]>>)
    ELSE ExcludeOn(ExcludeItem(t, r, n, rgn, top), r, n, last, t.par[n])

\* x is what ExcludeItem made of item n; one without a region left is removed
ExcludeOn(x, r, n, last, up) ==
    IF x.t.rgn[n] = {}
    THEN LET prev == RingPrev(x.t, up, n) u == CurrentRemove(x.t, n)
         IN  ExcludeWent(u, x, r, prev, IF last = n THEN RingNext(u, r, prev) ELSE last, up)
    ELSE IF IsContainer(n) /\ x.t.ring[n] # <<>>
    THEN ExcludeRegion(x.t, n, Head1(x.t, n), x.rgn, last, x.top)
    ELSE ExcludeWent(x.t, x, r, n, last, up)

ExcludeWent(t, x, r, n, last, up) ==
    IF x.rgn = {} THEN [t |-> t, rgn |-> {}, last |-> last]
    ELSE ExcludeAdvance(t, r, n, x.rgn, last, <<x.top, up>>)

\* on to the next item, up a level when a container's ring ends
ExcludeAdvance(t, r, n, rgn, last, tu) ==
    LET next == RingNext(t, r, n)
        climbed == t.par[tu[2]]
    IN  IF (last = None \/ last # n) /\ next # None
        THEN ExcludeRegion(t, r, next, rgn, last, tu[1])
        ELSE IF r = tu[1] THEN [t |-> t, rgn |-> rgn, last |-> last]
        ELSE ExcludeAdvance(t, IF IsContainer(climbed) THEN climbed ELSE tu[1],
                            tu[2], rgn, last, <<tu[1], climbed>>)

Exclude(t, r, n, rgn, last) ==
    IF n = None THEN [t |-> t, rgn |-> rgn, last |-> last]
    ELSE ExcludeRegion(t, r, n, rgn, last, r)

-----------------------------------------------------------------------------
(* Adding a drawable. *)

\* current_add_drawable: into ring r after item n
CurrentAddDrawable(t, r, n, d) == RingAddAfter([t EXCEPT !.par = Extend(@, Draw(d), r)], r, n, Draw(d))

NewDrawable(t, d, rgn, effect) ==
    [t EXCEPT !.rgn = Extend(@, Draw(d), rgn), !.effect = Extend(@, Draw(d), effect), !.gone = {}, !.log = <<>>]

\* current_add_with_shadow; a copy onto itself is not added
CurrentAddWithShadow(t, r, d, delta) ==
    IF delta = 0 THEN [t |-> Drop(t, {Draw(d)}), how |-> "dropped", other |-> 0]
    ELSE LET u == CurrentAddDrawable(ShadowNew(t, r, d, delta), r, None, d)
         IN  [t |-> Exclude(u, r, ShadowOf(d), t.rgn[Draw(d)], None).t, how |-> "pipe", other |-> 0]

\* current_add_equal: how the new drawable takes the place of an equal one
AddEqual(t, d, n, same) ==
    IF ~IsDraw(n) \/ HasShadow(t, n) \/ t.effect[n] # t.effect[Draw(d)] THEN "no"
    ELSE CASE t.effect[n] = "OPAQUE" -> "replace"
           [] t.effect[n] = "OPAQUE_BRUSH" /\ n[2] \in same -> "replace"
           [] t.effect[n] = "REVERT_ON_DUP" /\ n[2] \in same -> "revert"
           [] t.effect[n] = "NOP_ON_DUP" /\ n[2] \in same -> "nop"
           [] OTHER -> "no"

\* The steps of current_add's walk; a is the state of its locals, a.now the
\* sibling it has come to.

\* the sibling is covered and goes; what its shadow held back is excluded later
Covered(a, shadow) ==
    LET prev == RingPrev(a.t, a.r, a.now)
        u == CurrentRemove(a.t, a.now)
        next == RingNext(u, a.r, prev)
    IN  [a EXCEPT !.t = u, !.now = next,
                  !.rgn = @ \cup IF shadow = None THEN {} ELSE a.t.hold[shadow],
                  !.base = IF shadow # None \/ a.now = @ THEN next ELSE @]

\* the exclusion so far, x, ended at the sibling or removed it
CoveredAfter(a, x, shadow) ==
    LET b == [a EXCEPT !.t = x.t, !.rgn = x.rgn]
    IN  IF x.last = a.now THEN Covered(b, shadow) ELSE [b EXCEPT !.now = x.last, !.base = None]

Obscured(a, shadow) ==
    IF shadow = None \/ a.base = None THEN Covered(a, shadow)
    ELSE CoveredAfter(a, Exclude(a.t, a.r, a.base, a.rgn, a.now), shadow)

\* the sibling is opaque and covers the new drawable: what is pending is done
ExcludePending(a) ==
    IF a.base = None THEN a
    ELSE [a EXCEPT !.t = Exclude(a.t, a.r, a.base, a.rgn, None).t, !.rgn = {}, !.base = None]

Contained(a) ==
    IF a.now \in a.t.rooted THEN a
    ELSE LET u == ContainerNew(a.t, a.now) IN [a EXCEPT !.t = u, !.r = u.par[a.now]]

\* the walk ends here
Break(a) == [a EXCEPT !.base = IF @ = None THEN a.now ELSE @, !.how = "pipe"]

RECURSIVE CurrentAddWalk(_, _, _)
CurrentAddWalk(a, d, same) ==
    LET t == a.t
        me == Draw(d)
        n == a.now
        left == t.rgn[me] \ t.rgn[n]            \* REGION_TEST_LEFT_EXCLUSIVE
        right == t.rgn[n] \ t.rgn[me]           \* REGION_TEST_RIGHT_EXCLUSIVE
        equal == IF left = {} /\ right = {} THEN AddEqual(t, d, n, same) ELSE "no"
        Enter(b) == [b EXCEPT !.r = n, !.now = Head1(b.t, n)]
    IN  IF n = None THEN [a EXCEPT !.how = "pipe"]
        ELSE IF t.rgn[me] \cap t.rgn[n] = {}
        THEN CurrentAddWalk([a EXCEPT !.now = RingNext(t, a.r, n)], d, same)
        ELSE IF IsShadow(n) THEN Break(a)
        ELSE IF equal # "no" THEN [a EXCEPT !.how = equal, !.other = n[2]]
        ELSE IF right = {} /\ t.effect[me] = "OPAQUE"
        THEN CurrentAddWalk(Obscured(a, TreeItemFindShadow(t, n)), d, same)
        ELSE IF left # {} \/ ~IsOpaqueItem(t, n) THEN Break(a)
        ELSE IF IsContainer(n) THEN CurrentAddWalk(Enter(ExcludePending(a)), d, same)
        ELSE Break(Contained(ExcludePending(a)))

\* what is done where the walk ended; only at the end of an opaque drawable's is
\* the new one a frame candidate
CurrentAdded(a, d) ==
    LET Add(u, after) == CurrentAddDrawable(u, a.r, after, d)
    IN  CASE a.how = "replace" ->
                [t |-> CurrentRemoveDrawable(Add(a.t, Draw(a.other)), a.other), how |-> "replace", other |-> a.other]
          [] a.how = "revert" ->
                [t |-> Drop(CurrentRemoveDrawable(a.t, a.other), {Draw(d)}), how |-> "revert", other |-> a.other]
          [] a.how = "nop" -> [t |-> Drop(a.t, {Draw(d)}), how |-> "dropped", other |-> 0]
          [] a.how = "pipe" /\ a.t.effect[Draw(d)] = "OPAQUE" ->
                [t |-> Add(Exclude([a.t EXCEPT !.log = SelectSeq(@, LAMBDA e : e[1] = "trace_add")],
                                   a.r, a.base, a.rgn \cup a.t.rgn[Draw(d)], None).t, None),
                 how |-> "pipe", other |-> 0]
          [] OTHER -> [t |-> Add(a.t, None), how |-> "pipe", other |-> 0]

\* current_add: the tree, and how the new drawable goes to the pipes
CurrentAdd(t, r, d, same) ==
    CurrentAdded(CurrentAddWalk([t |-> t, r |-> r, now |-> Head1(t, r), base |-> None, rgn |-> {},
                                 how |-> "", other |-> 0], d, same), d)
=============================================================================
