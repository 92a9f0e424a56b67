------------------------------ MODULE Display ------------------------------
(***************************************************************************)
(* The display channel (display-channel.cpp) and its channel client         *)
(* (dcc.cpp): surfaces, the drawables that wait to be rendered, the pipe to *)
(* a client and the surfaces the client has.                                *)
(*                                                                         *)
(* The server renders lazily: a drawable stays in its surface's tree until  *)
(* somebody needs the pixels, and in the pipe until it is sent.  Drawables   *)
(* that are covered are dropped from both.  What the guest must see is what *)
(* drawing every command at once would give: that picture is `ideal'.       *)
(*                                                                         *)
(* A pixel is the sequence of what was drawn on it since the last opaque     *)
(* drawing.  Streams, lossy compression and image caches are left out.       *)
(***************************************************************************)
EXTENDS DrawTree

CONSTANTS Cells,        \* cells of a surface
          Commands,     \* drawing commands of the guest
          Pool,         \* drawables (NUM_DRAWABLES of them)
          MaxCommands   \* bound on the commands of the guest

VARIABLES ds,           \* the display channel and its client, see DisplayInit
          ideal,        \* what the surfaces should show
          screen,       \* the surfaces of the client
          twice,        \* surfaces whose first drawing the client gets twice
          count

displayVars == <<ds, ideal, screen, twice, count>>

Surfaces == {0, 1}
Blank == [c \in Cells |-> <<0>>]
NoSurface == [c \in {} |-> <<0>>]

DisplayInit ==
    /\ ds = [t |-> EmptyTree(Surfaces),
             list |-> <<>>,             \* current_list, newest first
             cmd |-> [d \in {} |-> 0],  \* command of a drawable
             deps |-> {},               \* <<drawable, surface>> of depend_on_me
             table |-> {0},             \* surfaces in the table
             canvas |-> [s \in {0} |-> Blank],
             connected |-> FALSE,
             created |-> {},            \* surface_client_created
             pipe |-> <<>>]             \* newest first
    /\ ideal = [s \in {0} |-> Blank]
    /\ screen = [s \in {} |-> Blank]
    /\ twice = {} /\ count = 0

-----------------------------------------------------------------------------
(* What a command draws.  The effect the guest declares says how a drawing    *)
(* depends on what it covers.                                                 *)

EffectOf(c) == CASE c.kind \in {"fill", "bitmap", "copy", "copy_bits"} -> "OPAQUE"
                 [] c.kind = "blend" -> "BLEND"
                 [] c.kind = "invert" -> "REVERT_ON_DUP"
                 [] c.kind = "and" -> "NOP_ON_DUP"
                 [] c.kind = "stroke" -> "OPAQUE_BRUSH"

Painted(c, pixel) ==
    CASE c.kind \in {"fill", "bitmap", "stroke"} -> <<c.n>>
      [] c.kind = "blend" -> Append(pixel, c.n)
      [] c.kind = "invert" -> IF Last(pixel) = c.n THEN Front(pixel) ELSE Append(pixel, c.n)
      [] c.kind = "and" -> IF Last(pixel) = c.n THEN pixel ELSE Append(pixel, c.n)

\* surfaces is a function of pictures; the command draws on one of them
Rendered(surfaces, c) ==
    LET old == surfaces[c.s]
    IN  [surfaces EXCEPT ![c.s] =
            [x \in Cells |->
                IF x \notin c.rgn THEN old[x]
                ELSE CASE c.kind = "copy" -> surfaces[c.src][x]
                       [] c.kind = "copy_bits" -> old[x + c.src]
                       [] OTHER -> Painted(c, old[x])]]

Sources(c) == IF c.kind = "copy" THEN {c.src} ELSE {}
Idempotent(c) == c.kind \in {"fill", "bitmap", "copy", "and", "stroke"}
Bbox(rgn) == {x \in Cells : Min(rgn) <= x /\ x <= Max(rgn)}

-----------------------------------------------------------------------------
(* Drawables and the surfaces they hold. *)

InPipe(x) == {x.pipe[i].d : i \in {j \in DOMAIN x.pipe : x.pipe[j].type = "draw"}}
Referenced(x) == ToSet(x.list) \cup InPipe(x)
SurfaceRefs(x) ==
    x.table \cup UNION {{x.cmd[d].s} \cup Sources(x.cmd[d]) : d \in Referenced(x)}

PipeItem(type, s, d, img) == [type |-> type, s |-> s, d |-> d, img |-> img]

\* dcc_create_surface, dcc_destroy_surface: at the newest end of the pipe
DccCreateSurface(x, s) ==
    IF ~x.connected \/ s \in x.created THEN x
    ELSE [x EXCEPT !.created = @ \cup {s},
                   !.pipe = <<PipeItem("create", s, 0, NoSurface)>> \o @]

DccDestroySurface(x, s) ==
    IF ~x.connected \/ s \notin x.created THEN x
    ELSE [x EXCEPT !.created = @ \ {s},
                   !.pipe = <<PipeItem("destroy", s, 0, NoSurface)>> \o @]

DccPushSurfaceImage(x, s) ==
    IF ~x.connected THEN x
    ELSE [x EXCEPT !.pipe = <<PipeItem("image", s, 0, x.canvas[s])>> \o @]

\* display_channel_surface_unref for the surfaces nobody refers to any more
SurfaceUnref(x) ==
    LET dead == DOMAIN x.canvas \ SurfaceRefs(x)
        Told == FoldSet(LAMBDA s, y : DccDestroySurface(y, s), x, dead)
    IN  [Told EXCEPT !.canvas = Without(@, dead)]

\* drawable_unref for the ones neither in the tree nor in the pipe
Released(x) ==
    LET unused == DOMAIN x.cmd \ Referenced(x)
    IN  SurfaceUnref([x EXCEPT !.deps = {p \in @ : p[1] \notin unused},
                               !.cmd = Without(@, unused), !.t.log = <<>>])

\* the drawables the tree dropped leave the lists and the pipe
RemoveGone(x) ==
    LET gone == x.t.gone
    IN  [x EXCEPT !.list = SelectSeq(@, LAMBDA d : d \notin gone),
                  !.pipe = SelectSeq(@, LAMBDA i : i.type # "draw" \/ i.d \notin gone),
                  !.t.gone = {}]

-----------------------------------------------------------------------------
(* Rendering. *)

OnSurface(x, s) == SelectSeq(x.list, LAMBDA d : x.cmd[d].s = s)

\* current_find_intersects_rect: the newest one that shows in the area, or 0
FindIntersects(x, s, area) ==
    LET hits == SelectSeq(OnSurface(x, s), LAMBDA d : x.t.rgn[Draw(d)] \cap area # {})
    IN  IF hits = <<>> THEN 0 ELSE hits[1]

Unlisted(x, d) ==
    LET up == x.t.par[Draw(d)]
    IN  [x EXCEPT !.list = SelectSeq(@, LAMBDA e : e # d),
                  !.t = ContainerCleanup(CurrentRemoveDrawable(@, d), up)]

RECURSIVE DrawableDraw(_, _), SurfaceDraw(_, _, _), DrawUntil(_, _, _)

\* drawable_draw: the surfaces it reads are brought up to date first
DrawableDraw(x, d) ==
    LET c == x.cmd[d]
        Dep(s, y) == IF <<d, s>> \notin y.deps THEN y
                     ELSE SurfaceDraw([y EXCEPT !.deps = @ \ {<<d, s>>}], s, Bbox(c.rgn))
        y == FoldSet(Dep, x, Sources(c))
    IN  [y EXCEPT !.canvas = Rendered(@, c)]

\* draw_until: the drawables of a surface from the oldest to `last'
DrawUntil(x, s, last) ==
    LET d == Last(OnSurface(x, s))
        y == DrawableDraw(Unlisted(x, d), d)
    IN  IF d = last THEN y ELSE DrawUntil(y, s, last)

\* display_channel_surface_draw
SurfaceDraw(x, s, area) ==
    LET last == FindIntersects(x, s, area)
    IN  IF last = 0 THEN x ELSE DrawUntil(x, s, last)

\* free_one_drawable: the oldest of all
FreeOneDrawable(x) == LET d == Last(x.list) IN Unlisted(DrawableDraw(x, d), d)

\* display_channel_current_flush
RECURSIVE CurrentFlush(_, _)
CurrentFlush(x, s) ==
    IF OnSurface(x, s) = <<>> THEN [x EXCEPT !.t = CurrentRemoveAll(@, Root(s))]
    ELSE CurrentFlush(FreeOneDrawable(x), s)

DrawDependOnNone(x, s) == x

\* draw_depend_on_me: what reads the surface is rendered before it changes,
\* oldest first
RECURSIVE DrawDependOnMe(_, _)
DrawDependOnMe(x, s) ==
    LET readers == SelectSeq(x.list, LAMBDA d : <<d, s>> \in x.deps)
        c == x.cmd[Last(readers)]
    IN  IF readers = <<>> THEN x
        ELSE DrawDependOnMe(SurfaceDraw(x, c.s, Bbox(c.rgn)), s)

-----------------------------------------------------------------------------
(* The pipe of the client. *)

\* add_drawable_surface_images: a surface the client has not got yet is
\* rendered and sent whole
SurfaceImage(x, s) ==
    IF ~x.connected \/ s \in x.created THEN x
    ELSE DccPushSurfaceImage(CurrentFlush(DccCreateSurface(x, s), s), s)

DccPrependDrawable(x, d) ==
    LET c == x.cmd[d]
        y == SurfaceImage(FoldSet(LAMBDA s, z : SurfaceImage(z, s), x, Sources(c)), c.s)
    IN  IF ~x.connected THEN x ELSE [y EXCEPT !.pipe = <<PipeItem("draw", c.s, d, NoSurface)>> \o @]

\* what the client does with an item; an item for a surface it lacks breaks it
Broken == [s \in {-1} |-> Blank]

Applied(scr, item, cmd) ==
    CASE item.type = "create" -> Extend(scr, item.s, Blank)
      [] item.type = "destroy" -> IF item.s \in DOMAIN scr THEN Without(scr, {item.s}) ELSE Broken
      [] item.type = "image" -> IF item.s \in DOMAIN scr THEN [scr EXCEPT ![item.s] = item.img] ELSE Broken
      [] item.type = "draw" ->
            IF {item.s} \cup Sources(cmd[item.d]) \subseteq DOMAIN scr THEN Rendered(scr, cmd[item.d]) ELSE Broken

\* all items of a pipe, oldest first
Delivered(scr, pipe, cmd) == FoldRight(LAMBDA item, acc : Applied(acc, item, cmd), pipe, scr)

\* dcc_clear_surface_drawables_from_pipe: from the newest item back to one that
\* reads the surface; returns the pipe and what has to be sent when waiting
ClearFromPipe(x, s) ==
    LET reads == {i \in DOMAIN x.pipe : x.pipe[i].type = "draw" /\ s \in Sources(x.cmd[x.pipe[i].d])
                                        /\ x.pipe[i].s # s}
        stop == IF reads = {} THEN Len(x.pipe) + 1 ELSE Min(reads)
        newer == SelectSeq(SubSeq(x.pipe, 1, stop - 1), LAMBDA i : i.type # "draw" \/ i.s # s)
    IN  [kept |-> newer, rest |-> SubSeq(x.pipe, stop, Len(x.pipe))]

-----------------------------------------------------------------------------
(* Commands of the guest. *)

\* display_channel_drawable_try_new: an exhausted pool makes the oldest
\* drawables render; the command is lost only when all are in the pipe
RECURSIVE DrawableTryNew(_)
DrawableTryNew(x) ==
    IF Pool \ DOMAIN x.cmd # {} \/ x.list = <<>> THEN x
    ELSE DrawableTryNew(Released(FreeOneDrawable(x)))

Same(x, c) ==
    {d \in DOMAIN x.cmd : /\ x.cmd[d].s = c.s /\ x.cmd[d].kind = c.kind
                          /\ Bbox(x.cmd[d].rgn) = Bbox(c.rgn)
                          /\ c.kind # "stroke" => x.cmd[d].n = c.n}

\* the drawable in the tree of its surface
TreeAdd(x, d, c) ==
    IF c.kind = "copy_bits" THEN CurrentAddWithShadow(x.t, Root(c.s), d, c.src)
    ELSE CurrentAdd(x.t, Root(c.s), d, Same(x, c) \ {d})

\* and in the pipes, with current_add_equal's handling of the one it replaces
Piped(x, d, add) ==
    LET u == RemoveGone([x EXCEPT !.t = add.t])
        v == [u EXCEPT !.list = SelectSeq(@, LAMBDA e : e # add.other)]
        Cut(w) == [w EXCEPT !.pipe = SelectSeq(@, LAMBDA i : i.type # "draw" \/ i.d # add.other)]
        Listed(w) == [w EXCEPT !.list = <<d>> \o @]
    IN  CASE add.how = "pipe" -> DccPrependDrawable(Listed(u), d)
          [] add.how = "replace" -> Cut(DccPrependDrawable(Listed(v), d))
          [] add.how = "revert" -> Cut(IF add.other \in InPipe(u) THEN v ELSE DccPrependDrawable(v, d))
          [] OTHER -> u

\* display_channel_add_drawable
AddDrawable(x, d, c) ==
    LET Dependent(y) == [y EXCEPT !.deps = @ \cup ({d} \X (Sources(c) \ {c.s})),
                                  !.t = NewDrawable(@, d, c.rgn, EffectOf(c))]
        Add(y) == Piped(y, d, TreeAdd(y, d, c))
    IN  Add(Dependent(DrawDependOnMe(x, c.s)))

ProcessDraw(c) ==
    /\ count < MaxCommands /\ count' = count + 1
    /\ {c.s} \cup Sources(c) \subseteq ds.table
    /\ LET x == DrawableTryNew(ds)
           d == Min(Pool \ DOMAIN x.cmd)
       IN  /\ Pool \ DOMAIN x.cmd # {}
           /\ ds' = Released(AddDrawable([x EXCEPT !.cmd = Extend(@, d, c)], d, c))
    /\ ideal' = Rendered(ideal, c)
    /\ twice' = IF ds.connected /\ c.s \notin ds.created /\ ~Idempotent(c)
                THEN twice \cup {c.s} ELSE twice
    /\ UNCHANGED screen

\* display_channel_create_surface; a reloaded surface has its data and is sent
\* on demand.  The guest uses a number again only once the surface is released.
CreateSurface(s, reloaded) ==
    /\ count < MaxCommands /\ count' = count + 1
    /\ s \notin ds.table /\ s \notin DOMAIN ds.canvas
    /\ LET data == IF reloaded THEN [c \in Cells |-> <<99>>] ELSE Blank
           x == [ds EXCEPT !.table = @ \cup {s}, !.canvas = Extend(@, s, data)]
           y == IF s = 0 \/ ~reloaded THEN DccCreateSurface(x, s) ELSE x
       IN  /\ ds' = IF s = 0 /\ reloaded THEN DccPushSurfaceImage(y, s) ELSE y
           /\ ideal' = Extend(ideal, s, data)
    /\ UNCHANGED <<screen, twice>>

\* display_channel_destroy_surface
DestroySurface(s) ==
    /\ count < MaxCommands /\ count' = count + 1
    /\ s # 0 /\ s \in ds.table
    /\ LET x == DrawDependOnMe(ds, s)
           y == RemoveGone([x EXCEPT !.t = CurrentRemoveAll(@, Root(s))])
           p == ClearFromPipe(y, s)
       IN  ds' = Released([y EXCEPT !.pipe = p.kept \o p.rest, !.table = @ \ {s}])
    /\ ideal' = Without(ideal, {s})
    /\ UNCHANGED <<screen, twice>>

\* destroy_primary_surface: the client is made to take what reads the surface
DestroyPrimary ==
    /\ count < MaxCommands /\ count' = count + 1
    /\ 0 \in ds.table
    /\ LET x == DrawDependOnMe(ds, 0)
           y == RemoveGone([x EXCEPT !.t = CurrentRemoveAll(@, Root(0))])
           p == ClearFromPipe(y, 0)
       IN  /\ ds' = Released([y EXCEPT !.pipe = p.kept, !.table = @ \ {0}])
           /\ screen' = Delivered(screen, p.rest, y.cmd)
    /\ ideal' = Without(ideal, {0})
    /\ UNCHANGED twice

\* display_channel_update: QXL_CMD_UPDATE or spice_qxl_update_area
UpdateArea(s, area) ==
    /\ s \in ds.table
    /\ ds' = Released(SurfaceDraw(ds, s, area))
    /\ UNCHANGED <<ideal, screen, twice, count>>

\* handle_dev_oom, a full pool
FreeSome ==
    /\ ds.list # <<>>
    /\ ds' = Released(FreeOneDrawable(ds))
    /\ UNCHANGED <<ideal, screen, twice, count>>

-----------------------------------------------------------------------------
(* The client. *)

DccStart ==
    /\ ~ds.connected
    /\ LET x == [ds EXCEPT !.connected = TRUE]
       IN  ds' = IF 0 \notin x.table THEN x
                 ELSE Released(DccPushSurfaceImage(DccCreateSurface(CurrentFlush(x, 0), 0), 0))
    /\ UNCHANGED <<ideal, screen, twice, count>>

SendItem ==
    /\ ds.pipe # <<>>
    /\ screen' = Applied(screen, Last(ds.pipe), ds.cmd)
    /\ ds' = Released([ds EXCEPT !.pipe = Front(@)])
    /\ UNCHANGED <<ideal, twice, count>>

DccDisconnect ==
    /\ ds.connected /\ count < MaxCommands /\ count' = count + 1
    /\ ds' = Released([ds EXCEPT !.connected = FALSE, !.pipe = <<>>, !.created = {}])
    /\ screen' = [s \in {} |-> Blank] /\ twice' = {}
    /\ UNCHANGED ideal

DisplayNext ==
    \/ \E c \in Commands : ProcessDraw(c)
    \/ \E s \in Surfaces, reloaded \in BOOLEAN : CreateSurface(s, reloaded)
    \/ \E s \in Surfaces : DestroySurface(s)
    \/ DestroyPrimary
    \/ \E s \in Surfaces, a \in {Cells} \cup {{c} : c \in Cells} : UpdateArea(s, a)
    \/ FreeSome \/ DccStart \/ SendItem \/ DccDisconnect

DisplaySpec == DisplayInit /\ [][DisplayNext]_displayVars

-----------------------------------------------------------------------------
\* Bringing any area of a surface up to date renders what the guest drew there,
\* whatever was dropped, held back, rendered early or read by other surfaces in
\* between (display_channel_update, current_add, exclude_region).
UpdateShowsGuestPicture ==
    \A s \in ds.table, a \in {Cells} \cup {{c} : c \in Cells} :
        LET canvas == SurfaceDraw(ds, s, a).canvas[s]
        IN  \A c \in a : canvas[c] = ideal[s][c]

\* Once the client has taken its pipe, every surface it has looks as the guest
\* drew it, and no item is for a surface the client lacks.  (A surface sent on
\* demand for a drawing that is not idempotent is excepted, see DccPrependDrawable.)
ClientShowsGuestPicture ==
    ds.connected /\ twice = {} =>
        LET final == Delivered(screen, ds.pipe, ds.cmd)
        IN  /\ -1 \notin DOMAIN final
            /\ \A s \in ds.created \cap ds.table : final[s] = ideal[s]

\* The tree is as its walks assume: every item has a region, lies in its
\* container's, a shadow is its drawable's region moved, comes after it and
\* never first in a ring, and holds back part of its own region only.
TreeWellFormed ==
    LET t == ds.t
    IN  /\ \A n \in DOMAIN t.rgn : t.rgn[n] # {}
        /\ \A n \in DOMAIN t.par : n \in ToSet(t.ring[t.par[n]])
        /\ \A n \in DOMAIN t.par : IsContainer(t.par[n]) => t.rgn[n] \subseteq t.rgn[t.par[n]]
        /\ \A n \in DOMAIN t.hold :
              LET c == ds.cmd[n[2]]
              IN  /\ t.hold[n] \subseteq t.rgn[n]
                  /\ t.rgn[n] = {x + c.src : x \in t.rgn[Draw(n[2])]}
                  /\ n # Head1(t, t.par[n])
        /\ {n[2] : n \in {m \in DOMAIN t.par : IsDraw(m)}} = ToSet(ds.list)
=============================================================================
