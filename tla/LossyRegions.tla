---------------------------- MODULE LossyRegions ----------------------------
(***************************************************************************)
(* Lossy compression (dcc-send.cpp).  With it the client's surfaces differ   *)
(* from the guest's.  The server keeps, for each surface of the client, the *)
(* region that may differ; a drawing that would combine such pixels with    *)
(* others is put off, and the pixels it needs are sent lossless first, or   *)
(* its result is sent as an image.                                          *)
(*                                                                         *)
(* A surface is a row of cells.  `differs' is the truth about the client,    *)
(* which follows from what is drawn; the server's record is `lossy'.         *)
(***************************************************************************)
EXTENDS Integers, FiniteSets

CONSTANTS LossySurfaces,
          LossyCells,
          LossyImages,      \* images the guest asks to cache
          Drawings          \* what the guest draws, see Drawing

VARIABLES lossy,            \* surface_client_lossy_region
          differs,
          imageLossy,       \* pixmap cache: "none", "lossy" or "exact"
          slipped           \* an opaque drawing took a lossy source unnoticed

lossyVars == <<lossy, differs, imageLossy, slipped>>

\* rgn: the clipped box; src and brush: <<"none">>, <<"solid">>, <<"bitmap">>,
\* <<"image", i>> or <<"surface", s>>; rop: combines with what it covers (or,
\* for an opaque drawing, source with brush)
Drawing(kind, s, rgn, src, brush, rop, mask) ==
    [kind |-> kind, s |-> s, rgn |-> rgn, src |-> src, brush |-> brush, rop |-> rop, mask |-> mask]

\* A drawing is inside its surface; only some kinds have a source, only some a brush.
Sourceless == {"fill", "copy_bits", "blackness", "whiteness", "inverse", "stroke", "text"}
Brushless == {"copy", "transparent", "alpha_blend", "copy_bits", "blend", "blackness", "whiteness", "inverse"}
ASSUME LossyAssumption ==
    /\ LossyCells \subseteq Int
    /\ \A c \in Drawings :
          /\ c.kind \in Sourceless \cup Brushless \cup {"opaque", "rop3", "composite"}
          /\ c.s \in LossySurfaces /\ c.rgn \subseteq LossyCells
          /\ c.src[1] = "surface" => c.src[2] \in LossySurfaces
          /\ c.brush[1] = "surface" => c.brush[2] \in LossySurfaces
          /\ c.kind \in Sourceless => c.src[1] = "none"
          /\ c.kind \in Brushless => c.brush[1] = "none"

LossyInit ==
    /\ lossy = [s \in LossySurfaces |-> {}] /\ differs = [s \in LossySurfaces |-> {}]
    /\ imageLossy = [i \in LossyImages |-> "none"]
    /\ slipped = FALSE

\* region_extents: from the first cell to the last
Extents(rgn) == {x \in LossyCells : \E a, b \in rgn : a =< x /\ x =< b}

-----------------------------------------------------------------------------
(* How a drawing is sent.  dest, src, brush: which of them are asked whether  *)
(* they are lossy and resent if they are (part of) a surface; lossyOk: the     *)
(* source may be compressed with loss; after: what becomes of the region.      *)

Rule(dest, src, brush, lossyOk, after) ==
    [dest |-> dest, src |-> src, brush |-> brush, lossyOk |-> lossyOk, after |-> after]

LossyFill(c) == Rule(c.rop, FALSE, TRUE, FALSE, "exact")
LossyOpaque(c) == Rule(FALSE, c.rop, TRUE, ~c.rop, "as asked or sent")
LossyCopy(c) == Rule(FALSE, FALSE, FALSE, TRUE, "as source")
LossyTransparent(c) == Rule(FALSE, TRUE, FALSE, FALSE, "unchanged")
LossyAlphaBlend(c) == Rule(FALSE, FALSE, FALSE, TRUE, "lossy if source")
LossyCopyBits(c) == Rule(FALSE, FALSE, FALSE, FALSE, "as moved")
LossyBlend(c) == Rule(TRUE, TRUE, FALSE, FALSE, "unchanged")
LossyBlackness(c) == Rule(FALSE, FALSE, FALSE, FALSE, "exact")
LossyWhiteness(c) == Rule(FALSE, FALSE, FALSE, FALSE, "exact")
LossyInverse(c) == Rule(FALSE, FALSE, FALSE, FALSE, "unchanged")
\* The variant for the mutation: the destination is not looked at.
LossyRop3Blind(c) == Rule(FALSE, TRUE, TRUE, FALSE, "exact")
LossyRop3(c) == Rule(TRUE, TRUE, TRUE, FALSE, "exact")
LossyComposite(c) == Rule(TRUE, TRUE, TRUE, FALSE, "exact")     \* the mask as brush
\* the destination counts unless the brush is solid
LossyStroke(c) == Rule(c.rop /\ c.brush # <<"solid">>, FALSE, TRUE, FALSE, "unchanged")
LossyText(c) == Rule(c.rop /\ c.brush # <<"solid">>, FALSE, TRUE, FALSE, "unchanged")

\* marshall_lossy_qxl_drawable
RuleOf(c) ==
    CASE c.kind = "fill" -> LossyFill(c)
      [] c.kind = "opaque" -> LossyOpaque(c)
      [] c.kind = "copy" -> LossyCopy(c)
      [] c.kind = "transparent" -> LossyTransparent(c)
      [] c.kind = "alpha_blend" -> LossyAlphaBlend(c)
      [] c.kind = "copy_bits" -> LossyCopyBits(c)
      [] c.kind = "blend" -> LossyBlend(c)
      [] c.kind = "blackness" -> LossyBlackness(c)
      [] c.kind = "whiteness" -> LossyWhiteness(c)
      [] c.kind = "inverse" -> LossyInverse(c)
      [] c.kind = "rop3" -> LossyRop3(c)
      [] c.kind = "composite" -> LossyComposite(c)
      [] c.kind = "stroke" -> LossyStroke(c)
      [] c.kind = "text" -> LossyText(c)

-----------------------------------------------------------------------------
(* What the server finds and sends. *)

\* is_bitmap_lossy, is_brush_lossy
IsBitmapLossy(b, area) ==
    CASE b[1] = "image" -> imageLossy[b[2]] = "lossy"
      [] b[1] = "surface" -> lossy[b[2]] \cap area # {}
      [] OTHER -> FALSE

\* the surface areas to send first: <<surface, cells>>; a brush counts whole
ResendAreas(c) ==
    LET r == RuleOf(c)
        Of(asked, b, area) ==
            IF asked /\ b[1] = "surface" /\ lossy[b[2]] \cap area # {}
            THEN {<<b[2], Extents(lossy[b[2]] \cap area)>>} ELSE {}
    IN  Of(r.src, c.src, IF c.kind = "composite" THEN LossyCells ELSE c.rgn)
        \cup Of(r.brush, c.brush, LossyCells)
        \cup Of(r.dest, <<"surface", c.s>>, Extents(c.rgn))

\* fill_bits: how a source goes out; e is the outcome of the compression
FillBits(b, lossyOk, e) ==
    CASE b[1] = "surface" -> "surface"
      [] b[1] = "image" /\ imageLossy[b[2]] # "none" /\ (lossyOk \/ imageLossy[b[2]] = "exact") -> "cache"
      [] OTHER -> IF e = "lossy" /\ ~lossyOk THEN "lossless" ELSE e

\* the pixmap cache after it
CacheAfter(cache, b, lossyOk, e) ==
    IF b[1] # "image" \/ FillBits(b, lossyOk, e) = "cache" THEN cache
    ELSE [cache EXCEPT ![b[2]] = IF FillBits(b, lossyOk, e) = "lossy" THEN "lossy" ELSE "exact"]

\* surface_lossy_region_update
RegionUpdate(rgn, c, isLossy) ==
    IF c.mask /\ ~isLossy THEN rgn
    ELSE IF isLossy THEN rgn \cup c.rgn ELSE rgn \ c.rgn

\* copy_bits takes the source to be dx = 1 cell to the right
Moved(rgn) == {x \in LossyCells : x + 1 \in rgn}

RegionAfter(c, sent) ==
    LET r == RuleOf(c)
        asked == (r.after # "as asked or sent" \/ r.src) /\ IsBitmapLossy(c.src, c.rgn)
        isLossy == sent = "lossy" \/ (asked /\ sent # "lossless")
    IN  CASE r.after = "exact" -> RegionUpdate(lossy[c.s], c, FALSE)
          [] r.after \in {"as source", "as asked or sent"} -> RegionUpdate(lossy[c.s], c, isLossy)
          [] r.after = "lossy if source" -> IF isLossy THEN lossy[c.s] \cup c.rgn ELSE lossy[c.s]
          [] r.after = "as moved" ->
                RegionUpdate(lossy[c.s], c, \E x \in Extents(c.rgn) : x + 1 \in lossy[c.s])
          [] r.after = "unchanged" -> lossy[c.s]

-----------------------------------------------------------------------------
(* What the client gets: cells that combine a differing one differ.  A mask,   *)
(* a transparent colour, a path may leave any part of the region as it was.    *)

SourceDiffers(b, sent) ==
    IF b[1] = "surface" THEN differs[b[2]]
    ELSE IF sent = "lossy" \/ (sent = "cache" /\ imageLossy[b[2]] = "lossy") THEN LossyCells ELSE {}

BrushDiffers(b) == IF b[1] = "surface" /\ differs[b[2]] # {} THEN LossyCells ELSE {}

ClientDraws(c, sent) ==
    LET src == SourceDiffers(c.src, sent)
        brush == BrushDiffers(c.brush)
        dest == differs[c.s]
        drawn == CASE c.kind = "fill" -> brush \cup IF c.rop THEN dest ELSE {}
                   [] c.kind = "opaque" -> src \cup brush
                   [] c.kind = "copy" -> src
                   [] c.kind = "copy_bits" -> Moved(dest)
                   [] c.kind \in {"blackness", "whiteness"} -> {}
                   [] OTHER -> src \cup brush \cup dest
        kept == IF c.mask THEN dest ELSE {}
    IN  (dest \ c.rgn) \cup ((drawn \cup kept) \cap c.rgn)

-----------------------------------------------------------------------------
(* The pipe. *)

\* a drawing that needs no resending
MarshallLossy(c, e) ==
    LET r == RuleOf(c)
        sent == FillBits(c.src, r.lossyOk, e)
    IN  /\ ResendAreas(c) = {}
        /\ lossy' = [lossy EXCEPT ![c.s] = RegionAfter(c, sent)]
        /\ differs' = [differs EXCEPT ![c.s] = ClientDraws(c, sent)]
        /\ imageLossy' = CacheAfter(CacheAfter(imageLossy, c.src, r.lossyOk, e), c.brush, FALSE, e)
        /\ slipped' = (slipped \/ (c.kind = "opaque" /\ ~c.rop /\ IsBitmapLossy(c.src, c.rgn)))

\* red_add_lossless_drawable_dependencies, the drawing not rendered yet: it goes
\* back to the pipe behind lossless images of what it needs
ResendDependencies(c) ==
    LET sent(s) == UNION {a[2] : a \in {b \in ResendAreas(c) : b[1] = s}}
    IN  /\ ResendAreas(c) # {}
        /\ lossy' = [s \in LossySurfaces |-> lossy[s] \ sent(s)]
        /\ differs' = [s \in LossySurfaces |-> differs[s] \ sent(s)]
        /\ UNCHANGED <<imageLossy, slipped>>

\* red_marshall_image: part of a surface as it is rendered
MarshallImage(s, area, isLossy) ==
    /\ lossy' = [lossy EXCEPT ![s] = IF isLossy THEN @ \cup area ELSE @ \ area]
    /\ differs' = [differs EXCEPT ![s] = IF isLossy THEN @ \cup area ELSE @ \ area]
    /\ UNCHANGED <<imageLossy, slipped>>

\* display_channel_marshall_migrate_data_surfaces, restore_surfaces_lossy: the
\* next server knows the extents only
MigrateLossy ==
    /\ lossy' = [s \in LossySurfaces |-> Extents(lossy[s])]
    /\ UNCHANGED <<differs, imageLossy, slipped>>

\* dcc_create_surface: a new surface is exact
LossyCreateSurface(s) ==
    /\ lossy' = [lossy EXCEPT ![s] = {}] /\ differs' = [differs EXCEPT ![s] = {}]
    /\ UNCHANGED <<imageLossy, slipped>>

LossyNext ==
    \/ \E c \in Drawings, e \in {"lossy", "lossless", "bitmap"} : MarshallLossy(c, e)
    \/ \E c \in Drawings : ResendDependencies(c)
    \/ \E s \in LossySurfaces, isLossy \in BOOLEAN, x, y \in LossyCells :
          MarshallImage(s, Extents({x, y}), isLossy)
    \/ MigrateLossy
    \/ \E s \in LossySurfaces : LossyCreateSurface(s)

LossySpec == LossyInit /\ [][LossyNext]_lossyVars

-----------------------------------------------------------------------------
\* What differs at the client is known to differ, whatever was drawn, copied
\* and resent: surface_lossy_region_update never clears too much, and no drawing
\* that combines pixels is sent while one of them differs.  Excepted: once a
\* DRAW_OPAQUE without a raster operation has taken a lossy source, which
\* red_lossy_marshall_qxl_draw_opaque does not ask about.
LossyRegionCovers ==
    ~slipped => \A s \in LossySurfaces : differs[s] \subseteq lossy[s]
=============================================================================
