--------------------------- MODULE GraphicsProofs ---------------------------
(***************************************************************************)
(* LossyRegionCovers holds for any surfaces, any cells and any drawings.   *)
(* With the types it is inductive; the work is in the fourteen kinds of    *)
(* drawing, each with its own rule of what is asked, sent and recorded.    *)
(*                                                                         *)
(* GlDrawsCompleted holds for any finite set of clients, any buffers and   *)
(* any number of calls.  It is not inductive: that a client draws from the *)
(* right buffer depends on the order of scanouts and drawings in the pipes *)
(* and in the worker's queue, and that a drawing is completed once on      *)
(* there being one of it at all.                                           *)
(***************************************************************************)

EXTENDS LossyRegions, GlScanout, MjpegEncoder, TLAPS

-----------------------------------------------------------------------------
(* Sizes of finite sets *)

\* What the counts of clients and of sampled qualities rest on; FiniteSizesKnown, after the
\* steps, shows it from the library.
FiniteSizes ==
    /\ Cardinality({}) = 0
    /\ \A n \in Nat : IsFiniteSet(0 .. n) /\ Cardinality(0 .. n) = n + 1
    /\ \A S : IsFiniteSet(S) =>
         /\ Cardinality(S) \in Nat /\ (Cardinality(S) = 0 => S = {})
         /\ \A T \in SUBSET S : IsFiniteSet(T) /\ Cardinality(T) <= Cardinality(S)
         /\ \A x \in S : Cardinality(S \ {x}) = Cardinality(S) - 1
         /\ \A x : x \notin S => Cardinality(S \cup {x}) = Cardinality(S) + 1

-----------------------------------------------------------------------------
(* The lossy regions of a client's surfaces *)

\* The types of the regions.
LossyTypeOK ==
    /\ lossy \in [LossySurfaces -> SUBSET LossyCells]
    /\ differs \in [LossySurfaces -> SUBSET LossyCells]
    /\ slipped \in BOOLEAN

LossyInductive == LossyTypeOK /\ LossyRegionCovers

Clean == LossyTypeOK /\ \A s \in LossySurfaces : differs[s] \subseteq lossy[s]

-----------------------------------------------------------------------------

Outcomes == {"lossy", "lossless", "bitmap"}

-----------------------------------------------------------------------------

\* Every step keeps it.
LEMMA LossyStepInductive == LossyInductive /\ [LossyNext]_lossyVars => LossyInductive'
\* The extents of a region cover it.
<1>ExtentsCover.
      ASSUME NEW rgn \in SUBSET LossyCells
      PROVE  rgn \subseteq Extents(rgn) /\ Extents(rgn) \subseteq LossyCells
  BY <1>ExtentsCover, LossyAssumption DEF Extents
\* A surface that is asked about and needs no resending differs nowhere in the area.
<1>AskedClean.
      ASSUME Clean, NEW c \in Drawings, ResendAreas(c) = {}
      PROVE  /\ RuleOf(c).src /\ c.src[1] = "surface" =>
                  /\ lossy[c.src[2]] \cap c.rgn = {} /\ differs[c.src[2]] \cap c.rgn = {}
             /\ RuleOf(c).brush /\ c.brush[1] = "surface" => differs[c.brush[2]] = {}
             /\ RuleOf(c).dest => differs[c.s] \cap c.rgn = {}
  <2> USE <1>AskedClean
  <2> DEFINE area == IF c.kind = "composite" THEN LossyCells ELSE c.rgn
  <2>0. /\ c.s \in LossySurfaces /\ c.rgn \subseteq LossyCells /\ c.rgn \subseteq area
        /\ c.src[1] = "surface" => c.src[2] \in LossySurfaces
        /\ c.brush[1] = "surface" => c.brush[2] \in LossySurfaces
    BY LossyAssumption
  <2>1. ASSUME RuleOf(c).src, c.src[1] = "surface" PROVE lossy[c.src[2]] \cap area = {}
    <3>1. ASSUME lossy[c.src[2]] \cap area # {} PROVE FALSE
      <4>1. <<c.src[2], Extents(lossy[c.src[2]] \cap area)>> \in ResendAreas(c)
        BY <2>1, <3>1 DEF ResendAreas
      <4> QED BY <4>1
    <3> QED BY <3>1
  <2>2. ASSUME RuleOf(c).brush, c.brush[1] = "surface" PROVE lossy[c.brush[2]] \cap LossyCells = {}
    <3>1. ASSUME lossy[c.brush[2]] \cap LossyCells # {} PROVE FALSE
      <4>1. <<c.brush[2], Extents(lossy[c.brush[2]] \cap LossyCells)>> \in ResendAreas(c)
        BY <2>2, <3>1 DEF ResendAreas
      <4> QED BY <4>1
    <3> QED BY <3>1
  <2>3. ASSUME RuleOf(c).dest PROVE lossy[c.s] \cap Extents(c.rgn) = {}
    <3>1. ASSUME lossy[c.s] \cap Extents(c.rgn) # {} PROVE FALSE
      <4>1. <<c.s, Extents(lossy[c.s] \cap Extents(c.rgn))>> \in ResendAreas(c)
        BY <2>3, <3>1 DEF ResendAreas
      <4> QED BY <4>1
    <3> QED BY <3>1
  <2>4. c.rgn \subseteq Extents(c.rgn) BY <2>0, <1>ExtentsCover
  <2> HIDE DEF area
  <2>5. \A s \in LossySurfaces : differs[s] \subseteq lossy[s] /\ differs[s] \subseteq LossyCells
    BY DEF Clean, LossyTypeOK
  <2>6. RuleOf(c).src /\ c.src[1] = "surface" =>
          lossy[c.src[2]] \cap c.rgn = {} /\ differs[c.src[2]] \cap c.rgn = {}
    BY <2>0, <2>1, <2>5
  <2>7. RuleOf(c).brush /\ c.brush[1] = "surface" => differs[c.brush[2]] = {} BY <2>0, <2>2, <2>5
  <2>8. RuleOf(c).dest => differs[c.s] \cap c.rgn = {} BY <2>0, <2>3, <2>4, <2>5
  <2> QED BY <2>6, <2>7, <2>8
\* A source that is not to be sent with loss differs nowhere in the drawing (fill_bits).
<1>SourceExact.
      ASSUME Clean, NEW c \in Drawings, ResendAreas(c) = {}, NEW e \in Outcomes,
             RuleOf(c).src \/ c.src[1] = "none"
      PROVE  SourceDiffers(c.src, FillBits(c.src, FALSE, e)) \cap c.rgn = {}
  <2> USE <1>SourceExact
  <2>1. CASE c.src[1] = "surface"
    <3>1. differs[c.src[2]] \cap c.rgn = {} BY <2>1, <1>AskedClean
    <3> QED BY <2>1, <3>1 DEF SourceDiffers
  <2>2. CASE c.src[1] # "surface"
    <3>1. /\ FillBits(c.src, FALSE, e) # "lossy"
          /\ FillBits(c.src, FALSE, e) = "cache" => imageLossy[c.src[2]] = "exact"
      BY <2>2 DEF FillBits, Outcomes
    <3> QED BY <2>2, <3>1, Zenon DEF SourceDiffers
  <2> QED BY <2>1, <2>2, Zenon
\* One that may be: where it differs the server knows, from what it sent or has asked.
<1>SourceKnown.
      ASSUME Clean, NEW c \in Drawings, NEW e \in Outcomes
      PROVE  LET sent == FillBits(c.src, TRUE, e)
             IN  SourceDiffers(c.src, sent) \cap c.rgn # {} =>
                    sent = "lossy" \/ (IsBitmapLossy(c.src, c.rgn) /\ sent # "lossless")
  <2> USE <1>SourceKnown
  <2> DEFINE sent == FillBits(c.src, TRUE, e)
  <2> SUFFICES ASSUME SourceDiffers(c.src, sent) \cap c.rgn # {}, sent # "lossy"
               PROVE  IsBitmapLossy(c.src, c.rgn) /\ sent # "lossless"
    BY Zenon
  <2>1. CASE c.src[1] = "surface"
    <3>1. c.src[2] \in LossySurfaces BY <2>1, LossyAssumption
    <3>2. differs[c.src[2]] \subseteq lossy[c.src[2]] BY <3>1 DEF Clean
    <3>3. differs[c.src[2]] \cap c.rgn # {} BY <2>1 DEF SourceDiffers
    <3>4. sent = "surface" BY <2>1 DEF FillBits
    <3> QED BY <2>1, <3>2, <3>3, <3>4, Zenon DEF IsBitmapLossy
  <2>2. CASE c.src[1] # "surface"
    <3>1. sent = "cache" /\ imageLossy[c.src[2]] = "lossy" BY <2>2, Zenon DEF SourceDiffers
    <3>2. c.src[1] = "image" BY <2>2, <3>1 DEF FillBits, Outcomes
    <3> QED BY <3>1, <3>2, Zenon DEF IsBitmapLossy
  <2> QED BY <2>1, <2>2, Zenon
\* A brush that is asked about, or is not there, differs nowhere.
<1>BrushExact.
      ASSUME Clean, NEW c \in Drawings, ResendAreas(c) = {}, RuleOf(c).brush \/ c.brush[1] = "none"
      PROVE  BrushDiffers(c.brush) = {}
  BY <1>BrushExact, <1>AskedClean DEF BrushDiffers
\* What a drawing makes differ is covered by the region the server then keeps, for each of
\* the kinds marshall_lossy_qxl_drawable tells apart.
<1>DrawCovered.
      ASSUME Clean, NEW c \in Drawings, ResendAreas(c) = {}, NEW e \in Outcomes,
             ~(c.kind = "opaque" /\ ~c.rop /\ IsBitmapLossy(c.src, c.rgn))
      PROVE  LET sent == FillBits(c.src, RuleOf(c).lossyOk, e)
             IN  ClientDraws(c, sent) \subseteq RegionAfter(c, sent)
  <2> USE <1>DrawCovered
  <2> DEFINE sent == FillBits(c.src, RuleOf(c).lossyOk, e)
             src == SourceDiffers(c.src, sent)
             brush == BrushDiffers(c.brush)
             dest == differs[c.s]
  <2> SUFFICES ClientDraws(c, sent) \subseteq RegionAfter(c, sent) OBVIOUS
  <2>0. /\ dest \subseteq lossy[c.s] /\ dest \subseteq LossyCells /\ c.rgn \subseteq LossyCells
        /\ c.kind \in Sourceless => c.src[1] = "none"
        /\ c.kind \in Brushless => c.brush[1] = "none"
    BY LossyAssumption DEF Clean, LossyTypeOK
  <2>1. CASE c.kind = "fill"
    <3>1. RuleOf(c).brush = TRUE /\ RuleOf(c).dest = c.rop /\ RuleOf(c).after = "exact" BY <2>1 DEF RuleOf, LossyFill, Rule
    <3>2. brush = {} BY <3>1, <1>BrushExact
    <3>3. c.rop => dest \cap c.rgn = {} BY <3>1, <1>AskedClean, Zenon
    <3>4. ClientDraws(c, sent) \subseteq (dest \ c.rgn) \cup (IF c.mask THEN dest ELSE {})
      BY <2>1, <3>2, <3>3 DEF ClientDraws
    <3>5. RegionAfter(c, sent) = RegionUpdate(lossy[c.s], c, FALSE) BY <3>1 DEF RegionAfter
    <3> HIDE DEF src, brush, dest, sent
    <3> QED BY <2>0, <3>4, <3>5 DEF RegionUpdate
  <2>2. CASE c.kind \in {"blackness", "whiteness"}
    <3>1. RuleOf(c).after = "exact" BY <2>2 DEF RuleOf, LossyBlackness, LossyWhiteness, Rule
    <3>2. ClientDraws(c, sent) \subseteq (dest \ c.rgn) \cup (IF c.mask THEN dest ELSE {})
      BY <2>2 DEF ClientDraws
    <3>3. RegionAfter(c, sent) = RegionUpdate(lossy[c.s], c, FALSE) BY <3>1 DEF RegionAfter
    <3> HIDE DEF src, brush, dest, sent
    <3> QED BY <2>0, <3>2, <3>3 DEF RegionUpdate
  <2>3. CASE c.kind \in {"rop3", "composite"}
    <3>1. /\ RuleOf(c).brush = TRUE /\ RuleOf(c).src = TRUE /\ RuleOf(c).dest = TRUE
          /\ RuleOf(c).lossyOk = FALSE /\ RuleOf(c).after = "exact"
      BY <2>3, Zenon DEF RuleOf, LossyRop3, LossyComposite, Rule
    <3>2. brush = {} /\ src \cap c.rgn = {} /\ dest \cap c.rgn = {}
      BY <3>1, <1>BrushExact, <1>SourceExact, <1>AskedClean, Zenon
    <3>3. ClientDraws(c, sent) \subseteq dest \ c.rgn
      <4>1. ClientDraws(c, sent) = (dest \ c.rgn) \cup (((src \cup brush \cup dest) \cup (IF c.mask THEN dest ELSE {})) \cap c.rgn)
        BY <2>3 DEF ClientDraws
      <4> HIDE DEF src, brush, dest
      <4> QED BY <3>2, <4>1
    <3>4. RegionAfter(c, sent) = RegionUpdate(lossy[c.s], c, FALSE) BY <3>1 DEF RegionAfter
    <3> HIDE DEF src, brush, dest, sent
    <3> QED BY <2>0, <3>3, <3>4 DEF RegionUpdate
  <2>4. CASE c.kind \in {"transparent", "blend", "inverse", "stroke", "text"}
    <3>1. /\ RuleOf(c).after = "unchanged" /\ ~RuleOf(c).lossyOk
          /\ RuleOf(c).src \/ c.kind \in Sourceless
          /\ RuleOf(c).brush \/ c.kind \in Brushless
      BY <2>4, Zenon DEF RuleOf, LossyTransparent, LossyBlend, LossyInverse, LossyStroke, LossyText, Rule, Sourceless, Brushless
    <3>2. brush = {} BY <2>0, <3>1, <1>BrushExact
    <3>3. src \cap c.rgn = {}
      <4>1. RuleOf(c).lossyOk = FALSE BY <2>4 DEF RuleOf, LossyTransparent, LossyBlend, LossyInverse, LossyStroke, LossyText, Rule
      <4> QED BY <2>0, <3>1, <4>1, <1>SourceExact, Zenon
    <3>4. ClientDraws(c, sent) \subseteq dest
      <4>1. ClientDraws(c, sent) = (dest \ c.rgn) \cup (((src \cup brush \cup dest) \cup (IF c.mask THEN dest ELSE {})) \cap c.rgn)
        BY <2>4 DEF ClientDraws
      <4> HIDE DEF src, brush, dest
      <4> QED BY <3>2, <3>3, <4>1
    <3>5. RegionAfter(c, sent) = lossy[c.s] BY <3>1 DEF RegionAfter
    <3> QED BY <2>0, <3>4, <3>5
  <2>5. CASE c.kind = "copy"
    <3>1. RuleOf(c).lossyOk = TRUE /\ RuleOf(c).after = "as source" BY <2>5, Zenon DEF RuleOf, LossyCopy, Rule
    <3> DEFINE isLossy == sent = "lossy" \/ (IsBitmapLossy(c.src, c.rgn) /\ sent # "lossless")
    <3>2. src \cap c.rgn # {} => isLossy BY <3>1, <1>SourceKnown, Zenon
    <3>3. RegionAfter(c, sent) = RegionUpdate(lossy[c.s], c, isLossy) BY <3>1, Zenon DEF RegionAfter
    <3>4. ClientDraws(c, sent) = (dest \ c.rgn) \cup ((src \cup (IF c.mask THEN dest ELSE {})) \cap c.rgn)
      BY <2>5 DEF ClientDraws
    <3> HIDE DEF isLossy, src, dest
    <3> QED BY <2>0, <3>2, <3>3, <3>4 DEF RegionUpdate
  <2>6. CASE c.kind = "opaque"
    <3>1. /\ RuleOf(c).brush = TRUE /\ RuleOf(c).src = c.rop /\ RuleOf(c).lossyOk = ~c.rop
          /\ RuleOf(c).after = "as asked or sent"
      BY <2>6, Zenon DEF RuleOf, LossyOpaque, Rule
    <3>2. brush = {} BY <3>1, <1>BrushExact, Zenon
    <3> DEFINE isLossy == sent = "lossy" \/ (c.rop /\ IsBitmapLossy(c.src, c.rgn) /\ sent # "lossless")
    <3>3. src \cap c.rgn # {} => isLossy
      <4>1. CASE c.rop
        <5>1. sent = FillBits(c.src, FALSE, e) BY <3>1, <4>1, Zenon
        <5> QED BY <3>1, <4>1, <5>1, <1>SourceExact, Zenon
      <4>2. CASE ~c.rop
        <5>1. sent = FillBits(c.src, TRUE, e) BY <3>1, <4>2, Zenon
        <5> QED BY <2>6, <4>2, <5>1, <1>SourceKnown, Zenon
      <4> QED BY <4>1, <4>2
    <3>4. RegionAfter(c, sent) = RegionUpdate(lossy[c.s], c, isLossy) BY <3>1, Zenon DEF RegionAfter, RegionUpdate
    <3>5. ClientDraws(c, sent) = (dest \ c.rgn) \cup (((src \cup brush) \cup (IF c.mask THEN dest ELSE {})) \cap c.rgn)
      BY <2>6 DEF ClientDraws
    <3> HIDE DEF isLossy, src, dest, brush
    <3> QED BY <2>0, <3>2, <3>3, <3>4, <3>5 DEF RegionUpdate
  <2>7. CASE c.kind = "alpha_blend"
    <3>1. RuleOf(c).lossyOk = TRUE /\ RuleOf(c).after = "lossy if source" BY <2>7, Zenon DEF RuleOf, LossyAlphaBlend, Rule
    <3>2. brush = {} BY <2>0, <2>7, <1>BrushExact DEF Brushless
    <3> DEFINE isLossy == sent = "lossy" \/ (IsBitmapLossy(c.src, c.rgn) /\ sent # "lossless")
    <3>3. src \cap c.rgn # {} => isLossy BY <3>1, <1>SourceKnown, Zenon
    <3>4. RegionAfter(c, sent) = IF isLossy THEN lossy[c.s] \cup c.rgn ELSE lossy[c.s] BY <3>1, Zenon DEF RegionAfter
    <3>5. ClientDraws(c, sent) = (dest \ c.rgn) \cup (((src \cup brush \cup dest) \cup (IF c.mask THEN dest ELSE {})) \cap c.rgn)
      BY <2>7 DEF ClientDraws
    <3> HIDE DEF isLossy, src, dest, brush
    <3> QED BY <2>0, <3>2, <3>3, <3>4, <3>5
  <2>8. CASE c.kind = "copy_bits"
    <3> DEFINE isLossy == \E x \in Extents(c.rgn) : x + 1 \in lossy[c.s]
    <3>1. RuleOf(c).after = "as moved" BY <2>8, Zenon DEF RuleOf, LossyCopyBits, Rule
    <3>2. Moved(dest) \cap c.rgn # {} => isLossy
      <4>1. c.rgn \subseteq Extents(c.rgn) BY <2>0, <1>ExtentsCover
      <4> QED BY <2>0, <4>1 DEF Moved
    <3>3. RegionAfter(c, sent) = RegionUpdate(lossy[c.s], c, isLossy) BY <3>1, Zenon DEF RegionAfter
    <3>4. ClientDraws(c, sent) = (dest \ c.rgn) \cup ((Moved(dest) \cup (IF c.mask THEN dest ELSE {})) \cap c.rgn)
      BY <2>8 DEF ClientDraws
    <3> HIDE DEF isLossy, dest
    <3> QED BY <2>0, <3>2, <3>3, <3>4 DEF RegionUpdate
  <2>9. c.kind \in Sourceless \cup Brushless \cup {"opaque", "rop3", "composite"} BY LossyAssumption
  <2> QED BY <2>1, <2>2, <2>3, <2>4, <2>5, <2>6, <2>7, <2>8, <2>9 DEF Sourceless, Brushless
\* The regions stay within the surface, whatever is drawn.
<1>DrawTyped.
      ASSUME LossyTypeOK, NEW c \in Drawings, NEW sent
      PROVE  RegionAfter(c, sent) \subseteq LossyCells /\ ClientDraws(c, sent) \subseteq LossyCells
  <2> USE <1>DrawTyped
  <2>0. lossy[c.s] \subseteq LossyCells /\ differs[c.s] \subseteq LossyCells /\ c.rgn \subseteq LossyCells
    BY LossyAssumption DEF LossyTypeOK
  <2>1. RuleOf(c).after \in {"exact", "as source", "as asked or sent", "lossy if source", "as moved", "unchanged"}
    <3>1. c.kind \in Sourceless \cup Brushless \cup {"opaque", "rop3", "composite"} BY LossyAssumption
    <3> QED BY <3>1, Zenon DEF RuleOf, Rule, Sourceless, Brushless, LossyFill, LossyOpaque, LossyCopy, LossyTransparent,
               LossyAlphaBlend, LossyCopyBits, LossyBlend, LossyBlackness, LossyWhiteness, LossyInverse, LossyRop3,
               LossyComposite, LossyStroke, LossyText
  <2>2. RegionAfter(c, sent) \subseteq LossyCells BY <2>0, <2>1, Zenon DEF RegionAfter, RegionUpdate
  <2>3. ClientDraws(c, sent) \subseteq LossyCells BY <2>0 DEF ClientDraws
  <2> QED BY <2>2, <2>3
\* A drawing that is sent keeps the record covering.
<1>MarshallStep.
      ASSUME LossyInductive, NEW c \in Drawings, NEW e \in Outcomes, MarshallLossy(c, e)
      PROVE  LossyInductive'
  <2> USE <1>MarshallStep
  <2> DEFINE sent == FillBits(c.src, RuleOf(c).lossyOk, e)
  <2>0. LossyTypeOK /\ LossyRegionCovers /\ c.s \in LossySurfaces BY LossyAssumption DEF LossyInductive
  <2>1. /\ lossy' = [lossy EXCEPT ![c.s] = RegionAfter(c, sent)]
        /\ differs' = [differs EXCEPT ![c.s] = ClientDraws(c, sent)]
        /\ slipped' = (slipped \/ (c.kind = "opaque" /\ ~c.rop /\ IsBitmapLossy(c.src, c.rgn)))
        /\ ResendAreas(c) = {}
    BY DEF MarshallLossy
  <2>2. RegionAfter(c, sent) \subseteq LossyCells /\ ClientDraws(c, sent) \subseteq LossyCells BY <2>0, <1>DrawTyped
  <2>3. ~slipped' => ClientDraws(c, sent) \subseteq RegionAfter(c, sent)
    <3>1. ~slipped' => Clean BY <2>0, <2>1, Zenon DEF Clean, LossyRegionCovers
    <3> QED BY <2>1, <3>1, <1>DrawCovered, Zenon
  <2> HIDE DEF sent
  <2>4. LossyTypeOK' BY <2>0, <2>1, <2>2 DEF LossyTypeOK
  <2>5. LossyRegionCovers' BY <2>0, <2>1, <2>3 DEF LossyRegionCovers, LossyTypeOK
  <2> QED BY <2>4, <2>5 DEF LossyInductive
<1> SUFFICES ASSUME LossyInductive, [LossyNext]_lossyVars PROVE LossyInductive' OBVIOUS
<1> USE DEF LossyInductive, LossyTypeOK, LossyRegionCovers
<1>1. CASE UNCHANGED lossyVars BY <1>1 DEF lossyVars
<1>2. CASE \E c \in Drawings, e \in {"lossy", "lossless", "bitmap"} : MarshallLossy(c, e)
  BY <1>2, <1>MarshallStep DEF Outcomes
<1>3. CASE \E c \in Drawings : ResendDependencies(c) BY <1>3 DEF ResendDependencies
<1>4. ASSUME NEW s \in LossySurfaces, NEW isLossy \in BOOLEAN, NEW x \in LossyCells, NEW y \in LossyCells,
             MarshallImage(s, Extents({x, y}), isLossy)
      PROVE  LossyInductive'
  <2> DEFINE area == Extents({x, y})
  <2>1. area \subseteq LossyCells BY <1>ExtentsCover
  <2>2. MarshallImage(s, area, isLossy) BY <1>4
  <2> HIDE DEF area
  <2> QED BY <2>1, <2>2 DEF MarshallImage
<1>5. CASE MigrateLossy
  <2>1. \A s \in LossySurfaces : lossy[s] \subseteq Extents(lossy[s]) /\ Extents(lossy[s]) \subseteq LossyCells
    BY <1>ExtentsCover
  <2> QED BY <1>5, <2>1 DEF MigrateLossy
<1>6. CASE \E s \in LossySurfaces : LossyCreateSurface(s) BY <1>6 DEF LossyCreateSurface
<1> QED BY <1>1, <1>2, <1>3, <1>4, <1>5, <1>6, Zenon DEF LossyNext

\* What differs at the client is in the region the server keeps for it, for any surfaces and
\* any sequence of drawings, images, resends and migrations (dcc-send.cpp), until a
\* DRAW_OPAQUE without raster operation has taken a lossy source.
THEOREM AlwaysLossyRegionCovers == LossySpec => []LossyRegionCovers
<1>1. LossyInit => LossyInductive BY Zenon DEF LossyInit, LossyInductive, LossyTypeOK, LossyRegionCovers
<1>2. LossyInductive => LossyRegionCovers BY DEF LossyInductive
<1> QED BY <1>1, <1>2, LossyStepInductive, PTL DEF LossySpec

-----------------------------------------------------------------------------
(* OpenGL scanouts and drawings *)

Items == {"scanout", "draw"}

GlRecord == [fd : Nat, cookie : Nat, msgs : Seq(Items), count : Nat, answer : Nat]

GclType == [connected : BOOLEAN, local : BOOLEAN, ongoing : BOOLEAN, waiting : BOOLEAN, migrated : BOOLEAN,
            pipe : Seq(Items), shows : Nat, todo : Nat, blind : BOOLEAN]

\* The types of the variables.
GlTypeOK ==
    /\ gl \in GlRecord
    /\ gcl \in [GlClients -> GclType]
    /\ gdraw \in Seq([fd : Nat, done : Nat])

Has(q, item) == \E i \in DOMAIN q : q[i] = item

\* A drawing that is queued is the last in its queue.
DrawLast(q) == \A i \in DOMAIN q : q[i] = "draw" => i = Len(q)

Ongoing == {c \in GlClients : gcl[c].ongoing}

\* gl_draw_async_count counts the clients that owe an answer; these were sent the
\* drawing or have it in their pipe, and nobody else has.
OngoingOwed ==
    /\ gl.count = Cardinality(Ongoing)
    /\ \A c \in GlClients :
          /\ gcl[c].ongoing => gcl[c].connected /\ gcl[c].local
          /\ gcl[c].ongoing => gcl[c].todo = IF Has(gcl[c].pipe, "draw") THEN 0 ELSE 1
          /\ ~gcl[c].ongoing => gcl[c].todo = 0 /\ ~Has(gcl[c].pipe, "draw")
          /\ DrawLast(gcl[c].pipe)

\* gl_draw_cookie is that of the last drawing, on its way to the worker or to the clients.
CookieKept ==
    /\ DrawLast(gl.msgs)
    /\ gl.cookie = NoDraw => gl.count = 0 /\ ~Has(gl.msgs, "draw")
    /\ gl.cookie # NoDraw =>
          /\ gl.cookie \in DOMAIN gdraw /\ gdraw[gl.cookie].done = 0
          /\ gl.answer = NoDraw /\ gl.fd # NoBuffer
          /\ IF gl.count = 0 THEN Has(gl.msgs, "draw") ELSE gl.msgs = <<>>
    /\ gl.answer # NoDraw => gl.answer \in DOMAIN gdraw /\ gdraw[gl.answer].done = 0
    /\ \A k \in DOMAIN gdraw :
          gdraw[k].done =< 1 /\ (gdraw[k].done = 0 => gl.answer = k \/ gl.cookie = k)

\* A client that did not come by migration shows the scanout or has yet to be told.
Informed ==
    \A c \in GlClients :
        /\ gcl[c].blind => gcl[c].migrated
        /\ gcl[c].connected /\ gcl[c].local /\ ~gcl[c].migrated /\ gl.fd # NoBuffer =>
              gcl[c].shows = gl.fd \/ Has(gcl[c].pipe, "scanout") \/ Has(gl.msgs, "scanout")

GlInductive == GlTypeOK /\ OngoingOwed /\ CookieKept /\ Informed

-----------------------------------------------------------------------------

\* An empty queue holds nothing.
LEMMA EmptyHas == ASSUME NEW x PROVE ~Has(<<>>, x) /\ DrawLast(<<>>)
BY DEF Has, DrawLast

-----------------------------------------------------------------------------

\* A client that is not there owes nothing and shows nothing.
LEMMA Away ==
  /\ AwayGcl \in GclType /\ ~AwayGcl.ongoing /\ ~AwayGcl.connected /\ AwayGcl.todo = 0 /\ ~AwayGcl.blind
  /\ ~Has(AwayGcl.pipe, "draw") /\ DrawLast(AwayGcl.pipe)
<1>1. AwayGcl.pipe = <<>> BY DEF AwayGcl
<1>2. ~Has(AwayGcl.pipe, "draw") /\ DrawLast(AwayGcl.pipe) BY <1>1, EmptyHas
<1>3. AwayGcl \in GclType BY DEF AwayGcl, GclType, NoBuffer
<1> QED BY <1>2, <1>3 DEF AwayGcl

Told == {c \in GlClients : gcl[c].connected /\ gcl[c].local}

-----------------------------------------------------------------------------

\* The invariant holds at the start, when there are no clients and no scanout.
LEMMA GlInitInductive == FiniteSizes /\ GlInit => GlInductive
<1> SUFFICES ASSUME FiniteSizes, GlInit PROVE GlInductive OBVIOUS
<1>1. GlTypeOK
  <2>1. gl \in GlRecord BY DEF GlInit, GlRecord, NoBuffer, NoDraw
  <2> QED BY <2>1, Away DEF GlInit, GlTypeOK
<1>2. gl.msgs = <<>> /\ gl.count = 0 /\ gl.cookie = NoDraw /\ gl.answer = NoDraw /\ gdraw = <<>> /\ gl.fd = NoBuffer
  BY DEF GlInit
<1>3. \A c \in GlClients : gcl[c] = AwayGcl BY DEF GlInit
<1>4. Ongoing = {} BY <1>3, Away DEF Ongoing
<1>5. OngoingOwed /\ Informed
  <2>1. Cardinality({}) = 0 BY Zenon DEF FiniteSizes
  <2> QED BY <1>2, <1>3, <1>4, <2>1, Away DEF OngoingOwed, Informed
<1>6. CookieKept BY <1>2, EmptyHas DEF CookieKept
<1> QED BY <1>1, <1>5, <1>6 DEF GlInductive

\* Every step keeps it.
LEMMA GlStepInductive == FiniteSizes /\ GlInductive /\ [GlNext]_glVars => GlInductive'
<1> SUFFICES ASSUME FiniteSizes PROVE GlInductive /\ [GlNext]_glVars => GlInductive' OBVIOUS
\* What a queue holds after an item is put at its end.
<1>AppendHas.
      ASSUME NEW q \in Seq(Items), NEW item \in Items, NEW x
      PROVE  /\ Append(q, item) \in Seq(Items)
             /\ Has(Append(q, item), x) <=> Has(q, x) \/ x = item
             /\ ~Has(q, "draw") => DrawLast(Append(q, item))
  <2> USE <1>AppendHas
  <2>1. /\ DOMAIN Append(q, item) = DOMAIN q \cup {Len(q) + 1}
        /\ Append(q, item)[Len(q) + 1] = item /\ Len(Append(q, item)) = Len(q) + 1
        /\ Append(q, item) \in Seq(Items)
    OBVIOUS
  <2>2. \A i \in DOMAIN q : Append(q, item)[i] = q[i] OBVIOUS
  <2> QED BY <2>1, <2>2 DEF Has, DrawLast
\* What a queue holds after its first item is taken.
<1>TailHas.
      ASSUME NEW q \in Seq(Items), q # <<>>, NEW x
      PROVE  /\ Tail(q) \in Seq(Items) /\ Head(q) \in Items
             /\ Has(q, x) <=> x = Head(q) \/ Has(Tail(q), x)
             /\ DrawLast(q) => DrawLast(Tail(q)) /\ (Head(q) = "draw" => Tail(q) = <<>>)
  <2> USE <1>TailHas
  <2>1. /\ Tail(q) \in Seq(Items) /\ Head(q) \in Items /\ Head(q) = q[1] /\ 1 \in DOMAIN q
        /\ Len(Tail(q)) = Len(q) - 1
    OBVIOUS
  <2>2. \A i \in DOMAIN Tail(q) : i + 1 \in DOMAIN q /\ Tail(q)[i] = q[i + 1] OBVIOUS
  <2>3. \A i \in DOMAIN q : i = 1 \/ (i - 1 \in DOMAIN Tail(q) /\ Tail(q)[i - 1] = q[i]) OBVIOUS
  <2>4. Has(q, x) <=> x = Head(q) \/ Has(Tail(q), x)
    <3>1. x = Head(q) => Has(q, x) BY <2>1 DEF Has
    <3>2. Has(Tail(q), x) => Has(q, x) BY Zenon, <2>2 DEF Has
    <3>3. Has(q, x) => x = Head(q) \/ Has(Tail(q), x) BY Zenon, <2>1, <2>3 DEF Has
    <3> QED BY <3>1, <3>2, <3>3
  <2>5. ASSUME DrawLast(q) PROVE DrawLast(Tail(q)) /\ (Head(q) = "draw" => Tail(q) = <<>>)
    <3>1. DrawLast(Tail(q)) BY <2>1, <2>2, <2>5 DEF DrawLast
    <3>2. ASSUME Head(q) = "draw" PROVE Tail(q) = <<>>
      <4>1. Len(q) = 1 BY <2>1, <2>5, <3>2 DEF DrawLast
      <4>2. Len(Tail(q)) = 0 BY <4>1, <2>1
      <4> QED BY <4>2, <2>1
    <3> QED BY <3>1, <3>2
  <2> QED BY <2>1, <2>4, <2>5
\* What is recorded of a drawing, wherever it is in the record.
<1>DrawRecord.
      ASSUME NEW S, NEW q \in Seq(S), NEW k \in DOMAIN q
      PROVE  q[k] \in S
  <2> USE <1>DrawRecord
  <2>1. DOMAIN q = 1 .. Len(q) OBVIOUS
  <2> QED BY <2>1
\* The number of clients that owe an answer, when one of them has answered or is gone, and
\* when there is none.
<1>OngoingCount.
      ASSUME NEW S \in SUBSET GlClients
      PROVE  /\ IsFiniteSet(S) /\ Cardinality(S) \in Nat
             /\ Cardinality(S) = 0 <=> S = {}
             /\ \A c \in S : Cardinality(S \ {c}) = Cardinality(S) - 1
  <2> USE <1>OngoingCount
  <2>1. IsFiniteSet(S) BY GlAssumption, Zenon DEF FiniteSizes
  <2>2. Cardinality(S) \in Nat /\ (Cardinality(S) = 0 <=> S = {}) BY <2>1, Zenon DEF FiniteSizes
  <2>3. \A c \in S : Cardinality(S \ {c}) = Cardinality(S) - 1 BY <2>1, Zenon DEF FiniteSizes
  <2> QED BY <2>1, <2>2, <2>3
\* A drawing whose last client has answered or is gone is handed to the emulator; any
\* other waits for the rest (display_channel_gl_draw_done, set_gl_draw_async_count).
<1>AnswerStep.
      ASSUME GlInductive, GlWorker, NEW c \in GlClients, gcl[c].ongoing, gl' = SetAsyncCount(gl, gl.count - 1),
             Ongoing' = Ongoing \ {c}, UNCHANGED gdraw
      PROVE  /\ CookieKept' /\ gl'.count = Cardinality(Ongoing')
             /\ gl' \in GlRecord
             /\ gl'.fd = gl.fd /\ gl'.msgs = gl.msgs
  <2> USE <1>AnswerStep
  <2>0. GlTypeOK /\ OngoingOwed /\ CookieKept /\ c \in Ongoing /\ Ongoing \in SUBSET GlClients
    BY DEF GlInductive, Ongoing
  <2>1. gl.count = Cardinality(Ongoing) /\ Cardinality(Ongoing \ {c}) = gl.count - 1 /\ gl.count \in Nat \ {0}
    BY <2>0, <1>OngoingCount DEF OngoingOwed
  <2>2. gl.cookie # NoDraw /\ gl.msgs = <<>> /\ gl.answer = NoDraw BY <2>0, <2>1 DEF CookieKept
  <2>3. /\ gl'.fd = gl.fd /\ gl'.msgs = gl.msgs /\ gl'.count = gl.count - 1
        /\ gl'.cookie = IF gl.count = 1 THEN NoDraw ELSE gl.cookie
        /\ gl'.answer = IF gl.count = 1 THEN gl.cookie ELSE NoDraw
        /\ gl' \in GlRecord
    <3>0. gl \in GlRecord BY <2>0 DEF GlTypeOK
    <3>1. CASE gl.count = 1
      <4> DEFINE h == [gl EXCEPT !.count = 0]
                 k == [h EXCEPT !.answer = h.cookie]
      <4>1. /\ h \in GlRecord
            /\ h.fd = gl.fd /\ h.msgs = gl.msgs /\ h.count = 0 /\ h.cookie = gl.cookie
        BY <3>0 DEF GlRecord
      <4>2. gl' = [k EXCEPT !.cookie = 0] BY <3>1 DEF SetAsyncCount, Complete, NoDraw
      <4> HIDE DEF h
      <4>3. /\ k \in GlRecord
            /\ k.fd = gl.fd /\ k.msgs = gl.msgs /\ k.count = 0 /\ k.answer = gl.cookie
        BY <3>0, <4>1 DEF GlRecord
      <4> HIDE DEF k
      <4>4. /\ gl' \in GlRecord
            /\ gl'.fd = gl.fd /\ gl'.msgs = gl.msgs /\ gl'.count = 0 /\ gl'.answer = gl.cookie /\ gl'.cookie = 0
        BY <4>2, <4>3 DEF GlRecord
      <4> QED BY <3>1, <4>4 DEF NoDraw
    <3>2. CASE gl.count # 1
      <4>1. gl' = [gl EXCEPT !.count = gl.count - 1] BY <3>0, <2>1, <3>2 DEF SetAsyncCount, GlRecord
      <4> QED BY <3>0, <2>1, <2>2, <3>2, <4>1 DEF GlRecord
    <3> QED BY <3>1, <3>2
  <2>4. CookieKept'
    <3>1. DrawLast(gl'.msgs) /\ ~Has(gl'.msgs, "draw") BY <2>2, <2>3, EmptyHas
    <3>2. CASE gl.count = 1
      BY <2>0, <2>1, <2>2, <2>3, <3>1, <3>2 DEF CookieKept
    <3>3. CASE gl.count # 1
      BY <2>0, <2>1, <2>2, <2>3, <3>1, <3>3 DEF CookieKept
    <3> QED BY <3>2, <3>3
  <2> QED BY <2>1, <2>3, <2>4
\* A new scanout: no drawing is on its way, and every client hears of it.
<1>ScanoutStep.
      ASSUME GlInductive, NEW fd \in Buffers \cup {NoBuffer}, QxlGlScanout(fd)
      PROVE  GlInductive'
  <2> USE <1>ScanoutStep
  <2>0. GlTypeOK /\ OngoingOwed /\ CookieKept /\ Informed /\ gl \in GlRecord /\ fd \in Nat /\ gl.msgs \in Seq(Items)
    BY GlAssumption DEF GlInductive, GlTypeOK, GlRecord, NoBuffer
  <2>1. gl.cookie = NoDraw /\ ~Has(gl.msgs, "draw") /\ UNCHANGED <<gcl, gdraw>>
    BY <2>0 DEF QxlGlScanout, CookieKept
  <2>2. /\ gl' \in GlRecord /\ gl'.cookie = gl.cookie /\ gl'.count = gl.count /\ gl'.answer = gl.answer
        /\ gl'.fd = fd /\ gl'.msgs = Append(gl.msgs, "scanout")
    <3>1. Append(gl.msgs, "scanout") \in Seq(Items) BY <2>0 DEF Items
    <3>2. gl' = [gl EXCEPT !.fd = fd, !.msgs = Append(gl.msgs, "scanout")] BY DEF QxlGlScanout
    <3> QED BY <2>0, <3>1, <3>2, Zenon DEF GlRecord
  <2>3. ~Has(gl'.msgs, "draw") /\ Has(gl'.msgs, "scanout") /\ DrawLast(gl'.msgs)
    BY <2>0, <2>1, <2>2, <1>AppendHas DEF Items
  <2>4. GlTypeOK' BY <2>0, <2>1, <2>2 DEF GlTypeOK
  <2>5. OngoingOwed' BY <2>0, <2>1, <2>2 DEF OngoingOwed, Ongoing
  <2>6. CookieKept' BY <2>0, <2>1, <2>2, <2>3 DEF CookieKept
  <2>7. Informed' BY <2>0, <2>1, <2>3 DEF Informed
  <2> QED BY <2>4, <2>5, <2>6, <2>7 DEF GlInductive
\* A drawing begins: all earlier ones are complete, so it is the only one.
<1>DrawStep.
      ASSUME GlInductive, QxlGlDraw
      PROVE  GlInductive'
  <2> USE <1>DrawStep
  <2>0. GlTypeOK /\ OngoingOwed /\ CookieKept /\ Informed /\ gl \in GlRecord /\ gl.msgs \in Seq(Items)
    BY DEF GlInductive, GlTypeOK, GlRecord
  <2>1. gl.cookie = NoDraw /\ gl.answer = NoDraw /\ ~Has(gl.msgs, "draw") /\ gl.count = 0 /\ gcl' = gcl
    BY <2>0 DEF QxlGlDraw, CookieKept
  <2> DEFINE n == Len(gdraw) + 1
  <2>2. ASSUME NEW d \in [fd : Nat, done : 0..1], gdraw' = Append(gdraw, d)
        PROVE  /\ gdraw' \in Seq([fd : Nat, done : Nat]) /\ n \in Nat \ {0} /\ n \in DOMAIN gdraw' /\ gdraw'[n] = d
               /\ \A k \in DOMAIN gdraw' : k = n \/ (k \in DOMAIN gdraw /\ gdraw'[k] = gdraw[k])
               /\ \A k \in DOMAIN gdraw : gdraw[k].done = 1
    <3>1. gdraw \in Seq([fd : Nat, done : Nat]) /\ d \in [fd : Nat, done : Nat] BY <2>0 DEF GlTypeOK
    <3>2. \A k \in DOMAIN gdraw : gdraw[k].done = 1
      <4>1. \A k \in DOMAIN gdraw : gdraw[k].done > 0 BY Zenon DEF QxlGlDraw
      <4>2. \A k \in DOMAIN gdraw : gdraw[k].done =< 1 BY Zenon, <2>0 DEF CookieKept
      <4>3. ASSUME NEW k \in DOMAIN gdraw PROVE gdraw[k].done \in Nat
        <5>1. gdraw[k] \in [fd : Nat, done : Nat] BY <3>1, <1>DrawRecord, Zenon
        <5> QED BY <5>1
      <4> QED BY <4>1, <4>2, <4>3
    <3> QED BY <2>2, <3>1, <3>2
  <2>3. CASE gl.fd = NoBuffer
    <3>1. gl' = gl /\ gdraw' = Append(gdraw, [fd |-> NoBuffer, done |-> 1]) BY <2>3 DEF QxlGlDraw
    <3>2. [fd |-> NoBuffer, done |-> 1] \in [fd : Nat, done : 0..1] BY DEF NoBuffer
    <3>3. GlTypeOK' BY <2>0, <2>1, <2>2, <3>1, <3>2 DEF GlTypeOK
    <3>4. CookieKept' BY <2>0, <2>1, <2>2, <3>1, <3>2 DEF CookieKept
    <3>5. OngoingOwed' /\ Informed' BY <2>0, <2>1, <3>1 DEF OngoingOwed, Ongoing, Informed
    <3> QED BY <3>3, <3>4, <3>5 DEF GlInductive
  <2>4. CASE gl.fd # NoBuffer
    <3>1. /\ gdraw' = Append(gdraw, [fd |-> gl.fd, done |-> 0])
          /\ gl' = [gl EXCEPT !.cookie = n, !.msgs = Append(@, "draw")]
      BY <2>1, <2>4 DEF QxlGlDraw
    <3>2. [fd |-> gl.fd, done |-> 0] \in [fd : Nat, done : 0..1] BY <2>0 DEF GlRecord
    <3>3. n \in Nat \ {0} /\ "draw" \in Items /\ Append(gl.msgs, "draw") \in Seq(Items)
      BY <2>0, <2>2, <3>1, <3>2 DEF Items
    <3>4. /\ gl' \in GlRecord /\ gl'.cookie = n /\ gl'.count = 0 /\ gl'.answer = NoDraw
          /\ gl'.fd = gl.fd /\ gl'.msgs = Append(gl.msgs, "draw")
      BY <2>0, <2>1, <3>1, <3>3, Zenon DEF GlRecord
    <3>5. /\ Has(gl'.msgs, "draw") /\ DrawLast(gl'.msgs) /\ (Has(gl.msgs, "scanout") => Has(gl'.msgs, "scanout"))
      BY <2>0, <2>1, <3>4, <1>AppendHas DEF Items
    <3>6. GlTypeOK' BY <2>0, <2>1, <2>2, <3>1, <3>2, <3>4 DEF GlTypeOK
    <3>7. CookieKept' BY <2>0, <2>1, <2>2, <2>4, <3>1, <3>2, <3>4, <3>5 DEF CookieKept, NoDraw
    <3>8. OngoingOwed' /\ Informed' BY <2>0, <2>1, <3>4, <3>5 DEF OngoingOwed, Ongoing, Informed
    <3> QED BY <3>6, <3>7, <3>8 DEF GlInductive
  <2> QED BY <2>3, <2>4
\* The emulator's callback: the drawing is complete.
<1>CompleteStep.
      ASSUME GlInductive, AsyncComplete
      PROVE  GlInductive'
  <2> USE <1>CompleteStep
  <2>0. GlTypeOK /\ OngoingOwed /\ CookieKept /\ Informed /\ gl \in GlRecord BY DEF GlInductive, GlTypeOK
  <2>1. /\ gl.answer # NoDraw /\ gl.cookie = NoDraw /\ gl.answer \in DOMAIN gdraw /\ gdraw[gl.answer].done = 0
        /\ gcl' = gcl /\ gl' = [gl EXCEPT !.answer = NoDraw]
        /\ gdraw' = [gdraw EXCEPT ![gl.answer].done = @ + 1]
    BY <2>0 DEF AsyncComplete, CookieKept
  <2>2. /\ gl' \in GlRecord /\ gl'.fd = gl.fd /\ gl'.cookie = gl.cookie /\ gl'.count = gl.count
        /\ gl'.msgs = gl.msgs /\ gl'.answer = NoDraw
    BY <2>0, <2>1 DEF GlRecord, NoDraw
  <2>3. /\ gdraw' \in Seq([fd : Nat, done : Nat]) /\ DOMAIN gdraw' = DOMAIN gdraw /\ gdraw'[gl.answer].done = 1
        /\ \A k \in DOMAIN gdraw : k # gl.answer => gdraw'[k] = gdraw[k]
    <3>1. gdraw \in Seq([fd : Nat, done : Nat]) BY <2>0 DEF GlTypeOK
    <3>2. gdraw[gl.answer] \in [fd : Nat, done : Nat] BY <2>1, <3>1, <1>DrawRecord, Zenon
    <3>3. gdraw' = [gdraw EXCEPT ![gl.answer] = [gdraw[gl.answer] EXCEPT !.done = 1]] BY <2>1
    <3>4. /\ [gdraw[gl.answer] EXCEPT !.done = 1] \in [fd : Nat, done : Nat]
          /\ [gdraw[gl.answer] EXCEPT !.done = 1].done = 1
      BY <3>2
    <3> QED BY <2>1, <3>1, <3>3, <3>4
  <2>4. GlTypeOK' BY <2>0, <2>1, <2>2, <2>3 DEF GlTypeOK
  <2>5. OngoingOwed' /\ Informed' BY <2>0, <2>1, <2>2 DEF OngoingOwed, Ongoing, Informed
  <2>6. CookieKept' BY <2>0, <2>1, <2>2, <2>3 DEF CookieKept
  <2> QED BY <2>4, <2>5, <2>6 DEF GlInductive
\* What a step that changes one client only does to OngoingOwed and Informed.
<1>OneClient.
      ASSUME GlInductive, NEW c \in GlClients, NEW r \in GclType, gcl' = [gcl EXCEPT ![c] = r],
             r.ongoing => r.connected /\ r.local,
             r.ongoing => r.todo = IF Has(r.pipe, "draw") THEN 0 ELSE 1,
             ~r.ongoing => r.todo = 0 /\ ~Has(r.pipe, "draw"),
             DrawLast(r.pipe), r.blind => r.migrated,
             gl'.fd = gl.fd, gl'.msgs = gl.msgs, gl'.count = Cardinality(Ongoing'),
             r.connected /\ r.local /\ ~r.migrated /\ gl.fd # NoBuffer =>
                 r.shows = gl.fd \/ Has(r.pipe, "scanout") \/ Has(gl.msgs, "scanout")
      PROVE  OngoingOwed' /\ Informed' /\ gcl' \in [GlClients -> GclType]
  <2> USE <1>OneClient
  <2>0. GlTypeOK /\ OngoingOwed /\ Informed /\ gcl \in [GlClients -> GclType] BY DEF GlInductive, GlTypeOK
  <2>1. gcl' \in [GlClients -> GclType] /\ gcl'[c] = r /\ \A d \in GlClients : d # c => gcl'[d] = gcl[d] BY <2>0
  <2>2. OngoingOwed' BY <2>0, <2>1 DEF OngoingOwed
  <2>3. Informed' BY <2>0, <2>1 DEF Informed
  <2> QED BY <2>1, <2>2, <2>3
\* The clients that owe an answer, after one of them has changed.
<1>OngoingAfter.
      ASSUME GlTypeOK, NEW c \in GlClients, NEW r \in GclType, gcl' = [gcl EXCEPT ![c] = r]
      PROVE  /\ (r.ongoing <=> gcl[c].ongoing) => Ongoing' = Ongoing
             /\ ~r.ongoing => Ongoing' = Ongoing \ {c}
  <2> USE <1>OngoingAfter
  <2>1. gcl'[c] = r /\ \A d \in GlClients : d # c => gcl'[d] = gcl[d] BY DEF GlTypeOK
  <2> QED BY <2>1 DEF Ongoing
\* A client that leaves is taken off the count (dcc_stop).
<1>DisconnectStep.
      ASSUME GlInductive, NEW c \in GlClients, GlDisconnect(c)
      PROVE  GlInductive'
  <2> USE <1>DisconnectStep
  <2>0. GlTypeOK /\ OngoingOwed /\ CookieKept /\ gl \in GlRecord /\ gdraw' = gdraw /\ GlWorker
    BY DEF GlInductive, GlTypeOK, GlDisconnect
  <2>1. gcl' = [gcl EXCEPT ![c] = AwayGcl] BY DEF GlDisconnect
  <2>2. Ongoing' = Ongoing \ {c} /\ (~gcl[c].ongoing => Ongoing' = Ongoing) BY <2>0, <2>1, Away, <1>OngoingAfter, Zenon
  <2>3. CookieKept' /\ gl'.count = Cardinality(Ongoing') /\ gl' \in GlRecord /\ gl'.fd = gl.fd /\ gl'.msgs = gl.msgs
    <3>1. CASE gcl[c].ongoing
      <4>1. gl' = SetAsyncCount(gl, gl.count - 1) BY <3>1 DEF GlDisconnect, DccStop
      <4> QED BY <2>0, <2>2, <3>1, <4>1, <1>AnswerStep
    <3>2. CASE ~gcl[c].ongoing
      <4>1. gl' = gl BY <3>2 DEF GlDisconnect, DccStop
      <4> QED BY <2>0, <2>2, <3>2, <4>1, Zenon DEF CookieKept, OngoingOwed
    <3> QED BY <3>1, <3>2
  <2>4. OngoingOwed' /\ Informed' /\ gcl' \in [GlClients -> GclType] BY <2>1, <2>3, Away, <1>OneClient, Zenon
  <2> QED BY <2>0, <2>3, <2>4 DEF GlInductive, GlTypeOK
\* An answer is taken off the count; one that is not expected closes the client.
<1>DrawDoneStep.
      ASSUME GlInductive, NEW c \in GlClients, NEW again \in BOOLEAN, HandleDrawDone(c, again)
      PROVE  GlInductive'
  <2> USE <1>DrawDoneStep
  <2>0. GlTypeOK /\ OngoingOwed /\ CookieKept /\ Informed /\ gl \in GlRecord /\ gdraw' = gdraw /\ GlWorker /\ gcl[c] \in GclType
    BY DEF GlInductive, GlTypeOK, HandleDrawDone
  <2>1. CASE gcl[c].ongoing
    <3> DEFINE r == [gcl[c] EXCEPT !.ongoing = FALSE, !.todo = gcl[c].todo - 1]
    <3>1. gcl' = [gcl EXCEPT ![c] = r] /\ gl' = SetAsyncCount(gl, gl.count - 1)
      BY <2>1, <2>0 DEF HandleDrawDone, DccStop, GlTypeOK
    <3>2. gcl[c].todo = 1 /\ ~Has(gcl[c].pipe, "draw") /\ DrawLast(gcl[c].pipe)
      <4>1. gcl[c].todo > 0 BY <2>1 DEF HandleDrawDone
      <4> QED BY <2>0, <2>1, <4>1 DEF OngoingOwed
    <3>3. /\ r \in GclType /\ ~r.ongoing /\ r.todo = 0 /\ r.pipe = gcl[c].pipe /\ r.blind = gcl[c].blind
          /\ r.connected = gcl[c].connected /\ r.local = gcl[c].local /\ r.migrated = gcl[c].migrated
          /\ r.shows = gcl[c].shows
      <4> DEFINE h == [gcl[c] EXCEPT !.ongoing = FALSE]
      <4>1. /\ h \in GclType /\ ~h.ongoing /\ h.todo = 1 /\ h.pipe = gcl[c].pipe /\ h.blind = gcl[c].blind
            /\ h.connected = gcl[c].connected /\ h.local = gcl[c].local /\ h.migrated = gcl[c].migrated
            /\ h.shows = gcl[c].shows
        BY <2>0, <3>2, Zenon DEF GclType
      <4>2. r = [h EXCEPT !.todo = 0] BY <3>2
      <4> HIDE DEF h, r
      <4> QED BY <4>1, <4>2 DEF GclType
    <3> HIDE DEF r
    <3>4. Ongoing' = Ongoing \ {c} BY <2>0, <3>1, <3>3, <1>OngoingAfter, Zenon
    <3>5. CookieKept' /\ gl'.count = Cardinality(Ongoing') /\ gl' \in GlRecord /\ gl'.fd = gl.fd /\ gl'.msgs = gl.msgs
      BY <2>0, <2>1, <3>1, <3>4, <1>AnswerStep
    <3>6. /\ r.blind => r.migrated
          /\ r.connected /\ r.local /\ ~r.migrated /\ gl.fd # NoBuffer =>
               r.shows = gl.fd \/ Has(r.pipe, "scanout") \/ Has(gl.msgs, "scanout")
      BY <2>0, <3>3 DEF Informed
    <3>7. OngoingOwed' /\ Informed' /\ gcl' \in [GlClients -> GclType]
      BY <3>1, <3>2, <3>3, <3>5, <3>6, <1>OneClient, Zenon
    <3> QED BY <2>0, <3>5, <3>7 DEF GlInductive, GlTypeOK
  <2>2. CASE ~gcl[c].ongoing
    <3>1. gcl' = [gcl EXCEPT ![c] = AwayGcl] /\ gl' = gl BY <2>2 DEF HandleDrawDone, DccStop
    <3>2. Ongoing' = Ongoing BY <2>0, <2>2, <3>1, Away, <1>OngoingAfter, Zenon
    <3>3. CookieKept' /\ gl'.count = Cardinality(Ongoing') BY <2>0, <3>1, <3>2 DEF CookieKept, OngoingOwed
    <3>4. OngoingOwed' /\ Informed' /\ gcl' \in [GlClients -> GclType] BY <3>1, <3>3, Away, <1>OneClient, Zenon
    <3> QED BY <2>0, <3>1, <3>3, <3>4 DEF GlInductive, GlTypeOK
  <2> QED BY <2>1, <2>2
\* A client that comes is sent the scanout, unless it comes by a migration.
<1>ConnectStep.
      ASSUME GlInductive, NEW c \in GlClients, NEW local \in BOOLEAN, NEW migrated \in BOOLEAN,
             GlConnect(c, local, migrated)
      PROVE  GlInductive'
  <2> USE <1>ConnectStep
  <2>0. GlTypeOK /\ OngoingOwed /\ CookieKept /\ gl' = gl /\ gdraw' = gdraw /\ ~gcl[c].connected
    BY DEF GlInductive, GlConnect
  <2> DEFINE q == IF local /\ ~migrated THEN <<"scanout">> ELSE <<>>
             r == [AwayGcl EXCEPT !.connected = TRUE, !.local = local, !.waiting = migrated, !.migrated = migrated,
                                  !.pipe = q]
  <2>1. gcl' = [gcl EXCEPT ![c] = r] BY DEF GlConnect
  <2>2. q \in Seq(Items) /\ ~Has(q, "draw") /\ DrawLast(q) /\ (local /\ ~migrated => Has(q, "scanout"))
    <3>1. CASE local /\ ~migrated
      <4>1. q = <<"scanout">> BY <3>1
      <4> HIDE DEF q
      <4>2. DOMAIN q = {1} /\ q[1] = "scanout" /\ Len(q) = 1 /\ q \in Seq(Items) BY <4>1 DEF Items
      <4> QED BY <4>2 DEF Has, DrawLast
    <3>2. CASE ~(local /\ ~migrated)
      <4>1. q = <<>> BY <3>2
      <4> QED BY <3>2, <4>1, EmptyHas
    <3> QED BY <3>1, <3>2
  <2> HIDE DEF q
  <2>3. /\ r \in GclType /\ ~r.ongoing /\ r.todo = 0 /\ ~r.blind /\ r.pipe = q
        /\ r.local = local /\ r.migrated = migrated
    BY <2>2, Zenon DEF AwayGcl, GclType, NoBuffer
  <2> HIDE DEF r
  <2>4. ~gcl[c].ongoing BY <2>0 DEF OngoingOwed
  <2>5. Ongoing' = Ongoing BY <2>0, <2>1, <2>3, <2>4, <1>OngoingAfter, Zenon
  <2>6. CookieKept' /\ gl'.count = Cardinality(Ongoing') BY <2>0, <2>5 DEF CookieKept, OngoingOwed
  <2>7. OngoingOwed' /\ Informed' /\ gcl' \in [GlClients -> GclType]
    BY <2>0, <2>1, <2>2, <2>3, <2>6, <1>OneClient, Zenon
  <2> QED BY <2>0, <2>6, <2>7 DEF GlInductive, GlTypeOK
\* The migration data of a client lets its pipe move, nothing else.
<1>MigrateStep.
      ASSUME GlInductive, NEW c \in GlClients, GlMigrateData(c)
      PROVE  GlInductive'
  <2> USE <1>MigrateStep
  <2>0. /\ GlTypeOK /\ OngoingOwed /\ CookieKept /\ Informed /\ gl' = gl /\ gdraw' = gdraw
        /\ gcl[c] \in GclType /\ gcl' = [gcl EXCEPT ![c] = [gcl[c] EXCEPT !.waiting = FALSE]]
    BY DEF GlInductive, GlTypeOK, GlMigrateData
  <2> DEFINE r == [gcl[c] EXCEPT !.waiting = FALSE]
  <2>1. gcl' = [gcl EXCEPT ![c] = r] BY <2>0
  <2>2. /\ r \in GclType /\ r.ongoing = gcl[c].ongoing /\ r.todo = gcl[c].todo /\ r.blind = gcl[c].blind
        /\ r.pipe = gcl[c].pipe /\ r.local = gcl[c].local /\ r.migrated = gcl[c].migrated
        /\ r.connected = gcl[c].connected /\ r.shows = gcl[c].shows
    BY <2>0, Zenon DEF GclType
  <2> HIDE DEF r
  <2>3. Ongoing' = Ongoing BY <2>0, <2>1, <2>2, <1>OngoingAfter, Zenon
  <2>4. CookieKept' /\ gl'.count = Cardinality(Ongoing') BY <2>0, <2>3 DEF CookieKept, OngoingOwed
  <2>5. /\ r.ongoing => r.connected /\ r.local
        /\ r.ongoing => r.todo = IF Has(r.pipe, "draw") THEN 0 ELSE 1
        /\ ~r.ongoing => r.todo = 0 /\ ~Has(r.pipe, "draw")
        /\ DrawLast(r.pipe)
    BY <2>0, <2>2 DEF OngoingOwed
  <2>6. /\ r.blind => r.migrated
        /\ r.connected /\ r.local /\ ~r.migrated /\ gl.fd # NoBuffer =>
             r.shows = gl.fd \/ Has(r.pipe, "scanout") \/ Has(gl.msgs, "scanout")
    BY <2>0, <2>2 DEF Informed
  <2>7. OngoingOwed' /\ Informed' /\ gcl' \in [GlClients -> GclType]
    BY <2>0, <2>1, <2>2, <2>4, <2>5, <2>6, <1>OneClient, Zenon
  <2> QED BY <2>0, <2>4, <2>7 DEF GlInductive, GlTypeOK
\* A drawing in a pipe: the client owes the answer, and has nothing else to be sent; unless
\* it came by a migration it shows the buffer by now.
<1>DrawAtHead.
      ASSUME GlInductive, NEW c \in GlClients, gcl[c].pipe # <<>>, Head(gcl[c].pipe) = "draw"
      PROVE  /\ gcl[c].ongoing /\ Tail(gcl[c].pipe) = <<>> /\ gcl[c].todo = 0
             /\ ~gcl[c].migrated => gcl[c].shows = gl.fd
  <2> USE <1>DrawAtHead
  <2>0. GlTypeOK /\ OngoingOwed /\ CookieKept /\ Informed /\ gl \in GlRecord /\ gcl[c] \in GclType
    BY DEF GlInductive, GlTypeOK
  <2>1. gcl[c].pipe \in Seq(Items) /\ gl.count \in Nat BY <2>0 DEF GclType, GlRecord
  <2>2. Has(gcl[c].pipe, "draw") BY <2>1, <1>TailHas
  <2>3. gcl[c].ongoing /\ gcl[c].todo = 0 /\ gcl[c].connected /\ gcl[c].local /\ DrawLast(gcl[c].pipe)
    BY <2>0, <2>2 DEF OngoingOwed
  <2>4. Tail(gcl[c].pipe) = <<>> BY <2>1, <2>3, <1>TailHas, Zenon
  <2>5. gl.count # 0
    <3>1. c \in Ongoing /\ Ongoing \in SUBSET GlClients BY <2>3 DEF Ongoing
    <3> QED BY <2>0, <3>1, <1>OngoingCount DEF OngoingOwed
  <2>6. gl.fd # NoBuffer /\ gl.msgs = <<>> BY <2>0, <2>5 DEF CookieKept
  <2>7. ~Has(gcl[c].pipe, "scanout") /\ ~Has(gl.msgs, "scanout")
    <3>1. Has(gcl[c].pipe, "scanout") <=> "scanout" = Head(gcl[c].pipe) \/ Has(<<>>, "scanout")
      BY <2>1, <2>4, <1>TailHas, Zenon
    <3>2. "scanout" # "draw" OBVIOUS
    <3> QED BY <2>6, <3>1, <3>2, EmptyHas
  <2> QED BY <2>0, <2>3, <2>4, <2>6, <2>7 DEF Informed
\* The head of a pipe is sent: a scanout is read when it is sent, so it tells the client of
\* the buffer of the moment, and a drawing that follows is in that buffer.
<1>SendStep.
      ASSUME GlInductive, NEW c \in GlClients, GlSend(c)
      PROVE  GlInductive'
  <2> USE <1>SendStep
  <2>0. /\ GlTypeOK /\ OngoingOwed /\ CookieKept /\ Informed /\ gl' = gl /\ gdraw' = gdraw /\ gl \in GlRecord
        /\ gcl[c] \in GclType /\ gcl[c].pipe # <<>> /\ gcl[c].pipe \in Seq(Items)
    BY DEF GlInductive, GlTypeOK, GlSend, GclType
  <2> DEFINE p == gcl[c].pipe
             g == [gcl[c] EXCEPT !.pipe = Tail(p)]
  <2>1. /\ g \in GclType /\ g.pipe = Tail(p) /\ g.ongoing = gcl[c].ongoing /\ g.todo = gcl[c].todo
        /\ g.blind = gcl[c].blind /\ g.local = gcl[c].local /\ g.migrated = gcl[c].migrated
        /\ g.connected = gcl[c].connected /\ g.shows = gcl[c].shows
    <3>1. Tail(p) \in Seq(Items) BY <2>0, <1>TailHas
    <3> QED BY <2>0, <3>1, Zenon DEF GclType
  <2>2. PICK r : /\ gcl' = [gcl EXCEPT ![c] = r]
                 /\ r = IF Head(p) = "draw"
                        THEN [g EXCEPT !.todo = g.todo + 1, !.blind = g.blind \/ g.shows # gl.fd]
                        ELSE IF gl.fd = NoBuffer THEN g ELSE [g EXCEPT !.shows = gl.fd]
    BY Zenon DEF GlSend
  <2> HIDE DEF g
  <2>3. /\ r \in GclType /\ r.pipe = Tail(p) /\ (r.ongoing <=> gcl[c].ongoing) /\ r.local = gcl[c].local
        /\ r.migrated = gcl[c].migrated /\ r.connected = gcl[c].connected
        /\ r.todo = IF Head(p) = "draw" THEN 1 ELSE gcl[c].todo
        /\ r.blind => gcl[c].blind \/ (Head(p) = "draw" /\ gcl[c].shows # gl.fd)
        /\ r.shows = IF Head(p) = "draw" \/ gl.fd = NoBuffer THEN gcl[c].shows ELSE gl.fd
    <3>1. CASE Head(p) = "draw"
      <4> DEFINE h == [g EXCEPT !.todo = 1]
                 b == g.blind \/ g.shows # gl.fd
      <4>1. g.todo = 0 BY <2>0, <2>1, <3>1, <1>DrawAtHead
      <4>2. r = [h EXCEPT !.blind = b] BY <2>2, <3>1, <4>1
      <4>3. b \in BOOLEAN BY <2>1 DEF GclType
      <4>4. /\ h \in GclType /\ h.pipe = g.pipe /\ h.ongoing = g.ongoing /\ h.local = g.local
            /\ h.migrated = g.migrated /\ h.connected = g.connected /\ h.todo = 1 /\ h.shows = g.shows
        BY <2>1 DEF GclType
      <4> HIDE DEF h, b
      <4>5. /\ r \in GclType /\ r.pipe = h.pipe /\ r.ongoing = h.ongoing /\ r.local = h.local
            /\ r.migrated = h.migrated /\ r.connected = h.connected /\ r.todo = h.todo /\ r.shows = h.shows
            /\ r.blind = b
        BY <4>2, <4>3, <4>4 DEF GclType
      <4>6. b => gcl[c].blind \/ gcl[c].shows # gl.fd BY <2>1 DEF b
      <4> QED BY <2>1, <3>1, <4>4, <4>5, <4>6
    <3>2. CASE Head(p) # "draw" /\ gl.fd = NoBuffer BY <2>1, <2>2, <3>2
    <3>3. CASE Head(p) # "draw" /\ gl.fd # NoBuffer
      <4>1. r = [g EXCEPT !.shows = gl.fd] BY <2>2, <3>3
      <4>2. gl.fd \in Nat BY <2>0 DEF GlRecord
      <4>3. /\ r \in GclType /\ r.pipe = g.pipe /\ r.ongoing = g.ongoing /\ r.local = g.local
            /\ r.migrated = g.migrated /\ r.connected = g.connected /\ r.todo = g.todo /\ r.shows = gl.fd
            /\ r.blind = g.blind
        BY <2>1, <4>1, <4>2 DEF GclType
      <4> QED BY <2>1, <3>3, <4>3
    <3> QED BY <3>1, <3>2, <3>3
  <2>4. Ongoing' = Ongoing BY <2>0, <2>2, <2>3, <1>OngoingAfter, Zenon
  <2>5. CookieKept' /\ gl'.count = Cardinality(Ongoing') BY <2>0, <2>4 DEF CookieKept, OngoingOwed
  <2>6. /\ \A x : Has(p, x) <=> x = Head(p) \/ Has(Tail(p), x)
        /\ DrawLast(p) /\ DrawLast(Tail(p))
    BY <2>0, <1>TailHas DEF OngoingOwed
  <2>7. /\ r.ongoing => r.connected /\ r.local
        /\ r.ongoing => r.todo = IF Has(r.pipe, "draw") THEN 0 ELSE 1
        /\ ~r.ongoing => r.todo = 0 /\ ~Has(r.pipe, "draw")
        /\ DrawLast(r.pipe)
    <3>1. CASE Head(p) = "draw"
      <4>1. gcl[c].ongoing /\ ~Has(Tail(p), "draw") BY <2>0, <3>1, <1>DrawAtHead, EmptyHas, Zenon
      <4> QED BY <2>0, <2>3, <2>6, <3>1, <4>1 DEF OngoingOwed
    <3>2. CASE Head(p) # "draw" BY <2>0, <2>3, <2>6, <3>2 DEF OngoingOwed
    <3> QED BY <3>1, <3>2
  <2>8. /\ r.blind => r.migrated
        /\ r.connected /\ r.local /\ ~r.migrated /\ gl.fd # NoBuffer =>
             r.shows = gl.fd \/ Has(r.pipe, "scanout") \/ Has(gl.msgs, "scanout")
    <3>1. CASE Head(p) = "draw"
      <4>1. ~gcl[c].migrated => gcl[c].shows = gl.fd BY <2>0, <3>1, <1>DrawAtHead
      <4> QED BY <2>0, <2>3, <3>1, <4>1 DEF Informed
    <3>2. CASE Head(p) # "draw" BY <2>0, <2>3, <3>2 DEF Informed
    <3> QED BY <3>1, <3>2
  <2>9. OngoingOwed' /\ Informed' /\ gcl' \in [GlClients -> GclType]
    BY <2>0, <2>2, <2>3, <2>5, <2>7, <2>8, <1>OneClient, Zenon
  <2> QED BY <2>0, <2>5, <2>9 DEF GlInductive, GlTypeOK
\* What pipes_new_add does to a client while no drawing is on its way.
<1>PipesStep.
      ASSUME GlTypeOK, NEW item \in Items, gcl' = PipesNewAdd(item), NEW c \in GlClients,
             ~gcl[c].ongoing, ~Has(gcl[c].pipe, "draw"), gcl[c].todo = 0, DrawLast(gcl[c].pipe)
      PROVE  /\ gcl'[c] \in GclType
             /\ gcl'[c].ongoing <=> item = "draw" /\ c \in Told
             /\ gcl'[c].ongoing => gcl'[c].connected /\ gcl'[c].local
             /\ gcl'[c].todo = 0 /\ DrawLast(gcl'[c].pipe)
             /\ Has(gcl'[c].pipe, "draw") <=> gcl'[c].ongoing
             /\ c \notin Told => gcl'[c] = gcl[c] \/ gcl'[c] = AwayGcl
             /\ c \in Told => /\ gcl'[c].blind = gcl[c].blind /\ gcl'[c].migrated = gcl[c].migrated
                              /\ gcl'[c].shows = gcl[c].shows
                              /\ Has(gcl[c].pipe, "scanout") \/ item = "scanout" => Has(gcl'[c].pipe, "scanout")
  <2> USE <1>PipesStep
  <2>0. gcl[c] \in GclType /\ gcl[c].pipe \in Seq(Items) BY DEF GlTypeOK, GclType
  <2>1. CASE c \in Told
    <3> DEFINE p == Append(gcl[c].pipe, item)
               h == [gcl[c] EXCEPT !.pipe = p]
               o == gcl[c].ongoing \/ item = "draw"
    <3>1. gcl'[c] = [h EXCEPT !.ongoing = o] BY <2>1, Zenon DEF Told, PipesNewAdd
    <3>2. p \in Seq(Items) /\ DrawLast(p) /\ \A x : Has(p, x) <=> Has(gcl[c].pipe, x) \/ x = item
      BY <2>0, <1>AppendHas
    <3>3. o \in BOOLEAN /\ (o <=> item = "draw") OBVIOUS
    <3> HIDE DEF p, o
    <3>4. /\ h \in GclType /\ h.pipe = p /\ h.todo = 0 /\ h.connected = gcl[c].connected /\ h.local = gcl[c].local
          /\ h.blind = gcl[c].blind /\ h.migrated = gcl[c].migrated /\ h.shows = gcl[c].shows
      BY <2>0, <3>2 DEF GclType
    <3> HIDE DEF h
    <3>5. /\ gcl'[c] \in GclType /\ gcl'[c].pipe = p /\ gcl'[c].todo = 0 /\ gcl'[c].ongoing = o
          /\ gcl'[c].connected = gcl[c].connected /\ gcl'[c].local = gcl[c].local
          /\ gcl'[c].blind = gcl[c].blind /\ gcl'[c].migrated = gcl[c].migrated /\ gcl'[c].shows = gcl[c].shows
      BY <3>1, <3>3, <3>4 DEF GclType
    <3>6. gcl[c].connected /\ gcl[c].local BY <2>1 DEF Told
    <3> QED BY <2>1, <3>2, <3>3, <3>5, <3>6
  <2>2. CASE c \notin Told
    <3>1. gcl'[c] = gcl[c] \/ gcl'[c] = AwayGcl BY <2>2, Zenon DEF Told, PipesNewAdd
    <3> QED BY <2>0, <2>2, <3>1, Away
  <2> QED BY <2>1, <2>2
\* The worker handles a message: no client owes an answer then, so the clients that are
\* told of a drawing are those it counts.
<1>MessageStep.
      ASSUME GlInductive, HandleGlMessage
      PROVE  GlInductive'
  <2> USE <1>MessageStep
  <2>0. /\ GlTypeOK /\ OngoingOwed /\ CookieKept /\ Informed /\ gl \in GlRecord /\ gdraw' = gdraw
        /\ gl.msgs # <<>> /\ gl.msgs \in Seq(Items) /\ GlWorker
    BY DEF GlInductive, GlTypeOK, HandleGlMessage, GlRecord
  <2> DEFINE item == Head(gl.msgs)
             rest == Tail(gl.msgs)
             g == [gl EXCEPT !.msgs = rest]
  <2>1. /\ item \in Items /\ rest \in Seq(Items) /\ DrawLast(rest) /\ (item = "draw" => rest = <<>>)
        /\ \A x : Has(gl.msgs, x) <=> x = item \/ Has(rest, x)
    BY <2>0, <1>TailHas DEF CookieKept
  <2>2. gl.count = 0 BY <2>0 DEF CookieKept
  <2>3. \A c \in GlClients : ~gcl[c].ongoing /\ gcl[c].todo = 0 /\ ~Has(gcl[c].pipe, "draw") /\ DrawLast(gcl[c].pipe)
    <3>1. Ongoing = {}
      <4>1. Ongoing \in SUBSET GlClients BY DEF Ongoing
      <4> QED BY <2>0, <2>2, <4>1, <1>OngoingCount, Zenon DEF OngoingOwed
    <3> QED BY <2>0, <3>1 DEF Ongoing, OngoingOwed
  <2>4. gcl' = PipesNewAdd(item) BY <2>2 DEF HandleGlMessage
  <2>5. /\ g \in GlRecord /\ g.msgs = rest /\ g.count = 0 /\ g.fd = gl.fd /\ g.cookie = gl.cookie
        /\ g.answer = gl.answer
    BY <2>0, <2>1, <2>2, Zenon DEF GlRecord
  <2>6. Ongoing' = IF item = "draw" THEN Told ELSE {}
    <3>1. \A c \in GlClients : gcl'[c].ongoing <=> item = "draw" /\ c \in Told
      BY <2>0, <2>1, <2>3, <2>4, <1>PipesStep
    <3>2. Told \in SUBSET GlClients BY DEF Told
    <3> QED BY <3>1, <3>2 DEF Ongoing
  <2>7. gcl' \in [GlClients -> GclType]
    <3>1. gcl' = [c \in GlClients |-> gcl'[c]] BY <2>4, Zenon DEF PipesNewAdd
    <3>2. \A c \in GlClients : gcl'[c] \in GclType BY <2>0, <2>1, <2>3, <2>4, <1>PipesStep
    <3> QED BY <3>1, <3>2
  <2>8. /\ gl' \in GlRecord /\ gl'.fd = gl.fd /\ gl'.msgs = rest /\ gl'.count = Cardinality(Ongoing')
        /\ gl'.cookie = IF item = "draw" /\ gl'.count = 0 THEN NoDraw ELSE gl.cookie
        /\ gl'.answer = IF item = "draw" /\ gl'.count = 0 THEN gl.cookie ELSE NoDraw
    <3>1. CASE item # "draw"
      <4>1. gl' = g
        <5>1. item = "scanout" BY <2>1, <3>1 DEF Items
        <5> QED BY <5>1 DEF HandleGlMessage
      <4>2. Cardinality({}) = 0 BY Zenon DEF FiniteSizes
      <4> QED BY <2>0, <2>5, <2>6, <3>1, <4>1, <4>2 DEF GlWorker
    <3>2. CASE item = "draw"
      <4> DEFINE n == Cardinality(Told)
                 h == [g EXCEPT !.count = n]
                 k == [h EXCEPT !.answer = h.cookie]
      <4>1. gl' = IF n = 0 THEN [h EXCEPT !.answer = h.cookie, !.cookie = NoDraw] ELSE h
        <5>1. "draw" # "scanout" OBVIOUS
        <5> QED BY <2>2, <3>2, <5>1 DEF HandleGlMessage, SetAsyncCount, Complete, Told
      <4>2. n \in Nat
        <5>1. Told \in SUBSET GlClients BY DEF Told
        <5> QED BY <5>1, <1>OngoingCount
      <4> HIDE DEF n, g
      <4>3. /\ h \in GlRecord /\ h.fd = gl.fd /\ h.msgs = rest /\ h.count = n /\ h.cookie = gl.cookie /\ h.answer = NoDraw
        BY <2>0, <2>5, <4>2 DEF GlRecord, GlWorker
      <4> HIDE DEF h
      <4>4. CASE n # 0 BY <2>6, <3>2, <4>1, <4>3, <4>4 DEF n
      <4>5. CASE n = 0
        <5>1. gl' = [k EXCEPT !.cookie = 0] BY <4>1, <4>5 DEF NoDraw
        <5>2. k \in GlRecord /\ k.fd = gl.fd /\ k.msgs = rest /\ k.count = n /\ k.answer = gl.cookie
          BY <4>3 DEF GlRecord
        <5> HIDE DEF k
        <5>3. gl' \in GlRecord /\ gl'.fd = gl.fd /\ gl'.msgs = rest /\ gl'.count = n /\ gl'.answer = gl.cookie /\ gl'.cookie = 0
          BY <5>1, <5>2 DEF GlRecord
        <5> QED BY <2>6, <3>2, <4>5, <5>3 DEF NoDraw, n
      <4> QED BY <4>4, <4>5
    <3> QED BY <3>1, <3>2
  <2> HIDE DEF g
  <2>9. OngoingOwed'
    <3>1. ASSUME NEW c \in GlClients
          PROVE  /\ gcl'[c].ongoing => gcl'[c].connected /\ gcl'[c].local
                 /\ gcl'[c].ongoing => gcl'[c].todo = IF Has(gcl'[c].pipe, "draw") THEN 0 ELSE 1
                 /\ ~gcl'[c].ongoing => gcl'[c].todo = 0 /\ ~Has(gcl'[c].pipe, "draw")
                 /\ DrawLast(gcl'[c].pipe)
      BY <2>0, <2>1, <2>3, <2>4, <1>PipesStep
    <3> QED BY <2>8, <3>1 DEF OngoingOwed
  <2>10. CookieKept'
    <3>1. CASE item # "draw"
      <4>0. Cardinality({}) = 0 BY Zenon DEF FiniteSizes
      <4>1. gl'.count = 0 /\ gl'.cookie = gl.cookie /\ gl'.answer = gl.answer /\ gl'.fd = gl.fd /\ gl'.msgs = rest
        BY <2>0, <2>6, <2>8, <3>1, <4>0 DEF GlWorker
      <4>2. Has(rest, "draw") <=> Has(gl.msgs, "draw") BY <2>1, <3>1
      <4> QED BY <2>0, <2>1, <2>2, <4>1, <4>2 DEF CookieKept
    <3>2. CASE item = "draw"
      <4>1. gl.cookie # NoDraw BY <2>0, <2>1, <3>2 DEF CookieKept
      <4>2. rest = <<>> /\ ~Has(rest, "draw") BY <2>1, <3>2, EmptyHas, Zenon
      <4> QED BY <2>0, <2>1, <2>8, <3>2, <4>1, <4>2 DEF CookieKept
    <3> QED BY <3>1, <3>2
  <2>11. Informed'
    <3> SUFFICES ASSUME NEW c \in GlClients
                 PROVE  /\ gcl'[c].blind => gcl'[c].migrated
                        /\ gcl'[c].connected /\ gcl'[c].local /\ ~gcl'[c].migrated /\ gl.fd # NoBuffer =>
                              gcl'[c].shows = gl.fd \/ Has(gcl'[c].pipe, "scanout") \/ Has(rest, "scanout")
      BY <2>8 DEF Informed
    <3>1. CASE c \in Told
      <4>1. /\ gcl'[c].blind = gcl[c].blind /\ gcl'[c].migrated = gcl[c].migrated /\ gcl'[c].shows = gcl[c].shows
            /\ Has(gcl[c].pipe, "scanout") \/ item = "scanout" => Has(gcl'[c].pipe, "scanout")
        BY <2>0, <2>1, <2>3, <2>4, <3>1, <1>PipesStep
      <4> QED BY <2>0, <2>1, <3>1, <4>1 DEF Informed, Told
    <3>2. CASE c \notin Told
      <4>1. gcl'[c] = gcl[c] \/ gcl'[c] = AwayGcl BY <2>0, <2>1, <2>3, <2>4, <3>2, <1>PipesStep
      <4>2. ~(gcl[c].connected /\ gcl[c].local) BY <3>2 DEF Told
      <4> QED BY <2>0, <4>1, <4>2, Away DEF Informed
    <3> QED BY <3>1, <3>2
  <2> QED BY <2>0, <2>7, <2>8, <2>9, <2>10, <2>11 DEF GlInductive, GlTypeOK
<1> SUFFICES ASSUME GlInductive, [GlNext]_glVars PROVE GlInductive' OBVIOUS
<1>1. CASE UNCHANGED glVars
  BY <1>1 DEF glVars, GlInductive, GlTypeOK, OngoingOwed, Ongoing, CookieKept, Informed
<1>2. CASE \E fd \in Buffers \cup {NoBuffer} : QxlGlScanout(fd) BY <1>2, <1>ScanoutStep
<1>3. CASE QxlGlDraw BY <1>3, <1>DrawStep
<1>4. CASE AsyncComplete BY <1>4, <1>CompleteStep
<1>5. CASE HandleGlMessage BY <1>5, <1>MessageStep
<1>6. CASE \E c \in GlClients : \E local, migrated \in BOOLEAN : GlConnect(c, local, migrated) BY <1>6, <1>ConnectStep
<1>7. CASE \E c \in GlClients : \E again \in BOOLEAN : HandleDrawDone(c, again) BY <1>7, <1>DrawDoneStep
<1>8. CASE \E c \in GlClients : GlMigrateData(c) BY <1>8, <1>MigrateStep
<1>9. CASE \E c \in GlClients : GlDisconnect(c) BY <1>9, <1>DisconnectStep
<1>10. CASE \E c \in GlClients : GlSend(c) BY <1>10, <1>SendStep
<1> QED BY <1>1, <1>2, <1>3, <1>4, <1>5, <1>6, <1>7, <1>8, <1>9, <1>10 DEF GlNext

-----------------------------------------------------------------------------
(* The rate control of the MJPEG encoder *)

Evaluations ==
    [type : {"set", "upgrade", "downgrade"}, reason : {"size", "rate"}, sizes : [Qualities -> Nat],
     minId : Qualities, minFps : Nat, maxId : Qualities, maxFps : Nat, best : Int, bestId : Qualities]

Controls ==
    [during : BOOLEAN, ev : Evaluations, rate : Nat, q : Qualities, fps : MinFps .. MaxFps, ratio : 100 .. 200,
     adjStart : Nat, adjFrames : Nat, last : Nat, sum : Nat, num : Nat, warm : Nat, changeStart : Nat,
     lastFrame : Nat, upgraded : BOOLEAN, encFrames : Nat, encSum : Nat, encoded : Nat, dropped : Nat,
     maxVideo : Int, maxAudio : Int]

\* The frames counted for the measured rate: they lie between two times that differ once
\* there are two of them.
FramesTimed(r, now) ==
    /\ r.changeStart <= r.lastFrame /\ r.lastFrame <= now
    /\ r.encFrames > 0 => r.changeStart > 0
    /\ r.encFrames > 1 => r.changeStart < r.lastFrame

\* A change of the bit rate forgets the frames counted; nothing else touches them.
TimingKept(s, r) ==
    \/ s.changeStart = r.changeStart /\ s.lastFrame = r.lastFrame /\ s.encFrames = r.encFrames
    \/ s.changeStart = 0 /\ s.lastFrame = 0 /\ s.encFrames = 0

\* What an evaluation round may be at, and that there is nothing left of it when it is over.
RoundOpen(r) == r.q <= r.ev.maxId /\ ~Evaluated(r, r.q) /\ (r.ev.type = "set" => r.ev.reason = "rate")

RoundOver(r) == r.ev = FreshEval

RoundOK(r) == IF r.during THEN RoundOpen(r) ELSE RoundOver(r)

SampledIn(sizes) == {q \in Qualities : sizes[q] # 0}

\* The frames of a round are those whose sizes were sampled and the last one.
FramesOf(r, n) ==
    IF r.during THEN n <= Cardinality(SampledIn(r.ev.sizes)) + (IF r.last = 0 THEN 0 ELSE 1) ELSE n = 0

MjpegInductive ==
    /\ rc \in Controls /\ clock \in Nat \ {0} /\ calls \in Nat /\ round \in Nat
    /\ RoundOK(rc) /\ FramesTimed(rc, clock) /\ FramesOf(rc, round)

\* The smaller and the larger of two integers.
LEMMA MinMaxOfTwo ==
  ASSUME NEW a \in Int, NEW b \in Int
  PROVE  /\ Min({a, b}) = IF a <= b THEN a ELSE b
         /\ Max({a, b}) = IF a <= b THEN b ELSE a
<1>1. Min({a, b}) \in {a, b} /\ \A z \in {a, b} : Min({a, b}) <= z
  <2>1. \E x \in {a, b} : \A z \in {a, b} : x <= z
    OBVIOUS
  <2>. QED BY <2>1, Zenon DEF Min
<1>2. Max({a, b}) \in {a, b} /\ \A z \in {a, b} : z <= Max({a, b})
  <2>1. \E x \in {a, b} : \A z \in {a, b} : z <= x
    OBVIOUS
  <2>. QED BY <2>1, Zenon DEF Max
<1>3. \A m \in {a, b} : (\A z \in {a, b} : m <= z) => m = IF a <= b THEN a ELSE b
  OBVIOUS
<1>4. \A m \in {a, b} : (\A z \in {a, b} : z <= m) => m = IF a <= b THEN b ELSE a
  OBVIOUS
<1>5. Min({a, b}) = IF a <= b THEN a ELSE b
  BY <1>1, <1>3, Zenon
<1>6. Max({a, b}) = IF a <= b THEN b ELSE a
  BY <1>2, <1>4, Zenon
<1>. QED BY <1>5, <1>6, Zenon

\* Replacing the round, or the quality, leaves the other fields as they are.
WithRound(r, d, e) == [r EXCEPT !.during = d, !.ev = e]

WithQuality(r, q) == [r EXCEPT !.q = q]

\* Replacing the round.
LEMMA RoundReplaced ==
  ASSUME NEW r \in Controls, NEW d \in BOOLEAN, NEW e \in Evaluations
  PROVE  LET s == WithRound(r, d, e)
         IN  /\ s \in Controls
             /\ s.during = d /\ s.ev = e /\ s.q = r.q /\ s.last = r.last /\ TimingKept(s, r)
<1>1. WithRound(r, d, e) \in Controls
  BY Zenon DEF Controls, WithRound
<1>2. LET s == WithRound(r, d, e)
      IN  s.during = d /\ s.ev = e /\ s.q = r.q /\ s.last = r.last /\ TimingKept(s, r)
  BY DEF Controls, TimingKept, WithRound
<1>. QED BY <1>1, <1>2, Zenon

\* Moving to another quality.
LEMMA QualityReplaced ==
  ASSUME NEW r \in Controls, NEW q \in Qualities
  PROVE  LET s == WithQuality(r, q)
         IN  /\ s \in Controls
             /\ s.during = r.during /\ s.ev = r.ev /\ s.q = q /\ s.last = r.last /\ TimingKept(s, r)
<1>1. WithQuality(r, q) \in Controls
  BY DEF Controls, WithQuality
<1>2. LET s == WithQuality(r, q)
      IN  s.during = r.during /\ s.ev = r.ev /\ s.q = q /\ s.last = r.last /\ TimingKept(s, r)
  BY DEF Controls, TimingKept, WithQuality
<1>. QED BY <1>1, <1>2, Zenon

\* The fields of a control.
LEMMA ControlFields ==
  ASSUME NEW r \in Controls
  PROVE  /\ r.during \in BOOLEAN /\ r.ev \in Evaluations /\ r.q \in Qualities
         /\ r.fps \in MinFps .. MaxFps /\ r.ratio \in 100 .. 200 /\ r.rate \in Nat
         /\ r.adjStart \in Nat /\ r.adjFrames \in Nat /\ r.last \in Nat /\ r.sum \in Nat /\ r.num \in Nat
         /\ r.changeStart \in Nat /\ r.lastFrame \in Nat /\ r.encFrames \in Nat /\ r.encSum \in Nat
         /\ r.encoded \in Nat /\ r.dropped \in Nat /\ r.maxVideo \in Int /\ r.maxAudio \in Int
BY DEF Controls

\* The fields of an evaluation.
LEMMA EvaluationFields ==
  ASSUME NEW e \in Evaluations
  PROVE  /\ e.type \in {"set", "upgrade", "downgrade"} /\ e.reason \in {"size", "rate"}
         /\ e.sizes \in [Qualities -> Nat] /\ e.minId \in Qualities /\ e.minFps \in Nat
         /\ e.maxId \in Qualities /\ e.maxFps \in Nat /\ e.best \in Int /\ e.bestId \in Qualities
BY DEF Evaluations

\* The evaluation a round starts from.
LEMMA FreshEvalOK ==
  /\ FreshEval \in Evaluations /\ FreshEval.type = "set" /\ FreshEval.reason = "size"
  /\ FreshEval.maxId = TopQuality /\ \A q \in Qualities : FreshEval.sizes[q] = 0
BY DEF FreshEval, Evaluations, Unsampled, Qualities, TopQuality, MaxFps

\* A control before its frame rate is first set.
NewControls ==
    [during : BOOLEAN, ev : Evaluations, rate : Nat, q : Qualities, fps : Nat, ratio : 100 .. 200,
     adjStart : Nat, adjFrames : Nat, last : Nat, sum : Nat, num : Nat, warm : Nat, changeStart : Nat,
     lastFrame : Nat, upgraded : BOOLEAN, encFrames : Nat, encSum : Nat, encoded : Nat, dropped : Nat,
     maxVideo : Int, maxAudio : Int]

\* Resetting the quality leaves a round that is over and sets a frame rate within its bounds.
LEMMA ResetQualitySets ==
  ASSUME NEW r \in NewControls, NEW q \in Qualities, NEW fps \in Int
  PROVE  LET s == ResetQuality(r, q, fps)
         IN  s \in Controls /\ ~s.during /\ RoundOver(s) /\ TimingKept(s, r) /\ s.q = q
<1>. DEFINE f == Min({MaxFps, Max({MinFps, fps})})
            l == IF r.q = q THEN r.last ELSE 0
            c == IF r.ev.reason = "rate" THEN 0 ELSE r.encoded
            d == IF r.ev.reason = "rate" THEN 0 ELSE r.dropped
            s == [r EXCEPT !.during = FALSE, !.last = l, !.encoded = c, !.dropped = d, !.q = q, !.ev = FreshEval,
                           !.fps = f, !.adjStart = 0, !.adjFrames = 0, !.sum = 0, !.num = 0]
<1>1. f \in MinFps .. MaxFps
  <2>1. MinFps \in Int /\ MaxFps \in Int /\ MinFps <= MaxFps
    BY DEF MinFps, MaxFps
  <2>2. Max({MinFps, fps}) = IF MinFps <= fps THEN fps ELSE MinFps
    BY <2>1, MinMaxOfTwo, Zenon
  <2>3. Max({MinFps, fps}) \in Int
    BY <2>1, <2>2
  <2>4. f = IF MaxFps <= Max({MinFps, fps}) THEN MaxFps ELSE Max({MinFps, fps})
    BY <2>1, <2>3, MinMaxOfTwo, Zenon
  <2>. QED BY <2>1, <2>2, <2>4
<1>2. l \in Nat /\ c \in Nat /\ d \in Nat
  BY DEF NewControls
<1>3. ResetQuality(r, q, fps) = s
  BY DEF ResetQuality, NewControls
<1>4. s \in Controls /\ ~s.during /\ s.ev = FreshEval /\ TimingKept(s, r) /\ s.q = q
  <2>. HIDE DEF f, l, c, d
  <2>1. s \in Controls
    BY <1>1, <1>2, FreshEvalOK, Zenon DEF Controls, NewControls
  <2>2. ~s.during /\ s.ev = FreshEval /\ TimingKept(s, r) /\ s.q = q
    BY DEF NewControls, TimingKept
  <2>. QED BY <2>1, <2>2, Zenon
<1>. QED BY <1>3, <1>4, Zenon DEF RoundOver

\* Resetting the quality of a control in use.
LEMMA ResetQualityEnds ==
  ASSUME NEW r \in Controls, NEW q \in Qualities, NEW fps \in Int
  PROVE  LET s == ResetQuality(r, q, fps)
         IN  s \in Controls /\ ~s.during /\ RoundOver(s) /\ TimingKept(s, r)
<1>1. r \in NewControls
  BY DEF Controls, NewControls, MinFps, MaxFps
<1>. QED BY <1>1, ResetQualitySets, Zenon

\* A quotient of naturals, and the highest frame rate a bit rate allows, are naturals.
LEMMA QuotientNat ==
  ASSUME NEW a \in Nat, NEW b \in Nat
  PROVE  (b > 0 => a \div b \in Nat) /\ GetMaxFps(b, a) \in Nat
<1>1. b > 0 => a \div b \in Nat
  OBVIOUS
<1>. QED BY <1>1 DEF GetMaxFps, MaxFps

\* Sampling a quality may make it the best so far and changes nothing else.
LEMMA SampledKeeps ==
  ASSUME NEW r \in Controls, NEW fps \in Int, NEW src \in Nat
  PROVE  LET s == Sampled(r, fps, src)
         IN  /\ s \in Controls /\ s.during = r.during /\ s.q = r.q /\ s.last = r.last /\ TimingKept(s, r)
             /\ s.ev.sizes = r.ev.sizes /\ s.ev.maxId = r.ev.maxId
             /\ s.ev.type = r.ev.type /\ s.ev.reason = r.ev.reason
<1>. DEFINE x == [r EXCEPT !.ev.best = fps, !.ev.bestId = r.q]
<1>1. CASE Sampled(r, fps, src) = r
  BY <1>1 DEF TimingKept
<1>2. CASE Sampled(r, fps, src) = x
  <2>. DEFINE e == [r.ev EXCEPT !.best = fps, !.bestId = r.q]
              s == WithRound(r, r.during, e)
  <2>1. r.ev \in Evaluations /\ r.q \in Qualities /\ r.during \in BOOLEAN
    BY ControlFields
  <2>2. e \in Evaluations
    BY <2>1, Zenon DEF Evaluations
  <2>3. e.sizes = r.ev.sizes /\ e.maxId = r.ev.maxId /\ e.type = r.ev.type /\ e.reason = r.ev.reason
    BY <2>1 DEF Evaluations
  <2>4. x = s
    BY Zenon DEF Controls, WithRound
  <2>. HIDE DEF e
  <2>5. /\ s \in Controls /\ s.during = r.during /\ s.ev = e
        /\ s.q = r.q /\ s.last = r.last /\ TimingKept(s, r)
    BY <2>1, <2>2, RoundReplaced
  <2>. HIDE DEF s, x
  <2>. QED BY <1>2, <2>3, <2>4, <2>5, Zenon
<1>. QED BY <1>1, <1>2, Zenon DEF Sampled

\* Settling a round ends it.
LEMMA CompleteSampleEnds ==
  ASSUME NEW r \in Controls
  PROVE  LET s == CompleteSample(r)
         IN  s \in Controls /\ ~s.during /\ RoundOver(s) /\ TimingKept(s, r)
<1>. DEFINE final == IF r.ev.best # 0 THEN Max({r.q, r.ev.bestId}) ELSE r.q
            size == r.ev.sizes[final]
            fps == GetMaxFps(size, r.rate)
            low == IF final = r.ev.minId THEN Max({fps, r.ev.minFps}) ELSE fps
            high == IF final = r.ev.maxId THEN Min({low, r.ev.maxFps}) ELSE low
            t == ResetQuality(r, final, high)
<1>1. /\ r.ev \in Evaluations /\ r.q \in Qualities /\ r.rate \in Nat /\ r.ev.bestId \in Qualities
      /\ r.ev.minFps \in Int /\ r.ev.maxFps \in Int /\ r.ev.sizes \in [Qualities -> Nat]
  BY ControlFields, EvaluationFields
<1>2. final \in Qualities
  <2>1. r.q \in Int /\ r.ev.bestId \in Int
    BY <1>1 DEF Qualities
  <2>2. Max({r.q, r.ev.bestId}) = IF r.q <= r.ev.bestId THEN r.ev.bestId ELSE r.q
    BY <2>1, MinMaxOfTwo, Zenon
  <2>. QED BY <1>1, <2>2, Zenon
<1>3. size \in Nat
  BY <1>1, <1>2
<1>4. fps \in Int
  BY <1>1, <1>3, QuotientNat DEF GetMaxFps
<1>5. low \in Int
  <2>1. Max({fps, r.ev.minFps}) = IF fps <= r.ev.minFps THEN r.ev.minFps ELSE fps
    BY <1>1, <1>4, MinMaxOfTwo, Zenon
  <2>. QED BY <1>1, <1>4, <2>1, Zenon
<1>6. high \in Int
  <2>1. Min({low, r.ev.maxFps}) = IF low <= r.ev.maxFps THEN low ELSE r.ev.maxFps
    BY <1>1, <1>5, MinMaxOfTwo, Zenon
  <2>. QED BY <1>1, <1>5, <2>1, Zenon
<1>7. t \in Controls /\ ~t.during /\ RoundOver(t) /\ TimingKept(t, r)
  BY <1>2, <1>6, ResetQualityEnds, Zenon
<1>8. CompleteSample(r) = [t EXCEPT !.sum = size, !.num = 1]
  BY Zenon DEF CompleteSample
<1>. HIDE DEF size, t
<1>9. [t EXCEPT !.sum = size, !.num = 1] \in Controls
  BY <1>3, <1>7, Zenon DEF Controls
<1>10. LET s == [t EXCEPT !.sum = size, !.num = 1]
       IN  ~s.during /\ RoundOver(s) /\ TimingKept(s, r)
  BY <1>7 DEF Controls, RoundOver, TimingKept
<1>. QED BY <1>8, <1>9, <1>10, Zenon

\* A round that is given up falls back to a quality it knew and is over.
LEMMA EvalStopEnds ==
  ASSUME NEW r \in Controls, RoundOK(r)
  PROVE  LET s == EvalStop(r)
         IN  s \in Controls /\ ~s.during /\ RoundOver(s) /\ TimingKept(s, r)
<1>1. CASE ~r.during
  BY <1>1 DEF EvalStop, RoundOK, TimingKept
<1>2. CASE r.during
  <2>1. /\ r.ev.minId \in Qualities /\ r.ev.maxId \in Qualities /\ Median \in Qualities
        /\ r.ev.minFps \in Int /\ r.ev.maxFps \in Int /\ MaxFps \div 2 \in Int
        /\ r.ev.type \in {"set", "upgrade", "downgrade"}
    BY ControlFields, EvaluationFields DEF Median, MaxFps, Qualities, TopQuality
  <2>2. CASE r.ev.type = "upgrade"
    <3>1. EvalStop(r) = ResetQuality(r, r.ev.minId, r.ev.minFps)
      BY <1>2, <2>2 DEF EvalStop
    <3>. QED BY <2>1, <3>1, ResetQualityEnds, Zenon
  <2>3. CASE r.ev.type = "downgrade"
    <3>1. EvalStop(r) = ResetQuality(r, r.ev.maxId, r.ev.maxFps)
      BY <1>2, <2>3 DEF EvalStop
    <3>. QED BY <2>1, <3>1, ResetQualityEnds, Zenon
  <2>4. CASE r.ev.type = "set"
    <3>1. EvalStop(r) = ResetQuality(r, Median, MaxFps \div 2)
      BY <1>2, <2>4 DEF EvalStop
    <3>. QED BY <2>1, <3>1, ResetQualityEnds, Zenon
  <2>. QED BY <2>1, <2>2, <2>3, <2>4, Zenon
<1>. QED BY <1>1, <1>2, Zenon

\* An evaluation goes on with the sizes it has, or is over.
Advanced(s, r) ==
    /\ s \in Controls /\ TimingKept(s, r) /\ RoundOK(s)
    /\ s.during => s.ev.sizes = r.ev.sizes /\ s.last = r.last

\* The counted frames are kept or forgotten over two steps as over one.
LEMMA TimingTransitive ==
  ASSUME NEW r, NEW s, NEW t, TimingKept(s, r), TimingKept(t, s)
  PROVE  TimingKept(t, r)
BY Zenon DEF TimingKept

\* Settling, or moving to a neighbour that was not sampled, advances the evaluation.
LEMMA SettleAdvances ==
  ASSUME NEW r \in Controls, NEW t, t \in Controls, TimingKept(t, r)
  PROVE  Advanced(CompleteSample(t), r)
<1>. DEFINE s == CompleteSample(t)
<1>1. s \in Controls /\ ~s.during /\ RoundOver(s) /\ TimingKept(s, t)
  BY CompleteSampleEnds, Zenon
<1>2. TimingKept(s, r)
  BY <1>1, TimingTransitive, Zenon
<1>. HIDE DEF s
<1>3. Advanced(s, r)
  BY <1>1, <1>2, Zenon DEF Advanced, RoundOK
<1>. QED BY <1>3, Zenon DEF s

\* Moving to a quality that was not sampled.
LEMMA MoveAdvances ==
  ASSUME NEW r \in Controls, r.ev.type # "set" \/ r.ev.reason = "rate", r.during,
         NEW q \in Qualities, q <= r.ev.maxId, ~Evaluated(r, q)
  PROVE  Advanced(WithQuality(r, q), r)
<1>. DEFINE s == WithQuality(r, q)
<1>1. /\ s \in Controls /\ s.during = r.during /\ s.ev = r.ev /\ s.q = q /\ s.last = r.last
      /\ TimingKept(s, r)
  BY QualityReplaced, Zenon
<1>. HIDE DEF s
<1>2. RoundOpen(s)
  BY <1>1 DEF RoundOpen, Evaluated
<1>3. Advanced(s, r)
  BY <1>1, <1>2, Zenon DEF Advanced, RoundOK
<1>. QED BY <1>3, Zenon DEF s

\* Stepping down from a quality above the lowest.
LEMMA StepDownAdvances ==
  ASSUME NEW r \in Controls, r.ev.type = "set" => r.ev.reason = "rate", r.during, r.q # 0, r.q <= r.ev.maxId
  PROVE  Advanced(StepDown(r), r)
<1>1. r.q - 1 \in Qualities /\ r.q - 1 <= r.ev.maxId
  BY ControlFields, EvaluationFields DEF Qualities, TopQuality
<1>2. [r EXCEPT !.q = r.q - 1] = WithQuality(r, r.q - 1)
  BY Zenon DEF WithQuality
<1>3. CASE Evaluated(r, r.q - 1)
  <2>1. StepDown(r) = CompleteSample(WithQuality(r, r.q - 1))
    BY <1>2, <1>3, Zenon DEF StepDown
  <2>2. WithQuality(r, r.q - 1) \in Controls /\ TimingKept(WithQuality(r, r.q - 1), r)
    BY <1>1, QualityReplaced
  <2>. QED BY <2>1, <2>2, SettleAdvances, Zenon
<1>4. CASE ~Evaluated(r, r.q - 1)
  <2>1. StepDown(r) = WithQuality(r, r.q - 1)
    BY <1>2, <1>4, Zenon DEF StepDown
  <2>2. r.ev.type # "set" \/ r.ev.reason = "rate"
    OBVIOUS
  <2>. QED BY <1>1, <1>4, <2>1, <2>2, MoveAdvances, Zenon
<1>. QED BY <1>3, <1>4, Zenon

\* An evaluation at a quality not above its limit moves to a quality that was not sampled,
\* stays at one whose size is not known, or is over.
LEMMA EvalQualityAdvances ==
  ASSUME NEW r0 \in Controls, NEW src \in Nat, r0.during, r0.q <= r0.ev.maxId,
         r0.ev.type = "set" => r0.ev.reason = "rate"
  PROVE  Advanced(EvalQuality(r0, src), r0)
<1>. DEFINE size == r0.ev.sizes[r0.q]
            fps == GetMaxFps(size, r0.rate)
            r == Sampled(r0, fps, src)
            slow == fps < StrictFps /\ fps < src
            fast == (fps > PermissiveFps /\ 100 * fps >= 66 * r.ev.minFps) \/ fps >= src
            stop == \/ r.q = TopQuality \/ r.q >= r.ev.maxId
                    \/ Evaluated(r, r.q + 1) \/ (r.q = Median /\ slow)
            low == r.q = 0 \/ r.q <= r.ev.minId
            s == EvalQuality(r0, src)
<1>1. r0.q \in Qualities /\ r0.rate \in Nat /\ r0.ev.sizes \in [Qualities -> Nat] /\ r0.ev.maxId \in Qualities
  BY ControlFields, EvaluationFields
<1>2. fps \in Int
  <2>1. size \in Nat
    BY <1>1
  <2>. HIDE DEF size
  <2>2. fps \in Nat
    BY <1>1, <2>1, QuotientNat, Zenon
  <2>. HIDE DEF fps
  <2>. QED BY <2>2
<1>3. IF size = 0 THEN s = r0
      ELSE IF r.q > Median /\ slow THEN s = StepDown(r)
      ELSE IF fast THEN IF stop THEN s = CompleteSample(r) ELSE s = [r EXCEPT !.q = r.q + 1]
      ELSE IF low THEN s = CompleteSample(r) ELSE s = StepDown(r)
  BY Zenon DEF EvalQuality
<1>4. CASE size = 0
  <2>1. s = r0
    BY <1>3, <1>4, Zenon
  <2>2. RoundOK(r0)
    BY <1>4, Zenon DEF RoundOK, RoundOpen, Evaluated
  <2>3. TimingKept(r0, r0)
    BY Zenon DEF TimingKept
  <2>. HIDE DEF s
  <2>. QED BY <2>1, <2>2, <2>3, Zenon DEF Advanced, s
<1>5. CASE size # 0
  <2>1. /\ r \in Controls /\ r.during = r0.during /\ r.q = r0.q /\ r.last = r0.last /\ TimingKept(r, r0)
        /\ r.ev.sizes = r0.ev.sizes /\ r.ev.maxId = r0.ev.maxId
        /\ r.ev.type = r0.ev.type /\ r.ev.reason = r0.ev.reason
    <3>. HIDE DEF fps
    <3>. QED BY <1>2, SampledKeeps, Zenon
  <2>. HIDE DEF r
  <2>2. \A t : Advanced(t, r) => Advanced(t, r0)
    BY <2>1, TimingTransitive, Zenon DEF Advanced
  <2>3. Advanced(CompleteSample(r), r)
    <3>1. TimingKept(r, r)
      BY Zenon DEF TimingKept
    <3>. QED BY <2>1, <3>1, SettleAdvances, Zenon
  <2>4. ASSUME r.q # 0 PROVE Advanced(StepDown(r), r)
    BY <2>1, <2>4, StepDownAdvances, Zenon
  <2>5. ASSUME ~stop PROVE Advanced([r EXCEPT !.q = r.q + 1], r)
    <3>. HIDE DEF fps
    <3>1. r.q # TopQuality /\ r.q < r.ev.maxId /\ ~Evaluated(r, r.q + 1)
      BY <1>1, <2>1, <2>5 DEF Qualities
    <3>2. r.q + 1 \in Qualities /\ r.q + 1 <= r.ev.maxId
      BY <1>1, <2>1, <3>1 DEF Qualities, TopQuality
    <3>3. r.ev.type # "set" \/ r.ev.reason = "rate"
      BY <2>1
    <3>4. Advanced(WithQuality(r, r.q + 1), r)
      BY <2>1, <3>1, <3>2, <3>3, MoveAdvances, Zenon
    <3>. QED BY <3>4, Zenon DEF WithQuality
  <2>6. r.q > Median => r.q # 0
    BY <1>1, <2>1 DEF Qualities, Median
  <2>. HIDE DEF s, size, fps, fast, stop, slow
  <2>7. Advanced(s, r)
    BY <1>3, <1>5, <2>3, <2>4, <2>5, <2>6, Zenon
  <2>. QED BY <2>2, <2>7, Zenon DEF s
<1>. QED BY <1>4, <1>5, Zenon

\* A round begins with no quality sampled, at the quality that is its limit or below it.
Begun(s, r, why) ==
    /\ s \in Controls /\ TimingKept(s, r) /\ s.during /\ RoundOpen(s) /\ s.last = r.last /\ s.q = r.q
    /\ s.ev.type # "set" /\ s.ev.reason = why

\* Beginning a round to find a better quality, or a worse one.
LEMMA SetRoundBegins ==
  ASSUME NEW r \in Controls, RoundOver(r), NEW why \in {"size", "rate"}
  PROVE  Begun(SetUpgrade(r, why), r, why) /\ Begun(SetDowngrade(r, why), r, why)
<1>. DEFINE u == [FreshEval EXCEPT !.type = "upgrade", !.reason = why, !.minId = r.q, !.minFps = r.fps]
            d == [FreshEval EXCEPT !.type = "downgrade", !.reason = why, !.maxId = r.q, !.maxFps = r.fps]
<1>1. r.q \in Qualities /\ r.fps \in Nat /\ r.ev = FreshEval /\ r.q <= TopQuality
  BY ControlFields DEF RoundOver, MinFps, MaxFps, Qualities
<1>2. /\ u \in Evaluations /\ u.type = "upgrade" /\ u.reason = why /\ u.maxId = TopQuality /\ u.sizes[r.q] = 0
      /\ d \in Evaluations /\ d.type = "downgrade" /\ d.reason = why /\ d.maxId = r.q /\ d.sizes[r.q] = 0
  BY <1>1, FreshEvalOK, Zenon DEF Evaluations
<1>3. SetUpgrade(r, why) = WithRound(r, TRUE, u)
  BY <1>1, Zenon DEF SetUpgrade, WithRound, Controls
<1>4. SetDowngrade(r, why) = WithRound(r, TRUE, d)
  BY <1>1, Zenon DEF SetDowngrade, WithRound, Controls
<1>. HIDE DEF u, d
<1>5. ASSUME NEW e \in Evaluations, e.type # "set", e.reason = why, r.q <= e.maxId, e.sizes[r.q] = 0
      PROVE  Begun(WithRound(r, TRUE, e), r, why)
  <2>. DEFINE s == WithRound(r, TRUE, e)
  <2>1. s \in Controls /\ s.during /\ s.ev = e /\ s.q = r.q /\ s.last = r.last /\ TimingKept(s, r)
    BY RoundReplaced, Zenon
  <2>. HIDE DEF s
  <2>2. Begun(s, r, why)
    BY <1>5, <2>1 DEF Begun, RoundOpen, Evaluated
  <2>. QED BY <2>2, Zenon DEF s
<1>6. Begun(WithRound(r, TRUE, u), r, why)
  <2>1. u.type # "set" /\ r.q <= u.maxId
    BY <1>1, <1>2
  <2>. QED BY <1>2, <1>5, <2>1, Zenon
<1>7. Begun(WithRound(r, TRUE, d), r, why)
  <2>1. d.type # "set" /\ r.q <= d.maxId
    BY <1>1, <1>2 DEF Qualities
  <2>. QED BY <1>2, <1>5, <2>1, Zenon
<1>. QED BY <1>3, <1>4, <1>6, <1>7, Zenon

\* The measured rate of the frames since the last change is a quotient by a positive time.
LEMMA MeasuredNat ==
  ASSUME NEW r \in Controls, NEW now \in Nat, FramesTimed(r, now), Measurable(r)
  PROVE  MeasuredRate(r) \in Nat /\ r.encSum \div r.encFrames \in Nat
<1>1. /\ r.encFrames \in Nat /\ r.encSum \in Nat /\ r.changeStart \in Nat /\ r.lastFrame \in Nat
      /\ r.fps \in Nat /\ r.fps >= 1
  BY ControlFields DEF MinFps, MaxFps
<1>2. r.encFrames > 1
  BY <1>1 DEF Measurable
<1>3. r.lastFrame - r.changeStart \in Nat /\ r.lastFrame - r.changeStart > 0
  BY <1>1, <1>2 DEF FramesTimed
<1>4. r.encSum * 1000 \in Nat /\ r.encFrames > 0
  BY <1>1, <1>2
<1>5. MeasuredRate(r) \in Nat
  <2>. DEFINE x == r.encSum * 1000
              y == r.lastFrame - r.changeStart
  <2>1. MeasuredRate(r) = x \div y
    BY Zenon DEF MeasuredRate
  <2>2. x \in Nat /\ y \in Nat /\ y > 0
    BY <1>3, <1>4, Zenon
  <2>. HIDE DEF x, y
  <2>3. x \div y \in Nat
    BY <2>2, QuotientNat, Zenon
  <2>. QED BY <2>1, <2>3, Zenon
<1>6. r.encSum \div r.encFrames \in Nat
  BY <1>1, <1>4, QuotientNat, Zenon
<1>. QED BY <1>5, <1>6, Zenon

\* A change of the bit rate.
LEMMA ChangedKeeps ==
  ASSUME NEW r \in Controls, NEW rate \in Nat, NEW up \in BOOLEAN
  PROVE  LET s == Changed(r, rate, up)
         IN  s \in Controls /\ s.during = r.during /\ s.ev = r.ev /\ TimingKept(s, r)
<1>1. Changed(r, rate, up) \in Controls
  BY Zenon DEF Changed, Controls
<1>2. LET s == Changed(r, rate, up) IN s.during = r.during /\ s.ev = r.ev /\ TimingKept(s, r)
  BY DEF Changed, Controls, TimingKept
<1>. QED BY <1>1, <1>2, Zenon

\* A rate that was halved or reduced by a frame is a natural.
LEMMA ReducedNat ==
  ASSUME NEW a \in Nat, NEW b \in Nat, NEW f \in Nat
  PROVE  LET m == Min({a, b}) IN m - (IF f >= m THEN m \div 2 ELSE f) \in Nat
<1>. DEFINE m == Min({a, b})
<1>1. m \in Nat
  <2>1. a \in Int /\ b \in Int
    OBVIOUS
  <2>2. m = IF a <= b THEN a ELSE b
    BY <2>1, MinMaxOfTwo, Zenon
  <2>. QED BY <2>2, Zenon
<1>. HIDE DEF m
<1>2. m - (IF f >= m THEN m \div 2 ELSE f) \in Nat
  BY <1>1
<1>. QED BY <1>2, Zenon DEF m

\* A decrease of the bit rate ends the round and, unless the encoder is still warming up,
\* begins one that looks for a worse quality.
LEMMA DecreaseKeeps ==
  ASSUME NEW r0 \in Controls, RoundOK(r0), NEW now \in Nat, FramesTimed(r0, now), NEW at
  PROVE  LET s == DecreaseBitRate(r0, at)
         IN  /\ s \in Controls /\ TimingKept(s, r0) /\ RoundOK(s)
             /\ s.during => s.ev.type = "downgrade" /\ s.ev.reason = "rate"
<1>. DEFINE z == EvalStop(r0)
            r == [z EXCEPT !.maxVideo = 0, !.maxAudio = 0]
            known == IF Measurable(r) THEN MeasuredRate(r) ELSE r.rate
            measured == Min({r.rate, known})
            frame == IF Measurable(r) THEN r.encSum \div r.encFrames ELSE r.rate \div r.fps
            less == IF frame >= measured THEN measured \div 2 ELSE frame
            c == Changed(r, measured - less, FALSE)
            w == [c EXCEPT !.warm = 0]
            s == DecreaseBitRate(r0, at)
<1>1. s = r \/ s = SetDowngrade(w, "rate")
  BY Zenon DEF DecreaseBitRate
<1>2. z \in Controls /\ ~z.during /\ RoundOver(z) /\ TimingKept(z, r0)
  BY EvalStopEnds, Zenon
<1>3. r \in Controls /\ ~r.during /\ RoundOver(r) /\ TimingKept(r, r0)
  <2>. HIDE DEF z
  <2>1. r \in Controls
    <3>1. z \in Controls /\ 0 \in Int
      BY <1>2
    <3>. QED BY <3>1, Zenon DEF Controls
  <2>2. ~r.during /\ RoundOver(r) /\ TimingKept(r, r0)
    BY <1>2 DEF Controls, RoundOver, TimingKept
  <2>. QED BY <2>1, <2>2, Zenon
<1>. HIDE DEF r
<1>4. FramesTimed(r, now)
  BY <1>3, ControlFields DEF FramesTimed, TimingKept
<1>5. r.rate \in Nat /\ r.fps \in Nat /\ r.fps > 0
  BY <1>3, ControlFields DEF MinFps, MaxFps
<1>6. known \in Nat /\ frame \in Nat
  BY <1>3, <1>4, <1>5, MeasuredNat, QuotientNat, Zenon
<1>7. measured - less \in Nat
  <2>. HIDE DEF known, frame
  <2>. QED BY <1>5, <1>6, ReducedNat, Zenon
<1>8. c \in Controls /\ c.during = r.during /\ c.ev = r.ev /\ TimingKept(c, r)
  <2>. HIDE DEF measured, less
  <2>. QED BY <1>3, <1>7, ChangedKeeps, Zenon
<1>. HIDE DEF c
<1>9. w \in Controls /\ RoundOver(w) /\ TimingKept(w, r)
  <2>1. w \in Controls
    BY <1>8 DEF Controls
  <2>2. RoundOver(w) /\ TimingKept(w, r)
    BY <1>3, <1>8 DEF Controls, RoundOver, TimingKept
  <2>. QED BY <2>1, <2>2, Zenon
<1>. HIDE DEF w, s
<1>10. CASE s = r
  BY <1>3, <1>10, Zenon DEF RoundOK, s
<1>11. CASE s = SetDowngrade(w, "rate")
  <2>1. Begun(s, w, "rate")
    BY <1>9, <1>11, SetRoundBegins
  <2>2. TimingKept(s, r0)
    BY <1>3, <1>9, <2>1, TimingTransitive, Zenon DEF Begun
  <2>3. s.ev.type = "downgrade"
    BY <1>9, <1>11, ControlFields, Zenon DEF SetDowngrade, Controls, Evaluations
  <2>. QED BY <2>1, <2>2, <2>3, Zenon DEF Begun, RoundOK, s
<1>. QED BY <1>1, <1>10, <1>11, Zenon

\* An increase of the bit rate needs frames to measure; it ends the round and begins one
\* that looks for a better quality.
LEMMA IncreaseKeeps ==
  ASSUME NEW r0 \in Controls, RoundOK(r0), NEW now \in Nat, FramesTimed(r0, now)
  PROVE  LET s == IncreaseBitRate(r0)
         IN  \/ s = r0
             \/ /\ s \in Controls /\ TimingKept(s, r0) /\ RoundOK(s)
                /\ s.during /\ s.ev.type # "set" /\ s.ev.reason = "rate"
<1>1. CASE ~Measurable(r0)
  BY <1>1, Zenon DEF IncreaseBitRate
<1>2. CASE Measurable(r0)
  <2>. DEFINE r == EvalStop(r0)
              frame == r0.encSum \div r0.encFrames
              rate == IF MeasuredRate(r0) + frame < r0.rate THEN r0.rate
                      ELSE Min({MeasuredRate(r0), r0.rate}) + frame
              c == Changed(r, rate, TRUE)
              s == IncreaseBitRate(r0)
  <2>1. s = SetUpgrade(c, "rate")
    BY <1>2, Zenon DEF IncreaseBitRate
  <2>2. r \in Controls /\ ~r.during /\ RoundOver(r) /\ TimingKept(r, r0)
    BY EvalStopEnds, Zenon
  <2>3. r0.rate \in Nat /\ MeasuredRate(r0) \in Nat /\ frame \in Nat
    <3>1. r0.rate \in Nat
      BY ControlFields
    <3>. QED BY <1>2, <3>1, MeasuredNat, Zenon
  <2>4. rate \in Nat
    <3>. HIDE DEF frame
    <3>1. MeasuredRate(r0) \in Int /\ r0.rate \in Int
      BY <2>3
    <3>2. Min({MeasuredRate(r0), r0.rate}) = IF MeasuredRate(r0) <= r0.rate THEN MeasuredRate(r0) ELSE r0.rate
      BY <3>1, MinMaxOfTwo, Zenon
    <3>3. Min({MeasuredRate(r0), r0.rate}) + frame \in Nat
      BY <2>3, <3>2
    <3>. QED BY <2>3, <3>3, Zenon
  <2>. HIDE DEF r, rate, s
  <2>5. c \in Controls /\ c.ev = r.ev /\ TimingKept(c, r)
    BY <2>2, <2>4, ChangedKeeps, Zenon
  <2>. HIDE DEF c
  <2>6. RoundOver(c) /\ TimingKept(c, r0)
    BY <2>2, <2>5, TimingTransitive, Zenon DEF RoundOver
  <2>7. Begun(s, c, "rate")
    BY <2>1, <2>5, <2>6, SetRoundBegins
  <2>8. TimingKept(s, r0)
    BY <2>6, <2>7, TimingTransitive, Zenon DEF Begun
  <2>. QED BY <2>7, <2>8, Zenon DEF Begun, RoundOK, s
<1>. QED BY <1>1, <1>2, Zenon

\* Counting the frames encoded and dropped afresh.
WithCounts(r, e, d) == [r EXCEPT !.encoded = e, !.dropped = d]

\* The frames encoded and dropped are counted afresh.
LEMMA CountsReplaced ==
  ASSUME NEW r \in Controls, NEW e \in Nat, NEW d \in Nat
  PROVE  LET s == WithCounts(r, e, d)
         IN  /\ s \in Controls /\ TimingKept(s, r)
             /\ s.during = r.during /\ s.ev = r.ev /\ s.q = r.q /\ s.last = r.last
<1>1. WithCounts(r, e, d) \in Controls
  BY Zenon DEF WithCounts, Controls
<1>2. LET s == WithCounts(r, e, d)
      IN  TimingKept(s, r) /\ s.during = r.during /\ s.ev = r.ev /\ s.q = r.q /\ s.last = r.last
  BY DEF WithCounts, Controls, TimingKept
<1>. QED BY <1>1, <1>2, Zenon

\* The server's drops lower the bit rate when there are too many, and are forgotten.
LEMMA DropsKeep ==
  ASSUME NEW r \in Controls, RoundOK(r), NEW now \in Nat, FramesTimed(r, now), NEW src \in Nat, NEW at
  PROVE  LET s == ProcessServerDrops(r, src, at)
         IN  /\ s \in Controls /\ TimingKept(s, r) /\ RoundOK(s)
             /\ ~TooManyDropped(r, src) => s.during = r.during /\ s.ev = r.ev /\ s.last = r.last
<1>. DEFINE d == IF TooManyDropped(r, src) THEN DecreaseBitRate(r, at) ELSE r
            z == WithCounts(d, 0, 0)
            s == ProcessServerDrops(r, src, at)
<1>1. s = z \/ (s = r /\ ~TooManyDropped(r, src))
  <2>1. r.fps \in Int /\ src \in Int /\ r.encoded \in Int
    BY ControlFields DEF MinFps, MaxFps
  <2>2. Min({r.fps, src}) \in Int
    BY <2>1, MinMaxOfTwo, Zenon
  <2>3. r.encoded < Min({r.fps, src}) => ~(r.encoded >= Min({r.fps, src}))
    BY <2>1, <2>2
  <2>4. s = IF r.encoded < Min({r.fps, src}) THEN r ELSE z
    BY Zenon DEF ProcessServerDrops, WithCounts
  <2>5. r.encoded < Min({r.fps, src}) => ~TooManyDropped(r, src)
    BY <2>3, Zenon DEF TooManyDropped
  <2>. HIDE DEF s, z
  <2>. QED BY <2>4, <2>5, Zenon
<1>2. /\ d \in Controls /\ TimingKept(d, r) /\ RoundOK(d)
      /\ ~TooManyDropped(r, src) => d = r
  <2>1. CASE TooManyDropped(r, src)
    BY <2>1, DecreaseKeeps, Zenon
  <2>2. CASE ~TooManyDropped(r, src)
    BY <2>2, Zenon DEF TimingKept
  <2>. QED BY <2>1, <2>2, Zenon
<1>. HIDE DEF d
<1>3. z \in Controls /\ TimingKept(z, d) /\ z.during = d.during /\ z.ev = d.ev /\ z.q = d.q /\ z.last = d.last
  BY <1>2, CountsReplaced
<1>. HIDE DEF z, s
<1>4. CASE s = z
  <2>1. TimingKept(z, r)
    BY <1>2, <1>3, TimingTransitive, Zenon
  <2>2. RoundOK(z)
    BY <1>2, <1>3, Zenon DEF RoundOK, RoundOpen, RoundOver, Evaluated
  <2>3. ~TooManyDropped(r, src) => z.during = r.during /\ z.ev = r.ev /\ z.last = r.last
    BY <1>2, <1>3, Zenon
  <2>. QED BY <1>3, <1>4, <2>1, <2>2, <2>3, Zenon DEF s
<1>5. CASE s = r
  <2>1. TimingKept(r, r)
    BY Zenon DEF TimingKept
  <2>. QED BY <1>5, <2>1, Zenon DEF s
<1>. QED BY <1>1, <1>4, <1>5, Zenon

\* There are seven qualities.
LEMMA QualitiesFinite ==
  ASSUME FiniteSizes
  PROVE  IsFiniteSet(Qualities) /\ Cardinality(Qualities) = 7
<1>1. TopQuality \in Nat /\ TopQuality + 1 = 7
  BY DEF TopQuality
<1>. QED BY <1>1, Zenon DEF FiniteSizes, Qualities

\* One more quality is sampled.
LEMMA OneMoreSampled ==
  ASSUME FiniteSizes, NEW f \in [Qualities -> Nat], NEW q \in Qualities, f[q] = 0, NEW l \in Nat, l # 0
  PROVE  Cardinality(SampledIn([f EXCEPT ![q] = l])) = Cardinality(SampledIn(f)) + 1
<1>1. SampledIn([f EXCEPT ![q] = l]) = SampledIn(f) \cup {q} /\ q \notin SampledIn(f)
  BY DEF SampledIn
<1>2. IsFiniteSet(SampledIn(f))
  <2>1. SampledIn(f) \subseteq Qualities
    BY Zenon DEF SampledIn
  <2>. QED BY <2>1, QualitiesFinite, Zenon DEF FiniteSizes
<1>. QED BY <1>1, <1>2, Zenon DEF FiniteSizes

\* No more qualities are sampled than there are, and one less while one is not.
LEMMA SampledBound ==
  ASSUME FiniteSizes, NEW f \in [Qualities -> Nat]
  PROVE  /\ Cardinality(SampledIn(f)) \in Nat
         /\ Cardinality(Qualities) = 7
         /\ \A q \in Qualities : f[q] = 0 => Cardinality(SampledIn(f)) <= 6
<1>1. IsFiniteSet(Qualities) /\ Cardinality(Qualities) = 7
  BY QualitiesFinite, Zenon
<1>2. IsFiniteSet(SampledIn(f)) /\ Cardinality(SampledIn(f)) \in Nat
  <2>1. SampledIn(f) \subseteq Qualities
    BY Zenon DEF SampledIn
  <2>. QED BY <1>1, <2>1, Zenon DEF FiniteSizes
<1>3. ASSUME NEW q \in Qualities, f[q] = 0
      PROVE  Cardinality(SampledIn(f)) <= 6
  <2>1. SampledIn(f) \subseteq Qualities \ {q}
    BY <1>3, Zenon DEF SampledIn
  <2>2. IsFiniteSet(Qualities \ {q}) /\ Cardinality(Qualities \ {q}) = Cardinality(Qualities) - 1
    BY <1>1, Zenon DEF FiniteSizes
  <2>3. Cardinality(SampledIn(f)) <= Cardinality(Qualities \ {q})
    BY <2>1, <2>2, Zenon DEF FiniteSizes
  <2>. QED BY <1>1, <1>2, <2>2, <2>3
<1>. QED BY <1>1, <1>2, <1>3, Zenon

\* A round that goes on has the sizes it had and that of the last frame.
Resampled(s, r) ==
    r.during /\ s.during =>
        s.ev.sizes = IF r.last = 0 THEN r.ev.sizes ELSE [r.ev.sizes EXCEPT ![r.q] = r.last]

\* Sampling the size of the current quality.
WithSize(r, l) == [r EXCEPT !.ev.sizes[r.q] = l]

\* The size of the current quality is recorded; the quality and the limits are not touched.
LEMMA SizeRecorded ==
  ASSUME NEW r \in Controls, NEW l \in Nat
  PROVE  LET s == WithSize(r, l)
         IN  /\ s \in Controls /\ TimingKept(s, r) /\ s.during = r.during /\ s.q = r.q /\ s.last = r.last
             /\ s.ev.sizes = [r.ev.sizes EXCEPT ![r.q] = l] /\ s.ev.maxId = r.ev.maxId
             /\ s.ev.type = r.ev.type /\ s.ev.reason = r.ev.reason
<1>. DEFINE f == [r.ev.sizes EXCEPT ![r.q] = l]
            e == [r.ev EXCEPT !.sizes = f]
            s == WithRound(r, r.during, e)
<1>1. r.ev \in Evaluations /\ r.q \in Qualities /\ r.during \in BOOLEAN /\ r.ev.sizes \in [Qualities -> Nat]
  BY ControlFields, EvaluationFields
<1>2. f \in [Qualities -> Nat]
  BY <1>1
<1>3. WithSize(r, l) = s
  BY Zenon DEF WithSize, WithRound, Controls
<1>. HIDE DEF f
<1>4. e \in Evaluations
  BY <1>1, <1>2 DEF Evaluations
<1>5. e.sizes = f /\ e.maxId = r.ev.maxId /\ e.type = r.ev.type /\ e.reason = r.ev.reason
  BY <1>1 DEF Evaluations
<1>. HIDE DEF e
<1>6. s \in Controls /\ s.during = r.during /\ s.ev = e /\ s.q = r.q /\ s.last = r.last /\ TimingKept(s, r)
  BY <1>1, <1>4, RoundReplaced
<1>. HIDE DEF s
<1>. QED BY <1>3, <1>5, <1>6, Zenon DEF f

\* Adjusting the parameters to the bit rate samples the last frame in a round, may begin one,
\* and outside of one looks at the drops.
LEMMA AdjustParamsKeep ==
  ASSUME NEW r \in Controls, RoundOK(r), NEW now \in Nat, FramesTimed(r, now), NEW src \in Nat, NEW at
  PROVE  LET s == AdjustParamsToBitRate(r, src, at)
         IN  /\ s \in Controls /\ TimingKept(s, r) /\ RoundOK(s)
             /\ Resampled(s, r)
<1>. DEFINE short == r.num < 3 /\ r.num < r.fps
            avg == IF short THEN 0 ELSE r.sum \div r.num
            fps == GetMaxFps(avg, r.rate)
            e == IF short THEN r
                 ELSE IF fps > r.fps /\ (r.fps < src \/ r.q < TopQuality) THEN SetUpgrade(r, "size")
                 ELSE IF fps < r.fps /\ fps < src THEN SetDowngrade(r, "size")
                 ELSE r
            s == AdjustParamsToBitRate(r, src, at)
<1>1. s = IF r.last = 0 THEN r
          ELSE IF r.during THEN EvalQuality(WithSize(r, r.last), src)
          ELSE IF r.num = 0 THEN r
          ELSE IF e.during THEN EvalQuality(WithSize(e, avg), src)
          ELSE ProcessServerDrops(e, src, at)
  BY Zenon DEF AdjustParamsToBitRate, WithSize
<1>2. /\ r.during \in BOOLEAN /\ r.last \in Nat /\ r.num \in Nat /\ r.sum \in Nat /\ r.q \in Qualities
      /\ r.fps \in Nat /\ r.fps >= 1
  BY ControlFields DEF MinFps, MaxFps
<1>3. TimingKept(r, r)
  BY Zenon DEF TimingKept
<1>4. CASE r.last = 0 \/ (~r.during /\ r.num = 0)
  <2>1. s = r
    BY <1>1, <1>4, Zenon
  <2>. HIDE DEF s
  <2>. QED BY <1>3, <1>4, <2>1, Zenon DEF s, Resampled
<1>5. CASE r.last # 0 /\ r.during
  <2>. DEFINE x == WithSize(r, r.last)
  <2>1. s = EvalQuality(x, src)
    BY <1>1, <1>5, Zenon
  <2>2. /\ x \in Controls /\ TimingKept(x, r) /\ x.during = r.during /\ x.q = r.q
        /\ x.ev.sizes = [r.ev.sizes EXCEPT ![r.q] = r.last] /\ x.ev.maxId = r.ev.maxId
        /\ x.ev.type = r.ev.type /\ x.ev.reason = r.ev.reason
    BY <1>2, SizeRecorded
  <2>3. r.q <= r.ev.maxId /\ (r.ev.type = "set" => r.ev.reason = "rate")
    BY <1>5, Zenon DEF RoundOK, RoundOpen
  <2>. HIDE DEF x, s
  <2>4. Advanced(s, x)
    BY <1>5, <2>1, <2>2, <2>3, EvalQualityAdvances, Zenon
  <2>5. TimingKept(s, r)
    BY <2>2, <2>4, TimingTransitive, Zenon DEF Advanced
  <2>. QED BY <1>5, <2>2, <2>4, <2>5, Zenon DEF Advanced, s, Resampled
<1>6. CASE r.last # 0 /\ ~r.during /\ r.num # 0
  <2>1. RoundOver(r)
    BY <1>6, Zenon DEF RoundOK
  <2>2. e = r \/ (~short /\ Begun(e, r, "size"))
    <3>1. Begun(SetUpgrade(r, "size"), r, "size") /\ Begun(SetDowngrade(r, "size"), r, "size")
      BY <2>1, SetRoundBegins
    <3>. HIDE DEF short, fps
    <3>. QED BY <3>1, Zenon
  <2>3. CASE e = r
    <3>. HIDE DEF e
    <3>1. s = ProcessServerDrops(r, src, at)
      BY <1>1, <1>6, <2>3, Zenon
    <3>2. s \in Controls /\ TimingKept(s, r) /\ RoundOK(s)
      BY <3>1, DropsKeep, Zenon
    <3>. HIDE DEF s
    <3>. QED BY <1>6, <3>2, Zenon DEF s, Resampled
  <2>4. CASE ~short /\ Begun(e, r, "size")
    <3>. DEFINE x == WithSize(e, avg)
    <3>1. avg \in Nat
      <4>1. r.num > 0 /\ avg = r.sum \div r.num
        BY <1>2, <2>4
      <4>. QED BY <1>2, <4>1, QuotientNat, Zenon
    <3>. HIDE DEF e, avg
    <3>2. s = EvalQuality(x, src)
      BY <1>1, <1>6, <2>4, Zenon DEF Begun
    <3>3. e \in Controls /\ TimingKept(e, r) /\ e.during /\ e.q <= e.ev.maxId /\ e.ev.type # "set"
      BY <2>4, Zenon DEF Begun, RoundOpen
    <3>4. /\ x \in Controls /\ TimingKept(x, e) /\ x.during = e.during /\ x.q = e.q
          /\ x.ev.maxId = e.ev.maxId /\ x.ev.type = e.ev.type
      BY <3>1, <3>3, SizeRecorded, Zenon
    <3>. HIDE DEF x, s
    <3>5. Advanced(s, x)
      BY <3>2, <3>3, <3>4, EvalQualityAdvances, Zenon
    <3>6. TimingKept(s, r)
      BY <3>3, <3>4, <3>5, TimingTransitive, Zenon DEF Advanced
    <3>. QED BY <1>6, <3>5, <3>6, Zenon DEF Advanced, s, Resampled
  <2>. QED BY <2>2, <2>3, <2>4, Zenon
<1>. QED BY <1>2, <1>4, <1>5, <1>6, Zenon

\* The ratio of the adjusted frame rate to the frame rate stays between one and two: it only
\* grows when the frames come too slowly and only shrinks when they come too fast.
LEMMA RatioBounded ==
  ASSUME NEW ratio \in 100 .. 200, NEW fps \in Nat, fps >= 1, NEW avg \in Nat, NEW src \in Nat
  PROVE  LET scaled == IF avg = 0 THEN 2 * ratio ELSE (ratio * fps * 100) \div avg
         IN  (IF avg + 50 < 100 * fps /\ 100 * src > avg THEN Min({200, scaled})
              ELSE IF 100 * fps + 50 < avg THEN Max({100, scaled})
              ELSE ratio) \in 100 .. 200
<1>. DEFINE top == ratio * fps * 100
            scaled == IF avg = 0 THEN 2 * ratio ELSE top \div avg
<1>1. top \in Nat /\ 100 * (fps * 100) <= top /\ top <= 200 * (fps * 100)
  <2>1. \A t \in 100 .. 200, f \in Nat : t * f \in Nat /\ 100 * f <= t * f /\ t * f <= 200 * f
    OBVIOUS
  <2>2. ratio * fps \in Nat /\ 100 * fps <= ratio * fps /\ ratio * fps <= 200 * fps
    BY <2>1
  <2>. QED BY <2>2
<1>. HIDE DEF top
<1>2. \A a, b \in Nat : b > 0 => /\ a \div b \in Nat
                                 /\ (100 * b <= a => 100 <= a \div b)
                                 /\ (a <= 200 * b => a \div b <= 200)
  OBVIOUS
<1>3. scaled \in Int
  BY <1>1, <1>2
<1>4. avg + 50 < 100 * fps => 100 <= scaled
  BY <1>1, <1>2
<1>5. 100 * fps + 50 < avg => scaled <= 200
  BY <1>1, <1>2
<1>. HIDE DEF scaled
<1>6. /\ Min({200, scaled}) = IF 200 <= scaled THEN 200 ELSE scaled
      /\ Max({100, scaled}) = IF 100 <= scaled THEN scaled ELSE 100
  <2>1. 100 \in Int /\ 200 \in Int
    OBVIOUS
  <2>. QED BY <1>3, <2>1, MinMaxOfTwo, Zenon
<1>7. avg + 50 < 100 * fps => Min({200, scaled}) \in 100 .. 200
  BY <1>3, <1>4, <1>6
<1>8. 100 * fps + 50 < avg => Max({100, scaled}) \in 100 .. 200
  BY <1>3, <1>5, <1>6
<1>. QED BY <1>7, <1>8, Zenon DEF scaled, top

\* What an adjustment of the frame rate or the end of a frame leaves alone.
RoundKept(s, r) ==
    s.during = r.during /\ s.ev = r.ev /\ s.q = r.q

\* Adjusting the frame rate changes the ratio within its bounds.
LEMMA AdjustFpsKeeps ==
  ASSUME NEW r \in Controls, NEW src \in Nat, NEW now \in Nat
  PROVE  LET s == AdjustFps(r, src, now)
         IN  s \in Controls /\ RoundKept(s, r) /\ s.last = r.last /\ TimingKept(s, r)
<1>. DEFINE passed == now - r.adjStart
            avg == (r.adjFrames * HundredthsPerMs) \div passed
            scaled == IF avg = 0 THEN 2 * r.ratio ELSE (r.ratio * r.fps * 100) \div avg
            ratio == IF avg + 50 < 100 * r.fps /\ 100 * src > avg THEN Min({200, scaled})
                     ELSE IF 100 * r.fps + 50 < avg THEN Max({100, scaled})
                     ELSE r.ratio
            s == AdjustFps(r, src, now)
<1>1. \/ s = r
      \/ passed > 500 /\ s = [r EXCEPT !.ratio = ratio, !.adjStart = now, !.adjFrames = 0]
  BY Zenon DEF AdjustFps
<1>2. CASE s = r
  <2>. HIDE DEF s
  <2>. QED BY <1>2, Zenon DEF s, RoundKept, TimingKept
<1>3. CASE passed > 500 /\ s = [r EXCEPT !.ratio = ratio, !.adjStart = now, !.adjFrames = 0]
  <2>1. /\ r.adjStart \in Nat /\ r.adjFrames \in Nat /\ r.ratio \in 100 .. 200
        /\ r.fps \in Nat /\ r.fps >= 1
    BY ControlFields DEF MinFps, MaxFps
  <2>2. avg \in Nat
    <3>. DEFINE x == r.adjFrames * HundredthsPerMs
    <3>1. x \in Nat /\ passed \in Nat /\ passed > 0
      BY <1>3, <2>1 DEF HundredthsPerMs
    <3>. HIDE DEF x, passed
    <3>2. x \div passed \in Nat
      BY <3>1, QuotientNat, Zenon
    <3>. QED BY <3>2, Zenon DEF x, passed
  <2>3. ratio \in 100 .. 200
    <3>. HIDE DEF avg
    <3>. QED BY <2>1, <2>2, RatioBounded, Zenon
  <2>. HIDE DEF ratio
  <2>. DEFINE t == [r EXCEPT !.ratio = ratio, !.adjStart = now, !.adjFrames = 0]
  <2>4. t \in Controls
    BY <2>3, Zenon DEF Controls
  <2>5. RoundKept(t, r) /\ t.last = r.last /\ TimingKept(t, r)
    BY DEF Controls, RoundKept, TimingKept
  <2>6. s = t
    BY <1>3, Zenon
  <2>. HIDE DEF t, s
  <2>. QED BY <2>4, <2>5, <2>6, Zenon DEF s
<1>. HIDE DEF s, ratio, passed
<1>. QED BY <1>1, <1>2, <1>3, Zenon DEF s

\* A frame that counts for the measured rate lies after every frame counted before.
FrameCounted(s, now) ==
    Counted(s) => /\ s.lastFrame = now /\ s.changeStart > 0
                  /\ s.encFrames > 0 => s.changeStart < now

\* Starting a frame that is not too early.
LEMMA StartFrameKeeps ==
  ASSUME NEW r \in Controls, RoundOK(r), NEW now \in Nat, FramesTimed(r, now), r.lastFrame < now,
         NEW src \in Nat
  PROVE  LET s == StartFrame(r, src, now)
         IN  /\ s \in Controls /\ RoundOK(s) /\ FramesTimed(s, now) /\ FrameCounted(s, now)
             /\ Resampled(s, r)
<1>. DEFINE t == AdjustParamsToBitRate(r, src, now)
            start == IF t.changeStart = 0 THEN now ELSE t.changeStart
            u == [t EXCEPT !.changeStart = start, !.lastFrame = now]
            s == StartFrame(r, src, now)
<1>1. /\ t \in Controls /\ TimingKept(t, r) /\ RoundOK(t)
      /\ Resampled(t, r)
  BY AdjustParamsKeep, Zenon
<1>2. s = IF Counted(t) THEN u ELSE t
  BY Zenon DEF StartFrame
<1>. HIDE DEF t
<1>3. /\ t.changeStart \in Nat /\ t.lastFrame \in Nat /\ t.encFrames \in Nat /\ r.lastFrame \in Nat
      /\ r.changeStart \in Nat /\ r.encFrames \in Nat
  BY <1>1, ControlFields
<1>4. FramesTimed(t, now) /\ t.lastFrame < now
  BY <1>1, <1>3 DEF FramesTimed, TimingKept
<1>5. start \in Nat /\ 0 < start /\ start <= now /\ (t.encFrames > 0 => start < now)
  BY <1>3, <1>4 DEF FramesTimed
<1>. HIDE DEF start
<1>6. u \in Controls
  <2>1. t \in Controls
    BY <1>1
  <2>. QED BY <1>5, <2>1, Zenon DEF Controls
<1>7. /\ RoundKept(u, t) /\ u.changeStart = start /\ u.lastFrame = now /\ u.encFrames = t.encFrames
  BY <1>1 DEF Controls, RoundKept
<1>. HIDE DEF u, s
<1>8. CASE Counted(t)
  <2>1. s = u
    BY <1>2, <1>8, Zenon
  <2>2. FramesTimed(u, now) /\ FrameCounted(u, now)
    BY <1>3, <1>5, <1>7 DEF FramesTimed, FrameCounted
  <2>3. RoundOK(u)
    BY <1>1, <1>7, Zenon DEF RoundOK, RoundOpen, RoundOver, RoundKept, Evaluated
  <2>. QED BY <1>1, <1>6, <1>7, <2>1, <2>2, <2>3, Zenon DEF RoundKept, s, Resampled
<1>9. CASE ~Counted(t)
  <2>1. s = t
    BY <1>2, <1>9, Zenon
  <2>2. FrameCounted(t, now)
    BY <1>9, Zenon DEF FrameCounted
  <2>. QED BY <1>1, <1>4, <2>1, <2>2, Zenon DEF s
<1>. QED BY <1>8, <1>9, Zenon

\* Ending a frame counts it.
LEMMA EndFrameKeeps ==
  ASSUME NEW r \in Controls, NEW size \in Nat, NEW now \in Nat, FramesTimed(r, now), FrameCounted(r, now)
  PROVE  LET s == EndFrame(r, size)
         IN  s \in Controls /\ RoundKept(s, r) /\ s.last = size /\ FramesTimed(s, now)
<1>. DEFINE c == [r EXCEPT !.last = size, !.encoded = r.encoded + 1]
            w == [c EXCEPT !.sum = IF r.num >= 3 THEN size ELSE c.sum + size,
                           !.num = IF r.num >= 3 THEN 1 ELSE c.num + 1, !.adjFrames = c.adjFrames + 1]
            b == IF r.during THEN c ELSE w
            d == [b EXCEPT !.encSum = b.encSum + size, !.encFrames = b.encFrames + 1]
            s == EndFrame(r, size)
            Same(x) == /\ RoundKept(x, r) /\ x.last = size /\ x.changeStart = r.changeStart
                       /\ x.lastFrame = r.lastFrame
<1>1. s = IF Counted(r) THEN d ELSE b
  BY Zenon DEF EndFrame
<1>2. c \in Controls /\ Same(c) /\ c.encFrames = r.encFrames
  <2>1. r.encoded + 1 \in Nat
    BY ControlFields
  <2>2. c \in Controls
    BY <2>1, Zenon DEF Controls
  <2>3. Same(c) /\ c.encFrames = r.encFrames
    BY DEF Controls, RoundKept
  <2>. QED BY <2>2, <2>3, Zenon
<1>. HIDE DEF c
<1>3. w \in Controls /\ Same(w) /\ w.encFrames = r.encFrames
  <2>. DEFINE x == IF r.num >= 3 THEN size ELSE c.sum + size
              y == IF r.num >= 3 THEN 1 ELSE c.num + 1
              z == c.adjFrames + 1
  <2>1. c \in Controls
    BY <1>2
  <2>2. x \in Nat /\ y \in Nat /\ z \in Nat
    BY <2>1, ControlFields
  <2>. HIDE DEF x, y, z
  <2>3. [c EXCEPT !.sum = x, !.num = y, !.adjFrames = z] \in Controls
    BY <2>1, <2>2, Zenon DEF Controls
  <2>4. LET v == [c EXCEPT !.sum = x, !.num = y, !.adjFrames = z]
        IN  Same(v) /\ v.encFrames = r.encFrames
    BY <1>2 DEF Controls, RoundKept
  <2>. QED BY <2>3, <2>4, Zenon DEF x, y, z
<1>. HIDE DEF w
<1>4. b \in Controls /\ Same(b) /\ b.encFrames = r.encFrames
  BY <1>2, <1>3, Zenon
<1>. HIDE DEF b
<1>5. d \in Controls /\ Same(d) /\ d.encFrames = r.encFrames + 1
  <2>. DEFINE x == b.encSum + size
              y == b.encFrames + 1
  <2>1. b \in Controls
    BY <1>4
  <2>2. x \in Nat /\ y \in Nat
    BY <2>1, ControlFields
  <2>. HIDE DEF x
  <2>3. d \in Controls
    <3>. HIDE DEF y
    <3>1. [b EXCEPT !.encSum = x, !.encFrames = y] \in Controls
      BY <2>1, <2>2, Zenon DEF Controls
    <3>. QED BY <3>1, Zenon DEF x, y
  <2>4. LET v == [b EXCEPT !.encSum = x, !.encFrames = y]
        IN  Same(v) /\ v.encFrames = r.encFrames + 1
    BY <1>4, <2>2 DEF Controls, RoundKept
  <2>. QED BY <2>3, <2>4, Zenon DEF x
<1>. HIDE DEF d, s
<1>6. r.changeStart \in Nat /\ r.lastFrame \in Nat /\ r.encFrames \in Nat
  BY ControlFields
<1>7. CASE Counted(r)
  <2>1. s = d
    BY <1>1, <1>7, Zenon
  <2>2. FramesTimed(d, now)
    BY <1>5, <1>6, <1>7 DEF FramesTimed, FrameCounted
  <2>. QED BY <1>5, <2>1, <2>2, Zenon DEF s
<1>8. CASE ~Counted(r)
  <2>1. s = b
    BY <1>1, <1>8, Zenon
  <2>2. FramesTimed(b, now)
    BY <1>4, <1>6 DEF FramesTimed
  <2>. QED BY <1>4, <2>1, <2>2, Zenon DEF s
<1>. QED BY <1>7, <1>8, Zenon

\* A round that has just begun has no frames; one that was left alone keeps its frames.
LEMMA FramesOfKept ==
  ASSUME FiniteSizes, NEW r \in Controls, NEW s \in Controls, NEW n \in Nat, FramesOf(r, n)
  PROVE  /\ FramesOf(s, 0)
         /\ RoundKept(s, r) /\ s.last = r.last => FramesOf(s, n)
<1>1. s.ev.sizes \in [Qualities -> Nat]
  BY ControlFields, EvaluationFields
<1>2. Cardinality(SampledIn(s.ev.sizes)) \in Nat
  BY <1>1, SampledBound, Zenon
<1>3. FramesOf(s, 0)
  BY <1>2 DEF FramesOf
<1>4. RoundKept(s, r) /\ s.last = r.last => FramesOf(s, n)
  BY Zenon DEF FramesOf, RoundKept
<1>. QED BY <1>3, <1>4, Zenon

\* What is left alone in a round stays right.
LEMMA RoundOKKept ==
  ASSUME NEW r, NEW s, RoundOK(r), RoundKept(s, r)
  PROVE  RoundOK(s)
BY Zenon DEF RoundOK, RoundOpen, RoundOver, RoundKept, Evaluated

\* The counted frames stay timed as time passes.
LEMMA TimedKept ==
  ASSUME NEW r \in Controls, NEW s \in Controls, NEW now \in Nat, NEW later \in Nat, now <= later,
         FramesTimed(r, now), TimingKept(s, r)
  PROVE  FramesTimed(s, later)
BY ControlFields DEF FramesTimed, TimingKept

\* The frames of a round after a frame is encoded in it: the one before was sampled, this one
\* is the last.
LEMMA FramesOfNext ==
  ASSUME FiniteSizes, NEW r \in Controls, RoundOK(r), NEW n \in Nat, FramesOf(r, n), NEW s \in Controls, NEW size \in Nat,
         s.last = size,
         Resampled(s, r)
  PROVE  FramesOf(s, IF ~s.during THEN 0
                     ELSE (IF r.during THEN n ELSE 0) + (IF size = 0 THEN 0 ELSE 1))
<1>1. /\ s.ev.sizes \in [Qualities -> Nat] /\ r.ev.sizes \in [Qualities -> Nat]
      /\ r.q \in Qualities /\ r.last \in Nat
  BY ControlFields, EvaluationFields
<1>2. Cardinality(SampledIn(s.ev.sizes)) \in Nat /\ Cardinality(SampledIn(r.ev.sizes)) \in Nat
  BY <1>1, SampledBound, Zenon
<1>3. CASE ~s.during
  BY <1>3, Zenon DEF FramesOf
<1>4. CASE s.during /\ ~r.during
  BY <1>2, <1>4 DEF FramesOf
<1>5. CASE s.during /\ r.during
  <2>1. n <= Cardinality(SampledIn(s.ev.sizes))
    <3>1. CASE r.last = 0
      BY <1>2, <1>5, <3>1 DEF FramesOf, Resampled
    <3>2. CASE r.last # 0
      <4>1. r.ev.sizes[r.q] = 0
        BY <1>5, Zenon DEF RoundOK, RoundOpen, Evaluated
      <4>2. Cardinality(SampledIn([r.ev.sizes EXCEPT ![r.q] = r.last])) = Cardinality(SampledIn(r.ev.sizes)) + 1
        BY <1>1, <3>2, <4>1, OneMoreSampled
      <4>3. s.ev.sizes = [r.ev.sizes EXCEPT ![r.q] = r.last]
        BY <1>5, <3>2, Zenon DEF Resampled
      <4>4. Cardinality(SampledIn(s.ev.sizes)) = Cardinality(SampledIn(r.ev.sizes)) + 1
        BY <4>2, <4>3, Zenon
      <4>5. n <= Cardinality(SampledIn(r.ev.sizes)) + 1
        BY <1>5, <3>2, Zenon DEF FramesOf
      <4>. QED BY <4>4, <4>5
    <3>. QED BY <3>1, <3>2, Zenon
  <2>. QED BY <1>2, <1>5, <2>1 DEF FramesOf
<1>. QED BY <1>3, <1>4, <1>5, Zenon

\* The control as the encoder is created with it, at the start of a round.
LEMMA MjpegStart ==
  ASSUME FiniteSizes, MjpegInit
  PROVE  MjpegInductive
<1>. DEFINE z == [during |-> FALSE, ev |-> FreshEval, rate |-> StartRate, q |-> Median, fps |-> 0,
                  ratio |-> 150, adjStart |-> 0, adjFrames |-> 0, last |-> 0, sum |-> 0, num |-> 0,
                  warm |-> 1, changeStart |-> 0, lastFrame |-> 0, upgraded |-> FALSE, encFrames |-> 0,
                  encSum |-> 0, encoded |-> 0, dropped |-> 0, maxVideo |-> 0, maxAudio |-> 0]
            y == ResetQuality(z, Median, 5)
            e == [FreshEval EXCEPT !.reason = "rate"]
<1>1. Median \in Qualities /\ 5 \in Int
  BY DEF Median, Qualities, TopQuality
<1>2. z \in NewControls /\ z.changeStart = 0 /\ z.lastFrame = 0 /\ z.encFrames = 0
  BY <1>1, FreshEvalOK, MjpegAssumption DEF NewControls
<1>. HIDE DEF z
<1>3. y \in Controls /\ RoundOver(y) /\ TimingKept(y, z) /\ y.q = Median
  BY <1>1, <1>2, ResetQualitySets, Zenon
<1>4. e \in Evaluations /\ e.type = "set" /\ e.reason = "rate" /\ e.maxId = TopQuality /\ e.sizes[Median] = 0
  BY <1>1, FreshEvalOK DEF Evaluations
<1>5. MjpegNew = [y EXCEPT !.during = TRUE, !.ev.reason = "rate"]
  BY Zenon DEF MjpegNew, z
<1>. HIDE DEF y
<1>6. MjpegNew = WithRound(y, TRUE, e)
  BY <1>3, <1>5, Zenon DEF WithRound, RoundOver, Controls
<1>. HIDE DEF e
<1>7. /\ MjpegNew \in Controls /\ MjpegNew.during /\ MjpegNew.ev = e /\ MjpegNew.q = y.q
      /\ TimingKept(MjpegNew, y)
  BY <1>3, <1>4, <1>6, RoundReplaced, Zenon
<1>8. RoundOpen(MjpegNew)
  BY <1>3, <1>4, <1>7 DEF RoundOpen, Evaluated, Median, TopQuality
<1>9. FramesTimed(MjpegNew, 1)
  BY <1>2, <1>3, <1>7 DEF FramesTimed, TimingKept
<1>10. FramesOf(MjpegNew, 0)
  <2>1. MjpegNew.ev.sizes \in [Qualities -> Nat] /\ MjpegNew.last \in Nat
    BY <1>7, ControlFields, EvaluationFields
  <2>2. Cardinality(SampledIn(MjpegNew.ev.sizes)) \in Nat
    BY <2>1, SampledBound, Zenon
  <2>. QED BY <2>2 DEF FramesOf
<1>. QED BY <1>7, <1>8, <1>9, <1>10 DEF MjpegInit, MjpegInductive, RoundOK

\* Encoding a frame, or refusing it because it is too early.
LEMMA EncodeStep ==
  ASSUME FiniteSizes, MjpegInductive, NEW gap \in FrameGaps, NEW src \in SourceFps, NEW size \in FrameSizes \cup {0},
         EncodeFrame(gap, src, size)
  PROVE  MjpegInductive'
<1>. DEFINE now == clock + gap
            b == IF rc.adjStart = 0 THEN [rc EXCEPT !.adjStart = now] ELSE rc
            a == AdjustFps(b, src, now)
            early == (now - a.lastFrame) * a.fps * a.ratio < HundredthsPerMs
            s == StartFrame(a, src, now)
            frames == IF ~s.during THEN 0
                      ELSE (IF rc.during THEN round ELSE 0) + (IF size = 0 THEN 0 ELSE 1)
            t == IF size = 0 THEN [s EXCEPT !.last = 0] ELSE EndFrame(s, size)
<1>1. /\ clock' = now /\ calls' = calls + 1
      /\ rc' = IF early THEN a ELSE t
      /\ round' = IF early THEN round ELSE frames
  BY Zenon DEF EncodeFrame
<1>2. /\ rc \in Controls /\ clock \in Nat \ {0} /\ calls \in Nat /\ round \in Nat
      /\ RoundOK(rc) /\ FramesTimed(rc, clock) /\ FramesOf(rc, round)
  BY Zenon DEF MjpegInductive
<1>3. now \in Nat \ {0} /\ now \in Nat /\ clock \in Nat /\ clock <= now /\ src \in Nat /\ size \in Nat
  BY <1>2, MjpegAssumption
<1>. HIDE DEF now
<1>4. b \in Controls /\ RoundKept(b, rc) /\ b.last = rc.last /\ TimingKept(b, rc)
  <2>. DEFINE v == [rc EXCEPT !.adjStart = now]
  <2>1. rc \in Controls
    BY <1>2
  <2>2. v \in Controls
    BY <1>3, <2>1 DEF Controls
  <2>3. RoundKept(v, rc) /\ v.last = rc.last /\ TimingKept(v, rc)
    BY <2>1 DEF Controls, RoundKept, TimingKept
  <2>4. RoundKept(rc, rc) /\ TimingKept(rc, rc)
    BY Zenon DEF RoundKept, TimingKept
  <2>. HIDE DEF v
  <2>. QED BY <2>1, <2>2, <2>3, <2>4, Zenon DEF v
<1>. HIDE DEF b
<1>5. a \in Controls /\ RoundKept(a, rc) /\ a.last = rc.last /\ TimingKept(a, rc)
  <2>1. a \in Controls /\ RoundKept(a, b) /\ a.last = b.last /\ TimingKept(a, b)
    BY <1>3, <1>4, AdjustFpsKeeps, Zenon
  <2>. HIDE DEF a
  <2>2. TimingKept(a, rc)
    <3>1. TimingKept(b, rc) /\ TimingKept(a, b)
      BY <1>4, <2>1, Zenon
    <3>. QED BY <3>1, TimingTransitive, Zenon
  <2>. QED BY <1>4, <2>1, <2>2, Zenon DEF RoundKept
<1>. HIDE DEF a
<1>6. RoundOK(a) /\ FramesTimed(a, now) /\ FramesOf(a, round)
  BY <1>2, <1>3, <1>5, RoundOKKept, TimedKept, FramesOfKept, Zenon
<1>7. CASE early
  <2>. HIDE DEF early, t, frames
  <2>1. rc' = a /\ round' = round
    BY <1>1, <1>7, Zenon
  <2>2. calls' \in Nat
    BY <1>1, <1>2
  <2>. QED BY <1>1, <1>2, <1>3, <1>5, <1>6, <2>1, <2>2, Zenon DEF MjpegInductive
<1>8. CASE ~early
  <2>1. a.lastFrame < now
    <3>1. a.lastFrame \in Nat /\ a.lastFrame <= now /\ a.fps \in Nat /\ a.ratio \in Nat
      BY <1>5, <1>6, ControlFields DEF FramesTimed, MinFps, MaxFps
    <3>2. ASSUME a.lastFrame = now PROVE FALSE
      <4>1. now - a.lastFrame = 0
        BY <1>3, <3>2
      <4>2. 0 * a.fps * a.ratio < HundredthsPerMs
        BY <3>1 DEF HundredthsPerMs
      <4>. QED BY <1>8, <4>1, <4>2, Zenon
    <3>. QED BY <1>3, <3>1, <3>2
  <2>2. /\ s \in Controls /\ RoundOK(s) /\ FramesTimed(s, now) /\ FrameCounted(s, now)
        /\ Resampled(s, a)
    BY <1>3, <1>5, <1>6, <2>1, StartFrameKeeps, Zenon
  <2>. HIDE DEF s
  <2>3. t \in Controls /\ RoundKept(t, s) /\ t.last = size /\ FramesTimed(t, now)
    <3>1. CASE size = 0
      <4>. DEFINE v == [s EXCEPT !.last = 0]
      <4>1. s \in Controls
        BY <2>2
      <4>2. v \in Controls
        BY <4>1 DEF Controls
      <4>3. RoundKept(v, s) /\ v.last = 0 /\ TimingKept(v, s)
        BY <4>1 DEF Controls, RoundKept, TimingKept
      <4>. HIDE DEF v
      <4>4. FramesTimed(v, now)
        <5>1. now <= now
          BY <1>3
        <5>. QED BY <1>3, <2>2, <4>2, <4>3, <5>1, TimedKept, Zenon
      <4>5. t = v
        BY <3>1, Zenon DEF v
      <4>. HIDE DEF t
      <4>. QED BY <3>1, <4>2, <4>3, <4>4, <4>5, Zenon
    <3>2. CASE size # 0
      <4>1. t = EndFrame(s, size)
        BY <3>2, Zenon
      <4>. HIDE DEF t
      <4>. QED BY <1>3, <2>2, <4>1, EndFrameKeeps, Zenon
    <3>. QED BY <3>1, <3>2, Zenon
  <2>. HIDE DEF t
  <2>4. RoundOK(t)
    BY <2>2, <2>3, RoundOKKept, Zenon
  <2>5. FramesOf(t, frames)
    <3>1. /\ Resampled(t, a)
          /\ t.during = s.during /\ a.during = rc.during
      BY <1>5, <2>2, <2>3, Zenon DEF RoundKept, Resampled
    <3>2. FramesOf(t, IF ~t.during THEN 0 ELSE (IF a.during THEN round ELSE 0) + (IF size = 0 THEN 0 ELSE 1))
      BY <1>2, <1>3, <1>5, <1>6, <2>3, <3>1, FramesOfNext, Zenon
    <3>. QED BY <3>1, <3>2, Zenon
  <2>6. frames \in Nat /\ calls' \in Nat
    BY <1>1, <1>2
  <2>. HIDE DEF frames, early
  <2>7. rc' = t /\ round' = frames
    BY <1>1, <1>8, Zenon
  <2>. QED BY <1>1, <1>3, <2>3, <2>4, <2>5, <2>6, <2>7, Zenon DEF MjpegInductive
<1>. HIDE DEF early
<1>. QED BY <1>7, <1>8, Zenon

\* A frame dropped by the server.
LEMMA DropStep ==
  ASSUME FiniteSizes, MjpegInductive, NEW src \in SourceFps, NotifyServerFrameDrop(src)
  PROVE  MjpegInductive'
<1>. DEFINE r == [rc EXCEPT !.dropped = rc.dropped + 1]
            s == ProcessServerDrops(r, src, clock)
<1>1. /\ rc' = s /\ clock' = clock /\ calls' = calls + 1
      /\ round' = IF TooManyDropped(r, src) THEN 0 ELSE round
  BY Zenon DEF NotifyServerFrameDrop
<1>2. /\ rc \in Controls /\ clock \in Nat \ {0} /\ calls \in Nat /\ round \in Nat
      /\ RoundOK(rc) /\ FramesTimed(rc, clock) /\ FramesOf(rc, round)
  BY Zenon DEF MjpegInductive
<1>3. clock \in Nat /\ clock <= clock /\ src \in Nat /\ calls' \in Nat
  BY <1>1, <1>2, MjpegAssumption
<1>4. r \in Controls /\ RoundKept(r, rc) /\ r.last = rc.last /\ TimingKept(r, rc)
  <2>1. rc \in Controls /\ rc.dropped + 1 \in Nat
    BY <1>2, ControlFields
  <2>2. r \in Controls
    BY <2>1 DEF Controls
  <2>3. RoundKept(r, rc) /\ r.last = rc.last /\ TimingKept(r, rc)
    BY <2>1 DEF Controls, RoundKept, TimingKept
  <2>. QED BY <2>2, <2>3, Zenon
<1>. HIDE DEF r
<1>5. RoundOK(r) /\ FramesTimed(r, clock)
  BY <1>2, <1>3, <1>4, RoundOKKept, TimedKept, Zenon
<1>6. /\ s \in Controls /\ TimingKept(s, r) /\ RoundOK(s)
      /\ ~TooManyDropped(r, src) => s.during = r.during /\ s.ev = r.ev /\ s.last = r.last
  BY <1>3, <1>4, <1>5, DropsKeep, Zenon
<1>. HIDE DEF s
<1>7. FramesTimed(s, clock)
  BY <1>3, <1>4, <1>5, <1>6, TimedKept, Zenon
<1>8. FramesOf(s, 0)
  BY <1>2, <1>6, FramesOfKept, Zenon
<1>9. ~TooManyDropped(r, src) => FramesOf(s, round)
  BY <1>2, <1>4, <1>6, Zenon DEF FramesOf, RoundKept
<1>10. round' \in Nat /\ FramesOf(s, round')
  <2>1. 0 \in Nat
    OBVIOUS
  <2>. QED BY <1>1, <1>2, <1>8, <1>9, <2>1, Zenon
<1>. QED BY <1>1, <1>2, <1>3, <1>6, <1>7, <1>10, Zenon DEF MjpegInductive

\* A report that leaves the round alone, ends it, or begins another for the bit rate.
Reported(s, r) ==
    /\ s \in Controls /\ TimingKept(s, r) /\ RoundOK(s)
    /\ \/ RoundKept(s, r) /\ s.last = r.last
       \/ ~s.during
       \/ s.during /\ s.ev.type # "set" /\ s.ev.reason = "rate" /\ (r.ev.reason = "rate" => s.ev.type # r.ev.type)

\* The client's report of how its frames were shown.
LEMMA ReportStep ==
  ASSUME FiniteSizes, MjpegInductive, NEW src \in SourceFps, NEW rep \in Reports, StreamReport(rep, src)
  PROVE  MjpegInductive'
<1>. DEFINE k == [rc EXCEPT !.maxVideo = Max({rc.maxVideo, rep.delay}), !.maxAudio = Max({rc.maxAudio, rep.audio})]
            end == clock - rep.end
            start == clock - rep.age
<1>1. /\ clock' = clock /\ calls' = calls + 1
      /\ ~(rc.during /\ rc.ev.type = "downgrade" /\ rc.ev.reason = "rate")
      /\ \/ rc' = NegativeReport(rc, end, clock)
         \/ rc' = NegativeReport(k, end, clock)
         \/ rc' = PositiveReport(k, start, src)
         \/ rc' = k
      /\ round' = IF rc'.ev = rc.ev THEN round ELSE 0
  BY DEF StreamReport
<1>2. /\ rc \in Controls /\ clock \in Nat \ {0} /\ calls \in Nat /\ round \in Nat
      /\ RoundOK(rc) /\ FramesTimed(rc, clock) /\ FramesOf(rc, round)
  BY Zenon DEF MjpegInductive
<1>3. clock \in Nat /\ clock <= clock /\ src \in Nat /\ calls' \in Nat /\ rep.delay \in Int /\ rep.audio \in Int
  BY <1>1, <1>2, MjpegAssumption
<1>4. k \in Controls /\ RoundKept(k, rc) /\ k.last = rc.last /\ TimingKept(k, rc)
  <2>. DEFINE v == Max({rc.maxVideo, rep.delay})
              a == Max({rc.maxAudio, rep.audio})
  <2>1. rc \in Controls /\ rc.maxVideo \in Int /\ rc.maxAudio \in Int
    BY <1>2, ControlFields
  <2>2. v \in Int /\ a \in Int
    <3>1. v = IF rc.maxVideo <= rep.delay THEN rep.delay ELSE rc.maxVideo
      BY <1>3, <2>1, MinMaxOfTwo, Zenon
    <3>2. a = IF rc.maxAudio <= rep.audio THEN rep.audio ELSE rc.maxAudio
      BY <1>3, <2>1, MinMaxOfTwo, Zenon
    <3>. QED BY <1>3, <2>1, <3>1, <3>2, Zenon
  <2>. HIDE DEF v, a
  <2>3. [rc EXCEPT !.maxVideo = v, !.maxAudio = a] \in Controls
    BY <2>1, <2>2, Zenon DEF Controls
  <2>4. LET x == [rc EXCEPT !.maxVideo = v, !.maxAudio = a]
        IN  RoundKept(x, rc) /\ x.last = rc.last /\ TimingKept(x, rc)
    BY <2>1 DEF Controls, RoundKept, TimingKept
  <2>. QED BY <2>3, <2>4, Zenon DEF v, a
<1>. HIDE DEF k, end, start
<1>5. RoundOK(k) /\ FramesTimed(k, clock)
  BY <1>2, <1>3, <1>4, RoundOKKept, TimedKept, Zenon
<1>6. RoundKept(rc, rc) /\ TimingKept(rc, rc)
  BY Zenon DEF RoundKept, TimingKept
<1>7. ASSUME NEW x, x \in Controls, RoundKept(x, rc), x.last = rc.last, TimingKept(x, rc), RoundOK(x),
             FramesTimed(x, clock)
      PROVE  /\ Reported(x, rc)
             /\ rc' = NegativeReport(x, end, clock) => Reported(rc', rc)
             /\ rc' = PositiveReport(x, start, src) => Reported(rc', rc)
  <2>1. Reported(x, rc)
    BY <1>7, Zenon DEF Reported
  <2>2. ASSUME rc' = NegativeReport(x, end, clock)
        PROVE  Reported(rc', rc)
    <3>1. rc' = x \/ rc' = DecreaseBitRate(x, clock)
      BY <2>2, Zenon DEF NegativeReport
    <3>2. CASE rc' = DecreaseBitRate(x, clock)
      <4>1. /\ rc' \in Controls /\ TimingKept(rc', x) /\ RoundOK(rc')
            /\ rc'.during => rc'.ev.type = "downgrade" /\ rc'.ev.reason = "rate"
        BY <1>3, <1>7, <3>2, DecreaseKeeps, Zenon
      <4>2. TimingKept(rc', rc)
        BY <1>7, <4>1, TimingTransitive, Zenon
      <4>3. ~rc.during => rc.ev.reason = "size"
        BY <1>2, FreshEvalOK, Zenon DEF RoundOK, RoundOver
      <4>4. rc.ev.reason = "rate" => rc.ev.type # "downgrade"
        BY <1>1, <4>3
      <4>. QED BY <4>1, <4>2, <4>4 DEF Reported
    <3>. QED BY <2>1, <3>1, <3>2, Zenon
  <2>3. ASSUME rc' = PositiveReport(x, start, src)
        PROVE  Reported(rc', rc)
    <3>1. rc' = x \/ (rc' = IncreaseBitRate(x) /\ ~(x.during /\ x.ev.reason = "rate"))
      BY <2>3 DEF PositiveReport
    <3>2. CASE rc' = IncreaseBitRate(x) /\ ~(x.during /\ x.ev.reason = "rate")
      <4>1. \/ rc' = x
            \/ /\ rc' \in Controls /\ TimingKept(rc', x) /\ RoundOK(rc')
               /\ rc'.during /\ rc'.ev.type # "set" /\ rc'.ev.reason = "rate"
        BY <1>3, <1>7, <3>2, IncreaseKeeps, Zenon
      <4>2. TimingKept(rc', x) => TimingKept(rc', rc)
        BY <1>7, TimingTransitive, Zenon
      <4>3. ~rc.during => rc.ev.reason = "size"
        BY <1>2, FreshEvalOK, Zenon DEF RoundOK, RoundOver
      <4>4. rc.ev.reason # "rate"
        BY <1>7, <3>2, <4>3 DEF RoundKept
      <4>. QED BY <2>1, <4>1, <4>2, <4>4, Zenon DEF Reported
    <3>. QED BY <2>1, <3>1, <3>2, Zenon
  <2>. QED BY <2>1, <2>2, <2>3, Zenon
<1>8. Reported(rc', rc)
  BY <1>1, <1>2, <1>4, <1>5, <1>6, <1>7, Zenon
<1>9. FramesTimed(rc', clock)
  BY <1>2, <1>3, <1>8, TimedKept, Zenon DEF Reported
<1>10. FramesOf(rc', 0)
  BY <1>2, <1>8, FramesOfKept, Zenon DEF Reported
<1>11. ASSUME rc'.ev = rc.ev PROVE FramesOf(rc', round)
  <2>1. CASE RoundKept(rc', rc) /\ rc'.last = rc.last
    BY <1>2, <1>8, <2>1, FramesOfKept, Zenon DEF Reported
  <2>2. CASE ~rc'.during
    <3>1. rc.ev = FreshEval
      BY <1>8, <1>11, <2>2, Zenon DEF Reported, RoundOK, RoundOver
    <3>2. ~rc.during
      BY <1>2, <3>1, FreshEvalOK DEF RoundOK, RoundOpen
    <3>. QED BY <1>2, <2>2, <3>2, Zenon DEF FramesOf
  <2>. QED BY <1>8, <1>11, <2>1, <2>2, Zenon DEF Reported
<1>12. round' \in Nat /\ FramesOf(rc', round')
  <2>1. 0 \in Nat
    OBVIOUS
  <2>. QED BY <1>1, <1>2, <1>10, <1>11, <2>1, Zenon
<1>. QED BY <1>1, <1>2, <1>3, <1>8, <1>9, <1>12, Zenon DEF MjpegInductive, Reported

-----------------------------------------------------------------------------
(* The results *)

INSTANCE FiniteSetTheorems

\* The sizes are as the library has them.
LEMMA FiniteSizesKnown == FiniteSizes
<1>1. Cardinality({}) = 0 BY FS_EmptySet
<1>2. ASSUME NEW n \in Nat PROVE IsFiniteSet(0 .. n) /\ Cardinality(0 .. n) = n + 1
  <2>1. 0 \in Int /\ n \in Int /\ ~(0 > n) /\ n - 0 + 1 = n + 1 OBVIOUS
  <2> QED BY <2>1, FS_Interval
<1>3. ASSUME NEW S, IsFiniteSet(S)
      PROVE  /\ Cardinality(S) \in Nat /\ (Cardinality(S) = 0 => S = {})
             /\ \A T \in SUBSET S : IsFiniteSet(T) /\ Cardinality(T) <= Cardinality(S)
             /\ \A x \in S : Cardinality(S \ {x}) = Cardinality(S) - 1
             /\ \A x : x \notin S => Cardinality(S \cup {x}) = Cardinality(S) + 1
  <2>1. Cardinality(S) \in Nat /\ (Cardinality(S) = 0 => S = {}) BY <1>3, FS_CardinalityType, FS_EmptySet
  <2>2. \A T \in SUBSET S : IsFiniteSet(T) /\ Cardinality(T) <= Cardinality(S) BY <1>3, FS_Subset, Zenon
  <2>3. \A x \in S : Cardinality(S \ {x}) = Cardinality(S) - 1 BY <1>3, FS_RemoveElement, Zenon
  <2>4. \A x : x \notin S => Cardinality(S \cup {x}) = Cardinality(S) + 1 BY <1>3, FS_AddElement, Zenon
  <2> QED BY <2>1, <2>2, <2>3, <2>4, Zenon
<1> QED BY <1>1, <1>2, <1>3, Zenon DEF FiniteSizes

\* A drawing of the emulator is completed once, when every client told of it has shown it or
\* is gone, and a client that did not migrate draws from the drawing's buffer, for any number
\* of clients, buffers and calls (red_qxl_gl_draw_async_complete, dcc_handle_gl_draw_done).
THEOREM AlwaysGlDrawsCompleted == GlSpec => []GlDrawsCompleted
<1>1. GlInductive => GlDrawsCompleted
  <2> SUFFICES ASSUME GlInductive PROVE GlDrawsCompleted OBVIOUS
  <2>0. GlTypeOK /\ OngoingOwed /\ CookieKept /\ Informed /\ gl.count \in Nat
    BY DEF GlInductive, GlTypeOK, GlRecord
  <2>1. gl.count = Cardinality({c \in GlClients : gcl[c].ongoing}) BY <2>0 DEF OngoingOwed, Ongoing
  <2>2. ASSUME NEW k \in DOMAIN gdraw
        PROVE  /\ gdraw[k].done =< 1
               /\ gdraw[k].done = 0 =>
                     \/ gl.answer = k
                     \/ gl.cookie = k /\ (gl.count > 0 \/ Has(gl.msgs, "draw"))
    <3>1. k # NoDraw
      <4>1. gdraw \in Seq([fd : Nat, done : Nat]) BY <2>0 DEF GlTypeOK
      <4>2. DOMAIN gdraw = 1 .. Len(gdraw) BY <4>1
      <4> QED BY <4>1, <4>2 DEF NoDraw
    <3> QED BY <2>0, <3>1 DEF CookieKept
  <2>3. ASSUME NEW c \in GlClients
        PROVE  (gcl[c].todo > 0 => gcl[c].ongoing) /\ (gcl[c].blind => gcl[c].migrated)
    BY <2>0 DEF OngoingOwed, Informed
  <2> QED BY <2>1, <2>2, <2>3 DEF GlDrawsCompleted, Has
<1> QED BY <1>1, GlInitInductive, GlStepInductive, FiniteSizesKnown, PTL DEF GlSpec

\* The invariant holds of the encoder at every call.
LEMMA MjpegInvariant ==
  MjpegSpec => []MjpegInductive
<1>1. ASSUME MjpegInductive, [MjpegNext]_mjpegVars
      PROVE  MjpegInductive'
  <2>1. CASE UNCHANGED mjpegVars
    BY <1>1, <2>1, Zenon DEF MjpegInductive, mjpegVars
  <2>2. CASE MjpegNext
    <3>1. PICK src \in SourceFps :
            \/ \E gap \in FrameGaps, size \in FrameSizes \cup {0} : EncodeFrame(gap, src, size)
            \/ NotifyServerFrameDrop(src)
            \/ \E rep \in Reports : rep.age < clock /\ StreamReport(rep, src)
      BY <2>2, Zenon DEF MjpegNext
    <3>. QED BY <1>1, <3>1, EncodeStep, DropStep, ReportStep, FiniteSizesKnown, Zenon
  <2>. QED BY <1>1, <2>1, <2>2, Zenon
<1>. QED BY <1>1, MjpegStart, FiniteSizesKnown, PTL DEF MjpegSpec

\* QualityRoundEnds for any sizes of the frames, any frame rates of the source, any times
\* between frames, any reports and any number of calls.
THEOREM AlwaysQualityRoundEnds ==
  MjpegSpec => []QualityRoundEnds
<1>1. ASSUME MjpegInductive
      PROVE  QualityRoundEnds
  <2>1. /\ rc \in Controls /\ clock \in Nat \ {0} /\ round \in Nat
        /\ RoundOK(rc) /\ FramesTimed(rc, clock) /\ FramesOf(rc, round)
    BY <1>1, Zenon DEF MjpegInductive
  <2>2. /\ rc.q \in Qualities /\ rc.fps \in MinFps .. MaxFps /\ rc.ratio \in 100 .. 200
        /\ rc.ev.sizes \in [Qualities -> Nat] /\ rc.encFrames \in Nat
        /\ rc.changeStart \in Nat /\ rc.lastFrame \in Nat
    BY <2>1, ControlFields, EvaluationFields
  <2>3. /\ Cardinality(SampledIn(rc.ev.sizes)) \in Nat /\ Cardinality(Qualities) = 7
        /\ \A q \in Qualities : rc.ev.sizes[q] = 0 => Cardinality(SampledIn(rc.ev.sizes)) <= 6
    BY <2>2, SampledBound, FiniteSizesKnown, Zenon
  <2>4. rc.during => RoundOpen(rc)
    BY <2>1, Zenon DEF RoundOK
  <2>5. round <= Cardinality(Qualities)
    <3>1. CASE ~rc.during
      BY <2>1, <2>3, <3>1 DEF FramesOf
    <3>2. CASE rc.during
      <4>1. Cardinality(SampledIn(rc.ev.sizes)) <= 6
        BY <2>2, <2>3, <2>4, <3>2, Zenon DEF RoundOpen, Evaluated
      <4>. QED BY <2>1, <2>3, <3>2, <4>1 DEF FramesOf
    <3>. QED BY <3>1, <3>2, Zenon
  <2>6. Measurable(rc) => rc.lastFrame > rc.changeStart
    BY <2>1, <2>2 DEF Measurable, FramesTimed, MinFps, MaxFps
  <2>. QED BY <2>2, <2>4, <2>5, <2>6, Zenon DEF QualityRoundEnds, RoundOpen
<1>. QED BY <1>1, MjpegInvariant, PTL

=============================================================================
