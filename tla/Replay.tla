------------------------------- MODULE Replay -------------------------------
(***************************************************************************)
(* Recording a guest's commands and replaying them (red-record-qxl.cpp,      *)
(* red-replay-qxl.cpp).  The worker writes every command it takes and every  *)
(* message it is sent; the file may end inside the last of them.  Later one  *)
(* thread reads the file back, gives surfaces identifiers of its own and     *)
(* queues commands, while a worker takes them and releases them when it      *)
(* likes, which frees the buffers of the command and the identifier of a     *)
(* destroyed surface.                                                        *)
(*                                                                         *)
(* A line of the file is a token [tag, val]; the numbers a command carries   *)
(* along and never decide by are left out, and lines that are always written *)
(* together are one token.                                                   *)
(***************************************************************************)
EXTENDS Integers, Sequences, FiniteSets, SequencesExt

CONSTANTS RecDrawings,  \* drawings of the guest, see Shape
          RecSurfaces,  \* identifiers the guest gives to off-screen surfaces
          NSurfaces,    \* values of spice_replay_new's nsurfaces, the primary included
          MaxRec,       \* bound on recorded events
          MaxOthers,    \* bound on those that neither create nor destroy surfaces
          MaxTokens,    \* as long as an event may get
          MaxShaped,    \* from this event on only surfaces, updates and the drawings
          LaterDrawings \* of this set are recorded, and the recording is not cut

VARIABLES tape,         \* the recording and the guest it is made from, see RecInit
          rp,           \* SpiceReplay and its reader
          ids,          \* [map, inv, free]: id_map, id_map_inv, id_free
          play          \* the worker of the replay

recVars == <<tape, rp, ids, play>>

NoSurf == 0             \* no surface
Junk == -2              \* an entry that g_array_set_size has not initialized
Gone == -1

\* A drawing: its type and what its pictures, paths and texts are. "from" is
\* the surface that pictures of kind "surface" show.
Shape(type, at) == [type |-> type, at |-> at]
Pic(d, f) == IF f \in DOMAIN d.at THEN d.at[f] ELSE "none"

-----------------------------------------------------------------------------
(* Writing. *)

T(tag, val) == [tag |-> tag, val |-> val]

WriteBinary(name) == <<T(name, 0), T("bytes", 0)>>

\* One chunk more than the first.
RecordDataChunks(name) == <<T("data_chunks", 1)>> \o WriteBinary(name) \o WriteBinary(name)

RecordImage(c, f) ==
    LET k == Pic(c.d, f)
    IN  IF k = "none" THEN <<T("image", "none")>>
        ELSE <<T("image", "some"), T("descriptor", k)>> \o
             CASE k = "flat"    -> <<T("bitmap", 0), T("has_palette", "some"), T("palette", 0)>>
                                   \o WriteBinary("image_data_flat")
               [] k = "chunked" -> <<T("bitmap", 0), T("has_palette", "none")>>
                                   \o RecordDataChunks("bitmap.data")
               [] k = "surface" -> <<T("surface_image.surface_id", c.from)>>
               [] k = "quic"    -> <<T("quic.data_size", 0)>> \o RecordDataChunks("quic.data")

RecordBrush(c, f) ==
    IF Pic(c.d, f) = "none" THEN <<T("type", "solid"), T("u.color", 0)>>
    ELSE <<T("type", "pattern")>> \o RecordImage(c, f) \o <<T("point", 0)>>

RecordQmask(c) == <<T("flags", 0), T("point", 0)>> \o RecordImage(c, "mask")

RecordFill(c) == RecordBrush(c, "brush") \o <<T("rop_descriptor", 0)>> \o RecordQmask(c)

RecordOpaque(c) ==
    RecordImage(c, "src") \o <<T("src_area", 0)>> \o RecordBrush(c, "brush")
    \o <<T("rop_descriptor", 0), T("scale_mode", 0)>> \o RecordQmask(c)

RecordCopy(c) ==        \* and blend
    RecordImage(c, "src") \o <<T("src_area", 0), T("rop_descriptor", 0), T("scale_mode", 0)>>
    \o RecordQmask(c)

RecordTransparent(c) == RecordImage(c, "src") \o <<T("src_area", 0), T("src_color", 0)>>

RecordAlphaBlend(c) ==
    <<T("alpha_flags", 0), T("alpha", 0)>> \o RecordImage(c, "src") \o <<T("src_area", 0)>>

RecordRop3(c) ==
    RecordImage(c, "src") \o <<T("src_area", 0)>> \o RecordBrush(c, "brush")
    \o <<T("rop3", 0), T("scale_mode", 0)>> \o RecordQmask(c)

RecordStroke(c) ==
    RecordDataChunks("path") \o <<T("attr.flags", Pic(c.d, "style"))>>
    \o (IF Pic(c.d, "style") = "styled"
        THEN <<T("attr.style_nseg", 0)>> \o WriteBinary("style") ELSE <<>>)
    \o RecordBrush(c, "brush") \o <<T("fore_mode", 0), T("back_mode", 0)>>

RecordString == <<T("data_size", 0), T("length", 0), T("flags", 0)>> \o RecordDataChunks("string")

RecordText(c) ==
    RecordString \o <<T("back_area", 0)>> \o RecordBrush(c, "brush") \o RecordBrush(c, "back")
    \o <<T("fore_mode", 0), T("back_mode", 0)>>

RecordTransform(c, f) ==
    <<T(f, Pic(c.d, f))>> \o (IF Pic(c.d, f) = "none" THEN <<>> ELSE WriteBinary("transform"))

RecordComposite(c) ==
    <<T("flags", 0)>> \o RecordImage(c, "src") \o RecordTransform(c, "src_transform")
    \o (IF Pic(c.d, "mask") = "none" THEN <<T("mask", "none")>>
        ELSE <<T("mask", "some")>> \o RecordImage(c, "mask"))
    \o RecordTransform(c, "mask_transform") \o <<T("origins", 0)>>

RecordClip(c) ==
    IF Pic(c.d, "clip") = "none" THEN <<T("type", "none")>>
    ELSE <<T("type", "rects"), T("num_rects", 0)>> \o RecordDataChunks("clip_rects")

RecordDrawn(c) ==
    CASE c.d.type = "alpha_blend" -> RecordAlphaBlend(c)
      [] c.d.type \in {"blackness", "whiteness", "invers"} -> RecordQmask(c)
      [] c.d.type \in {"blend", "copy"} -> RecordCopy(c)
      [] c.d.type = "copy_bits" -> <<T("point", 0)>>
      [] c.d.type = "fill" -> RecordFill(c)
      [] c.d.type = "opaque" -> RecordOpaque(c)
      [] c.d.type = "nop" -> <<>>
      [] c.d.type = "rop3" -> RecordRop3(c)
      [] c.d.type = "stroke" -> RecordStroke(c)
      [] c.d.type = "text" -> RecordText(c)
      [] c.d.type = "transparent" -> RecordTransparent(c)
      [] c.d.type = "composite" -> RecordComposite(c)

\* surfaces_dest names the surface a picture is taken from.
RecordDrawable(c) ==
    <<T("drawable", 0), T("bbox", 0)>> \o RecordClip(c)
    \o <<T("effect", 0), T("self_bitmap", 0), T("surface_id", c.id), T("surfaces_dest", c.from),
         T("type", c.d.type)>>
    \o RecordDrawn(c)

RecordCompatDrawable(c) ==
    <<T("drawable", 0), T("bbox", 0)>> \o RecordClip(c)
    \o <<T("effect", 0), T("bitmap_offset", 0), T("type", c.d.type)>> \o RecordDrawn(c)

RecordSurfaceCmd(c) ==
    <<T("surface_cmd", 0), T("surface_id", c.id), T("type", c.what), T("flags", c.keep)>>
    \o (IF c.what = "create"
        THEN <<T("u.surface_create", 0)>> \o (IF c.keep = "keep" THEN WriteBinary("data") ELSE <<>>)
        ELSE <<>>)

RecordCursorCmd(c) ==
    <<T("cursor_cmd", 0), T("type", c.what)>>
    \o (IF c.what = "set"
        THEN <<T("point16", 0), T("u.set.visible", 0), T("header", 0), T("data_size", 0)>>
             \o RecordDataChunks("cursor")
        ELSE <<T("point16", 0)>>)

\* The lines of one event.
RecordEvent(c) ==
    <<T("event", c.ev)>> \o
    CASE c.ev = "draw"    -> IF c.what = "compat" THEN RecordCompatDrawable(c) ELSE RecordDrawable(c)
      [] c.ev = "update"  -> <<T("update", 0), T("area", 0), T("surface_id", c.id)>>
      [] c.ev = "message" -> WriteBinary("message")
      [] c.ev = "surface" -> RecordSurfaceCmd(c)
      [] c.ev = "cursor"  -> RecordCursorCmd(c)
      [] c.ev = "create_primary" -> <<T("primary", 0)>> \o WriteBinary("data")
      [] c.ev \in {"destroy_primary", "destroy_surfaces"} -> <<>>

-----------------------------------------------------------------------------
(* Reading.  What remains to be read of a command is a sequence of lines;     *)
(* the value of a line decides which follow it and what is allocated.  A line *)
(* [tag, f, i] is read into field f; i numbers the chunks.  A buffer is named *)
(* by its field, role and number.                                            *)

Line(tag, f) == [tag |-> tag, f |-> f, i |-> 0]
Lines(tags) == [k \in DOMAIN tags |-> Line(tags[k], "")]
Buf(f, role, i) == <<f, role, i>>

ReplayIdGet(id) ==
    IF id = Gone THEN Gone ELSE IF id \in DOMAIN ids.map THEN ids.map[id] ELSE NoSurf

ReadBinary(name, f, i) == <<[tag |-> name, f |-> f, i |-> i], Line("bytes", f)>>

DataChunks(f) == <<Line("data_chunks", f)>>

ChunkName(f) ==
    CASE f = "clip" -> "clip_rects" [] f \in {"path", "string", "cursor"} -> f
      [] f \in {"src", "mask", "brush", "back"} -> "bitmap.data"

\* red_replay_data_chunks: n chunks after the first; a QUIC picture's are its own kind
ReplayDataChunks(f, n, quic) ==
    FlattenSeq([k \in 1..n + 1 |-> ReadBinary(IF quic THEN "quic.data" ELSE ChunkName(f), f, k)])

ReplayImage(f) == <<Line("image", f)>>
ReplayImageKind(f, k) ==
    CASE k \in {"flat", "chunked"} -> <<Line("bitmap", f), Line("has_palette", f)>>
      [] k = "surface" -> <<Line("surface_image.surface_id", f)>>
      [] k = "quic" -> <<Line("quic.data_size", f)>> \o DataChunks(f)
ReplayBitmap(f, k, palette) ==
    (IF palette = "some" THEN <<Line("palette", f)>> ELSE <<>>)
    \o (IF k = "flat" THEN ReadBinary("image_data_flat", f, 1) ELSE DataChunks(f))

ReplayBrush(f) == <<Line("type", f)>>
ReplayBrushKind(f, k) ==
    IF k = "solid" THEN <<Line("u.color", f)>> ELSE ReplayImage(f) \o Lines(<<"point">>)

ReplayQmask == Lines(<<"flags", "point">>) \o ReplayImage("mask")

ReplayFill == ReplayBrush("brush") \o Lines(<<"rop_descriptor">>) \o ReplayQmask

ReplayOpaque ==
    ReplayImage("src") \o Lines(<<"src_area">>) \o ReplayBrush("brush")
    \o Lines(<<"rop_descriptor", "scale_mode">>) \o ReplayQmask

ReplayCopy ==           \* and blend
    ReplayImage("src") \o Lines(<<"src_area", "rop_descriptor", "scale_mode">>) \o ReplayQmask

ReplayTransparent == ReplayImage("src") \o Lines(<<"src_area", "src_color">>)

ReplayAlphaBlend == Lines(<<"alpha_flags", "alpha">>) \o ReplayImage("src") \o Lines(<<"src_area">>)

ReplayRop3 ==
    ReplayImage("src") \o Lines(<<"src_area">>) \o ReplayBrush("brush")
    \o Lines(<<"rop3", "scale_mode">>) \o ReplayQmask

ReplayStroke ==
    DataChunks("path") \o <<Line("attr.flags", "style")>> \o ReplayBrush("brush")
    \o Lines(<<"fore_mode", "back_mode">>)
ReplayStyle(flags) ==
    IF flags = "styled" THEN Lines(<<"attr.style_nseg">>) \o ReadBinary("style", "style", 1) ELSE <<>>

ReplayString == Lines(<<"data_size", "length", "flags">>) \o DataChunks("string")

ReplayText ==
    ReplayString \o Lines(<<"back_area">>) \o ReplayBrush("brush") \o ReplayBrush("back")
    \o Lines(<<"fore_mode", "back_mode">>)

ReplayTransform(f) == ReadBinary("transform", f, 1)

ReplayComposite ==
    Lines(<<"flags">>) \o ReplayImage("src")
    \o <<Line("src_transform", "src_transform"), Line("mask", "mask"),
         Line("mask_transform", "mask_transform")>>
    \o Lines(<<"origins">>)

ReplayClip == <<Line("type", "clip")>>
ReplayClipRects(k) ==
    IF k = "rects" THEN Lines(<<"num_rects">>) \o DataChunks("clip") ELSE <<>>

ReplayDrawn(type) ==
    CASE type = "alpha_blend" -> ReplayAlphaBlend
      [] type \in {"blackness", "whiteness", "invers"} -> ReplayQmask
      [] type \in {"blend", "copy"} -> ReplayCopy
      [] type = "copy_bits" -> Lines(<<"point">>)
      [] type = "fill" -> ReplayFill
      [] type = "opaque" -> ReplayOpaque
      [] type = "nop" -> <<>>
      [] type = "rop3" -> ReplayRop3
      [] type = "stroke" -> ReplayStroke
      [] type = "text" -> ReplayText
      [] type = "transparent" -> ReplayTransparent
      [] type = "composite" -> ReplayComposite

\* Replay does not know of the compatible format: flags is always 0.
ReplayDrawable ==
    <<Line("drawable", "cmd"), Line("bbox", "")>> \o ReplayClip \o Lines(<<"effect", "self_bitmap">>)
    \o <<Line("surface_id", "sid"), Line("surfaces_dest", "dest"), Line("type", "drawn")>>

ReplayUpdateCmd == <<Line("update", "cmd"), Line("area", ""), Line("surface_id", "sid")>>

ReplaySurfaceCmd ==
    <<Line("surface_cmd", "cmd"), Line("surface_id", "id"), Line("type", "surface"),
      Line("flags", "surface_flags")>>
ReplaySurfaceCreate(type) ==
    IF type = "create" THEN <<Line("u.surface_create", "new")>> ELSE <<>>

ReplayCursorCmd == <<Line("cursor_cmd", "cmd"), Line("type", "shape")>>
ReplayCursor(type) ==
    IF type = "set"
    THEN Lines(<<"point16", "u.set.visible", "header", "data_size">>) \o DataChunks("cursor")
    ELSE Lines(<<"point16">>)

ReplayCommand(ev) ==
    CASE ev = "draw"    -> ReplayDrawable
      [] ev = "update"  -> ReplayUpdateCmd
      [] ev = "message" -> ReadBinary("message", "cmd", 0)
      [] ev = "surface" -> ReplaySurfaceCmd
      [] ev = "cursor"  -> ReplayCursorCmd
      [] ev = "create_primary" -> Lines(<<"primary">>) \o ReadBinary("data", "primary", 0)
      [] OTHER -> <<>>

\* The lines that follow line l with value v, o being what has been read.
Following(l, v, o) ==
    CASE l.tag = "event" -> ReplayCommand(v)
      [] l.tag = "image" -> IF v = "none" THEN <<>> ELSE <<Line("descriptor", l.f)>>
      [] l.tag = "descriptor" -> ReplayImageKind(l.f, v)
      [] l.tag = "has_palette" -> ReplayBitmap(l.f, o[l.f], v)
      [] l.tag = "data_chunks" -> ReplayDataChunks(l.f, v, l.f \in DOMAIN o /\ o[l.f] = "quic")
      [] l.tag = "type" -> CASE l.f = "clip" -> ReplayClipRects(v)
                             [] l.f \in {"brush", "back"} -> ReplayBrushKind(l.f, v)
                             [] l.f = "drawn" -> ReplayDrawn(v)
                             [] l.f = "shape" -> ReplayCursor(v)
                             [] OTHER -> <<>>
      [] l.tag = "flags" /\ l.f = "surface_flags" -> ReplaySurfaceCreate(o["surface"])
      [] l.tag = "u.surface_create" ->
            IF o["surface_flags"] = "keep" THEN ReadBinary("data", "data", 0) ELSE <<>>
      [] l.tag = "attr.flags" -> ReplayStyle(v)
      [] l.tag \in {"src_transform", "mask_transform"} -> IF v # "none" THEN ReplayTransform(l.f) ELSE <<>>
      [] l.tag = "mask" -> IF v = "some" THEN ReplayImage("mask") ELSE <<>>
      [] OTHER -> <<>>

Commanded == {"draw", "update", "message", "surface", "cursor"}

ReplayMalloc(l, v, o) ==
    CASE l.tag = "event" -> IF v \in Commanded THEN {Buf("cmd", "ext", 0)} ELSE {}
      [] l.f = "cmd" /\ l.tag # "bytes" -> {Buf("cmd", "qxl", 0)}
      [] l.tag = "image" /\ v # "none" -> {Buf(l.f, "image", 0)}
      [] l.tag = "has_palette" /\ v = "some" -> {Buf(l.f, "palette", 0)}
      [] l.tag = "u.surface_create" /\ o["surface_flags"] # "keep" -> {Buf("data", "chunk", 0)}
      [] l.i > 0 \/ l.tag = "data" -> {Buf(l.f, "chunk", l.i)}
      [] OTHER -> {}

\* What is remembered of a line: identifiers in the replay's own numbering.
Remembered(l, v) == IF l.f \in {"sid", "dest"} \/ l.tag = "surface_image.surface_id"
                    THEN ReplayIdGet(v) ELSE v
RememberedAs(l) == IF l.tag = "surface_image.surface_id" THEN "image_surface" ELSE l.f
ToRemember(l) ==
    \/ l.tag \in {"event", "image", "descriptor", "surface_image.surface_id", "type", "attr.flags",
                  "src_transform", "mask_transform", "u.surface_create", "mask"}
    \/ l.f \in {"sid", "id", "dest", "surface_flags"}

Put(o, f, v) == [g \in DOMAIN o \union {f} |-> IF g = f THEN v ELSE o[g]]

\* replay_fscanf and what its caller does with the value. The size of a QUIC
\* picture is asserted on the error path too; its header moves into the first chunk.
ReadLine(r) ==
    LET l == Head(r.todo)
        quic == l.f \in DOMAIN r.obj /\ r.obj[l.f] = "quic"
        v == Head(r.in).val
    IN  IF r.in = <<>> \/ Head(r.in).tag # l.tag
        THEN [r EXCEPT !.error = TRUE,
                       !.abort = quic /\ l.tag \in {"data_chunks", "quic.data", "bytes"}]
        ELSE [r EXCEPT !.in = Tail(@),
                       !.todo = Following(l, v, r.obj) \o Tail(@),
                       !.mem = (@ \union ReplayMalloc(l, v, r.obj))
                               \ (IF l.tag = "quic.data" THEN {Buf(l.f, "image", 0)} ELSE {}),
                       !.obj = IF ToRemember(l) THEN Put(@, RememberedAs(l), Remembered(l, v))
                               ELSE @]

RECURSIVE ReadLines(_)
ReadLines(r) == IF r.error \/ r.todo = <<>> THEN r ELSE ReadLines(ReadLine(r))

\* One event.
Parsed(in) ==
    ReadLines([in |-> in, todo |-> <<Line("event", "ev")>>, error |-> FALSE, abort |-> FALSE,
               mem |-> {}, obj |-> [g \in {} |-> NoSurf]])

-----------------------------------------------------------------------------
(* Freeing what a command o was read into. *)

DataChunksFree(f) == {Buf(f, "chunk", i) : i \in 1..2}

ImageFree(o, f) ==
    CASE o[f] \in {"none", "solid"} -> {}
      [] o[f] = "flat"    -> {Buf(f, "image", 0), Buf(f, "palette", 0), Buf(f, "chunk", 1)}
      [] o[f] = "chunked" -> {Buf(f, "image", 0)} \union DataChunksFree(f)
      [] o[f] = "surface" -> {Buf(f, "image", 0)}
      [] o[f] = "quic"    -> DataChunksFree(f)

\* The pictures red_replay_native_drawable_free's callees free, by type.
PicturesOf(type) ==
    CASE type \in {"alpha_blend", "transparent"} -> {"src"}
      [] type \in {"blackness", "whiteness", "invers"} -> {"mask"}
      [] type \in {"blend", "copy", "composite"} -> {"src", "mask"}
      [] type \in {"copy_bits", "nop"} -> {}
      [] type = "fill" -> {"brush", "mask"}
      [] type \in {"opaque", "rop3"} -> {"src", "brush", "mask"}
      [] type = "stroke" -> {"brush"}
      [] type = "text" -> {"brush", "back"}

OthersFree(o) ==
    (IF o.clip = "rects" THEN DataChunksFree("clip") ELSE {}) \union
    CASE o.drawn = "stroke" -> DataChunksFree("path") \union
                               (IF o.style = "styled" THEN {Buf("style", "chunk", 1)} ELSE {})
      [] o.drawn = "text" -> DataChunksFree("string")
      [] o.drawn = "composite" -> {Buf(f, "chunk", 1) : f \in {g \in {"src_transform", "mask_transform"} :
                                                                 o[g] # "none"}}
      [] OTHER -> {}

NativeDrawableFree(o) == OthersFree(o) \union UNION {ImageFree(o, f) : f \in PicturesOf(o.drawn)}

FreeCmd(c) ==
    {Buf("cmd", "ext", 0)} \union
    CASE c.ev = "draw" -> {Buf("cmd", "qxl", 0)} \union NativeDrawableFree(c.obj)
      [] c.ev = "update" -> {Buf("cmd", "qxl", 0)}
      [] c.ev = "surface" -> {Buf("cmd", "qxl", 0)} \union
                             (IF c.obj.surface = "create" THEN {Buf("data", "chunk", 0)} ELSE {})
      [] c.ev = "cursor" -> {Buf("cmd", "qxl", 0)} \union
                            (IF c.obj.shape = "set" THEN DataChunksFree("cursor") ELSE {})
      [] OTHER -> {}

-----------------------------------------------------------------------------
(* The surfaces' identifiers. *)

SetSize(a, n) == [k \in 0..n - 1 |-> IF k \in DOMAIN a THEN a[k] ELSE Junk]
Grown(a, k) == IF k \in DOMAIN a THEN a ELSE SetSize(a, k + 1)

\* replay_id_new waits for an identifier below nsurfaces.
NewId == IF ids.free # <<>> THEN Head(ids.free) ELSE Cardinality(DOMAIN ids.inv)
IdAvailable == NewId < rp.nsurfaces

ReplayIdNew(id) ==
    [map |-> [Grown(ids.map, id) EXCEPT ![id] = NewId],
     inv |-> [Grown(ids.inv, NewId) EXCEPT ![NewId] = id],
     free |-> IF ids.free = <<>> THEN <<>>          \* g_array_remove_index_fast
              ELSE IF Len(ids.free) = 1 THEN <<>>
              ELSE <<Last(ids.free)>> \o SubSeq(ids.free, 2, Len(ids.free) - 1)]

\* Forgets the recorded identifier although it may have a newer surface.
UnmapAlways(i, id) ==
    LET old == i.inv[id]
    IN  IF old = Gone THEN i
        ELSE [map |-> [i.map EXCEPT ![old] = Gone], inv |-> [i.inv EXCEPT ![id] = Gone],
              free |-> Append(i.free, id)]

ReplayIdFree(i, id) ==
    LET old == i.inv[id]
    IN  IF old = Gone THEN i
        ELSE [map |-> IF i.map[old] = id THEN [i.map EXCEPT ![old] = Gone] ELSE i.map,
              inv |-> [i.inv EXCEPT ![id] = Gone],
              free |-> Append(i.free, id)]

-----------------------------------------------------------------------------
(* Recording: the guest and the worker that records it.                      *)

NoEvent == [ev |-> "", what |-> "", d |-> Shape("nop", <<>>), id |-> NoSurf, from |-> Gone,
          want |-> NoSurf, source |-> NoSurf, keep |-> "none"]

\* spice_replay_new reserves identifier 0 for the primary surface.
RecInit ==
    /\ tape = [on |-> TRUE, file |-> <<>>, n |-> 0, whole |-> 0, others |-> 0, gen |-> 0,
              surf |-> [k \in {0} \union RecSurfaces |-> NoSurf],   \* surface -> its creation
              handler |-> ""]                    \* message being handled
    /\ rp = [nsurfaces |-> 0, rest |-> <<>>, error |-> FALSE, abort |-> FALSE, got |-> 0,
             primary |-> FALSE,                  \* created_primary
             compat |-> FALSE,                   \* came to a drawing in the compatible format
             leaky |-> FALSE]                    \* identifiers were lost
    /\ ids = [map |-> [k \in {0} |-> 0], inv |-> [k \in {0} |-> 0], free |-> <<>>]
    /\ play = [queue |-> <<>>, held |-> {}, surf |-> [k \in 0..Max(NSurfaces) - 1 |-> NoSurf],
               wrong |-> FALSE, wild |-> FALSE]

\* An event is added; the recorded worker is then in state r.
RecordNow(r, c) ==
    /\ tape.on /\ tape.n < MaxRec
    /\ tape' = [r EXCEPT !.n = @ + 1,
                        !.file = Append(@, [lines |-> RecordEvent(c), what |-> c.what, want |-> c.want,
                                            source |-> c.source, late |-> tape.handler # ""])]
    /\ UNCHANGED <<rp, ids, play>>

\* red_record_qxl_command of what leaves the surfaces alone
RecordOther(c) == tape.others < MaxOthers /\ RecordNow([tape EXCEPT !.others = @ + 1], c)

\* a drawing; its pictures of surfaces show s
RecordDraw(d, id, s, what) ==
    /\ tape.surf[id] # NoSurf
    /\ IF \E f \in DOMAIN d.at : d.at[f] = "surface"
       THEN s \in DOMAIN tape.surf /\ tape.surf[s] # NoSurf ELSE s = Gone
    /\ RecordOther([NoEvent EXCEPT !.ev = "draw", !.what = what, !.d = d, !.id = id, !.from = s,
                                   !.want = tape.surf[id],
                                   !.source = IF s = Gone THEN NoSurf ELSE tape.surf[s]])

RecordUpdate(id) ==
    /\ tape.surf[id] # NoSurf
    /\ RecordOther([NoEvent EXCEPT !.ev = "update", !.id = id, !.want = tape.surf[id]])

RecordCreate(id, keep) ==
    /\ tape.surf[id] = NoSurf
    /\ Cardinality({k \in DOMAIN tape.surf \ {0} : tape.surf[k] # NoSurf}) < Min(NSurfaces) - 1
    /\ RecordNow([tape EXCEPT !.surf[id] = tape.gen + 1, !.gen = @ + 1],
                 [NoEvent EXCEPT !.ev = "surface", !.what = "create", !.id = id, !.keep = keep,
                               !.want = tape.gen + 1])

RecordDestroy(id) ==
    /\ tape.surf[id] # NoSurf
    /\ RecordNow([tape EXCEPT !.surf[id] = NoSurf],
                 [NoEvent EXCEPT !.ev = "surface", !.what = "destroy", !.id = id,
                               !.want = tape.surf[id]])

RecordCursor(what) == RecordOther([NoEvent EXCEPT !.ev = "cursor", !.what = what])
RecordMessage == RecordOther([NoEvent EXCEPT !.ev = "message"])

\* The message is written when it is received, by worker_dispatcher_record; its
\* handler then flushes the commands, which writes them after it.
RecordPrimary ==
    /\ tape.surf[0] = NoSurf /\ tape.handler = ""
    /\ RecordNow([tape EXCEPT !.surf[0] = tape.gen + 1, !.gen = @ + 1],
                 [NoEvent EXCEPT !.ev = "create_primary", !.want = tape.gen + 1])
RecordMessageOf(ev) ==
    /\ tape.handler = "" /\ (ev = "destroy_primary" => tape.surf[0] # NoSurf)
    /\ RecordNow([tape EXCEPT !.handler = ev], [NoEvent EXCEPT !.ev = ev])
HandlerEnds ==
    /\ tape.on /\ tape.handler # ""
    /\ tape' = [tape EXCEPT !.handler = "",
                          !.surf = [k \in DOMAIN @ |->
                              IF k = 0 \/ tape.handler = "destroy_surfaces" THEN NoSurf ELSE @[k]]]
    /\ UNCHANGED <<rp, ids, play>>

\* The recorded server ends, perhaps inside its last write; spice_replay_new.
RecordingEnds(left, n) ==
    /\ tape.on /\ tape.file # <<>> /\ left <= Len(Last(tape.file).lines)
    /\ tape.n <= MaxShaped \/ left = Len(Last(tape.file).lines)
    /\ tape' = [tape EXCEPT !.on = FALSE, !.file[Len(tape.file)].lines = SubSeq(@, 1, left),
                          !.whole = IF left = Len(Last(tape.file).lines) THEN tape.n ELSE tape.n - 1]
    /\ rp' = [rp EXCEPT !.nsurfaces = n]
    /\ UNCHANGED <<ids, play>>

-----------------------------------------------------------------------------
(* The worker of the replay takes commands in order and releases them later.  *)
(* st is [p, i]: play and ids.                                               *)

IsSurface(c, type) == c.ev = "surface" /\ c.obj.surface = type

Live(p, sid) == IF sid \in DOMAIN p.surf THEN p.surf[sid] ELSE NoSurf

\* spice_replay_free_cmd
FreedCmd(st, c) ==
    IF IsSurface(c, "destroy") THEN [st EXCEPT !.i = ReplayIdFree(@, c.sid)] ELSE st

Kept(st, c) == [st EXCEPT !.p.held = @ \union {c}]

Wrong(st, c, is) == [st EXCEPT !.p.wrong = @ \/ (~c.late /\ is)]

TakeDraw(st, c) ==
    LET shown == IF "image_surface" \in DOMAIN c.obj THEN Live(st.p, c.obj.image_surface) ELSE NoSurf
        dest == IF c.obj.dest = Gone THEN NoSurf ELSE Live(st.p, c.obj.dest)
        s == Wrong(st, c, Live(st.p, c.sid) # c.want \/ shown # c.source \/ dest # c.source)
    IN  IF Live(st.p, c.sid) = NoSurf \/ (c.source # NoSurf /\ NoSurf \in {shown, dest})
        THEN FreedCmd(s, c) ELSE Kept(s, c)

TakeSurface(st, c) ==
    LET live == Live(st.p, c.sid)
    IN  IF c.obj.surface = "create"
        THEN IF live # NoSurf THEN FreedCmd(Wrong(st, c, TRUE), c)
             ELSE Kept([st EXCEPT !.p.surf[c.sid] = c.want], c)
        ELSE IF live = NoSurf THEN FreedCmd(Wrong(st, c, TRUE), c)
             ELSE Kept(Wrong([st EXCEPT !.p.surf[c.sid] = NoSurf], c, live # c.want), c)

\* The release of a message reads an identifier nobody has set.
Take(st, c) ==
    CASE c.ev = "draw"    -> TakeDraw(st, c)
      [] c.ev = "update"  -> FreedCmd(Wrong(st, c, Live(st.p, c.sid) # c.want), c)
      [] c.ev = "surface" -> TakeSurface(st, c)
      [] c.ev = "cursor"  -> Kept(st, c)
      [] c.ev = "message" -> [st EXCEPT !.p.wild = TRUE]

AllTaken == [FoldLeft(Take, [p |-> play, i |-> ids], play.queue) EXCEPT !.p.queue = <<>>]

\* Surfaces are destroyed with what was drawn to them; no command says so.
Torn(st, sids) ==
    LET gens == {st.p.surf[k] : k \in sids} \ {NoSurf}
    IN  [st EXCEPT !.p.surf = [k \in DOMAIN @ |-> IF k \in sids THEN NoSurf ELSE @[k]],
                   !.p.held = {c \in @ : c.ev = "cursor" \/ c.want \notin gens}]

Playing == ~tape.on /\ ~play.wild /\ ~rp.abort

WorkerTakes ==
    /\ Playing /\ play.queue # <<>>
    /\ LET st == Take([p |-> [play EXCEPT !.queue = Tail(@)], i |-> ids], Head(play.queue))
       IN  play' = st.p /\ ids' = st.i
    /\ UNCHANGED <<tape, rp>>

WorkerReleases(c) ==
    /\ Playing /\ c \in play.held /\ c.ev # "surface"
    /\ play' = [play EXCEPT !.held = @ \ {c}]
    /\ UNCHANGED <<tape, rp, ids>>

\* display_channel_surface_unref: a surface goes when nothing drawn to it is left, create_cmd
\* before destroy_cmd.
SurfaceGoes(c) ==
    /\ Playing /\ c \in play.held /\ IsSurface(c, "destroy")
    /\ \A h \in play.held : h.ev = "draw" => c.want \notin {h.want, h.source}
    /\ ids' = FreedCmd([p |-> play, i |-> ids], c).i
    /\ play' = [play EXCEPT !.held = {h \in @ : h.ev # "surface" \/ h.want # c.want}]
    /\ UNCHANGED <<tape, rp>>

-----------------------------------------------------------------------------
(* The reader, spice_replay_next_cmd. *)

CanRead == Playing /\ ~rp.error

\* The next event, as far as it can be read.
ReadAhead == Parsed(rp.rest \o (IF tape.file = <<>> THEN <<>> ELSE Head(tape.file).lines))

ReadsEnd ==
    /\ CanRead /\ tape.file = <<>>
    /\ rp' = [rp EXCEPT !.error = TRUE] /\ UNCHANGED <<tape, ids, play>>

NextIs(evs) == CanRead /\ tape.file # <<>> /\ Head(Head(tape.file).lines).val \in evs

\* Reading has come to st; got counts the events that were whole.
ReadTo(r, st, primary, leaky) ==
    /\ tape' = [tape EXCEPT !.file = Tail(@)]
    /\ rp' = [nsurfaces |-> rp.nsurfaces, rest |-> r.in, error |-> r.error, abort |-> r.abort,
              primary |-> primary, got |-> IF r.error THEN rp.got ELSE rp.got + 1, leaky |-> rp.leaky \/ leaky,
              compat |-> rp.compat \/ Head(tape.file).what = "compat"]
    /\ play' = st.p /\ ids' = st.i

\* A command and, for the properties, what the guest meant by it.
ReplayedCmd(r, sid) ==
    [ev |-> r.obj.ev, obj |-> r.obj, mem |-> r.mem, sid |-> sid, want |-> Head(tape.file).want,
     source |-> Head(tape.file).source, late |-> Head(tape.file).late, n |-> rp.got]

SidOf(o) ==
    IF "new" \in DOMAIN o THEN NewId
    ELSE IF "id" \in DOMAIN o THEN ReplayIdGet(o.id)
    ELSE IF "sid" \in DOMAIN o THEN o.sid ELSE NoSurf

\* A create waits for an identifier even when its data was cut off.
NextCmd ==
    /\ NextIs(Commanded)
    /\ LET r == ReadAhead
           i == IF "new" \in DOMAIN r.obj THEN ReplayIdNew(r.obj.id) ELSE ids
           p == IF r.error THEN play
                ELSE [play EXCEPT !.queue = Append(@, ReplayedCmd(r, SidOf(r.obj)))]
       IN  /\ "new" \in DOMAIN r.obj => IdAvailable
           /\ ReadTo(r, [p |-> p, i |-> i], rp.primary, FALSE)

\* replay_handle_dev_input: the worker flushes its commands before it destroys. A primary
\* surface is created even from data that was cut off.
ReplayCreatePrimary ==
    /\ NextIs({"create_primary"})
    /\ LET r == ReadAhead
           st == IF rp.primary THEN Torn(AllTaken, {0}) ELSE [p |-> play, i |-> ids]
       IN  ReadTo(r, IF r.error /\ Head(r.todo).tag = "primary" THEN st
                     ELSE [st EXCEPT !.p.surf[0] = Head(tape.file).want],
                  TRUE, FALSE)

ReplayDestroyPrimary ==
    /\ NextIs({"destroy_primary"})
    /\ ReadTo(ReadAhead, Torn(AllTaken, {0}), FALSE, FALSE)

ReplayDestroySurfaces ==
    /\ NextIs({"destroy_surfaces"})
    /\ ReadTo(ReadAhead, Torn(AllTaken, DOMAIN play.surf), FALSE, TRUE)

Early == tape.n < MaxShaped

RecNext ==
    \/ \E d \in RecDrawings, id \in DOMAIN tape.surf, s \in DOMAIN tape.surf \union {Gone} :
          (Early \/ d \in LaterDrawings) /\ RecordDraw(d, id, s, "native")
    \/ \E d \in LaterDrawings, id \in DOMAIN tape.surf, s \in DOMAIN tape.surf \union {Gone} :
          Early /\ RecordDraw(d, id, s, "compat")
    \/ \E id \in DOMAIN tape.surf : RecordUpdate(id)
    \/ \E id \in RecSurfaces : RecordCreate(id, "none") \/ RecordDestroy(id)
    \/ Early /\ \E id \in RecSurfaces : RecordCreate(id, "keep")
    \/ Early /\ \E what \in {"set", "move"} : RecordCursor(what)
    \/ Early /\ RecordMessage
    \/ RecordPrimary
    \/ \E ev \in {"destroy_primary", "destroy_surfaces"} : RecordMessageOf(ev)
    \/ HandlerEnds
    \/ \E left \in 1..MaxTokens, n \in NSurfaces : RecordingEnds(left, n)
    \/ WorkerTakes \/ \E c \in play.held : WorkerReleases(c) \/ SurfaceGoes(c)
    \/ ReadsEnd \/ NextCmd \/ ReplayCreatePrimary \/ ReplayDestroyPrimary \/ ReplayDestroySurfaces

RecSpec == RecInit /\ [][RecNext]_recVars

-----------------------------------------------------------------------------
\* A create is read and there is no identifier for it.
ReaderWaits == NextIs({"surface"}) /\ ~IdAvailable /\ "new" \in DOMAIN ReadAhead.obj

\* A recording is replayed as it was recorded.  Every command that the guest gave while no
\* message was being handled acts on the surface the guest meant, however often its identifier
\* and the replay's have been used again and whenever the worker releases what it was given.
\* What free_cmd frees is what reading the command has allocated.  The reader stops where the
\* recording stops: it hands out every command that was written whole, and none that was not
\* (a drawing in the compatible format ends the replay, red-replay-qxl.cpp:1417).  And it waits
\* for an identifier only while a surface that has been destroyed is yet to go, unless
\* identifiers were lost when all surfaces were destroyed by message.
RecordingReplayed ==
    /\ ~play.wrong
    /\ \A c \in Range(play.queue) \union play.held : c.ev # "message" => FreeCmd(c) = c.mem
    /\ rp.error /\ ~rp.compat => rp.got = tape.whole
    /\ ReaderWaits /\ ~rp.leaky =>
          \E c \in Range(play.queue) \union play.held : IsSurface(c, "destroy")
=============================================================================
