---------------------------- MODULE VideoStreams ----------------------------
(***************************************************************************)
(* Video streams (video-stream.cpp): drawables that repeat at one place of   *)
(* the primary surface become the frames of a stream, which the client gets  *)
(* as video, lossy and possibly late.  A stream's agent keeps the region of  *)
(* the client's screen that shows video (vis_region); when the stream ends,  *)
(* or something else needs the pixels, the region is sent again losslessly.   *)
(*                                                                         *)
(* The module extends the display channel: `ds' gets the streams (st), their *)
(* agents (ag), what is known of a drawable as a frame (fr) and the places   *)
(* where frames were lately (trace).  Rate control is left to MjpegEncoder.   *)
(***************************************************************************)
EXTENDS Display

CONSTANTS VideoCommands, \* the commands of the guest
          MaxVideo,     \* bound on them and on disconnections
          Streams,      \* the slots of streams_buf, 1 .. NUM_STREAMS
          StartFrames,  \* RED_STREAM_FRAMES_START_CONDITION
          Traces,       \* entries of items_trace
          Gaps,         \* see Aged
          VideoCaps     \* records [sized, codec], see VideoInit

VARIABLES player,       \* the client's streams, see VideoInit
          overtaken     \* a late frame overtook the picture that replaced it

videoVars == <<ds, ideal, screen, twice, count, player, overtaken>>

NoDrawable == 0
NoStream == 0

VideoInit ==
    /\ \E caps \in VideoCaps :          \* CAP_SIZED_STREAM; a codec both sides have
          ds = [t |-> EmptyTree({0}), list |-> <<>>, cmd |-> [d \in {} |-> 0], deps |-> {},
                table |-> {0}, canvas |-> [s \in {0} |-> Blank],
                connected |-> FALSE, created |-> {}, pipe |-> <<>>,
                st |-> [s \in Streams |-> [linked |-> FALSE, current |-> NoDrawable, dest |-> {}, last |-> 0, linkedUp |-> NoDrawable]],
                ag |-> [s \in Streams |-> [vis |-> {}, clip |-> {}, enc |-> FALSE]],
                fr |-> [d \in {} |-> 0], trace |-> <<>>, sized |-> caps.sized, codec |-> caps.codec]
    /\ ideal = [s \in {0} |-> Blank]
    /\ screen = [s \in {} |-> Blank]
    /\ player = [s \in Streams |-> [made |-> FALSE, clip |-> {}, frame |-> NoDrawable, box |-> {}]]
    /\ count = 0 /\ twice = {} /\ overtaken = FALSE

-----------------------------------------------------------------------------
(* Streams and the items that hold them. *)

StreamItems == {"stream_create", "stream_clip", "stream_destroy"}

Linked(x) == {s \in Streams : x.st[s].linked}

\* refs is 1 while linked, and 1 for every item of the pipe; a slot with none is free
FreeStreams(x) ==
    {s \in Streams \ Linked(x) : \A i \in DOMAIN x.pipe : x.pipe[i].type \in StreamItems => x.pipe[i].s # s}

PipeAdd(x, item) == IF x.connected THEN [x EXCEPT !.pipe = <<item>> \o @] ELSE x

\* dcc_video_stream_agent_clip
AgentClip(x, s) == PipeAdd(x, PipeItem("stream_clip", s, 0, x.ag[s].clip))

\* the region of a drawable; one that was rendered keeps the last
RgnOf(x, d) == IF Draw(d) \in DOMAIN x.t.rgn THEN x.t.rgn[Draw(d)] ELSE x.fr[d].rgn

\* video_stream_detach_drawable
DetachDrawable(x, s) ==
    IF x.st[s].current = NoDrawable THEN x
    ELSE [x EXCEPT !.fr[x.st[s].current].stream = NoStream, !.st[s].current = NoDrawable]

\* attach_stream
AttachStream(x, d, s) ==
    LET rgn == RgnOf(x, d)
        box == Bbox(x.cmd[d].rgn)
        y == [x EXCEPT !.st[s].current = d, !.st[s].last = count, !.fr[d].stream = s]
        z == [y EXCEPT !.ag[s].vis = @ \cup rgn, !.ag[s].clip = (@ \ box) \cup rgn]
    IN  IF ~x.connected THEN y
        ELSE IF box \cap x.ag[s].clip = rgn THEN [z EXCEPT !.ag[s].clip = x.ag[s].clip]
        ELSE AgentClip(z, s)

\* dcc_create_stream
DccCreateStream(x, s) ==
    IF ~x.connected THEN x
    ELSE LET rgn == IF x.st[s].current = NoDrawable THEN {} ELSE RgnOf(x, x.st[s].current)
         IN  PipeAdd([x EXCEPT !.ag[s] = [vis |-> rgn, clip |-> rgn, enc |-> x.codec]],
                     PipeItem("stream_create", s, 0, {}))

\* display_channel_create_stream; without a free slot the frame stays a drawable
CreateStream(x, d) ==
    IF FreeStreams(x) = {} THEN x
    ELSE LET s == Min(FreeStreams(x))
         IN  DccCreateStream([x EXCEPT !.fr[d].stream = s,
                                       !.st[s] = [linked |-> TRUE, current |-> d, last |-> count,
                                                  dest |-> Bbox(x.cmd[d].rgn), linkedUp |-> NoDrawable]], s)

\* video_stream_stop
StreamStop(x, s) ==
    PipeAdd([x EXCEPT !.st[s].linked = FALSE, !.ag[s].vis = {}, !.ag[s].clip = {}],
            PipeItem("stream_destroy", s, 0, {}))

-----------------------------------------------------------------------------
(* Finding frames. *)

\* is_next_stream_frame; in a stream a frame may be larger, up to twice
NextFrame(x, d, box, fresh, larger) ==
    LET mine == Bbox(x.cmd[d].rgn)
    IN  /\ x.fr[d].streamable /\ fresh
        /\ IF larger THEN box \subseteq mine /\ Cardinality(mine) <= 2 * Cardinality(box) ELSE mine = box

\* video_stream_add_frame
AddFrame(x, d, frames) ==
    LET y == [x EXCEPT !.fr[d].frames = frames + 1]
    IN  IF frames + 1 >= StartFrames THEN CreateStream(y, d) ELSE y

\* the gap since a stream's last frame is below RED_STREAM_CONTINUOUS_MAX_DELTA
Continuous(x, s) == x.st[s].last # -1

\* video_stream_maintenance: d may be the frame after e
Maintenance(x, d, e) ==
    LET s == x.fr[e].stream
    IN  IF x.fr[d].stream # NoStream THEN x
        ELSE IF s # NoStream
        THEN IF ~NextFrame(x, d, x.st[s].dest, Continuous(x, s), TRUE) THEN x
             ELSE AttachStream([DetachDrawable(x, s) EXCEPT !.fr[e].streamable = FALSE], d, s)
        ELSE IF NextFrame(x, d, Bbox(x.cmd[e].rgn), x.fr[e].fresh, FALSE)
        THEN AddFrame(x, d, x.fr[e].frames) ELSE x

\* video_stream_trace_add_drawable
TraceAdd(x, d) ==
    IF x.fr[d].stream # NoStream \/ ~x.fr[d].streamable \/ ~x.fr[d].fresh THEN x
    ELSE LET new == Append(x.trace, [box |-> Bbox(x.cmd[d].rgn), frames |-> x.fr[d].frames])
         IN  [x EXCEPT !.trace = IF Len(new) > Traces THEN Tail(new) ELSE new]

\* video_stream_trace_update
TraceUpdate(x, d) ==
    LET next == {s \in Linked(x) : NextFrame(x, d, x.st[s].dest, Continuous(x, s), TRUE)}
        s == Min(next)
        cur == x.st[s].current
        y == IF cur = NoDrawable THEN x ELSE DetachDrawable([x EXCEPT !.fr[cur].streamable = FALSE], s)
        Try(e, acc) == IF acc.fr[d].stream # NoStream \/ ~NextFrame(acc, d, e.box, TRUE, FALSE) THEN acc
                       ELSE AddFrame(acc, d, e.frames)
    IN  IF x.fr[d].stream # NoStream \/ ~x.fr[d].streamable \/ x.fr[d].frames # 0 THEN x
        ELSE IF next # {} THEN AttachStream(y, d, s)
        ELSE FoldLeft(LAMBDA acc, e : Try(e, acc), x, x.trace)

\* the calls of the tree's functions, in their order
Replay(x, d) ==
    LET Call(acc, e) ==
            IF e[1] = "trace_add" THEN TraceAdd(acc, e[2])
            ELSE IF d = NoDrawable THEN acc ELSE Maintenance(acc, d, e[2])
    IN  [FoldLeft(Call, x, x.t.log) EXCEPT !.t.log = <<>>]

\* streams_update_visible_region
UpdateVisibleRegion(x, d) ==
    LET rgn == RgnOf(x, d)
        hit == {s \in Linked(x) : x.st[s].current # d /\ x.ag[s].vis \cap rgn # {}}
        Cut(s, y) == AgentClip([y EXCEPT !.ag[s].vis = @ \ rgn, !.ag[s].clip = @ \ rgn], s)
    IN  IF x.connected /\ x.cmd[d].s = 0 THEN FoldSet(Cut, x, hit) ELSE x

-----------------------------------------------------------------------------
(* Ending streams. *)

\* display_channel_draw_until: what is older than `limit'
DrawOlder(x, area, limit) ==
    LET older == SelectSeq(SubSeq(x.list, 1 + CHOOSE i \in DOMAIN x.list : x.list[i] = limit, Len(x.list)),
                           LAMBDA e : x.cmd[e].s = 0 /\ RgnOf(x, e) \cap area # {})
    IN  IF older = <<>> THEN x ELSE DrawUntil(x, 0, older[1])

\* rendering with the calls and the regions it leaves behind
Rendering(x, y) ==
    Replay([y EXCEPT !.fr = [d \in DOMAIN @ |-> [@[d] EXCEPT !.rgn = RgnOf(x, d)]]], NoDrawable)

AreaImage(x, area) ==
    PipeAdd(x, PipeItem("area", 0, 0, [c \in area |-> x.canvas[0][c]]))

\* The variant for the mutation: the video region is forgotten, not sent again.
DetachAbruptly(x, s, limit) == AgentClip([x EXCEPT !.ag[s].clip = {}, !.ag[s].vis = {}], s)

\* dcc_detach_stream_gracefully
DetachGracefully(x, s, limit) ==
    LET y == AgentClip([x EXCEPT !.ag[s].clip = {}], s)
        cur == x.st[s].current
        vis == x.ag[s].vis
        Clear(z) == [z EXCEPT !.ag[s].vis = {}]
        area == Bbox(vis)
    IN  IF ~x.connected THEN x
        ELSE IF vis = {} THEN y
        ELSE IF cur # NoDrawable /\ vis \subseteq RgnOf(x, cur)
        THEN Clear(IF cur \in InPipe(x) THEN [y EXCEPT !.st[s].linkedUp = cur]
                   ELSE PipeAdd(y, PipeItem("upgrade", 0, cur, RgnOf(x, cur))))
        ELSE Clear(AreaImage(Rendering(y, IF limit # NoDrawable THEN DrawOlder(y, area, limit)
                                          ELSE SurfaceDraw(y, 0, area)), area))

\* video_stream_detach_behind
DetachBehind(x, rgn, limit) ==
    LET One(s, y) ==
            IF y.connected
            THEN IF y.ag[s].vis \cap rgn = {} THEN y ELSE DetachDrawable(DetachGracefully(y, s, limit), s)
            ELSE IF y.st[s].current # NoDrawable /\ RgnOf(y, y.st[s].current) \cap rgn # {}
            THEN DetachDrawable(y, s) ELSE y
    IN  FoldSet(One, x, Linked(x))

\* detach_video_stream_gracefully, video_stream_stop
DetachAndStop(x, S) ==
    FoldSet(LAMBDA s, y : StreamStop(DetachDrawable(DetachGracefully(y, s, NoDrawable), s), s), x, S)

\* drawable_unref: the last reference of a frame takes it from its stream
InUpgrade(x) == {x.pipe[i].d : i \in {j \in DOMAIN x.pipe : x.pipe[j].type = "upgrade"}}
VideoReleased(x) ==
    LET unused == DOMAIN x.cmd \ (Referenced(x) \cup InUpgrade(x))
        lost == {s \in Streams : x.st[s].current \in unused}
    IN  [x EXCEPT !.cmd = Without(@, unused), !.fr = Without(@, unused),
                  !.st = [s \in Streams |-> IF s \in lost THEN [@[s] EXCEPT !.current = NoDrawable] ELSE @[s]]]

-----------------------------------------------------------------------------
(* Drawing. *)

\* display_channel_add_drawable with its calls into the streams: the tree has
\* taken the drawable and x.t is the tree before
VideoPiped(x, d, c, add) ==
    LET u == RemoveGone([x EXCEPT !.t = add.t])
        taken == [u EXCEPT !.list = <<d>> \o SelectSeq(@, LAMBDA e : e # add.other)]
        item == PipeItem("draw", 0, d, NoSurface)
        IsOther(i) == i.type = "draw" /\ i.d = add.other
        after == x.fr[add.other].stream # NoStream /\ \E i \in DOMAIN u.pipe : IsOther(u.pipe[i])
        Placed(m) == IF after THEN [m EXCEPT !.pipe = InsertAt(@, Max({i \in DOMAIN @ : IsOther(@[i])}) + 1, item)]
                     ELSE PipeAdd(m, item)
        Cut(m) == [m EXCEPT !.pipe = SelectSeq(@, LAMBDA i : ~IsOther(i))]
    IN  CASE add.how = "replace" ->     \* current_add_equal
                Cut(Placed(Replay(Maintenance(taken, d, add.other), NoDrawable)))
          [] add.how = "pipe" /\ c.kind = "copy_bits" ->
                PipeAdd(UpdateVisibleRegion(Replay(taken, NoDrawable), d), item)
          [] add.how = "pipe" /\ EffectOf(c) = "OPAQUE" ->
                PipeAdd(UpdateVisibleRegion(TraceUpdate(Replay(taken, d), d), d), item)
          [] add.how = "pipe" -> PipeAdd(DetachBehind(Replay(taken, NoDrawable), c.rgn, d), item)

VideoAdd(x, d, c) ==
    LET New(y) == [y EXCEPT !.t = NewDrawable(@, d, c.rgn, EffectOf(c))]
        Add(y) == VideoPiped(y, d, c, TreeAdd(y, d, c))
    IN  Add(New(IF c.kind = "copy_bits" THEN DetachBehind(x, {i + c.src : i \in c.rgn}, NoDrawable) ELSE x))

\* the time since the last command: "slow" is beyond the delta of detection,
\* "late" beyond that of a stream
Aged(x, gap) ==
    LET y == [x EXCEPT !.fr = [d \in DOMAIN @ |-> [@[d] EXCEPT !.fresh = FALSE]], !.trace = <<>>]
    IN  CASE gap = "now" -> x
          [] gap = "slow" -> y
          [] gap = "late" -> [y EXCEPT !.st = [s \in Streams |-> [@[s] EXCEPT !.last = -1]]]

VideoDraw(c, gap) ==
    /\ count < MaxVideo /\ count' = count + 1
    /\ LET d == count + 1
           x == Aged(ds, gap)
           new == [x EXCEPT !.cmd = Extend(@, d, [c EXCEPT !.n = d]),
                            !.fr = Extend(@, d, [streamable |-> c.kind = "bitmap", stream |-> NoStream,
                                                 frames |-> 0, fresh |-> TRUE, rgn |-> c.rgn])]
       IN  /\ ds' = VideoReleased(VideoAdd(new, d, [c EXCEPT !.n = d]))
           /\ ideal' = Rendered(ideal, [c EXCEPT !.n = d])
    /\ UNCHANGED <<screen, player, twice, overtaken>>

VideoUpdateArea(area) ==
    /\ ds' = VideoReleased(Rendering(ds, SurfaceDraw(ds, 0, area)))
    /\ UNCHANGED <<ideal, screen, count, player, twice, overtaken>>

\* video_stream_timeout: the streams whose last frame is old enough
StreamTimeout(s) ==
    /\ s \in Linked(ds)
    /\ ds' = VideoReleased(DetachAndStop(ds, {r \in Linked(ds) : ds.st[r].last <= ds.st[s].last}))
    /\ UNCHANGED <<ideal, screen, count, player, twice, overtaken>>

\* video_stream_detach_and_stop: new codecs, migration
DetachAndStopAll ==
    /\ Linked(ds) # {}
    /\ ds' = VideoReleased(DetachAndStop(ds, Linked(ds)))
    /\ UNCHANGED <<ideal, screen, count, player, twice, overtaken>>

-----------------------------------------------------------------------------
(* The client. *)

VideoStart ==
    /\ ~ds.connected
    /\ LET x == Rendering(ds, CurrentFlush([ds EXCEPT !.connected = TRUE], 0))
           y == AreaImage(VideoReleased(x), Cells)
       IN  ds' = FoldSet(LAMBDA s, z : DccCreateStream(z, s), y, Linked(y))
    /\ screen' = [s \in {0} |-> Blank]
    /\ UNCHANGED <<ideal, count, player, twice, overtaken>>

VideoDisconnect ==
    /\ ds.connected /\ count < MaxVideo /\ count' = count + 1
    /\ ds' = VideoReleased([ds EXCEPT !.connected = FALSE, !.pipe = <<>>,
                                      !.ag = [s \in Streams |-> [vis |-> {}, clip |-> {}, enc |-> FALSE]]])
    /\ screen' = [s \in {} |-> Blank]
    /\ player' = [s \in Streams |-> [made |-> FALSE, clip |-> {}, frame |-> NoDrawable, box |-> {}]]
    /\ overtaken' = FALSE
    /\ UNCHANGED <<ideal, twice>>

\* dcc_handle_stream_report: the client cannot play it
ReportUnsupported(s) ==
    /\ ds.ag[s].enc /\ player[s].made
    /\ ds' = [ds EXCEPT !.ag[s].enc = FALSE]
    /\ UNCHANGED <<ideal, screen, count, player, twice, overtaken>>

\* red_marshall_stream_data sends a drawable as a frame
AsFrame(x, d) ==
    LET s == x.fr[d].stream
    IN  /\ s # NoStream /\ x.ag[s].enc
        /\ Bbox(x.cmd[d].rgn) = x.st[s].dest \/ x.sized

\* DisplayChannelClient::send_item; the encoder may drop a frame
VideoSend(dropped) ==
    LET item == Last(ds.pipe)
        s == item.s
        c == ds.cmd[item.d]
        f == ds.fr[item.d].stream
        frame == item.type = "draw" /\ AsFrame(ds, item.d)
        Paint(pic, rgn, v) == [pic EXCEPT ![0] = [i \in Cells |-> IF i \in rgn THEN v[i] ELSE @[i]]]
    IN  /\ ds.pipe # <<>> /\ (dropped => frame)
        /\ ds' = VideoReleased([ds EXCEPT !.pipe = Front(@),
                                          !.ag = IF item.type = "stream_destroy" THEN [@ EXCEPT ![s].enc = FALSE] ELSE @])
        /\ screen' = CASE item.type = "area" -> Paint(screen, DOMAIN item.img, item.img)
                       [] item.type = "upgrade" -> Paint(screen, item.img, [i \in Cells |-> <<c.n>>])
                       [] item.type = "draw" /\ ~frame -> Rendered(screen, c)
                       [] OTHER -> screen
        /\ player' = CASE item.type = "stream_create" /\ ds.ag[s].enc ->
                              [player EXCEPT ![s].made = TRUE,
                                  ![s].clip = IF ds.st[s].current = NoDrawable THEN {} ELSE ds.cmd[ds.st[s].current].rgn]
                       [] item.type = "stream_clip" -> [player EXCEPT ![s].clip = item.img]
                       [] item.type = "stream_destroy" ->
                              [player EXCEPT ![s] = [made |-> FALSE, clip |-> {}, frame |-> NoDrawable, box |-> {}]]
                       [] frame /\ ~dropped -> [player EXCEPT ![f].frame = c.n, ![f].box = c.rgn]
                       [] OTHER -> player
        /\ UNCHANGED <<ideal, count, twice, overtaken>>

\* the drawable that replaces the video was in the pipe before the clip that
\* ends it; the drawable has arrived and the clip has not
Overtakes(s) ==
    /\ ds.st[s].linkedUp # NoDrawable /\ ds.st[s].linkedUp \notin InPipe(ds)
    /\ \E i \in DOMAIN ds.pipe : ds.pipe[i].type = "stream_clip" /\ ds.pipe[i].s = s

\* the client shows the frame it got last, some time after it came
ClientPlays(s) ==
    /\ player[s].made /\ player[s].frame # NoDrawable /\ 0 \in DOMAIN screen
    /\ screen' = [screen EXCEPT ![0] =
                    [i \in Cells |-> IF i \in player[s].box \cap player[s].clip THEN <<-player[s].frame>> ELSE @[i]]]
    /\ player' = [player EXCEPT ![s].frame = NoDrawable, ![s].box = {}]
    /\ overtaken' = (overtaken \/ Overtakes(s))
    /\ UNCHANGED <<ds, ideal, count, twice>>

VideoNext ==
    \/ \E c \in VideoCommands, gap \in Gaps : VideoDraw(c, gap)
    \/ VideoUpdateArea(Cells)
    \/ \E s \in Streams : StreamTimeout(s) \/ ReportUnsupported(s) \/ ClientPlays(s)
    \/ DetachAndStopAll \/ VideoStart \/ VideoDisconnect
    \/ \E dropped \in BOOLEAN : VideoSend(dropped)

VideoSpec == VideoInit /\ [][VideoNext]_videoVars

-----------------------------------------------------------------------------
\* Wherever no stream's agent says that video shows, a client that has taken
\* its pipe shows exactly what the guest drew, and no frame it still holds may
\* be played there: ending, covering, resizing or losing a stream leaves no
\* lossy or stale pixels (dcc_detach_stream_gracefully, vis_region, clip).
\* Excepted is what follows a step of Overtakes.
VideoLeavesNoTrace ==
    ds.connected /\ ds.pipe = <<>> /\ ~overtaken =>
        \A c \in Cells \ UNION {ds.ag[s].vis : s \in Linked(ds)} :
            /\ screen[0][c] = ideal[0][c]
            /\ \A s \in Streams : player[s].made => c \notin player[s].box \cap player[s].clip
=============================================================================
