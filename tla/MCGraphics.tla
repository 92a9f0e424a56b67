----------------------------- MODULE MCGraphics -----------------------------
(***************************************************************************)
(* The display worker and what it is made of, and the channels that show    *)
(* the guest's picture.  They meet each other only through the interfaces    *)
(* each module models on its own, so a behaviour exercises one of them,      *)
(* `part', and the others keep their initial state: the state space is the   *)
(* sum of the components' and not the product.                               *)
(***************************************************************************)
EXTENDS Worker, VideoStreams, PixmapCache, LossyRegions, GlzDictionary, MjpegEncoder, Cursor,
        GlScanout, Replay, TLC

VARIABLE part

Parts == {"worker", "display", "tree", "video", "pixmap", "lossy", "glz", "mjpeg", "cursor", "gl",
          "replay"}

-----------------------------------------------------------------------------
(* The values of the constants. *)

Cmd(n, s, rgn, kind, src) == [n |-> n, s |-> s, rgn |-> rgn, kind |-> kind, src |-> src]
MCCommands ==
    { Cmd(1, 0, {1, 2}, "fill", 0),       Cmd(2, 0, {2, 3}, "fill", 0),
      Cmd(3, 0, {1, 2, 3}, "fill", 0),    Cmd(4, 0, {2}, "blend", 0),
      Cmd(5, 0, {1, 2}, "invert", 0),     Cmd(6, 0, {1}, "copy_bits", 1),
      Cmd(7, 0, {1, 2}, "copy", 1),       Cmd(8, 1, {2, 3}, "fill", 0) }
MaxDisplay == 3
TreeCommands ==
    { Cmd(1, 0, {1, 2, 3}, "fill", 0),    Cmd(2, 0, {1, 2}, "fill", 0),
      Cmd(3, 0, {2}, "fill", 0),          Cmd(4, 0, {2}, "blend", 0),
      Cmd(5, 0, {1}, "copy_bits", 1),     Cmd(6, 0, {2, 3}, "copy_bits", -1) }
MCVideoCommands ==
    { Cmd(0, 0, {1, 2}, "bitmap", 0),     Cmd(0, 0, {1, 2, 3}, "bitmap", 0),
      Cmd(0, 0, {2}, "blend", 0),         Cmd(0, 0, {3}, "copy_bits", -1) }
MCVideoCaps == {[sized |-> TRUE, codec |-> TRUE]}

MCMaxSerial == [d \in Dccs |-> 3]

Absent == <<"none">>
Surface1 == <<"surface", 1>>
Image1 == <<"image", 1>>
Solid == <<"solid">>
MCDrawings ==
    { Drawing("fill", 0, {1, 2}, Absent, Solid, FALSE, FALSE),
      Drawing("fill", 0, {2}, Absent, Surface1, TRUE, FALSE),
      Drawing("fill", 1, {1}, Absent, Image1, FALSE, TRUE),
      Drawing("opaque", 0, {2}, Image1, Surface1, TRUE, FALSE),
      Drawing("opaque", 0, {1, 2}, Image1, Solid, FALSE, FALSE),
      Drawing("copy", 0, {1, 2}, Image1, Absent, FALSE, FALSE),
      Drawing("copy", 0, {2}, Surface1, Absent, FALSE, TRUE),
      Drawing("copy", 1, {1, 2}, <<"bitmap">>, Absent, FALSE, FALSE),
      Drawing("transparent", 0, {1}, Surface1, Absent, FALSE, FALSE),
      Drawing("alpha_blend", 0, {2}, Surface1, Absent, FALSE, FALSE),
      Drawing("copy_bits", 0, {1, 2}, Absent, Absent, FALSE, FALSE),
      Drawing("blend", 0, {1, 2}, Surface1, Absent, FALSE, FALSE),
      Drawing("blackness", 1, {2}, Absent, Absent, FALSE, TRUE),
      Drawing("whiteness", 0, {2}, Absent, Absent, FALSE, FALSE),
      Drawing("inverse", 0, {1, 2}, Absent, Absent, FALSE, FALSE),
      Drawing("rop3", 0, {2}, Surface1, Image1, FALSE, FALSE),
      Drawing("composite", 0, {1, 2}, Surface1, Surface1, FALSE, FALSE),
      Drawing("stroke", 0, {1, 2}, Absent, Surface1, TRUE, FALSE),
      Drawing("text", 0, {2}, Absent, Solid, TRUE, FALSE) }

Report(drops, age, end, delay, audio) ==
    [drops |-> drops, age |-> age, end |-> end, delay |-> delay, audio |-> audio]
MCReports == {Report(0, 0, 0, 100, 50), Report(1, 50, 0, -20, 50), Report(0, 50, 50, 10, 0)}

MCRecDrawings ==
    { Shape("alpha_blend", [src |-> "quic"]), Shape("blackness", [mask |-> "flat"]),
      Shape("copy", [src |-> "surface", clip |-> "rects"]), Shape("copy_bits", <<>>),
      Shape("fill", [brush |-> "chunked", mask |-> "flat"]),
      Shape("opaque", [src |-> "flat", brush |-> "surface"]), Shape("nop", <<>>),
      Shape("rop3", [src |-> "chunked", brush |-> "quic", mask |-> "flat"]),
      Shape("stroke", [style |-> "styled", brush |-> "flat"]), Shape("stroke", <<>>),
      Shape("text", [brush |-> "flat", back |-> "chunked"]),
      Shape("transparent", [src |-> "surface"]),
      Shape("composite", [src |-> "surface", src_transform |-> "some", mask |-> "flat"]),
      Shape("composite", [src |-> "flat", mask_transform |-> "some"]) }
MCLaterDrawings == {Shape("transparent", [src |-> "surface"])}

-----------------------------------------------------------------------------
(* One component at a time; a component that is not exercised makes none of   *)
(* its initial choices.                                                      *)

PictureInit == IF part \in {"display", "tree"}
               THEN DisplayInit /\ player = <<>> /\ overtaken = FALSE
               ELSE VideoInit

Init ==
    /\ part \in Parts
    /\ WorkerInit /\ PictureInit /\ PixmapInit /\ LossyInit /\ GlzInit /\ MjpegInit /\ CurInit
    /\ GlInit /\ RecInit
    /\ part = "pixmap" \/ \A d \in Dccs : ~dcc[d].mini

Keep(p, vars) == IF p THEN TRUE ELSE UNCHANGED vars

\* The step is one of component p: every other component keeps its state.
Of(p) ==
    /\ part = p /\ UNCHANGED part
    /\ Keep(p = "worker", workerVars)
    /\ Keep(p = "video", <<player, overtaken>>)
    /\ Keep(p \in {"display", "tree", "video"}, displayVars)
    /\ Keep(p = "pixmap", pixmapVars)     /\ Keep(p = "lossy", lossyVars)
    /\ Keep(p = "glz", glzVars)           /\ Keep(p = "mjpeg", mjpegVars)
    /\ Keep(p = "cursor", curVars)        /\ Keep(p = "gl", glVars)
    /\ Keep(p = "replay", recVars)

WorkerStep  == Of("worker") /\ WorkerNext
DisplayStep == Of("display") /\ DisplayNext /\ count' <= MaxDisplay
\* longer sequences of drawings on one surface, with no client
TreeStep    == /\ Of("tree")
               /\ \/ \E c \in TreeCommands : ProcessDraw(c)
                  \/ \E a \in {{c} : c \in Cells} : UpdateArea(0, a)
VideoStep   == Of("video") /\ VideoNext
PixmapStep  == Of("pixmap") /\ PixmapNext
LossyStep   == Of("lossy") /\ LossyNext
GlzStep     == Of("glz") /\ GlzNext
MjpegStep   == Of("mjpeg") /\ MjpegNext
CursorStep  == Of("cursor") /\ CurNext
GlStep      == Of("gl") /\ GlNext
ReplayStep  == Of("replay") /\ RecNext

Next ==
    \/ WorkerStep \/ DisplayStep \/ TreeStep \/ VideoStep \/ PixmapStep \/ LossyStep \/ GlzStep
    \/ MjpegStep \/ CursorStep \/ GlStep \/ ReplayStep

vars == <<part, workerVars, videoVars, pixmapVars, lossyVars, glzVars, mjpegVars, curVars, glVars,
          recVars>>

Spec == Init /\ [][Next]_vars

-----------------------------------------------------------------------------
\* Display's properties and VideoStreams' are about the same variables.

\* What the guest drew is what is rendered (display_channel_update, draw_until)
\* and what a client that has taken its pipe shows, whatever the tree has dropped
\* or put on hold; and the tree is as its walks assume.
DisplayShowsGuestPicture ==
    part \in {"display", "tree"} => UpdateShowsGuestPicture /\ ClientShowsGuestPicture /\ TreeWellFormed

\* VideoLeavesNoTrace of VideoStreams: outside of the region that shows video
\* the client's screen is what the guest drew.
VideoClient == part = "video" => VideoLeavesNoTrace
=============================================================================
