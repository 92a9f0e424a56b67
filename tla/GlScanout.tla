----------------------------- MODULE GlScanout -----------------------------
(***************************************************************************)
(* OpenGL scanouts (red-qxl.cpp, display-channel.cpp, dcc.cpp): the emulator *)
(* shares a buffer with local clients and asks them to show what it drew     *)
(* there.  The emulator's thread sets the scanout and queues messages; the   *)
(* worker hands them to the clients, counts the clients that still show the  *)
(* drawing and completes the emulator's cookie when the last one is done or  *)
(* gone.  Completing takes two steps, resetting the cookie and calling the   *)
(* emulator, between which the emulator's thread may call.                    *)
(***************************************************************************)
EXTENDS Integers, Sequences, FiniteSets

CONSTANTS GlClients,    \* clients of the display channel
          Buffers,      \* drm_dma_buf_fd of scanouts, positive
          MaxGl         \* bound on what emulator and clients begin

ASSUME GlAssumption == IsFiniteSet(GlClients) /\ Buffers \subseteq Nat \ {0}

VARIABLES gl,           \* [fd, cookie, msgs, count, answer], see GlInit
          gcl,          \* the clients, at the server and at their end
          gdraw,        \* cookie -> what has become of it
          glCalls

glVars == <<gl, gcl, gdraw, glCalls>>

NoBuffer == 0
NoDraw == 0             \* GL_DRAW_COOKIE_INVALID
AwayGcl == [connected |-> FALSE, local |-> FALSE, ongoing |-> FALSE, waiting |-> FALSE, migrated |-> FALSE,
            pipe |-> <<>>, shows |-> NoBuffer, todo |-> 0, blind |-> FALSE]

GlInit ==
    /\ gl = [fd |-> NoBuffer,       \* scanout.drm_dma_buf_fd
             cookie |-> NoDraw,     \* gl_draw_cookie
             msgs |-> <<>>,         \* messages to the worker
             count |-> 0,           \* gl_draw_async_count
             answer |-> NoDraw]     \* red_qxl_gl_draw_async_complete's cookie
    /\ gcl = [c \in GlClients |-> AwayGcl]
    /\ gdraw = <<>>
    /\ glCalls = 0

GlCall == glCalls < MaxGl /\ glCalls' = glCalls + 1

-----------------------------------------------------------------------------
(* The emulator's thread. *)

\* spice_qxl_gl_scanout; a buffer that is taken back is fd -1
QxlGlScanout(fd) ==
    /\ GlCall /\ gl.cookie = NoDraw
    /\ gl' = [gl EXCEPT !.fd = fd, !.msgs = Append(@, "scanout")]
    /\ UNCHANGED <<gcl, gdraw>>

\* spice_qxl_gl_draw_async completes at once when there is no buffer. The emulator waits for
\* its cookie before it draws again.
QxlGlDraw ==
    /\ GlCall /\ \A k \in DOMAIN gdraw : gdraw[k].done > 0
    /\ LET k == Len(gdraw) + 1
       IN  IF gl.fd = NoBuffer
           THEN gdraw' = Append(gdraw, [fd |-> NoBuffer, done |-> 1]) /\ UNCHANGED gl
           ELSE /\ gdraw' = Append(gdraw, [fd |-> gl.fd, done |-> 0])
                /\ gl' = IF gl.cookie # NoDraw THEN gl       \* spice_return_if_fail
                         ELSE [gl EXCEPT !.cookie = k, !.msgs = Append(@, "draw")]
    /\ UNCHANGED gcl

-----------------------------------------------------------------------------
(* The worker. A step is taken only when it is not inside a completion. *)

\* red_qxl_gl_draw_async_complete up to the callback.
Complete(g) == [g EXCEPT !.answer = g.cookie, !.cookie = NoDraw]

SetAsyncCount(g, num) ==
    LET h == [g EXCEPT !.count = num] IN IF num = 0 THEN Complete(h) ELSE h

\* The callback: async_complete of the emulator.
AsyncComplete ==
    /\ gl.answer # NoDraw
    /\ gdraw' = [gdraw EXCEPT ![gl.answer].done = @ + 1]
    /\ gl' = [gl EXCEPT !.answer = NoDraw]
    /\ UNCHANGED <<gcl, glCalls>>

GlWorker == gl.answer = NoDraw

\* pipes_new_add: a client that cannot take the item is disconnected.
PipesNewAdd(item) ==
    [c \in GlClients |->
        IF ~gcl[c].connected THEN gcl[c]
        ELSE IF ~gcl[c].local THEN AwayGcl
        ELSE [gcl[c] EXCEPT !.pipe = Append(@, item), !.ongoing = @ \/ item = "draw"]]

HandleGlMessage ==
    /\ GlWorker /\ gl.msgs # <<>>
    /\ LET item == Head(gl.msgs)
           g == [gl EXCEPT !.msgs = Tail(@)]
       IN  IF item = "draw" /\ gl.count # 0             \* spice_return_if_fail
           THEN gl' = g /\ UNCHANGED gcl
           ELSE /\ gcl' = PipesNewAdd(item)
                /\ gl' = IF item = "scanout" THEN g
                         ELSE SetAsyncCount(g, Cardinality({c \in GlClients : gcl[c].connected /\ gcl[c].local}))
    /\ UNCHANGED <<gdraw, glCalls>>

\* on_connect and the end of dcc_start; a client that comes with a migration waits for its
\* data, and nothing is sent before.
GlConnect(c, local, migrated) ==
    /\ GlCall /\ GlWorker /\ ~gcl[c].connected
    /\ gcl' = [gcl EXCEPT ![c] = [AwayGcl EXCEPT !.connected = TRUE, !.local = local, !.waiting = migrated, !.migrated = migrated,
                                                 !.pipe = IF local /\ ~migrated THEN <<"scanout">> ELSE <<>>]]
    /\ UNCHANGED <<gl, gdraw>>

GlMigrateData(c) ==
    /\ GlWorker /\ gcl[c].waiting
    /\ gcl' = [gcl EXCEPT ![c].waiting = FALSE]
    /\ UNCHANGED <<gl, gdraw, glCalls>>

\* dcc_stop as it would be without the check of gl_draw_ongoing.
StopForgets(c) == gl
DccStop(c) == IF gcl[c].ongoing THEN SetAsyncCount(gl, gl.count - 1) ELSE gl

GlDisconnect(c) ==
    /\ GlCall /\ GlWorker /\ gcl[c].connected
    /\ gl' = DccStop(c)
    /\ gcl' = [gcl EXCEPT ![c] = AwayGcl]
    /\ UNCHANGED gdraw

\* marshall_gl_scanout reads the scanout of the moment, marshall_gl_draw the drawing.
GlSend(c) ==
    /\ GlWorker /\ gcl[c].pipe # <<>> /\ ~gcl[c].waiting
    /\ LET g == [gcl[c] EXCEPT !.pipe = Tail(@)]
       IN  gcl' = [gcl EXCEPT ![c] =
                     IF Head(gcl[c].pipe) = "draw"
                     THEN [g EXCEPT !.todo = @ + 1, !.blind = @ \/ g.shows # gl.fd]
                     ELSE IF gl.fd = NoBuffer THEN g ELSE [g EXCEPT !.shows = gl.fd]]
    /\ UNCHANGED <<gl, gdraw, glCalls>>

\* dcc_handle_gl_draw_done: the client has shown a drawing; a second answer closes it.
HandleDrawDone(c, again) ==
    /\ GlWorker /\ gcl[c].connected
    /\ IF again THEN GlCall /\ ~gcl[c].ongoing ELSE gcl[c].todo > 0 /\ UNCHANGED glCalls
    /\ gl' = DccStop(c)
    /\ gcl' = [gcl EXCEPT ![c] = IF gcl[c].ongoing
                                 THEN [gcl[c] EXCEPT !.ongoing = FALSE, !.todo = gcl[c].todo - 1]
                                 ELSE AwayGcl]
    /\ UNCHANGED gdraw

GlNext ==
    \/ \E fd \in Buffers \cup {NoBuffer} : QxlGlScanout(fd)
    \/ QxlGlDraw \/ AsyncComplete \/ HandleGlMessage
    \/ \E c \in GlClients : \/ \E local, migrated \in BOOLEAN : GlConnect(c, local, migrated)
                            \/ \E again \in BOOLEAN : HandleDrawDone(c, again)
                            \/ GlMigrateData(c) \/ GlDisconnect(c) \/ GlSend(c)

GlSpec == GlInit /\ [][GlNext]_glVars

-----------------------------------------------------------------------------
\* A drawing of the emulator is completed once, when every client that was told of it has
\* shown it or is gone: while it is not complete the worker has its message or counts exactly
\* the clients that owe an answer (gl_draw_async_count, gl_draw_ongoing, gl_draw_cookie), so
\* a client that leaves in between neither holds the emulator up nor completes it early. An
\* answer to a drawing is never taken for an unexpected one, and a client draws from the
\* buffer the drawing is in, unless it came by a migration (it is told of no scanout then).
GlDrawsCompleted ==
    /\ gl.count = Cardinality({c \in GlClients : gcl[c].ongoing})
    /\ \A k \in DOMAIN gdraw :
          /\ gdraw[k].done =< 1
          /\ gdraw[k].done = 0 =>
                \/ gl.answer = k
                \/ gl.cookie = k /\ (gl.count > 0 \/ \E i \in DOMAIN gl.msgs : gl.msgs[i] = "draw")
    /\ \A c \in GlClients : /\ gcl[c].todo > 0 => gcl[c].ongoing
                            /\ gcl[c].blind => gcl[c].migrated
=============================================================================
