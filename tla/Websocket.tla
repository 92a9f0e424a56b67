------------------------------ MODULE Websocket ------------------------------
(* websocket.c: the framing a browser's connection adds under a channel. The
   server reads frames that arrive in arbitrary pieces, takes the data out of
   them and answers pings; it writes the channel's data as frames through a
   socket that takes a part of them. Bytes are single tokens: a header byte
   <<"h", length, i>>, a data byte <<"d", n>>, the i-th byte of the answer to a
   ping <<"p", ping, i>>, and the bytes of a close frame <<"c", i>>. *)
EXTENDS Integers, Sequences, SequencesExt, FiniteSets

CONSTANTS ClientFrames,  \* frames a client may send: [type, fin, len]
          LongLen,       \* first length that takes the longer header
          Writes,        \* lengths of what the channel writes
          SocketRooms,       \* what the socket accepts during one call
          MaxWs          \* calls and frames

VARIABLES ws,            \* RedsWebSocket
          wsWire,        \* frames to come and bytes of them that have arrived
          chan,          \* what the channel has read, and has yet to write
          out,           \* bytes written to the socket
          wsCalls
wsVars == <<ws, wsWire, chan, out, wsCalls>>

NoPong == [pos |-> 2, len |-> 0, id |-> 0]
IdleFrame == [hdr |-> 0, ready |-> FALSE, type |-> "", fin |-> FALSE, len |-> 0,
              rel |-> 0, id |-> 0]

WsInit ==
  /\ ws = [closed |-> FALSE, closing |-> FALSE, frame |-> IdleFrame, unfinished |-> "",
           hpos |-> 0, hlen |-> 0, wlen |-> 0, rem |-> 0, pong |-> NoPong, pend |-> NoPong]
  /\ wsWire = [bytes |-> <<>>, frames |-> 0, data |-> 0, open |-> ""]
  /\ chan = [got |-> 0, want |-> 0, taken |-> 0, eof |-> FALSE, garbled |-> FALSE,
             torn |-> FALSE, seen |-> 0]
  /\ out = <<>>
  /\ wsCalls = 0

-----------------------------------------------------------------------------
(* Writing. Each function returns the new state of the socket w, the bytes b
   it put on the wire, the room r that is left, and a result: "again" when the
   socket takes no more, "go" otherwise. *)

HeaderLen(len) == IF len >= LongLen THEN 4 ELSE 2
Least(a, b) == IF a < b THEN a ELSE b
ControlSent(p) == p.pos >= p.len + 2

Header(len, from, n) == [i \in 1..n |-> <<"h", len, from + i>>]
PongBytes(p, n) == [i \in 1..n |-> <<"p", p.id, p.pos + i>>]

SendDataHeaderLeft(x) ==
  LET k == Least(x.w.hlen - x.w.hpos, x.r)
      w1 == [x.w EXCEPT !.hpos = @ + k]
      whole == w1.hpos >= w1.hlen
  IN [w |-> IF whole THEN [w1 EXCEPT !.rem = w1.wlen] ELSE w1,
      b |-> x.b \o Header(x.w.wlen, x.w.hpos, k), r |-> x.r - k,
      res |-> IF whole THEN "go" ELSE "again"]

FillHeader(w, len) == [w EXCEPT !.hpos = 0, !.hlen = HeaderLen(len), !.wlen = len]

\* A close frame is complete or is sent again.
AckClose(x) ==
  LET k == Least(2, x.r)
  IN [w |-> IF k = 2 THEN [x.w EXCEPT !.closing = FALSE, !.closed = TRUE] ELSE x.w,
      b |-> x.b \o [i \in 1..k |-> <<"c", i>>], r |-> x.r - k,
      res |-> IF k = 0 THEN "again" ELSE "go"]

\* The pong in hand becomes the one to send; a newer one waits its turn.
SendPong(x) ==
  LET p == x.w.pend
      k == Least(p.len + 2 - p.pos, x.r)
      sent == [p EXCEPT !.pos = @ + k]
      next == IF ~ControlSent(sent) THEN [x.w EXCEPT !.pend = sent]
              ELSE IF x.w.pong.pos = 0 THEN [x.w EXCEPT !.pend = x.w.pong, !.pong = NoPong]
              ELSE [x.w EXCEPT !.pend = sent]
  IN IF ControlSent(p) THEN [x EXCEPT !.res = "go"]
     ELSE [w |-> next, b |-> x.b \o PongBytes(p, k), r |-> x.r - k,
           res |-> IF ControlSent(sent) THEN "go" ELSE "again"]

\* send_pending_data as it would be without its first check.
SendInsideFrame(x) ==
  IF x.w.hpos < x.w.hlen THEN SendDataHeaderLeft(x)
  ELSE SendPong(x)

\* Nothing is put inside a data frame that is being sent.
SendPendingData(x) ==
  IF x.w.rem > 0 THEN [x EXCEPT !.res = "go"]
  ELSE IF x.w.hpos < x.w.hlen THEN SendDataHeaderLeft(x)
  ELSE LET y == IF x.w.closing THEN AckClose(x) ELSE [x EXCEPT !.res = "go"]
       IN IF y.res = "again" THEN y ELSE SendPong(y)

\* Data of the frame that is open, at most what its header announced.
SendData(x, len, first) ==
  LET k == Least(Least(x.w.rem, len), x.r)
  IN [w |-> [x.w EXCEPT !.rem = @ - k],
      b |-> x.b \o [i \in 1..k |-> <<"d", first + i>>], r |-> x.r - k, n |-> k]

\* websocket_write sends the header, then the data.
WriteFrame(x, len, first) ==
  LET y == IF x.w.rem = 0 THEN SendDataHeaderLeft([x EXCEPT !.w = FillHeader(x.w, len)]) ELSE x
  IN IF x.w.rem = 0 /\ y.res = "again" THEN [y EXCEPT !.res = "again"] @@ [n |-> 0]
     ELSE SendData(y, len, first)

\* websocket_writev sends both at once. When the socket took a part of the
\* header the position is set to what is left of it.
HeaderCut(w, k) == [w EXCEPT !.hpos = w.hlen - k]
WritevFrame(x, len, first) ==
  LET w1 == FillHeader(x.w, len)
      k == Least(w1.hlen, x.r)
  IN IF x.w.rem > 0 THEN SendData(x, len, first)
     ELSE IF k = 0 THEN [w |-> [w1 EXCEPT !.hlen = 0], b |-> x.b, r |-> 0, n |-> 0]
     ELSE IF k < w1.hlen
          THEN [w |-> HeaderCut(w1, k), b |-> x.b \o Header(len, 0, k), r |-> 0, n |-> 0]
     ELSE SendData([w |-> [w1 EXCEPT !.hpos = w1.hlen, !.rem = len],
                    b |-> x.b \o Header(len, 0, k), r |-> x.r - k], len, first)

WsCall == wsCalls < MaxWs /\ wsCalls' = wsCalls + 1

\* The channel writes what it has left of its message; a header that came out
\* wrong, or a close frame cut in two, is noted.
ChannelWrites(how, r) ==
  /\ WsCall
  /\ chan.want > 0 /\ ~ws.closed
  /\ LET x == SendPendingData([w |-> ws, b |-> <<>>, r |-> r, res |-> "go"])
         y == IF x.res = "again" THEN [w |-> x.w, b |-> x.b, n |-> 0]
              ELSE IF how = "writev" THEN WritevFrame(x, chan.want, chan.taken)
              ELSE WriteFrame(x, chan.want, chan.taken)
     IN /\ ws' = y.w
        /\ out' = out \o y.b
        /\ chan' = [chan EXCEPT !.want = @ - y.n, !.taken = @ + y.n,
              !.torn = \/ @
                       \/ ws.closing /\ ws.rem = 0 /\ ws.hpos >= ws.hlen /\ r = 1
                       \/ /\ y.w.hpos \in 1..(y.w.hlen - 1)
                          /\ Len(y.b) > 0
                          /\ Last(y.b) # <<"h", y.w.wlen, y.w.hpos>>]
  /\ UNCHANGED wsWire

ChannelHasMessage(len) ==
  /\ chan.want = 0 /\ chan.taken + len =< 4
  /\ chan' = [chan EXCEPT !.want = len]
  /\ UNCHANGED <<ws, wsWire, out, wsCalls>>

-----------------------------------------------------------------------------
(* Reading. A client's byte is [kind, frame, i]: header byte i of a frame, or
   byte i of its payload, number n of the data. *)

FrameBytes(f, id, first) ==
  [i \in 1..2 |-> [kind |-> "h", f |-> f, id |-> id, i |-> i, n |-> 0]] \o
  [i \in 1..f.len |-> [kind |-> "b", f |-> f, id |-> id, i |-> i, n |-> first + i]]

IsData(type) == type \in {"text", "binary"}
Carries(f) == f.type \in {"text", "binary", "cont"}

\* The client keeps to the protocol: a message is continued, then finished.
ClientSends(f) ==
  /\ WsCall
  /\ Carries(f) => (f.type = "cont" <=> wsWire.open # "")
  /\ wsWire' = [bytes |-> wsWire.bytes \o FrameBytes(f, wsWire.frames + 1, wsWire.data),
              frames |-> wsWire.frames + 1,
              data |-> wsWire.data + (IF Carries(f) THEN f.len ELSE 0),
              open |-> IF ~Carries(f) THEN wsWire.open
                       ELSE IF f.fin THEN "" ELSE IF f.type = "cont" THEN wsWire.open ELSE f.type]
  /\ UNCHANGED <<ws, chan, out>>

\* websocket_get_frame_header
GetFrameHeader(w, f, id) ==
  LET type == IF f.type = "cont" THEN w.unfinished ELSE f.type
  IN [w EXCEPT !.frame = [hdr |-> 2, ready |-> TRUE, type |-> type, fin |-> f.fin,
                          len |-> f.len, rel |-> 0, id |-> id],
               !.unfinished = IF ~Carries(f) THEN @ ELSE IF f.fin THEN "" ELSE type,
               !.pong = IF type = "ping" THEN [NoPong EXCEPT !.len = f.len, !.id = id] ELSE @]

ClearFrame(w) == [w EXCEPT !.frame = IdleFrame]

\* A ping that was read in full is answered as soon as the pong before it is out.
PingDone(w) ==
  IF ControlSent(w.pend) THEN [w EXCEPT !.pend = [w.pong EXCEPT !.pos = 0], !.pong = NoPong]
  ELSE [w EXCEPT !.pong.pos = 0]

\* One turn of websocket_read's loop over the bytes in that have arrived;
\* x.need is what the caller still wants, x.n what it has got.
RECURSIVE ReadLoop(_)
ReadLoop(x) ==
  LET f == x.w.frame
      p == Least(Least(Len(x.in), x.avail), IF IsData(f.type) THEN Least(f.len - f.rel, x.need)
                                            ELSE f.len - f.rel)
      taken == SubSeq(x.in, 1, p)
      rest(k) == [x EXCEPT !.in = SubSeq(@, k + 1, Len(@)), !.avail = @ - k]
      done == f.rel + p >= f.len
      moved == [rest(p) EXCEPT !.w.frame.rel = @ + p]
      after == IF done THEN [moved EXCEPT !.w = ClearFrame(@)] ELSE moved
  IN IF x.need = 0 THEN x
     ELSE IF ~f.ready
     THEN IF x.avail = 0 THEN [x EXCEPT !.res = IF x.n > 0 THEN "data" ELSE "again"]
          ELSE IF f.hdr = 0 /\ x.avail = 1 THEN [rest(1) EXCEPT !.w.frame.hdr = 1,
                                  !.res = IF x.n > 0 THEN "data" ELSE "again"]
          ELSE LET k == 2 - f.hdr
               IN ReadLoop([rest(k) EXCEPT !.w = GetFrameHeader(@, x.in[k].f, x.in[k].id)])
     ELSE IF f.type = "close"
     THEN LET y == SendPendingData([w |-> ClearFrame([x.w EXCEPT !.closing = TRUE]),
                                    b |-> x.b, r |-> x.r, res |-> "go"])
          IN [x EXCEPT !.w = y.w, !.b = y.b, !.r = y.r, !.res = "eof"]
     ELSE IF f.len > f.rel /\ x.avail = 0
     THEN [x EXCEPT !.res = IF x.n > 0 THEN "data" ELSE "again"]
     ELSE IF IsData(f.type)
     THEN LET y == [after EXCEPT !.n = @ + p, !.need = @ - p,
                                 !.bad = @ \/ \E i \in 1..p : \/ taken[i].n # x.got + x.n + i
                                                              \/ taken[i].i # f.rel + i]
          IN IF done THEN (IF y.n = 0 THEN ReadLoop(y) ELSE [y EXCEPT !.res = "data"])
             ELSE ReadLoop(y)
     ELSE IF f.type = "ping"
     THEN LET w1 == [after.w EXCEPT !.pong.pos = @ + p]
              y == IF done THEN SendPendingData([w |-> PingDone(w1), b |-> x.b, r |-> x.r,
                                                 res |-> "go"])
                   ELSE [w |-> w1, b |-> x.b, r |-> x.r]
          IN ReadLoop([after EXCEPT !.w = y.w, !.b = y.b, !.r = y.r,
                                    !.seen = IF done THEN f.id ELSE @])
     ELSE ReadLoop(after)

\* The bytes that have arrived when the channel reads, and the socket's room
\* for the answers, are any.
ChannelReads(need, avail, r) ==
  /\ WsCall
  /\ ~chan.eof /\ ~ws.closed /\ ~ws.closing
  /\ avail \in 1..Len(wsWire.bytes)
  /\ LET x == ReadLoop([w |-> ws, in |-> wsWire.bytes, avail |-> avail, need |-> need, n |-> 0,
                        b |-> <<>>, r |-> r, bad |-> FALSE, res |-> "data", got |-> chan.got,
                        seen |-> chan.seen])
     IN /\ ws' = x.w
        /\ wsWire' = [wsWire EXCEPT !.bytes = x.in]
        /\ out' = out \o x.b
        /\ chan' = [chan EXCEPT !.got = @ + x.n, !.eof = x.res = "eof", !.seen = x.seen,
                                !.garbled = @ \/ x.bad,
                                !.torn = \/ @
                                         \/ x.res = "eof" /\ Len(x.b) > 0 /\ Last(x.b) = <<"c", 1>>]

WsNext ==
  \/ \E how \in {"write", "writev"}, r \in SocketRooms : ChannelWrites(how, r)
  \/ \E len \in Writes : ChannelHasMessage(len)
  \/ \E f \in ClientFrames : ClientSends(f)
  \/ \E need \in 1..2, avail \in 1..6, r \in SocketRooms : ChannelReads(need, avail, r)

WsSpec == WsInit /\ [][WsNext]_wsVars

-----------------------------------------------------------------------------
(* What the client makes of the bytes: the bytes of a frame follow one another,
   nothing comes between a header and the data it announces, and data are
   numbered from one. *)
Follows(o, i) ==
  LET a == o[i - 1]
      b == o[i]
      Begins == \/ b[1] = "h" /\ b[3] = 1
                \/ b[1] = "p" /\ b[3] = 1
                \/ b[1] = "c" /\ b[2] = 1
  IN CASE a[1] = "h" -> IF a[3] < HeaderLen(a[2]) THEN b = <<"h", a[2], a[3] + 1>>
                        ELSE b[1] = "d"
       [] a[1] = "c" -> a[2] = 1 => b = <<"c", 2>>
       [] a[1] = "p" -> \/ b[1] = "p" /\ b[2] = a[2] /\ b[3] = a[3] + 1
                        \/ Begins
       [] a[1] = "d" -> b = <<"d", a[2] + 1>> \/ Begins

Opened(o) == {i \in 1..Len(o) : o[i][1] = "h" /\ o[i][3] = 1}
Announced(o) == LET RECURSIVE Sum(_)
                    Sum(S) == IF S = {} THEN 0
                              ELSE LET i == CHOOSE i \in S : TRUE IN o[i][2] + Sum(S \ {i})
                IN Sum(Opened(o))
Pongs(o) == {o[i][2] : i \in {j \in 1..Len(o) : o[j][1] = "p"}}

(* The framing is invisible to both ends, whatever the pieces in which the
   bytes arrive and leave: the channel reads the client's data, whole, in order
   and unmasked at the right position; the bytes written are well-formed frames
   that announce the data the channel wrote and no other; a pong is never put
   into a data frame; and the last ping read is answered, or its answer waits
   (websocket_read, send_pending_data, websocket_write, websocket_writev).
   Excluded are a longer header cut by websocket_writev, whose position is then
   wrong, and a close frame cut in two (torn). *)
FramesWhole ==
  /\ ~chan.garbled
  /\ chan.got =< wsWire.data
  /\ ~chan.torn =>
       /\ Len(out) > 0 => out[1][1] # "d"
       /\ \A i \in 2..Len(out) : Follows(out, i)
       /\ ~(ws.closed \/ ws.closing) /\ ws.hpos >= ws.hlen =>
            Announced(out) = chan.taken + ws.rem
  /\ ws.frame.type = "ping" => ws.pong.len = ws.frame.len
  /\ chan.seen # 0 => \/ chan.seen \in Pongs(out)
                      \/ \E p \in {ws.pong, ws.pend} : p.id = chan.seen
                      \/ ws.frame.type = "ping" \/ ws.pong.id > chan.seen
=============================================================================
