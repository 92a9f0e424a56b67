----------------------------- MODULE AgentFilter -----------------------------
(***************************************************************************)
(* agent_msg_filter_process_data (server/agent-msg-filter.c): decides for  *)
(* each piece of the agent's or the client's data whether it is forwarded. *)
(*                                                                         *)
(* Data is a sequence of units.  A unit is a record [m, i]: the i-th unit  *)
(* of message m, whose first HeaderLen units are its VDAgentMessage        *)
(* header.  A unit [m |-> 0, i |-> n] belongs to a VDIChunkHeader that     *)
(* announces n units.                                                      *)
(***************************************************************************)
EXTENDS Integers, Sequences

CONSTANTS
  Messages,     \* identities of the agent messages
  Kind,         \* of each message: "plain", "clip" (clipboard or files), "mon"
  Size,         \* VDAgentMessage.size: units after the header
  HeaderLen,    \* sizeof(VDAgentMessage)
  MaxData,      \* VD_AGENT_MAX_DATA_SIZE
  UseMonitors   \* use_client_monitors_config

ASSUME AgentFilterAssumption ==
  /\ Messages \subseteq Nat \ {0} /\ Kind \in [Messages -> {"plain", "clip", "mon"}]
  /\ Size \in [Messages -> Nat] /\ HeaderLen \in Nat \ {0} /\ MaxData \in Nat
  /\ HeaderLen =< MaxData /\ UseMonitors \in BOOLEAN

Results == {"ok", "discard", "mon", "error"}
Filters == [left : Nat, result : Results, all : BOOLEAN]
Total(m) == HeaderLen + Size[m]

\* agent_msg_filter_init with discard_all.
FilterInit == [left |-> 0, result |-> "ok", all |-> TRUE]

\* The switch on the message type; clip is copy_paste_enabled (file_xfer_enabled alike).
ResultFor(f, m, clip) ==
  IF f.all \/ (Kind[m] = "clip" /\ ~clip) THEN "discard"
  ELSE IF Kind[m] = "mon" /\ UseMonitors THEN "mon"
  ELSE "ok"

\* data_to_read: len units of a message already judged.  Answers the filter and the verdict.
DataToRead(f, len) ==
  IF len > f.left THEN [f |-> f, res |-> "error"]
  ELSE [f |-> [f EXCEPT !.left = @ - len], res |-> f.result]

\* A header that is not at the start of the data has the wrong protocol number.
Process(f, data, clip) ==
  LET m == data[1].m
      g == [f EXCEPT !.result = ResultFor(f, m, clip), !.left = Size[m]]
  IN IF Len(data) > MaxData THEN [f |-> f, res |-> "error"]
     ELSE IF f.left > 0 THEN DataToRead(f, Len(data))
     ELSE IF Len(data) < HeaderLen \/ m \notin Messages \/ data[1].i # 1
     THEN [f |-> f, res |-> "error"]
     ELSE IF Size[m] > 0 THEN DataToRead(g, Len(data) - HeaderLen)
     ELSE [f |-> g, res |-> g.result]

\* u may follow the units s of a stream of whole messages.
Follows(s, u) ==
  IF s = <<>> THEN u.i = 1
  ELSE LET l == s[Len(s)]
       IN IF u.m = l.m /\ u.i # 1 THEN u.i = l.i + 1
          ELSE u.i = 1 /\ l.i = Total(l.m)

\* Whole messages one after the other, the last one perhaps not complete yet.
Whole(s) == \A k \in DOMAIN s : Follows(SubSeq(s, 1, k - 1), s[k])
=============================================================================
