------------------------------ MODULE Sessions ------------------------------
(***************************************************************************)
(* What the owner of the server may rely on about clients, whatever the    *)
(* threads do: a client's session starts once, channels join and leave it  *)
(* only while it is open, and it is over, for good, only when all of them  *)
(* have left.                                                              *)
(***************************************************************************)
CONSTANTS Clients, Channels

VARIABLES state, joined

Init == state = [c \in Clients |-> "none"] /\ joined = [c \in Clients |-> {}]

Start(c, chs) ==
  /\ state[c] = "none" /\ state' = [state EXCEPT ![c] = "open"]
  /\ joined' = [joined EXCEPT ![c] = chs]

Join(c, chs) ==
  /\ state[c] = "open" /\ joined' = [joined EXCEPT ![c] = @ \cup chs]
  /\ UNCHANGED state

Leave(c, ch) ==
  /\ ch \in joined[c] /\ joined' = [joined EXCEPT ![c] = @ \ {ch}]
  /\ UNCHANGED state

End(c) ==
  /\ state[c] = "open" /\ joined[c] = {}
  /\ state' = [state EXCEPT ![c] = "over"]
  /\ UNCHANGED joined

Next == \E c \in Clients :
  \/ \E chs \in SUBSET Channels : Start(c, chs) \/ Join(c, chs)
  \/ \E ch \in Channels : Leave(c, ch)
  \/ End(c)

Spec == Init /\ [][Next]_<<state, joined>>
=============================================================================
