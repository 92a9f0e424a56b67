---------------------------- MODULE MCCharDevice ----------------------------
(* Small instances of CharDevice for TLC. *)
EXTENDS CharDevice, TLC

CONSTANTS c1, c2, b1, b2, b3

\* A client under flow control and one without.
Mixed == (c1 :> TRUE) @@ (c2 :> FALSE)

\* The write side of one client, the read side of both, and the two together on a small scale:
\* the parts meet in the states they share.
Sides ==
  \/ c2 \notin clients /\ avail = 0 /\ sendTokens[c1] = 0
  \/ Live = {} /\ (c2 \in clients => avail <= 1)
  \/ Cardinality(Live) <= 1 /\ c2 \notin clients /\ avail <= 1 /\ sendTokens[c1] <= 1

BufSymmetry   == Permutations(Bufs)
=============================================================================
