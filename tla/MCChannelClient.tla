--------------------------- MODULE MCChannelClient ---------------------------
EXTENDS ChannelClient

\* A channel with acknowledgements, as display and cursor have them.
Acks == [acks |-> TRUE, drawables |-> TRUE, windows |-> {1, 2}, ping |-> FALSE, monitored |-> FALSE, waits |-> {},
         migrates |-> FALSE, blocks |-> FALSE, sendCap |-> 2, recvCap |-> 1, items |-> 5]

\* The same with latency tests and the waiting loops of the worker.
WaitingWorker == [Acks EXCEPT !.windows = {1}, !.ping = TRUE, !.waits = {"item", "outgoing", "all"}, !.sendCap = 1, !.items = 2]

\* The main channel.  Its client's kernel takes what a latency test needs.
Main == [acks |-> FALSE, drawables |-> FALSE, windows |-> {1}, ping |-> TRUE, monitored |-> TRUE, waits |-> {},
         migrates |-> TRUE, blocks |-> FALSE, sendCap |-> 1, recvCap |-> 4, items |-> 2]

\* The same with a client whose receive buffer fills up.
MainFull == [Main EXCEPT !.migrates = FALSE, !.sendCap = 2, !.recvCap = 1]

\* A channel whose device refuses receive buffers: spicevmc.
Vmc == [Main EXCEPT !.ping = FALSE, !.monitored = FALSE, !.migrates = FALSE, !.blocks = TRUE, !.recvCap = 1, !.items = 3]

AllKinds == {Acks, WaitingWorker, Main, Vmc}
Full == {MainFull}
=============================================================================
