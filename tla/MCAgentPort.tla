----------------------------- MODULE MCAgentPort -----------------------------
EXTENDS AgentPort

\* Three messages: two of several chunks or buffers, one that fits a buffer.
MCMessages == {1, 2, 3}
MCKind == <<"plain", "clip", "mon">>
MCSize == <<3, 1, 2>>

\* The chunk with the units from .. to of message m.
Piece(m, from, to) == [k \in 1 .. to - from + 1 |-> [m |-> m, i |-> from + k - 1]]
Chunk(m, from, to) == [k \in 1 .. ChunkHdr |-> [m |-> 0, i |-> to - from + 1]] \o Piece(m, from, to)

\* A chunk larger than a read buffer, then a clipboard message; a message of two chunks.
Chunks == {Chunk(1, 1, 5) \o Chunk(2, 1, 3), Chunk(1, 1, 3) \o Chunk(1, 4, 5) \o Chunk(2, 1, 3)}

\* Reading with every split of the agent's data.
Read == [streams |-> Chunks, data |-> {<<>>}, seamless |-> FALSE, split |-> TRUE, attaches |-> 2]

\* Writing: a plain message in two pieces, then one of the clipboard.
Write == [streams |-> {Chunk(2, 1, 3) \o Chunk(1, 1, 3) \o Chunk(1, 4, 5)},
          data |-> {<<Piece(1, 1, 3), Piece(1, 4, 5), Piece(2, 1, 3)>>},
          seamless |-> FALSE, split |-> FALSE, attaches |-> 2]

\* A seamless migration.
Migrate == [streams |-> Chunks, data |-> {<<>>}, seamless |-> TRUE, split |-> FALSE, attaches |-> 2]

AllSetups == {Read, Write, Migrate}
OnlyWrite == {Write}
=============================================================================
