--------------------------- MODULE MCBlockBuilder ---------------------------
EXTENDS BlockBuilder

\* Values: empty, and one long enough that its length varint takes 2 bytes
\* only if needed; one byte suffices to move offsets.
MCValues == {<<>>, <<7>>}
=============================================================================
