---------------------------- MODULE MCFilterBlock ----------------------------
EXTENDS FilterBlock
\* Block offsets on both sides of the 2048 boundary, one in range 2, and
\* 8192, whose StartBlock gives range 3 (no block) an empty filter.
MCOffsets == {0, 2047, 2048, 4100, 8192}
\* Internal keys of user keys 1 and 2 with stored tags 1 and 2; probes use
\* every tag, so they differ from the stored tag as a LookupKey's does.
MCKeys == {1 * kTagSpace + 1, 2 * kTagSpace + 2}
=============================================================================
