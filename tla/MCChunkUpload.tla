--------------------------- MODULE MCChunkUpload ---------------------------
(* Constants and symmetry for model-checking ChunkUpload.                  *)
EXTENDS ChunkUpload, TLC

CONSTANTS q1, q2

TwoRequests == {q1, q2}
OnePage == {1}
TwoPages == {1, 2}
EightRefs == 1..8

TwoChunks == [p \in {1} |-> 2]
OneChunkEach == [p \in {1, 2} |-> 1]

\* "a" and "b" are two scans of a page, "big" a chunk that leaves no room for another.
Scans == {"a", "b", "big"}
ScanLength == [v \in Scans |-> IF v = "big" THEN 3 ELSE 1]

Chunk(p, i, v, d) == [page |-> p, index |-> i, version |-> v, data |-> d]

\* Two honest contents of page 1, a chunk whose bytes are not the declared ones,
\* and one so long that the page it declares gets too large: whichever of its two
\* chunks comes second is refused for the size.
MixedUploads ==
  {Chunk(1, i, v, v) : i \in {0, 1}, v \in {"a", "b"}}
    \cup {Chunk(1, 1, "b", "a"), Chunk(1, 1, "a", "big")}

\* A client that sends one content: of one page, of two pages.
HonestChunks == {Chunk(1, i, "a", "a") : i \in {0, 1}}
HonestPages == {Chunk(p, 0, "a", "a") : p \in {1, 2}}

RequestSymmetry == Permutations(TwoRequests)

=============================================================================
