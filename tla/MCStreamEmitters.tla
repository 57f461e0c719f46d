--------------------------- MODULE MCStreamEmitters ---------------------------
(* Model checking of StreamEmitters: two distinguishable chunks.           *)
EXTENDS StreamEmitters, TLC

ChunkSymmetry == Permutations(Chunk)

=============================================================================
