----------------------------- MODULE MCBufferMap -----------------------------
(* Model values and symmetry for checking BufferMap with TLC.               *)
EXTENDS BufferMap, TLC

CONSTANTS t1, t2, i1, i2

MCThreads == {t1, t2}
MCOneThread == {t1}
MCIds == {i1, i2}

\* Threads are interchangeable, and so are buffer ids.
MapSymmetry == {p @@ q : p \in Permutations(MCThreads), q \in Permutations(MCIds)}

=============================================================================
