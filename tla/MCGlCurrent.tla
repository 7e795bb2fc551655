---------------------------- MODULE MCGlCurrent ----------------------------
(* Two guests with two sub-contexts each, and two queries.          *)
EXTENDS GlCurrent, TLC
CONSTANTS c1, c2, q1, q2

MCCtxs == {c1, c2}
MCSubs == {0, 1}
MCQueries == {q1, q2}
MCTargets == {"GL_SAMPLES_PASSED", "GL_TIMESTAMP"}
MCSymmetry == Permutations(MCCtxs) \cup Permutations(MCQueries)
=============================================================================
