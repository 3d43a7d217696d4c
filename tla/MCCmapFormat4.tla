---------------------------- MODULE MCCmapFormat4 ----------------------------
(* Model-checking instance of CmapFormat4: a 4-code space (3 is 0xFFFF),   *)
(* two glyphs, up to two segments.                                         *)
EXTENDS CmapFormat4

\* Segment 1 maps 0..1 directly, segment 2 is the 0xFFFF terminator with
\* idDelta 1 (glyph 0): the table of spec scenario 1, scaled.
MCBaseSegments ==
  <<[start |-> 0, end |-> 1, delta |-> 0, iro |-> 0],
    [start |-> 3, end |-> 3, delta |-> 1, iro |-> 0]>>

MCBaseGlyphs == <<>>

\* idDelta -1 is stored as 0xFFFF and read back with ReadS16.
MCDeltas == {-1, 0, 1}
=============================================================================
