----------------------------- MODULE MCCmapGroups -----------------------------
(* Model-checking instance of CmapGroups.                                  *)
EXTENDS CmapGroups

\* Around 'A', both ends of the surrogate block, the last scalar value and
\* the first value above it.
MCCodePoints == {65, 66, 55295, 55296, 57343, 57344, 1114111, 1114112}

\* Glyph 0, the last glyph, num_glyphs itself and a value above 0xFFFF
\* (num_glyphs is 0xFFFF, the most a font holds).
MCGlyphIds == {0, 65534, 65535, 65536}

\* Two accepted groups: 'A' -> 0 and 0xE000 -> 65534.
MCBaseGroups ==
  <<[start |-> 65, end |-> 65, glyph |-> 0],
    [start |-> 57344, end |-> 57344, glyph |-> 65534]>>

\* Format-0 arrays: all glyph 0, the identity 0..255 (every byte distinct
\* from its neighbours, so a shifted read shows), and 255 in the last byte.
MCFormat0Arrays ==
  {[k \in 1..256 |-> 0], [k \in 1..256 |-> k - 1],
   [k \in 1..256 |-> IF k = 256 THEN 255 ELSE 0]}
=============================================================================
