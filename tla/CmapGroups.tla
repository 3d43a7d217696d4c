------------------------------ MODULE CmapGroups ------------------------------
(***************************************************************************)
(* The segmented-coverage subtables: Parse31012 (format 12) and Parse31013 *)
(* (format 13) of src/gfx/ots/src/cmap.cc, the Mac Roman byte array:       *)
(* Parse100 (format 0), and the part of ots_cmap_serialise that writes     *)
(* their bodies back.                                                      *)
(*                                                                         *)
(* The subtable is the sequence of 16-bit words the parser reads (every    *)
(* field of both formats is a u16 or a u32 at an even offset); `length` is *)
(* the subtable length the directory recovered from the u32 at offset 4.   *)
(* After a first parse is accepted, Serialise writes the body the code     *)
(* emits and the same parser runs again over those bytes (pass 2): the     *)
(* round trip of spec P4, one subtable at a time.                          *)
(*                                                                         *)
(* Code points and glyph ids are real u32 values drawn from small sets     *)
(* that straddle each boundary the code tests (the surrogate block,        *)
(* 0x10FFFF, 0xFFFF, num_glyphs).                                          *)
(***************************************************************************)
EXTENDS Integers, Sequences, SequencesExt

CONSTANTS
  NumGlyphs,   \* maxp.num_glyphs
  CodePoints,  \* start/end code points enumerated
  GlyphIds,    \* start glyph ids enumerated
  MaxGroups,   \* most groups in an enumerated subtable
  BaseGroups,  \* an accepted group list, damaged one header field at a time
  Format0Arrays  \* the 256-byte glyph arrays of the format-0 inputs

ASSUME NumGlyphs \in 1..65535

kMaxCMAPGroups == 65535
kUnicodeUpperLimit == 1114111    \* 0x10FFFF
SurrogateFirst == 55296          \* 0xD800
SurrogateLast == 57343           \* 0xDFFF
kFormat0ArraySize == 256

VARIABLES
  fmt,          \* 0, 12 or 13: which parser the directory dispatched to
  data,         \* the subtable's words
  length,       \* its length in bytes
  pass,         \* 1: the input table; 2: the bytes Serialise wrote
  pc,           \* where the parser is
  i,            \* group index, 1-based
  groups,       \* file->cmap->subtable_3_10_12 (or _13)
  firstGroups,  \* the groups accepted by pass 1
  array,        \* file->cmap->subtable_1_0_0
  firstArray    \* the array accepted by pass 1

vars == <<fmt, data, length, pass, pc, i, groups, firstGroups, array, firstArray>>

-----------------------------------------------------------------------------
(* Reading and writing words.                                              *)

Word(b) == IF b \div 2 + 1 <= Len(data) THEN data[b \div 2 + 1] ELSE 0

\* The byte at offset b.
Byte(b) == IF b % 2 = 0 THEN Word(b) \div 256 ELSE Word(b) % 256

\* Big-endian u32 at byte offset b.
U32(b) == Word(b) * 65536 + Word(b + 2)

Fits(endByte) == endByte <= length

\* The two words of a u32 as WriteU32 emits them.
U32Words(v) == <<v \div 65536, v % 65536>>

GroupWords(g) == U32Words(g.start) \o U32Words(g.end) \o U32Words(g.glyph)

NoGroup == [start |-> 0, end |-> 0, glyph |-> 0]

-----------------------------------------------------------------------------
(* Group validation.                                                       *)

InSurrogates(cp) == cp >= SurrogateFirst /\ cp <= SurrogateLast

\* Mutant: the test for a range that jumps over the block is dropped.
StraddlesSurrogatesNever(g) == FALSE

\* Lines 297-300: a range from below the block to above it.
StraddlesSurrogates(g) == g.start < SurrogateFirst /\ g.end > SurrogateLast

\* Lines 282-310, the checks of one format-12 group.
Format12GroupValid(g) ==
  /\ g.start <= kUnicodeUpperLimit /\ g.end <= kUnicodeUpperLimit
  /\ g.glyph <= 65535
  /\ ~InSurrogates(g.start) /\ ~InSurrogates(g.end)
  /\ ~StraddlesSurrogates(g)
  /\ g.end >= g.start
  /\ (g.end - g.start) + g.glyph <= NumGlyphs

\* Lines 368-376, the checks of one format-13 group.
Format13GroupValid(g) ==
  /\ g.start <= kUnicodeUpperLimit /\ g.end <= kUnicodeUpperLimit
  /\ g.glyph <= 65535
  /\ g.glyph < NumGlyphs

\* Lines 315-320: sorted by start code and not overlapping the previous.
SortedAfter(prev, g) == g.start > prev.start /\ g.start > prev.end

-----------------------------------------------------------------------------
(* Parse31012 / Parse31013.                                                *)

\* Where the first group is read: after the u32 num_groups.
GroupsBase == IF fmt = 12 THEN 16 ELSE 14

Fail == /\ pc' = "failed"
        /\ UNCHANGED <<fmt, data, length, pass, i, groups, firstGroups, array, firstArray>>

\* Lines 252-273: skip 8, u32 language = 0, u32 num_groups in 1..0xFFFF,
\* then groups.resize(num_groups).
Header12 ==
  /\ pc = "header" /\ fmt = 12
  /\ IF Fits(16) /\ U32(8) = 0 /\ U32(12) \in 1..kMaxCMAPGroups
       THEN /\ groups' = [k \in 1..U32(12) |-> NoGroup]
            /\ pc' = "groups" /\ i' = 1
            /\ UNCHANGED <<fmt, data, length, pass, firstGroups, array, firstArray>>
       ELSE Fail

\* Lines 333-357: as Header12 but the language is read as a u16 at 8 and
\* num_groups as the u32 at 10.
Header13 ==
  /\ pc = "header" /\ fmt = 13
  /\ IF Fits(14) /\ Word(8) = 0 /\ U32(10) \in 1..kMaxCMAPGroups
       THEN /\ groups' = [k \in 1..U32(10) |-> NoGroup]
            /\ pc' = "groups" /\ i' = 1
            /\ UNCHANGED <<fmt, data, length, pass, firstGroups, array, firstArray>>
       ELSE Fail

\* Lines 275-311 / 359-377, one iteration: read the three u32s of group i
\* into the slot, then validate them.
ReadGroup ==
  LET off == GroupsBase + 12 * (i - 1)
      g == [start |-> U32(off), end |-> U32(off + 4), glyph |-> U32(off + 8)]
      valid == IF fmt = 12 THEN Format12GroupValid(g) ELSE Format13GroupValid(g)
  IN
  /\ pc = "groups"
  /\ \/ /\ ~Fits(off + 12)
        /\ Fail
     \/ /\ Fits(off + 12)
        /\ groups' = [groups EXCEPT ![i] = g]
        /\ pc' = IF ~valid THEN "failed"
                 ELSE IF i = Len(groups) THEN "sorted" ELSE "groups"
        /\ i' = i + 1
        /\ UNCHANGED <<fmt, data, length, pass, firstGroups, array, firstArray>>

\* Lines 314-321 / 380-387: the sort and overlap loop.
CheckSorted ==
  /\ pc = "sorted"
  /\ IF \A k \in 2..Len(groups) : SortedAfter(groups[k - 1], groups[k])
       THEN /\ pc' = "accepted"
            /\ UNCHANGED <<fmt, data, length, pass, i, groups, firstGroups, array, firstArray>>
       ELSE Fail

-----------------------------------------------------------------------------
(* Parse100.                                                               *)

\* Lines 497-507: skip format and length, read the language (a non-zero
\* one is only warned about).
Header0 ==
  /\ pc = "header" /\ fmt = 0
  /\ IF Fits(6)
       THEN /\ pc' = "glyphs" /\ i' = 1
            /\ UNCHANGED <<fmt, data, length, pass, groups, firstGroups, array, firstArray>>
       ELSE Fail

\* Lines 509-516, one iteration: read byte i of the array and append it.
ReadGlyph0 ==
  /\ pc = "glyphs"
  /\ IF Fits(6 + i)
       THEN /\ array' = Append(array, Byte(5 + i))
            /\ pc' = IF i = kFormat0ArraySize THEN "accepted" ELSE "glyphs"
            /\ i' = i + 1
            /\ UNCHANGED <<fmt, data, length, pass, groups, firstGroups, firstArray>>
       ELSE Fail

-----------------------------------------------------------------------------
(* ots_cmap_serialise, the format-0, format-12 and format-13 bodies.       *)

\* Two bytes of the array to a word.
PackWords(a) == [k \in 1..(Len(a) \div 2) |-> a[2 * k - 1] * 256 + a[2 * k]]

\* Mutant: the language field left out of the format-0 body.
Format0BodyNoLanguage(a) == <<0, 6 + kFormat0ArraySize>> \o PackWords(a)

\* Lines 813-821: u16 format 0, u16 length 6 + 256, u16 language 0, then
\* the 256 bytes.
Format0Body(a) == <<0, 6 + kFormat0ArraySize, 0>> \o PackWords(a)

\* Mutant: the format-13 length formula used for format 12 as well.
BodyLengthAs13(f, n) == n * 12 + 14

\* The length field written: num_groups * 12 + 16 for format 12 (line 847),
\* num_groups * 12 + 14 for format 13 (line 869).
BodyLength(f, n) == IF f = 12 THEN n * 12 + 16 ELSE n * 12 + 14

\* Lines 840-882: u16 format, u16 0, u32 length, u32 language 0,
\* u32 num_groups, then each group's three u32s.
Body(f, gs) ==
  <<f, 0>> \o U32Words(BodyLength(f, Len(gs))) \o U32Words(0)
  \o U32Words(Len(gs)) \o FlattenSeq([k \in 1..Len(gs) |-> GroupWords(gs[k])])

\* Serialise the accepted subtable; the directory of the re-read table
\* takes the subtable length from the u16 at offset 2 for format 0 and
\* from the u32 at offset 4 for formats 12 and 13 (lines 590-606).
Serialise ==
  /\ pc = "accepted" /\ pass = 1
  /\ data' = IF fmt = 0 THEN Format0Body(array) ELSE Body(fmt, groups)
  /\ length' = IF fmt = 0 THEN data'[2] ELSE BodyLength(fmt, Len(groups))
  /\ firstGroups' = groups /\ firstArray' = array
  /\ groups' = <<>> /\ array' = <<>>
  /\ pass' = 2 /\ pc' = "header" /\ i' = 1
  /\ UNCHANGED fmt

\* The parser has returned and nothing is left to do.
Returned ==
  /\ pc = "failed" \/ (pc = "accepted" /\ pass = 2)
  /\ UNCHANGED vars

Next ==
  \/ Header12 \/ Header13 \/ ReadGroup \/ CheckSorted \/ Header0 \/ ReadGlyph0
  \/ Serialise \/ Returned

-----------------------------------------------------------------------------
(* The subtables the parser can be handed.                                *)

GroupInputs == [start: CodePoints, end: CodePoints, glyph: GlyphIds]

GroupsWords(gs) == FlattenSeq([k \in 1..Len(gs) |-> GroupWords(gs[k])])

\* The OpenType layout of formats 12 and 13: u16 format, u16 reserved,
\* u32 length, u32 language, u32 numGroups, then the groups.
OpenTypeLayout(f, lang, n, gs) ==
  <<f, 0>> \o U32Words(16 + 12 * Len(gs)) \o U32Words(lang) \o U32Words(n)
  \o GroupsWords(gs)

\* The layout Parse31013 reads: a u16 language and the groups at 14.
ShortLayout13(lang, n, gs) ==
  <<13, 0>> \o U32Words(14 + 12 * Len(gs)) \o <<lang>> \o U32Words(n)
  \o GroupsWords(gs)

\* Every layout of format f a font may carry.
Layouts(f, lang, n, gs) ==
  IF f = 12 THEN {OpenTypeLayout(12, lang, n, gs)}
  ELSE {OpenTypeLayout(13, lang, n, gs), ShortLayout13(lang, n, gs)}

\* The format-0 layout: u16 format 0, u16 length, u16 language, the array.
Format0Image(len, lang, a) == <<0, len, lang>> \o PackWords(a)

Init ==
  /\ pass = 1 /\ pc = "header" /\ i = 1 /\ groups = <<>> /\ firstGroups = <<>>
  /\ array = <<>> /\ firstArray = <<>>
  /\ \/ \* every format-0 array, with a non-zero language, or cut short
        \E a \in Format0Arrays, lang \in {0, 1}, len \in {5, 261, 262} :
          fmt = 0 /\ data = Format0Image(len, lang, a) /\ length = len
     \/ \E f \in {12, 13} :
         \/ \* every list of up to MaxGroups enumerated groups
            \E k \in 1..MaxGroups :
            \E gs \in [1..k -> GroupInputs] :
            \E w \in Layouts(f, 0, k, gs) :
              /\ fmt = f /\ data = w /\ length = 2 * Len(w)
         \/ \* the base list with a damaged language or num_groups
            \E lang \in {0, 1}, n \in {0, Len(BaseGroups), Len(BaseGroups) + 1, 65536} :
            \E w \in Layouts(f, lang, n, BaseGroups) :
              /\ lang = 1 \/ n # Len(BaseGroups)
              /\ fmt = f /\ data = w /\ length = 2 * Len(w)

Spec == Init /\ [][Next]_vars

-----------------------------------------------------------------------------
(* Properties.                                                             *)

\* Spec P2: the code points of an accepted format-12 table are scalar
\* values: none above 0x10FFFF and none in the surrogate block, although
\* Parse31012 only tests each group's two ends.
Format12ScalarValues ==
  pc = "accepted" /\ fmt = 12 =>
    \A k \in 1..Len(groups) :
      /\ groups[k].end <= kUnicodeUpperLimit
      /\ groups[k].end < SurrogateFirst \/ groups[k].start > SurrogateLast

\* Spec P4 for format 12: the body ots_cmap_serialise writes parses back to
\* the same groups.
Format12RoundTrip ==
  pass = 2 /\ fmt = 12 /\ pc \in {"accepted", "failed"} =>
    pc = "accepted" /\ groups = firstGroups

\* Spec P4 for format 13: the same round trip.
Format13RoundTrip ==
  pass = 2 /\ fmt = 13 /\ pc \in {"accepted", "failed"} =>
    pc = "accepted" /\ groups = firstGroups

\* Spec P1: every glyph id an accepted format-12 group maps to,
\* start_glyph_id .. start_glyph_id + (end - start), is below num_glyphs.
Format12GlyphsInRange ==
  pc = "accepted" /\ fmt = 12 =>
    \A k \in 1..Len(groups) :
      groups[k].glyph + (groups[k].end - groups[k].start) < NumGlyphs

\* Spec P4 for format 0: the body ots_cmap_serialise writes, with its own
\* length field as the length the directory recovers, parses back to the
\* same 256 glyph ids, whatever language the input carried.
Format0RoundTrip ==
  pass = 2 /\ fmt = 0 /\ pc \in {"accepted", "failed"} =>
    pc = "accepted" /\ array = firstArray

=============================================================================
