----------------------------- MODULE CmapFormat4 -----------------------------
(***************************************************************************)
(* The format-4 (segment mapping to delta values) subtable validator       *)
(* Parse3x4 of src/gfx/ots/src/cmap.cc.                                    *)
(*                                                                         *)
(* The subtable is kept as the sequence of big-endian 16-bit words the     *)
(* parser reads (every field of format 4 is a u16 at an even offset), and  *)
(* `length` is its length in bytes as the directory recovered it.  The     *)
(* parser walks it in the order of the code: header, the four segment      *)
(* arrays, the idRangeOffset loop, the ordering loop (which also patches   *)
(* OS/2 first/last char index), the last-end check, the per-segment lookup *)
(* simulation, and the store into the 3.0.4 or 3.1.4 slot.                 *)
(*                                                                         *)
(* Data abstraction: the 16-bit code space 0..0xFFFF is shrunk to          *)
(* 0..MaxCode, MaxCode playing 0xFFFF (the terminator, the OS/2 sentinel)  *)
(* and MaxCode + 1 the 2^16 of the idDelta wrap-around.  Offsets and       *)
(* lengths are real byte offsets.                                          *)
(***************************************************************************)
EXTENDS Integers, Sequences, FiniteSets, FiniteSetsExt

CONSTANTS
  NumGlyphs,     \* maxp.num_glyphs
  MaxCode,       \* the model's 0xFFFF
  MaxSegments,   \* largest segCount enumerated
  Deltas,        \* idDelta values enumerated
  RangeOffsets,  \* idRangeOffset values enumerated
  GlyphValues,   \* glyphIdArray entries enumerated
  MaxGlyphArray, \* longest glyphIdArray enumerated
  Os2Start,      \* OS/2 first_char_index = last_char_index at entry
  BaseSegments,  \* a table accepted by the parser, damaged one field at a time
  BaseGlyphs

ASSUME NumGlyphs \in 1..MaxCode
ASSUME MaxSegments \in Nat \ {0}
ASSUME Os2Start \in 0..MaxCode

Codes == 0..MaxCode
CodeSpace == MaxCode + 1          \* 2^16 in the code

VARIABLES
  data,      \* the subtable's words (input, never written)
  length,    \* its length in bytes (input)
  hasOS2,    \* file->os2 != NULL (input)
  encoding,  \* the encoding argument, 0 or 1 (input)
  pc,        \* where Parse3x4 is
  i,         \* loop index, 1-based (the code's i + 1)
  ranges,    \* ranges[] as read so far: [start, end, delta, iro, iroOff]
  os2First,  \* file->os2->first_char_index
  os2Last,   \* file->os2->last_char_index
  slot,      \* "none", "3.0.4" or "3.1.4": where the table was stored
  cp         \* the simulation loop's code point (unsigned)

vars == <<data, length, hasOS2, encoding, pc, i, ranges, os2First, os2Last, slot, cp>>

-----------------------------------------------------------------------------
(* Reading the subtable.                                                   *)

\* The u16 at byte offset b (b even).  Bytes past the end of the words are
\* memory beyond the table; the model reads them as 0.
Word(b) == IF b \div 2 + 1 <= Len(data) THEN data[b \div 2 + 1] ELSE 0

\* ots::Buffer reads fail when the read would pass `length`.
Fits(endByte) == endByte <= length

\* Mutant: idDelta read with ReadU16.
S16Unsigned(w) == w

\* ReadS16: two's complement of the u16.
S16(w) == IF w >= 32768 THEN w - 65536 ELSE w

SegCount == Word(6) \div 2

\* Byte offsets of the four arrays (segcount n).
EndOff(n, s)   == 14 + 2 * (s - 1)
StartOff(n, s) == 16 + 2 * n + 2 * (s - 1)
DeltaOff(n, s) == 16 + 4 * n + 2 * (s - 1)
IroOff(n, s)   == 16 + 6 * n + 2 * (s - 1)

-----------------------------------------------------------------------------
(* Header arithmetic.                                                      *)

\* log2segcount: the largest x with 2^x <= segcount.
RECURSIVE Log2Loop(_, _)
Log2Loop(x, segcount) ==
  IF 2^(x + 1) <= segcount THEN Log2Loop(x + 1, segcount) ELSE x

Log2SegCount(segcount) == Log2Loop(0, segcount)

\* expected_search_range = 2 * 1u << log2segcount, truncated to u16.
ExpectedSearchRange(segcount) == (2 * 2^Log2SegCount(segcount)) % 65536

HeaderValid(lang, scx2, sr, es, rs) ==
  /\ lang = 0
  /\ scx2 % 2 = 0 /\ sr % 2 = 0
  /\ scx2 \div 2 >= 1
  /\ sr = ExpectedSearchRange(scx2 \div 2)
  /\ es = Log2SegCount(scx2 \div 2)
  /\ rs = (scx2 - sr) % 65536

-----------------------------------------------------------------------------
(* Segment checks.                                                         *)

\* Two 0xFFFF-0xFFFF terminators at the end are tolerated.
IsDuplicateTerminator(prev, r) ==
  /\ prev.start = MaxCode /\ prev.end = MaxCode
  /\ r.start = MaxCode /\ r.end = MaxCode

\* Ranges ascend by end code and do not overlap.
OrderedAfter(prev, r) == r.end > prev.end /\ r.start > prev.end

\* Direct mapping: glyph = code_point + id_delta, wrapped to 16 bits.
DirectGlyph(r, c) == (c + r.delta) % CodeSpace

\* Indirect mapping: the offset is relative to the idRangeOffset field.
GlyphAddr(r, c) == r.iroOff + r.iro + 2 * (c - r.start)

\* A 16-bit value can be read at addr: glyph_id_offset + 1 < length.
AddrInBounds(addr) == addr + 1 < length

\* Lines 202-227: the lookup of code point c (code_point, the loop counter
\* cut to 16 bits) through range r yields a glyph below num_glyphs, read
\* inside the subtable on the idRangeOffset path.
CodePointValid(r, c) ==
  LET code_point == c % CodeSpace IN
  IF r.iro = 0
    THEN DirectGlyph(r, code_point) < NumGlyphs
    ELSE /\ AddrInBounds(GlyphAddr(r, code_point))
         /\ Word(GlyphAddr(r, code_point)) < NumGlyphs

\* Mutant: the loop counter declared uint16_t, so ++cp wraps at 0xFFFF.
NextCodePointU16(c) == (c + 1) % CodeSpace

\* ++cp on the unsigned loop counter of line 201: 0xFFFF + 1 is 0x10000,
\* above every end code, so the loop over the terminator ends.
NextCodePoint(c) == c + 1

-----------------------------------------------------------------------------
(* Parse3x4, step by step.                                                 *)

Fail == /\ pc' = "failed"
        /\ UNCHANGED <<data, length, hasOS2, encoding, i, ranges, os2First, os2Last, slot, cp>>

\* Lines 54-106: OS/2 present, language, segCountX2 and the binary-search
\* header fields.
ReadHeader ==
  /\ pc = "header"
  /\ IF /\ hasOS2
        /\ Fits(14)
        /\ HeaderValid(Word(4), Word(6), Word(8), Word(10), Word(12))
       THEN /\ pc' = "arrays"
            /\ UNCHANGED <<data, length, hasOS2, encoding, i, ranges, os2First, os2Last, slot, cp>>
       ELSE Fail

\* Lines 108-133: endCode[], the reserved pad (must be 0), startCode[],
\* idDelta[].
ReadArrays ==
  LET n == SegCount IN
  /\ pc = "arrays"
  /\ IF Fits(16 + 6 * n) /\ Word(14 + 2 * n) = 0
       THEN /\ ranges' = [s \in 1..n |->
                            [start  |-> Word(StartOff(n, s)),
                             end    |-> Word(EndOff(n, s)),
                             delta  |-> S16(Word(DeltaOff(n, s))),
                             iro    |-> 0,
                             iroOff |-> IroOff(n, s)]]
            /\ pc' = "rangeOffsets"
            /\ i' = 1
            /\ UNCHANGED <<data, length, hasOS2, encoding, os2First, os2Last, slot, cp>>
       ELSE Fail

\* Lines 134-153, one iteration: read idRangeOffset[i]; an odd value is
\* coerced to 0 on the last segment and rejected elsewhere.
ReadRangeOffset ==
  LET n == Len(ranges)
      off == IroOff(n, i)
      v == Word(off)
  IN
  /\ pc = "rangeOffsets"
  /\ \/ /\ ~Fits(off + 2) \/ (v % 2 = 1 /\ i # n)
        /\ Fail
     \/ /\ Fits(off + 2)
        /\ v % 2 = 0 \/ i = n
        /\ ranges' = [ranges EXCEPT ![i].iro = IF v % 2 = 1 THEN 0 ELSE v]
        /\ i' = IF i = n THEN 2 ELSE i + 1
        /\ pc' = IF i = n THEN "order" ELSE "rangeOffsets"
        /\ UNCHANGED <<data, length, hasOS2, encoding, os2First, os2Last, slot, cp>>

\* The OS/2 first/last char index fix-up for range r (lines 180-189).
Os2FirstAfter(r) ==
  IF os2First # MaxCode /\ r.start # MaxCode /\ os2First > r.start
    THEN r.start ELSE os2First
Os2LastAfter(r) ==
  IF os2Last # MaxCode /\ r.end # MaxCode /\ os2Last < r.end
    THEN r.end ELSE os2Last

\* Lines 157-190, one iteration (i >= 2): ordering against range i - 1,
\* the duplicate-terminator exception, and the OS/2 fix-up.
CheckOrder ==
  LET n == Len(ranges)
      nextPc == IF i = n THEN "lastEnd" ELSE "order"
  IN
  /\ pc = "order"
  /\ i <= n
  /\ \/ /\ i = n /\ IsDuplicateTerminator(ranges[i - 1], ranges[i])
        /\ i' = i + 1 /\ pc' = nextPc
        /\ UNCHANGED <<data, length, hasOS2, encoding, ranges, os2First, os2Last, slot, cp>>
     \/ /\ ~(i = n /\ IsDuplicateTerminator(ranges[i - 1], ranges[i]))
        /\ ~OrderedAfter(ranges[i - 1], ranges[i])
        /\ Fail
     \/ /\ ~(i = n /\ IsDuplicateTerminator(ranges[i - 1], ranges[i]))
        /\ OrderedAfter(ranges[i - 1], ranges[i])
        /\ os2First' = Os2FirstAfter(ranges[i])
        /\ os2Last' = Os2LastAfter(ranges[i])
        /\ i' = i + 1 /\ pc' = nextPc
        /\ UNCHANGED <<data, length, hasOS2, encoding, ranges, slot, cp>>

\* With a single segment the ordering loop has no iteration.
SkipOrder ==
  /\ pc = "order"
  /\ Len(ranges) = 1
  /\ pc' = "lastEnd"
  /\ UNCHANGED <<data, length, hasOS2, encoding, i, ranges, os2First, os2Last, slot, cp>>

\* Lines 193-195: the last range must end at 0xFFFF.  The simulation loop
\* then starts at the code's i = 1, the model's 2, with cp at its start.
CheckLastEnd ==
  /\ pc = "lastEnd"
  /\ IF ranges[Len(ranges)].end = MaxCode
       THEN /\ pc' = IF Len(ranges) >= 2 THEN "simulate" ELSE "store"
            /\ i' = 2
            /\ cp' = IF Len(ranges) >= 2 THEN ranges[2].start ELSE cp
            /\ UNCHANGED <<data, length, hasOS2, encoding, ranges, os2First, os2Last, slot>>
       ELSE Fail

\* Lines 200-228, one iteration of the inner loop: simulate the lookup of
\* code point cp of range i, or, past its end, move on to range i + 1.
Simulate ==
  LET r == ranges[i] IN
  /\ pc = "simulate"
  /\ \/ /\ cp <= r.end /\ ~CodePointValid(r, cp)
        /\ Fail
     \/ /\ cp <= r.end /\ CodePointValid(r, cp)
        /\ cp' = NextCodePoint(cp)
        /\ UNCHANGED <<data, length, hasOS2, encoding, pc, i, ranges, os2First, os2Last, slot>>
     \/ /\ cp > r.end
        /\ i' = i + 1
        /\ pc' = IF i = Len(ranges) THEN "store" ELSE "simulate"
        /\ cp' = IF i = Len(ranges) THEN cp ELSE ranges[i + 1].start
        /\ UNCHANGED <<data, length, hasOS2, encoding, ranges, os2First, os2Last, slot>>

\* Lines 232-242: keep the table verbatim in the slot of its encoding.
Store ==
  /\ pc = "store"
  /\ slot' = IF encoding = 0 THEN "3.0.4" ELSE "3.1.4"
  /\ pc' = "accepted"
  /\ UNCHANGED <<data, length, hasOS2, encoding, i, ranges, os2First, os2Last, cp>>

\* Parse3x4 has returned.
Returned ==
  /\ pc \in {"accepted", "failed"}
  /\ UNCHANGED vars

Next ==
  \/ ReadHeader \/ ReadArrays \/ ReadRangeOffset
  \/ CheckOrder \/ SkipOrder \/ CheckLastEnd
  \/ Simulate \/ Store \/ Returned

-----------------------------------------------------------------------------
(* The subtables the parser can be handed.                                *)

\* The segments enumerated: [startCode, endCode, idDelta, idRangeOffset].
SegmentInputs ==
  [start: Codes, end: Codes, delta: Deltas, iro: RangeOffsets]

GlyphArrays == UNION {[1..k -> GlyphValues] : k \in 0..MaxGlyphArray}

\* A header as a font generator writes it for n segments.
WellFormedHeader(n) ==
  [lang |-> 0, scx2 |-> 2 * n, sr |-> ExpectedSearchRange(n),
   es |-> Log2SegCount(n), rs |-> 2 * n - ExpectedSearchRange(n), pad |-> 0]

\* The words of a format-4 subtable (the u16 encoding of every field; an
\* idDelta is stored as its two's complement).
Image(h, segs, glyphs, len) ==
  LET n == Len(segs) IN
  <<4, len, h.lang, h.scx2, h.sr, h.es, h.rs>>
  \o [s \in 1..n |-> segs[s].end] \o <<h.pad>>
  \o [s \in 1..n |-> segs[s].start]
  \o [s \in 1..n |-> segs[s].delta % 65536]
  \o [s \in 1..n |-> segs[s].iro]
  \o glyphs

\* Bytes of the subtable: 7 header words, 4 arrays, the pad, the glyphs.
FullLength(n, glyphs) == 2 * (8 + 4 * n + Len(glyphs))

Entry(d, len, os2, enc, o) ==
  /\ data = d /\ length = len /\ hasOS2 = os2 /\ encoding = enc
  /\ os2First = o /\ os2Last = o

Init ==
  /\ pc = "header" /\ i = 1 /\ ranges = <<>> /\ slot = "none" /\ cp = 0
  /\ \/ \* every well-formed header over the enumerated segments and glyphs,
        \* at its full length or one byte short
        \E n \in 1..MaxSegments :
        \E segs \in [1..n -> SegmentInputs], g \in GlyphArrays, cut \in {0, 1} :
          LET len == FullLength(n, g) - cut IN
          Entry(Image(WellFormedHeader(n), segs, g, len), len, TRUE, 1, Os2Start)
     \/ \* one damaged header field of the base table
        LET n == Len(BaseSegments)
            full == FullLength(n, BaseGlyphs)
            h == WellFormedHeader(n)
        IN \E bad \in {[h EXCEPT !.lang = 1], [h EXCEPT !.scx2 = @ + 1],
                       [h EXCEPT !.scx2 = 0], [h EXCEPT !.sr = @ + 2],
                       [h EXCEPT !.es = @ + 1], [h EXCEPT !.rs = @ + 2],
                       [h EXCEPT !.pad = 1]} :
             Entry(Image(bad, BaseSegments, BaseGlyphs, full), full, TRUE, 1, Os2Start)
     \/ \* the base table cut short inside each region the parser reads
        LET n == Len(BaseSegments) IN
        \E len \in {13, 14 + 2 * n - 1, 16 + 2 * n - 1, 16 + 6 * n - 1, 16 + 6 * n + 1} :
          Entry(Image(WellFormedHeader(n), BaseSegments, BaseGlyphs, len), len, TRUE, 1, Os2Start)
     \/ \* the base table with or without OS/2, for either encoding
        LET n == Len(BaseSegments)
            full == FullLength(n, BaseGlyphs)
        IN \E os2 \in BOOLEAN, enc \in {0, 1}, o \in {Os2Start, MaxCode} :
             Entry(Image(WellFormedHeader(n), BaseSegments, BaseGlyphs, full), full, os2, enc, o)

Spec == Init /\ [][Next]_vars

-----------------------------------------------------------------------------
(* Properties.  A rasterizer that trusts the sanitizer looks glyphs up in  *)
(* the stored bytes themselves, as the OpenType specification says: the   *)
(* glyph address is &idRangeOffset[s] + idRangeOffset[s]/2 words +        *)
(* (c - startCode[s]) words.  The R* operators read the table that way.    *)

RStart(s) == Word(StartOff(SegCount, s))
REnd(s)   == Word(EndOff(SegCount, s))
RIro(s)   == Word(IroOff(SegCount, s))
RCovers(s) == RStart(s)..REnd(s)

\* The lookup of code point c through segment s stays in the subtable and
\* yields a glyph below num_glyphs.
RLookupSafe(s, c) ==
  IF RIro(s) = 0
    THEN (c + S16(Word(DeltaOff(SegCount, s)))) % CodeSpace < NumGlyphs
    ELSE LET a == IroOff(SegCount, s) + 2 * (RIro(s) \div 2) + 2 * (c - RStart(s))
         IN a + 1 < length /\ Word(a) < NumGlyphs

TypeOK ==
  /\ data \in Seq(Nat) /\ length \in Nat
  /\ hasOS2 \in BOOLEAN /\ encoding \in {0, 1}
  /\ pc \in {"header", "arrays", "rangeOffsets", "order", "lastEnd",
             "simulate", "store", "accepted", "failed"}
  /\ i \in 1..MaxSegments + 1
  /\ ranges \in Seq([start: 0..65535, end: 0..65535, delta: -32768..32767,
                   iro: 0..65535, iroOff: Nat])
  /\ os2First \in Codes /\ os2Last \in Codes
  /\ slot \in {"none", "3.0.4", "3.1.4"}
  /\ cp \in 0..CodeSpace

\* Spec P3 / section 3: for an accepted format-4 subtable every code point
\* of every segment maps to a glyph below num_glyphs.  Parse3x4 starts its
\* simulation at segment 1 and never looks at segment 0.
AllLookupsSafe ==
  pc = "accepted" =>
    \A s \in 1..SegCount : \A c \in RCovers(s) : RLookupSafe(s, c)

\* An odd idRangeOffset on the last segment is simulated as 0 (line 146) but
\* the stored bytes keep it; lookups through that segment must still be safe.
CoercedOffsetLookupsSafe ==
  pc = "accepted" =>
    \A s \in 2..SegCount :
      s = SegCount => \A c \in RCovers(s) : RLookupSafe(s, c)

\* The comment at lines 178-179: Parse3x4 fixes OS/2 first_char_index so
\* that no code point of the table lies below it (unless it is 0xFFFF).
Os2FirstCharFixed ==
  pc = "accepted" /\ os2First # MaxCode =>
    \A s \in 1..SegCount :
      RStart(s) # MaxCode /\ RStart(s) <= REnd(s) => os2First <= RStart(s)

\* Parse3x4's outcome as the abstract decision: pending while it runs.
Decision ==
  CASE pc = "accepted" -> "accepted"
    [] pc = "failed"   -> "rejected"
    [] OTHER           -> "pending"

Abstract == INSTANCE CmapFormat4Abstract WITH result <- Decision

\* Parse3x4 implements its whole-table statement: the header checks, the
\* idRangeOffset loop, the ordering loop and the code-point simulation
\* loop, taken step by step, accept a subtable exactly when it is
\* well-formed (CmapFormat4Abstract), and every other step leaves the
\* decision pending.
Format4Refinement == Abstract!Spec


====
