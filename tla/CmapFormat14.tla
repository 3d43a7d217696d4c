---------------------------- MODULE CmapFormat14 ----------------------------
(***************************************************************************)
(* The format-14 (Unicode variation sequences) validator Parse0514 of      *)
(* src/gfx/ots/src/cmap.cc, lines 393-491.                                 *)
(*                                                                         *)
(* The subtable is a sequence of bytes; `length` is its length as the      *)
(* directory recovered it, and bytes past it are memory beyond the         *)
(* subtable.  The parser reads the record count, then each 11-byte         *)
(* variation selector record and, through its offsets, the default UVS     *)
(* ranges and the non-default UVS mappings, each nested table in an        *)
(* ots::Buffer of its own that starts at the offset.  One action per loop  *)
(* iteration.  The table is stored verbatim when accepted.                 *)
(***************************************************************************)
EXTENDS Integers, Sequences, FiniteSets, SequencesExt

CONSTANTS
  NumGlyphs,        \* maxp.num_glyphs
  Selectors,        \* var_selector values enumerated
  RangeStarts,      \* start_unicode values enumerated
  Additionals,      \* additional_count values enumerated
  UnicodeValues,    \* non-default unicode_value values enumerated
  GlyphIds,         \* non-default glyph ids enumerated
  MaxRecords,       \* largest num_var_selector_records enumerated
  MaxEntries        \* longest nested table enumerated

kUnicodeUpperLimit == 1114111    \* 0x10FFFF

\* A u32 whose top byte is 0x80 or more is at least 2^31, beyond every
\* length and offset here; TLC's integers stop at 2^31 - 1, which stands
\* for all of them.
BigU32 == 2147483647

VARIABLES
  data,     \* the bytes (input, never written)
  length,   \* the subtable's length (input)
  pc, i, j, \* position, record index, nested entry index (1-based)
  numRecs,  \* num_var_selector_records
  prevVS,   \* prev_var_selector
  rec,      \* the record being checked: [vs, def, nondef]
  nCount,   \* num_unicode_value_ranges / num_uvs_mappings
  prevEnd,  \* prev_end_unicode
  prevUni,  \* prev_unicode
  stored    \* subtable_0_5_14_data was set

vars == <<data, length, pc, i, j, numRecs, prevVS, rec, nCount, prevEnd,
          prevUni, stored>>

-----------------------------------------------------------------------------
(* ots::Buffer reads.                                                      *)

U8(b) == IF b + 1 <= Len(data) THEN data[b + 1] ELSE 0
U16(b) == U8(b) * 256 + U8(b + 1)
U24(b) == U8(b) * 65536 + U16(b + 1)
U32(b) == IF U8(b) >= 128 THEN BigU32 ELSE U8(b) * 16777216 + U24(b + 1)

\* A read of n bytes at absolute offset b within a buffer ending at limit.
Fits(b, n, limit) == b + n <= limit

\* Lines 432 and 456: ots::Buffer(data + off, length - off) ends where the
\* subtable ends.
NestedLimit(off) == length

RecPos(k) == 10 + 11 * (k - 1)                      \* lines 400-401
RangePos(off, n) == off + 4 + 4 * (n - 1)
MappingPos(off, n) == off + 4 + 5 * (n - 1)

\* Line 429.
NextPrevVS(prev, vs) == vs

\* Mutant: the range bound tested on the start instead of the end.
RangeInBoundsStartOnly(start, end) == start <= kUnicodeUpperLimit

\* Line 448.
RangeInBounds(start, end) == end <= kUnicodeUpperLimit

\* Mutant: the glyph bound tested inclusively.
GlyphValidInclusive(g) == g <= NumGlyphs

\* Lines 477-479.
GlyphValid(g) == g < NumGlyphs

\* Mutant: the nested entry index not advanced.
NextEntryStuck(n) == n

\* ++j of the loops at lines 439 and 464.
NextEntry(n) == n + 1

\* Lines 423-428.
RecordValid(r) ==
  /\ r.vs > prevVS /\ r.vs <= kUnicodeUpperLimit
  /\ r.def <= length - 4 /\ r.nondef <= length - 4

-----------------------------------------------------------------------------

Fail == /\ pc' = "failed"
        /\ UNCHANGED <<data, length, i, j, numRecs, prevVS, rec, nCount,
                       prevEnd, prevUni, stored>>

Keep == <<data, length, stored>>

\* After record i's nested tables: the next record, or the store.
AfterRecord(k) ==
  IF k < numRecs THEN pc' = "record" /\ i' = k + 1 ELSE pc' = "store" /\ i' = k

\* Lines 403-413: skip format and length, read the count, and check that
\* the records fit: (length - 10) / 11 >= count.
ReadHeader ==
  /\ pc = "header"
  /\ IF Fits(0, 10, length) /\ (length - 10) \div 11 >= U32(6)
       THEN /\ numRecs' = U32(6)
            /\ pc' = IF U32(6) = 0 THEN "store" ELSE "record"
            /\ UNCHANGED <<Keep, i, j, prevVS, rec, nCount, prevEnd, prevUni>>
       ELSE Fail

\* Lines 417-429, then on to the default table, the non-default table or
\* the next record.
ReadRecord ==
  LET p == RecPos(i)
      r == [vs |-> U24(p), def |-> U32(p + 3), nondef |-> U32(p + 7)]
  IN
  /\ pc = "record"
  /\ IF Fits(p, 11, length) /\ RecordValid(r)
       THEN /\ rec' = r
            /\ prevVS' = NextPrevVS(prevVS, r.vs)
            /\ IF r.def # 0 THEN pc' = "defCount" /\ UNCHANGED i
               ELSE IF r.nondef # 0 THEN pc' = "nondefCount" /\ UNCHANGED i
               ELSE AfterRecord(i)
            /\ UNCHANGED <<Keep, j, numRecs, nCount, prevEnd, prevUni>>
       ELSE Fail

\* Lines 432-438.  The check of line 425 leaves 4 bytes at the offset, so
\* the count read always succeeds and its failure return is unreachable;
\* it is kept as a guard, which a deadlock would report false.
ReadDefaultCount ==
  /\ pc = "defCount"
  /\ Fits(rec.def, 4, NestedLimit(rec.def))
  /\ nCount' = U32(rec.def) /\ j' = 1 /\ prevEnd' = 0
  /\ IF U32(rec.def) > 0 THEN pc' = "range" /\ UNCHANGED i
     ELSE IF rec.nondef # 0 THEN pc' = "nondefCount" /\ UNCHANGED i
     ELSE AfterRecord(i)
  /\ UNCHANGED <<Keep, numRecs, prevVS, rec, prevUni>>

\* Lines 439-452, one range: (start, additional), end = start + additional.
ReadRange ==
  LET p == RangePos(rec.def, j)
      start == U24(p)
      end == start + U8(p + 3)
  IN
  /\ pc = "range"
  /\ IF /\ Fits(p, 4, NestedLimit(rec.def))
        /\ ~(j > 1 /\ start <= prevEnd) /\ RangeInBounds(start, end)
       THEN /\ prevEnd' = end /\ j' = NextEntry(j)
            /\ IF j < nCount THEN pc' = "range" /\ UNCHANGED i
               ELSE IF rec.nondef # 0 THEN pc' = "nondefCount" /\ UNCHANGED i
               ELSE AfterRecord(i)
            /\ UNCHANGED <<Keep, numRecs, prevVS, rec, nCount, prevUni>>
       ELSE Fail

\* Lines 456-463; as for the default table, line 426 makes the count read
\* succeed.
ReadNonDefaultCount ==
  /\ pc = "nondefCount"
  /\ Fits(rec.nondef, 4, NestedLimit(rec.nondef))
  /\ nCount' = U32(rec.nondef) /\ j' = 1 /\ prevUni' = 0
  /\ IF U32(rec.nondef) > 0 THEN pc' = "mapping" /\ UNCHANGED i
     ELSE AfterRecord(i)
  /\ UNCHANGED <<Keep, numRecs, prevVS, rec, prevEnd>>

\* Lines 464-481, one mapping: unicode_value checked before the glyph is
\* read, then the glyph bound.
ReadMapping ==
  LET p == MappingPos(rec.nondef, j)
      uni == U24(p)
  IN
  /\ pc = "mapping"
  /\ IF /\ Fits(p, 3, NestedLimit(rec.nondef))
        /\ ~(j > 1 /\ uni <= prevUni) /\ uni <= kUnicodeUpperLimit
        /\ Fits(p + 3, 2, NestedLimit(rec.nondef))
        /\ GlyphValid(U16(p + 3))
       THEN /\ prevUni' = uni /\ j' = NextEntry(j)
            /\ IF j < nCount THEN pc' = "mapping" /\ UNCHANGED i
               ELSE AfterRecord(i)
            /\ UNCHANGED <<Keep, numRecs, prevVS, rec, nCount, prevEnd>>
       ELSE Fail

\* Lines 485-490.
Store ==
  /\ pc = "store"
  /\ stored' = TRUE /\ pc' = "accepted"
  /\ UNCHANGED <<data, length, i, j, numRecs, prevVS, rec, nCount, prevEnd,
                 prevUni>>

\* Parse0514 has returned.
Returned ==
  /\ pc \in {"accepted", "failed"}
  /\ UNCHANGED vars

Next ==
  \/ ReadHeader \/ ReadRecord \/ ReadDefaultCount \/ ReadRange
  \/ ReadNonDefaultCount \/ ReadMapping \/ Store \/ Returned

-----------------------------------------------------------------------------
(* The subtables the parser can be handed.                                *)

U16Bytes(v) == <<v \div 256, v % 256>>
U24Bytes(v) == <<v \div 65536>> \o U16Bytes(v % 65536)
U32Bytes(v) == <<v \div 16777216>> \o U24Bytes(v % 16777216)

\* A record: its selector and whether it points at the default table D
\* and at the non-default table N.
RecordInputs == [vs: Selectors, useD: BOOLEAN, useN: BOOLEAN]
RangeInputs == [start: RangeStarts, add: Additionals]
MappingInputs == [uni: UnicodeValues, glyph: GlyphIds]

Lists(S) == UNION {[1..n -> S] : n \in 0..MaxEntries}

OffD(n) == 10 + 11 * n
OffN(n, d) == OffD(n) + 4 + 4 * Len(d)
FullLen(n, d, m) == OffN(n, d) + 4 + 5 * Len(m)

\* The bytes of a format-14 subtable: u16 format 14, u32 length, u32
\* count, the records, then D and N.
Image(len, rs, d, m, defOff) ==
  LET n == Len(rs) IN
  <<0, 14>> \o U32Bytes(len) \o U32Bytes(n)
  \o FlattenSeq([k \in 1..n |->
        U24Bytes(rs[k].vs)
        \o U32Bytes(IF rs[k].useD THEN defOff ELSE 0)
        \o U32Bytes(IF rs[k].useN THEN OffN(n, d) ELSE 0)])
  \o U32Bytes(Len(d)) \o FlattenSeq([k \in 1..Len(d) |-> U24Bytes(d[k].start) \o <<d[k].add>>])
  \o U32Bytes(Len(m)) \o FlattenSeq([k \in 1..Len(m) |-> U24Bytes(m[k].uni) \o U16Bytes(m[k].glyph)])

Init ==
  /\ pc = "header" /\ i = 1 /\ j = 1 /\ numRecs = 0 /\ prevVS = 0
  /\ rec = [vs |-> 0, def |-> 0, nondef |-> 0] /\ nCount = 0
  /\ prevEnd = 0 /\ prevUni = 0 /\ stored = FALSE
  /\ \/ \* every table over the enumerated records, ranges and mappings
        \E n \in 0..MaxRecords, d \in Lists(RangeInputs), m \in Lists(MappingInputs) :
          \E rs \in [1..n -> RecordInputs] :
            LET len == FullLen(n, d, m) IN
            data = Image(len, rs, d, m, OffD(n)) /\ length = len
     \/ \* one record pointing at both tables, with a selector of 0 or above
        \* 0x10FFFF, cut short in each region, or with its default offset at
        \* or past length - 4, or in the header
        \E vs \in {0, 65024, 1114112} :
        LET r == [vs |-> vs, useD |-> TRUE, useN |-> TRUE]
            d == <<[start |-> 65, add |-> 1]>>
            m == <<[uni |-> 65, glyph |-> 0]>>
            full == FullLen(1, d, m)
        IN \/ \E len \in {9, 20, OffN(1, d) - 1, OffN(1, d) + 5, full - 1} :
                data = Image(len, <<r>>, d, m, OffD(1)) /\ length = len
           \/ \E off \in {1, full - 4, full - 3} :
                data = Image(full, <<r>>, d, m, off) /\ length = full

\* Parse0514 runs to its return once called: it waits on nothing, so weak
\* fairness of its steps is all the scheduling it needs.
Spec == Init /\ [][Next]_vars /\ WF_vars(Next)

-----------------------------------------------------------------------------
(* Properties.                                                             *)

TypeOK ==
  /\ pc \in {"header", "record", "defCount", "range", "nondefCount", "mapping",
             "store", "accepted", "failed"}
  /\ prevVS \in 0..kUnicodeUpperLimit
  /\ prevEnd \in 0..kUnicodeUpperLimit
  /\ prevUni \in 0..kUnicodeUpperLimit
  /\ stored = (pc = "accepted")

\* The decision the detailed parser has reached, for the refinement.
Decision == CASE pc = "accepted" -> "accepted"
              [] pc = "failed"   -> "rejected"
              [] OTHER           -> "pending"

Abstract == INSTANCE CmapFormat14Abstract WITH result <- Decision

\* Parse0514 implements its contract: its loops over records, ranges and
\* mappings, each entry checked only against the one before it, accept
\* exactly the well-formed subtables of spec 4.5 and reject the others.
Format14Refinement == Abstract!Spec

\* Parse0514 always returns, under weak fairness of its steps, although
\* every loop count (up to 2^32 - 1) is read from the untrusted bytes and
\* only the reads running off the subtable's end stop a long loop.
Format14Terminates == Abstract!Decided

====
