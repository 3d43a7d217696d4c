--------------------------- MODULE CmapDirectory ---------------------------
(***************************************************************************)
(* ots_cmap_parse (src/gfx/ots/src/cmap.cc lines 525-773): the cmap       *)
(* header and encoding records, the offset and order checks, the recovery *)
(* of each subtable's format and length, the overlap sweep and the        *)
(* dispatch of each record to a format parser.                            *)
(*                                                                         *)
(* The table is abstracted to its directory (version, num_tables, the     *)
(* records) and, for each offset a record may point at, the format and    *)
(* length fields found there.  The format parsers are modelled in detail  *)
(* in CmapFormat4 and CmapGroups; here each call accepts or rejects.      *)
(* 1 GiB is scaled down to the constant GiB.                              *)
(***************************************************************************)
EXTENDS Integers, Sequences, FiniteSets, SequencesExt

CONSTANTS
  GiB,            \* 1024 * 1024 * 1024 in the code, scaled
  Offsets,        \* offsets a record may hold
  Formats,        \* format fields a subtable may start with
  Lens,           \* length fields a subtable may carry
  Keys,           \* <<platform, encoding>> pairs records may carry
  MaxTables,      \* bound on num_tables
  TableLength,    \* length of the table slice
  LayoutKeys,     \* an increasing key sequence used for the layout family
  BadOffsets,     \* offsets the offset and format checks must refuse
  DispatchOffsets,\* disjoint offsets used for the dispatch family
  DispatchFormats \* formats used for the dispatch family

VARIABLES
  version, numTables, recs,   \* the table header and its records
  hdr,                        \* offset -> [format, len] fields found there
  hasMaxp,                    \* file->maxp is present
  pc, i, lastId,
  fmts, lens,                 \* subtable_headers[i].format / .length
  slots,                      \* slot -> record index whose subtable it holds
  calls                       \* history: the slices handed to a parser

vars == <<version, numTables, recs, hdr, hasMaxp, pc, i, lastId, fmts, lens,
          slots, calls>>

\* The slots of OpenTypeCMAP a format parser fills.
SlotNames == {"0_5_14", "1_0_0", "3_0_4", "3_1_4", "3_10_12", "3_10_13"}

\* Lines 690-770: (platform, encoding, format) -> the slot its parser fills.
\* 0.0.4 and 0.3.4 are parsed as 3.1.4, 0.3.12 as 3.10.12.
DispatchTable ==
  { <<0, 0, 4, "3_1_4">>, <<0, 3, 4, "3_1_4">>, <<0, 3, 12, "3_10_12">>,
    <<0, 5, 14, "0_5_14">>, <<1, 0, 0, "1_0_0">>, <<3, 0, 4, "3_0_4">>,
    <<3, 1, 4, "3_1_4">>, <<3, 10, 12, "3_10_12">>, <<3, 10, 13, "3_10_13">> }

-----------------------------------------------------------------------------
(* The reads of ots::Buffer over the table slice.                          *)

Fits(endByte) == endByte <= TableLength

\* Line 559: the offset just past the records.
DataOffset == 4 + 8 * numTables

\* Lines 573-574: (platform << 16) + encoding as a u32.  The shift is done
\* in int; with platforms below 0x8000 it does not overflow.
CurrentId(r) == r.platform * 65536 + r.encoding

\* Mutant: the order check dropped.
OrderedKeysAny(last, cur) == TRUE

\* Line 575: each key strictly above the previous one.
OrderedKeys(last, cur) == last < cur

\* Lines 564-570: the offset is at most 1 GiB, past the records and inside
\* the table.
OffsetValid(off) == off <= GiB /\ off >= DataOffset /\ off < TableLength

\* Lines 590-615: the length field of each format and the bytes it needs.
LengthEnd(f, off) ==
  CASE f \in {0, 4}   -> off + 4
    [] f \in {12, 13} -> off + 8
    [] f = 14         -> off + 6
    [] OTHER          -> off + 2

RecoveredLength(f, len) == IF f \in {0, 4, 12, 13, 14} THEN len ELSE 0

\* Mutant: the end of the subtable not compared with the table length.
LengthSaneNoEnd(off, len) == len = 0 \/ len <= GiB

\* Lines 620-630: a non-zero length is at most 1 GiB and ends in the table.
LengthSane(off, len) == len = 0 \/ (len <= GiB /\ off + len <= TableLength)

-----------------------------------------------------------------------------
(* The overlap sweep, lines 634-658.                                       *)

Extent(k) == <<recs[k].offset, recs[k].offset + lens[k]>>

\* Lines 640-641: the key of uniq_checker, the pair (offset, end_byte).
UniqKey(e) == e

\* The records whose key was not inserted before (line 644 skips the rest).
Kept == {k \in 1..numTables :
           \A j \in 1..(k - 1) : UniqKey(Extent(j)) # UniqKey(Extent(k))}

\* Mutant: a start sorted before an end at the same position.
EventLessStartFirst(a, b) == a[1] < b[1] \/ (a[1] = b[1] /\ a[2] > b[2])

\* std::pair ordering of (position, 1 = start / 0 = end), line 651.
EventLess(a, b) == a[1] < b[1] \/ (a[1] = b[1] /\ a[2] < b[2])

Events ==
  LET ks == SetToSortSeq(Kept, <)
  IN FlattenSeq([m \in 1..Len(ks) |->
                   <<<<Extent(ks[m])[1], 1>>, <<Extent(ks[m])[2], 0>>>>])

\* Lines 652-657: overlap_count after the first p sorted events.
OpenAfter(s, p) ==
  Cardinality({q \in 1..p : s[q][2] = 1}) - Cardinality({q \in 1..p : s[q][2] = 0})

\* Mutant: two open subtables tolerated.
TooManyOpenAbove2(count) == count > 2

\* Line 655: more than one subtable open at once.
TooManyOpen(count) == count > 1

SweepFindsOverlap ==
  LET s == SortSeq(Events, EventLess)
  IN \E p \in 1..Len(s) : TooManyOpen(OpenAfter(s, p))

-----------------------------------------------------------------------------

Fail == /\ pc' = "failed"
        /\ UNCHANGED <<version, numTables, recs, hdr, hasMaxp, i, lastId,
                       fmts, lens, slots, calls>>

Static == <<version, numTables, recs, hdr, hasMaxp>>

\* Lines 529-557: version and num_tables, then the records.
ReadDirectory ==
  /\ pc = "header"
  /\ IF Fits(4) /\ version = 0 /\ numTables # 0 /\ Fits(DataOffset)
       THEN /\ pc' = "offsets" /\ i' = 1
            /\ UNCHANGED <<Static, lastId, fmts, lens, slots, calls>>
       ELSE Fail

\* Lines 563-579, one record.
CheckOffset ==
  LET cur == CurrentId(recs[i]) IN
  /\ pc = "offsets"
  /\ IF OffsetValid(recs[i].offset) /\ (i = 1 \/ OrderedKeys(lastId, cur))
       THEN /\ lastId' = cur
            /\ i' = IF i = numTables THEN 1 ELSE i + 1
            /\ pc' = IF i = numTables THEN "formats" ELSE "offsets"
            /\ UNCHANGED <<Static, fmts, lens, slots, calls>>
       ELSE Fail

\* Lines 583-616, one record: seek, read the format, recover the length.
ReadFormat ==
  LET off == recs[i].offset
      f == hdr[off].format
  IN
  /\ pc = "formats"
  /\ IF Fits(off + 2) /\ Fits(LengthEnd(f, off))
       THEN /\ fmts' = Append(fmts, f)
            /\ lens' = Append(lens, RecoveredLength(f, hdr[off].len))
            /\ i' = IF i = numTables THEN 1 ELSE i + 1
            /\ pc' = IF i = numTables THEN "lengths" ELSE "formats"
            /\ UNCHANGED <<Static, lastId, slots, calls>>
       ELSE Fail

\* Lines 619-631, one record.
CheckLength ==
  /\ pc = "lengths"
  /\ IF LengthSane(recs[i].offset, lens[i])
       THEN /\ i' = IF i = numTables THEN 1 ELSE i + 1
            /\ pc' = IF i = numTables THEN "sweep" ELSE "lengths"
            /\ UNCHANGED <<Static, lastId, fmts, lens, slots, calls>>
       ELSE Fail

\* Lines 634-658: the whole sweep, a computation without side effects.
Sweep ==
  /\ pc = "sweep"
  /\ IF ~SweepFindsOverlap
       THEN /\ pc' = "maxp"
            /\ UNCHANGED <<Static, i, lastId, fmts, lens, slots, calls>>
       ELSE Fail

\* Lines 662-665.
CheckMaxp ==
  /\ pc = "maxp"
  /\ IF hasMaxp
       THEN /\ pc' = "dispatch"
            /\ UNCHANGED <<Static, i, lastId, fmts, lens, slots, calls>>
       ELSE Fail

Handlers(k) == {d[4] : d \in {e \in DispatchTable :
                  e[1] = recs[k].platform /\ e[2] = recs[k].encoding /\ e[3] = fmts[k]}}

\* The loop of line 690 moves to the next record, or ends after the last.
NextRecord == /\ i' = IF i = numTables THEN i ELSE i + 1
              /\ pc' = IF i = numTables THEN "done" ELSE "dispatch"

\* Lines 690-770, one record: a record no row matches is dropped; otherwise
\* its parser runs on (data + offset, length) and fills the slot (the 3.10.x
\* slots are cleared first, lines 755 and 761), or the whole parse fails.
Dispatch ==
  /\ pc = "dispatch"
  /\ \/ /\ Handlers(i) = {}
        /\ NextRecord
        /\ UNCHANGED <<Static, lastId, fmts, lens, slots, calls>>
     \/ \E h \in Handlers(i), accepted \in BOOLEAN :
          /\ calls' = calls \cup {[offset |-> recs[i].offset, length |-> lens[i]]}
          /\ IF accepted
               THEN /\ slots' = [slots EXCEPT ![h] = i]
                    /\ NextRecord
               ELSE /\ pc' = "failed"
                    /\ UNCHANGED <<i, slots>>
          /\ UNCHANGED <<Static, lastId, fmts, lens>>

\* ots_cmap_parse has returned.
Returned ==
  /\ pc \in {"done", "failed"}
  /\ UNCHANGED vars

Next ==
  \/ ReadDirectory \/ CheckOffset \/ ReadFormat \/ CheckLength \/ Sweep
  \/ CheckMaxp \/ Dispatch \/ Returned

-----------------------------------------------------------------------------
(* The tables ots_cmap_parse can be handed.                               *)

AllOffsets == Offsets \cup BadOffsets

HeaderInputs == [format: Formats, len: Lens]

Record(key, off) == [platform |-> key[1], encoding |-> key[2], offset |-> off]

Entry(v, n, rs, h, m) ==
  /\ version = v /\ numTables = n /\ recs = rs /\ hdr = h /\ hasMaxp = m

\* The fields found at an offset no layout uses.
Filler == [format |-> 12, len |-> 8]

Init ==
  /\ \/ \* Layouts: increasing keys, any offsets, any format and length fields.
        \E n \in 1..MaxTables, h \in [Offsets -> HeaderInputs] :
          \E offs \in [1..n -> Offsets] :
            Entry(0, n, [k \in 1..n |-> Record(LayoutKeys[k], offs[k])],
                  [o \in AllOffsets |-> IF o \in Offsets THEN h[o] ELSE Filler], TRUE)
     \/ \* Dispatch: any keys in any order over disjoint subtables of length 8.
        \E n \in 1..MaxTables, ks \in [1..MaxTables -> Keys],
          fs \in [1..MaxTables -> DispatchFormats] :
          Entry(0, n, [k \in 1..n |-> Record(ks[k], DispatchOffsets[k])],
                [o \in AllOffsets |->
                   IF \E k \in 1..MaxTables : DispatchOffsets[k] = o
                     THEN [format |-> fs[CHOOSE k \in 1..MaxTables : DispatchOffsets[k] = o],
                           len |-> 8]
                     ELSE Filler], TRUE)
     \/ \* Damaged: a bad header, a record past the table, a bad offset, a
        \* length above 1 GiB, no maxp.
        \E v \in {0, 1}, n \in {0, 1, 7}, o \in AllOffsets, len \in {8, GiB + 1},
          m \in BOOLEAN :
          /\ (v = 0 /\ n = 1 /\ o \in Offsets /\ len = 8 /\ m) = FALSE
          /\ Entry(v, n, IF n = 1 THEN <<Record(LayoutKeys[1], o)>> ELSE <<>>,
                   [x \in AllOffsets |-> [format |-> 4, len |-> len]], m)
  /\ pc = "header" /\ i = 1 /\ lastId = 0
  /\ fmts = <<>> /\ lens = <<>>
  /\ slots = [s \in SlotNames |-> 0]
  /\ calls = {}

Spec == Init /\ [][Next]_vars

-----------------------------------------------------------------------------
(* Properties.                                                             *)

\* Two records overlap when their extents differ and share a byte; an
\* empty extent shares none.
Overlap(j, k) ==
  /\ Extent(j) # Extent(k)
  /\ \E b \in recs[j].offset..(Extent(j)[2] - 1) : b \in recs[k].offset..(Extent(k)[2] - 1)

\* Spec 3: once the sweep of lines 634-658 has passed, no two subtables
\* overlap unless their extents are identical, although the sweep only
\* looks at the deduplicated, sorted start and end events.
SweepSound ==
  pc \in {"maxp", "dispatch", "done"} =>
    \A j, k \in 1..numTables : ~Overlap(j, k)

\* The sweep rejects a table only for a real overlap: adjacent subtables,
\* identical extents and zero-length records of unknown formats pass.
SweepComplete ==
  [][pc = "sweep" /\ pc' = "failed" => \E j, k \in 1..numTables : Overlap(j, k)]_vars

\* Spec 9 (aliased slots): when a 3.1.4 or 3.10.12 record is dispatched, its
\* own subtable is what the slot holds at the end, never a 0.0.4, 0.3.4 or
\* 0.3.12 subtable parsed into the same slot.
DirectRecordWins ==
  pc = "done" =>
    \A k \in 1..numTables :
      \A h \in Handlers(k) :
        <<recs[k].platform, recs[k].encoding>> \in {<<3, 1>>, <<3, 10>>} => slots[h] = k

\* Every slice handed to a format parser starts past the records and ends
\* inside the table.
DispatchedWithinTable ==
  \A c \in calls : c.offset >= DataOffset /\ c.offset + c.length <= TableLength

\* Spec 4.1: a table is accepted only if every record's offset and every
\* recovered length is below 2^30; lines 564 and 621 compare with > instead.
OffsetsBelowGiB ==
  pc = "done" => \A k \in 1..numTables : recs[k].offset < GiB /\ lens[k] < GiB

====
