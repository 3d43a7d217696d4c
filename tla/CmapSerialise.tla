--------------------------- MODULE CmapSerialise ---------------------------
(***************************************************************************)
(* ots_cmap_serialise (src/gfx/ots/src/cmap.cc lines 779-957): the choice *)
(* of subtables, the header and the pad for the records, the bodies in    *)
(* payload order, then the checksum save and reset, the seek back, the    *)
(* records in directory order, the seek to the end and the restore.       *)
(*                                                                         *)
(* The output stream is abstracted to its position (Tell), the records    *)
(* and bodies written, and its checksum state.  Every write or seek may   *)
(* fail.  Positions are relative to table_start.                          *)
(***************************************************************************)
EXTENDS Integers, Sequences, FiniteSets

CONSTANTS
  OpaqueLengths,  \* subtable_3_x_4_length / subtable_0_5_14_length values
  GroupCounts     \* sizes of subtable_3_10_12 / subtable_3_10_13

VARIABLES
  have,       \* slot -> the ParsedCmap holds it
  opaqueLen,  \* slot -> length of an opaque slot
  nGroups,    \* slot -> number of groups of a group slot
  pc, k,      \* position and loop index
  pos,        \* out->Tell()
  count,      \* num_subtables
  recordOffset, tableEnd,
  offsets,    \* slot -> offset_xxx captured before its body
  written,    \* the bodies written: [slot, start, end]
  dirRecs,    \* the records written: [key, offset]
  cksum, savedCk  \* the stream's checksum state and the saved one

vars == <<have, opaqueLen, nGroups, pc, k, pos, count, recordOffset, tableEnd,
          offsets, written, dirRecs, cksum, savedCk>>

SlotNames == {"0_5_14", "1_0_0", "3_0_4", "3_1_4", "3_10_12", "3_10_13"}
Opaque == {"0_5_14", "3_0_4", "3_1_4"}
Grouped == {"3_10_12", "3_10_13"}

\* Lines 812-890: the order the bodies are written in.
BodyOrder == <<"1_0_0", "3_0_4", "3_1_4", "3_10_12", "3_10_13", "0_5_14">>

\* Lines 903-949: the order the records are written in, and the
\* (platform, encoding) each is written with.
DirOrder == <<"0_5_14", "1_0_0", "3_0_4", "3_1_4", "3_10_12", "3_10_13">>
KeyOf == [s \in SlotNames |->
            CASE s = "0_5_14" -> <<0, 5>>  [] s = "1_0_0" -> <<1, 0>>
              [] s = "3_0_4" -> <<3, 0>>   [] s = "3_1_4" -> <<3, 1>>
              [] OTHER -> <<3, 10>>]

\* Lines 780-787: the subtables emitted; 3.1.4 only without 3.0.4.
Emitted(s) == have[s] /\ (s = "3_1_4" => ~have["3_0_4"])

\* Mutant: the count leaves out the format-14 subtable.
NumSubtablesNo0514 == Cardinality({s \in SlotNames \ {"0_5_14"} : Emitted(s)})

\* Lines 788-793.
NumSubtables == Cardinality({s \in SlotNames : Emitted(s)})

\* The bytes each body takes: 6 + 256 for format 0 (lines 814-821), the
\* stored length for an opaque slot, 16 + 12 N for the group bodies
\* (lines 845-881; format 13 writes 16 + 12 N bytes although its length
\* field says 14 + 12 N).
BodySize(s) ==
  CASE s = "1_0_0"  -> 262
    [] s \in Opaque -> opaqueLen[s]
    [] OTHER        -> 16 + 12 * nGroups[s]

\* offset_xxx = out->Tell() just before the body.
BodyStart(p, size) == p

\* Mutant: the state saved after ResetChecksum instead of before it.
ChecksumToSaveAfterReset == "reset"

\* Line 895: SaveChecksumState() returns the running state, before the reset
\* of line 896.
ChecksumToSave == cksum

-----------------------------------------------------------------------------

Failed == /\ pc' = "failed"
          /\ UNCHANGED <<have, opaqueLen, nGroups, k, pos, count, recordOffset,
                         tableEnd, offsets, written, dirRecs, cksum, savedCk>>

Inputs == <<have, opaqueLen, nGroups>>

\* Lines 780-800: select, count, and refuse a table with neither 3.0.4 nor
\* 3.1.4.
Select ==
  /\ pc = "select"
  /\ IF have["3_0_4"] \/ Emitted("3_1_4")
       THEN /\ count' = NumSubtables /\ pc' = "header"
            /\ UNCHANGED <<Inputs, k, pos, recordOffset, tableEnd, offsets,
                           written, dirRecs, cksum, savedCk>>
       ELSE Failed

\* Lines 802-810: version, num_subtables, then a pad of 8 bytes a record.
WriteHeader ==
  /\ pc = "header"
  /\ \/ /\ recordOffset' = 4 /\ pos' = 4 + 8 * count
        /\ pc' = "bodies" /\ k' = 1
        /\ UNCHANGED <<Inputs, count, tableEnd, offsets, written, dirRecs,
                       cksum, savedCk>>
     \/ Failed

\* Lines 812-890, one slot of BodyOrder.
WriteBody ==
  LET s == BodyOrder[k]
      next == IF k = Len(BodyOrder) THEN "save" ELSE "bodies"
  IN
  /\ pc = "bodies"
  /\ offsets' = [offsets EXCEPT ![s] = BodyStart(pos, BodySize(s))]
  /\ \/ /\ ~Emitted(s)
        /\ pc' = next /\ k' = k + 1
        /\ UNCHANGED <<Inputs, pos, count, recordOffset, tableEnd, written,
                       dirRecs, cksum, savedCk>>
     \/ /\ Emitted(s)
        /\ pos' = pos + BodySize(s)
        /\ written' = written \cup {[slot |-> s, start |-> pos,
                                     end |-> pos + BodySize(s)]}
        /\ pc' = next /\ k' = k + 1
        /\ UNCHANGED <<Inputs, count, recordOffset, tableEnd, dirRecs,
                       cksum, savedCk>>
     \/ /\ Emitted(s)
        /\ pc' = "failed"
        /\ UNCHANGED <<Inputs, k, pos, count, recordOffset, tableEnd, written,
                       dirRecs, cksum, savedCk>>

\* Lines 892-901: table_end, save and reset the checksum, seek back.
SaveAndSeekBack ==
  /\ pc = "save"
  /\ tableEnd' = pos
  /\ savedCk' = ChecksumToSave /\ cksum' = "reset"
  /\ \/ /\ pos' = recordOffset /\ pc' = "records" /\ k' = 1
     \/ /\ pc' = "failed" /\ UNCHANGED <<k, pos>>
  /\ UNCHANGED <<Inputs, count, recordOffset, offsets, written, dirRecs>>

\* Lines 903-949, one slot of DirOrder.
WriteRecord ==
  LET s == DirOrder[k]
      next == IF k = Len(DirOrder) THEN "seekEnd" ELSE "records"
  IN
  /\ pc = "records"
  /\ \/ /\ ~Emitted(s)
        /\ pc' = next /\ k' = k + 1
        /\ UNCHANGED <<pos, dirRecs>>
     \/ /\ Emitted(s)
        /\ dirRecs' = Append(dirRecs, [key |-> KeyOf[s], offset |-> offsets[s],
                                       at |-> pos])
        /\ pos' = pos + 8
        /\ pc' = next /\ k' = k + 1
     \/ /\ Emitted(s)
        /\ pc' = "failed"
        /\ UNCHANGED <<k, pos, dirRecs>>
  /\ UNCHANGED <<Inputs, count, recordOffset, tableEnd, offsets, written,
                 cksum, savedCk>>

\* Lines 951-956: seek to the end, restore the checksum, return true.
SeekEnd ==
  /\ pc = "seekEnd"
  /\ \/ /\ pos' = tableEnd /\ cksum' = savedCk /\ pc' = "done"
     \/ /\ pc' = "failed" /\ UNCHANGED <<pos, cksum>>
  /\ UNCHANGED <<Inputs, k, count, recordOffset, tableEnd, offsets, written,
                 dirRecs, savedCk>>

\* The serialiser has returned.
Returned ==
  /\ pc \in {"done", "failed"}
  /\ UNCHANGED vars

Next ==
  \/ Select \/ WriteHeader \/ WriteBody \/ SaveAndSeekBack \/ WriteRecord
  \/ SeekEnd \/ Returned

-----------------------------------------------------------------------------
(* The parsed tables the serialiser can be handed.                        *)

Init ==
  /\ have \in [SlotNames -> BOOLEAN]
  /\ opaqueLen \in [Opaque -> OpaqueLengths]
  /\ nGroups \in [Grouped -> GroupCounts]
  /\ pc = "select" /\ k = 1 /\ pos = 0 /\ count = 0
  /\ recordOffset = 0 /\ tableEnd = 0
  /\ offsets = [s \in SlotNames |-> 0]
  /\ written = {} /\ dirRecs = <<>>
  /\ cksum = "live" /\ savedCk = "none"

Spec == Init /\ [][Next]_vars

-----------------------------------------------------------------------------
(* Properties.                                                             *)

TypeOK ==
  /\ have \in [SlotNames -> BOOLEAN]
  /\ pc \in {"select", "header", "bodies", "save", "records", "seekEnd",
             "done", "failed"}
  /\ k \in 1..(Len(BodyOrder) + 1)
  /\ count \in 0..Cardinality(SlotNames)
  /\ offsets \in [SlotNames -> Nat]
  /\ cksum \in {"live", "reset"} /\ savedCk \in {"none", "live"}

\* The records written after the seek back fill the pad reserved for them:
\* as many as the count in the header, and none over the first body.
DirectoryFillsPad ==
  pc = "done" =>
    /\ Len(dirRecs) = count
    /\ \A j \in 1..Len(dirRecs), w \in written : dirRecs[j].at + 8 <= w.start

\* ots_cmap_parse (line 575) accepts the emitted table only if its record
\* keys strictly increase; spec 3 states this as the directory invariant
\* and P4 needs it for the round trip.
KeyId(key) == key[1] * 65536 + key[2]

EmittedDirectorySorted ==
  pc = "done" =>
    \A j \in 2..Len(dirRecs) : KeyId(dirRecs[j - 1].key) < KeyId(dirRecs[j].key)

====
