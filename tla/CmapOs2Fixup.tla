------------------------------ MODULE CmapOs2Fixup ------------------------------
(***************************************************************************)
(* The format-4 subtables of one cmap table as they pass through           *)
(* ots_cmap_parse, Parse3x4 and ots_cmap_serialise in                      *)
(* src/gfx/ots/src/cmap.cc, and the OS/2 first/last char index they share. *)
(*                                                                         *)
(* The directory dispatches every 0.0.4, 0.3.4, 3.0.4 and 3.1.4 record, in *)
(* key order, to Parse3x4 (lines 690-710, 740-750); 0.x.4 is parsed as     *)
(* 3.1.4 and stored into the same slot.  Each call runs the ordering loop  *)
(* that also fixes up the OS/2 fields (lines 157-190), and then accepts    *)
(* or rejects the table on the later checks.  The serialiser emits 3.0.4   *)
(* and suppresses 3.1.4 when both slots are filled (lines 780-787).        *)
(* Around them, file->cmap is allocated before any check (line 527),      *)
(* ots_cmap_should_serialise gates the serialiser and ots_cmap_free ends   *)
(* the table's life, in the order the font pipeline calls them.            *)
(*                                                                         *)
(* A subtable is its list of segments, ordered and ending in the           *)
(* terminator; the code space is 0..MaxCode with MaxCode for 0xFFFF, as in *)
(* CmapFormat4, which checks the parser's other steps.  That the           *)
(* directory let the records through (sorted keys, sane extents) is the    *)
(* starting state: Init picks every sorted record list.                    *)
(***************************************************************************)
EXTENDS Integers, Sequences, SequencesExt

CONSTANTS
  MaxCode,   \* the code space is 0..MaxCode; MaxCode stands for 0xFFFF
  Tables,    \* the segment lists a record may point at
  Os2Inits   \* the OS/2 (first_char_index, last_char_index) a font may hold

VARIABLES
  recs,      \* the format-4 records in directory order: [key, table]
  hasOS2,    \* file->os2 is set
  os2Init,   \* the OS/2 fields as the font gave them
  os2,       \* file->os2 first/last char index: [first, last]
  i,         \* dispatch loop index, 1-based
  slot304,   \* subtable_3_0_4_data: a table or None
  slot314,   \* subtable_3_1_4_data
  cmap,      \* file->cmap: "allocated" by ots_cmap_parse, then "freed"
  pc

vars == <<recs, hasOS2, os2Init, os2, i, slot304, slot314, cmap, pc>>

None == <<>>

\* The four format-4 keys of the dispatch, in directory order.
Keys4 == <<<<0, 0>>, <<0, 3>>, <<3, 0>>, <<3, 1>>>>

-----------------------------------------------------------------------------
(* The OS/2 fix-up of Parse3x4's ordering loop.                            *)

\* Lines 180-189 for one segment r.  A start or end of 0xFFFF never moves
\* a field, so the duplicate-terminator exception of lines 160-167, which
\* skips the final [0xFFFF, 0xFFFF] segment, has no effect here.
FixSegment(o, r) ==
  [first |-> IF o.first # MaxCode /\ r.start # MaxCode /\ o.first > r.start
               THEN r.start ELSE o.first,
   last  |-> IF o.last # MaxCode /\ r.end # MaxCode /\ o.last < r.end
               THEN r.end ELSE o.last]

\* Mutant: the fix-up loop run from segment 0.
FixupFromSegment0(o, t) == FoldLeft(FixSegment, o, t)

\* The loop of lines 157-190 starts at segment 1 (the model's second).
Fixup(o, t) == FoldLeft(FixSegment, o, Tail(t))

-----------------------------------------------------------------------------

\* Mutant: the dispatch stores a 0.x.4 table into the 3.0.4 slot.
EncodingForKeySymbol(k) == IF k[1] = 0 THEN 0 ELSE k[2]

\* Lines 695-710 and 742-750: 0.0.4 and 0.3.4 are parsed with encoding 1,
\* 3.0.4 and 3.1.4 with their own.
EncodingForKey(k) == IF k[1] = 0 THEN 1 ELSE k[2]

\* One record dispatched to Parse3x4: no OS/2 fails at once (lines 54-56);
\* otherwise the ordering loop fixes up the OS/2 fields, and the table is
\* then accepted into the slot of its encoding (lines 231-240) or rejected
\* by a later check, which fails the whole parse.
Dispatch ==
  LET r == recs[i]
      enc == EncodingForKey(r.key)
  IN
  /\ pc = "dispatch" /\ i <= Len(recs)
  /\ \/ /\ ~hasOS2
        /\ pc' = "failed"
        /\ UNCHANGED <<os2, i, slot304, slot314>>
     \/ /\ hasOS2
        /\ os2' = Fixup(os2, r.table)
        /\ \/ /\ slot304' = IF enc = 0 THEN r.table ELSE slot304
              /\ slot314' = IF enc = 1 THEN r.table ELSE slot314
              /\ i' = i + 1
              /\ pc' = IF i = Len(recs) THEN "serialise" ELSE "dispatch"
           \/ /\ pc' = "failed"
              /\ UNCHANGED <<i, slot304, slot314>>
  /\ UNCHANGED <<recs, hasOS2, os2Init, cmap>>

\* Lines 780-800: 3.0.4 suppresses 3.1.4; with neither the serialiser
\* fails.
Emitted == IF slot304 # None THEN slot304 ELSE slot314

\* Lines 775-777: ots_cmap_should_serialise returns file->cmap.
ShouldSerialise == cmap = "allocated"

\* The font pipeline serialises the table after every table parsed, when
\* ots_cmap_should_serialise says so.
Serialise ==
  /\ pc = "serialise" /\ ShouldSerialise
  /\ pc' = IF Emitted # None THEN "done" ELSE "failed"
  /\ UNCHANGED <<recs, hasOS2, os2Init, os2, i, slot304, slot314, cmap>>

\* Lines 959-961: ots_cmap_free deletes file->cmap, the slots with it; the
\* pipeline calls it whether the font was accepted or not.
Free ==
  /\ pc \in {"done", "failed"} /\ cmap = "allocated"
  /\ cmap' = "freed"
  /\ UNCHANGED <<recs, hasOS2, os2Init, os2, i, slot304, slot314, pc>>

Returned ==
  /\ cmap = "freed"
  /\ UNCHANGED vars

Next == Dispatch \/ Serialise \/ Free \/ Returned

\* Every sorted list of format-4 records, each pointing at any table.
Init ==
  /\ \E keys \in SUBSET (1..Len(Keys4)) :
     \E t \in [keys -> Tables] :
       LET ks == SetToSortSeq(keys, <)
       IN /\ keys # {}
          /\ recs = [n \in 1..Len(ks) |-> [key |-> Keys4[ks[n]], table |-> t[ks[n]]]]
  /\ hasOS2 \in BOOLEAN
  /\ \E o \in Os2Inits : os2Init = [first |-> o[1], last |-> o[2]]
  /\ os2 = os2Init
  /\ i = 1 /\ slot304 = None /\ slot314 = None /\ pc = "dispatch"
  /\ cmap = "allocated"    \* line 527, before any check

Spec == Init /\ [][Next]_vars

-----------------------------------------------------------------------------
(* Properties.                                                             *)

TypeOK ==
  /\ pc \in {"dispatch", "serialise", "done", "failed"}
  /\ i \in 1..(Len(Keys4) + 1)
  /\ os2.first \in 0..MaxCode /\ os2.last \in 0..MaxCode
  /\ slot304 \in Tables \cup {None} /\ slot314 \in Tables \cup {None}
  /\ cmap \in {"allocated", "freed"}

\* The note at lines 682-689: "If 3-1-4 table also exists, the 0-0-4 table
\* is ignored", and the same for 0-3-4; and the serialiser drops 3.1.4
\* behind 3.0.4.  So when the font has a 3.1.4 record, after a successful
\* parse and serialisation the OS/2 char indices (fixed by lines 178-189)
\* are what the fix-up of the one format-4 table emitted makes of the
\* font's own values: a table that is ignored or dropped leaves no trace.
HasKey(k) == \E n \in 1..Len(recs) : recs[n].key = k

Os2ReflectsEmitted ==
  pc = "done" /\ HasKey(<<3, 1>>) => os2 = Fixup(os2Init, Emitted)

====
