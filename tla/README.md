# Model checking the OTS cmap sanitizer

This directory holds TLA+ models of `src/gfx/ots/src/cmap.cc`. That file is the
OpenType Sanitizer's validator and re-serialiser for the `cmap` table, the table
that maps code points to glyph ids. The models are checked with TLC.

## The system

`cmap.cc` is a sequential program with no threads and no callbacks. What makes it
hard is that it is driven entirely by untrusted bytes. A run has these parts:

| Part | Code | What it does |
|---|---|---|
| Directory parser | `ots_cmap_parse` 525-773 | Reads the version and encoding records. Checks that the offsets are in range and that records are sorted by (platform, encoding). Recovers each subtable's format and length. Sweeps for overlapping subtables. Dispatches to a format parser. |
| Format 4 validator | `Parse3x4` 46-243 | Validates a 3.0.4 / 3.1.4 (or aliased 0.0.4 / 0.3.4) subtable. The subtable is kept verbatim. This step fixes up OS/2 first/last char index. |
| Format 12 / 13 parsers | `Parse31012` 245-324, `Parse31013` 326-390 | Read the groups into `subtable_3_10_12` / `subtable_3_10_13`. |
| Format 14 validator | `Parse0514` 393-491 | Validates the variation-selector records and the nested UVS tables. The subtable is kept verbatim. |
| Format 0 parser | `Parse100` 493-519 | Copies 256 glyph bytes. A non-zero language is tolerated. |
| Serialiser | `ots_cmap_serialise` 779-957 | Chooses the subtables (3.0.4 beats 3.1.4). Writes the bodies, then seeks back to write the directory. Saves, resets and restores the stream checksum. |

These parts interact through the parsed state (`OpenTypeCMAP`: the slots for each
subtable) and the OS/2 record (`first_char_index` / `last_char_index`).

- The parser fills the slots.
- One slot can be filled by several directory records: 0.0.4 and 0.3.4 alias 3.1.4, and 0.3.12 aliases 3.10.12.
- The serialiser reads the slots back.
- The sanitizer promises that whatever it emits is safe for a rasterizer to look up (spec P1-P3), and that a table it emits parses again to the same content (spec P4).

## Modules

### `CmapFormat4` (MC: `MCCmapFormat4`)

This module models `Parse3x4` step by step over a subtable image.

- **State.**
  - `data` and `length` are the subtable as a sequence of 16-bit big-endian words.
  - `hasOS2` and `encoding` are the call's inputs.
  - `pc` and `i` are the position and the loop index.
  - `ranges` is the parser's `std::vector<Subtable314Range>`.
  - `os2First` and `os2Last` are the OS/2 fields.
  - `slot` is the 3.0.4 / 3.1.4 slot written on acceptance.
  - `cp` is the simulation loop's unsigned code-point counter.
- **Actions.** There is one action per block of the function:
  - `ReadHeader`: the header, the binary-search fields and the log2 loop.
  - `ReadArrays`: the four arrays and the padding.
  - `ReadRangeOffset`: one step per `idRangeOffset`, including the odd-value toleration on the last segment.
  - `CheckOrder` / `SkipOrder`: one step per iteration of the ordering loop. This includes the duplicate-terminator exception and the OS/2 fix-up.
  - `CheckLastEnd`.
  - `Simulate`: one step per iteration of the simulation's inner loop. Each step looks up code point `cp` of range `i` (`CodePointValid`), or moves to the next range once `cp` passes the range's end. `NextCodePoint` is the `++cp` of an unsigned counter, so the terminator's loop ends at 0x10000.
  - `Store`.
  - `Fail` is every `return OTS_FAILURE()`.
- **Abstraction.** The 16-bit code space is shrunk to `0..MaxCode`, so `MaxCode` plays 0xFFFF and `CodeSpace` is the 2^16 of the wrap. Offsets and lengths stay in bytes, so odd offsets and odd lengths happen.
- **Reference.** The two lookup properties of the violation runs (`AllLookupsSafe`, `CoercedOffsetLookupsSafe`) compare the accepted table with an independent "rasterizer lookup" (`RLookupSafe`). It reads the verbatim words with the OpenType formula, which is what a consumer of the emitted table does.
- **Refinement.** `CmapFormat4Abstract` is what `Parse3x4` promises, as one step. Given the words, the length and whether OS/2 exists, `result` goes from `"pending"` to `"accepted"` exactly when `WellFormed` holds, and to `"rejected"` otherwise.
  - `WellFormed` is spec 4.2 as the code reads it, stated over the whole table with quantifiers and no loop: OS/2 present; header fields consistent (`FloorLog2` by `CHOOSE`); the arrays and the pad fit; only the last `idRangeOffset` is odd; segments from the second on are ordered, allowing a final duplicate terminator; the last end is 0xFFFF; and every code point of every segment from the second on maps safely.
  - `CmapFormat4` maps `pc` onto `result` (`Decision`) and asserts `Abstract!Spec` (`Format4Refinement`).
  - Liveness is not checked here. It would need a pass over about 3M states with a tableau, close to the run's time limit. Every loop of `Parse3x4` is bounded by the segment count or by the 16-bit code space, which is unlike the u32 counts of format 14.

### `CmapGroups` (MC: `MCCmapGroups`)

This module models `Parse31012`, `Parse31013` and `Parse100` (format 0). It also
models the bodies that `ots_cmap_serialise` writes for them (lines 812-822 and
840-882).

- **Parse.** The parse follows the code:
  - `Header12` / `Header13` read and check the header.
  - `ReadGroup` reads and validates one group per step. The group is stored before it is checked, as in the code.
  - `CheckSorted` runs one step of the sort loop.
  - `Header0` skips the format and length and reads the language. A non-zero language is only warned about.
  - `ReadGlyph0` appends one byte of the 256-byte array per step.
- **Round trip.** After the first parse accepts, `Serialise` writes the body exactly as the serialiser does. The second pass parses that body with the same actions. This checks spec P4.
- **Values.** Code points and glyph ids are real u32 values, drawn from small sets that sit on every boundary the code tests: 0xD7FF/0xD800, 0xDFFF/0xE000, 0x10FFFF/0x110000 and 0xFFFF/0x10000.
- **Format 13 inputs.** These come in two layouts:
  - the OpenType one: u32 language, 16-byte header;
  - the one the code reads: u16 language, 14-byte header.
- **Format 0 round trip.** The length of the re-read body is taken from the u16 length field the serialiser wrote, as the directory recovers it (line 590).

### `CmapDirectory` (MC: `MCCmapDirectory`)

This module models `ots_cmap_parse`.

- **Abstraction of the table.** The bytes are reduced to the header (`version`, `numTables`), the records (platform, encoding, offset) and `hdr`. `hdr` gives the format and length fields found at each offset a record may point at. Because it is a function of the offset, two records at one offset always recover the same length, as in the code.
- **State.** `lastId`, `fmts` and `lens` are `subtable_headers[i].format/.length`. `slots` maps each `OpenTypeCMAP` slot to the record whose subtable it holds. `calls` is a history of the slices handed to a parser.
- **Actions.** There is one action per loop iteration of the code:
  - `ReadDirectory`;
  - `CheckOffset`: the offset check and the key order;
  - `ReadFormat`: the seek, the format read and the length recovery;
  - `CheckLength`;
  - `Sweep`: the overlap check, as one step because it has no side effects;
  - `CheckMaxp`;
  - `Dispatch`: the table of lines 690-770, with its aliasing.
- **Parser calls.** Each parser call accepts or rejects. What the parsers accept is the subject of the two modules above.
- **Scaling.** 1 GiB is scaled to the constant `GiB`.
- **Equivalent mutant.** Deduplicating on the offset alone would be equivalent to the code's (offset, end) key, because the length is read from the offset.

### `CmapSerialise` (MC: `MCCmapSerialise`)

This module models `ots_cmap_serialise`.

- **Inputs.** These are the parsed slots (`have`), the opaque lengths and the group counts. Every combination of slots can come out of `ots_cmap_parse`: 0.3.12 fills the 3.10.12 slot next to a 3.10.13 record, and 3.0.4 and 3.1.4 can both be parsed.
- **The output stream.** It is abstracted to:
  - its position (`pos`, which is `Tell`);
  - the bodies written (`written`) and the records written (`dirRecs`);
  - the checksum state (`cksum`, `savedCk`).
- **Actions.**
  - `Select`;
  - `WriteHeader`: the header and the pad;
  - `WriteBody`: one per body, in payload order;
  - `SaveAndSeekBack`;
  - `WriteRecord`: one per record, in directory order;
  - `SeekEnd`: the restore.
- **Output failure.** Every write and seek may fail, which is spec 7's output failure.

### `CmapFormat14` (MC: `MCCmapFormat14`)

This module models `Parse0514` byte by byte.

- **State.** `data` and `length` are the subtable's bytes and its recovered length. `pc`, `i` and `j` are the position, the record index and the nested entry index. `numRecs`, `prevVS`, `rec`, `nCount`, `prevEnd` and `prevUni` are the code's locals. `stored` says whether the subtable was kept.
- **Actions.** Each loop iteration is one action:
  - `ReadHeader`: the count and the `(length - 10) / 11` bound;
  - `ReadRecord`: one variation selector record;
  - `ReadDefaultCount` and `ReadRange`: one default UVS range;
  - `ReadNonDefaultCount` and `ReadMapping`: one non-default mapping;
  - `Store`.
- **Nested tables.** Each nested table is read through an `ots::Buffer` that starts at the record's offset and ends where the subtable ends (`NestedLimit`).
- **Unreachable failure.** The check at lines 425-426 (`offset <= length - 4`) means the nested count reads cannot fail. Their failure returns are unreachable and are kept as guards; a deadlock would show one failing.
- **Large values.** A u32 of 2^31 or more is represented by `BigU32`.
- **Inputs.** Init builds images from the enumerated records, ranges and mappings. It also builds one image with a selector of 0 or of 0x110000, cut short in each region, or with its default offset at `length - 4`, at `length - 3` and inside the header.
- **Refinement.** `CmapFormat14Abstract` is what `Parse0514` promises, as one step. Given the bytes and the length, `result` goes from `"pending"` to `"accepted"` exactly when `WellFormed` holds, and to `"rejected"` otherwise.
  - `WellFormed` is spec 4.5 stated over the whole table at once. Every record lies inside the subtable, and its selectors are positive, strictly increasing and at most 0x10FFFF. Every nested table fits. Every range ends at 0x10FFFF at most and starts after the previous range ends. Every mapping is strictly increasing and scalar, and its glyph is below num_glyphs.
  - `CmapFormat14` maps `pc` onto `result` (`Decision`) and asserts `Abstract!Spec` (`Format14Refinement`) and `Abstract!Decided` (`Format14Terminates`).
  - The abstract module reads two points of spec 4.5 as the code does. A first selector of 0 is rejected, because it is not above the initial `prev_var_selector = 0`. Ranges are "strictly increasing" in the sense that each starts after the previous one ends (line 446), which is stricter than "by start".

### `CmapOs2Fixup` (MC: `MCCmapOs2Fixup`)

This module composes the format-4 path through three functions: the dispatch of `ots_cmap_parse`, `Parse3x4`'s OS/2 fix-up, and the serialiser's choice of format-4 table. The OS/2 fields are shared state that outlives each call.

- **State.** `recs` are the format-4 records in directory order. Each has its key and its table, and a table is a list of segments (start, end). `os2` holds the OS/2 fields and `os2Init` the font's own values. `slot304` and `slot314` are the two slots. `cmap` is `file->cmap`: allocated as `ots_cmap_parse` starts (line 527), before any check, and later freed.
- **Actions.**
  - `Dispatch`: one record's `Parse3x4` call.
    - Without OS/2 the call fails (line 54).
    - Otherwise the ordering loop folds `FixSegment` (lines 180-189) over segments 1.. into the OS/2 fields (`Fixup`). The table is then stored in the slot of its encoding (0.0.4 and 0.3.4 use encoding 1), or a later check rejects it.
  - `Serialise`: runs when `ots_cmap_should_serialise` (`ShouldSerialise`, lines 775-777) says so. 3.0.4 suppresses 3.1.4 (`Emitted`), and with neither slot filled the serialiser fails.
  - `Free`: `ots_cmap_free` (lines 959-961), on the accepted and the failed path alike. `Returned` stutters after it.
- **Inputs.** Init starts from every sorted, non-empty list of the four format-4 keys, each pointing at any table. That the directory let the records through is `CmapDirectory`'s concern, and the validity of each table is `CmapFormat4`'s.

## Runs

| Run | Expect | What it shows |
|---|---|---|
| `format14` | pass | `TypeOK`, which includes that `prev_end_unicode` never exceeds 0x10FFFF. `Format14Refinement`: the loop parser accepts exactly the tables the declarative `WellFormed` accepts, although it checks each entry only against its predecessor. Every table it stores can be read through its own offsets without leaving the subtable. `Format14Terminates`: under weak fairness the parser always returns, although every loop count is an untrusted u32. |
| `format4` | pass | `Format4Refinement`: step by step, `Parse3x4` accepts exactly the tables `CmapFormat4Abstract` calls well-formed. The abstract `LookupOK` holds for every code point of every segment from the second on, so the refinement also shows that the simulation's lookups (the wrap of `code_point + id_delta`, the `+ 1` of the two-byte bounds test) are sound, and `OrderOK` that the adjacent ordering test is the whole-table one. `TypeOK`. |
| `format4_segment0` | violation | `AllLookupsSafe` (spec P3) fails because the simulation loop starts at segment 1 (line 200). TLC accepts a one-segment table [0, 0xFFFF] with idDelta -1 (stored 0xFFFF), idRangeOffset 0 and length 24: code point 0 maps to glyph 0xFFFF, with `NumGlyphs = 2`. |
| `format4_odd_offset` | violation | `CoercedOffsetLookupsSafe` fails. An odd last `idRangeOffset` is validated as 0 but emitted verbatim (line 146). |
| `format4_os2_first` | violation | `Os2FirstCharFixed` fails. The fix-up skips segment 0, contrary to the comment at line 178. |
| `groups` | pass | `Format12ScalarValues`: no surrogates, nothing above 0x10FFFF. `Format12RoundTrip`: the emitted body re-parses to the same groups. `Format0RoundTrip`: the emitted format-0 body, read with the length it declares, re-parses to the same 256 glyph ids. |
| `format13_roundtrip` | violation | The emitted format-13 body is rejected on re-parse. The u16 language read is at line 336 and the length 14+12N is at line 869. |
| `format12_glyph_bound` | violation | Spec P1 fails: a group whose last glyph equals num_glyphs is accepted (line 307). |
| `directory` | pass | `SweepSound`: after the sweep, no two subtables with different extents share a byte. `SweepComplete` (an action property): the sweep fails only on such an overlap, so adjacent subtables, identical extents and empty extents pass. `DirectRecordWins`: a 3.1.4 or 3.10.12 record's own subtable is what its slot holds at the end, never an aliased 0.x one. `DispatchedWithinTable`: every slice given to a parser lies after the records and inside the table. |
| `os2_ignored_alias` | violation | `Os2ReflectsEmitted` (for fonts with a 3.1.4 record) fails. TLC's font has a 0.0.4 record with segments [0], [1], a 3.1.4 record with segment [2], and OS/2 first = last = 2. The 0.0.4 table, which the comment at lines 682-689 calls ignored, is parsed first and lowers `first_char_index` to 1. The 3.1.4 table then overwrites the slot and is the only one emitted, so `first_char_index` names code 1, which the output does not map. |
| `serialise` | pass | `TypeOK`, which includes that the saved checksum is the running one. `DirectoryFillsPad`: the records written equal the count in the header and all lie before the first body. |
| `serialise_duplicate_key` | violation | `EmittedDirectorySorted` fails. With both group slots filled, two (3, 10) records are written (lines 936 and 944), and `ots_cmap_parse` rejects the output at line 575. |

Each property of a passing run has a mutant in `PROJECT.json`. The mutant is a
plausible code bug that TLC detects through that property:

- the straddle test dropped;
- the format-13 length used for format 12;
- the sweep threshold at 2;
- a start event sorted before an end event;
- the key-order check dropped;
- the end-of-table check dropped;
- the checksum saved after the reset;
- `num_subtables` missing format 14;
- the format-14 range bound tested on the start;
- the format-14 glyph bound tested with `<=`;
- the nested entry index not advanced;
- the format-4 simulation counter declared 16 bits wide, so it wraps at 0xFFFF;
- the format-0 body written without its language field;
- `id_delta` read unsigned.

## Bounds

- **`MCCmapFormat4`.**
  - `MaxCode = 3` (four code points), up to 2 segments, deltas -1..1, range offsets {0, 2, 4, 7}, glyph arrays of up to 2 words from {0, 2}, and `NumGlyphs = 2`.
  - Init enumerates every well-formed table in these bounds, at full length and one byte short.
  - It also enumerates a base table with each header field damaged, cut at each read boundary, and with every OS/2 and encoding input.
  - These bounds reach every failure path, the duplicate-terminator exception, the wrap of `code_point + id_delta`, odd offsets, odd lengths and the byte-level bounds test.
  - The run has about 3M states and checks the refinement in about a minute.
- **`MCCmapDirectory`.**
  - Up to 3 records. The table is 52 bytes.
  - Subtables start at offsets 28, 36 and 44, with lengths 0, 8 and 16 and formats 4, 12 and an unknown one. These produce every relation between two extents: disjoint, adjacent, nested, crossing, identical and empty.
  - The dispatch family puts any of six keys, in any order, over formats 0, 4, 12, 13 and 14.
  - The damaged family covers a bad version, no tables, records past the table, offsets before the records and at the table end, a format field at the last two bytes, a length above `GiB`, and a missing maxp.
- **`MCCmapSerialise`.**
  - All 64 slot combinations, opaque lengths 24 and 32, and 1 or 2 groups.
  - Failure of every write and seek.
- **`MCCmapFormat14`.**
  - Up to 2 records, with selectors 0xFE00 and 0xFE0F, each pointing at a shared default table, a shared non-default table, both or neither. Selectors 0 and 0x110000 appear in the damaged family.
  - Default tables have up to 2 ranges, with starts 0x41 and 0x10FFFF and additional counts 0 and 1.
  - Non-default tables have up to 2 mappings, with code points 0x41 and 0x110000 and glyphs 1 and 2. `NumGlyphs = 2`.
  - These bounds hit both sides of every comparison: duplicates, an end of 0x110000, glyph = num_glyphs, out-of-order selectors, and a truncation in every region.
  - The run has about 176k states. It checks the refinement and termination in about 25 s.
- **`MCCmapOs2Fixup`.**
  - Codes 0..3, with 3 standing for 0xFFFF. There are two tables: [0], [1], which reaches code 1 from its second segment, and [2], which has no second non-terminator segment and so moves nothing. OS/2 starts at (2, 2) or at (0xFFFF, 0xFFFF). A first_char_index of 1 therefore names a code that only the first table maps.
  - Every sorted subset of the four keys is enumerated, each key with either table, with and without OS/2. The run has about 1.5k states. Two tables that move the fields differently, one of them over codes the other does not map, are all that an ignored table needs to show.
- **`MCCmapGroups`.**
  - Up to 2 groups over 8 code points and 4 glyph ids.
  - Two groups suffice for the adjacent-pair checks. Every boundary of every test is hit from both sides.
  - Headers are damaged in language and in `num_groups`: 0, the exact count, one more than the count, and 65536.
  - Format 0 has three 256-byte arrays: all zero, the identity 0..255 (so a shifted read shows), and 255 in the last byte. Each comes with language 0 or 1 and a length of 5, 261 or 262.

The parsers are single-threaded and do not wait on anything. Once called, a
parser keeps taking steps until it returns, so weak fairness of its next-state
relation (`WF_vars(Next)` in `CmapFormat14`'s `Spec`) is all the scheduling it
needs. Only `format14` checks a liveness property (see `CmapFormat4` for why
format 4 does not). Its loops are the ones whose
counts come from the input, up to 2^32 - 1. The other runs check safety alone.
Every run stops in `Returned` (accepted, or freed in `CmapOs2Fixup`) or `failed`. Both are terminal
stuttering steps, so deadlock checking stays on.

## Not modelled

1. **The 2^30 bound.** Spec 4.1 rejects record offsets and lengths of 2^30 or more. Lines 564 and 621 reject only values above 1024*1024*1024. `CmapDirectory` states the spec's bound as `OffsetsBelowGiB`, and `MCCmapDirectory_OffsetsBelowGiB.cfg` shows it failing on an offset of exactly `GiB`. That configuration is not one of the project's runs. The divergence has no consequence, because the sum at line 624 still fits in 32 bits, and the runs go to findings that have consequences.
2. **Checksum restore.** The failure paths after line 896 return without `RestoreChecksum`, contrary to spec 5. `CmapSerialise` reaches these paths, but no run checks the restore: the font is rejected anyway.
3. **Format-14 cost.** Records may share nested tables, so the work is quadratic in `length`. This is listed as a hazard with no property. That the work is finite is `Format14Terminates`.
4. **Inverted format-13 groups.** `Parse31013` never checks `end_range >= start_range` (line 374). Spec 4.4 gives format 13 the bounds of format 12, which include that check. This divergence is listed as a hazard and has no run of its own yet.
5. **Properties the model's shape already decides.** A few checks are not stated as properties, because within the bounds TLC can explore each one would only repeat a single guard:
   - that the groups of an accepted format-12/13 table are disjoint (the adjacent test of lines 315-320);
   - that a search by end code finds the covering format-4 segment (the adjacent test of lines 171-175, which the refinement compares with the whole-table `OrderOK`);
   - that each serialised record points at its own body (the model keeps one offset per slot name, so a mispairing cannot be expressed).
   `CmapGroups` and `CmapDirectory` also carry no type invariant: every value their variables take is fixed by the `Init` families and by the guards.
6. **Not modelled at all:**
   - `ots::Buffer`, `OTSStream`, `maxp` and `OS2`. These are not in `src/`, and the spec gives only their interfaces. They are modelled through those interfaces: `Word`, `U32`, `Fits` and `U32Words`; the stream's position and checksum state in `CmapSerialise`. The read cursor of `ots::Buffer` is not a variable, because every read of the parsers is at an offset the code's control fixes.
   - The font pipeline that calls the `cmap` functions. It is outside the spec's scope, and `CmapOs2Fixup` takes its calling order from spec section 5.
