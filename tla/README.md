# TLA+ verification of the dnsasm reference codec

This directory holds TLA+ models of the portable C reference implementation of
the DNS wire codec, `src/dnsasm/src/dnsasm.c` and its header
`src/dnsasm/include/dnsasm.h`. It also holds the TLC configurations that
model-check the models, and TLAPS proofs of their main safety properties.
`PROJECT.json` lists the components, runs, mutants, map, findings, hazards and
theorems in machine-readable form.

## The system

`dnsasm.c` is a set of synchronous, pure functions over a caller-supplied
packet buffer. Nothing is shared between calls, nothing is persisted, and no
thread or callback is involved, so the interesting behaviour is entirely
within a call: loops, bounds checks, and the order of reads, writes and early
returns. The callers compose the functions top-down:

| part | code | role |
|------|------|------|
| header codec | `dnsasm_parse_header` (32-56), `dnsasm_build_header` (236-246) | 12-byte header, flags sub-fields |
| byte order | `bswap16` (17-19), `bswap32` (22-27), pointer-cast loads and stores | host order to network order |
| name decompression | `dnsasm_decompress_name` (64-152) | labels and compression pointers to a flat name; the consumed count |
| question decoder | `dnsasm_parse_question` (157-185) | name, then qtype/qclass |
| resource-record decoder | `dnsasm_parse_rr` (190-231), `bswap32` (22-27) | name, fixed fields, an rdata view into the packet |
| response builders | `dnsasm_copy_question` (251-255), `dnsasm_build_a_record` (260-289) | encoders into a caller buffer |
| name comparator/finder | `dnsasm_name_equal` (294-314), `dnsasm_name_find` (319-340) | case-folding comparison; linear lookup |
| console | `src/dnsasm/console/main.c` | test suite, benchmarks, interactive hex parser (outside the core) |

The question and record decoders call name decompression at their offset and
then read their fixed trailer at `offset + consumed`. The caller then advances
to `result.offset`. Everything downstream therefore depends on two facts:
the consumed count is the extent of the name's own encoding, which freezes at
the first pointer, and no read leaves the packet.

## Modules

* `NameDecompress.tla` models `dnsasm_decompress_name`. Its state mirrors the
  locals of the function:
  * `pos`, `out` (the bytes written to `out[]`), `wire` (`wire_len`),
    `counting` (`counting_wire`) and `hops` (`ptr_count`);
  * `pc`, which is `"loop"` or `"done"`, and `err` (`result.error`);
  * the packet `buf` and the `offset` argument `off`;
  * two history variables. `readIdx` holds the packet positions read by the
    last step. `visited` holds the loop heads seen so far.

  Each action is one iteration of the `while` loop:
  * `Pointer` covers lines 77-107, including the SHORT, LOOP and POINTER
    early returns.
  * `Terminator` covers lines 109-116.
  * `Label` covers lines 118-145, including the NAME, SHORT and OVERFLOW
    early returns.
  * `LoopExit` is the loop condition failing, lines 146-151.

  The guards are the code's tests in the code's order: `PointerCheck` and
  `LabelCheck` return the first failing test. A read outside the packet is
  undefined behaviour in C. The model reads 0 there (`ByteAt`) and records
  the read in `readIdx`, so the property `NoOutOfBoundsRead` flags any such
  read. The constants are:
  * `Packets`, the set of buffers;
  * `MaxHops`, the 127 of line 94;
  * `MaxNameLen`, the `DNS_MAX_NAME_LEN` of line 131.
* `SectionDecode.tla` models `dnsasm_parse_question` and `dnsasm_parse_rr`.
  The name call is `NameDecompress` instantiated over the same variables.
  `NameStep` runs one of its loop actions. `NameFailed` propagates its error
  unchanged (lines 163-165 and 196-198). `ParseQuestionTrailer` and
  `ParseRRTrailer` are the rest of each function: the bounds check, the reads
  of the fixed fields, the rdlength check, the rdata view, `out->wire_len`
  cast to `uint16_t` (`U16`) and `result.offset`. The values of type, class
  and TTL are abstracted to the positions read, since no property tells them
  apart. rdlength is read as a big-endian 16-bit value (`Read16`).
* `ByteOrder.tla` holds the byte-order primitives:
  * `Bswap16` (lines 17-19) and `Bswap32` (22-27);
  * the 16- and 32-bit loads and stores the code makes through `uint16_t`
    and `uint32_t` pointer casts (`LoadU16`, `StoreU16`, `LoadU32`,
    `StoreU32`).

  What a pointer-cast access does depends on the host, so the byte order
  is the constant `HostLittleEndian`. TLC's integers are 32-bit signed, so a
  `uint32_t` is its four bytes (`Word32`). `Bswap32` is built from the
  code's own shifts (`Shr`, `Shl`), masks (`Mask`) and OR (`Or4`), all whole
  numbers of bytes, so the byte form is exact.
* `HeaderCodec.tla` models `dnsasm_build_header` followed by
  `dnsasm_parse_header`:
  * `BuildHeader` writes the 12 bytes `HeaderBytes(f)`: each field goes
    through `Bswap16` and a `uint16_t` store at offset 2(j-1).
  * `ParseHeader` hands the buffer to the parser with any length `n` the
    caller may give. It takes the early return when `n < 12` (`HeaderFits`).
    Otherwise it performs the six loads (`ParseFields`) and the seven
    sub-field extractions (`ParseFlags`), and records the positions read.
* `NameFind.tla` models `dnsasm_name_find` together with the
  `dnsasm_name_equal` it calls:
  * `ForHead` is the `for` loop's test.
  * `Walk` is one test of the label-length walk of line 329 and its body.
    The walk reads `hay[pos]` before it tests `pos < 255`.
  * `Equal` is the call of `dnsasm_name_equal` and the return or the next
    entry. The positions it reads run up to the first mismatch
    (`ComparedPositions`), and it folds with `Fold`.

  An entry is the bytes of the buffer it points to. A read past them is
  recorded in `hayReads` and returns 0, as in `NameDecompress`.
  `LabelsOf`, `CaseEq` and `SameName` are an independent reference: the
  labels compared one by one, up to ASCII case.
* `ResponseBuild.tla` models `dnsasm_copy_question` (`CopyQuestion`) and
  `dnsasm_build_a_record` (`BuildARecord`):
  * `Write(o, p, bs)` is a memcpy or store of `bs` at `out + p`.
  * `ARecordOut` performs the six writes at the `pos` that
    `ARecordAdvances` builds up field by field, and returns the final `pos`.
  * `ParseRRFixed` is the reverse direction: the four fixed-field loads of
    `dnsasm_parse_rr` (lines 210-216), applied to the buffer.


## Runs

| run | cfg | checks |
|-----|-----|--------|
| decompress | `MC_NameDecompress.cfg` | `TypeOK`, `NoOutOfBoundsRead`, `OutWithinCapacity`, `WireLenIsTopLevelExtent`, `Termination` |
| decompress_terminated | `MC_NameDecompress_NameTerminated.cfg` | `NameTerminated` (violated) |
| decompress_name_limit | `MC_NameDecompress_NameWithinLimit.cfg` | `NameWithinLimit` (violated) |
| decompress_revisit | `MC_NameDecompress_NoPositionRevisited.cfg` | `NoPositionRevisited` (violated) |
| sections | `MC_SectionDecode.cfg` | `TypeOK`, `NoOutOfBoundsRead`, `AdvanceConsistent`, `RdataWithinPacket` |
| sections_terminated | `MC_SectionDecode_NameTerminated.cfg` | `SectionNameTerminated` (violated) |
| header | `MC_HeaderCodec.cfg` | `TypeOK`, `HeaderRoundTrip`, `NoOutOfBoundsRead`, `WireBigEndian` |
| header_big_endian_host | `MC_HeaderCodec_BigEndianHost.cfg` | `WireBigEndian` (violated) |
| namefind | `MC_NameFind.cfg` | `FindCorrect`, `NoOutOfBoundsRead` |
| namefind_scan_bounded | `MC_NameFind_ScanBounded.cfg` | `ScanBounded` (violated) |
| arecord | `MC_ResponseBuild.cfg` | `ARecordLayout`, `RecordRoundTrip` |
| arecord_big_endian_host | `MC_ResponseBuild_BigEndianHost.cfg` | `ARecordLayout` (violated) |

The properties:
* `NoOutOfBoundsRead`: no step reads outside the packet. For the header,
  nothing is read at or past `len`, and nothing at all on
  `DNSASM_ERR_SHORT`. For the finder, nothing is read past an entry's
  buffer.
* `OutWithinCapacity`: the output never exceeds the 256-byte `name` array
  (`DNS_MAX_NAME_LEN + 1`).
* `WireLenIsTopLevelExtent`: a successful call reports exactly the length of
  the name's top-level encoding, meaning the labels up to the terminator or
  the first pointer, computed by the independent recursive function
  `TopLevelExtent`.
* `Termination`: every call returns.
* `AdvanceConsistent`: for the composite decoders, `result.offset` is the
  offset plus `wire_len`, lies within the packet, and the name part is that
  same top-level extent.
* `RdataWithinPacket`: the rdata view is the rdlength bytes after the fixed
  fields, inside the packet.
* `HeaderRoundTrip`: parsing what was built returns the six fields, and the
  flag sub-fields, together with the reserved bits, recompose the flags
  word (`Recompose`).
* `WireBigEndian`: each header field is on the wire high byte first.
* `FindCorrect`: the finder returns the first entry that is `SameName` as
  the needle, and -1 when no entry is. This holds although the code folds
  every byte, length bytes included, because a length byte (at most 63 in a
  valid name) never falls in 'A'..'Z'.
* `ARecordLayout`: the A record is the name followed by type A, class IN,
  the ttl, rdlength 4 (all big-endian, spec 4.5) and then the address.
* `RecordRoundTrip`: reading the record back with the loads of
  `dnsasm_parse_rr` gives type A, class IN, the ttl given and rdlength 4.
  The address is the rdata, and the record ends at the `pos` returned,
  which is also the extent of the bytes written.

Bounds:
* `MC_NameDecompress` uses every packet of at most 5 bytes over
  `{0, 1, 2, 64, 192}` (label lengths, an over-long label, a pointer), plus
  every 7-byte packet over `{0, 1, 3, 192}`, with every start offset.
  `MaxHops = 2` and `MaxNameLen = 4` make the LOOP and OVERFLOW returns
  reachable in packets this small. All five error codes and success occur
  in the run.
* `MC_SectionDecode` adds record-shaped packets (a name, 8 fixed bytes,
  rdlength 0, 1, 2 or 256, and up to 2 rdata bytes). With these, both
  trailer checks fail and pass, and the rdata check fails and passes.
* The violation run of `SectionNameTerminated` uses the code's own bounds,
  127 hops and 255 bytes. It then shows that the bug is in the code, not an
  artefact of the small bounds.
* `MC_HeaderCodec` takes ids 0, 0x1234 and 0xFFFF, counts 0, 1 and 256,
  and flag words 0x0100, 0x8580 and 0x7A0F. Together these set every flag
  bit both on and off, and make each byte of a field both zero and
  non-zero. The parser is given every length from 0 to 12, so both sides of
  the short check occur.
* `MC_NameFind` uses every array of up to two entries over well-formed names
  of up to five bytes, with the letters A, Z, a and z at the ends of the
  folded range. The needle is any such name. A three-byte label and two
  one-byte labels give names of the same length but different shape. The
  violation run uses a 256-byte buffer, the size of
  `dnsasm_question_t.name`, filled with 63-byte labels and no terminator.
* `MC_ResponseBuild` uses names of odd and even length (a compression
  pointer, the root, `a.`, `www.`) and the empty name. The ttls are 300,
  four distinct bytes, and a value with the high bit set, so that a
  misplaced byte of `bswap32` shows.

Fairness: `WF_vars(Next)`. A call is a sequential loop that runs whenever it
is enabled, so weak fairness on its steps is exactly what the C execution
gives.

Mutants. Each property of a passing run is broken by a plausible bug in a
mapped definition:
* a signed pointer target (`PtrTargetSigned`);
* the label bound off by one (`LabelCheckShortByOne`);
* no room kept for the terminator (`LabelCheckNoTerminatorRoom`);
* counting the terminator after a pointer (`TerminatorCountsAlways`);
* no loop detection (`PointerNoLoopDetection`);
* the trailer check off by one (`HasRoomByOne`);
* the relative offset returned (`AfterSectionRelative`);
* the rdata check dropped (`RdataFitsUnchecked`);
* bswap16 not truncated (`Bswap16NoTrunc`);
* the opcode masked with 0x07 (`ParseFlagsOpcodeMask7`);
* the short check off by one (`HeaderFitsByOne`);
* no swap before the stores (`HeaderBytesNoSwap`);
* 'Z' left out of the fold (`FoldBelowZ`);
* the walk not skipping the length byte (`WalkStepNoPrefix`);
* a bswap32 term shifted by 16 (`Bswap32Shift16`);
* the last `pos += 4` dropped (`ARecordAdvancesNoIp`).

## Findings

1. **Unterminated names succeed** (dnsasm.c:74, 148). The loop
   `while (pos < len)` ends with `DNSASM_OK` when the name runs to the end of
   the packet. This also happens when `offset >= len`. Spec 4.2 and 7 say
   that such a buffer is short. Through `dnsasm_parse_question` this accepts
   `06 c0 00 00 00 00 06` at offset 1. The pointer at offset 1 leads back to
   a 6-byte label at offset 0 that runs to the end of the packet, and the
   decoded name `06 c0 00 00 00 00 06` is unterminated and overlaps the
   question's own qtype and qclass (run `sections_terminated`).
2. **A name of 256 bytes** (dnsasm.c:131). The overflow check allows up to
   255 bytes of labels and then writes the terminator, although
   `DNS_MAX_NAME_LEN` includes the terminator (dnsasm.h:25). The result is
   still inside the 256-byte array, which `OutWithinCapacity` checks and
   `MemorySafety` proves.
3. **Backward pointers do not prevent revisits** (dnsasm.c:100). The spec
   calls the strict-backward rule the loop-prevention invariant. A pointer
   can still target an earlier label that leads forward to the pointer
   again, so positions are revisited. The call still ends because of the
   127-hop cap and the output cap: `Termination` holds, `NoPositionRevisited`
   does not.
4. **Host-order wire format** (dnsasm.c:38, 239, 211-214, 269-281). Every
   16- and 32-bit field is moved through a pointer cast plus an
   unconditional `bswap16`/`bswap32`. That gives network order only on a
   little-endian host. On a big-endian host the header
   (`header_big_endian_host`) and the A record (`arecord_big_endian_host`)
   go out low byte first. The code calls itself portable, and the spec says
   the wire is big-endian. Each parser makes the mirror error, so a round
   trip through this library still succeeds on either host
   (`HeaderRoundTrip`, `RecordRoundTrip`, and the theorems below).
5. **The finder's walk overshoots** (dnsasm.c:329). `hay[pos]` is read
   before `pos < DNS_MAX_NAME_LEN` is tested, and a single step can move
   `pos` by up to 256. On a 256-byte buffer of 63-byte labels with no
   terminator, the walk reads offset 256, one past the buffer, and sets
   `hay_len = 257`. The spec says the walk is bounded by the 255-byte
   maximum (run `namefind_scan_bounded`). On well-formed entries,
   `NoOutOfBoundsRead` holds.



## Proofs

All obligations are checked by `tlapm` (SMT, Zenon and, for the temporal
steps, LS4). Each theorem is stated for every value of the constants that
satisfies the module's `ASSUME`s.

`NameDecompress_proofs.tla`, under `MaxHops ∈ Nat` and `MaxNameLen ∈ Nat`:
* `TypeCorrect`: `Spec => []TypeOK`.
* `MemorySafety`: `Spec => [](NoOutOfBoundsRead /\ OutWithinCapacity)`.
  Neither conjunct is inductive on its own: a label step can only be shown
  to stay within `MaxNameLen + 1` if, while the loop runs, the output still
  has room for the terminator. The inductive invariant is therefore
  `IInv == TypeOK /\ RoomForTerminator /\ NoOutOfBoundsRead /\ OutWithinCapacity`,
  where `RoomForTerminator == pc = "loop" => Len(out) <= MaxNameLen`. The
  lemmas `PointerCheckBounds` and `LabelCheckBounds` state what a check
  returning `DNSASM_OK` guarantees about the positions that will be read.

`HeaderCodec_proofs.tla`, for any sets of `uint16_t` field values and either
host byte order:
* `TypeCorrect`, `RoundTrip` (`HeaderRoundTrip`) and `HeaderMemorySafety`
  (`NoOutOfBoundsRead`).
* `LittleEndianWire`: under `ASSUME HostLittleEndian`, `WireBigEndian`.

The inductive invariant says the following:
* once built, the wire is `HeaderBytes(sent)`;
* nothing is read before the parse;
* a successful parse has `hdr` equal to the fields and their `ParseFlags`,
  with `len >= 12`.

The arithmetic is in the lemmas:
* `LoadStore`: a load from where a store wrote returns the value, on either
  host;
* `Bswap16Twice`: bswap16 is an involution on `uint16_t`;
* `FlagsDecompose`: the seven sub-fields and the reserved bits sum back to
  the word, via the div/mod lemmas `DivMod`, `DivUnique` and `DivDiv`.

`ResponseBuild_proofs.tla`, for every set of names, ttls and addresses and
either host byte order:
* `RecordRoundTripHolds`: `Spec => []RecordRoundTrip`.
* `ARecordLayoutLE`: under `ASSUME HostLittleEndian`,
  `Spec => []ARecordLayout`.

The invariant `IInv` says that after `dnsasm_build_a_record` returns, `out`
and `ret` are `ARecordOut` of the call's arguments. `RecordRoundTrip` is not
inductive without it, since it says nothing of where the bytes came from.
The lemmas build up to the result in four stages:
* `WriteAppend`: a write at `out + Len(out)` is concatenation.
* `ARecordConcat`: the six writes therefore give name ∘ type ∘ class ∘ ttl ∘
  rdlength ∘ address, and `pos = name_len + 14`.
* `ARecordBytes`: places each field at its offset.
* `LoadStoreU16`, `LoadStoreU32` and `Bswap32Bytes` (bswap32 reverses the
  four bytes) give `ARecordReadBack`.

The following stay with TLC only:
* Liveness (`Termination`): TLAPS does not reason about fairness and
  `ENABLED`.
* `WireLenIsTopLevelExtent` and `FindCorrect`: their statements are about
  recursive functions (`TopLevelExtent`, `LabelsOf`), and induction over
  data is out of the installed provers' reach.
* `AdvanceConsistent` and `RdataWithinPacket` of `SectionDecode`, and
  `NoOutOfBoundsRead` of `NameFind`: they are only model-checked.

## Not modelled

* Console (`main.c`): the test suite, the benchmarks and the interactive
  mode drive the library and print the results. That is terminal I/O,
  timing and formatting, and it holds no state of the library's own. The
  library calls it makes are the ones modelled above.
* Alignment of the pointer-cast accesses (dnsasm.c:38, 269-281) is a
  property of addresses. The models represent buffers as sequences of bytes
  and have no addresses, so this is listed as a hazard without a property.
* Concurrency: there is none. The functions are reentrant and share only
  the read-only input buffer.
