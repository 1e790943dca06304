# TLA+ models of the JPEG decoder

This directory holds TLA+ models of the baseline JPEG decoder in `src/`, in both of its builds. It contains TLC configurations that check the models on small instances, and TLAPS proofs of the main parser invariants and of the parser's refinement of an abstract specification, for every value of the constants.

## The system

`Decode` (`src/jpeg-decoder/faster/decoder.cpp`) runs a left-to-right pipeline:

1. **Bit reader** (`BitReader`, same file and `baseline/bit_reader.h`). It does byte reads (`ReadByte`, `ReadWord`) and bit reads with `FF 00` unstuffing (`ReadBits`, `ReadBitsSigned`, `Align`).
2. **Segment parser** (`Parser::ReadRawImage`, `src/unnamed/part_001`). It is a marker loop that dispatches to the segment readers:
   - `ReadImageMeta` (SOF)
   - `ReadQuantTable` (DQT)
   - `ReadHuffmanTree` (DHT)
   - `ReadImageData` (SOS plus the entropy-coded data)
   - `ReadComment` (COM and APPn)

   It keeps the tables, the comment, one optional frame header and one optional coefficient store. Every error is an exception that ends the decode.
3. **Huffman tree** (`src/jpeg-decoder/huffman/huffman.cpp`). Built per DHT table and walked bit by bit during the scan.
4. **Entropy decoder** (`ReadFromHuffmanTree` and `ReadBlock`, `part_001`). Decodes one 64-coefficient block: DC prediction, AC run-length, zig-zag.
5. **Reconstruction** (`Quantization`, `IDCT`, `Rationing` and `GetAns`, `faster/decoder.cpp`). Dequantizes, transforms and level-shifts the blocks. `GetAns` then upsamples each MCU into a per-channel buffer and sets the pixels.

**Two builds.** The repository holds two builds of the decoder:

- the *faster* build: `faster/decoder.cpp`, with its parser in `src/unnamed/part_001`;
- the *baseline* build: `baseline/decoder.cpp` and `baseline/parsers.h`.

Their `ReadRawImage`, segment readers, `ReadBlock`, `ReadFromHuffmanTree` and `Quantization` agree branch for branch; `baseline/huffman.cpp` is `huffman/huffman.cpp` plus logging. They differ in three places:

- the baseline `ReadImageData` has no check that the sampling maxima are non-zero before it divides by them;
- the baseline `GetAns` writes every sample straight into a per-pixel `y_cb_cr` array, with no MCU buffer;
- the baseline `GetZigZag` walks the diagonals instead of looking up `kZigZagMap`.

`JpegParser`, `JpegDecoder` and `EntropyDecoder` model both builds. A variable `variant`, chosen in the initial state and never changed, says which build runs. Shared definitions are mapped in PROJECT.json to the baseline lines; the faster copies are identical. The baseline `BitReader` implementation is not in the repository, so the faster one stands for both.

The parser calls the entropy decoder. The entropy decoder drives the bit reader and the Huffman trees. The coefficient store, the frame header and the quantization tables go to reconstruction.

There is no concurrency. The hard behaviours are these:

- **Marker order.** Segments arrive in any order, so there can be a second SOF, a scan before the frame, several scans, or garbage markers.
- **End of stream.** `ReadByte` does not check its read, so the marker loop can continue on uninitialized bytes.
- **Consistency between components.** The parser decodes blocks with one set of sampling maxima. `GetAns` recomputes the maxima its own way and consumes the blocks with them.

## Modules

| Module | Models | State | Actions |
|---|---|---|---|
| `RawImage` | the abstract specification of what `ReadRawImage` returns | `status`, `frame`, `store` | `ReadFrame`, `ReadScan`, `Return`, `Stop` |
| `JpegParser` | `Parser::ReadRawImage` and the segment readers | `phase`, `metadata`, `image_data`, `quantum_tables`, `huffman_trees`, `comment`; the model's `eof`, `reads`, `seg`, `variant` | `Read`, combined with one of: `ReadBegin` (SOI check), `OnMeta`, `OnComment`, `OnAPPn`, `OnQuant`, `OnHuffman`, `OnData`, `OnBadMarker`, `OnEndFile`. Also `EndOfStream` |
| `JpegDecoder` | `Decode`: the parser, then `Quantization` and `GetAns` | the above plus `outcome`, `picture` | `Parse` (a step of `JpegParser`), `Reconstruct` |
| `HuffmanTree` | `HuffmanTree::Build` and `Move` (`huffman/huffman.cpp`), with the value list `ReadHuffmanTree` passes and the loop of `ReadFromHuffmanTree` | `lengths`, `values`, `remaining` (`code_lengths_new`), `now_length`, `next`, `tree`, `state_`, `phase`; the model's `walk`, `last`, `oob` | `SkipLength` (one iteration of the while loop), `Place` (the rest of the for body), `Finish` (the residual-quota check), `Decode` (one `Move`, or `ReadBits` throwing) |
| `EntropyDecoder` | `Parser::ReadBlock` called once per block of one scan channel, over `BitReader::ReadBits`, `ReadBitsSigned` and `Align` (`faster/decoder.cpp`), with the `Align` after the scan | `stream`, `reader` (`in_`, `buffer_`, `buffer_size_`), `pc`, `matrix`, `prev_dc`, `out` (the pushed blocks); the model's `consumed`, `dcsum`, `syms`, `variant` | `ReadDC`, `ReadAC` (one iteration of the AC loop), `CheckBlock` (the size check, `GetZigZag`, the push), `AlignReader` |
| `JpegParserProofs` | proofs about `JpegParser` | | |
| `JpegDecoderProofs` | proofs about `JpegDecoder` | | |
| `MCJpegParser`, `MCJpegDecoder`, `MCHuffmanTree`, `MCEntropyDecoder` | TLC instances | | |

### JpegParser

**The marker stream.** It is abstracted to one record per marker: the marker kind plus the payload fields the code branches on.

- All the length checks of a reader lead to the same exception, so they are folded into one boolean, `lenok`.
- `buildok` stands for `HuffmanTree::Build` succeeding.
- `entropyok` stands for the entropy-coded data decoding without an exception.

**Readers.** A reader either returns its result or throws, and a throw ends `ReadRawImage`. So each marker is one action:

- a success disjunct, whose guard is the reader's checks and the loop's own checks (for example "Two SOF markers", or a duplicate table id);
- a failure disjunct `Fail`, which moves to phase `"error"`.

The readers' success conditions are these operators:

- `ReadImageMetaOk`
- `ReadQuantTableOk` (precision nibble 0 or 1)
- `ReadHuffmanTreeOk`
- `ReadImageDataOk`: trees exist, Se = 63, the sampling maxima are non-zero, and every scan channel is in the frame.

**What the parser keeps:**

- `quantum_tables`: a set of table ids, the low nibble of the mask byte.
- `huffman_trees`: a set of `<<id, is_dc>>` keys, the same keys `GetPairHash` encodes.
- `image_data`: the scan's channel ids, the MCU grid `McuH`/`McuW` (`ceil(height / 8V)`, `ceil(width / 8H)`), and the number of blocks decoded per scan channel (`BlockCount` = `mcu_h * mcu_w * h * v`).

**The baseline's division by zero.** The baseline `ReadImageData` computes `mcu_h = (height + 8 * v_max - 1) / (8 * v_max)` right after the header and tree checks (`ScanHeaderOk`), with no check of the maxima. In that build, a scan read against a frame whose factors are all 0 is `DividesByZero`: the phase becomes `"crash"`, which is a SIGFPE, not an exception.

**Refinement.** `RawImage` states what `ReadRawImage` promises its caller. It takes in at most one frame, then stores decoded against that frame (`Decoded`, a constant operator). It returns only when it has both, or it stops. `JpegParser` instantiates it as `Abs` with this mapping:

- `status <- RawStatus`: `"reading"` in phases `"start"` and `"segments"`, `"returned"` in `"done"`, `"stopped"` after an exception or a crash;
- `frame <- metadata` and `store <- image_data`;
- `Frames <- MetaType` and `Decoded <- StoreOfFrame`.

`ImplementsRawImage == Abs!ASpec` is checked by TLC and proved by TLAPS. Steps that change only the tables, the comment or the input are stuttering steps of `RawImage`.

**End of stream.** `EndOfStream` models the input running out. After it, `ReadByte` returns an uninitialized value (undefined behaviour), so any later marker is any segment at all. The model already reads each segment nondeterministically, so garbage needs no extra case; `eof` records that the input has ended.

### JpegDecoder

**Action.** `Reconstruct` is the whole of `Decode` after `ReadRawImage` returns:

1. `Quantization` throws if a scan channel is missing from the frame or its table is undefined (`QuantTablesDefined`); the outcome is `"error"`.
2. `GetAns`'s first loop divides by each scan channel's factors (`ZeroFactor`); the outcome is `"crash"`.
3. Otherwise `picture` is what `GetAns` does:
   - `RunningMax`: its `h_max`/`v_max` are the running maxima over `meta.channels[c]` for the scan positions `c`.
   - `Scaling`: the per-channel scales.
   - `WrittenCells`: the buffer cells each channel writes in one MCU. It is built from `Offsets(n, scale)`, the offsets `block*8*scale + local*scale + delta` of a row (or column) from the MCU origin. The cell is `row * mcu_w_sz + column`, which is the code's index `(real_y + delta_y - mcu_y_start) * mcu_w_sz + real_x + delta_x - mcu_x_start`.
   - `PixelsSet`: the pixels it sets. Their origins are `U16(mcu_y * 8 * v_max)` and `U16(mcu_x * 8 * h_max)`, the `uint16_t` variables of the code, and only pixels inside the image are set.
   - `BlocksRead`: the blocks it consumes.

**The baseline `GetAns`.** `Reconstruct` takes this branch when `variant = "baseline"`; that build has no `GetAns` division that a zero factor reaches. `BaselineGetAns` keeps the code's control:

- the same maxima over the first scan-count frame channels (`RunningMax`);
- the `uint16_t` MCU origins (`U16`);
- the scale `v_max / v`, which is 0 when `v_max < v`, so the delta loops never run;
- the bounds check on every write.

Its `samples[c]` is the set of pixels whose channel-`c` sample is written. Every pixel is then set from `y_cb_cr`, written or not. That pixel loop calls `YCbCrToRGB`, which throws "Channels is empty" when the scan has no channel (`EmptyPixelThrows`): the baseline build then ends with `outcome = "error"`, where the faster build returns an image.

**Out-of-bounds reads.** `meta.channels[c]` is read past its end when the scan has more channels than the frame. That read is modelled as a nondeterministic record with factors from the constant `Junk`. The fields are `uint8_t`, so the module assumes only `Junk ⊆ Byte` (`JunkAssumption`): such a read may yield any byte. The runs use `Junk = {1, 3}`.

**What is not modelled.** IDCT, Rationing and the colour arithmetic change sample values only.

### HuffmanTree

**The trie.** A node is named by its path from the root, a sequence of bits with 0 for left. `tree.nodes` is the set of created nodes and `tree.leaf` maps the terminal ones to their values. `AddNodeImpl` is a recursive operator with the code's control:

- it fails at a terminal node;
- at depth 1 it takes the left child, then the right, if absent;
- otherwise it creates the left child, recurses, and on failure creates the right child and recurses.

Internal nodes created on a branch that then fails stay in the trie, as in the code. A symbol value is abstracted to its position in the value list; `Build` and `Move` never look at it.

**Build.** The steps are `SkipLength`, `Place` and `Finish`.

- At `now_length` 17 the while condition reads `code_lengths_new[16]`, one past the end, before its bound check. Whatever that read returns, the loop ends and "Too small code lengths sum" is thrown. The model records the read in `oob`.
- The residual-quota check is `std::reduce` with no initial value. That accumulates in `uint8_t`, so `QuotaLeft` sums modulo 256.
- The constant `ValuesSlack` is `Len(values) - Σ L`. The run takes it from `{-1, 0, 1}`: 0 is the parser's call, and -1 and 1 are direct calls of the public `Build`. `NoReadPastLengths` is stated for the parser's call only, since a direct call with one value too many does make the read.

**Decode.** `Decode` is one iteration of the loop. Either `MoveOnBit` does one `Move` on a bit chosen freely, or `BitReadFails` models `ReadBits` throwing ("EOF", or a marker where stuffed data was expected) before `Move` is called, which ends the decode in phase `"threw"`. `walk` and `last` record the bits read since the root and the last symbol returned, for the properties.

**Reference.** `CanonicalCode(L)` is the code of ITU T.81 Annex C: codes counted up within a length and shifted left when the length grows. `Kraft(L)` is the Kraft inequality at depth 16.

### EntropyDecoder

**The bit reader.** `reader` holds the unread bytes, `buffer_` and `buffer_size_`. `LoadByte` is the refill of `ReadBits`: it throws "EOF" on an empty input, and after a 0xFF it reads the next byte and throws unless it is 0x00. `ReadBits(n)` throws for n > 16 and otherwise shifts in n top bits. `ReadBitsSigned` keeps the code's arithmetic, including the final `static_cast<int16_t>` (`Int16`). `Align` clears the buffer.

**The Huffman walk.** `ReadFromHuffmanTree` is modelled over the code table, not over a built trie: a node exists exactly when its path is a prefix of a code, and a walk into an absent child throws. This is sound because `HuffmanTree` checks that an accepted `Build` gives exactly the canonical code of its table (`BuildsCanonicalCode`) and that `Move` returns the symbol of the bits read (`DecodesAsCoded`).

**ReadBlock.** `ReadDC` reads `dc_sz`, then the difference, and adds it to `prev_dc` in `int16_t`. `ReadAC` is one iteration of the `while (matrix.size() < 64)` loop. It handles end of block, `zeros_cnt` zeros and then one coefficient, or "Empty ac coef". `CheckBlock` is the size check after the loop, `GetZigZag` and `ReadImageData`'s push of the block. Every error is `Throw`, which ends the scan. The model keeps `dcsum` (the DC differences EXTENDed and summed as integers) and `syms` (the AC symbols of the current block, with their raw bits) to compare with the reference.

**Reference.** `Unstuffed(s)` is the bit string of the entropy-coded data under T.81 F.1.2.3. `Extend` is T.81's EXTEND. `ZZIndex` computes the zig-zag index of a natural position from the anti-diagonals with closed-form arithmetic. It is independent of the code's `kZigZagMap` and of the baseline's walk.

**The baseline zig-zag.** `BaselineGetZigZag` is the baseline `GetZigZag`:

- `DiagWalk(d)` lists the cells the `while` loop of diagonal `d` visits, from `min(d, 7)`, up for even `d` and down for odd `d`;
- `DiagOrder` concatenates the 15 walks with `FlattenSeq`;
- `DubSource` inverts it, giving for each row-major cell the index `data[index++]` it receives.

`CheckBlock` applies the zig-zag of the build in `variant`.

## Runs

| Run | Config | Expect | Checks |
|---|---|---|---|
| parser_scan_frame | `MCJpegParser.cfg` | pass | `TypeOK`, `ScanMatchesFrame`, `ImplementsRawImage` |
| parser_eof | `MCJpegParser_EndOfStreamFatal.cfg` | violation | `EndOfStreamFatal` |
| parser_baseline_profile | `MCJpegParser_BaselineProfileEnforced.cfg` | violation | `BaselineProfileEnforced` (action property) |
| decoder_blocks | `MCJpegDecoder.cfg` | pass | `DTypeOK`, `BlockReadsMatch`, `BufferWritesInBounds` |
| decoder_coverage | `MCJpegDecoder_ImageCovered.cfg` | violation | `ImageCovered` |
| decoder_upsample | `MCJpegDecoder_UpsampleComplete.cfg` | violation | `UpsampleComplete` |
| decoder_zero_factor | `MCJpegDecoder_NoDivisionByZero.cfg` | violation | `NoDivisionByZero` |
| huffman_parser | `MCHuffmanTree.cfg` | pass | `HTypeOK`, `NoReadPastLengths`, `BuildsCanonicalCode`, `BuildAcceptsIffKraft`, `DecodesAsCoded`, `WalkEnds` |
| huffman_quota_wrap | `MCHuffmanTree_QuotaWrap.cfg` | violation | `BuildAcceptsIffKraft` |
| entropy_blocks | `MCEntropyDecoder.cfg` | pass | `EDTypeOK`, `BitsMatchStream`, `AcMatchesReference`, `DcMatchesReference`, `AlignedAtByte` |
| entropy_wide_dc | `MCEntropyDecoder_WideDc.cfg` | violation | `DcMatchesReference` |

Every run has both builds in `Variants`.

**Properties:**

- **`ImplementsRawImage`**: the parser implements `RawImage`. It fails if a second frame header is taken in, if a store is kept without a frame, if EOI returns without a store (the mutant with the "No image/meta data in file" check dropped shows this), or if anything changes after the end.
- **`ScanMatchesFrame`**: whenever a coefficient store exists, so does a frame. The MCU grid and every channel's block count are the ones that frame gives. A second SOF, or a scan before the frame, would break it. It needs several steps of different handlers to violate.
- **`BlockReadsMatch`**: `GetAns` reads `channel_matrix[c]` exactly as often as `ReadImageData` pushed into it. This is the consistency between the two components. It fails if the frame could change after the scan; the mutant with the duplicate-SOF check dropped shows this.
- **`BufferWritesInBounds`**: every upsampling write lands inside the `64 * h_max * v_max` buffer. It holds because each scale is the floor of a maximum divided by the factor; rounding up breaks it.

- **`BuildsCanonicalCode`**: a tree `Build` accepted gives the i-th value exactly the i-th canonical code, and no other node is terminal. The depth-first placement must find the leftmost free slot at each depth.
- **`BuildAcceptsIffKraft`**: `Build` accepts exactly the calls with one value per code whose histogram satisfies the Kraft inequality. The `is_terminal` check keeps an overfull table out; the residual-quota check keeps an underfull one out.
- **`NoReadPastLengths`**: the parser's call (`Len(values) = ValuesCount(lengths)`) never reaches the out-of-bounds read, because `ReadHuffmanTree` passes exactly Σ L values, so a value is never left once the quota is spent.
- **`DecodesAsCoded`**: every symbol the decoding loop returns is the one whose canonical code is exactly the bits read since the previous symbol.
- **`WalkEnds`** (liveness): a walk that has left the root comes back to it with a symbol, or `Move` throws on the null state. `ReadFromHuffmanTree` does not spin.
- **`BitsMatchStream`**: the bits `ReadBits` has returned are, in order, a prefix of the unstuffed data. No stuffed 0x00 is decoded, no bit is skipped or read twice, and nothing past a marker is decoded. Reading 0xFF without skipping its 0x00 breaks it.
- **`AcMatchesReference`**: every block returned has each AC coefficient EXTENDed from its bits, at the zig-zag index its run of zeros gives, and zero elsewhere, with no symbol past index 63. It relates `kZigZagMap` and the baseline's diagonal walk (a walk with the directions swapped breaks it), the run-length loop, the end-of-block padding and `ReadBitsSigned` to a reference written independently.
- **`DcMatchesReference`**: the DC of every returned block is the sum of all DC differences so far in the scan. It fails if the prediction is not carried from block to block, or if a difference is not EXTENDed as T.81 says.
- **`AlignedAtByte`**: after the `Align` that follows `ReadImageData`, the reader holds no bits. The bytes it has taken from the stream, once unstuffed, are exactly the decoded bits rounded up to a whole byte. So the marker loop resumes at the first byte after the scan's data. An `Align` that clears `buffer_` but not `buffer_size_` breaks it.

**Findings.** The violation runs each check one statement of the spec that the code does not meet; PROJECT.json lists them:

- **Unchecked end of stream:** `ReadByte` ignores the failed read, so a stream cut short can still be accepted.
- **Unchecked baseline profile:** in both builds, Ss and Ah/Al are read and ignored, and a frame of precision 12 is accepted.
- **Pixels left unset by `GetAns`:**
  - a scan with zero channels sets none;
  - with a frame `<<Cb 1x1, Y 2x2>>` and a luma-only scan, `h_max` is 1 while the parser used 2, so row and column 8 of the 9x9 image are never set;
  - in the baseline build, the same frame and scan give `v_max / v = 1 / 2 = 0`, so no luma sample is written and every pixel is converted from Y = 0. TLC reports the faster case first; the baseline case was confirmed with `Variants` set to the baseline alone.
- **MCU buffer cells never written:** the scale of a scan channel met before the largest factor is too small, so part of its MCU buffer is never written. Every MCU writes the same cells, because the index subtracts `mcu_y_start` and `mcu_x_start`. The cells never written keep the zeros of their allocation, and the pixel loop converts those pixels from a 0 sample.
  - TLC's trace is frame `<<Y 1x1>>` with scan `<<Y, Y>>`: the second iteration reads past the end of `meta.channels` and widens `h_max` after channel 0's scale is fixed at 1.
  - Frame `<<C 1x1, Y 2x2>>` with scan `<<Y, Y>>` shows it without an out-of-bounds read. The first channel's scale is 1 / 2 = 0, so it writes nothing, while every pixel is set and `ImageCovered` holds. TLC finds this case with the invariant restricted to scans no longer than the frame.
- **Division by zero:** a frame channel with factor 0 passes the parser in both builds. In the faster build it divides by zero in `GetAns`. In the baseline build, a frame in which every channel's h (or every channel's v) is 0 divides by zero in `ReadImageData`: TLC's trace has frame `<<Y 0x1>>`, which divides by `8 * h_max` at line 605. TLC reports the baseline case first; the faster case was confirmed with `Variants` set to the faster build alone.
- **Residual quota wraps:** `Build` called directly with 256 codes and no values returns normally with an empty tree, because the quota is summed in `uint8_t`. The parser always passes Σ L values, so a JPEG stream cannot reach it.
- **DC size above 11 accepted, and wrapped:** the spec (4.D, 7) makes a DC symbol above 11 fatal, but `ReadBlock` reads as many bits as the symbol says, up to 16. For a size-16 difference of 0xFFFF, `ReadBitsSigned`'s `static_cast<int16_t>` returns -1, whereas EXTEND gives 65535. The run uses one input, `EF FF 00 F0`: DC code `1110` (size 16), the 16 bits `1111 1111 1111 1111` with the stuffed 0x00 skipped, then end of block.

**Bounds.**

- `MCJpegParser`:
  - 7 markers: enough for SOI, DQT, DHT, SOF, SOS, one extra segment and EOI.
  - Two channel ids and two tables of each kind.
  - Each reader has one success segment and one segment per failure branch: bad length, precision nibble 2, a duplicate id in one segment, a Huffman build failure, Ss = 1, Se = 62, an entropy failure, precision 12, height 0.
  - Frames include `<<Y 0x0>>` to reach the zero-maximum check.
- `MCJpegDecoder`:
  - Also 7 markers, with 9x9 images, so that MCUs of 8 and 16 pixels give partial grids.
  - The frames cover:
    - luma first (2x2 + 1x1);
    - luma after chroma;
    - a zero factor beside a non-zero one;
    - only zero horizontal factors (`<<Y 0x1>>`), which the faster parser rejects and the baseline divides by;
    - factors 2 and 3, which do not divide each other.
  - Scans of one, both, neither or a repeated channel.
  - `Junk = {1, 3}`.
- `MCHuffmanTree`:
  - Every histogram with up to two codes at each of lengths 1..3. These are complete, incomplete and overfull codes, with codes of equal and of different lengths.
  - Four histograms that reach depth 16, among them the complete code 1, 1, ..., 1, 2 and the same code with one code too many at depth 16.
  - Three codes of length 1.
  - The decoding walks range over every bit sequence, so every path into an absent child is taken.

- `MCEntropyDecoder`:
  - A DC table of sizes 0, 1 and 2 with one absent code (`111`), and an AC table with end of block, 0x01, ZRL (0xF0), 0x11 (run 1, size 1), 0x10 (run 1, size 0: "Empty ac coef"), 0xE1 (run 14, size 1) and 0xF1 (run 15, size 1), so that a block can end exactly at 64 coefficients or overrun it.
  - Every input of up to three bytes over eight byte values chosen for their bit patterns, plus `3F FF 00 b` for each of them, so that a stuffed 0xFF falls in the middle of a code and is followed by more data. A lone 0xFF, 0xFF 0xFF and the end of the input occur in the three-byte inputs.
  - Two blocks, so that DC prediction is carried from one block to the next.

Deadlock checking is off in every run: the decoder really stops after EOI, after an exception, or after `Decode` returns.

**Liveness.** The only liveness property is `WalkEnds`, under weak fairness of `MoveOnBit`. This is justified because `ReadFromHuffmanTree` calls `Move` again every time it returns false, and `ReadBits` returns a bit unless it throws. The throw is allowed but not assumed fair: whether it happens depends on the input, not on scheduling. `WalkEnds` therefore says that the walk ends on a stream that goes on supplying bits. Nothing else is scheduled: `Decode` is one synchronous call.

`Move`'s guard includes `Len(walk) <= WalkBound` (16). The guard never binds, since no code is longer than 16 bits, and `HTypeOK` checks it. It keeps the state space finite under a mutant that walks forever.

## Proofs

Two modules hold proofs: `JpegParserProofs` (the parser) and `JpegDecoderProofs` (Decode on top of it). Their theorems hold for both builds, every `Segments` ⊆ `SegmentType`, every `MaxReads` ∈ Nat, every `Texts` and, for the decoder, every `Junk` ⊆ `Byte`, that is, whatever bytes an out-of-bounds read yields. `tlapm` checks both from scratch.

### JpegParserProofs

**`TypeCorrect`: `Spec => []TypeOK`.** `TypeOK` is inductive on its own. The hard steps are `OnData` and `OnQuant`/`OnHuffman`, which rest on these lemmas:

- `FactorMaxType`: the maximum of the channel factors exists and is a nibble.
- `NatHasLeast`: every non-empty set of naturals has a least element, from the well-foundedness of `<` on Nat.
- `GetMetaType`: when the id occurs, the first channel with it exists and is a channel record.
- `ReadImageDataType`: an accepted scan gives a store of type `ImageDataType`.
- `SeqElems`, `WordNat`, `SegmentKinds`.

The baseline's `"crash"` step changes only `phase`, so it keeps the types.

**`ScanConsistent`: `Spec => []ScanMatchesFrame`.** `ScanMatchesFrame` is inductive without strengthening, as TLC confirms by checking it as an invariant. Lemma `MetaDataSteps` shows that only two steps change `metadata` or `image_data`:

- the first SOF, which needs `metadata = None`, and then `image_data = None` by the invariant;
- an accepted scan, which leaves `metadata` unchanged and stores `ReadImageData(t, metadata)`.

Lemma `ScanOfFrame` shows that this stored value satisfies the property for the unchanged frame.

**`Refinement`: `Spec => ImplementsRawImage`.** The proof follows the usual two obligations. The initial state maps to `AInit`. Under `TypeOK`, which `TypeCorrect` gives, every step of `Next` maps to a step of `ANext` or leaves the abstract variables unchanged:

- the first SOF is `ReadFrame`, with `ReadImageMeta(t) ∈ MetaType`;
- an accepted scan is `ReadScan`: `ScanOfFrame` gives `StoreOfFrame`, and `ReadImageDataType` with `NoneAssumption` shows the store is not `None`;
- an accepted EOI is `Return`;
- an exception (lemma `FailStops`) or a crash is `Stop`;
- every other step is a stutter (lemma `QuietStutters`).

No invariant beyond `TypeOK` is needed, because each abstract guard is a guard of the code. For example, `ReadFrame` needs `frame = None`, which is exactly the "Two SOF markers" check.

### JpegDecoderProofs

It proves the three invariants the `decoder_blocks` run checks:

- **`DecoderTypeCorrect`: `DSpec => []DTypeOK`.**
- **`BlocksConsumed`: `DSpec => []BlockReadsMatch`.**
- **`BufferBounds`: `DSpec => []BufferWritesInBounds`.**

None of the three is inductive by itself. Each concerns `picture`, and a `Reconstruct` step builds `picture` from `image_data` and `metadata`, which the invariants say nothing about. The proofs share one inductive invariant:

`DInv == TypeOK /\ ScanMatchesFrame /\ ReconstructInv`

`ReconstructInv` (in `JpegDecoder`) says four things:

- Decode waits while the parser is in its marker loop.
- `"done"` comes with a store.
- `picture` is `None` until an image exists.
- An image is `GetAns` (faster build, no zero factor) or `BaselineGetAns` of the current store and frame, for some function `junk` that gives the out-of-bounds channel reads.

TLC checked all three conjuncts as invariants of the `decoder_blocks` instance before the proof.

The steps of the proof are these:

- `DInvInit`.
- `DInvParse`. Lemma `LoopSteps` shows that the parser steps only in `"start"` or `"segments"`, when `outcome = "running"` and `picture = None`. It also shows that the parser reaches `"done"` only through a successful EOI, which holds a store. `TypeStep` and `ScanStep` of `JpegParserProofs` carry the parser's part.
- `DInvReconstruct`, one case per disjunct; the two error cases leave `picture` unchanged. Here the parser variables are unchanged, and `picture` is set to the `GetAns` of the step's witness `junk`.
- `DInvStep`, which combines the two and adds stuttering.

Then `PictureOfImage` turns `DInv /\ Image` into `AnsArgs`: the store has type `ImageDataType`, the frame has type `MetaType`, and the store satisfies `StoreOfFrame`. From there, lemmas about `GetAns` for every such argument give the three invariants:

- `GetAnsType` and `BaselineGetAnsType` give the picture's type. They rest on:
  - `WithinImage`: every pixel set lies inside `ImagePixels(meta)` ⊆ `Word \X Word`;
  - `ScanChannels`: each scan channel's factors and block counts.
- `ReadsAreBlocks` gives the block counts. Block count `mcu_h * mcu_w * h * v` equals `blocks[c]`, which `StoreOfFrame` pins.
- `WrittenInBuffer` gives the buffer bounds. The argument is arithmetic over the six loop variables:
  - `RunningMaxProps`: the running maximum `h_max` over the first `c` frame channels is a byte that is at most its final value. Frame factors are nibbles and out-of-bounds factors are bytes, by `JunkAssumption`. This lemma rests on `BoundedSetMax` (a non-empty subset of `0..B` has a maximum), through `ByteSetMax` and `ByteNat` (`Nibble ⊆ Byte ⊆ Nat`).
  - `CoordBound` and `OffsetsBound`: every offset in `Offsets(f, m÷f)` of a channel with `f` blocks per MCU is below `8 * m`.
  - `CellBound`: the flattened index `row * 8 * h_max + column` is below `64 * h_max * v_max`.

The maximum is taken over a prefix of the frame's channels, including the junk ones. That is why the bound is stated against the buffer that `GetAns` allocates, not against the frame's factors.

It also proves one theorem about the `uint16_t` arithmetic of `GetAns`, which no run can reach because the wrap needs images near 65535 pixels:

- **`McuStartNoWrap`.** Take any frame header of type `MetaType` and any scan with no more channels than the frame. Then every MCU `(mcu_y, mcu_x)` of the grid `McuH(meta) x McuW(meta)` starts inside the image: `mcu_y * 8 * v_max < height` and `mcu_x * 8 * h_max < width`. So `U16` of each product is the product itself, and the `uint16_t` variables `mcu_y_start` and `mcu_x_start` never wrap. The argument has three steps:
  - `RunningWithinFrame`: when no read is out of bounds, `GetAns`'s running maximum is at most the frame's `VMax` (or `HMax`), through `BelowFrameMax`.
  - `McuStartBound`: a row `my < GridCount(size, fm) = ceil(size / (8 * fm))` starts at `my * 8 * vm <= my * 8 * fm <= size - 1`, through `DivBelow`, `(n ÷ k) * k <= n`.
  - `WordBound` and `U16Small`: heights and widths are below `2^16`.

  With an out-of-bounds channel read, a junk factor can exceed the frame's maximum, and the theorem makes no claim.

`Word` and `Byte` are written `0..(2^16 - 1)` and `0..(2^8 - 1)` so that the provers' arithmetic handles it. The baseline write set is split into `BaselineGrid`, the cells the loops visit, and `BaselineSamples`, which filters those cells by the bounds check. This split lets the proof reason about the bounds check without expanding the eight-variable set.

### What stays with TLC

- The `JpegDecoder` properties that TLC finds violated: `UpsampleComplete`, `ImageCovered` and `NoDivisionByZero`. Each violation run is a counterexample, not a theorem.
- All properties of `HuffmanTree` are checked only by TLC. `AddNodeImpl` is a `RECURSIVE` operator, which keeps the module out of the prover's reach. Its correctness for every histogram would need induction over the trie. `WalkEnds` is a liveness property, also outside TLAPS.
- All properties of `EntropyDecoder` are checked only by TLC. `Unstuffed`, `ReadBitsLoop` and `HuffWalk` are recursive over the input, and what they compute for every input needs induction over data.
- The parser's violation runs.

## Not modelled

- **The joint of the modules.** In `JpegParser` a scan's entropy outcome is still the abstract `entropyok`, and a table's build outcome the abstract `buildok`. `HuffmanTree` and `EntropyDecoder` check those steps on their own. `EntropyDecoder` models one scan channel: `ReadImageData` interleaves channels, each with its own `prev_dc` and tables, which changes only which state a `ReadBlock` call uses.
- **The inverse DCT (FFTW) and sample arithmetic.** These are real-valued arithmetic with no control.
- **The baseline `BitReader` implementation.** Only its declaration (`baseline/bit_reader.h`) is in the repository.
- **The glog CMake scaffold.**
