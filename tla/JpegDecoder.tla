----------------------------- MODULE JpegDecoder -----------------------------
(***************************************************************************)
(* Decode (src/jpeg-decoder/faster/decoder.cpp and, for the baseline      *)
(* build, src/jpeg-decoder/baseline/decoder.cpp): the parser of JpegParser *)
(* followed by reconstruction of the RawImage it returns.  Of the stages   *)
(* after parsing only the control is modelled: Quantization's table       *)
(* lookup, and GetAns's sampling maxima, per-channel scaling, block        *)
(* consumption, MCU buffer writes and the pixels it sets.  IDCT and        *)
(* Rationing change sample values only and are left out.                  *)
(*                                                                         *)
(* GetAns reads meta.channels[c] for every scan channel index c; when the *)
(* scan lists more channels than the frame, that read is past the end of  *)
(* the vector (undefined behaviour).  The model lets it return any        *)
(* factors from the set Junk.                                              *)
(***************************************************************************)
EXTENDS JpegParser

CONSTANT Junk   \* sampling factors an out-of-bounds channel read may yield

\* The h and v fields GetAns reads are uint8_t: a read past the end of
\* meta.channels yields some byte, any byte.
ASSUME JunkAssumption == Junk \subseteq Byte

VARIABLES
  outcome,   \* "running", then "error" (an exception), "crash" or "image"
  picture    \* what GetAns produced, None before

dvars == <<vars, outcome, picture>>

-----------------------------------------------------------------------------
(* GetAns.                                                                 *)

\* The pixels of Image ans(meta.width, meta.height) that Decode allocates.
ImagePixels(meta) == (0..(meta.height - 1)) \X (0..(meta.width - 1))

\* The largest of a finite set of naturals.
SetMax(S) == CHOOSE m \in S : \A x \in S : x <= m

\* meta.channels[k] as GetAns reads it (k is 1-based here).
FrameChannelAt(meta, junk, k) ==
  IF k \in Indices(meta.channels) THEN meta.channels[k] ELSE junk[k]

\* h_max / v_max after the first c iterations of GetAns's first loop: the
\* maximum over the first c FRAME channels, c counting SCAN channels.
RunningMax(meta, junk, f, c) ==
  SetMax({FrameChannelAt(meta, junk, k)[f] : k \in 1..c} \cup {0})

\* channel_metadata[c]: the frame entry of the c-th scan channel.
ScanMeta(d, meta, c) == GetMetaByChannelId(meta, d.channel_ids[c])

\* Mutant: the scale rounded up instead of down.
ScalingRoundUp(d, meta, junk, c) ==
  [v |-> (RunningMax(meta, junk, "v", c) + ScanMeta(d, meta, c).v - 1) \div ScanMeta(d, meta, c).v,
   h |-> (RunningMax(meta, junk, "h", c) + ScanMeta(d, meta, c).h - 1) \div ScanMeta(d, meta, c).h]

\* scaling[c] = (v_max / v, h_max / h) with the maxima of iteration c.
Scaling(d, meta, junk, c) ==
  [v |-> RunningMax(meta, junk, "v", c) \div ScanMeta(d, meta, c).v,
   h |-> RunningMax(meta, junk, "h", c) \div ScanMeta(d, meta, c).h]

\* The division of scaling[c] is by zero for some scan channel.
ZeroFactor(d, meta) ==
  \E c \in Indices(d.channel_ids) :
     ScanMeta(d, meta, c).v = 0 \/ ScanMeta(d, meta, c).h = 0

\* uint16_t mcu_y_start = mcu_y * mcu_h_sz: the product kept in 16 bits.
U16(x) == x % 65536

\* The offsets of real_y + delta_y from mcu_y_start (or of the x
\* counterparts) for a channel of n blocks per MCU row (column) and
\* scale v_scale (h_scale): block_v * 8 * v_scale + local_y * v_scale + delta_y.
Offsets(n, scale) ==
  {b * 8 * scale + l * scale + d : b \in 0..(n - 1), l \in 0..7, d \in 0..(scale - 1)}

\* Mutant: the row offset taken from 1 instead of 0.
WrittenCellsRowOffByOne(d, meta, junk, c) ==
  LET cm == ScanMeta(d, meta, c)
      s  == Scaling(d, meta, junk, c)
      wsz == 8 * RunningMax(meta, junk, "h", Len(d.channel_ids))
  IN  {(r - 1) * wsz + x : r \in Offsets(cm.v, s.v), x \in Offsets(cm.h, s.h)}

\* The buffer indices channel c writes while one MCU is assembled:
\* buffer[c][(real_y + delta_y - mcu_y_start) * mcu_w_sz + real_x + delta_x
\* - mcu_x_start].
WrittenCells(d, meta, junk, c) ==
  LET cm == ScanMeta(d, meta, c)
      s  == Scaling(d, meta, junk, c)
      wsz == 8 * RunningMax(meta, junk, "h", Len(d.channel_ids))
  IN  {r * wsz + x : r \in Offsets(cm.v, s.v), x \in Offsets(cm.h, s.h)}

\* The image pixels GetAns sets: every MCU of the grid the scan was decoded
\* with, in steps of the 8 * h_max x 8 * v_max that GetAns computed, from
\* the uint16_t origins mcu_y_start and mcu_x_start.
PixelsSet(d, meta, junk) ==
  LET hs == 8 * RunningMax(meta, junk, "h", Len(d.channel_ids))
      vs == 8 * RunningMax(meta, junk, "v", Len(d.channel_ids))
  IN  {<<U16(my * vs) + dy, U16(mx * hs) + dx>> :
         my \in 0..(d.mcu_h - 1), mx \in 0..(d.mcu_w - 1),
         dy \in 0..(vs - 1), dx \in 0..(hs - 1)}
        \cap ImagePixels(meta)

\* now_block[c] after the MCU loops: h * v blocks per MCU.
BlocksRead(d, meta, c) ==
  d.mcu_h * d.mcu_w * ScanMeta(d, meta, c).h * ScanMeta(d, meta, c).v

\* What GetAns produces for one choice of the out-of-bounds reads.
GetAns(d, meta, junk) ==
  [pixels  |-> PixelsSet(d, meta, junk),
   bufsize |-> 64 * RunningMax(meta, junk, "h", Len(d.channel_ids))
                  * RunningMax(meta, junk, "v", Len(d.channel_ids)),
   written |-> [c \in Indices(d.channel_ids) |-> WrittenCells(d, meta, junk, c)],
   reads   |-> [c \in Indices(d.channel_ids) |-> BlocksRead(d, meta, c)]]

(* The baseline GetAns.  h_max/v_max are the maxima over the first       *)
(* channels_cnt FRAME channels (meta.channels[i], i < scan channel count), *)
(* taken before the loops; every sample goes straight into y_cb_cr under  *)
(* a bounds check, and every pixel of the image is then set.              *)

\* The (row, column) cells the baseline block loops of channel c visit,
\* for non-zero sampling factors cm.v and cm.h.
BaselineGrid(d, meta, junk, c) ==
  LET cm == ScanMeta(d, meta, c)
      vm == RunningMax(meta, junk, "v", Len(d.channel_ids))
      hm == RunningMax(meta, junk, "h", Len(d.channel_ids))
      sv == vm \div cm.v
      sh == hm \div cm.h
  IN  {<<U16(my * 8 * vm) + bv * 8 * sv + ly * sv + dy,
         U16(mx * 8 * hm) + bh * 8 * sh + lx * sh + dx>> :
          my \in 0..(d.mcu_h - 1), mx \in 0..(d.mcu_w - 1),
          bv \in 0..(cm.v - 1), bh \in 0..(cm.h - 1),
          ly \in 0..7, lx \in 0..7, dy \in 0..(sv - 1), dx \in 0..(sh - 1)}

\* The pixels whose channel-c sample the baseline loops write: the cells
\* that pass the bounds check (none when a factor is 0).
BaselineSamples(d, meta, junk, c) ==
  LET cm == ScanMeta(d, meta, c)
  IN  IF cm.v = 0 \/ cm.h = 0 THEN {}
      ELSE BaselineGrid(d, meta, junk, c) \cap ImagePixels(meta)

\* What the baseline GetAns produces for one choice of the reads.
BaselineGetAns(d, meta, junk) ==
  [pixels  |-> ImagePixels(meta),
   samples |-> [c \in Indices(d.channel_ids) |-> BaselineSamples(d, meta, junk, c)],
   reads   |-> [c \in Indices(d.channel_ids) |-> BlocksRead(d, meta, c)]]

\* The baseline GetAns converts every pixel of the image with YCbCrToRGB,
\* which throws "Channels is empty" when the scan has no channel.
EmptyPixelThrows(d, meta) == d.channel_ids = <<>> /\ ImagePixels(meta) # {}

\* Quantization: GetMetaByChannelId (throws when the frame has no such
\* channel) and the table lookup (.value() in the faster build, .at() in
\* the baseline one, both throwing) for every scan channel.
QuantTablesDefined(d, meta, tables) ==
  \A c \in Indices(d.channel_ids) :
     /\ HasChannel(meta, d.channel_ids[c])
     /\ ScanMeta(d, meta, c).quant_id \in tables

-----------------------------------------------------------------------------
(* Actions.                                                                *)

DInit == Init /\ outcome = "running" /\ picture = None

\* A step of ReadRawImage.
Parse == Next /\ UNCHANGED <<outcome, picture>>

\* Decode after ReadRawImage returned: Quantization (a missing table
\* throws), IDCT and Rationing, then GetAns.  The faster GetAns's scaling
\* loop divides by each scan channel's factors; the baseline one divides
\* only inside the block loops, which a zero factor never enters, and
\* throws from its pixel loop when the scan has no channel.
Reconstruct ==
  /\ phase = "done" /\ outcome = "running"
  /\ \/ /\ ~QuantTablesDefined(image_data, metadata, quantum_tables)
        /\ outcome' = "error" /\ UNCHANGED picture
     \/ /\ QuantTablesDefined(image_data, metadata, quantum_tables)
        /\ variant = "faster" /\ ZeroFactor(image_data, metadata)
        /\ outcome' = "crash" /\ UNCHANGED picture
     \/ /\ QuantTablesDefined(image_data, metadata, quantum_tables)
        /\ variant = "faster" /\ ~ZeroFactor(image_data, metadata)
        /\ outcome' = "image"
        /\ \E junk \in [Indices(image_data.channel_ids) -> [h: Junk, v: Junk]] :
              picture' = GetAns(image_data, metadata, junk)
     \/ /\ QuantTablesDefined(image_data, metadata, quantum_tables)
        /\ variant = "baseline" /\ EmptyPixelThrows(image_data, metadata)
        /\ outcome' = "error" /\ UNCHANGED picture
     \/ /\ QuantTablesDefined(image_data, metadata, quantum_tables)
        /\ variant = "baseline" /\ ~EmptyPixelThrows(image_data, metadata)
        /\ outcome' = "image"
        /\ \E junk \in [Indices(image_data.channel_ids) -> [h: Junk, v: Junk]] :
              picture' = BaselineGetAns(image_data, metadata, junk)
  /\ UNCHANGED vars

DNext == Parse \/ Reconstruct

DSpec == DInit /\ [][DNext]_dvars

-----------------------------------------------------------------------------
(* Properties.                                                             *)

Image == outcome = "image"

DTypeOK ==
  /\ TypeOK
  /\ outcome \in {"running", "error", "crash", "image"}
  /\ picture \in [pixels: SUBSET (Word \X Word), bufsize: Nat,
                  written: Seq(SUBSET Nat), reads: Seq(Nat)]
                 \cup [pixels: SUBSET (Word \X Word),
                       samples: Seq(SUBSET (Word \X Word)), reads: Seq(Nat)]
                 \cup {None}

\* GetAns reads channel_matrix[c][now_block[c]++] exactly as many times as
\* ReadImageData pushed blocks for that scan channel: never past the end,
\* and no decoded block left unused.
BlockReadsMatch ==
  Image => \A c \in Indices(image_data.channel_ids) :
              picture.reads[c] = image_data.blocks[c]

\* Every write of GetAns's upsampling loop lands inside the channel's MCU
\* buffer of 64 * h_max * v_max samples.
BufferWritesInBounds ==
  Image /\ variant = "faster" =>
     \A c \in Indices(image_data.channel_ids) :
        picture.written[c] \subseteq 0..(picture.bufsize - 1)

\* The invariant the proofs of JpegDecoderProofs rest on: the decoder runs
\* until ReadRawImage has returned (with a store), Decode then ends once,
\* and an image is what GetAns of the build in variant produced from the
\* returned store and frame, for some out-of-bounds reads, the faster one
\* only when no scan channel has a zero factor.
ReconstructInv ==
  /\ outcome \in {"running", "error", "crash", "image"}
  /\ phase = "done" => image_data # None
  /\ outcome # "running" => phase = "done"
  /\ outcome # "image" => picture = None
  /\ Image =>
       \E junk \in [Indices(image_data.channel_ids) -> [h: Junk, v: Junk]] :
          \/ /\ variant = "faster" /\ ~ZeroFactor(image_data, metadata)
             /\ picture = GetAns(image_data, metadata, junk)
          \/ variant = "baseline" /\ picture = BaselineGetAns(image_data, metadata, junk)

\* Spec 4.E: each sample of a block is replicated into a v_scale x h_scale
\* rectangle, so each MCU buffer is filled from this MCU's blocks before
\* the pixel loop reads all of it.
UpsampleComplete ==
  Image /\ variant = "faster" =>
     \A c \in Indices(image_data.channel_ids) :
        0..(picture.bufsize - 1) \subseteq picture.written[c]

\* Spec section 6 and 4.E: the decoded image has the frame's height and
\* width, GetAns sets every one of its pixels, and (baseline build, which
\* sets all of them from y_cb_cr) every sample of every scan channel in it
\* is written from one of the image's blocks rather than left at 0.
ImageCovered ==
  LET all == ImagePixels(metadata) IN
  Image =>
     /\ picture.pixels = all
     /\ variant = "baseline" =>
           \A c \in Indices(image_data.channel_ids) : picture.samples[c] = all

\* Spec 3: sampling factors are 1..4, so a stream is either rejected or
\* decoded; neither the baseline ReadImageData (8 * v_max) nor the faster
\* GetAns (v_max / v) ever divides by a zero factor.
NoDivisionByZero == outcome # "crash" /\ phase # "crash"
=============================================================================
