------------------------- MODULE JpegDecoderProofs -------------------------
(***************************************************************************)
(* Proofs about Decode after ReadRawImage, for both builds, every set of  *)
(* segments, every bound and every set Junk of out-of-bounds factors:     *)
(* the types, that GetAns reads exactly the blocks ReadImageData pushed,  *)
(* and that every write of the faster GetAns's upsampling loop lands in   *)
(* its MCU buffer.  All three rest on ReconstructInv, which ties the      *)
(* picture to the store and frame ReadRawImage returned.                  *)
(***************************************************************************)
EXTENDS JpegDecoder, JpegParserProofs

-----------------------------------------------------------------------------
(* Lemmas about the maxima of GetAns.                                      *)

\* A non-empty set of naturals below a bound B has a largest element, and
\* SetMax is it.
LEMMA BoundedSetMax ==
  ASSUME NEW B \in Nat, NEW S \in SUBSET (0..B), S # {}
  PROVE  /\ SetMax(S) \in S
         /\ \A x \in S : x <= SetMax(S)
<1> DEFINE T == {B - x : x \in S}
<1>1. T \in SUBSET Nat /\ T # {}
  <2>1. \A x \in S : B - x \in Nat
    BY SMTT(30)
  <2>2. QED
    BY <2>1, ZenonT(30)
<1>2. PICK y \in T : \A z \in T : y <= z
  BY <1>1, NatHasLeast, ZenonT(30)
<1>3. PICK m \in S : y = B - m
  OBVIOUS
<1>4. \A x \in S : x <= m
  <2> TAKE x \in S
  <2>1. B - x \in T
    OBVIOUS
  <2>2. y <= B - x
    BY <2>1, <1>2, SMTT(30)
  <2>3. QED
    BY <2>2, <1>3, SMTT(30)
<1>5. \E m2 \in S : \A x \in S : x <= m2
  BY <1>4
<1>6. QED
  BY <1>5, ZenonT(30) DEF SetMax

\* The same for nibbles and for bytes.
LEMMA NibbleSetMax ==
  ASSUME NEW S \in SUBSET Nibble, S # {}
  PROVE  /\ SetMax(S) \in S
         /\ \A x \in S : x <= SetMax(S)
BY BoundedSetMax DEF Nibble

LEMMA ByteSetMax ==
  ASSUME NEW S \in SUBSET Byte, S # {}
  PROVE  /\ SetMax(S) \in S
         /\ \A x \in S : x <= SetMax(S)
<1>1. 2^8 - 1 \in Nat
  BY SMTT(30)
<1>2. QED
  BY <1>1, BoundedSetMax, ZenonT(30) DEF Byte

\* Bytes are naturals, and the nibbles are among them.
LEMMA ByteNat ==
  /\ Byte \subseteq Nat
  /\ Nibble \subseteq Byte
<1>1. 2^8 - 1 = 255
  BY SMTT(30)
<1>2. QED
  BY <1>1, SMTT(30) DEF Byte, Nibble

\* The factors GetAns reads for the first c scan channels, in-bounds or not.
RunningSet(meta, junk, f, c) == {FrameChannelAt(meta, junk, k)[f] : k \in 1..c} \cup {0}

\* h_max / v_max after c iterations is a byte bounding every factor read
\* so far, and it only grows with c.
LEMMA RunningMaxProps ==
  ASSUME NEW meta \in MetaType, NEW n \in Nat,
         NEW junk \in [1..n -> [h: Junk, v: Junk]], NEW f \in {"h", "v"},
         NEW c \in 0..n
  PROVE  /\ RunningMax(meta, junk, f, c) \in Byte
         /\ RunningMax(meta, junk, f, c) <= RunningMax(meta, junk, f, n)
<1>1. \A k \in 1..n : FrameChannelAt(meta, junk, k)[f] \in Byte
  <2> TAKE k \in 1..n
  <2>1. CASE k \in Indices(meta.channels)
    <3>1. meta.channels[k] \in ChannelType
      BY <2>1, SeqElems DEF MetaType
    <3>2. QED
      BY <2>1, <3>1, ByteNat, ZenonT(30) DEF FrameChannelAt, ChannelType
  <2>2. CASE k \notin Indices(meta.channels)
    BY <2>2, JunkAssumption, SMTT(30) DEF FrameChannelAt
  <2>3. QED
    BY <2>1, <2>2
<1>2. \A j \in 0..n : /\ RunningSet(meta, junk, f, j) \in SUBSET Byte
                      /\ RunningSet(meta, junk, f, j) # {}
  <2>1. 0 \in Byte
    BY ByteNat, SMTT(30) DEF Nibble
  <2>2. \A j \in 0..n : \A k \in 1..j : k \in 1..n
    BY SMTT(30)
  <2>3. QED
    BY <1>1, <2>1, <2>2, ZenonT(30) DEF RunningSet
<1>3. RunningSet(meta, junk, f, c) \subseteq RunningSet(meta, junk, f, n)
  BY DEF RunningSet
<1>0. /\ RunningMax(meta, junk, f, c) = SetMax(RunningSet(meta, junk, f, c))
      /\ RunningMax(meta, junk, f, n) = SetMax(RunningSet(meta, junk, f, n))
      /\ c \in 0..n /\ n \in 0..n
  BY SMTT(30) DEF RunningMax, RunningSet
<1>4. RunningMax(meta, junk, f, c) \in RunningSet(meta, junk, f, c)
  BY <1>0, <1>2, ByteSetMax, ZenonT(30)
<1>5. \A x \in RunningSet(meta, junk, f, n) : x <= RunningMax(meta, junk, f, n)
  BY <1>0, <1>2, ByteSetMax, ZenonT(30)
<1>6. QED
  BY <1>2, <1>3, <1>4, <1>5, SMTT(30)

-----------------------------------------------------------------------------
(* Lemmas about the indices of the upsampling loop.                        *)

\* One coordinate of a write: block b of the channel's cnt, line l of the
\* block, replica d of the scale s = max \div cnt stays below 8 * max.
LEMMA CoordBound ==
  ASSUME NEW mx \in Nat, NEW cnt \in Nat \ {0},
         NEW b \in 0..(cnt - 1), NEW l \in 0..7, NEW d \in 0..(mx \div cnt - 1)
  PROVE  b * 8 * (mx \div cnt) + l * (mx \div cnt) + d \in 0..(8 * mx - 1)
<1> DEFINE s == mx \div cnt
<1>1. s \in Nat /\ s >= 1 /\ cnt * s <= mx
  BY SMT
<1>2. b * 8 * s <= (cnt - 1) * 8 * s
  BY <1>1, SMT
<1>3. l * s <= 7 * s
  BY <1>1, SMT
<1>4. b * 8 * s + l * s + d <= 8 * (cnt * s) - 1
  BY <1>1, <1>2, <1>3, SMT
<1>5. 8 * (cnt * s) - 1 <= 8 * mx - 1
  BY <1>1, SMT
<1>6. b * 8 * s + l * s + d \in Nat
  BY <1>1, SMT
<1>7. QED
  BY <1>4, <1>5, <1>6, SMT

\* A row below 8 * V and a column below 8 * H index a buffer of
\* 64 * H * V samples laid out with rows of 8 * H.
LEMMA CellBound ==
  ASSUME NEW V \in Nat, NEW H \in Nat,
         NEW r \in 0..(8 * V - 1), NEW x \in 0..(8 * H - 1)
  PROVE  r * (8 * H) + x \in 0..(64 * H * V - 1)
<1>1. r * (8 * H) <= (8 * V - 1) * (8 * H)
  BY SMT
<1>2. (8 * V - 1) * (8 * H) + 8 * H - 1 = 64 * H * V - 1
  BY SMT
<1>3. QED
  BY <1>1, <1>2, SMT

\* The offsets of a channel with cnt blocks per MCU side and scale
\* mx / cnt stay below 8 * mx.
LEMMA OffsetsBound ==
  ASSUME NEW mx \in Nat, NEW cnt \in Nat \ {0}
  PROVE  Offsets(cnt, mx \div cnt) \subseteq 0..(8 * mx - 1)
<1> SUFFICES ASSUME NEW r \in Offsets(cnt, mx \div cnt)
             PROVE  r \in 0..(8 * mx - 1)
  BY ZenonT(30)
<1>1. PICK b \in 0..(cnt - 1), l \in 0..7, d \in 0..(mx \div cnt - 1) :
         r = b * 8 * (mx \div cnt) + l * (mx \div cnt) + d
  BY SMTT(30) DEF Offsets
<1>2. QED
  BY <1>1, CoordBound, ZenonT(30)

-----------------------------------------------------------------------------
(* GetAns on a store that matches its frame.                               *)

\* The hypotheses of Reconstruct that the lemmas below share: a store
\* decoded against the frame, and a choice of the out-of-bounds reads.
AnsArgs(d, meta, junk) ==
  /\ d \in ImageDataType /\ meta \in MetaType /\ StoreOfFrame(d, meta)
  /\ junk \in [Indices(d.channel_ids) -> [h: Junk, v: Junk]]

\* The scan channels index a sequence, and each is found in the frame.
LEMMA ScanChannels ==
  ASSUME NEW d, NEW meta, NEW junk, AnsArgs(d, meta, junk)
  PROVE  /\ Len(d.channel_ids) \in Nat
         /\ Indices(d.channel_ids) = 1..Len(d.channel_ids)
         /\ \A c \in Indices(d.channel_ids) :
               /\ ScanMeta(d, meta, c) \in ChannelType
               /\ BlocksRead(d, meta, c) \in Nat
<1>1. d.channel_ids \in Seq(Byte) /\ d.mcu_h \in Nat /\ d.mcu_w \in Nat
  BY DEF AnsArgs, ImageDataType
<1>2. Len(d.channel_ids) \in Nat /\ Indices(d.channel_ids) = 1..Len(d.channel_ids)
  BY <1>1, LenProperties, SMTT(30) DEF Indices
<1>3. \A c \in Indices(d.channel_ids) : ScanMeta(d, meta, c) \in ChannelType
  BY GetMetaType, SMTT(30) DEF AnsArgs, StoreOfFrame, ScanMeta
<1>4. \A c \in Indices(d.channel_ids) : BlocksRead(d, meta, c) \in Nat
  <2> TAKE c \in Indices(d.channel_ids)
  <2>1. ScanMeta(d, meta, c).h \in Nat /\ ScanMeta(d, meta, c).v \in Nat
    BY <1>3 DEF ChannelType, Nibble
  <2>2. QED
    BY <1>1, <2>1, SMTT(30) DEF BlocksRead
<1>5. QED
  BY <1>2, <1>3, <1>4, SMTT(30)

\* Every index the faster GetAns's upsampling loop writes for a scan
\* channel lies in the MCU buffer of 64 * h_max * v_max samples, whatever
\* the out-of-bounds reads returned, provided no factor is zero.
LEMMA WrittenInBuffer ==
  ASSUME NEW d, NEW meta, NEW junk, AnsArgs(d, meta, junk), ~ZeroFactor(d, meta),
         NEW c \in Indices(d.channel_ids)
  PROVE  WrittenCells(d, meta, junk, c) \subseteq 0..(GetAns(d, meta, junk).bufsize - 1)
<1> DEFINE n  == Len(d.channel_ids)
           cm == ScanMeta(d, meta, c)
           V  == RunningMax(meta, junk, "v", n)
           H  == RunningMax(meta, junk, "h", n)
           Vc == RunningMax(meta, junk, "v", c)
           Hc == RunningMax(meta, junk, "h", c)
<1>1. n \in Nat /\ c \in 1..n /\ cm \in ChannelType
  BY ScanChannels, SMTT(30)
<1>2. cm.v \in Nat \ {0} /\ cm.h \in Nat \ {0}
  BY <1>1, SMTT(30) DEF ZeroFactor, ChannelType, Nibble
<1>3. /\ V \in Nat /\ H \in Nat /\ Vc \in Nat /\ Hc \in Nat
      /\ Vc <= V /\ Hc <= H
  <2>1. junk \in [1..n -> [h: Junk, v: Junk]] /\ meta \in MetaType
    BY ScanChannels DEF AnsArgs
  <2>2. c \in 0..n /\ n \in 0..n
    BY <1>1
  <2>3. /\ Vc \in Byte /\ Vc <= V
        /\ Hc \in Byte /\ Hc <= H
        /\ V \in Byte /\ H \in Byte
    BY <1>1, <2>1, <2>2, RunningMaxProps, SMTT(30)
  <2>4. QED
    BY <2>3, ByteNat, ZenonT(30)
<1>4. GetAns(d, meta, junk).bufsize = 64 * H * V
  BY SMTT(30) DEF GetAns
<1> DEFINE s == Scaling(d, meta, junk, c)
<1>5. s.v = Vc \div cm.v /\ s.h = Hc \div cm.h
  BY DEF Scaling
<1>6. Offsets(cm.v, s.v) \subseteq 0..(8 * V - 1)
  <2>1. Offsets(cm.v, s.v) \subseteq 0..(8 * Vc - 1)
    BY <1>2, <1>3, <1>5, OffsetsBound, ZenonT(30)
  <2>2. 0..(8 * Vc - 1) \subseteq 0..(8 * V - 1)
    BY <1>3, SMTT(30)
  <2>3. QED
    BY <2>1, <2>2, ZenonT(30)
<1>7. Offsets(cm.h, s.h) \subseteq 0..(8 * H - 1)
  <2>1. Offsets(cm.h, s.h) \subseteq 0..(8 * Hc - 1)
    BY <1>2, <1>3, <1>5, OffsetsBound, ZenonT(30)
  <2>2. 0..(8 * Hc - 1) \subseteq 0..(8 * H - 1)
    BY <1>3, SMTT(30)
  <2>3. QED
    BY <2>1, <2>2, ZenonT(30)
<1>8. SUFFICES ASSUME NEW w \in WrittenCells(d, meta, junk, c)
               PROVE  w \in 0..(64 * H * V - 1)
  BY <1>4, ZenonT(30)
<1>9. PICK r \in Offsets(cm.v, s.v), x \in Offsets(cm.h, s.h) : w = r * (8 * H) + x
  BY SMTT(30) DEF WrittenCells
<1>10. r \in 0..(8 * V - 1) /\ x \in 0..(8 * H - 1)
  BY <1>6, <1>7, ZenonT(30)
<1>11. QED
  BY <1>3, <1>9, <1>10, CellBound, ZenonT(30)

\* The pixels either GetAns sets, and the samples the baseline one writes,
\* are pixels of the frame: every set is cut to the image.
LEMMA WithinImage ==
  ASSUME NEW d, NEW meta, NEW junk, AnsArgs(d, meta, junk)
  PROVE  /\ ImagePixels(meta) \subseteq Word \X Word
         /\ PixelsSet(d, meta, junk) \subseteq ImagePixels(meta)
         /\ \A c \in Indices(d.channel_ids) :
               BaselineSamples(d, meta, junk, c) \subseteq ImagePixels(meta)
<1>1. meta.height \in Word /\ meta.width \in Word
  BY DEF AnsArgs, MetaType
<1>2. ASSUME NEW k \in Word PROVE 0..(k - 1) \subseteq Word
  <2> SUFFICES ASSUME NEW x \in 0..(k - 1) PROVE x \in Word
    OBVIOUS
  <2>1. QED
    BY DEF Word
<1>3. ImagePixels(meta) \subseteq Word \X Word
  <2>1. 0..(meta.height - 1) \subseteq Word /\ 0..(meta.width - 1) \subseteq Word
    BY <1>1, <1>2, SMTT(30)
  <2>2. QED
    BY <2>1, Zenon DEF ImagePixels
<1>4. PixelsSet(d, meta, junk) \subseteq ImagePixels(meta)
  BY SMT DEF PixelsSet
<1>5. \A c \in Indices(d.channel_ids) :
         BaselineSamples(d, meta, junk, c) \subseteq ImagePixels(meta)
  <2> TAKE c \in Indices(d.channel_ids)
  <2>1. CASE ScanMeta(d, meta, c).v = 0 \/ ScanMeta(d, meta, c).h = 0
    BY <2>1 DEF BaselineSamples
  <2>2. CASE ~(ScanMeta(d, meta, c).v = 0 \/ ScanMeta(d, meta, c).h = 0)
    BY <2>2, Zenon DEF BaselineSamples
  <2>3. QED
    BY <2>1, <2>2
<1>6. QED
  BY <1>3, <1>4, <1>5

\* A product of naturals, such as GetAns's buffer size, is a natural.
LEMMA NatProduct ==
  ASSUME NEW a \in Nat, NEW b \in Nat
  PROVE  64 * a * b \in Nat
BY SMT

\* What the faster GetAns produces has the type DTypeOK allows.
LEMMA GetAnsType ==
  ASSUME NEW d, NEW meta, NEW junk, AnsArgs(d, meta, junk), ~ZeroFactor(d, meta)
  PROVE  GetAns(d, meta, junk) \in [pixels: SUBSET (Word \X Word), bufsize: Nat,
                                    written: Seq(SUBSET Nat), reads: Seq(Nat)]
<1> DEFINE n == Len(d.channel_ids)
<1>1. n \in Nat /\ Indices(d.channel_ids) = 1..n
  BY ScanChannels, SMTT(30)
<1>2. GetAns(d, meta, junk).bufsize \in Nat
  <2>1. junk \in [1..n -> [h: Junk, v: Junk]] /\ meta \in MetaType /\ n \in 0..n
    BY <1>1, SMTT(30) DEF AnsArgs
  <2>2. RunningMax(meta, junk, "h", n) \in Byte /\ RunningMax(meta, junk, "v", n) \in Byte
    BY <2>1, RunningMaxProps, SMTT(30)
  <2>3. GetAns(d, meta, junk).bufsize =
          64 * RunningMax(meta, junk, "h", n) * RunningMax(meta, junk, "v", n)
    BY DEF GetAns
  <2>4. 64 * RunningMax(meta, junk, "h", n) * RunningMax(meta, junk, "v", n) \in Nat
    <3>1. RunningMax(meta, junk, "h", n) \in Nat /\ RunningMax(meta, junk, "v", n) \in Nat
      BY <2>2, ByteNat, ZenonT(30)
    <3>2. QED
      BY <3>1, NatProduct, SMTT(30)
  <2>5. QED
    BY <2>3, <2>4, SMTT(30)
<1>3. \A c \in 1..n : WrittenCells(d, meta, junk, c) \in SUBSET Nat
  BY <1>1, <1>2, WrittenInBuffer
<1>4. \A c \in 1..n : BlocksRead(d, meta, c) \in Nat
  BY <1>1, ScanChannels
<1>5. PixelsSet(d, meta, junk) \in SUBSET (Word \X Word)
  BY WithinImage, SMTT(30)
<1>6. QED
  BY <1>1, <1>2, <1>3, <1>4, <1>5, SMTT(30) DEF GetAns

\* What the baseline GetAns produces has the type DTypeOK allows.
LEMMA BaselineGetAnsType ==
  ASSUME NEW d, NEW meta, NEW junk, AnsArgs(d, meta, junk)
  PROVE  BaselineGetAns(d, meta, junk) \in
           [pixels: SUBSET (Word \X Word), samples: Seq(SUBSET (Word \X Word)),
            reads: Seq(Nat)]
<1> DEFINE n == Len(d.channel_ids)
<1>1. n \in Nat /\ Indices(d.channel_ids) = 1..n
  BY ScanChannels
<1>2. \A c \in 1..n : BaselineSamples(d, meta, junk, c) \in SUBSET (Word \X Word)
  BY <1>1, WithinImage, SMTT(30)
<1>3. \A c \in 1..n : BlocksRead(d, meta, c) \in Nat
  BY <1>1, ScanChannels, SMTT(30)
<1>4. ImagePixels(meta) \in SUBSET (Word \X Word)
  BY WithinImage, SMTT(30)
<1>5. QED
  BY <1>1, <1>2, <1>3, <1>4, SMTT(30) DEF BaselineGetAns

\* GetAns, in either build, reads of each scan channel exactly the number
\* of blocks ReadImageData decoded for it.
LEMMA ReadsAreBlocks ==
  ASSUME NEW d, NEW meta, NEW junk, AnsArgs(d, meta, junk),
         NEW c \in Indices(d.channel_ids)
  PROVE  /\ GetAns(d, meta, junk).reads[c] = d.blocks[c]
         /\ BaselineGetAns(d, meta, junk).reads[c] = d.blocks[c]
<1>1. d.blocks[c] = BlockCount(meta, d.channel_ids[c])
  BY SMTT(30) DEF AnsArgs, StoreOfFrame
<1>2. d.mcu_h = McuH(meta) /\ d.mcu_w = McuW(meta)
  BY SMTT(30) DEF AnsArgs, StoreOfFrame
<1>3. BlocksRead(d, meta, c) = d.blocks[c]
  BY <1>1, <1>2, SMTT(30) DEF BlocksRead, BlockCount, ScanMeta
<1>4. QED
  BY <1>3, SMTT(30) DEF GetAns, BaselineGetAns

-----------------------------------------------------------------------------
(* The uint16_t MCU starts.                                                *)

\* No frame channel has a larger factor than the frame maximum FactorMax.
LEMMA BelowFrameMax ==
  ASSUME NEW meta \in MetaType, NEW f \in {"h", "v"},
         NEW i \in Indices(meta.channels)
  PROVE  meta.channels[i][f] <= FactorMax(meta, f)
<1> DEFINE S == {meta.channels[j][f] : j \in Indices(meta.channels)}
<1>1. S \in SUBSET Nibble /\ S # {}
  <2>1. \A j \in Indices(meta.channels) : meta.channels[j] \in ChannelType
    BY SeqElems DEF MetaType
  <2>2. QED
    BY <2>1, ZenonT(30) DEF ChannelType
<1>2. FactorMax(meta, f) = SetMax(S)
  BY <1>1, ZenonT(30) DEF FactorMax, SetMax
<1>3. QED
  BY <1>1, <1>2, NibbleSetMax, ZenonT(30)

\* While GetAns's first loop reads only frame channels, its running
\* maxima stay at most the frame's: h_max and v_max are HMax and VMax.
LEMMA RunningWithinFrame ==
  ASSUME NEW meta \in MetaType, NEW junk, NEW f \in {"h", "v"},
         NEW n \in 0..Len(meta.channels)
  PROVE  RunningMax(meta, junk, f, n) \in 0..FactorMax(meta, f)
<1>1. Indices(meta.channels) = 1..Len(meta.channels)
  BY LenProperties DEF MetaType, Indices
<1>2. \A k \in 1..n : FrameChannelAt(meta, junk, k)[f] = meta.channels[k][f]
  BY <1>1, SMTT(30) DEF FrameChannelAt
<1>3. \A k \in 1..n : /\ meta.channels[k][f] \in Nibble
                      /\ meta.channels[k][f] <= FactorMax(meta, f)
  <2> TAKE k \in 1..n
  <2>1. k \in Indices(meta.channels)
    BY <1>1, SMTT(30)
  <2>2. meta.channels[k] \in ChannelType
    BY <2>1, SeqElems DEF MetaType
  <2>3. QED
    BY <2>1, <2>2, BelowFrameMax, ZenonT(30) DEF ChannelType
<1>4. FactorMax(meta, f) \in Nibble
  BY FactorMaxType
<1>5. RunningSet(meta, junk, f, n) \subseteq 0..FactorMax(meta, f)
  <2> SUFFICES ASSUME NEW x \in RunningSet(meta, junk, f, n)
               PROVE  x \in 0..FactorMax(meta, f)
    BY ZenonT(30)
  <2>1. CASE x = 0
    BY <2>1, <1>4, SMTT(30) DEF Nibble
  <2>2. CASE x # 0
    <3>1. PICK k \in 1..n : x = FrameChannelAt(meta, junk, k)[f]
      BY <2>2, ZenonT(30) DEF RunningSet
    <3>2. QED
      BY <3>1, <1>2, <1>3, SMTT(30) DEF Nibble
  <2>3. QED
    BY <2>1, <2>2
<1>6. RunningSet(meta, junk, f, n) \in SUBSET Nibble /\ RunningSet(meta, junk, f, n) # {}
  <2>1. 0..FactorMax(meta, f) \subseteq Nibble
    BY <1>4, SMTT(30) DEF Nibble
  <2>2. 0 \in RunningSet(meta, junk, f, n)
    BY ZenonT(30) DEF RunningSet
  <2>3. QED
    BY <1>5, <2>1, <2>2, ZenonT(30)
<1>7. RunningMax(meta, junk, f, n) \in RunningSet(meta, junk, f, n)
  BY <1>6, NibbleSetMax, ZenonT(30) DEF RunningMax, RunningSet
<1>8. QED
  BY <1>5, <1>7, ZenonT(30)

\* Integer division rounds down: (n \div k) * k never exceeds n.
LEMMA DivBelow ==
  ASSUME NEW n \in Nat, NEW k \in Nat \ {0}
  PROVE  n \div k \in Nat /\ (n \div k) * k <= n
<1>1. n = (n \div k) * k + (n % k) /\ n % k \in 0..(k - 1)
  BY SMTT(30)
<1>2. QED
  BY <1>1, SMTT(30)

\* The number of MCU rows (columns) of McuH (McuW): ceil(size / (8 * fm)).
GridCount(size, fm) == (size + 8 * fm - 1) \div (8 * fm)

\* Every row (column) my of a grid of ceil(size / (8 * fm)) rows of height
\* 8 * fm starts inside the image at my * 8 * vm for any factor vm <= fm.
LEMMA McuStartBound ==
  ASSUME NEW size \in Nat, NEW fm \in Nat \ {0}, NEW vm \in 0..fm,
         NEW my \in 0..(GridCount(size, fm) - 1)
  PROVE  my * 8 * vm \in 0..(size - 1)
<1> DEFINE k == 8 * fm
           q == GridCount(size, fm)
<1>1. k \in Nat \ {0} /\ size + k - 1 \in Nat
  BY SMTT(30)
<1>2. q \in Nat /\ q * k <= size + k - 1
  BY <1>1, DivBelow DEF GridCount
<1>3. my \in Nat /\ my + 1 <= q
  BY <1>2, SMTT(30)
<1>4. (my + 1) * k <= q * k
  BY <1>1, <1>2, <1>3, SMTT(30)
<1>5. my * k <= size - 1
  BY <1>2, <1>4, SMTT(30)
<1>6. my * 8 * vm \in Nat /\ my * 8 * vm <= my * k
  BY <1>3, SMTT(30)
<1>7. QED
  BY <1>5, <1>6, SMTT(30)

\* A value below 2^16 is its own uint16_t.
LEMMA U16Small ==
  ASSUME NEW x \in Nat, x < 65536
  PROVE  U16(x) = x
  BY SMTT(30) DEF U16

\* The image sizes are uint16_t values.
LEMMA WordBound ==
  ASSUME NEW w \in Word
  PROVE  w \in Nat /\ w < 65536
<1>1. 2^16 - 1 = 65535
  BY SMTT(30)
<1>2. QED
  BY <1>1, SMTT(30) DEF Word

\* Hazard at the uint16_t mcu_y_start = mcu_y * mcu_h_sz and mcu_x_start =
\* mcu_x * mcu_w_sz of GetAns: when the scan has no more channels than the
\* frame, so that GetAns's first loop reads no channel out of bounds, every
\* MCU of the grid ReadImageData decoded starts inside the image, and the
\* 16-bit products never wrap, for every image up to 65535 x 65535.
THEOREM McuStartNoWrap ==
  ASSUME NEW meta \in MetaType, HMax(meta) # 0, VMax(meta) # 0, NEW junk,
         NEW n \in 0..Len(meta.channels),
         NEW my \in 0..(McuH(meta) - 1), NEW mx \in 0..(McuW(meta) - 1)
  PROVE  LET vm == RunningMax(meta, junk, "v", n)
             hm == RunningMax(meta, junk, "h", n)
         IN  /\ my * 8 * vm < meta.height /\ U16(my * 8 * vm) = my * 8 * vm
             /\ mx * 8 * hm < meta.width /\ U16(mx * 8 * hm) = mx * 8 * hm
<1> DEFINE vm == RunningMax(meta, junk, "v", n)
           hm == RunningMax(meta, junk, "h", n)
<1>1. /\ meta.height \in Nat /\ meta.height < 65536
      /\ meta.width \in Nat /\ meta.width < 65536
  <2>1. meta.height \in Word /\ meta.width \in Word
    BY ZenonT(30) DEF MetaType
  <2>2. QED
    BY <2>1, WordBound
<1>2. VMax(meta) \in 1..15 /\ HMax(meta) \in 1..15
  BY FactorMaxType, SMTT(30) DEF VMax, HMax, Nibble
<1>3. vm \in 0..VMax(meta) /\ hm \in 0..HMax(meta)
  BY RunningWithinFrame DEF VMax, HMax
<1>4. my \in 0..(GridCount(meta.height, VMax(meta)) - 1)
      /\ mx \in 0..(GridCount(meta.width, HMax(meta)) - 1)
  BY DEF McuH, McuW, GridCount
<1>5. my * 8 * vm \in 0..(meta.height - 1) /\ mx * 8 * hm \in 0..(meta.width - 1)
  <2>1. VMax(meta) \in Nat \ {0} /\ HMax(meta) \in Nat \ {0}
    BY <1>2, SMTT(30)
  <2>2. meta.height \in Nat /\ meta.width \in Nat
    BY <1>1
  <2>3. my * 8 * vm \in 0..(meta.height - 1)
    BY <1>3, <1>4, <2>1, <2>2, McuStartBound, ZenonT(30)
  <2>4. mx * 8 * hm \in 0..(meta.width - 1)
    BY <1>3, <1>4, <2>1, <2>2, McuStartBound, ZenonT(30)
  <2>5. QED
    BY <2>3, <2>4
<1>6. /\ my * 8 * vm \in Nat /\ my * 8 * vm < 65536
      /\ mx * 8 * hm \in Nat /\ mx * 8 * hm < 65536
  BY <1>1, <1>5, SMTT(30)
<1>7. U16(my * 8 * vm) = my * 8 * vm /\ U16(mx * 8 * hm) = mx * 8 * hm
  BY <1>6, U16Small
<1>8. QED
  BY <1>1, <1>5, <1>7, SMTT(30)

-----------------------------------------------------------------------------
(* The parser seen from Decode.                                            *)

\* ReadRawImage steps only inside its marker loop, and it leaves the loop
\* for "done" only through a successful EndFile, with a store in hand.
LEMMA LoopSteps ==
  ASSUME Next
  PROVE  /\ phase \in {"start", "segments"}
         /\ phase' = "done" => image_data' # None
<1>1. CASE \E t \in Segments : Read(t) /\ ReadBegin(t)
  BY <1>1, Zenon DEF ReadBegin, Fail
<1>2. CASE \E t \in Segments : Read(t) /\ Segment(t)
  <2>1. PICK t \in Segments : Segment(t)
    BY <1>2, SMTT(30)
  <2>2. phase = "segments"
    BY <2>1 DEF Segment
  <2>3. CASE OnEndFile(t)
    BY <2>2, <2>3, Zenon DEF OnEndFile, Fail, Tables
  <2>4. CASE ~OnEndFile(t)
    <3>1. phase' # "done"
      BY <2>1, <2>4, Zenon DEF Segment, OnMeta, OnComment, OnAPPn, OnQuant,
                              OnHuffman, OnData, OnBadMarker, Fail
    <3>2. QED
      BY <2>2, <3>1, SMTT(30)
  <2>5. QED
    BY <2>3, <2>4, SMTT(30)
<1>3. CASE EndOfStream
  BY <1>3 DEF EndOfStream
<1>4. QED
  BY <1>1, <1>2, <1>3, SMTT(30) DEF Next

-----------------------------------------------------------------------------
(* The inductive invariant.                                                *)

\* ReconstructInv alone is not inductive: a Parse step keeps it only if
\* the parser's types hold (so that it does not step from "done") and a
\* Reconstruct step builds an image that DTypeOK accepts only from a store
\* that matches its frame.
DInv == TypeOK /\ ScanMatchesFrame /\ ReconstructInv

LEMMA DInvInit == DInit => DInv
<1> SUFFICES ASSUME DInit PROVE DInv
  OBVIOUS
<1>1. TypeOK
  BY TypeInit, SMTT(30) DEF DInit
<1>2. ScanMatchesFrame
  BY SMTT(30) DEF DInit, Init, ScanMatchesFrame
<1>3. ReconstructInv
  BY DEF DInit, Init, ReconstructInv, Image
<1>4. QED
  BY <1>1, <1>2, <1>3, SMTT(30) DEF DInv

\* A step of ReadRawImage happens while Decode waits for it, and keeps it
\* waiting with no picture.
LEMMA DInvParse == DInv /\ Parse => DInv'
<1> SUFFICES ASSUME DInv, Parse PROVE DInv'
  OBVIOUS
<1>1. Next /\ outcome' = outcome /\ picture' = picture
  BY DEF Parse
<1>2. TypeOK' /\ ScanMatchesFrame'
  BY <1>1, TypeStep, ScanStep, SMTT(30) DEF DInv
<1>3. phase \in {"start", "segments"} /\ (phase' = "done" => image_data' # None)
  BY <1>1, LoopSteps, SMTT(30)
<1>4. outcome = "running" /\ picture = None
  BY <1>3, SMTT(30) DEF DInv, ReconstructInv
<1>5. ReconstructInv'
  BY <1>1, <1>3, <1>4, SMTT(30) DEF ReconstructInv, Image
<1>6. QED
  BY <1>2, <1>5, SMTT(30) DEF DInv

\* Decode, once ReadRawImage has returned, throws or builds the picture
\* that GetAns of its build computes from the returned store and frame.
LEMMA DInvReconstruct == DInv /\ Reconstruct => DInv'
<1> SUFFICES ASSUME DInv, Reconstruct PROVE DInv'
  OBVIOUS
<1>1. UNCHANGED vars
  BY DEF Reconstruct
<1>2. TypeOK' /\ ScanMatchesFrame'
  BY <1>1, TypeStep, ScanStep, SMTT(30) DEF DInv
<1>3. /\ phase = "done" /\ phase' = "done"
      /\ image_data # None /\ image_data' = image_data
      /\ metadata' = metadata /\ variant' = variant
      /\ picture = None
  BY <1>1, SMTT(30) DEF Reconstruct, DInv, ReconstructInv, vars
<1> DEFINE J == [Indices(image_data.channel_ids) -> [h: Junk, v: Junk]]
<1>4. ReconstructInv'
  <2>1. CASE outcome' = "error" /\ UNCHANGED picture
    BY <1>3, <2>1, SMTT(30) DEF ReconstructInv, Image
  <2>2. CASE /\ variant = "faster" /\ ZeroFactor(image_data, metadata)
             /\ outcome' = "crash" /\ UNCHANGED picture
    BY <1>3, <2>2, SMTT(30) DEF ReconstructInv, Image
  <2>3. CASE /\ variant = "faster" /\ ~ZeroFactor(image_data, metadata)
             /\ outcome' = "image"
             /\ \E junk \in J : picture' = GetAns(image_data, metadata, junk)
    BY <1>3, <2>3, SMTT(30) DEF ReconstructInv, Image
  <2>4. CASE /\ variant = "baseline" /\ outcome' = "image"
             /\ \E junk \in J : picture' = BaselineGetAns(image_data, metadata, junk)
    BY <1>3, <2>4, SMTT(30) DEF ReconstructInv, Image
  <2>5. QED
    BY <2>1, <2>2, <2>3, <2>4, SMTT(30) DEF Reconstruct
<1>5. QED
  BY <1>2, <1>4 DEF DInv

\* DInv is an invariant of the decoder.
LEMMA DInvStep == DInv /\ [DNext]_dvars => DInv'
<1> SUFFICES ASSUME DInv, [DNext]_dvars PROVE DInv'
  OBVIOUS
<1>1. CASE Parse
  BY <1>1, DInvParse, SMTT(30)
<1>2. CASE Reconstruct
  BY <1>2, DInvReconstruct, SMTT(30)
<1>3. CASE UNCHANGED dvars
  <2>1. UNCHANGED vars /\ outcome' = outcome /\ picture' = picture
    BY <1>3, SMTT(30) DEF dvars
  <2>2. TypeOK' /\ ScanMatchesFrame'
    BY <2>1, TypeStep, ScanStep, SMTT(30) DEF DInv
  <2>3. ReconstructInv'
    BY <2>1, SMTT(30) DEF DInv, ReconstructInv, Image, vars
  <2>4. QED
    BY <2>2, <2>3, SMTT(30) DEF DInv
<1>4. QED
  BY <1>1, <1>2, <1>3, SMTT(30) DEF DNext

-----------------------------------------------------------------------------
(* The invariants of the decoder runs.                                     *)

\* A decoded picture is GetAns of its build applied to a store that
\* matches its frame, for some choice of the out-of-bounds reads.
LEMMA PictureOfImage ==
  ASSUME DInv, Image
  PROVE  \E junk \in [Indices(image_data.channel_ids) -> [h: Junk, v: Junk]] :
            /\ AnsArgs(image_data, metadata, junk)
            /\ \/ /\ variant = "faster" /\ ~ZeroFactor(image_data, metadata)
                  /\ picture = GetAns(image_data, metadata, junk)
               \/ variant = "baseline" /\ picture = BaselineGetAns(image_data, metadata, junk)
<1>1. phase = "done" /\ image_data # None
  BY DEF DInv, ReconstructInv, Image
<1>2. metadata # None /\ StoreOfFrame(image_data, metadata)
  BY <1>1, SMTT(30) DEF DInv, ScanMatchesFrame
<1>3. image_data \in ImageDataType /\ metadata \in MetaType
  BY <1>1, <1>2, SMTT(30) DEF DInv, TypeOK
<1>4. PICK junk \in [Indices(image_data.channel_ids) -> [h: Junk, v: Junk]] :
         \/ /\ variant = "faster" /\ ~ZeroFactor(image_data, metadata)
            /\ picture = GetAns(image_data, metadata, junk)
         \/ variant = "baseline" /\ picture = BaselineGetAns(image_data, metadata, junk)
  BY DEF DInv, ReconstructInv
<1>5. QED
  BY <1>2, <1>3, <1>4, SMTT(30) DEF AnsArgs

\* The decoder's state, the picture included, keeps its types.
LEMMA DInvTyped == DInv => DTypeOK
<1> SUFFICES ASSUME DInv PROVE DTypeOK
  BY SMTT(30)
<1>1. CASE ~Image
  BY <1>1, SMTT(30) DEF DInv, ReconstructInv, Image, DTypeOK
<1>2. CASE Image
  <2>1. PICK junk \in [Indices(image_data.channel_ids) -> [h: Junk, v: Junk]] :
            /\ AnsArgs(image_data, metadata, junk)
            /\ \/ /\ variant = "faster" /\ ~ZeroFactor(image_data, metadata)
                  /\ picture = GetAns(image_data, metadata, junk)
               \/ variant = "baseline" /\ picture = BaselineGetAns(image_data, metadata, junk)
    BY <1>2, PictureOfImage, SMTT(30)
  <2>2. CASE variant = "faster"
    BY <2>1, <2>2, GetAnsType, SMTT(30) DEF DInv, ReconstructInv, DTypeOK
  <2>3. CASE variant = "baseline"
    BY <2>1, <2>3, BaselineGetAnsType, SMTT(30) DEF DInv, ReconstructInv, DTypeOK
  <2>4. QED
    BY <2>1, <2>2, <2>3, SMTT(30)
<1>3. QED
  BY <1>1, <1>2, SMTT(30)

\* Decode never reads a block past the end of a channel's matrix nor
\* leaves a decoded block unused (checked by the runs as BlockReadsMatch).
LEMMA DInvReads == DInv => BlockReadsMatch
<1> SUFFICES ASSUME DInv, Image,
                    NEW c \in Indices(image_data.channel_ids)
             PROVE  picture.reads[c] = image_data.blocks[c]
  BY SMTT(30) DEF BlockReadsMatch
<1>1. PICK junk \in [Indices(image_data.channel_ids) -> [h: Junk, v: Junk]] :
          /\ AnsArgs(image_data, metadata, junk)
          /\ \/ picture = GetAns(image_data, metadata, junk)
             \/ picture = BaselineGetAns(image_data, metadata, junk)
  BY PictureOfImage, SMTT(30)
<1>2. QED
  BY <1>1, ReadsAreBlocks, SMTT(30)

\* The faster GetAns writes inside its MCU buffers.
LEMMA DInvBuffer == DInv => BufferWritesInBounds
<1> SUFFICES ASSUME DInv, Image, variant = "faster",
                    NEW c \in Indices(image_data.channel_ids)
             PROVE  picture.written[c] \subseteq 0..(picture.bufsize - 1)
  BY SMTT(30) DEF BufferWritesInBounds
<1>1. PICK junk \in [Indices(image_data.channel_ids) -> [h: Junk, v: Junk]] :
          /\ AnsArgs(image_data, metadata, junk)
          /\ ~ZeroFactor(image_data, metadata)
          /\ picture = GetAns(image_data, metadata, junk)
  BY PictureOfImage, SMTT(30)
<1>2. picture.written[c] = WrittenCells(image_data, metadata, junk, c)
  BY <1>1, SMTT(30) DEF GetAns
<1>3. QED
  BY <1>1, <1>2, WrittenInBuffer, SMTT(30)

-----------------------------------------------------------------------------
(* Theorems.                                                               *)

\* Decode, in both builds, keeps the parser's state and its picture typed:
\* the picture is None or the record of the build's GetAns.
THEOREM DecoderTypeCorrect == DSpec => []DTypeOK
BY DInvInit, DInvStep, DInvTyped, PTL DEF DSpec

\* GetAns, in both builds, reads from each scan channel's
\* channel_matrix exactly the blocks ReadImageData pushed for it.
THEOREM BlocksConsumed == DSpec => []BlockReadsMatch
BY DInvInit, DInvStep, DInvReads, PTL DEF DSpec

\* Every write of the faster GetAns's upsampling loop lands inside the
\* MCU buffer of 64 * h_max * v_max samples it allocates.
THEOREM BufferBounds == DSpec => []BufferWritesInBounds
BY DInvInit, DInvStep, DInvBuffer, PTL DEF DSpec

====
