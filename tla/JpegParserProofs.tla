-------------------------- MODULE JpegParserProofs --------------------------
(***************************************************************************)
(* Proofs about the segment parser, for every set of segments and every   *)
(* bound: the type invariant, and that the coefficient store always       *)
(* matches the frame header reconstruction will use (ScanMatchesFrame).   *)
(***************************************************************************)
EXTENDS JpegParser, WellFoundedInduction, SequenceTheorems, TLAPS

-----------------------------------------------------------------------------
(* Lemmas about the helpers.                                               *)

\* Every non-empty set of naturals has a least element.
LEMMA NatHasLeast ==
  ASSUME NEW T \in SUBSET Nat, T # {}
  PROVE  \E x \in T : \A y \in T : x <= y
<1>1. \E x \in T : \A y \in T : ~(<<y, x>> \in OpToRel(<, Nat))
  BY NatLessThanWellFounded, WFMin, ZenonT(30)
<1>2. \A x, y \in Nat : (<<y, x>> \in OpToRel(<, Nat)) <=> y < x
  BY Zenon DEF OpToRel
<1>3. PICK x \in T : \A y \in T : ~(<<y, x>> \in OpToRel(<, Nat))
  BY <1>1, Zenon
<1>4. \A y \in T : ~(y < x)
  BY <1>2, <1>3, Zenon
<1>5. QED
  BY <1>4

\* h_max and v_max are nibbles: the maximum of the factors exists.
LEMMA FactorMaxType ==
  ASSUME NEW meta \in MetaType, NEW f \in {"h", "v"}
  PROVE  FactorMax(meta, f) \in Nibble
<1> DEFINE S == {meta.channels[i][f] : i \in Indices(meta.channels)}
<1>1. S \subseteq Nibble
  <2>1. \A i \in Indices(meta.channels) : meta.channels[i] \in ChannelType
    BY DEF MetaType, Indices
  <2>2. QED
    BY <2>1 DEF ChannelType
<1>2. CASE S = {}
  BY <1>2, SMTT(30) DEF FactorMax, Nibble
<1>3. CASE S # {}
  <2> DEFINE T == {15 - x : x \in S}
  <2>1. T \in SUBSET Nat /\ T # {}
    BY <1>1, <1>3 DEF Nibble
  <2>2. PICK y \in T : \A z \in T : y <= z
    BY <2>1, NatHasLeast, ZenonT(30)
  <2>3. PICK m \in S : y = 15 - m
    OBVIOUS
  <2>4. \A x \in S : x <= m
    <3> TAKE x \in S
    <3>1. 15 - x \in T
      OBVIOUS
    <3>2. y <= 15 - x
      BY <3>1, <2>2, SMTT(30)
    <3>3. QED
      BY <3>2, <2>3, <1>1, SMTT(30) DEF Nibble
  <2>5. (CHOOSE m2 \in S : \A x \in S : x <= m2) \in S
    BY <2>4, SMTT(30)
  <2>6. QED
    BY <1>1, <1>3, <2>5, ZenonT(30) DEF FactorMax
<1>4. QED
  BY <1>2, <1>3

\* GetMetaByChannelId returns a channel of the frame when the id occurs.
LEMMA GetMetaType ==
  ASSUME NEW meta \in MetaType, NEW id, HasChannel(meta, id)
  PROVE  GetMetaByChannelId(meta, id) \in ChannelType
<1> DEFINE ch == meta.channels
           T == {i \in Indices(ch) : ch[i].channel_id = id}
<1>1. ch \in Seq(ChannelType)
  BY DEF MetaType
<1>2. T \in SUBSET Nat /\ T # {}
  BY <1>1 DEF HasChannel, Indices
<1>3. PICK i0 \in T : \A y \in T : i0 <= y
  BY <1>2, NatHasLeast, ZenonT(30)
<1>4. /\ ch[i0].channel_id = id
      /\ \A j \in 1..(i0 - 1) : ch[j].channel_id # id
  BY <1>1, <1>3 DEF Indices
<1>5. \E i \in Indices(ch) : /\ ch[i].channel_id = id
                             /\ \A j \in 1..(i - 1) : ch[j].channel_id # id
  BY <1>3, <1>4
<1>6. (CHOOSE i \in Indices(ch) : /\ ch[i].channel_id = id
                                  /\ \A j \in 1..(i - 1) : ch[j].channel_id # id)
        \in Indices(ch)
  BY <1>5
<1>7. \A i \in Indices(ch) : ch[i] \in ChannelType
  BY <1>1, SMTT(30) DEF Indices
<1>8. QED
  BY <1>6, <1>7, ZenonT(30) DEF GetMetaByChannelId

\* Frame dimensions are naturals.
LEMMA WordNat == Word \subseteq Nat
BY DEF Word

\* Every element of a sequence belongs to its element set.
LEMMA SeqElems ==
  ASSUME NEW S, NEW s \in Seq(S)
  PROVE  \A i \in Indices(s) : s[i] \in S
BY LenProperties DEF Indices

\* The reader of a marker sees the record of its kind.
LEMMA SegmentKinds ==
  ASSUME NEW t \in SegmentType
  PROVE  /\ t.kind = "COM" => t \in ComSegment
         /\ t.kind = "DQT" => t \in DqtSegment
         /\ t.kind = "DHT" => t \in DhtSegment
         /\ t.kind = "SOF" => t \in SofSegment
         /\ t.kind = "SOS" => t \in SosSegment
BY DEF SegmentType, MarkerOnlySegment, AppSegment, ComSegment, DqtSegment,
       DhtSegment, SofSegment, SosSegment

\* A scan that ReadImageData accepts yields a well-typed coefficient store:
\* the MCU grid and the block counts are naturals, since the maxima are
\* non-zero and every scan channel is found in the frame.
LEMMA ReadImageDataType ==
  ASSUME NEW t \in SosSegment, NEW meta \in MetaType, ReadImageDataOk(t, meta)
  PROVE  ReadImageData(t, meta) \in ImageDataType
<1>1. t.comps \in Seq([channel_id: Byte, dc_id: Nibble, ac_id: Nibble])
  BY DEF SosSegment
<1>2. HMax(meta) \in 1..15 /\ VMax(meta) \in 1..15
  BY FactorMaxType DEF ReadImageDataOk, HMax, VMax, Nibble
<1>3. McuH(meta) \in Nat /\ McuW(meta) \in Nat
  <2>1. meta.height \in Word /\ meta.width \in Word
    BY Zenon DEF MetaType
  <2>2. meta.height \in Nat /\ meta.width \in Nat
    BY <2>1, WordNat, ZenonT(30)
  <2>3. \A a \in Nat, f \in 1..15 : (a + 8 * f - 1) \div (8 * f) \in Nat
    <3> TAKE a \in Nat, f \in 1..15
    <3>1. a + 8 * f - 1 \in Nat /\ 8 * f \in Nat \ {0}
      OBVIOUS
    <3>2. QED
      BY <3>1
  <2>4. QED
    BY <1>2, <2>2, <2>3 DEF McuH, McuW
<1>4. \A c \in Indices(t.comps) :
         GetMetaByChannelId(meta, t.comps[c].channel_id) \in ChannelType
  BY GetMetaType DEF ReadImageDataOk
<1>5. \A c \in Indices(t.comps) : BlockCount(meta, t.comps[c].channel_id) \in Nat
  BY <1>3, <1>4 DEF BlockCount, ChannelType, Nibble
<1>6. /\ Len(t.comps) \in Nat
      /\ Indices(t.comps) = 1..Len(t.comps)
      /\ \A c \in Indices(t.comps) : t.comps[c].channel_id \in Byte
  <2>1. Len(t.comps) \in Nat /\ Indices(t.comps) = 1..Len(t.comps)
    BY <1>1, LenProperties DEF Indices
  <2>2. \A c \in Indices(t.comps) :
           t.comps[c] \in [channel_id: Byte, dc_id: Nibble, ac_id: Nibble]
    BY <1>1, SeqElems, ZenonT(30)
  <2>3. QED
    BY <2>1, <2>2
<1>7. [c \in Indices(t.comps) |-> t.comps[c].channel_id] \in Seq(Byte)
  BY <1>6
<1>8. [c \in Indices(t.comps) |-> BlockCount(meta, t.comps[c].channel_id)] \in Seq(Nat)
  BY <1>5, <1>6
<1>9. QED
  BY <1>3, <1>7, <1>8, SMTT(30) DEF ReadImageData, ImageDataType

-----------------------------------------------------------------------------
(* Type correctness.                                                       *)

\* The initial state is well typed.
LEMMA TypeInit == Init => TypeOK
<1>1. 0 \in 0..MaxReads
  BY MaxReadsAssumption
<1>2. QED
  BY <1>1, Zenon DEF Init, TypeOK

\* Every step of the parser keeps the types.
LEMMA TypeStep == TypeOK /\ [Next]_vars => TypeOK'
<1> SUFFICES ASSUME TypeOK, [Next]_vars PROVE TypeOK'
  OBVIOUS
<1>0. /\ metadata \in MetaType \cup {None}
      /\ quantum_tables \subseteq Nibble
      /\ huffman_trees \subseteq Nibble \X BOOLEAN
  BY DEF TypeOK
<1>1. ASSUME NEW t \in Segments, Read(t)
      PROVE  /\ reads' \in 0..MaxReads /\ seg' \in Segments \cup {None}
             /\ eof' \in BOOLEAN /\ variant' \in Variants
  BY <1>1, MaxReadsAssumption DEF Read, TypeOK
<1>2. ASSUME NEW t \in Segments, Read(t), ReadBegin(t) PROVE TypeOK'
  BY <1>1, <1>2, Zenon DEF TypeOK, ReadBegin, Fail, Tables
<1>3. ASSUME NEW t \in Segments, Read(t), OnMeta(t) PROVE TypeOK'
  <2>1. t \in SofSegment
    BY <1>3, SegmentsAssumption, SegmentKinds, SMTT(30) DEF OnMeta
  <2>2. ReadImageMeta(t) \in MetaType
    BY <2>1 DEF SofSegment, ReadImageMeta, MetaType
  <2>3. QED
    BY <1>1, <1>3, <2>2, Zenon DEF TypeOK, OnMeta, Fail, Tables
<1>4. ASSUME NEW t \in Segments, Read(t), OnComment(t) PROVE TypeOK'
  <2>1. t \in ComSegment
    BY <1>4, SegmentsAssumption, SegmentKinds DEF OnComment
  <2>2. t.text \in Texts
    BY <2>1 DEF ComSegment
  <2>3. QED
    BY <1>1, <1>4, <2>2, Zenon DEF TypeOK, OnComment, Fail, Tables
<1>5. ASSUME NEW t \in Segments, Read(t), OnAPPn(t) PROVE TypeOK'
  BY <1>1, <1>5, Zenon DEF TypeOK, OnAPPn, Fail, Tables
<1>6. ASSUME NEW t \in Segments, Read(t), OnQuant(t) PROVE TypeOK'
  <2>1. t \in DqtSegment
    BY <1>6, SegmentsAssumption, SegmentKinds DEF OnQuant
  <2>2. t.tables \in Seq([pq: Nibble, id: Nibble])
    BY <2>1 DEF DqtSegment
  <2>3. \A i \in Indices(t.tables) : QuantId(t.tables[i]) \in Nibble
    <3> TAKE i \in Indices(t.tables)
    <3>1. t.tables[i] \in [pq: Nibble, id: Nibble]
      BY <2>2, SeqElems, ZenonT(30)
    <3>2. QED
      BY <3>1 DEF QuantId
  <2>4. \/ quantum_tables' = quantum_tables
        \/ quantum_tables' = quantum_tables \cup
                               {QuantId(t.tables[i]) : i \in Indices(t.tables)}
    BY <1>6 DEF OnQuant, Fail, Tables, Indices
  <2>5. quantum_tables' \subseteq Nibble
    BY <1>0, <2>3, <2>4
  <2>6. QED
    BY <1>1, <1>6, <2>5, Zenon DEF TypeOK, OnQuant, Fail, Tables
<1>7. ASSUME NEW t \in Segments, Read(t), OnHuffman(t) PROVE TypeOK'
  <2>1. t \in DhtSegment
    BY <1>7, SegmentsAssumption, SegmentKinds DEF OnHuffman
  <2>2. t.tables \in Seq([tc: Nibble, id: Nibble, buildok: BOOLEAN])
    BY <2>1 DEF DhtSegment
  <2>3. \A i \in Indices(t.tables) : HuffmanKey(t.tables[i]) \in Nibble \X BOOLEAN
    <3> TAKE i \in Indices(t.tables)
    <3>1. t.tables[i] \in [tc: Nibble, id: Nibble, buildok: BOOLEAN]
      BY <2>2, SeqElems, ZenonT(30)
    <3>2. QED
      BY <3>1, ZenonT(30) DEF HuffmanKey
  <2>4. \/ huffman_trees' = huffman_trees
        \/ huffman_trees' = huffman_trees \cup
                              {HuffmanKey(t.tables[i]) : i \in Indices(t.tables)}
    BY <1>7 DEF OnHuffman, Fail, Tables, Indices
  <2>5. huffman_trees' \subseteq Nibble \X BOOLEAN
    BY <1>0, <2>3, <2>4
  <2>6. QED
    BY <1>1, <1>7, <2>5, Zenon DEF TypeOK, OnHuffman, Fail, Tables
<1>8. ASSUME NEW t \in Segments, Read(t), OnData(t) PROVE TypeOK'
  <2>1. CASE /\ metadata # None /\ ReadImageDataOk(t, metadata)
             /\ image_data' = ReadImageData(t, metadata)
             /\ UNCHANGED <<phase, metadata, quantum_tables, huffman_trees, comment>>
    <3>1. t \in SosSegment /\ metadata \in MetaType
      BY <1>0, <1>8, <2>1, SegmentsAssumption, SegmentKinds, SMTT(30) DEF OnData
    <3>2. ReadImageData(t, metadata) \in ImageDataType
      BY <2>1, <3>1, ReadImageDataType, SMTT(30)
    <3>3. QED
      BY <1>1, <1>8, <2>1, <3>2, Zenon DEF TypeOK
  <2>2. CASE phase' = "crash" /\ UNCHANGED Tables
    BY <1>1, <1>8, <2>2, Zenon DEF TypeOK, Tables
  <2>3. CASE Fail
    BY <1>1, <1>8, <2>3, Zenon DEF TypeOK, Fail, Tables
  <2>4. QED
    BY <1>8, <2>1, <2>2, <2>3 DEF OnData
<1>9. ASSUME NEW t \in Segments, Read(t), OnBadMarker(t) PROVE TypeOK'
  BY <1>1, <1>9, Zenon DEF TypeOK, OnBadMarker, Fail, Tables
<1>10. ASSUME NEW t \in Segments, Read(t), OnEndFile(t) PROVE TypeOK'
  BY <1>1, <1>10, Zenon DEF TypeOK, OnEndFile, Fail, Tables
<1>11. CASE EndOfStream
  BY <1>11, Zenon DEF TypeOK, EndOfStream
<1>12. CASE UNCHANGED vars
  BY <1>12, Zenon DEF TypeOK, vars
<1>13. QED
  BY <1>2, <1>3, <1>4, <1>5, <1>6, <1>7, <1>8, <1>9, <1>10, <1>11, <1>12
     DEF Next, Segment

\* Every variable keeps its type: in particular the MCU grid and the block
\* counts are naturals, which needs h_max, v_max and the channel lookup.
THEOREM TypeCorrect == Spec => []TypeOK
BY TypeInit, TypeStep, PTL DEF Spec

-----------------------------------------------------------------------------
(* The coefficient store matches the frame.                                *)

\* Only two steps change metadata or image_data: a first SOF that is read
\* successfully, and a scan that ReadImageData accepts against the current
\* metadata.  Every other step, failures included, leaves both alone.
LEMMA MetaDataSteps ==
  ASSUME [Next]_vars
  PROVE  \/ metadata' = metadata /\ image_data' = image_data
         \/ metadata = None /\ image_data' = image_data
         \/ \E t \in Segments :
               /\ metadata # None /\ ReadImageDataOk(t, metadata)
               /\ image_data' = ReadImageData(t, metadata)
               /\ metadata' = metadata
<1>1. ASSUME NEW t \in Segments, ReadBegin(t) \/ OnComment(t) \/ OnAPPn(t)
             \/ OnQuant(t) \/ OnHuffman(t) \/ OnBadMarker(t) \/ OnEndFile(t)
      PROVE  metadata' = metadata /\ image_data' = image_data
  BY <1>1 DEF ReadBegin, OnComment, OnAPPn, OnQuant, OnHuffman, OnBadMarker,
              OnEndFile, Fail, Tables
<1>2. ASSUME NEW t \in Segments, OnMeta(t)
      PROVE  \/ metadata' = metadata /\ image_data' = image_data
             \/ metadata = None /\ image_data' = image_data
  BY <1>2, SMTT(30) DEF OnMeta, Fail, Tables
<1>3. ASSUME NEW t \in Segments, OnData(t)
      PROVE  \/ metadata' = metadata /\ image_data' = image_data
             \/ /\ metadata # None /\ ReadImageDataOk(t, metadata)
                /\ image_data' = ReadImageData(t, metadata)
                /\ metadata' = metadata
  BY <1>3, SMTT(30) DEF OnData, Fail, Tables
<1>4. QED
  BY <1>1, <1>2, <1>3, SMTT(30) DEF Next, Segment, EndOfStream, vars

\* The scan that ReadImageData accepts was decoded against the frame it
\* was given: its grid and block counts are those of that frame.
LEMMA ScanOfFrame ==
  ASSUME NEW t, NEW meta, meta # None, ReadImageDataOk(t, meta)
  PROVE  LET d == ReadImageData(t, meta) IN
         /\ HMax(meta) # 0 /\ VMax(meta) # 0
         /\ d.mcu_h = McuH(meta)
         /\ d.mcu_w = McuW(meta)
         /\ \A c \in Indices(d.channel_ids) :
               /\ HasChannel(meta, d.channel_ids[c])
               /\ d.blocks[c] = BlockCount(meta, d.channel_ids[c])
<1>1. HMax(meta) # 0 /\ VMax(meta) # 0
  BY DEF ReadImageDataOk
<1>2. Indices(ReadImageData(t, meta).channel_ids) = Indices(t.comps)
  BY SMTT(30) DEF ReadImageData, Indices
<1>3. \A c \in Indices(t.comps) :
         /\ ReadImageData(t, meta).channel_ids[c] = t.comps[c].channel_id
         /\ ReadImageData(t, meta).blocks[c] = BlockCount(meta, t.comps[c].channel_id)
  BY DEF ReadImageData, Indices
<1>4. \A c \in Indices(t.comps) : HasChannel(meta, t.comps[c].channel_id)
  BY DEF ReadImageDataOk
<1>5. QED
  BY <1>1, <1>2, <1>3, <1>4, SMTT(30) DEF ReadImageData

\* Every step of the parser keeps ScanMatchesFrame.
LEMMA ScanStep == ScanMatchesFrame /\ [Next]_vars => ScanMatchesFrame'
<1> SUFFICES ASSUME ScanMatchesFrame, [Next]_vars PROVE ScanMatchesFrame'
  OBVIOUS
<1>1. CASE metadata' = metadata /\ image_data' = image_data
  BY <1>1, SMTT(30) DEF ScanMatchesFrame, StoreOfFrame
<1>2. CASE metadata = None /\ image_data' = image_data
  <2>1. image_data = None
    BY <1>2, SMTT(30) DEF ScanMatchesFrame, StoreOfFrame
  <2>2. QED
    BY <1>2, <2>1, SMTT(30) DEF ScanMatchesFrame, StoreOfFrame
<1>3. CASE \E t \in Segments :
             /\ metadata # None /\ ReadImageDataOk(t, metadata)
             /\ image_data' = ReadImageData(t, metadata)
             /\ metadata' = metadata
  <2>1. PICK t \in Segments :
             /\ metadata # None /\ ReadImageDataOk(t, metadata)
             /\ image_data' = ReadImageData(t, metadata)
             /\ metadata' = metadata
    BY <1>3
  <2>2. QED
    BY <2>1, ScanOfFrame, SMTT(30) DEF ScanMatchesFrame, StoreOfFrame
<1>4. QED
  BY <1>1, <1>2, <1>3, MetaDataSteps, SMTT(30)

\* ScanMatchesFrame holds in every reachable state: the coefficient store
\* ReadRawImage returns is always the one decoded against the final frame
\* header, because the SOF reader refuses a second frame ("Two SOF
\* markers") and ReadImageData decodes against the metadata it is given.
THEOREM ScanConsistent == Spec => []ScanMatchesFrame
<1>1. Init => ScanMatchesFrame
  BY DEF Init, ScanMatchesFrame
<1>2. QED
  BY <1>1, ScanStep, PTL DEF Spec

-----------------------------------------------------------------------------
(* ReadRawImage implements RawImage.                                       *)

\* A reader that throws while the parser is reading is a Stop of RawImage.
LEMMA FailStops ==
  ASSUME phase \in {"start", "segments"}, Fail
  PROVE  Abs!Stop
BY DEF Fail, Tables, RawStatus, Abs!Stop

\* A step that stays in the marker loop and leaves the frame and the store
\* alone is a stuttering step of RawImage.
LEMMA QuietStutters ==
  ASSUME phase \in {"start", "segments"}, phase' \in {"start", "segments"},
         metadata' = metadata, image_data' = image_data
  PROVE  UNCHANGED Abs!avars
BY DEF RawStatus, Abs!avars

\* Every behaviour of the parser, in either build, is a behaviour of
\* RawImage under the mapping RawStatus, metadata, image_data: one frame
\* header, stores decoded against it, a result only with both, nothing
\* after the end.  TypeOK supplies the types of the segments read.
THEOREM Refinement == Spec => ImplementsRawImage
<1>1. Init => Abs!AInit
  BY DEF Init, Abs!AInit, RawStatus
<1>2. TypeOK /\ [Next]_vars => [Abs!ANext]_Abs!avars
  <2> SUFFICES ASSUME TypeOK, [Next]_vars PROVE [Abs!ANext]_Abs!avars
    OBVIOUS
  <2>1. ASSUME NEW t \in Segments, Read(t), ReadBegin(t)
        PROVE  [Abs!ANext]_Abs!avars
    <3>1. phase = "start"
      BY <2>1 DEF ReadBegin
    <3>2. CASE phase' = "segments" /\ UNCHANGED Tables
      BY <3>1, <3>2, QuietStutters, SMTT(30) DEF Tables
    <3>3. CASE Fail
      BY <3>1, <3>3, FailStops, SMTT(30) DEF Abs!ANext
    <3>4. QED
      BY <2>1, <3>2, <3>3, SMTT(30) DEF ReadBegin
  <2>2. ASSUME NEW t \in Segments, Read(t), Segment(t)
        PROVE  [Abs!ANext]_Abs!avars
    <3>1. phase = "segments"
      BY <2>2 DEF Segment
    <3>2. CASE Fail
      BY <3>1, <3>2, FailStops, SMTT(30) DEF Abs!ANext
    <3>3. CASE phase' = phase /\ metadata' = metadata /\ image_data' = image_data
      BY <3>1, <3>3, QuietStutters, SMTT(30)
    <3>4. CASE OnMeta(t) /\ ~Fail
      <4>1. metadata = None /\ metadata' = ReadImageMeta(t)
            /\ UNCHANGED <<phase, image_data>>
        BY <3>4, SMTT(30) DEF OnMeta
      <4>2. t \in SofSegment
        BY <3>4, SegmentsAssumption, SegmentKinds, SMTT(30) DEF OnMeta
      <4>3. ReadImageMeta(t) \in MetaType
        BY <4>2 DEF SofSegment, ReadImageMeta, MetaType
      <4>4. Abs!ReadFrame
        BY <3>1, <4>1, <4>3, SMTT(30) DEF Abs!ReadFrame, RawStatus
      <4>5. QED
        BY <4>4 DEF Abs!ANext
    <3>5. CASE OnData(t) /\ ~Fail /\ phase' # "crash"
      <4>1. /\ metadata # None /\ ReadImageDataOk(t, metadata)
            /\ image_data' = ReadImageData(t, metadata)
            /\ UNCHANGED <<phase, metadata>>
        BY <3>5, SMTT(30) DEF OnData
      <4>2. t \in SosSegment /\ metadata \in MetaType
        BY <3>5, <4>1, SegmentsAssumption, SegmentKinds, SMTT(30) DEF OnData, TypeOK
      <4>3. image_data' # None
        BY <4>1, <4>2, ReadImageDataType, NoneAssumption, SMTT(30)
      <4>4. StoreOfFrame(image_data', metadata)
        BY <4>1, ScanOfFrame, SMTT(30) DEF StoreOfFrame
      <4>5. Abs!ReadScan
        BY <3>1, <4>1, <4>3, <4>4, SMTT(30) DEF Abs!ReadScan, RawStatus
      <4>6. QED
        BY <4>5 DEF Abs!ANext
    <3>6. CASE OnData(t) /\ phase' = "crash"
      <4>1. UNCHANGED Tables
        BY <3>1, <3>6, SMTT(30) DEF OnData, Fail
      <4>2. Abs!Stop
        BY <3>1, <3>6, <4>1, SMTT(30) DEF Tables, RawStatus, Abs!Stop
      <4>3. QED
        BY <4>2, SMTT(30) DEF Abs!ANext
    <3>7. CASE OnEndFile(t) /\ ~Fail
      <4>1. image_data # None /\ metadata # None /\ phase' = "done" /\ UNCHANGED Tables
        BY <3>7, SMTT(30) DEF OnEndFile
      <4>2. Abs!Return
        BY <3>1, <4>1, SMTT(30) DEF Tables, RawStatus, Abs!Return
      <4>3. QED
        BY <4>2 DEF Abs!ANext
    <3>8. CASE OnComment(t) \/ OnAPPn(t) \/ OnQuant(t) \/ OnHuffman(t) \/ OnBadMarker(t)
      <4>1. Fail \/ (phase' = phase /\ metadata' = metadata /\ image_data' = image_data)
        BY <3>8 DEF OnComment, OnAPPn, OnQuant, OnHuffman, OnBadMarker
      <4>2. QED
        BY <3>2, <3>3, <4>1, SMTT(30)
    <3>9. QED
      BY <2>2, <3>2, <3>4, <3>5, <3>6, <3>7, <3>8, SMTT(30) DEF Segment
  <2>3. CASE EndOfStream
    BY <2>3, QuietStutters, SMTT(30) DEF EndOfStream
  <2>4. CASE UNCHANGED vars
    BY <2>4 DEF vars, Abs!avars, RawStatus
  <2>5. QED
    BY <2>1, <2>2, <2>3, <2>4, SMTT(30) DEF Next
<1>3. QED
  BY <1>1, <1>2, TypeCorrect, PTL DEF Spec, ImplementsRawImage, Abs!ASpec

=============================================================================
