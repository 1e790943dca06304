----------------------------- MODULE JpegParser -----------------------------
(***************************************************************************)
(* The segment parser of the decoder: Parser::ReadRawImage and the segment *)
(* readers it dispatches to.  Both builds are modelled: the baseline one  *)
(* (src/jpeg-decoder/baseline/decoder.cpp) and the faster one             *)
(* (src/unnamed/part_001), whose parser is the same code with arrays for  *)
(* maps except that its ReadImageData throws "sampling factor is zero"    *)
(* where the baseline one divides by zero.  variant says which build runs. *)
(*                                                                         *)
(* The byte stream is abstracted to one record per marker: the marker's    *)
(* kind and the fields of its payload that the code branches on.  Every    *)
(* length check of a reader is folded into the field lenok, because each   *)
(* of them ends the decode with the same exception.  A reader either       *)
(* succeeds or throws, and a throw ends the whole decode, so each marker   *)
(* is one action whose failure disjunct moves to phase "error".            *)
(*                                                                         *)
(* BitReader::ReadByte does not check that the read succeeded: once the    *)
(* stream has ended it returns an uninitialized char.  The model lets the  *)
(* stream end at any point (EndOfStream); every marker read after that is  *)
(* garbage, i.e. any segment at all.                                       *)
(***************************************************************************)
EXTENDS Integers, Sequences

CONSTANTS
  Segments,   \* the segments a marker read can return
  Texts,      \* payloads of COM segments
  MaxReads,   \* bound on the number of markers read
  None,       \* the empty std::optional
  Variants    \* the builds: "faster", "baseline"

Byte == 0..(2^8 - 1)    \* uint8_t
Nibble == 0..15
Word == 0..(2^16 - 1)   \* uint16_t

\* ChannelMetadata and ImageMetadata (parsers.h)
ChannelType == [channel_id: Byte, h: Nibble, v: Nibble, quant_id: Byte]
MetaType == [precision: Byte, height: Word, width: Word, channels: Seq(ChannelType)]

\* ImageData: channel ids of the scan, MCU grid, and the number of blocks
\* decoded for each scan channel (channel_matrix[c].size()).
ImageDataType ==
  [channel_ids: Seq(Byte), mcu_h: Nat, mcu_w: Nat, blocks: Seq(Nat)]

\* The segments as the readers see them, one set per marker kind.
MarkerOnlySegment == [kind: {"SOI", "EOI", "Unknown"}]
AppSegment == [kind: {"APP"}, lenok: BOOLEAN]
ComSegment == [kind: {"COM"}, lenok: BOOLEAN, text: Texts]
DqtSegment == [kind: {"DQT"}, lenok: BOOLEAN, tables: Seq([pq: Nibble, id: Nibble])]
DhtSegment == [kind: {"DHT"}, lenok: BOOLEAN,
               tables: Seq([tc: Nibble, id: Nibble, buildok: BOOLEAN])]
SofSegment == [kind: {"SOF"}, lenok: BOOLEAN, precision: Byte, height: Word,
               width: Word, channels: Seq(ChannelType)]
SosSegment == [kind: {"SOS"}, lenok: BOOLEAN,
               comps: Seq([channel_id: Byte, dc_id: Nibble, ac_id: Nibble]),
               ss: Byte, se: Byte, ahal: Byte, entropyok: BOOLEAN]

SegmentType ==
  MarkerOnlySegment \cup AppSegment \cup ComSegment \cup DqtSegment
    \cup DhtSegment \cup SofSegment \cup SosSegment

ASSUME SegmentsAssumption == Segments \subseteq SegmentType
ASSUME MaxReadsAssumption == MaxReads \in Nat
ASSUME VariantsAssumption == Variants \subseteq {"faster", "baseline"}
ASSUME NoneAssumption ==
  None \notin MetaType \cup ImageDataType \cup SegmentType

VARIABLES
  phase,           \* "start", "segments", "done", "error" or "crash"
  metadata,        \* std::optional<ImageMetadata>
  image_data,      \* std::optional<ImageData>
  quantum_tables,  \* ids of the quantization tables read so far
  huffman_trees,   \* <<table_id, is_dc>> of the Huffman trees read so far
  comment,         \* the comment string
  eof,             \* the byte stream has ended
  reads,           \* markers read so far
  seg,             \* the segment read last
  variant          \* the build that runs

vars == <<phase, metadata, image_data, quantum_tables, huffman_trees,
          comment, eof, reads, seg, variant>>

-----------------------------------------------------------------------------
(* Helpers over the metadata.                                              *)

Indices(s) == DOMAIN s

\* uint8_t h_max, v_max: the largest sampling factors, 0 without channels.
FactorMax(meta, f) ==
  LET S == {meta.channels[i][f] : i \in Indices(meta.channels)}
  IN  IF S = {} THEN 0 ELSE CHOOSE m \in S : \A x \in S : x <= m

HMax(meta) == FactorMax(meta, "h")
VMax(meta) == FactorMax(meta, "v")

\* ImageMetadata::GetMetaByChannelId: the first channel with that id.
HasChannel(meta, id) == \E i \in Indices(meta.channels) : meta.channels[i].channel_id = id

GetMetaByChannelId(meta, id) ==
  meta.channels[CHOOSE i \in Indices(meta.channels) :
                  /\ meta.channels[i].channel_id = id
                  /\ \A j \in 1..(i - 1) : meta.channels[j].channel_id # id]

\* The MCU grid of ReadImageData: ceil(height / 8V), ceil(width / 8H).
McuH(meta) == (meta.height + 8 * VMax(meta) - 1) \div (8 * VMax(meta))
McuW(meta) == (meta.width + 8 * HMax(meta) - 1) \div (8 * HMax(meta))

\* Blocks ReadImageData decodes for a scan channel: h * v per MCU.
BlockCount(meta, id) ==
  LET cm == GetMetaByChannelId(meta, id)
  IN  McuH(meta) * McuW(meta) * cm.h * cm.v

-----------------------------------------------------------------------------
(* The segment readers: when each succeeds, and what it returns.           *)

\* ReadImageMeta: the length checks and the zero-dimension check.
ReadImageMetaOk(t) == t.lenok /\ t.height # 0 /\ t.width # 0

ReadImageMeta(t) ==
  [precision |-> t.precision, height |-> t.height, width |-> t.width,
   channels |-> t.channels]

\* Mutant: the table id taken from the whole mask byte, not its low nibble.
QuantIdWholeMask(tb) == 16 * tb.pq + tb.id

\* ReadQuantTable: the table id is the low nibble of the mask byte.
QuantId(tb) == tb.id

\* ReadQuantTable: precision nibble 0 or 1 for every table.
ReadQuantTableOk(t) == t.lenok /\ \A i \in Indices(t.tables) : t.tables[i].pq \in {0, 1}

\* ReadHuffmanTree: every HuffmanTree::Build succeeds; class nibble 0 is DC.
ReadHuffmanTreeOk(t) == t.lenok /\ \A i \in Indices(t.tables) : t.tables[i].buildok

HuffmanKey(tb) == <<tb.id, tb.tc = 0>>

\* The ids of a list of tables are new: not read before and not repeated.
FreshIds(keys, defined) ==
  /\ \A i \in Indices(keys) : keys[i] \notin defined
  /\ \A i, j \in Indices(keys) : i # j => keys[i] # keys[j]

\* ReadImageData up to the h_max/v_max loop: header lengths, referenced
\* trees, Se.
ScanHeaderOk(t) ==
  /\ t.lenok
  /\ \A c \in Indices(t.comps) :
        /\ <<t.comps[c].dc_id, TRUE>> \in huffman_trees
        /\ <<t.comps[c].ac_id, FALSE>> \in huffman_trees
  /\ t.se = 63

\* ReadImageData: the header, non-zero sampling maxima (the faster build's
\* check, or the baseline's divisor), channel lookup, and the
\* entropy-coded blocks.
ReadImageDataOk(t, meta) ==
  /\ ScanHeaderOk(t)
  /\ HMax(meta) # 0 /\ VMax(meta) # 0
  /\ \A c \in Indices(t.comps) : HasChannel(meta, t.comps[c].channel_id)
  /\ t.entropyok

ReadImageData(t, meta) ==
  [channel_ids |-> [c \in Indices(t.comps) |-> t.comps[c].channel_id],
   mcu_h |-> McuH(meta),
   mcu_w |-> McuW(meta),
   blocks |-> [c \in Indices(t.comps) |-> BlockCount(meta, t.comps[c].channel_id)]]

-----------------------------------------------------------------------------
(* Actions.                                                                *)

\* The comment string of a fresh Parser: empty.
NoComment == ""

Init ==
  /\ phase = "start"
  /\ metadata = None
  /\ image_data = None
  /\ quantum_tables = {}
  /\ huffman_trees = {}
  /\ comment = NoComment
  /\ eof = FALSE
  /\ reads = 0
  /\ seg = None
  /\ variant \in Variants

Tables == <<metadata, image_data, quantum_tables, huffman_trees, comment>>

\* A reader threw: the decode ends with an exception.
Fail == phase' = "error" /\ UNCHANGED Tables

\* ReadMarkerType returns the next segment t (garbage once eof holds).
Read(t) ==
  reads < MaxReads /\ reads' = reads + 1 /\ seg' = t /\ UNCHANGED <<eof, variant>>

\* The first marker of ReadRawImage must be SOI.
ReadBegin(t) ==
  /\ phase = "start"
  /\ \/ t.kind = "SOI" /\ phase' = "segments" /\ UNCHANGED Tables
     \/ t.kind # "SOI" /\ Fail

\* Mutant: the "Two SOF markers" check dropped.
OnMetaNoDupCheck(t) ==
  /\ t.kind = "SOF"
  /\ \/ /\ ReadImageMetaOk(t)
        /\ metadata' = ReadImageMeta(t)
        /\ UNCHANGED <<phase, image_data, quantum_tables, huffman_trees, comment>>
     \/ ~ReadImageMetaOk(t) /\ Fail

\* MarkerType::Meta: at most one SOF, then ReadImageMeta.
OnMeta(t) ==
  /\ t.kind = "SOF"
  /\ \/ /\ metadata = None /\ ReadImageMetaOk(t)
        /\ metadata' = ReadImageMeta(t)
        /\ UNCHANGED <<phase, image_data, quantum_tables, huffman_trees, comment>>
     \/ ~(metadata = None /\ ReadImageMetaOk(t)) /\ Fail

\* MarkerType::Comment: ReadComment overwrites the comment.
OnComment(t) ==
  /\ t.kind = "COM"
  /\ \/ /\ t.lenok /\ comment' = t.text
        /\ UNCHANGED <<phase, metadata, image_data, quantum_tables, huffman_trees>>
     \/ ~t.lenok /\ Fail

\* MarkerType::APPn: ReadComment, result discarded.
OnAPPn(t) ==
  /\ t.kind = "APP"
  /\ \/ t.lenok /\ UNCHANGED <<phase, metadata, image_data, quantum_tables,
                               huffman_trees, comment>>
     \/ ~t.lenok /\ Fail

\* MarkerType::Quant: ReadQuantTable, then insert each table, ids unique.
OnQuant(t) ==
  LET ids == [i \in Indices(t.tables) |-> QuantId(t.tables[i])] IN
  /\ t.kind = "DQT"
  /\ \/ /\ ReadQuantTableOk(t) /\ FreshIds(ids, quantum_tables)
        /\ quantum_tables' = quantum_tables \cup {ids[i] : i \in Indices(ids)}
        /\ UNCHANGED <<phase, metadata, image_data, huffman_trees, comment>>
     \/ ~(ReadQuantTableOk(t) /\ FreshIds(ids, quantum_tables)) /\ Fail

\* MarkerType::Huffman: ReadHuffmanTree, then insert each tree, keys unique.
OnHuffman(t) ==
  LET keys == [i \in Indices(t.tables) |-> HuffmanKey(t.tables[i])] IN
  /\ t.kind = "DHT"
  /\ \/ /\ ReadHuffmanTreeOk(t) /\ FreshIds(keys, huffman_trees)
        /\ huffman_trees' = huffman_trees \cup {keys[i] : i \in Indices(keys)}
        /\ UNCHANGED <<phase, metadata, image_data, quantum_tables, comment>>
     \/ ~(ReadHuffmanTreeOk(t) /\ FreshIds(keys, huffman_trees)) /\ Fail

\* The baseline ReadImageData reaches (meta.height + 8 * v_max - 1) /
\* (8 * v_max) with a zero maximum: integer division by zero.
DividesByZero(t) ==
  /\ variant = "baseline" /\ metadata # None /\ ScanHeaderOk(t)
  /\ (HMax(metadata) = 0 \/ VMax(metadata) = 0)

\* MarkerType::Data: metadata first, then ReadImageData and Align.
OnData(t) ==
  /\ t.kind = "SOS"
  /\ \/ /\ metadata # None /\ ReadImageDataOk(t, metadata)
        /\ image_data' = ReadImageData(t, metadata)
        /\ UNCHANGED <<phase, metadata, quantum_tables, huffman_trees, comment>>
     \/ DividesByZero(t) /\ phase' = "crash" /\ UNCHANGED Tables
     \/ /\ ~(metadata # None /\ ReadImageDataOk(t, metadata))
        /\ ~DividesByZero(t)
        /\ Fail

\* MarkerType::BeginFile after the start, or a word that is no marker.
OnBadMarker(t) == t.kind \in {"SOI", "Unknown"} /\ Fail

\* Mutant: the "No image/meta data in file" check dropped.
OnEndFileNoCheck(t) == t.kind = "EOI" /\ phase' = "done" /\ UNCHANGED Tables

\* MarkerType::EndFile ends the loop; image data and metadata must exist.
OnEndFile(t) ==
  /\ t.kind = "EOI"
  /\ \/ /\ image_data # None /\ metadata # None
        /\ phase' = "done" /\ UNCHANGED Tables
     \/ ~(image_data # None /\ metadata # None) /\ Fail

\* One iteration of the marker loop of ReadRawImage.
Segment(t) ==
  /\ phase = "segments"
  /\ \/ OnMeta(t) \/ OnComment(t) \/ OnAPPn(t) \/ OnQuant(t)
     \/ OnHuffman(t) \/ OnData(t) \/ OnBadMarker(t) \/ OnEndFile(t)

\* The input ends; every later read returns garbage.
EndOfStream ==
  /\ ~eof /\ phase \in {"start", "segments"}
  /\ eof' = TRUE
  /\ UNCHANGED <<phase, metadata, image_data, quantum_tables, huffman_trees,
                 comment, reads, seg, variant>>

Next ==
  \/ \E t \in Segments : Read(t) /\ (ReadBegin(t) \/ Segment(t))
  \/ EndOfStream

Spec == Init /\ [][Next]_vars

-----------------------------------------------------------------------------
(* Properties.                                                             *)

TypeOK ==
  /\ phase \in {"start", "segments", "done", "error", "crash"}
  /\ metadata \in MetaType \cup {None}
  /\ image_data \in ImageDataType \cup {None}
  /\ quantum_tables \subseteq Nibble
  /\ huffman_trees \subseteq Nibble \X BOOLEAN
  /\ comment \in Texts \cup {NoComment}
  /\ eof \in BOOLEAN
  /\ reads \in 0..MaxReads
  /\ seg \in Segments \cup {None}
  /\ variant \in Variants

\* The coefficient store handed to reconstruction was decoded against the
\* frame header that reconstruction uses: a scan exists only after the
\* SOF, and its MCU grid and per-channel block counts are those the final
\* metadata gives (ReadRawImage's "Two SOF markers" check, ReadImageData).
StoreOfFrame(d, meta) ==
  /\ HMax(meta) # 0 /\ VMax(meta) # 0
  /\ d.mcu_h = McuH(meta)
  /\ d.mcu_w = McuW(meta)
  /\ \A c \in Indices(d.channel_ids) :
        /\ HasChannel(meta, d.channel_ids[c])
        /\ d.blocks[c] = BlockCount(meta, d.channel_ids[c])

ScanMatchesFrame ==
  image_data # None => metadata # None /\ StoreOfFrame(image_data, metadata)

\* The refinement mapping onto RawImage: the parser is reading until EOI
\* (returned) or an exception or crash (stopped); its frame is metadata
\* and its store image_data.
RawStatus ==
  IF phase \in {"start", "segments"} THEN "reading"
  ELSE IF phase = "done" THEN "returned" ELSE "stopped"

Abs == INSTANCE RawImage WITH status <- RawStatus, frame <- metadata,
                              store <- image_data, Frames <- MetaType,
                              Decoded <- StoreOfFrame

\* ReadRawImage implements the promise of RawImage (spec sections 2-6):
\* one frame header at most ("Two SOF markers"), every scan decoded
\* against it ("No metadata before reading image data"), a result only
\* with both present ("No image/meta data in file"), and nothing changes
\* after it returns or throws.
ImplementsRawImage == Abs!ASpec

\* Spec section 6: end of stream before EOI is fatal.  ReadRawImage must
\* not return an image once BitReader::ReadByte has run out of input.
EndOfStreamFatal == phase = "done" => ~eof

\* Spec sections 3 and 7: a frame whose sample precision is not 8, and a
\* scan whose Ss, Se or Ah/Al are not 0, 63 and 0, are fatal "semantic"
\* errors.  No step stores such a frame (ReadImageMeta) or decodes such a
\* scan (ReadImageData's spectral-selection check).
BaselineProfileEnforced ==
  [][/\ metadata' # metadata => seg'.precision = 8
     /\ image_data' # image_data => seg'.ss = 0 /\ seg'.se = 63 /\ seg'.ahal = 0]_vars
=============================================================================
