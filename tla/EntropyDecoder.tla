---------------------------- MODULE EntropyDecoder ----------------------------
(***************************************************************************)
(* The entropy-coded part of a scan for one channel: Parser::ReadBlock    *)
(* (src/unnamed/part_001) called Blocks times with its prev_dc, over the   *)
(* bit reader of src/jpeg-decoder/faster/decoder.cpp (ReadBits with        *)
(* 0xFF00 unstuffing, ReadBitsSigned), and the Align that ReadRawImage     *)
(* does after the scan.  The baseline build's ReadBlock                     *)
(* (src/jpeg-decoder/baseline/decoder.cpp) is the same loop, except that  *)
(* its GetZigZag walks the diagonals instead of looking up kZigZagMap;     *)
(* variant says which build decodes.                                       *)
(*                                                                         *)
(* ReadFromHuffmanTree walks a tree built by HuffmanTree::Build.  By the   *)
(* properties HuffmanTree checks, that tree is the canonical code of its  *)
(* table and nothing more, so the walk is modelled over the code table: a *)
(* node exists exactly when its path is a prefix of a code.                *)
(***************************************************************************)
EXTENDS Integers, Sequences, SequencesExt

CONSTANTS
  Inputs,    \* the byte streams the scan data may start with
  DcTable,   \* the DC table: code (bit sequence) -> symbol
  AcTable,   \* the AC table: code (bit sequence) -> symbol
  Blocks,    \* ReadBlock calls in the scan (h * v * mcu_h * mcu_w)
  Variants   \* the builds: "faster", "baseline"

Byte == 0..255

\* kBlockSz
BlockSz == 64

ASSUME InputsAssumption == Inputs \subseteq Seq(Byte)

ASSUME TablesAssumption ==
  \A t \in {DcTable, AcTable} :
     /\ DOMAIN t \subseteq Seq({0, 1}) \ {<<>>}
     /\ \A c \in DOMAIN t : t[c] \in Byte

ASSUME BlocksAssumption == Blocks \in Nat

ASSUME VariantsAssumption == Variants \subseteq {"faster", "baseline"}

VARIABLES
  stream,    \* the input as it was when the scan started
  reader,    \* [in: bytes not yet read, buf: buffer_, size: buffer_size_]
  pc,        \* "dc", "ac", "check", "align", "done", "error"
  matrix,    \* ReadBlock's matrix (zig-zag order)
  prev_dc,   \* prev_dc (int16_t)
  out,       \* the blocks ReadBlock returned
  consumed,  \* the bits the reader has returned
  dcsum,     \* the sum of the DC differences, as an integer
  syms,      \* <<run, size, raw bits>> of this block's AC symbols
  variant    \* the build

evars == <<stream, reader, pc, matrix, prev_dc, out, consumed, dcsum, syms, variant>>

-----------------------------------------------------------------------------
(* BitReader.                                                              *)

\* static_cast<int16_t>, modular since C++20.
Int16(x) == ((x + 32768) % 65536) - 32768

Fail == [ok |-> FALSE]

\* Mutant: the byte after 0xFF not skipped.
LoadByteNoUnstuff(r) ==
  IF r.in = <<>> THEN Fail
  ELSE IF Head(r.in) = 255 /\ (Tail(r.in) = <<>> \/ Head(Tail(r.in)) # 0)
    THEN Fail
  ELSE [ok |-> TRUE, r |-> [in |-> Tail(r.in), buf |-> Head(r.in), size |-> 8]]

\* buffer_size_ == 0: read a byte; a 0xFF must be followed by a stuffed
\* 0x00, which is skipped, else "Encountered marker instead of 0xFF".
LoadByte(r) ==
  IF r.in = <<>> THEN Fail                                  \* "EOF"
  ELSE IF Head(r.in) = 255 /\ (Tail(r.in) = <<>> \/ Head(Tail(r.in)) # 0)
    THEN Fail
  ELSE [ok |-> TRUE,
        r  |-> [in   |-> IF Head(r.in) = 255 THEN Tail(Tail(r.in)) ELSE Tail(r.in),
                buf  |-> Head(r.in),
                size |-> 8]]

\* One iteration of ReadBits's loop: the top bit of buffer_, shifted out.
ReadBit(r) ==
  LET l == IF r.size = 0 THEN LoadByte(r) ELSE [ok |-> TRUE, r |-> r]
  IN  IF ~l.ok THEN Fail
      ELSE [ok |-> TRUE, bit |-> (l.r.buf \div 128) % 2,
            r  |-> [l.r EXCEPT !.buf = (@ * 2) % 256, !.size = @ - 1]]

\* ReadBits(n): n bits, most significant first, into a uint16_t.
RECURSIVE ReadBitsLoop(_, _, _)
ReadBitsLoop(r, n, acc) ==
  IF n = 0 THEN [ok |-> TRUE, val |-> acc, r |-> r]
  ELSE LET b == ReadBit(r)
       IN  IF ~b.ok THEN Fail
           ELSE ReadBitsLoop(b.r, n - 1, (acc * 2 + b.bit) % 65536)

ReadBits(r, n) == IF n > 16 THEN Fail ELSE ReadBitsLoop(r, n, 0)

\* Mutant: the negative range shifted by one.
ReadBitsSignedOffByOne(r, n) ==
  IF n = 0 THEN [ok |-> TRUE, raw |-> 0, val |-> 0, r |-> r]
  ELSE LET x == ReadBits(r, n)
       IN  IF ~x.ok THEN Fail
           ELSE [ok  |-> TRUE, raw |-> x.val, r |-> x.r,
                 val |-> IF (x.val \div 2^(n - 1)) % 2 = 1 THEN Int16(x.val)
                         ELSE Int16(x.val - 2^n)]

\* ReadBitsSigned(n): raw is the bits read, val the int16_t returned.
ReadBitsSigned(r, n) ==
  IF n = 0 THEN [ok |-> TRUE, raw |-> 0, val |-> 0, r |-> r]
  ELSE LET x == ReadBits(r, n)
       IN  IF ~x.ok THEN Fail
           ELSE [ok  |-> TRUE, raw |-> x.val, r |-> x.r,
                 val |-> IF (x.val \div 2^(n - 1)) % 2 = 1 THEN Int16(x.val)
                         ELSE Int16(x.val - (2^n - 1))]

\* Mutant: buffer_ cleared but buffer_size_ left as it was.
AlignKeepsSize(r) == [r EXCEPT !.buf = 0]

\* Align(): the rest of the buffered byte is dropped.
Align(r) == [r EXCEPT !.buf = 0, !.size = 0]

-----------------------------------------------------------------------------
(* ReadFromHuffmanTree: Move on ReadBits() until a terminal node.  A step *)
(* into an absent child leaves state_ null, and the next iteration reads  *)
(* another bit before Move throws: either way the call throws.            *)

RECURSIVE HuffWalk(_, _, _)
HuffWalk(r, t, w) ==
  LET b == ReadBits(r, 1)
  IN  IF ~b.ok THEN Fail
      ELSE LET w2 == Append(w, b.val)
           IN  IF w2 \in DOMAIN t THEN [ok |-> TRUE, val |-> t[w2], bits |-> w2, r |-> b.r]
               ELSE IF \E c \in DOMAIN t : IsPrefix(w2, c) THEN HuffWalk(b.r, t, w2)
               ELSE Fail

ReadFromHuffmanTree(r, t) == HuffWalk(r, t, <<>>)

-----------------------------------------------------------------------------
(* References: ITU T.81 F.2.2.1 (EXTEND) and A.3.6 (zig-zag sequence).    *)

\* The value of a coefficient of size n whose additional bits are v.
Extend(v, n) == IF n = 0 THEN 0 ELSE IF v < 2^(n - 1) THEN v - 2^n + 1 ELSE v

\* A number written in n bits, most significant first.
Bits(v, n) == [j \in 1..n |-> (v \div 2^(n - j)) % 2]

\* The zig-zag index of row-major position p of an 8x8 block: diagonals
\* r + c in order, alternately walked up (even) and down (odd).
ZZIndex(p) ==
  LET r == p \div 8
      c == p % 8
      d == r + c
      before == IF d <= 7 THEN (d * (d + 1)) \div 2 ELSE 64 - ((15 - d) * (16 - d)) \div 2
  IN  before + IF d % 2 = 0 THEN (IF d < 7 THEN d ELSE 7) - r
               ELSE r - (IF d > 7 THEN d - 7 ELSE 0)

-----------------------------------------------------------------------------
(* ReadBlock.                                                              *)

\* kZigZagMap
ZigZagMap ==
  << 0,  1,  5,  6, 14, 15, 27, 28,  2,  4,  7, 13, 16, 26, 29, 42,
     3,  8, 12, 17, 25, 30, 41, 43,  9, 11, 18, 24, 31, 40, 44, 53,
    10, 19, 23, 32, 39, 45, 52, 54, 20, 22, 33, 38, 46, 51, 55, 60,
    21, 34, 37, 47, 50, 56, 59, 61, 35, 36, 48, 49, 57, 58, 62, 63 >>

\* GetZigZag: ans[i] = data[kZigZagMap[i]].
GetZigZag(m) == [i \in 1..BlockSz |-> m[ZigZagMap[i] + 1]]

(* The baseline GetZigZag: diagonal diag (0..2 * dim - 2) is walked from *)
(* row = min(diag, 7) up and right when diag is even, from col =         *)
(* min(diag, 7) down and left when odd, while the cell is in the block;   *)
(* the walks, in order, take data[index++] (index < 64 always holds: the *)
(* 15 diagonals have 64 cells), and dub is read out row by row.           *)

\* std::min(diag, dim - 1)
Clip7(d) == IF d < 7 THEN d ELSE 7

\* The cells of diagonal d that the while loop visits, in order.
DiagLen(d) == 8 - (IF d < 8 THEN 7 - d ELSE d - 7)

\* Mutant: the even and odd directions swapped.
DiagWalkSwapped(d) ==
  [k \in 1..DiagLen(d) |->
     IF d % 2 = 1 THEN <<Clip7(d) - (k - 1), d - Clip7(d) + (k - 1)>>
     ELSE <<d - Clip7(d) + (k - 1), Clip7(d) - (k - 1)>>]

DiagWalk(d) ==
  [k \in 1..DiagLen(d) |->
     IF d % 2 = 0 THEN <<Clip7(d) - (k - 1), d - Clip7(d) + (k - 1)>>
     ELSE <<d - Clip7(d) + (k - 1), Clip7(d) - (k - 1)>>]

\* The <<row, col>> that receives data[index], for index 0..63.
DiagOrder == FlattenSeq([d \in 1..15 |-> DiagWalk(d - 1)])

\* dub[row][col] = data[index]: for each row-major cell, its index.
DubSource == [p \in 0..(BlockSz - 1) |->
                CHOOSE k \in 1..Len(DiagOrder) : DiagOrder[k] = <<p \div 8, p % 8>>]

\* The result, dub read out row by row.
BaselineGetZigZag(m) == [i \in 1..BlockSz |-> m[DubSource[i - 1]]]

Zeros(n) == [i \in 1..n |-> 0]

\* An exception: the scan, and the decode, end.
Throw ==
  /\ pc' = "error"
  /\ UNCHANGED <<stream, reader, matrix, prev_dc, out, consumed, dcsum, syms, variant>>

EInit ==
  /\ variant \in Variants
  /\ stream \in Inputs
  /\ reader = [in |-> stream, buf |-> 0, size |-> 0]
  /\ pc = IF Blocks = 0 THEN "align" ELSE "dc"
  /\ matrix = <<>>
  /\ prev_dc = 0
  /\ out = <<>>
  /\ consumed = <<>>
  /\ dcsum = 0
  /\ syms = <<>>

\* Mutant: the DC difference not added to the prediction.
ReadDCNoPrediction ==
  /\ pc = "dc"
  /\ LET h == ReadFromHuffmanTree(reader, DcTable)
         d == ReadBitsSigned(h.r, h.val)
     IN  IF ~h.ok \/ ~d.ok THEN Throw
         ELSE /\ matrix' = <<d.val>>
              /\ prev_dc' = d.val
              /\ reader' = d.r
              /\ consumed' = consumed \o h.bits \o Bits(d.raw, h.val)
              /\ dcsum' = dcsum + Extend(d.raw, h.val)
              /\ syms' = <<>>
              /\ pc' = "ac"
              /\ UNCHANGED <<stream, out, variant>>

\* The DC part of ReadBlock: dc_sz from the DC tree, then its difference
\* (none for dc_sz 0) added to prev_dc.
ReadDC ==
  /\ pc = "dc"
  /\ LET h == ReadFromHuffmanTree(reader, DcTable)
         d == ReadBitsSigned(h.r, h.val)
     IN  IF ~h.ok \/ ~d.ok THEN Throw
         ELSE /\ matrix' = <<Int16(prev_dc + d.val)>>
              /\ prev_dc' = Int16(prev_dc + d.val)
              /\ reader' = d.r
              /\ consumed' = consumed \o h.bits \o Bits(d.raw, h.val)
              /\ dcsum' = dcsum + Extend(d.raw, h.val)
              /\ syms' = <<>>
              /\ pc' = "ac"
              /\ UNCHANGED <<stream, out, variant>>

\* Mutant: the AC loop run while matrix.size() <= 64.
ReadACPastEnd ==
  /\ pc = "ac" /\ Len(matrix) <= BlockSz
  /\ LET h     == ReadFromHuffmanTree(reader, AcTable)
         zeros == h.val \div 16
         size  == h.val % 16
         a     == ReadBitsSigned(h.r, size)
     IN  IF ~h.ok THEN Throw
         ELSE IF h.val = 0
           THEN /\ matrix' = matrix \o Zeros(BlockSz - Len(matrix))
                /\ reader' = h.r
                /\ consumed' = consumed \o h.bits
                /\ pc' = "check"
                /\ UNCHANGED <<stream, prev_dc, out, dcsum, syms, variant>>
         ELSE IF (size # 0 \/ zeros = 15) /\ a.ok
           THEN /\ matrix' = matrix \o Zeros(zeros) \o <<a.val>>
                /\ reader' = a.r
                /\ consumed' = consumed \o h.bits \o Bits(a.raw, size)
                /\ syms' = Append(syms, <<zeros, size, a.raw>>)
                /\ UNCHANGED <<stream, pc, prev_dc, out, dcsum, variant>>
         ELSE Throw

\* One iteration of the AC loop (matrix.size() < 64): end of block, or
\* zeros_cnt zeros then a coefficient of ac_sz bits, or "Empty ac coef".
ReadAC ==
  /\ pc = "ac" /\ Len(matrix) < BlockSz
  /\ LET h     == ReadFromHuffmanTree(reader, AcTable)
         zeros == h.val \div 16
         size  == h.val % 16
         a     == ReadBitsSigned(h.r, size)
     IN  IF ~h.ok THEN Throw
         ELSE IF h.val = 0
           THEN /\ matrix' = matrix \o Zeros(BlockSz - Len(matrix))
                /\ reader' = h.r
                /\ consumed' = consumed \o h.bits
                /\ pc' = "check"
                /\ UNCHANGED <<stream, prev_dc, out, dcsum, syms, variant>>
         ELSE IF (size # 0 \/ zeros = 15) /\ a.ok
           THEN /\ matrix' = matrix \o Zeros(zeros) \o <<a.val>>
                /\ reader' = a.r
                /\ consumed' = consumed \o h.bits \o Bits(a.raw, size)
                /\ syms' = Append(syms, <<zeros, size, a.raw>>)
                /\ UNCHANGED <<stream, pc, prev_dc, out, dcsum, variant>>
         ELSE Throw

\* After the AC loop: "Too many blocks in matrix" unless exactly 64, then
\* GetZigZag; ReadImageData pushes the block.
CheckBlock ==
  /\ pc = "check" \/ (pc = "ac" /\ Len(matrix) >= BlockSz)
  /\ IF Len(matrix) # BlockSz THEN Throw
     ELSE /\ out' = Append(out, IF variant = "faster" THEN GetZigZag(matrix)
                                 ELSE BaselineGetZigZag(matrix))
          /\ matrix' = <<>>
          /\ pc' = IF Len(out) + 1 < Blocks THEN "dc" ELSE "align"
          /\ UNCHANGED <<stream, reader, prev_dc, consumed, dcsum, syms, variant>>

\* ReadRawImage's bit_reader_.Align() after ReadImageData.
AlignReader ==
  /\ pc = "align"
  /\ reader' = Align(reader)
  /\ pc' = "done"
  /\ UNCHANGED <<stream, matrix, prev_dc, out, consumed, dcsum, syms, variant>>

ENext == ReadDC \/ ReadAC \/ CheckBlock \/ AlignReader

ESpec == EInit /\ [][ENext]_evars

-----------------------------------------------------------------------------
(* Properties.                                                             *)

\* ITU T.81 F.1.2.3: the bits of the entropy-coded data are those of its
\* bytes with each stuffed 0x00 after a 0xFF removed; a 0xFF followed by
\* anything else is a marker, where the data ends.
RECURSIVE Unstuffed(_)
Unstuffed(s) ==
  IF s = <<>> THEN <<>>
  ELSE IF Head(s) # 255 THEN Bits(Head(s), 8) \o Unstuffed(Tail(s))
  ELSE IF Len(s) >= 2 /\ s[2] = 0 THEN Bits(255, 8) \o Unstuffed(Tail(Tail(s)))
  ELSE <<>>

\* The zig-zag index of the coefficient of the j-th AC symbol: each symbol
\* skips its run of zeros and takes the next position (ZRL: run 15, 0).
SymbolPos(sy, j) ==
  LET f[k \in 0..j] == IF k = 0 THEN 0 ELSE f[k - 1] + sy[k][1] + 1
  IN  f[j]

\* The coefficient at zig-zag index k (1..63) the symbols give, else 0.
RefCoef(sy, k) ==
  IF \E j \in 1..Len(sy) : SymbolPos(sy, j) = k
  THEN LET j == CHOOSE j \in 1..Len(sy) : SymbolPos(sy, j) = k
       IN  Extend(sy[j][3], sy[j][2])
  ELSE 0

\* ReadBlock has just returned the last block of out.
BlockReturned == out # <<>> /\ matrix = <<>>

Int16Range == -32768..32767

EDTypeOK ==
  /\ stream \in Inputs
  /\ reader.in \in Seq(Byte) /\ reader.buf \in Byte /\ reader.size \in 0..8
  /\ pc \in {"dc", "ac", "check", "align", "done", "error"}
  /\ matrix \in Seq(Int16Range) /\ Len(matrix) <= BlockSz + 15
  /\ prev_dc \in Int16Range
  /\ out \in Seq([1..BlockSz -> Int16Range]) /\ Len(out) <= Blocks
  /\ consumed \in Seq({0, 1})
  /\ dcsum \in Int
  /\ syms \in Seq((0..15) \X (0..15) \X (0..65535))
  /\ variant \in Variants

\* Every bit the reader has handed to the decoder is, in order, a bit of
\* the unstuffed entropy-coded data: no stuffed byte and no marker byte is
\* ever decoded, and no bit is skipped or read twice.
BitsMatchStream == IsPrefix(consumed, Unstuffed(stream))

\* Each block ReadBlock returns has, at natural position p, the value T.81
\* puts there: the AC symbols' runs place each EXTENDed coefficient at the
\* next zig-zag index, no symbol goes past index 63, and the rest is 0.
AcMatchesReference ==
  BlockReturned =>
     /\ \A j \in 1..Len(syms) : SymbolPos(syms, j) <= 63
     /\ \A p \in 1..(BlockSz - 1) : Last(out)[p + 1] = RefCoef(syms, ZZIndex(p))

\* The DC coefficient of every returned block is the sum of all DC
\* differences decoded so far in the scan (DC prediction, T.81 F.2.1.3.1),
\* each difference EXTENDed from its size and additional bits.
DcMatchesReference == BlockReturned => Last(out)[1] = dcsum

\* After the Align that follows ReadImageData, the reader holds no bits and
\* has taken from the stream exactly the bytes that carry the decoded bits,
\* the last one padded (stuffed 0x00s included): the marker loop of
\* ReadRawImage resumes at the first byte after the scan's data.
AlignedAtByte ==
  LET taken == SubSeq(stream, 1, Len(stream) - Len(reader.in)) IN
  pc = "done" =>
     /\ reader.size = 0
     /\ Len(Unstuffed(taken)) = 8 * ((Len(consumed) + 7) \div 8)
=============================================================================
