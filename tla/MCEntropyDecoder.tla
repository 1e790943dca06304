--------------------------- MODULE MCEntropyDecoder ---------------------------
(* Two blocks of one channel over every stream of up to three bytes from  *)
(* an alphabet chosen to hit each branch of the decoder: 0xFF (stuffed or *)
(* followed by a marker byte 0xD9), runs of ZRL codes that end a block at *)
(* 64 or overrun it, and end of data.                                     *)
EXTENDS EntropyDecoder

\* Both builds of the decoder.
MCVariants == {"faster", "baseline"}

\* DC sizes 0..2; the code 111 is absent from the tree.
MCDcTable == (<<0>> :> 0) @@ (<<1, 0>> :> 1) @@ (<<1, 1, 0>> :> 2)

\* EOB, (0,1), ZRL, (1,1), (1,0) which is "Empty ac coef", (14,1), (15,1).
MCAcTable ==
  (<<0, 0>> :> 0) @@ (<<0, 1>> :> 1) @@ (<<1, 0, 0>> :> 240) @@
  (<<1, 0, 1>> :> 17) @@ (<<1, 1, 0>> :> 16) @@ (<<1, 1, 1, 0>> :> 225) @@
  (<<1, 1, 1, 1>> :> 241)

\* 0x49 0x24: DC 0 and four ZRLs, past 64; 0x49 0x3A: DC 0, three ZRLs
\* and (14,1), exactly 64.
MCAlphabet == {0, 63, 73, 36, 58, 146, 255, 217}

\* Every stream of up to three bytes, and a stuffed 0xFF decoded through.
MCInputs ==
  UNION {[1..n -> MCAlphabet] : n \in 0..3} \cup {<<63, 255, 0, b>> : b \in MCAlphabet}

\* A DC size of 16 (code 1110), which ReadBits still accepts.
MCWideDcTable ==
  (<<0>> :> 0) @@ (<<1, 0>> :> 1) @@ (<<1, 1, 0>> :> 2) @@ (<<1, 1, 1, 0>> :> 16)

MCWideInputs == {<<239, 255, 0, 240>>}
=============================================================================
