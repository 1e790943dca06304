---------------------------- MODULE MCHuffmanTree ----------------------------
(* Histograms for HuffmanTree: every histogram of up to two codes at each *)
(* of lengths 1..3 (complete, incomplete and overfull ones), and four      *)
(* that reach depth 16.                                                    *)
EXTENDS HuffmanTree

\* A histogram given by its non-zero entries.
Hist(f) == [k \in 1..NLengths |-> IF k \in DOMAIN f THEN f[k] ELSE 0]

MCHistograms ==
  {Hist(h) : h \in [1..3 -> 0..2]}
  \cup {Hist(16 :> 1),
        Hist((1 :> 1) @@ (16 :> 2)),
        Hist([k \in 1..15 |-> 1] @@ (16 :> 2)),
        Hist([k \in 1..15 |-> 1] @@ (16 :> 3)),
        Hist(1 :> 3)}
\* Direct calls of HuffmanTree::Build with one value too few or too many.
MCApiSlack == {-1, 0, 1}
\* 256 codes, and a direct call of Build with none of their values.
MCWrapHistograms == {Hist((1 :> 255) @@ (2 :> 1))}

MCWrapSlack == {-256}
=============================================================================
