---------------------------- MODULE MCJpegDecoder ----------------------------
(***************************************************************************)
(* Model-checking instance of JpegDecoder: one Huffman table pair, two    *)
(* quantization layouts, and frames whose channel order and sampling      *)
(* factors reach each branch of GetAns: the usual 2x2 luma first, luma    *)
(* after chroma, a zero factor beside a non-zero one, zero maxima, and factors that do not divide the        *)
(* maximum.  Scans list one, both, neither or a repeated channel.         *)
(***************************************************************************)
EXTENDS JpegDecoder

\* Both builds of the decoder.
MCVariants == {"faster", "baseline"}

Y(h, v) == [channel_id |-> 1, h |-> h, v |-> v, quant_id |-> 0]
C(h, v) == [channel_id |-> 2, h |-> h, v |-> v, quant_id |-> 1]

Comp(id) == [channel_id |-> id, dc_id |-> 0, ac_id |-> 0]

MCFrames ==
  {[kind |-> "SOF", lenok |-> TRUE, precision |-> 8, height |-> 9,
    width |-> 9, channels |-> ch] :
      ch \in {<<Y(1, 1)>>, <<Y(2, 2), C(1, 1)>>, <<C(1, 1), Y(2, 2)>>,
              <<Y(1, 1), C(0, 1)>>, <<Y(0, 1)>>, <<Y(2, 1), C(3, 1)>>}}

MCScans ==
  {[kind |-> "SOS", lenok |-> TRUE, comps |-> cs, ss |-> 0, se |-> 63,
    ahal |-> 0, entropyok |-> TRUE] :
      cs \in {<<Comp(1)>>, <<Comp(2)>>, <<Comp(1), Comp(2)>>,
              <<Comp(2), Comp(1)>>, <<>>, <<Comp(1), Comp(1)>>}}

MCSegments ==
  {[kind |-> k] : k \in {"SOI", "EOI"}}
  \cup {[kind |-> "DQT", lenok |-> TRUE, tables |-> tb] :
          tb \in {<<[pq |-> 0, id |-> 0]>>,
                  <<[pq |-> 0, id |-> 0], [pq |-> 0, id |-> 1]>>}}
  \cup {[kind |-> "DHT", lenok |-> TRUE,
         tables |-> <<[tc |-> 0, id |-> 0, buildok |-> TRUE],
                      [tc |-> 1, id |-> 0, buildok |-> TRUE]>>]}
  \cup MCFrames \cup MCScans

MCJunk == {1, 3}
=============================================================================
