---------------------------- MODULE MCJpegParser ----------------------------
(***************************************************************************)
(* Model-checking instance of JpegParser: two channel ids, two tables of  *)
(* each kind, and segments chosen so that every reader's success and each *)
(* of its failure branches can happen.                                     *)
(***************************************************************************)
EXTENDS JpegParser

CONSTANTS t1, t2

MCTexts == {t1, t2}

\* Both builds of the decoder.
MCVariants == {"faster", "baseline"}

Y(h, v) == [channel_id |-> 1, h |-> h, v |-> v, quant_id |-> 0]
C(h, v) == [channel_id |-> 2, h |-> h, v |-> v, quant_id |-> 1]

MCFrames ==
  {[kind |-> "SOF", lenok |-> TRUE, precision |-> 8, height |-> 9,
    width |-> 8, channels |-> ch] :
      ch \in {<<Y(1, 1)>>, <<Y(2, 2), C(1, 1)>>, <<Y(0, 0)>>}}
  \cup
  {[kind |-> "SOF", lenok |-> ok, precision |-> p, height |-> ht,
    width |-> 8, channels |-> <<Y(1, 1)>>] :
      <<ok, p, ht>> \in {<<FALSE, 8, 9>>, <<TRUE, 12, 9>>, <<TRUE, 8, 0>>}}

MCScans ==
  {[kind |-> "SOS", lenok |-> TRUE, comps |-> cs, ss |-> 0, se |-> 63,
    ahal |-> 0, entropyok |-> TRUE] :
      cs \in {<<[channel_id |-> 1, dc_id |-> 0, ac_id |-> 0]>>,
              <<[channel_id |-> 2, dc_id |-> 0, ac_id |-> 0]>>,
              <<[channel_id |-> 1, dc_id |-> 0, ac_id |-> 0],
                [channel_id |-> 2, dc_id |-> 0, ac_id |-> 1]>>}}
  \cup
  {[kind |-> "SOS", lenok |-> ok, comps |-> <<[channel_id |-> 1, dc_id |-> 0, ac_id |-> 0]>>,
    ss |-> s, se |-> e, ahal |-> a, entropyok |-> en] :
      <<ok, s, e, a, en>> \in {<<FALSE, 0, 63, 0, TRUE>>, <<TRUE, 1, 63, 0, TRUE>>,
                               <<TRUE, 0, 62, 0, TRUE>>, <<TRUE, 0, 63, 0, FALSE>>}}

MCSegments ==
  {[kind |-> k] : k \in {"SOI", "EOI", "Unknown"}}
  \cup {[kind |-> "APP", lenok |-> ok] : ok \in BOOLEAN}
  \cup {[kind |-> "COM", lenok |-> ok, text |-> x] : <<ok, x>> \in {<<TRUE, t1>>, <<TRUE, t2>>, <<FALSE, t1>>}}
  \cup {[kind |-> "DQT", lenok |-> ok, tables |-> tb] :
          <<ok, tb>> \in {<<TRUE, <<[pq |-> 0, id |-> 0]>> >>,
                          <<TRUE, <<[pq |-> 1, id |-> 1]>> >>,
                          <<TRUE, <<[pq |-> 0, id |-> 1], [pq |-> 0, id |-> 1]>> >>,
                          <<TRUE, <<[pq |-> 2, id |-> 0]>> >>,
                          <<FALSE, <<[pq |-> 0, id |-> 0]>> >>}}
  \cup {[kind |-> "DHT", lenok |-> ok, tables |-> tb] :
          <<ok, tb>> \in {<<TRUE, <<[tc |-> 0, id |-> 0, buildok |-> TRUE],
                                    [tc |-> 1, id |-> 0, buildok |-> TRUE]>> >>,
                          <<TRUE, <<[tc |-> 1, id |-> 1, buildok |-> TRUE]>> >>,
                          <<TRUE, <<[tc |-> 0, id |-> 0, buildok |-> TRUE]>> >>,
                          <<TRUE, <<[tc |-> 1, id |-> 0, buildok |-> FALSE]>> >>,
                          <<FALSE, <<[tc |-> 1, id |-> 1, buildok |-> TRUE]>> >>}}
  \cup MCFrames \cup MCScans
=============================================================================
