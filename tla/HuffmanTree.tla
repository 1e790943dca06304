----------------------------- MODULE HuffmanTree -----------------------------
(***************************************************************************)
(* The Huffman trie of src/jpeg-decoder/huffman/huffman.cpp, as one DHT    *)
(* table uses it: ReadHuffmanTree reads a 16-entry length histogram and    *)
(* Sum(L) values, HuffmanTree::Build places them one loop iteration at a   *)
(* time, and ReadFromHuffmanTree then walks the trie with Move, one bit    *)
(* per step, for as long as the scan decodes symbols.                      *)
(*                                                                         *)
(* A node is named by its path from the root, a sequence of bits (0 for    *)
(* left).  The trie is the set of created nodes and the function from the  *)
(* terminal ones to their values.  Symbol values are abstracted to their   *)
(* position in the value list, which is all Build and Move distinguish.    *)
(***************************************************************************)
EXTENDS Integers, Sequences, TLC

CONSTANTS
  Histograms,  \* the code_lengths vectors ReadHuffmanTree may read
  ValuesSlack, \* Len(values) - Sum(L): {0} for ReadHuffmanTree's call
  None         \* state_ == nullptr, and "no symbol decoded yet"

\* std::vector<uint8_t> code_lengths(16)
NLengths == 16

ASSUME HistogramsAssumption == Histograms \subseteq [1..NLengths -> 0..255]

ASSUME ValuesSlackAssumption == ValuesSlack \subseteq Int

VARIABLES
  lengths,     \* code_lengths as read
  values,      \* the value list passed to Build
  remaining,   \* code_lengths_new
  now_length,  \* Build's now_length
  next,        \* index of the value Build's for loop is at
  tree,        \* [nodes: created paths, leaf: terminal path -> value]
  state_,      \* Impl::state_: a path, or None (nullptr)
  walk,        \* the bits Move consumed since the walk left the root
  last,        \* <<bits, value>> of the last symbol Move returned
  oob,         \* code_lengths_new was read past its end
  phase        \* "build", "rejected" (Build threw), "decode", "threw"

hvars == <<lengths, values, remaining, now_length, next, tree, state_, walk,
           last, oob, phase>>

-----------------------------------------------------------------------------
(* ReadHuffmanTree and the trie operations.                                *)

\* Mutant: one value more than the histogram counts.
ValuesCountPlusOne(L) ==
  LET s[k \in 0..NLengths] == IF k = 0 THEN 1 ELSE s[k - 1] + L[k]
  IN  s[NLengths]

\* sum_lengths: the number of values read after the histogram.
ValuesCount(L) ==
  LET s[k \in 0..NLengths] == IF k = 0 THEN 0 ELSE s[k - 1] + L[k]
  IN  s[NLengths]

\* Reset(): a fresh root, with state_ at it.
EmptyTree == [nodes |-> {<<>>}, leaf |-> [p \in {} |-> 0]]

Terminal(t, p) == p \in DOMAIN t.leaf

\* now->left or now->right, created as an internal node if absent.
Grow(t, p) == [t EXCEPT !.nodes = @ \cup {p}]

\* Create p as a terminal node holding v.
PutLeaf(t, p, v) == [nodes |-> t.nodes \cup {p}, leaf |-> t.leaf @@ (p :> v)]

\* Mutant: the base case taken at code_length 0 instead of 1.
RECURSIVE AddNodeImplOffByOne(_, _, _, _)
AddNodeImplOffByOne(len, v, now, t) ==
  LET l == Append(now, 0)
      r == Append(now, 1)
  IN  IF Terminal(t, now) THEN [ok |-> FALSE, t |-> t]
      ELSE IF len = 0
        THEN IF l \notin t.nodes THEN [ok |-> TRUE, t |-> PutLeaf(t, l, v)]
             ELSE IF r \notin t.nodes THEN [ok |-> TRUE, t |-> PutLeaf(t, r, v)]
             ELSE [ok |-> FALSE, t |-> t]
      ELSE LET a == AddNodeImplOffByOne(len - 1, v, l, Grow(t, l))
           IN  IF a.ok THEN a
               ELSE AddNodeImplOffByOne(len - 1, v, r, Grow(a.t, r))

\* Mutant: the right child tried before the left one.
RECURSIVE AddNodeImplRightFirst(_, _, _, _)
AddNodeImplRightFirst(len, v, now, t) ==
  LET l == Append(now, 0)
      r == Append(now, 1)
  IN  IF Terminal(t, now) THEN [ok |-> FALSE, t |-> t]
      ELSE IF len = 1
        THEN IF r \notin t.nodes THEN [ok |-> TRUE, t |-> PutLeaf(t, r, v)]
             ELSE IF l \notin t.nodes THEN [ok |-> TRUE, t |-> PutLeaf(t, l, v)]
             ELSE [ok |-> FALSE, t |-> t]
      ELSE LET a == AddNodeImplRightFirst(len - 1, v, r, Grow(t, r))
           IN  IF a.ok THEN a
               ELSE AddNodeImplRightFirst(len - 1, v, l, Grow(a.t, l))

\* Mutant: the is_terminal check dropped.
RECURSIVE AddNodeImplIntoLeaf(_, _, _, _)
AddNodeImplIntoLeaf(len, v, now, t) ==
  LET l == Append(now, 0)
      r == Append(now, 1)
  IN  IF len = 1
        THEN IF l \notin t.nodes THEN [ok |-> TRUE, t |-> PutLeaf(t, l, v)]
             ELSE IF r \notin t.nodes THEN [ok |-> TRUE, t |-> PutLeaf(t, r, v)]
             ELSE [ok |-> FALSE, t |-> t]
      ELSE LET a == AddNodeImplIntoLeaf(len - 1, v, l, Grow(t, l))
           IN  IF a.ok THEN a
               ELSE AddNodeImplIntoLeaf(len - 1, v, r, Grow(a.t, r))

\* AddNodeImpl: depth-first, left before right, a leaf at depth len below
\* now.  Nodes created on a branch that then fails stay in the trie.
RECURSIVE AddNodeImpl(_, _, _, _)
AddNodeImpl(len, v, now, t) ==
  LET l == Append(now, 0)
      r == Append(now, 1)
  IN  IF Terminal(t, now) THEN [ok |-> FALSE, t |-> t]
      ELSE IF len = 1
        THEN IF l \notin t.nodes THEN [ok |-> TRUE, t |-> PutLeaf(t, l, v)]
             ELSE IF r \notin t.nodes THEN [ok |-> TRUE, t |-> PutLeaf(t, r, v)]
             ELSE [ok |-> FALSE, t |-> t]
      ELSE LET a == AddNodeImpl(len - 1, v, l, Grow(t, l))
           IN  IF a.ok THEN a
               ELSE AddNodeImpl(len - 1, v, r, Grow(a.t, r))

AddNode(len, v, t) == AddNodeImpl(len, v, <<>>, t)

\* Mutant: left and right exchanged.
ChildSwapped(s, bit) == Append(s, 1 - bit)

\* The child Move steps to on a bit.
Child(s, bit) == Append(s, bit)

-----------------------------------------------------------------------------
(* Actions.                                                                *)

\* Build is called with a histogram and a value list, and Resets the trie.
\* ReadHuffmanTree passes exactly sum_lengths values; a slack other than 0
\* is a direct call of the public HuffmanTree::Build.
HInit ==
  /\ lengths \in Histograms
  /\ \E e \in ValuesSlack :
        values = [i \in 1..(ValuesCount(lengths) + e) |-> i]
  /\ remaining = lengths
  /\ now_length = 1
  /\ next = 1
  /\ tree = EmptyTree
  /\ state_ = <<>>
  /\ walk = <<>>
  /\ last = None
  /\ oob = FALSE
  /\ phase = "build"

\* One iteration of the while loop: code_lengths_new[now_length - 1] == 0
\* and now_length <= 16.
SkipLength ==
  /\ phase = "build" /\ next <= Len(values)
  /\ now_length <= NLengths /\ remaining[now_length] = 0
  /\ now_length' = now_length + 1
  /\ UNCHANGED <<lengths, values, remaining, next, tree, state_, walk, last,
                 oob, phase>>

\* The while loop has ended; the rest of the for body.  At now_length 17
\* the loop condition read code_lengths_new[16], one past the end, before
\* its bound check ended the loop: the value read cannot change the
\* outcome, and "Too small code lengths sum" is thrown.  Otherwise the
\* quota is decremented and AddNode either places the value or fails.
Place ==
  /\ phase = "build" /\ next <= Len(values)
  /\ \/ now_length > NLengths
     \/ now_length <= NLengths /\ remaining[now_length] # 0
  /\ oob' = (oob \/ now_length > NLengths)
  /\ \/ /\ now_length > NLengths
        /\ phase' = "rejected"
        /\ UNCHANGED <<remaining, next, tree>>
     \/ /\ now_length <= NLengths
        /\ LET a == AddNode(now_length, values[next], tree)
           IN  /\ remaining' = [remaining EXCEPT ![now_length] = (@ - 1) % 256]
               /\ tree' = a.t
               /\ next' = next + 1
               /\ phase' = IF a.ok THEN "build" ELSE "rejected"
  /\ UNCHANGED <<lengths, values, now_length, state_, walk, last>>

\* Mutant: the residual-quota check dropped.
QuotaLeftIgnored(r) == 0

\* std::reduce over code_lengths_new: with no initial value it accumulates
\* in the element type, uint8_t, so the sum is taken modulo 256.
QuotaLeft(r) ==
  LET s[k \in 0..NLengths] == IF k = 0 THEN 0 ELSE (s[k - 1] + r[k]) % 256
  IN  s[NLengths]

\* After the for loop: "Too big code length sum" if quota remains.
Finish ==
  /\ phase = "build" /\ next > Len(values)
  /\ phase' = IF QuotaLeft(remaining) > 0 THEN "rejected" ELSE "decode"
  /\ UNCHANGED <<lengths, values, remaining, now_length, next, tree, state_,
                 walk, last, oob>>

\* Mutant: the walk restarted at the root instead of left on nullptr.
OnMissingChildRestart(bit) ==
  state_' = <<>> /\ walk' = Append(walk, bit) /\ UNCHANGED last

\* Move's step into an absent child: state_ = need = nullptr, return false.
OnMissingChild(bit) ==
  state_' = None /\ walk' = Append(walk, bit) /\ UNCHANGED last

\* No code is longer than 16 bits, so no walk is: a bound the guard of
\* Move states and HTypeOK checks is never reached.
WalkBound == NLengths

\* Impl::Move(bit), called by ReadFromHuffmanTree for each bit read.
Move(bit) ==
  /\ phase = "decode" /\ Len(walk) <= WalkBound
  /\ \/ /\ state_ = None
        /\ phase' = "threw"
        /\ UNCHANGED <<state_, walk, last>>
     \/ /\ state_ # None
        /\ LET need == Child(state_, bit) IN
           \/ /\ need \notin tree.nodes
              /\ OnMissingChild(bit)
           \/ /\ need \in tree.nodes /\ ~Terminal(tree, need)
              /\ state_' = need /\ walk' = Append(walk, bit)
              /\ UNCHANGED last
           \/ /\ Terminal(tree, need)
              /\ state_' = <<>> /\ walk' = <<>>
              /\ last' = <<Append(walk, bit), tree.leaf[need]>>
        /\ UNCHANGED phase
  /\ UNCHANGED <<lengths, values, remaining, now_length, next, tree, oob>>

\* Move on the bit ReadBits returned.
MoveOnBit == \E bit \in {0, 1} : Move(bit)

\* ReadBits() throws before Move is called: end of data or a marker.
BitReadFails ==
  /\ phase = "decode"
  /\ phase' = "threw"
  /\ UNCHANGED <<lengths, values, remaining, now_length, next, tree, state_,
                 walk, last, oob>>

\* One iteration of ReadFromHuffmanTree's loop: Move on the bit ReadBits
\* returns, or ReadBits throws.
Decode == MoveOnBit \/ BitReadFails

HNext == SkipLength \/ Place \/ Finish \/ Decode

\* ReadFromHuffmanTree's loop calls ReadBits and Move again whenever Move
\* returned false; ReadBits returns a bit or throws, it never blocks.
HSpec == HInit /\ [][HNext]_hvars /\ WF_hvars(MoveOnBit)

-----------------------------------------------------------------------------
(* Reference: the canonical JPEG code of a histogram (ITU T.81, C.2).     *)

\* Codes of length at most l.
CodesUpTo(L, l) ==
  LET s[k \in 0..NLengths] == IF k = 0 THEN 0 ELSE s[k - 1] + L[k]
  IN  s[l]

\* The length of the i-th symbol: symbols are listed by increasing length.
SymbolLength(L, i) ==
  CHOOSE l \in 1..NLengths : CodesUpTo(L, l - 1) < i /\ i <= CodesUpTo(L, l)

\* The code of the i-th symbol as a number: one more than the previous
\* code, shifted left by the growth in length.
CodeNumber(L) ==
  LET c[i \in 1..CodesUpTo(L, NLengths)] ==
        IF i = 1 THEN 0
        ELSE (c[i - 1] + 1) * 2^(SymbolLength(L, i) - SymbolLength(L, i - 1))
  IN  c

\* A number written in len bits, most significant first.
Bits(n, len) == [j \in 1..len |-> (n \div 2^(len - j)) % 2]

CanonicalCode(L) ==
  [i \in 1..CodesUpTo(L, NLengths) |-> Bits(CodeNumber(L)[i], SymbolLength(L, i))]

\* The Kraft inequality: the histogram fits in a binary tree of depth 16.
Kraft(L) ==
  LET s[k \in 0..NLengths] ==
        IF k = 0 THEN 0 ELSE s[k - 1] + L[k] * 2^(NLengths - k)
  IN  s[NLengths] <= 2^NLengths

-----------------------------------------------------------------------------
(* Properties.                                                             *)

\* A node of a trie of depth at most 16.
IsPath(p) == p \in Seq({0, 1}) /\ Len(p) <= NLengths

HTypeOK ==
  /\ lengths \in Histograms
  /\ values \in Seq(Nat)
  /\ remaining \in [1..NLengths -> 0..255]
  /\ now_length \in 1..(NLengths + 1)
  /\ next \in 1..(Len(values) + 1)
  /\ \A p \in tree.nodes : IsPath(p)
  /\ DOMAIN tree.leaf \subseteq tree.nodes
  /\ state_ \in tree.nodes \cup {None}
  /\ IsPath(walk)
  /\ last = None \/ (IsPath(last[1]) /\ last[2] \in Nat)
  /\ oob \in BOOLEAN
  /\ phase \in {"build", "rejected", "decode", "threw"}

Built == phase \in {"decode", "threw"}

\* In the call ReadHuffmanTree makes, with exactly Sum(L) values, Build
\* never evaluates code_lengths_new[16]: the quota is never exhausted while
\* a value is left to place.  (A direct call with more values does read it.)
NoReadPastLengths == Len(values) = ValuesCount(lengths) => ~oob

\* A completed Build has given the i-th value exactly the i-th canonical
\* code, and made no other node terminal.
BuildsCanonicalCode ==
  Built => LET code == CanonicalCode(lengths) IN
              /\ DOMAIN tree.leaf = {code[i] : i \in 1..Len(values)}
              /\ \A i \in 1..Len(values) : tree.leaf[code[i]] = values[i]

\* Build, once it has returned or thrown, has accepted exactly the calls
\* with one value per code and a histogram that satisfies the Kraft
\* inequality: no overfull table is accepted and no valid one rejected.
BuildAcceptsIffKraft ==
  phase # "build" =>
     (Built <=> Kraft(lengths) /\ Len(values) = CodesUpTo(lengths, NLengths))

\* Every symbol ReadFromHuffmanTree returns is the value whose canonical
\* code is exactly the bits read since the previous symbol.
DecodesAsCoded ==
  last # None =>
    \E i \in 1..Len(values) :
       last[2] = values[i] /\ last[1] = CanonicalCode(lengths)[i]

\* ReadFromHuffmanTree's loop ends: once a walk has left the root it
\* returns to it with a symbol or Move throws on a null state.
WalkEnds == (phase = "decode" /\ walk # <<>>) ~> (walk = <<>> \/ phase = "threw")
=============================================================================
