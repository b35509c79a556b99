--------------------------- MODULE Answers_proofs ---------------------------
(***************************************************************************)
(* What the client of a stream translator of MCGateways is shown is what   *)
(* upstream said, once, in order and whole, for any answers, calls and     *)
(* limits.                                                                 *)
(*                                                                         *)
(* Each translator has an invariant of its own, which says of the message  *)
(* that the wire delivers which piece is in which block: ChatShown (the    *)
(* blocks hold the thinking, the text and the arguments received), RShown  *)
(* (an item's parts were received, are written or are still missing, by    *)
(* what is kept of it), CloudShown (the blocks are the runs of parts, the  *)
(* open one without its signature).  Together with the invariants of       *)
(* Gateways_proofs they are inductive, and what a finished message shows   *)
(* follows from them.                                                      *)
(***************************************************************************)
EXTENDS Gateways_proofs

-----------------------------------------------------------------------------
(* What the client has of an item *)

\* A function that goes from place to place.
Walks(g, W, base, k) == g[0] = base /\ \A n \in 1..k : g[n] = W[<<g[n - 1], n>>]

LEMMA WalkExists ==
  ASSUME NEW X, NEW base \in X, NEW k \in Nat, NEW W \in [X \X (1..k) -> X]
  PROVE  \E g \in [0..k -> X] : Walks(g, W, base, k)
<1> DEFINE Bad == {n \in Nat : n <= k /\ ~\E g \in [0..k -> X] : Walks(g, W, base, n)}
<1>1. SUFFICES ASSUME Bad # {} PROVE FALSE
  <2>1. k \in Nat /\ k <= k OBVIOUS
  <2>2. k \notin Bad => \E g \in [0..k -> X] : Walks(g, W, base, k) BY <2>1
  <2> HIDE DEF Bad
  <2> QED BY <2>2
<1>2. PICK l \in Bad : \A n \in Bad : l <= n BY <1>1, LeastNat
<1>3. l \in Nat /\ l <= k /\ ~\E g \in [0..k -> X] : Walks(g, W, base, l) BY <1>2
<1>4. CASE l = 0
  <2> DEFINE g == [n \in 0..k |-> base]
  <2>1. g \in [0..k -> X] /\ Walks(g, W, base, 0) BY DEF Walks
  <2> HIDE DEF g
  <2> QED BY <1>3, <1>4, <2>1
<1>5. CASE l # 0
  <2>1. l - 1 \in Nat /\ l - 1 <= k /\ ~(l <= l - 1) /\ l \in 1..k BY <1>3, <1>5
  <2>2. l - 1 \notin Bad
    <3> HIDE DEF Bad
    <3> QED BY <1>2, <2>1
  <2>3. PICK f \in [0..k -> X] : Walks(f, W, base, l - 1) BY <2>1, <2>2
  <2> DEFINE x == W[<<f[l - 1], l>>]
             g == [n \in 0..k |-> IF n = l THEN x ELSE f[n]]
  <2>4. x \in X
    <3>1. l - 1 \in 0..k BY <2>1
    <3> QED BY <2>1, <3>1
  <2> HIDE DEF x
  <2>5. g \in [0..k -> X] BY <2>4
  <2>6. g[l] = x /\ \A n \in 0..k : n # l => g[n] = f[n]
    <3>1. l \in 0..k BY <2>1
    <3> QED BY <3>1
  <2> HIDE DEF g
  <2>7. g[0] = base
    <3>1. 0 \in 0..k /\ 0 # l BY <1>5
    <3> QED BY <2>3, <2>6, <3>1 DEF Walks
  <2>8. ASSUME NEW n \in 1..l PROVE g[n] = W[<<g[n - 1], n>>]
    <3>1. n - 1 \in 0..k /\ n - 1 # l /\ n \in 0..k BY <1>3
    <3>2. g[n - 1] = f[n - 1] BY <2>6, <3>1
    <3>3. CASE n = l BY <2>6, <3>2, <3>3 DEF x
    <3>4. CASE n # l
      <4>1. n \in 1..(l - 1) BY <1>3, <3>4
      <4>2. f[n] = W[<<f[n - 1], n>>] BY <2>3, <4>1 DEF Walks
      <4> QED BY <2>6, <3>1, <3>2, <3>4, <4>2
    <3> QED BY <3>3, <3>4
  <2>9. Walks(g, W, base, l) BY <2>7, <2>8 DEF Walks
  <2> QED BY <1>3, <2>5, <2>9
<1> QED BY <1>4, <1>5

\* Two functions that go on alike from place to place.
LEMMA Together ==
  ASSUME NEW k \in Nat, NEW f, NEW g, f[0] = g[0],
         \A n \in 1..k : f[n - 1] = g[n - 1] => f[n] = g[n]
  PROVE  f[k] = g[k]
<1> DEFINE Bad == {n \in Nat : n <= k /\ f[n] # g[n]}
<1>1. SUFFICES ASSUME Bad # {} PROVE FALSE OBVIOUS
<1>2. PICK l \in Bad : \A n \in Bad : l <= n BY <1>1, LeastNat
<1>3. l \in Nat /\ l <= k /\ f[l] # g[l] BY <1>2
<1>4. l # 0 BY <1>3
<1>5. l \in 1..k /\ l - 1 \in Nat /\ l - 1 <= k /\ ~(l <= l - 1) BY <1>3, <1>4
<1>6. l - 1 \notin Bad
  <2> HIDE DEF Bad
  <2> QED BY <1>2, <1>5
<1>7. f[l - 1] = g[l - 1] BY <1>5, <1>6
<1> QED BY <1>3, <1>5, <1>7

AnyPiece == [item : Nat, part : PieceParts, n : Nat]
Mine(piece, i, P) == piece.item = i /\ piece.part \in P

LEMMA TextsAre == Texts = Seq(AnyPiece)
BY DEF Texts, AnyPiece

\* What a text has of an item, place by place.
Selects(g, text, i, P) ==
  /\ g[0] = <<>>
  /\ \A n \in 1..Len(text) :
       g[n] = IF Mine(text[n], i, P) THEN Append(g[n - 1], text[n]) ELSE g[n - 1]

LEMMA SelectsExists ==
  ASSUME NEW text \in Texts, NEW i, NEW P
  PROVE  \E g \in [0..Len(text) -> Texts] : Selects(g, text, i, P)
<1> DEFINE k == Len(text)
           W == [x \in Texts \X (1..k) |-> IF Mine(text[x[2]], i, P) THEN Append(x[1], text[x[2]]) ELSE x[1]]
<1>1. k \in Nat /\ \A n \in 1..k : text[n] \in AnyPiece BY TextsAre
<1>2. \A t \in Texts, p \in AnyPiece : Append(t, p) \in Texts BY TextsAre
<1>3. \A t \in Texts, n \in 1..k :
        /\ W[<<t, n>>] = IF Mine(text[n], i, P) THEN Append(t, text[n]) ELSE t
        /\ W[<<t, n>>] \in Texts
      BY <1>1, <1>2
<1>4. W \in [Texts \X (1..k) -> Texts] BY <1>3
<1>5. <<>> \in Texts BY DEF Texts
<1> HIDE DEF k, W
<1>6. PICK g \in [0..k -> Texts] : Walks(g, W, <<>>, k) BY <1>1, <1>4, <1>5, WalkExists
<1>7. \A n \in 1..k : g[n] = IF Mine(text[n], i, P) THEN Append(g[n - 1], text[n]) ELSE g[n - 1]
  <2> TAKE n \in 1..k
  <2>1. n - 1 \in 0..k BY <1>1
  <2>2. g[n - 1] \in Texts BY <2>1
  <2> QED BY <1>3, <1>6, <2>2 DEF Walks
<1>8. g[0] = <<>> BY <1>6 DEF Walks
<1> QED BY <1>7, <1>8 DEF Selects, k

LEMMA OnlyIs ==
  ASSUME NEW text \in Texts, NEW i, NEW P, NEW g, Selects(g, text, i, P)
  PROVE  Only(text, i, P) = g[Len(text)]
<1> DEFINE k == Len(text)
           Rec(h) == h = [n \in 0..Len(text) |->
                       IF n = 0 THEN <<>>
                       ELSE IF text[n].item = i /\ text[n].part \in P THEN Append(h[n - 1], text[n])
                       ELSE h[n - 1]]
           it == CHOOSE h : Rec(h)
           f == [n \in 0..k |-> g[n]]
<1>1. k \in Nat BY DEF Texts
<1>2. Rec(f)
  <2>1. \A n \in 1..k : n - 1 \in 0..k BY <1>1
  <2>2. ASSUME NEW n \in 0..k
        PROVE  f[n] = IF n = 0 THEN <<>>
                      ELSE IF text[n].item = i /\ text[n].part \in P THEN Append(f[n - 1], text[n])
                      ELSE f[n - 1]
    <3>1. CASE n = 0 BY <3>1 DEF Selects
    <3>2. CASE n # 0
      <4>1. n \in 1..k BY <1>1, <3>2
      <4>2. f[n - 1] = g[n - 1] /\ f[n] = g[n] BY <2>1, <4>1
      <4>3. g[n] = IF Mine(text[n], i, P) THEN Append(g[n - 1], text[n]) ELSE g[n - 1]
            BY <4>1 DEF Selects
      <4> HIDE DEF f
      <4> QED BY <3>2, <4>2, <4>3 DEF Mine
    <3> QED BY <3>1, <3>2
  <2> QED BY <2>2
<1>3. Rec(it) BY <1>2
<1>4. Only(text, i, P) = it[k] BY DEF Only
<1> HIDE DEF it, f
<1>5. it[0] = g[0] BY <1>1, <1>3 DEF Selects
<1>6. ASSUME NEW n \in 1..k, it[n - 1] = g[n - 1] PROVE it[n] = g[n]
  <2>1. n \in 0..k /\ n # 0 BY <1>1
  <2>2. it[n] = IF Mine(text[n], i, P) THEN Append(it[n - 1], text[n]) ELSE it[n - 1]
        BY <1>3, <2>1 DEF Mine
  <2>3. g[n] = IF Mine(text[n], i, P) THEN Append(g[n - 1], text[n]) ELSE g[n - 1]
        BY DEF Selects
  <2> QED BY <1>6, <2>2, <2>3
<1> HIDE DEF k
<1>7. it[k] = g[k] BY <1>1, <1>5, <1>6, Together
<1> QED BY <1>4, <1>7 DEF k

LEMMA OnlyType == ASSUME NEW text \in Texts, NEW i, NEW P PROVE Only(text, i, P) \in Texts
<1>1. PICK g \in [0..Len(text) -> Texts] : Selects(g, text, i, P) BY SelectsExists
<1>2. Len(text) \in 0..Len(text) BY DEF Texts
<1> QED BY <1>1, <1>2, OnlyIs

\* A text with nothing of the item, and one of nothing else.
LEMMA OnlyNone ==
  ASSUME NEW text \in Texts, NEW i, NEW P, \A n \in 1..Len(text) : ~Mine(text[n], i, P)
  PROVE  Only(text, i, P) = <<>>
<1> DEFINE g == [n \in 0..Len(text) |-> <<>>]
<1>1. Len(text) \in Nat BY DEF Texts
<1>2. Selects(g, text, i, P) /\ g[Len(text)] = <<>> BY <1>1 DEF Selects
<1> HIDE DEF g
<1> QED BY <1>2, OnlyIs

LEMMA OnlyAll ==
  ASSUME NEW text \in Texts, NEW i, NEW P, \A n \in 1..Len(text) : Mine(text[n], i, P)
  PROVE  Only(text, i, P) = text
<1> DEFINE k == Len(text)
           g == [n \in 0..k |-> SubSeq(text, 1, n)]
<1>1. k \in Nat /\ text \in Seq(AnyPiece) BY DEF Texts, AnyPiece
<1>2. g[0] = <<>> BY <1>1
<1>3. ASSUME NEW n \in 1..k PROVE g[n] = Append(g[n - 1], text[n])
  <2>1. n \in 0..k /\ n - 1 \in 0..k BY <1>1
  <2>2. g[n] = SubSeq(text, 1, n) /\ g[n - 1] = SubSeq(text, 1, n - 1) BY <2>1
  <2> HIDE DEF g
  <2>3. SubSeq(text, 1, n) = Append(SubSeq(text, 1, n - 1), text[n]) BY <1>1
  <2> QED BY <2>2, <2>3
<1>4. g[k] = text BY <1>1
<1> HIDE DEF g
<1>5. Selects(g, text, i, P) BY <1>2, <1>3 DEF Selects
<1> QED BY <1>4, <1>5, OnlyIs

LEMMA OnlyJoins ==
  ASSUME NEW u \in Texts, NEW v \in Texts, NEW i, NEW P
  PROVE  /\ u \o v \in Texts /\ Only(u \o v, i, P) = Only(u, i, P) \o Only(v, i, P)
<1>1. PICK f \in [0..Len(u) -> Texts] : Selects(f, u, i, P) BY SelectsExists
<1>2. PICK h \in [0..Len(v) -> Texts] : Selects(h, v, i, P) BY SelectsExists
<1> DEFINE a == Len(u)
           b == Len(v)
           w == u \o v
           g == [n \in 0..(a + b) |-> IF n <= a THEN f[n] ELSE f[a] \o h[n - a]]
<1>3. /\ a \in Nat /\ b \in Nat /\ w \in Texts /\ Len(w) = a + b
      /\ \A n \in 1..a : w[n] = u[n]
      /\ \A n \in 1..b : w[a + n] = v[n]
  <2>1. u \in Seq(AnyPiece) /\ v \in Seq(AnyPiece) BY TextsAre
  <2>2. a \in Nat /\ b \in Nat /\ w \in Seq(AnyPiece) BY <2>1
  <2>3. Len(w) = a + b /\ (\A n \in 1..a : w[n] = u[n]) /\ \A n \in 1..b : w[a + n] = v[n]
        BY <2>1
  <2> HIDE DEF a, b, w, g
  <2> QED BY <2>2, <2>3, TextsAre
<1>4. f[a] \in Texts BY <1>3
<1> HIDE DEF w
<1>5. \A n \in 0..a : g[n] = f[n] BY <1>3
<1>6. \A n \in 0..b : g[a + n] = f[a] \o h[n]
  <2> TAKE n \in 0..b
  <2>1. CASE n = 0
    <3>1. h[0] = <<>> /\ f[a] \o <<>> = f[a] BY <1>2, <1>4 DEF Selects, Texts
    <3> QED BY <1>3, <2>1, <3>1
  <2>2. CASE n # 0
    <3>1. a + n \in 0..(a + b) /\ ~(a + n <= a) /\ (a + n) - a = n BY <1>3, <2>2
    <3> QED BY <3>1
  <2> QED BY <2>1, <2>2
<1> HIDE DEF g
<1>7. ASSUME NEW n \in 1..Len(w)
      PROVE  g[n] = IF Mine(w[n], i, P) THEN Append(g[n - 1], w[n]) ELSE g[n - 1]
  <2>1. CASE n <= a
    <3>1. n \in 1..a /\ n \in 0..a /\ n - 1 \in 0..a BY <1>3, <2>1
    <3>2. f[n] = IF Mine(u[n], i, P) THEN Append(f[n - 1], u[n]) ELSE f[n - 1]
          BY <1>1, <3>1 DEF Selects
    <3>3. w[n] = u[n] /\ g[n] = f[n] /\ g[n - 1] = f[n - 1] BY <1>3, <1>5, <3>1
    <3> HIDE DEF a
    <3> QED BY <3>2, <3>3
  <2>2. CASE ~(n <= a)
    <3> DEFINE j == n - a
    <3>1. j \in 1..b /\ j - 1 \in 0..b /\ j \in 0..b /\ a + j = n /\ a + (j - 1) = n - 1
          BY <1>3, <2>2
    <3>2. h[j] = IF Mine(v[j], i, P) THEN Append(h[j - 1], v[j]) ELSE h[j - 1]
          BY <1>2, <3>1 DEF Selects
    <3> HIDE DEF j
    <3>3. w[n] = v[j] /\ g[n] = f[a] \o h[j] /\ g[n - 1] = f[a] \o h[j - 1]
          BY <1>3, <1>6, <3>1
    <3>4. f[a] \o Append(h[j - 1], v[j]) = Append(f[a] \o h[j - 1], v[j])
      <4>1. f[a] \in Seq(AnyPiece) /\ h[j - 1] \in Seq(AnyPiece) /\ v[j] \in AnyPiece
        <5>1. v \in Seq(AnyPiece) /\ h[j - 1] \in Texts BY <3>1, TextsAre
        <5> QED BY <1>4, <3>1, <5>1, TextsAre
      <4> HIDE DEF a
      <4> QED BY <4>1
    <3> HIDE DEF a
    <3> QED BY <3>2, <3>3, <3>4
  <2> QED BY <2>1, <2>2
<1>8. g[0] = <<>> BY <1>1, <1>3, <1>5 DEF Selects
<1>9. Selects(g, w, i, P) BY <1>7, <1>8 DEF Selects
<1>10. Only(w, i, P) = g[a + b]
  <2>1. w \in Texts /\ Len(w) = a + b BY <1>3
  <2> HIDE DEF a, b
  <2>2. Only(w, i, P) = g[Len(w)] BY <1>9, <2>1, OnlyIs
  <2> QED BY <2>1, <2>2
<1>11. Only(u, i, P) = f[a] /\ Only(v, i, P) = h[b] BY <1>1, <1>2, OnlyIs
<1>12. g[a + b] = f[a] \o h[b] BY <1>3, <1>6
<1> QED BY <1>3, <1>10, <1>11, <1>12 DEF w

\* What the blocks have of an item, block by block.
Gathers(g, m, i, P) ==
  /\ g[0] = <<>>
  /\ \A n \in 1..Len(m.blocks) : g[n] = g[n - 1] \o Only(m.blocks[n].text, i, P)

LEMMA BlockTexts ==
  ASSUME NEW m \in Msg
  PROVE  Len(m.blocks) \in Nat /\ \A n \in 1..Len(m.blocks) : m.blocks[n].text \in Texts
BY MsgFields DEF Block

LEMMA GathersExists ==
  ASSUME NEW m \in Msg, NEW i, NEW P
  PROVE  \E g \in [0..Len(m.blocks) -> Texts] : Gathers(g, m, i, P)
<1> DEFINE k == Len(m.blocks)
           W == [x \in Texts \X (1..k) |-> x[1] \o Only(m.blocks[x[2]].text, i, P)]
<1>1. k \in Nat BY BlockTexts
<1>2. \A n \in 1..k : Only(m.blocks[n].text, i, P) \in Texts BY BlockTexts, OnlyType
<1>3. \A t \in Texts, n \in 1..k :
        /\ W[<<t, n>>] = t \o Only(m.blocks[n].text, i, P) /\ W[<<t, n>>] \in Texts
  <2>1. \A u, v \in Texts : u \o v \in Texts BY TextsAre
  <2> QED BY <1>2, <2>1
<1>4. W \in [Texts \X (1..k) -> Texts] BY <1>3
<1>5. <<>> \in Texts BY TextsAre
<1> HIDE DEF k, W
<1>6. PICK g \in [0..k -> Texts] : Walks(g, W, <<>>, k) BY <1>1, <1>4, <1>5, WalkExists
<1>7. \A n \in 1..k : g[n] = g[n - 1] \o Only(m.blocks[n].text, i, P)
  <2> TAKE n \in 1..k
  <2>1. n - 1 \in 0..k BY <1>1
  <2>2. g[n - 1] \in Texts BY <2>1
  <2> QED BY <1>3, <1>6, <2>2 DEF Walks
<1>8. g[0] = <<>> BY <1>6 DEF Walks
<1> QED BY <1>7, <1>8 DEF Gathers, k

LEMMA ReceivedIs ==
  ASSUME NEW m \in Msg, NEW i, NEW P, NEW g, Gathers(g, m, i, P)
  PROVE  Received(m, i, P) = g[Len(m.blocks)]
<1> DEFINE k == Len(m.blocks)
           Rec(h) == h = [n \in 0..Len(m.blocks) |->
                       IF n = 0 THEN <<>> ELSE h[n - 1] \o Only(m.blocks[n].text, i, P)]
           it == CHOOSE h : Rec(h)
           f == [n \in 0..k |-> g[n]]
<1>1. k \in Nat BY BlockTexts
<1>2. Rec(f)
  <2>1. \A n \in 1..k : n - 1 \in 0..k BY <1>1
  <2>2. ASSUME NEW n \in 0..k
        PROVE  f[n] = IF n = 0 THEN <<>> ELSE f[n - 1] \o Only(m.blocks[n].text, i, P)
    <3>1. CASE n = 0 BY <3>1 DEF Gathers
    <3>2. CASE n # 0
      <4>1. n \in 1..k BY <1>1, <3>2
      <4>2. f[n - 1] = g[n - 1] /\ f[n] = g[n] BY <2>1, <4>1
      <4>3. g[n] = g[n - 1] \o Only(m.blocks[n].text, i, P) BY <4>1 DEF Gathers
      <4> HIDE DEF f
      <4> QED BY <3>2, <4>2, <4>3
    <3> QED BY <3>1, <3>2
  <2> QED BY <2>2
<1>3. Rec(it) BY <1>2
<1>4. Received(m, i, P) = it[k] BY DEF Received
<1> HIDE DEF it, f
<1>5. it[0] = g[0] BY <1>1, <1>3 DEF Gathers
<1>6. ASSUME NEW n \in 1..k, it[n - 1] = g[n - 1] PROVE it[n] = g[n]
  <2>1. n \in 0..k /\ n # 0 BY <1>1
  <2>2. it[n] = it[n - 1] \o Only(m.blocks[n].text, i, P) BY <1>3, <2>1
  <2>3. g[n] = g[n - 1] \o Only(m.blocks[n].text, i, P) BY DEF Gathers
  <2> QED BY <1>6, <2>2, <2>3
<1> HIDE DEF k
<1>7. it[k] = g[k] BY <1>1, <1>5, <1>6, Together
<1> QED BY <1>4, <1>7 DEF k

LEMMA ReceivedType == ASSUME NEW m \in Msg, NEW i, NEW P PROVE Received(m, i, P) \in Texts
<1>1. PICK g \in [0..Len(m.blocks) -> Texts] : Gathers(g, m, i, P) BY GathersExists
<1>2. Len(m.blocks) \in 0..Len(m.blocks) BY BlockTexts
<1> QED BY <1>1, <1>2, ReceivedIs

\* The first k blocks have the same texts.
SameTexts(y, z, k) == \A n \in 1..k : y.blocks[n].text = z.blocks[n].text

LEMMA ReceivedSame ==
  ASSUME NEW z \in Msg, NEW y \in Msg, Len(y.blocks) = Len(z.blocks),
         SameTexts(y, z, Len(z.blocks)), NEW i, NEW P
  PROVE  Received(y, i, P) = Received(z, i, P)
<1>1. PICK g \in [0..Len(z.blocks) -> Texts] : Gathers(g, z, i, P) BY GathersExists
<1>2. Gathers(g, y, i, P) BY <1>1 DEF Gathers, SameTexts
<1>3. Received(z, i, P) = g[Len(z.blocks)] BY <1>1, ReceivedIs
<1>4. Received(y, i, P) = g[Len(y.blocks)] BY <1>2, ReceivedIs
<1> QED BY <1>3, <1>4

\* A block more.
OneMore(y, z) == Len(y.blocks) = Len(z.blocks) + 1 /\ SameTexts(y, z, Len(z.blocks))

LEMMA ReceivedNext ==
  ASSUME NEW z \in Msg, NEW y \in Msg, OneMore(y, z), NEW i, NEW P
  PROVE  Received(y, i, P) = Received(z, i, P) \o Only(LastBlock(y).text, i, P)
<1> DEFINE k == Len(z.blocks)
           t == y.blocks[k + 1].text
<1>0. Len(y.blocks) = k + 1 /\ SameTexts(y, z, k) /\ LastBlock(y).text = t BY DEF OneMore, LastBlock
<1>1. PICK g \in [0..Len(z.blocks) -> Texts] : Gathers(g, z, i, P) BY GathersExists
<1>2. k \in Nat BY BlockTexts
<1> DEFINE h == [n \in 0..(k + 1) |-> IF n = k + 1 THEN g[k] \o Only(t, i, P) ELSE g[n]]
<1>3. h[k + 1] = g[k] \o Only(t, i, P) /\ \A n \in 0..k : h[n] = g[n]
  <2> HIDE DEF k, t
  <2>1. k + 1 \in 0..(k + 1) /\ \A n \in 0..k : n \in 0..(k + 1) /\ n # k + 1 BY <1>2
  <2> QED BY <2>1
<1> HIDE DEF h
<1>4. h[0] = <<>> BY <1>1, <1>2, <1>3 DEF Gathers
<1>5. ASSUME NEW n \in 1..(k + 1) PROVE h[n] = h[n - 1] \o Only(y.blocks[n].text, i, P)
  <2>1. CASE n = k + 1
    <3>1. h[k] = g[k] BY <1>2, <1>3
    <3>2. n - 1 = k BY <1>2, <2>1
    <3> HIDE DEF k
    <3> QED BY <1>3, <2>1, <3>1, <3>2
  <2>2. CASE n # k + 1
    <3>1. n \in 1..k /\ n - 1 \in 0..k /\ n \in 0..k BY <1>2, <2>2
    <3>2. g[n] = g[n - 1] \o Only(z.blocks[n].text, i, P) BY <1>1, <3>1 DEF Gathers
    <3>3. y.blocks[n].text = z.blocks[n].text BY <1>0, <3>1 DEF SameTexts
    <3> HIDE DEF k
    <3> QED BY <1>3, <3>1, <3>2, <3>3
  <2> QED BY <2>1, <2>2
<1>6. Gathers(h, y, i, P) BY <1>0, <1>4, <1>5 DEF Gathers
<1>7. Received(y, i, P) = h[Len(y.blocks)] BY <1>6, ReceivedIs
<1>8. Received(z, i, P) = g[Len(z.blocks)] BY <1>1, ReceivedIs
<1> QED BY <1>0, <1>3, <1>7, <1>8

\* Text more.
Longer(y, z, text) ==
  LET k == Len(z.blocks)
  IN /\ k > 0 /\ Len(y.blocks) = k /\ SameTexts(y, z, k - 1)
     /\ y.blocks[k].text = z.blocks[k].text \o text

LEMMA ReceivedMore ==
  ASSUME NEW z \in Msg, NEW y \in Msg, NEW text \in Texts, Longer(y, z, text), NEW i, NEW P
  PROVE  Received(y, i, P) = Received(z, i, P) \o Only(text, i, P)
<1> DEFINE k == Len(z.blocks)
           x == [z EXCEPT !.blocks = SubSeq(@, 1, k - 1)]
           u == z.blocks[k].text
<1>0. /\ k > 0 /\ Len(y.blocks) = k /\ SameTexts(y, z, k - 1)
      /\ y.blocks[k].text = u \o text
      BY DEF Longer
<1>1. k \in Nat \ {0} /\ z.blocks \in Seq(Block) /\ u \in Texts BY <1>0, BlockTexts, MsgFields
<1>2. /\ SubSeq(z.blocks, 1, k - 1) \in Seq(Block)
      /\ Len(SubSeq(z.blocks, 1, k - 1)) = k - 1
      /\ \A n \in 1..(k - 1) : SubSeq(z.blocks, 1, k - 1)[n] = z.blocks[n]
      BY <1>1
<1>3. /\ x \in Msg /\ Len(x.blocks) = k - 1
      /\ \A n \in 1..(k - 1) : x.blocks[n] = z.blocks[n]
      BY <1>2 DEF Msg
<1> HIDE DEF x
<1>4. Len(z.blocks) = Len(x.blocks) + 1 /\ Len(y.blocks) = Len(x.blocks) + 1 BY <1>0, <1>1, <1>3
<1>5. SameTexts(z, x, Len(x.blocks)) /\ SameTexts(y, x, Len(x.blocks)) BY <1>0, <1>3 DEF SameTexts
<1>6. Len(x.blocks) + 1 = k BY <1>4
<1>7. /\ Received(z, i, P) = Received(x, i, P) \o Only(z.blocks[k].text, i, P)
      /\ Received(y, i, P) = Received(x, i, P) \o Only(y.blocks[k].text, i, P)
  <2> HIDE DEF k
  <2>1. OneMore(z, x) /\ OneMore(y, x) BY <1>4, <1>5 DEF OneMore
  <2>2. Received(z, i, P) = Received(x, i, P) \o Only(LastBlock(z).text, i, P)
        BY <1>3, <2>1, ReceivedNext
  <2>3. Received(y, i, P) = Received(x, i, P) \o Only(LastBlock(y).text, i, P)
        BY <1>3, <2>1, ReceivedNext
  <2>4. LastBlock(z) = z.blocks[k] /\ LastBlock(y) = y.blocks[k] BY <1>0 DEF LastBlock, k
  <2> QED BY <2>2, <2>3, <2>4
<1>8. Only(y.blocks[k].text, i, P) = Only(u, i, P) \o Only(text, i, P)
  <2>1. y.blocks[k].text = u \o text BY <1>0
  <2> HIDE DEF u, k
  <2> QED BY <1>1, <2>1, OnlyJoins
<1>9. /\ Received(x, i, P) \in Seq(AnyPiece) /\ Only(u, i, P) \in Seq(AnyPiece)
      /\ Only(text, i, P) \in Seq(AnyPiece)
      BY <1>1, <1>3, OnlyType, ReceivedType, TextsAre
<1> HIDE DEF u
<1>10. Received(x, i, P) \o (Only(u, i, P) \o Only(text, i, P))
         = (Received(x, i, P) \o Only(u, i, P)) \o Only(text, i, P)
       BY <1>9, Associates
<1> QED BY <1>7, <1>8, <1>10 DEF u

-----------------------------------------------------------------------------
(* The events make one message, so what is known of one that they make is   *)
(* known of every one.                                                       *)

LEMMA DeliversOne ==
  ASSUME NEW w, NEW m \in Msg, NEW y, NEW z, Delivers(w, m, y), Delivers(w, m, z)
  PROVE  y = z
<1>1. PICK t \in [0..Len(w) -> Msg] :
         /\ t[0] = m /\ t[Len(w)] = y /\ \A n \in 1..Len(w) : Good(t[n - 1], w[n], t[n])
      BY DEF Delivers
<1>2. PICK u \in [0..Len(w) -> Msg] :
         /\ u[0] = m /\ u[Len(w)] = z /\ \A n \in 1..Len(w) : Good(u[n - 1], w[n], u[n])
      BY DEF Delivers
<1>3. Len(w) \in Nat BY DEF Delivers
<1>4. ASSUME NEW n \in 1..Len(w), t[n - 1] = u[n - 1] PROVE t[n] = u[n]
  <2>1. n - 1 \in 0..Len(w) BY <1>3
  <2>2. t[n - 1] \in Msg BY <2>1
  <2>3. t[n] = Fold(t[n - 1], w[n]) BY <1>1, <2>2, GoodFolds
  <2>4. u[n] = Fold(t[n - 1], w[n]) BY <1>2, <1>4, <2>2, GoodFolds
  <2> QED BY <2>3, <2>4
<1>5. t[Len(w)] = u[Len(w)] BY <1>1, <1>2, <1>3, <1>4, Together
<1> QED BY <1>1, <1>2, <1>5

LEMMA DeliversNext ==
  ASSUME NEW w, NEW m \in Msg, NEW z, Delivers(w, m, z), NEW e, NEW y, Delivers(Append(w, e), m, y)
  PROVE  y = Fold(z, e)
<1> DEFINE v == Append(w, e)
           k == Len(w)
<1>1. PICK t \in [0..Len(w) -> Msg] :
         /\ t[0] = m /\ t[Len(w)] = z /\ \A n \in 1..Len(w) : Good(t[n - 1], w[n], t[n])
      BY DEF Delivers
<1>2. PICK u \in [0..Len(v) -> Msg] :
         /\ u[0] = m /\ u[Len(v)] = y /\ \A n \in 1..Len(v) : Good(u[n - 1], v[n], u[n])
      BY DEF Delivers
<1>3. k \in Nat /\ Len(v) = k + 1 /\ v[k + 1] = e /\ \A n \in 1..k : v[n] = w[n] BY DEF Delivers
<1> HIDE DEF v, k
<1>a. \A n \in 1..k : Good(t[n - 1], w[n], t[n]) BY <1>1 DEF k
<1>4. ASSUME NEW n \in 1..k, t[n - 1] = u[n - 1] PROVE t[n] = u[n]
  <2>1. n - 1 \in 0..Len(v) /\ n \in 1..Len(v) /\ v[n] = w[n] BY <1>3
  <2>2. u[n - 1] \in Msg BY <2>1
  <2>3. t[n] = Fold(u[n - 1], w[n])
    <3>1. Good(u[n - 1], w[n], t[n]) BY <1>a, <1>4
    <3> QED BY <2>2, <3>1, GoodFolds
  <2>4. u[n] = Fold(u[n - 1], w[n])
    <3>1. Good(u[n - 1], w[n], u[n]) BY <1>2, <2>1
    <3> QED BY <2>2, <3>1, GoodFolds
  <2> QED BY <2>3, <2>4
<1>5. t[k] = u[k]
  <2>1. t[0] = u[0] BY <1>1, <1>2
  <2> QED BY <1>3, <1>4, <2>1, Together
<1>6. u[k + 1] = Fold(u[k], e)
  <2>1. k + 1 \in 1..Len(v) /\ k \in 0..Len(v) /\ (k + 1) - 1 = k BY <1>3
  <2>2. u[k] \in Msg BY <2>1
  <2>3. Good(u[(k + 1) - 1], v[k + 1], u[k + 1]) BY <1>2, <2>1
  <2>4. Good(u[k], e, u[k + 1]) BY <1>3, <2>1, <2>3
  <2> QED BY <2>2, <2>4, GoodFolds
<1> QED BY <1>1, <1>2, <1>3, <1>5, <1>6 DEF k

\* What y has of every item, and z had not, is what the text has of it.
HasMore(y, z, text) == \A i, P : Received(y, i, P) = Received(z, i, P) \o Only(text, i, P)
SameHad(y, z) == \A i, P : Received(y, i, P) = Received(z, i, P)

LEMMA StartShows ==
  ASSUME NEW s, NEW m \in Msg, NEW z, NEW y, At(s, m, z), At(StartMessage(s), m, y)
  PROVE  y.blocks = z.blocks /\ SameHad(y, z) /\ StartMessage(s).current = s.current
<1> DEFINE r == StartMessage(s)
<1>1. PICK x : At(r, m, x) /\ x.blocks = z.blocks BY StartOK
<1>2. r.current = s.current BY StartOK DEF Keeps, At, EmitterFields
<1>3. x = y BY <1>1, DeliversOne DEF At
<1>4. y \in Msg /\ z \in Msg /\ Len(y.blocks) = Len(z.blocks) /\ SameTexts(y, z, Len(z.blocks))
      BY <1>1, <1>3 DEF At, SameTexts
<1>5. SameHad(y, z) BY <1>4, ReceivedSame DEF SameHad
<1> QED BY <1>1, <1>2, <1>3, <1>5

LEMMA OpenShows ==
  ASSUME NEW s, NEW m \in Msg, NEW z, NEW y, At(s, m, z), Filled(z), s.started, NEW kind \in Kinds,
         At(OpenNext(s, kind), m, y)
  PROVE  LET k == Len(z.blocks)
         IN /\ OpenNext(s, kind).current = k + 1 /\ k \in Nat
            /\ Len(y.blocks) = k + 1 /\ y.blocks[k + 1].text = <<>> /\ y.blocks[k + 1].kind = kind
            /\ SameTexts(y, z, k) /\ SameHad(y, z)
<1> DEFINE r == OpenNext(s, kind)
           k == Len(z.blocks)
<1>1. PICK x : /\ At(r, m, x) /\ Len(x.blocks) = k + 1 /\ x.blocks[k + 1] = NewBlock(kind)
               /\ \A i \in 1..k : SameBlock(x, z, i)
      BY OpenOK
<1>2. r.current = k + 1 BY OpenOK
<1>3. x = y BY <1>1, DeliversOne DEF At
<1>4. y \in Msg /\ z \in Msg /\ k \in Nat BY MsgFields DEF At
<1> HIDE DEF r, k
<1>5. SameTexts(y, z, k) BY <1>1, <1>3 DEF SameTexts, SameBlock
<1>6. LastBlock(y).text = <<>> /\ y.blocks[k + 1].text = <<>> /\ y.blocks[k + 1].kind = kind
      BY <1>1, <1>3, NewBlockWell DEF LastBlock
<1>7. OneMore(y, z) BY <1>1, <1>3, <1>5 DEF OneMore, k
<1>8. ASSUME NEW i, NEW P PROVE Received(y, i, P) = Received(z, i, P)
  <2>1. Received(y, i, P) = Received(z, i, P) \o Only(<<>>, i, P) BY <1>4, <1>6, <1>7, ReceivedNext
  <2>2. <<>> \in Texts /\ Len(<<>>) = 0 BY TextsAre
  <2>3. Only(<<>>, i, P) = <<>> BY <2>2, OnlyNone
  <2>4. Received(z, i, P) \in Seq(AnyPiece) BY <1>4, ReceivedType, TextsAre
  <2> QED BY <2>1, <2>3, <2>4
<1> QED BY <1>1, <1>2, <1>3, <1>4, <1>5, <1>6, <1>8 DEF SameHad, r, k

\* The block open in s, z's number k and its last, has the text more in y, where r
\* stands.
Written(r, s, z, y, k, text) ==
  /\ k = Len(z.blocks)
  /\ s.current = k /\ k \in Nat \ {0} /\ r.current = k /\ Len(y.blocks) = k
  /\ y.blocks[k].text = z.blocks[k].text \o text
  /\ SameTexts(y, z, k - 1) /\ HasMore(y, z, text)

LEMMA WriteShows ==
  ASSUME NEW s, NEW m \in Msg, NEW z, NEW y, At(s, m, z), s.current # 0, NEW text \in Texts,
         At(Write(s, text), m, y)
  PROVE  Written(Write(s, text), s, z, y, Len(z.blocks), text)
<1> DEFINE r == Write(s, text)
           k == Len(z.blocks)
<1>1. s.current = k /\ k \in Nat \ {0} /\ z \in Msg /\ y \in Msg /\ Delivers(s.out, m, z)
      /\ Delivers(r.out, m, y)
      BY MsgFields DEF At
<1>2. r.out = Append(s.out, BlockDelta(k, text)) /\ r.current = s.current
  <2>1. s = [x \in DOMAIN s |-> s[x]] /\ EmitterFields \subseteq DOMAIN s BY DEF At
  <2>2. r = Emit(s, BlockDelta(k, text)) BY <1>1 DEF Write
  <2> QED BY <2>1, <2>2, EmitIs DEF Keeps, EmitterFields
<1>3. y = Fold(z, BlockDelta(k, text)) BY <1>1, <1>2, DeliversNext
<1>4. y = Extended(z, text)
  <2>1. k \in DOMAIN z.blocks BY <1>1, MsgFields
  <2>2. /\ BlockDelta(k, text).type = "content_block_delta" /\ BlockDelta(k, text).index = k
        /\ BlockDelta(k, text).text = text
        BY DEF BlockDelta
  <2> QED BY <1>3, <2>1, <2>2 DEF Fold, Extended
<1>5. Opened(z)
  <2>1. z.blocks[k].open BY <1>1 DEF At
  <2> QED BY <1>1, <2>1 DEF Opened, LastBlock
<1>6. /\ Len(y.blocks) = k /\ y.blocks[k].text = z.blocks[k].text \o text
      /\ \A i \in 1..(k - 1) : y.blocks[i] = z.blocks[i]
  <2> DEFINE x == Extended(z, text)
  <2>1. /\ Len(x.blocks) = Len(z.blocks) /\ LastBlock(x).text = LastBlock(z).text \o text
        /\ \A i \in 1..(Len(z.blocks) - 1) : x.blocks[i] = z.blocks[i]
    <3> HIDE DEF k, r
    <3> QED BY <1>1, <1>5, ExtendedIs
  <2> HIDE DEF x
  <2>2. x = y BY <1>4 DEF x
  <2> QED BY <2>1, <2>2 DEF LastBlock
<1>7. SameTexts(y, z, k - 1) BY <1>6 DEF SameTexts
<1>8. HasMore(y, z, text)
  <2> SUFFICES ASSUME NEW i, NEW P PROVE Received(y, i, P) = Received(z, i, P) \o Only(text, i, P)
      BY DEF HasMore
  <2>1. Longer(y, z, text) BY <1>1, <1>6, <1>7 DEF Longer
  <2> QED BY <1>1, <2>1, ReceivedMore
<1>9. Written(r, s, z, y, k, text)
  <2>1. r.current = k BY <1>1, <1>2
  <2> HIDE DEF r, k
  <2>2. k = Len(z.blocks) BY DEF k
  <2> QED BY <1>1, <1>6, <1>7, <1>8, <2>1, <2>2 DEF Written
<1> QED BY <1>9 DEF r, k

-----------------------------------------------------------------------------
(* What the translator of the Chat wire has shown *)

LEMMA PieceMore ==
  ASSUME NEW i \in Nat, NEW p \in ItemParts, NEW n \in Nat
  PROVE  /\ Pieces(i, p, 0) = <<>> /\ Pieces(i, p, n) \in Texts /\ <<Piece(i, p, n + 1)>> \in Texts
         /\ Pieces(i, p, n) \o <<Piece(i, p, n + 1)>> = Pieces(i, p, n + 1)
<1> DEFINE e == Piece(i, p, n + 1)
           u == Pieces(i, p, n)
           w == Pieces(i, p, n + 1)
<1>1. \A j \in 1..(n + 1) : Piece(i, p, j) \in AnyPiece
      BY DEF Piece, AnyPiece, ItemParts, PieceParts
<1>2. /\ u \in Seq(AnyPiece) /\ Len(u) = n /\ e \in AnyPiece
      /\ w \in Seq(AnyPiece) /\ Len(w) = n + 1 /\ w[n + 1] = e
      /\ \A j \in 1..n : u[j] = w[j]
      BY <1>1 DEF Pieces
<1>3. Pieces(i, p, 0) = <<>> BY DEF Pieces
<1> HIDE DEF e, u, w
<1>4. /\ u \o <<e>> \in Seq(AnyPiece) /\ Len(u \o <<e>>) = n + 1 /\ (u \o <<e>>)[n + 1] = e
      /\ \A j \in 1..n : (u \o <<e>>)[j] = u[j]
      BY <1>2
<1>5. \A j \in 1..(n + 1) : (u \o <<e>>)[j] = w[j]
  <2> TAKE j \in 1..(n + 1)
  <2>1. j \in 1..n \/ j = n + 1 OBVIOUS
  <2> QED BY <1>2, <1>4, <2>1
<1>6. u \o <<e>> = w BY <1>2, <1>4, <1>5, SeqEqual
<1>7. <<e>> \in Texts /\ u \in Texts BY <1>2, TextsAre
<1> QED BY <1>3, <1>6, <1>7 DEF e, u, w

LEMMA ChatPiecesAre ==
  /\ \A p, n : ChatText(p, n) = Piece(0, p, n)
  /\ \A c, n : Argument(c, n) = Piece(c, "args", n)
BY DEF ChatText, Argument, Piece

\* A text of one piece.
LEMMA OnlyOne ==
  ASSUME NEW piece, <<piece>> \in Texts, NEW i, NEW P
  PROVE  Only(<<piece>>, i, P) = IF Mine(piece, i, P) THEN <<piece>> ELSE <<>>
<1> DEFINE t == <<piece>>
<1>1. Len(t) = 1 /\ t[1] = piece /\ t \in Texts OBVIOUS
<1> HIDE DEF t
<1>2. \A n \in 1..Len(t) : t[n] = piece BY <1>1
<1>3. Only(t, i, P) = IF Mine(piece, i, P) THEN t ELSE <<>> BY <1>1, <1>2, OnlyAll, OnlyNone
<1> QED BY <1>3 DEF t

\* A call's block has its arguments, up to the last that came unless another
\* block follows; n have come.
CallShown(s, z, c, n) ==
  LET b == s.block[c]
      got == Received(z, c, {"args"})
  IN /\ n # 0 => b # 0 \/ c \in s.dropped
     /\ b = 0 => got = <<>>
     /\ b # 0 => /\ z.blocks[b].text = got
                 /\ \E k \in 0..n : got = Pieces(c, "args", k) /\ (k = n \/ b < Len(z.blocks))

\* The message has what upstream has said, and the last block is the current.
ChatShows(s, z, said, args) ==
  /\ s.current = Len(z.blocks)
  /\ \A p \in ChatParts : Received(z, 0, {p}) = Pieces(0, p, said[p])
  /\ \A c \in Calls : CallShown(s, z, c, args[c])

\* Blocks that stay as they are.
LEMMA CallKept ==
  ASSUME NEW s, NEW r, NEW z, NEW y, NEW c, NEW n, CallShown(s, z, c, n),
         r.block[c] = s.block[c], c \in s.dropped => c \in r.dropped,
         Received(y, c, {"args"}) = Received(z, c, {"args"}),
         Len(z.blocks) \in Nat, Len(y.blocks) \in Nat, Len(z.blocks) <= Len(y.blocks),
         s.block[c] # 0 => s.block[c] \in Nat /\ y.blocks[s.block[c]].text = z.blocks[s.block[c]].text
  PROVE  CallShown(r, y, c, n)
<1>1. ASSUME s.block[c] # 0, NEW k, k = n \/ s.block[c] < Len(z.blocks) PROVE k = n \/ s.block[c] < Len(y.blocks)
      BY <1>1
<1> QED BY <1>1 DEF CallShown

LEMMA ChatOpenShows ==
  ASSUME NEW s, NEW m \in Msg, NEW z, NEW y, ChatOK(s, m, z), s.started, NEW kind \in Kinds,
         At(OpenNext(s, kind), m, y), NEW said, NEW args, ChatShows(s, z, said, args)
  PROVE  ChatShows(OpenNext(s, kind), y, said, args)
<1> DEFINE r == OpenNext(s, kind)
           k == Len(z.blocks)
<1>1. s \in ChatRec /\ At(s, m, z) /\ Decent(z) /\ Owned(s, z) /\ z \in Msg BY DEF ChatOK, At
<1>2. /\ r.current = k + 1 /\ k \in Nat /\ Len(y.blocks) = k + 1
      /\ SameTexts(y, z, k) /\ SameHad(y, z)
      BY <1>1, DecentFilled, OpenShows
<1>3. r.block = s.block /\ r.dropped = s.dropped BY ChatOpens
<1> HIDE DEF r
<1>4. ASSUME NEW c \in Calls PROVE CallShown(r, y, c, args[c])
  <2>1. CallShown(s, z, c, args[c]) BY DEF ChatShows
  <2>2. s.block[c] # 0 => s.block[c] \in 1..k BY <1>1 DEF Owned
  <2>3. s.block[c] # 0 => s.block[c] \in Nat /\ y.blocks[s.block[c]].text = z.blocks[s.block[c]].text
        BY <1>2, <2>2 DEF SameTexts
  <2>4. Received(y, c, {"args"}) = Received(z, c, {"args"}) BY <1>2 DEF SameHad
  <2>5. Len(z.blocks) \in Nat /\ Len(y.blocks) \in Nat /\ Len(z.blocks) <= Len(y.blocks) BY <1>2
  <2>6. r.block[c] = s.block[c] /\ (c \in s.dropped => c \in r.dropped) BY <1>3
  <2> HIDE DEF k
  <2> QED BY <2>1, <2>3, <2>4, <2>5, <2>6, CallKept
<1>5. \A p \in ChatParts : Received(y, 0, {p}) = Pieces(0, p, said[p])
      BY <1>2 DEF ChatShows, SameHad
<1>6. r.current = Len(y.blocks) BY <1>2
<1> QED BY <1>4, <1>5, <1>6 DEF ChatShows, r

LEMMA WriteKeeps ==
  ASSUME NEW s \in ChatRec, NEW text
  PROVE  LET r == Write(s, text)
         IN /\ r.block = s.block /\ r.dropped = s.dropped /\ r.current = s.current
            /\ r.stop = s.stop /\ r.started = s.started
BY DEF Write, Emit, ChatRec

\* Reasoning or content is written.
LEMMA ChatTextShows ==
  ASSUME NEW s \in ChatRec, NEW m \in Msg, NEW z, NEW y, At(s, m, z), Owned(s, z), s.current # 0,
         NEW said \in [ChatParts -> Nat], NEW args, ChatShows(s, z, said, args),
         NEW p \in ChatParts, z.blocks[s.current].kind = p,
         At(Write(s, <<ChatText(p, said[p] + 1)>>), m, y)
  PROVE  ChatShows(Write(s, <<ChatText(p, said[p] + 1)>>), y, [said EXCEPT ![p] = @ + 1], args)
<1> DEFINE piece == Piece(0, p, said[p] + 1)
           text == <<piece>>
           r == Write(s, text)
           k == Len(z.blocks)
           sd == [said EXCEPT ![p] = @ + 1]
<1>1. p \in ItemParts /\ p # "tool" /\ p # "args" /\ said[p] \in Nat BY DEF ChatParts, ItemParts
<1>2. piece = ChatText(p, said[p] + 1) BY ChatPiecesAre
<1>3. text \in Texts /\ Pieces(0, p, said[p]) \o text = Pieces(0, p, said[p] + 1) BY <1>1, PieceMore
<1>4. /\ s.current = k /\ k \in Nat \ {0} /\ r.current = k /\ Len(y.blocks) = k
      /\ SameTexts(y, z, k - 1) /\ HasMore(y, z, text)
  <2>1. At(Write(s, text), m, y) BY <1>2
  <2>2. text \in Texts BY <1>3
  <2> HIDE DEF text, sd, r, k, piece
  <2>3. Written(Write(s, text), s, z, y, Len(z.blocks), text) BY <2>1, <2>2, WriteShows
  <2>4. Written(r, s, z, y, k, text) BY <2>3 DEF r, k
  <2> QED BY <2>4 DEF Written
<1>5. r.block = s.block /\ r.dropped = s.dropped BY WriteKeeps
<1>6. Received(z, 0, {p}) \in Texts /\ \A c, P : Received(z, c, P) \in Seq(AnyPiece)
      BY ReceivedType, TextsAre DEF At
<1>7. piece.item = 0 /\ piece.part = p BY DEF Piece
<1> HIDE DEF piece
<1>8. \A i, P : Only(text, i, P) = IF Mine(piece, i, P) THEN text ELSE <<>>
      BY <1>3, OnlyOne
<1> HIDE DEF text, r
<1>9. ASSUME NEW q \in ChatParts PROVE Received(y, 0, {q}) = Pieces(0, q, sd[q])
  <2>1. Received(y, 0, {q}) = Received(z, 0, {q}) \o Only(text, 0, {q}) BY <1>4 DEF HasMore
  <2>2. Received(z, 0, {q}) = Pieces(0, q, said[q]) BY DEF ChatShows
  <2>3. CASE q = p
    <3>1. Mine(piece, 0, {q}) BY <1>7, <2>3 DEF Mine
    <3>2. sd[q] = said[p] + 1 BY <2>3
    <3> QED BY <1>3, <1>8, <2>1, <2>2, <2>3, <3>1, <3>2
  <2>4. CASE q # p
    <3>1. ~Mine(piece, 0, {q}) BY <1>7, <2>4 DEF Mine
    <3>2. sd[q] = said[q] BY <2>4
    <3>3. Received(z, 0, {q}) \o <<>> = Received(z, 0, {q}) BY <1>6
    <3> QED BY <1>8, <2>1, <2>2, <3>1, <3>2, <3>3
  <2> QED BY <2>3, <2>4
<1>10. ASSUME NEW c \in Calls PROVE CallShown(r, y, c, args[c])
  <2>1. CallShown(s, z, c, args[c]) BY DEF ChatShows
  <2>2. s.block[c] # 0 => s.block[c] \in 1..k /\ s.block[c] # k
        BY <1>1, <1>4 DEF Owned
  <2>3. s.block[c] # 0 => s.block[c] \in Nat /\ y.blocks[s.block[c]].text = z.blocks[s.block[c]].text
    <3> SUFFICES ASSUME s.block[c] # 0
                 PROVE  s.block[c] \in Nat /\ y.blocks[s.block[c]].text = z.blocks[s.block[c]].text
        OBVIOUS
    <3>1. s.block[c] \in 1..(k - 1) /\ s.block[c] \in Nat BY <1>4, <2>2
    <3>2. SameTexts(y, z, k - 1) BY <1>4
    <3> HIDE DEF k
    <3> QED BY <3>1, <3>2 DEF SameTexts
  <2>4. Received(y, c, {"args"}) = Received(z, c, {"args"})
    <3>1. Received(y, c, {"args"}) = Received(z, c, {"args"}) \o Only(text, c, {"args"}) BY <1>4 DEF HasMore
    <3>2. ~Mine(piece, c, {"args"}) BY <1>1, <1>7 DEF Mine
    <3>3. Received(z, c, {"args"}) \o <<>> = Received(z, c, {"args"}) BY <1>6
    <3> QED BY <1>8, <3>1, <3>2, <3>3
  <2>5. Len(z.blocks) \in Nat /\ Len(y.blocks) \in Nat /\ Len(z.blocks) <= Len(y.blocks) BY <1>4
  <2>6. r.block[c] = s.block[c] /\ (c \in s.dropped => c \in r.dropped) BY <1>5
  <2> HIDE DEF k
  <2> QED BY <2>1, <2>3, <2>4, <2>5, <2>6, CallKept
<1>11. ChatShows(r, y, sd, args)
  <2>1. r.current = Len(y.blocks) BY <1>4
  <2> HIDE DEF sd
  <2> QED BY <1>9, <1>10, <2>1 DEF ChatShows
<1> QED BY <1>2, <1>11 DEF r, text

\* What a chunk has of reasoning or of content.
LEMMA ChatPartShows ==
  ASSUME ChatTypeOK, NEW s, NEW m \in Msg, NEW z, ChatOK(s, m, z), s.started,
         NEW p \in ChatParts, NEW said, NEW sd \in [ChatParts -> Nat], sd[p] = cup.said[p],
         NEW ar, ChatShows(s, z, sd, ar), NEW y, ChatOK(WritePart(s, p, said), m, y)
  PROVE  ChatShows(WritePart(s, p, said), y, IF p \in said THEN [sd EXCEPT ![p] = @ + 1] ELSE sd, ar)
<1>0. s \in ChatRec /\ At(s, m, z) /\ Decent(z) /\ Owned(s, z) /\ At(WritePart(s, p, said), m, y)
      BY DEF ChatOK
<1>1. CASE p \notin said
  <2>1. WritePart(s, p, said) = s BY <1>1 DEF WritePart
  <2>2. y = z BY <1>0, <2>1, DeliversOne DEF At
  <2> QED BY <1>1, <2>1, <2>2
<1>2. CASE p \in said
  <2> DEFINE o == IF s.kind = p THEN s ELSE OpenNext(s, p)
  <2>1. p \in Kinds /\ p # "none" BY DEF ChatParts, Kinds
  <2>2. WritePart(s, p, said) = Write(o, <<ChatText(p, sd[p] + 1)>>) BY <1>2 DEF WritePart
  <2>3. PICK x : /\ o \in ChatRec /\ At(o, m, x) /\ Owned(o, x) /\ o.current # 0
                 /\ x.blocks[o.current].kind = p /\ ChatShows(o, x, sd, ar)
    <3>1. CASE s.kind = p
      <4>1. s.current # 0 /\ z.blocks[s.current].kind = p BY <1>0, <2>1, <3>1 DEF At
      <4> QED BY <1>0, <3>1, <4>1
    <3>2. CASE s.kind # p
      <4> DEFINE r == OpenNext(s, p)
                 k == Len(z.blocks)
      <4>1. PICK x : /\ r \in ChatRec /\ r.current = k + 1 /\ k \in Nat
                     /\ At(r, m, x) /\ x.blocks[k + 1].kind = p /\ Owned(r, x)
            BY <2>1, ChatOpens
      <4>2. ChatShows(r, x, sd, ar) BY <2>1, <4>1, ChatOpenShows
      <4> HIDE DEF k
      <4>3. r.current # 0 /\ x.blocks[r.current].kind = p BY <4>1
      <4>4. o = r BY <3>2
      <4> HIDE DEF r, o
      <4> QED BY <4>1, <4>2, <4>3, <4>4
    <3> QED BY <3>1, <3>2
  <2> HIDE DEF o
  <2>4. At(Write(o, <<ChatText(p, sd[p] + 1)>>), m, y) BY <1>0, <2>2
  <2>5. ChatShows(Write(o, <<ChatText(p, sd[p] + 1)>>), y, [sd EXCEPT ![p] = @ + 1], ar)
        BY <2>3, <2>4, ChatTextShows
  <2> QED BY <1>2, <2>2, <2>5
<1> QED BY <1>1, <1>2

\* The announcement of a call.
LEMMA ChatCallShows ==
  ASSUME ChatTypeOK, NEW s, NEW m \in Msg, NEW z, ChatOK(s, m, z), s.started,
         NEW c \in Calls, NEW sd, NEW ar, ChatShows(s, z, sd, ar),
         NEW y, ChatOK(OpenChatCall(s, c), m, y)
  PROVE  ChatShows(OpenChatCall(s, c), y, sd, ar)
<1> DEFINE r == OpenChatCall(s, c)
<1>0. s \in ChatRec /\ At(s, m, z) /\ Decent(z) /\ Owned(s, z) /\ At(r, m, y) /\ z \in Msg /\ y \in Msg
      BY DEF ChatOK, At
<1>1. CASE s.block[c] # 0 \/ c \in s.dropped
  <2>1. r = s BY <1>1 DEF OpenChatCall
  <2>2. y = z BY <1>0, <2>1, DeliversOne DEF At
  <2> QED BY <2>1, <2>2
<1>2. CASE ~(s.block[c] # 0 \/ c \in s.dropped) /\ c \in gate
  <2>1. r = [s EXCEPT !.dropped = @ \cup {c}] BY <1>2 DEF OpenChatCall
  <2>2. /\ r.block = s.block /\ r.current = s.current /\ r.out = s.out
        /\ s.dropped \subseteq r.dropped
        BY <1>0, <2>1 DEF ChatRec
  <2>3. y = z BY <1>0, <2>2, DeliversOne DEF At
  <2>4. \A d \in Calls : CallShown(r, y, d, ar[d])
        BY <2>2, <2>3 DEF ChatShows, CallShown
  <2> HIDE DEF r
  <2>5. ChatShows(r, y, sd, ar) BY <2>2, <2>3, <2>4 DEF ChatShows
  <2> QED BY <2>5 DEF r
<1>3. CASE ~(s.block[c] # 0 \/ c \in s.dropped) /\ c \notin gate
  <2> DEFINE b == OpenNext(s, "tool")
             k == Len(z.blocks)
  <2>1. "tool" \in Kinds BY DEF Kinds
  <2>2. PICK x : /\ b \in ChatRec /\ b.current = k + 1 /\ k \in Nat
                 /\ b.block = s.block /\ b.dropped = s.dropped
                 /\ At(b, m, x) /\ Len(x.blocks) = k + 1 /\ x.blocks[k + 1].text = <<>>
                 /\ \A i \in 1..k : SameBlock(x, z, i)
        BY <2>1, ChatOpens
  <2>3. ChatShows(b, x, sd, ar) BY <2>1, <2>2, ChatOpenShows
  <2>4. r = [b EXCEPT !.block[c] = b.current] BY <1>3 DEF OpenChatCall
  <2> HIDE DEF b
  <2>5. /\ r.block[c] = k + 1 /\ \A d \in Calls : d # c => r.block[d] = b.block[d]
        /\ r.dropped = b.dropped /\ r.current = b.current /\ r.out = b.out
        BY <2>2, <2>4 DEF ChatRec
  <2>6. y = x BY <1>0, <2>2, <2>5, DeliversOne DEF At
  <2> HIDE DEF r
  <2>7. ASSUME NEW d \in Calls PROVE CallShown(r, x, d, ar[d])
    <3>1. CallShown(b, x, d, ar[d]) BY <2>3 DEF ChatShows
    <3>2. CASE d # c BY <2>5, <3>1, <3>2 DEF CallShown
    <3>3. CASE d = c
      <4>1. b.block[c] = 0 /\ c \notin b.dropped BY <1>3, <2>2
      <4>2. ar[c] = 0 /\ Received(x, c, {"args"}) = <<>> BY <3>1, <3>3, <4>1 DEF CallShown
      <4>3. Pieces(c, "args", 0) = <<>> BY DEF Pieces
      <4>4. k + 1 # 0 BY <2>2
      <4> QED BY <2>2, <2>5, <3>3, <4>2, <4>3, <4>4 DEF CallShown
    <3> QED BY <3>2, <3>3
  <2>8. ChatShows(r, x, sd, ar) BY <2>3, <2>5, <2>7 DEF ChatShows
  <2> QED BY <2>6, <2>8 DEF r
<1> QED BY <1>1, <1>2, <1>3

\* A fragment of a call.
LEMMA ChatFragmentShows ==
  ASSUME ChatTypeOK, NEW s, NEW m \in Msg, NEW z, ChatOK(s, m, z), s.started,
         NEW f \in Fragments, NEW N \in SUBSET Calls, HasBlocks(s, N),
         NEW sd, NEW ar \in [Calls -> Nat], f.args => ar[f.call] = cup.args[f.call],
         ChatShows(s, z, sd, ar), NEW y, ChatOK(WriteFragment(s, f), m, y)
  PROVE  ChatShows(WriteFragment(s, f), y, sd, IF f.args THEN [ar EXCEPT ![f.call] = @ + 1] ELSE ar)
<1> DEFINE c == f.call
           o == OpenChatCall(s, c)
           writes == f.args /\ c \notin o.dropped /\ o.block[c] = o.current
           more == [ar EXCEPT ![c] = @ + 1]
           r == WriteFragment(s, f)
<1>1. c \in Calls /\ c \in Nat /\ c # 0 /\ ar[c] \in Nat
      BY ChatPieces DEF Fragments
<1>2. PICK x : ChatOK(o, m, x) BY <1>1, ChatCalls
<1>3. (o.block[c] # 0 \/ c \in o.dropped) /\ HasBlocks(o, N \cup {c}) BY <1>1, ChatCalls
<1>4. ChatShows(o, x, sd, ar) BY <1>1, <1>2, ChatCallShows
<1>5. r = IF writes THEN Write(o, <<Argument(c, cup.args[c] + 1)>>) ELSE o BY DEF WriteFragment
<1>6. /\ o \in ChatRec /\ At(o, m, x) /\ Owned(o, x) /\ x \in Msg /\ At(r, m, y) /\ y \in Msg
      /\ Len(x.blocks) \in Nat
      BY <1>2, MsgFields DEF ChatOK, At
<1>7. c \in o.dropped => o.block[c] = 0 BY <1>1, <1>3 DEF HasBlocks
<1>8. CallShown(o, x, c, ar[c]) /\ o.current = Len(x.blocks) BY <1>1, <1>4 DEF ChatShows
<1>9. more[c] = ar[c] + 1 /\ \A d \in Calls : d # c => more[d] = ar[d] BY <1>1
<1> HIDE DEF o, more, c
<1>10. CASE ~writes
  <2>1. r = o BY <1>5, <1>10
  <2>2. y = x BY <1>6, <2>1, DeliversOne DEF At
  <2>3. CASE ~f.args BY <1>4, <2>1, <2>2, <2>3
  <2>4. CASE f.args
    <3>1. o.block[c] # 0 => o.block[c] < Len(x.blocks)
      <4> SUFFICES ASSUME o.block[c] # 0 PROVE o.block[c] < Len(x.blocks) OBVIOUS
      <4>1. o.block[c] # Len(x.blocks) BY <1>7, <1>8, <1>10, <2>4
      <4>2. o.block[c] \in 1..Len(x.blocks) BY <1>1, <1>6 DEF Owned
      <4> QED BY <1>6, <4>1, <4>2
    <3>2. CallShown(o, x, c, ar[c] + 1)
      <4>1. o.block[c] # 0 =>
              \E k \in 0..(ar[c] + 1) : /\ Received(x, c, {"args"}) = Pieces(c, "args", k)
                                        /\ (k = ar[c] + 1 \/ o.block[c] < Len(x.blocks))
        <5> SUFFICES ASSUME o.block[c] # 0
                     PROVE  \E k \in 0..(ar[c] + 1) : Received(x, c, {"args"}) = Pieces(c, "args", k)
            BY <3>1
        <5>1. PICK k \in 0..ar[c] : Received(x, c, {"args"}) = Pieces(c, "args", k)
              BY <1>8 DEF CallShown
        <5>2. k \in 0..(ar[c] + 1) BY <1>1
        <5> QED BY <5>1, <5>2
      <4> QED BY <1>3, <1>8, <4>1 DEF CallShown
    <3>3. \A d \in Calls : CallShown(o, x, d, more[d])
      <4> TAKE d \in Calls
      <4>1. CASE d = c BY <1>9, <3>2, <4>1
      <4>2. CASE d # c BY <1>4, <1>9, <4>2 DEF ChatShows
      <4> QED BY <4>1, <4>2
    <3>4. ChatShows(o, x, sd, more) BY <1>4, <3>3 DEF ChatShows
    <3> QED BY <2>1, <2>2, <2>4, <3>4 DEF more, c
  <2> QED BY <2>3, <2>4
<1>11. CASE writes
  <2> DEFINE n == ar[c]
             piece == Piece(c, "args", n + 1)
             text == <<piece>>
             k == Len(x.blocks)
  <2>1. f.args /\ o.block[c] = k /\ o.block[c] # 0 /\ ar[c] = cup.args[c]
        BY <1>3, <1>8, <1>11 DEF c
  <2>2. r = Write(o, text)
    <3>1. Argument(c, cup.args[c] + 1) = piece BY <2>1, ChatPiecesAre
    <3> HIDE DEF piece, writes
    <3> QED BY <1>5, <1>11, <3>1
  <2>3. "args" \in ItemParts BY DEF ItemParts
  <2>4. text \in Texts /\ Pieces(c, "args", n) \o text = Pieces(c, "args", n + 1)
        BY <1>1, <2>3, PieceMore
  <2>5. piece.item = c /\ piece.part = "args" BY DEF Piece
  <2> HIDE DEF piece
  <2>6. \A i, P : Only(text, i, P) = IF Mine(piece, i, P) THEN text ELSE <<>>
        BY <2>4, OnlyOne
  <2>7. /\ o.current = k /\ k \in Nat \ {0} /\ r.current = k /\ Len(y.blocks) = k
        /\ y.blocks[k].text = x.blocks[k].text \o text
        /\ SameTexts(y, x, k - 1) /\ HasMore(y, x, text)
    <3>1. At(Write(o, text), m, y) BY <1>6, <2>2
    <3>2. text \in Texts BY <2>4
    <3>3. o.current # 0 BY <1>8, <2>1
    <3> HIDE DEF text, r, k
    <3>4. Written(Write(o, text), o, x, y, Len(x.blocks), text)
          BY <1>6, <3>1, <3>2, <3>3, WriteShows
    <3>5. Written(r, o, x, y, k, text) BY <2>2, <3>4 DEF k
    <3> QED BY <3>5 DEF Written
  <2>8. r.block = o.block /\ r.dropped = o.dropped BY <1>6, <2>2, WriteKeeps
  <2>9. \A i, P : Received(x, i, P) \in Seq(AnyPiece) BY <1>6, ReceivedType, TextsAre
  <2> HIDE DEF text, r, n
  <2>10. ASSUME NEW q \in ChatParts PROVE Received(y, 0, {q}) = Pieces(0, q, sd[q])
    <3>1. Received(y, 0, {q}) = Received(x, 0, {q}) \o Only(text, 0, {q}) BY <2>7 DEF HasMore
    <3>2. ~Mine(piece, 0, {q}) BY <1>1, <2>5 DEF Mine
    <3>3. Received(x, 0, {q}) \o <<>> = Received(x, 0, {q}) BY <2>9
    <3> QED BY <1>4, <2>6, <3>1, <3>2, <3>3 DEF ChatShows
  <2>11. ASSUME NEW d \in Calls, d # c PROVE CallShown(r, y, d, more[d])
    <3>1. CallShown(o, x, d, ar[d]) BY <1>4 DEF ChatShows
    <3>2. o.block[d] # 0 => o.block[d] \in 1..k /\ o.block[d] # k
      <4> HIDE DEF k
      <4>1. o.block[d] # 0 => o.block[d] # k BY <1>1, <1>6, <2>1, <2>11 DEF Owned
      <4>2. o.block[d] # 0 => o.block[d] \in 1..k BY <1>6 DEF Owned, k
      <4> QED BY <4>1, <4>2
    <3>3. o.block[d] # 0 => o.block[d] \in Nat /\ y.blocks[o.block[d]].text = x.blocks[o.block[d]].text
      <4> HIDE DEF k
      <4> SUFFICES ASSUME o.block[d] # 0 PROVE o.block[d] \in 1..(k - 1) BY <2>7 DEF SameTexts
      <4> QED BY <2>7, <3>2
    <3>4. Received(y, d, {"args"}) = Received(x, d, {"args"})
      <4>1. Received(y, d, {"args"}) = Received(x, d, {"args"}) \o Only(text, d, {"args"}) BY <2>7 DEF HasMore
      <4>2. ~Mine(piece, d, {"args"}) BY <2>5, <2>11 DEF Mine
      <4>3. Received(x, d, {"args"}) \o <<>> = Received(x, d, {"args"}) BY <2>9
      <4> QED BY <2>6, <4>1, <4>2, <4>3
    <3>5. Len(x.blocks) \in Nat /\ Len(y.blocks) \in Nat /\ Len(x.blocks) <= Len(y.blocks) BY <2>7
    <3>6. r.block[d] = o.block[d] /\ (d \in o.dropped => d \in r.dropped) BY <2>8
    <3>7. CallShown(r, y, d, ar[d])
      <4> HIDE DEF k
      <4> QED BY <3>1, <3>3, <3>4, <3>5, <3>6, CallKept
    <3> QED BY <1>9, <2>11, <3>7
  <2>12. CallShown(r, y, c, more[c])
    <3>1. Received(x, c, {"args"}) = Pieces(c, "args", n) /\ x.blocks[k].text = Received(x, c, {"args"})
      <4>1. PICK j \in 0..n : /\ Received(x, c, {"args"}) = Pieces(c, "args", j)
                              /\ (j = n \/ o.block[c] < Len(x.blocks))
            BY <1>8, <2>1 DEF CallShown, n
      <4>2. ~(o.block[c] < Len(x.blocks)) BY <2>1, <2>7
      <4>3. x.blocks[k].text = Received(x, c, {"args"}) BY <1>8, <2>1 DEF CallShown
      <4> QED BY <4>1, <4>2, <4>3
    <3>2. Mine(piece, c, {"args"}) BY <2>5 DEF Mine
    <3>3. Received(y, c, {"args"}) = Received(x, c, {"args"}) \o Only(text, c, {"args"}) BY <2>7 DEF HasMore
    <3>4. Received(y, c, {"args"}) = Pieces(c, "args", n + 1) BY <2>4, <2>6, <3>1, <3>2, <3>3
    <3>5. y.blocks[k].text = Received(y, c, {"args"}) BY <2>4, <2>7, <3>1, <3>4
    <3>6. more[c] = n + 1 /\ n + 1 \in 0..(n + 1) BY <1>1, <1>9 DEF n
    <3>7. r.block[c] = k /\ k # 0 BY <2>1, <2>7, <2>8
    <3> HIDE DEF k
    <3> QED BY <3>4, <3>5, <3>6, <3>7 DEF CallShown
  <2>13. ChatShows(r, y, sd, more)
    <3>1. \A d \in Calls : CallShown(r, y, d, more[d]) BY <2>11, <2>12
    <3>2. r.current = Len(y.blocks) BY <2>7
    <3> QED BY <2>10, <3>1, <3>2 DEF ChatShows
  <2> QED BY <2>1, <2>13 DEF r, more, c
<1> QED BY <1>10, <1>11

\* The calls that have arguments among the first n fragments.
ArguedBy(list, n) == {list[i].call : i \in {j \in 1..n : list[j].args}}

ArgsAfter(list, n) == [c \in Calls |-> IF c \in ArguedBy(list, n) THEN cup.args[c] + 1 ELSE cup.args[c]]

\* The fragments of a chunk.
LEMMA ChatFragmentsShow ==
  ASSUME ChatTypeOK, NEW s, NEW m \in Msg, NEW z, ChatOK(s, m, z), s.started,
         NEW list \in Seq(Fragments), OneEach(list), NEW N \in SUBSET Calls, HasBlocks(s, N),
         NEW sd, ChatShows(s, z, sd, cup.args), NEW y, ChatOK(FoldLeft(WriteFragment, s, list), m, y)
  PROVE  ChatShows(FoldLeft(WriteFragment, s, list), y, sd, ArgsAfter(list, Len(list)))
<1>1. s \in ChatRec BY DEF ChatOK
<1>2. PICK t \in [0..Len(list) -> ChatRec] :
        /\ t[0] = s /\ t[Len(list)] = FoldLeft(WriteFragment, s, list)
        /\ \A n \in 1..Len(list) : t[n] = WriteFragment(t[n - 1], list[n])
      BY <1>1, FragmentsFold
<1> DEFINE Fine(n) == /\ t[n].started /\ \E M \in SUBSET Calls : HasBlocks(t[n], M)
                      /\ \E x : ChatOK(t[n], m, x) /\ ChatShows(t[n], x, sd, ArgsAfter(list, n))
           Bad == {n \in 0..Len(list) : ~Fine(n)}
<1>3. Len(list) \in Nat /\ DOMAIN list = 1..Len(list)
      /\ \A i \in 1..Len(list) : list[i] \in Fragments /\ list[i].call \in Calls
      BY DEF Fragments
<1>c. cup.args \in [Calls -> Nat] BY DEF ChatTypeOK, CupRec
<1>4. Fine(0)
  <2>1. ArguedBy(list, 0) = {} BY DEF ArguedBy
  <2>2. ArgsAfter(list, 0) = cup.args BY <1>c, <2>1 DEF ArgsAfter
  <2> QED BY <1>2, <2>2
<1>5. ASSUME NEW n \in 1..Len(list), Fine(n - 1) PROVE Fine(n)
  <2> DEFINE b == t[n - 1]
             f == list[n]
             ar == ArgsAfter(list, n - 1)
             r == WriteFragment(b, f)
  <2>1. f \in Fragments /\ f.call \in Calls BY <1>3
  <2>2. PICK x : ChatOK(b, m, x) /\ ChatShows(b, x, sd, ar) BY <1>5
  <2>3. PICK M \in SUBSET Calls : HasBlocks(b, M) BY <1>5
  <2>4. ar \in [Calls -> Nat] BY <1>c DEF ArgsAfter
  <2>5. 1..n = (1..(n - 1)) \cup {n} /\ n \notin 1..(n - 1) /\ 1..(n - 1) \subseteq 1..Len(list)
        BY <1>3
  <2>6. f.args => f.call \notin ArguedBy(list, n - 1)
    <3> SUFFICES ASSUME NEW i \in 1..(n - 1), list[i].call = list[n].call PROVE FALSE BY DEF ArguedBy
    <3>1. i = n BY <1>3, <2>5 DEF OneEach
    <3> QED BY <2>5, <3>1
  <2>7. ArguedBy(list, n) = IF f.args THEN ArguedBy(list, n - 1) \cup {f.call} ELSE ArguedBy(list, n - 1)
        BY <2>5 DEF ArguedBy
  <2>8. f.args => ar[f.call] = cup.args[f.call] BY <2>1, <2>6 DEF ArgsAfter
  <2>9. ArgsAfter(list, n) = IF f.args THEN [ar EXCEPT ![f.call] = @ + 1] ELSE ar
    <3>1. CASE ~f.args BY <2>7, <3>1 DEF ArgsAfter
    <3>2. CASE f.args
      <4> DEFINE g == [ar EXCEPT ![f.call] = @ + 1]
      <4>1. \A c \in Calls : g[c] = IF c = f.call THEN ar[f.call] + 1 ELSE ar[c] BY <2>1, <2>4
      <4>2. \A c \in Calls : g[c] = ArgsAfter(list, n)[c]
            BY <2>7, <2>8, <3>2, <4>1 DEF ArgsAfter
      <4>3. DOMAIN g = Calls /\ g = [c \in Calls |-> g[c]] BY <2>4
      <4>4. ArgsAfter(list, n) = [c \in Calls |-> ArgsAfter(list, n)[c]] BY DEF ArgsAfter
      <4> HIDE DEF g
      <4> QED BY <3>2, <4>2, <4>3, <4>4 DEF g
    <3> QED BY <3>1, <3>2
  <2>10. t[n] = r BY <1>2
  <2>11. b.started BY <1>5
  <2> HIDE DEF b, f, ar
  <2>12. /\ r.started /\ \E w : ChatOK(r, m, w)
         /\ \A K \in SUBSET Calls : HasBlocks(b, K) => HasBlocks(r, K \cup {f.call})
         BY <2>1, <2>2, <2>11, ChatFragment
  <2>13. PICK w : ChatOK(r, m, w) BY <2>12
  <2>14. ChatShows(r, w, sd, IF f.args THEN [ar EXCEPT ![f.call] = @ + 1] ELSE ar)
         BY <2>1, <2>2, <2>3, <2>4, <2>8, <2>11, <2>13, ChatFragmentShows DEF ar, f
  <2>15. M \cup {f.call} \in SUBSET Calls /\ HasBlocks(r, M \cup {f.call}) BY <2>1, <2>3, <2>12
  <2> HIDE DEF r
  <2> QED BY <2>9, <2>10, <2>12, <2>13, <2>14, <2>15 DEF f
<1> HIDE DEF Fine
<1>6. Bad = {}
  <2>1. SUFFICES ASSUME Bad # {} PROVE FALSE OBVIOUS
  <2>2. Bad \subseteq Nat BY <1>3
  <2>3. PICK l \in Bad : \A n \in Bad : l <= n BY <2>1, <2>2, LeastNat
  <2>4. l \in 0..Len(list) /\ ~Fine(l) BY <2>3
  <2>5. l # 0 BY <1>4, <2>4
  <2>6. l \in 1..Len(list) /\ l - 1 \in 0..Len(list) /\ ~(l <= l - 1) BY <1>3, <2>4, <2>5
  <2>7. l - 1 \notin Bad
    <3> HIDE DEF Bad
    <3> QED BY <2>3, <2>6
  <2>8. Fine(l - 1) BY <2>6, <2>7
  <2> QED BY <1>5, <2>4, <2>6, <2>8
<1>7. Fine(Len(list)) BY <1>3, <1>6
<1> DEFINE r == FoldLeft(WriteFragment, s, list)
<1>8. PICK x : ChatOK(r, m, x) /\ ChatShows(r, x, sd, ArgsAfter(list, Len(list)))
      BY <1>2, <1>7 DEF Fine
<1>9. y = x BY <1>8, DeliversOne DEF ChatOK, At
<1> QED BY <1>8, <1>9

\* What has been shown at the end.
ChatDone(z) ==
  /\ \A p \in ChatParts : Received(z, 0, {p}) = Pieces(0, p, cup.said[p])
  /\ \A c \in Calls : /\ CallShown(cs, z, c, cup.args[c])
                      /\ cs.block[c] # 0 => z.blocks[cs.block[c]].kind = "tool"

\* The message on its way has what upstream has said.
ChatShown ==
  \A z : Delivers(wire, message, z) =>
    IF cup.over THEN z.phase = "done" => ChatDone(z) ELSE ChatShows(cs, z, cup.said, cup.args)

LEMMA ShowsByFields ==
  ASSUME NEW s, NEW r, NEW z, NEW said, NEW args, ChatShows(s, z, said, args),
         r.block = s.block, r.dropped = s.dropped, r.current = s.current
  PROVE  ChatShows(r, z, said, args)
BY DEF ChatShows, CallShown

LEMMA ChatChunkShows ==
  ASSUME ChatInv, ChatShown, NEW said \in SUBSET ChatParts, NEW fragments \in Seq(Fragments),
         OneEach(fragments), NEW finish \in IF cup.finish = "none" THEN FinishReasons ELSE {"none"},
         Chunk(said, fragments, finish)
  PROVE  ChatShown'
<1> DEFINE s1 == StartMessage(cs)
           s2 == WritePart(s1, "thinking", said)
           s3 == WritePart(s2, "text", said)
           s4 == FoldLeft(WriteFragment, s3, fragments)
           s5 == IF finish = "none" THEN s4 ELSE [s4 EXCEPT !.stop = FinishReason(finish)]
           d0 == cup.said
           d1 == IF "thinking" \in said THEN [d0 EXCEPT !["thinking"] = @ + 1] ELSE d0
           d2 == IF "text" \in said THEN [d1 EXCEPT !["text"] = @ + 1] ELSE d1
           ar == ArgsAfter(fragments, Len(fragments))
<1>1. /\ ChatTypeOK /\ message \in Msg /\ cs.out = <<>> /\ HasBlocks(cs, cup.named)
      /\ ~cup.over /\ wire = <<>> /\ cup \in CupRec
      BY DEF ChatInv, Chunk, ChatListening, ChatTypeOK
<1>2. PICK z : Delivers(wire, message, z) /\ ChatOK(cs, z, z) BY <1>1 DEF ChatInv
<1>3. z = message BY <1>1, <1>2, NothingLeft
<1>4. ChatOK(cs, message, message) /\ ChatShows(cs, message, cup.said, cup.args)
      BY <1>1, <1>2, <1>3 DEF ChatShown
<1>5. /\ s1.block = cs.block /\ s1.dropped = cs.dropped /\ s1.started
      /\ \E y : ChatOK(s1, message, y)
      BY <1>4, ChatStarts
<1>6. PICK y1 : ChatOK(s1, message, y1) BY <1>5
<1>7. ChatShows(s1, y1, d0, cup.args)
  <2>1. At(cs, message, message) /\ At(s1, message, y1) BY <1>4, <1>6 DEF ChatOK
  <2>2. y1.blocks = message.blocks /\ SameHad(y1, message) /\ s1.current = cs.current
        BY <1>1, <2>1, StartShows
  <2> HIDE DEF s1
  <2>3. \A c \in Calls : CallShown(s1, y1, c, cup.args[c])
        BY <1>4, <1>5, <2>2 DEF ChatShows, CallShown, SameHad
  <2> QED BY <1>4, <2>2, <2>3 DEF ChatShows, SameHad
<1>8. "thinking" \in ChatParts /\ "text" \in ChatParts /\ d0 \in [ChatParts -> Nat]
      BY <1>1 DEF ChatParts, CupRec
<1> HIDE DEF s1, d0
<1>9. /\ s2.block = s1.block /\ s2.dropped = s1.dropped /\ s2.started
      /\ \E y : ChatOK(s2, message, y)
      BY <1>1, <1>6, <1>5, <1>8, ChatPart
<1>10. PICK y2 : ChatOK(s2, message, y2) BY <1>9
<1>11. ChatShows(s2, y2, d1, cup.args)
       BY <1>1, <1>5, <1>6, <1>7, <1>8, <1>10, ChatPartShows DEF d0
<1>12. d1 \in [ChatParts -> Nat] /\ d1["text"] = d0["text"] BY <1>8
<1> HIDE DEF s2, d1
<1>13. /\ s3.block = s2.block /\ s3.dropped = s2.dropped /\ s3.started
       /\ \E y : ChatOK(s3, message, y)
       BY <1>1, <1>9, <1>10, <1>8, ChatPart
<1>14. PICK y3 : ChatOK(s3, message, y3) BY <1>13
<1>15. ChatShows(s3, y3, d2, cup.args)
       BY <1>1, <1>8, <1>9, <1>10, <1>11, <1>12, <1>14, ChatPartShows DEF d0
<1>16. HasBlocks(s3, cup.named) BY <1>1, <1>5, <1>9, <1>13 DEF HasBlocks
<1>17. cup.named \in SUBSET Calls /\ cup.finish \in FinishReasons BY <1>1 DEF CupRec
<1> HIDE DEF s3, d2
<1>18. \E y : ChatOK(s4, message, y) BY <1>1, <1>13, <1>14, <1>16, <1>17, ChatFragments
<1>19. PICK y4 : ChatOK(s4, message, y4) BY <1>18
<1>20. ChatShows(s4, y4, d2, ar)
       BY <1>1, <1>13, <1>14, <1>15, <1>16, <1>17, <1>19, ChatFragmentsShow
<1>21. ChatGoes(s5) BY DEF Chunk, s1, s2, s3
<1>22. finish \in FinishReasons BY <1>17 DEF FinishReasons
<1>23. cup'.over = cup.over /\ cup'.said = d2 /\ cup'.args = ar
  <2> DEFINE sd == [p \in ChatParts |-> IF p \in said THEN cup.said[p] + 1 ELSE cup.said[p]]
             argued == {fragments[i].call : i \in {j \in DOMAIN fragments : fragments[j].args}}
             aa == [c \in Calls |-> IF c \in argued THEN cup.args[c] + 1 ELSE cup.args[c]]
  <2>1. cup'.over = cup.over /\ cup'.said = sd /\ cup'.args = aa
        BY <1>1 DEF Chunk, CupRec
  <2>2. sd = d2
    <3>1. ChatParts = {"thinking", "text"} BY DEF ChatParts
    <3>2. \A p \in ChatParts : sd[p] = d2[p]
          BY <1>8, <1>12, <3>1 DEF d0, d1, d2
    <3>3. d2 \in [ChatParts -> Nat] BY <1>12 DEF d2
    <3> QED BY <3>2, <3>3
  <2>3. aa = ar
    <3>1. DOMAIN fragments = 1..Len(fragments) OBVIOUS
    <3> QED BY <3>1 DEF ArgsAfter, ArguedBy
  <2> QED BY <2>1, <2>2, <2>3
<1> HIDE DEF s4, ar
<1>24. s4 \in ChatRec /\ At(s4, message, y4) BY <1>19 DEF ChatOK
<1>25. /\ cs'.block = s4.block /\ cs'.dropped = s4.dropped /\ cs'.current = s4.current
       /\ wire' = s4.out /\ message' = message
  <2>1. /\ s5.block = s4.block /\ s5.dropped = s4.dropped /\ s5.current = s4.current /\ s5.out = s4.out
        /\ s5 = [x \in DOMAIN s4 |-> s5[x]]
        BY <1>24 DEF ChatRec
  <2> HIDE DEF s5
  <2>2. DOMAIN s4 = {"block", "dropped", "started", "failed", "current", "kind", "next", "stop", "out"}
        BY <1>24 DEF ChatRec
  <2> QED BY <1>21, <2>1, <2>2 DEF ChatGoes, Send
<1>26. ASSUME NEW x, Delivers(wire', message', x) PROVE ChatShows(cs', x, cup'.said, cup'.args)
  <2>1. x = y4 BY <1>1, <1>24, <1>25, <1>26, DeliversOne DEF At
  <2> QED BY <1>20, <1>23, <1>25, <2>1, ShowsByFields
<1> QED BY <1>1, <1>23, <1>26 DEF ChatShown

\* The end.
LEMMA ChatConcludesShown ==
  ASSUME ChatInv, ChatShown, ChatOK(cs, message, message), ~cup.over, wire = <<>>,
         cup' = [cup EXCEPT !.over = TRUE], ChatGoes(Conclude(cs, ChatStopReason(cs)))
  PROVE  ChatShown'
<1> DEFINE stop == ChatStopReason(cs)
           r == Conclude(cs, stop)
<1>1. ChatTypeOK /\ message \in Msg BY DEF ChatInv
<1>2. cs \in ChatRec /\ At(cs, message, message) /\ Decent(message) /\ Owned(cs, message)
      BY DEF ChatOK
<1>3. stop \in StopReasons
      BY <1>2 DEF ChatStopReason, ChatRec, StopReasons
<1>4. stop = "tool_use" => ToolShown(message)
  <2>1. SUFFICES ASSUME stop = "tool_use" PROVE ToolShown(message) OBVIOUS
  <2>2. PICK c \in Calls : cs.block[c] # 0 BY <2>1 DEF ChatStopReason
  <2>3. cs.block[c] \in 1..Len(message.blocks) /\ message.blocks[cs.block[c]].kind = "tool"
        BY <1>2, <2>2 DEF Owned
  <2>4. DOMAIN message.blocks = 1..Len(message.blocks) BY <1>1, MsgFields
  <2> QED BY <2>3, <2>4 DEF ToolShown
<1>5. Filled(message) BY <1>1, <1>2, DecentFilled
<1> HIDE DEF stop
<1>6. Keeps(r, cs, {"started", "current", "kind", "out"})
      BY <1>2, <1>3, <1>4, <1>5, ConcludeOK
<1>7. PICK y : /\ Delivers(r.out, message, y) /\ y \in Msg /\ Len(y.blocks) = Len(message.blocks)
               /\ \A i \in 1..Len(message.blocks) : SameBlock(y, message, i)
      BY <1>2, <1>3, <1>4, <1>5, ConcludeOK
<1>8. cs' = [r EXCEPT !.out = <<>>] /\ wire' = r.out /\ message' = message
      BY DEF ChatGoes, Send, stop
<1> HIDE DEF r
<1>9. r.block = cs.block /\ r.dropped = cs.dropped /\ "out" \in DOMAIN r /\ DOMAIN r = DOMAIN cs
       BY <1>2, <1>6 DEF Keeps, ChatRec
<1>10. cs'.block = cs.block /\ cs'.dropped = cs.dropped
  <2>1. "block" \in DOMAIN r /\ "dropped" \in DOMAIN r BY <1>2, <1>9 DEF ChatRec
  <2> QED BY <1>8, <1>9, <2>1
<1>11. cup'.over /\ cup'.said = cup.said /\ cup'.args = cup.args
       BY <1>1 DEF ChatTypeOK, CupRec
<1>12. ChatShows(cs, message, cup.said, cup.args)
  <2>1. Delivers(wire, message, message) BY <1>1, DeliversNothing
  <2> QED BY <2>1 DEF ChatShown
<1>13. SameHad(y, message)
  <2>1. SameTexts(y, message, Len(message.blocks)) BY <1>7 DEF SameTexts, SameBlock
  <2> QED BY <1>1, <1>7, <2>1, ReceivedSame DEF SameHad
<1>14. ChatDone(y)'
  <2>1. \A p \in ChatParts : Received(y, 0, {p}) = Pieces(0, p, cup'.said[p])
        BY <1>11, <1>12, <1>13 DEF ChatShows, SameHad
  <2>2. ASSUME NEW c \in Calls
        PROVE  /\ CallShown(cs', y, c, cup'.args[c])
               /\ cs'.block[c] # 0 => y.blocks[cs'.block[c]].kind = "tool"
    <3>1. CallShown(cs, message, c, cup.args[c]) BY <1>12 DEF ChatShows
    <3>2. cs.block[c] # 0 =>
            /\ y.blocks[cs.block[c]].text = message.blocks[cs.block[c]].text
            /\ y.blocks[cs.block[c]].kind = "tool"
          BY <1>2, <1>7 DEF Owned, SameBlock
    <3> QED BY <1>7, <1>10, <1>11, <1>13, <3>1, <3>2 DEF CallShown, SameHad
  <2> QED BY <2>1, <2>2 DEF ChatDone
<1>15. ASSUME NEW x, Delivers(wire', message', x) PROVE ChatDone(x)'
  <2>1. x = y BY <1>1, <1>7, <1>8, <1>15, DeliversOne
  <2> QED BY <1>14, <2>1
<1> QED BY <1>11, <1>15 DEF ChatShown

\* An error leaves nothing to show.
LEMMA ChatFailsShown ==
  ASSUME ChatInv, NEW s, NEW z, ChatOK(s, message, z), ~cup.over,
         cup' = [cup EXCEPT !.over = TRUE], ChatGoes(EmitError(s))
  PROVE  ChatShown'
<1> DEFINE r == EmitError(s)
<1>1. ChatTypeOK /\ message \in Msg BY DEF ChatInv
<1>2. At(s, message, z) BY DEF ChatOK
<1>3. PICK y : Delivers(r.out, message, y) /\ y.phase = "failed" BY <1>2, ErrorOK
<1>4. wire' = r.out /\ message' = message /\ cup'.over BY <1>1 DEF ChatGoes, Send, ChatTypeOK, CupRec
<1> HIDE DEF r
<1>5. ASSUME NEW x, Delivers(wire', message', x) PROVE x.phase # "done"
  <2>1. x = y BY <1>1, <1>3, <1>4, <1>5, DeliversOne
  <2> QED BY <1>3, <2>1
<1> QED BY <1>4, <1>5 DEF ChatShown

LEMMA ChatTakeShown == ASSUME ChatInv, ChatShown, Take, UNCHANGED <<cs, gate, cup>> PROVE ChatShown'
<1>1. PICK z : Delivers(wire, message, z) BY DEF ChatInv
<1>2. message \in Msg BY DEF ChatInv
<1>3. message' \in Msg /\ Delivers(wire', message', z) BY <1>1, <1>2, TakePromised
<1>4. \A x : Delivers(wire', message', x) => x = z BY <1>3, DeliversOne
<1>5. ChatDone(z) => ChatDone(z)' BY DEF ChatDone
<1>6. cs' = cs /\ cup' = cup OBVIOUS
<1> QED BY <1>1, <1>4, <1>5, <1>6 DEF ChatShown

LEMMA ChatShownStep == ASSUME ChatInv, ChatShown, ChatNext PROVE ChatShown'
<1>1. CASE Take /\ UNCHANGED <<cs, gate, cup>> BY <1>1, ChatTakeShown
<1>2. ASSUME NEW said \in SUBSET ChatParts, NEW fragments \in BoundedSeq(Fragments, MaxChunk),
             OneEach(fragments),
             NEW finish \in IF cup.finish = "none" THEN FinishReasons ELSE {"none"},
             Chunk(said, fragments, finish)
      PROVE  ChatShown'
  <2>1. fragments \in Seq(Fragments) BY ZenChatAssumption, BoundedIsSeq DEF ZenChatAssumption
  <2> QED BY <1>2, <2>1, ChatChunkShows
<1>3. ASSUME ChatListening PROVE ~cup.over /\ wire = <<>> /\ ChatOK(cs, message, message)
  <2>1. ~cup.over /\ wire = <<>> BY <1>3 DEF ChatListening
  <2>2. PICK z : Delivers(wire, message, z) /\ ChatOK(cs, z, z) BY <2>1 DEF ChatInv
  <2>3. z = message BY <2>1, <2>2, NothingLeft
  <2> QED BY <2>1, <2>2, <2>3
<1>4. CASE ChatError
  <2>1. /\ ~cup.over /\ ChatOK(cs, message, message)
        /\ cup' = [cup EXCEPT !.over = TRUE] /\ ChatGoes(EmitError(StartMessage(cs)))
        BY <1>3, <1>4 DEF ChatError
  <2>2. \E y : ChatOK(StartMessage(cs), message, y) BY <2>1, ChatStarts
  <2> QED BY <2>1, <2>2, ChatFailsShown
<1>5. ASSUME NEW how \in {"[DONE]", "eof", "error"}, ChatEnds(how) PROVE ChatShown'
  <2>1. /\ ~cup.over /\ wire = <<>> /\ ChatOK(cs, message, message) /\ cup' = [cup EXCEPT !.over = TRUE]
        BY <1>3, <1>5 DEF ChatEnds
  <2>2. CASE how = "error" \/ (how = "eof" /\ cs.stop = "none")
    <3>1. ChatGoes(EmitError(cs)) BY <1>5, <2>2 DEF ChatEnds
    <3> QED BY <2>1, <3>1, ChatFailsShown
  <2>3. CASE ~(how = "error" \/ (how = "eof" /\ cs.stop = "none"))
    <3>1. ChatGoes(Conclude(cs, ChatStopReason(cs))) BY <1>5, <2>3 DEF ChatEnds
    <3> QED BY <2>1, <3>1, ChatConcludesShown
  <2> QED BY <2>2, <2>3
<1> QED BY <1>1, <1>2, <1>4, <1>5 DEF ChatNext

LEMMA NothingReceived ==
  ASSUME NEW m \in Msg, m.blocks = <<>>, NEW i, NEW P PROVE Received(m, i, P) = <<>>
<1>1. PICK g \in [0..Len(m.blocks) -> Texts] : Gathers(g, m, i, P) BY GathersExists
<1>2. Len(m.blocks) = 0 OBVIOUS
<1> QED BY <1>1, <1>2, ReceivedIs DEF Gathers

LEMMA ChatShownInitially == ASSUME ChatInit PROVE ChatShown
<1>1. ChatInv BY ChatInitially
<1>2. /\ wire = <<>> /\ message = NoMessage
      /\ cs.current = 0 /\ cs.block = [c \in Calls |-> 0]
      /\ cup.said = [p \in ChatParts |-> 0] /\ cup.args = [c \in Calls |-> 0] /\ ~cup.over
      BY DEF ChatInit, WireInit
<1>3. message.blocks = <<>> /\ Len(message.blocks) = 0 /\ message \in Msg BY <1>1, <1>2 DEF NoMessage, ChatInv
<1>4. \A i, P : Received(message, i, P) = <<>> BY <1>3, NothingReceived
<1>5. \A i, p : Pieces(i, p, 0) = <<>> BY DEF Pieces
<1>6. ChatShows(cs, message, cup.said, cup.args)
      BY <1>2, <1>3, <1>4, <1>5 DEF ChatShows, CallShown
<1>7. \A z : Delivers(wire, message, z) => z = message BY <1>2, NothingLeft
<1> QED BY <1>2, <1>6, <1>7 DEF ChatShown

\* What upstream said, at the end.
LEMMA ChatSaysIt == ASSUME ChatInv, ChatShown PROVE ChatExact /\ ChatCallsWhole
<1>1. SUFFICES ASSUME ChatConcluded
               PROVE  /\ \A p \in {"thinking", "text"} :
                           Received(message, 0, {p}) = [n \in 1..cup.said[p] |-> ChatText(p, n)]
                      /\ ChatCallsWhole
      BY DEF ChatExact, ChatCallsWhole
<1>2. cup.over /\ wire = <<>> /\ message.phase = "done" /\ message \in Msg BY <1>1 DEF ChatConcluded, ChatInv
<1>3. ChatDone(message)
  <2>1. Delivers(wire, message, message) BY <1>2, DeliversNothing
  <2> QED BY <1>2, <2>1 DEF ChatShown
<1>4. \A p \in {"thinking", "text"} :
        Received(message, 0, {p}) = [n \in 1..cup.said[p] |-> ChatText(p, n)]
      BY <1>3, ChatPiecesAre DEF ChatDone, ChatParts, Pieces
<1>5. HasBlocks(cs, cup.named) /\ cup \in CupRec BY DEF ChatInv, ChatTypeOK
<1>6. ASSUME NEW c \in Calls
      PROVE  LET b == cs.block[c]
                 got == Received(message, c, {"args"})
                 full == [n \in 1..cup.args[c] |-> Argument(c, n)]
             IN /\ (b # 0) = (c \in cup.named \ gate)
                /\ b = 0 => got = <<>>
                /\ b # 0 => /\ message.blocks[b].kind = "tool" /\ message.blocks[b].text = got
                            /\ IsPrefix(got, full) /\ (got = full \/ b < Len(message.blocks))
  <2> DEFINE b == cs.block[c]
             got == Received(message, c, {"args"})
             full == [n \in 1..cup.args[c] |-> Argument(c, n)]
  <2>1. CallShown(cs, message, c, cup.args[c]) /\ (b # 0 => message.blocks[b].kind = "tool")
        BY <1>3 DEF ChatDone
  <2>2. (b # 0) = (c \in cup.named \ gate) BY <1>5 DEF HasBlocks
  <2>3. b = 0 => got = <<>> BY <2>1 DEF CallShown
  <2>4. ASSUME b # 0
        PROVE  /\ message.blocks[b].text = got
               /\ IsPrefix(got, full) /\ (got = full \/ b < Len(message.blocks))
    <3>1. PICK k \in 0..cup.args[c] : got = Pieces(c, "args", k) /\ (k = cup.args[c] \/ b < Len(message.blocks))
          BY <2>1, <2>4 DEF CallShown
    <3>2. full = Pieces(c, "args", cup.args[c]) BY ChatPiecesAre DEF Pieces
    <3>3. message.blocks[b].text = got BY <2>1, <2>4 DEF CallShown
    <3>4. IsPrefix(Pieces(c, "args", k), Pieces(c, "args", cup.args[c]))
      <4> DEFINE n == cup.args[c]
                 u == Pieces(c, "args", k)
                 v == Pieces(c, "args", n)
      <4>1. n \in Nat /\ k \in 0..n BY <1>5 DEF CupRec
      <4> HIDE DEF n
      <4>2. Len(u) = k /\ Len(v) = n /\ u = SubSeq(v, 1, k) BY <4>1 DEF Pieces
      <4> QED BY <4>1, <4>2 DEF IsPrefix, n
    <3> HIDE DEF got, full, b
    <3> QED BY <3>1, <3>2, <3>3, <3>4
  <2> HIDE DEF got, full, b
  <2>5. /\ (b # 0) = (c \in cup.named \ gate)
        /\ b = 0 => got = <<>>
        /\ b # 0 => /\ message.blocks[b].kind = "tool" /\ message.blocks[b].text = got
                    /\ IsPrefix(got, full) /\ (got = full \/ b < Len(message.blocks))
        BY <2>1, <2>2, <2>3, <2>4
  <2> QED BY <2>5 DEF got, full, b
<1>7. ChatCallsWhole BY <1>6 DEF ChatCallsWhole
<1> QED BY <1>4, <1>7

LEMMA ChatShownStill ==
  ASSUME ChatShown, UNCHANGED <<wire, message, cs, gate, cup>> PROVE ChatShown'
BY DEF ChatShown, ChatDone

-----------------------------------------------------------------------------
(* What the translator of the Responses wire has shown *)

\* The parts a client is asked about, each with what is noted as sent of it.
Views ==
  {<<"thinking", {"thinking"}>>, <<"thinking", {"thinking", "gap"}>>, <<"text", {"text"}>>,
   <<"refusal", {"refusal"}>>, <<"args", {"args"}>>}
PartsOf(p) == IF p = "thinking" THEN {"thinking", "gap"} ELSE {p}
Sents == [Items -> [ItemParts -> Texts]]

LEMMA ViewsAre ==
  ASSUME NEW v \in Views
  PROVE  /\ v[1] \in ItemParts /\ v[2] \subseteq PartsOf(v[1])
         /\ \A p \in ItemParts : p # v[1] => v[2] \cap PartsOf(p) = {}
BY DEF Views, PartsOf, ItemParts

\* The message has what is noted as sent, its last block is the current one,
\* and a call's block has the call's arguments.
RShows(s, z, sent) ==
  /\ s.current = Len(z.blocks)
  /\ \A i \in Items, v \in Views : Received(z, i, v[2]) = Only(sent[i][v[1]], i, v[2])
  /\ \A i \in Items :
       IsCall(i) /\ s.block[i] # 0 => z.blocks[s.block[i]].text = Received(z, i, {"args"})

LEMMA RShowsByFields ==
  ASSUME NEW s, NEW r, NEW z, NEW sent, RShows(s, z, sent), r.current = s.current,
         \A i \in Items : IsCall(i) => r.block[i] = s.block[i]
  PROVE  RShows(r, z, sent)
BY DEF RShows

LEMMA ROpenShows ==
  ASSUME NEW s, NEW m \in Msg, NEW z, NEW y, ROK(s, m, z), s.started, NEW kind \in Kinds,
         At(OpenNext(s, kind), m, y), NEW sent, RShows(s, z, sent)
  PROVE  RShows(OpenNext(s, kind), y, sent)
<1> DEFINE r == OpenNext(s, kind)
           k == Len(z.blocks)
<1>1. s \in ZrRec /\ At(s, m, z) /\ Decent(z) /\ ROwned(s, z) /\ z \in Msg BY DEF ROK, At
<1>2. /\ r.current = k + 1 /\ k \in Nat /\ Len(y.blocks) = k + 1
      /\ SameTexts(y, z, k) /\ SameHad(y, z)
      BY <1>1, DecentFilled, OpenShows
<1>3. r.block = s.block BY ROpens
<1> HIDE DEF r
<1>4. ASSUME NEW i \in Items, IsCall(i), r.block[i] # 0
      PROVE  y.blocks[r.block[i]].text = Received(y, i, {"args"})
  <2>1. s.block[i] # 0 /\ s.block[i] \in 1..k BY <1>1, <1>3, <1>4 DEF ROwned
  <2>2. z.blocks[s.block[i]].text = Received(z, i, {"args"}) BY <1>4, <2>1 DEF RShows
  <2> QED BY <1>2, <1>3, <2>1, <2>2 DEF SameTexts, SameHad
<1>5. r.current = Len(y.blocks) BY <1>2
<1>6. \A i \in Items, v \in Views : Received(y, i, v[2]) = Only(sent[i][v[1]], i, v[2])
      BY <1>2 DEF RShows, SameHad
<1> QED BY <1>4, <1>5, <1>6 DEF RShows, r

\* What is written is noted.
LEMMA RWriteShows ==
  ASSUME NEW s, NEW m \in Msg, NEW z, NEW y, At(s, m, z), ROwned(s, z), s.current # 0,
         NEW i \in Items, NEW p \in ItemParts, NEW text, PiecesOf(text, i, PartsOf(p)),
         IsCall(i) => s.block[i] = s.current /\ p = "args",
         z.blocks[s.current].kind = "tool" => IsCall(i),
         NEW sent \in Sents, RShows(s, z, sent),
         At(Write(s, text), m, y), Write(s, text).block = s.block
  PROVE  RShows(Write(s, text), y, [sent EXCEPT ![i][p] = @ \o text])
<1> DEFINE r == Write(s, text)
           k == Len(z.blocks)
           now == [sent EXCEPT ![i][p] = @ \o text]
<1>1. text \in Texts /\ \A n \in 1..Len(text) : text[n].item = i /\ text[n].part \in PartsOf(p)
      BY DEF PiecesOf
<1>2. /\ s.current = k /\ k \in Nat \ {0} /\ r.current = k /\ Len(y.blocks) = k
      /\ y.blocks[k].text = z.blocks[k].text \o text
      /\ SameTexts(y, z, k - 1) /\ HasMore(y, z, text)
  <2>1. Written(Write(s, text), s, z, y, Len(z.blocks), text) BY <1>1, WriteShows
  <2>2. Written(r, s, z, y, k, text) BY <2>1
  <2> HIDE DEF r, k, now
  <2> QED BY <2>2 DEF Written
<1>3. z \in Msg BY DEF At
<1>4. \A j, P : Received(z, j, P) \in Seq(AnyPiece) BY <1>3, ReceivedType, TextsAre
<1>5. r.block = s.block OBVIOUS
<1> HIDE DEF r
<1>6. \A j, P : j # i \/ P \cap PartsOf(p) = {} => Only(text, j, P) = <<>>
  <2> SUFFICES ASSUME NEW j, NEW P, j # i \/ P \cap PartsOf(p) = {} PROVE Only(text, j, P) = <<>>
      OBVIOUS
  <2>1. \A n \in 1..Len(text) : ~Mine(text[n], j, P) BY <1>1 DEF Mine
  <2> QED BY <1>1, <2>1, OnlyNone
<1>7. \A j, P : j # i \/ P \cap PartsOf(p) = {} => Received(y, j, P) = Received(z, j, P)
  <2> SUFFICES ASSUME NEW j, NEW P, j # i \/ P \cap PartsOf(p) = {}
               PROVE  Received(y, j, P) = Received(z, j, P)
      OBVIOUS
  <2>0. Only(text, j, P) = <<>> BY <1>6
  <2>1. Received(y, j, P) = Received(z, j, P) \o Only(text, j, P) BY <1>2 DEF HasMore
  <2>2. Received(z, j, P) \in Seq(AnyPiece) BY <1>4
  <2> QED BY <2>0, <2>1, <2>2
<1>8. /\ now[i][p] = sent[i][p] \o text /\ sent[i][p] \in Texts
      /\ \A j \in Items, q \in ItemParts : j # i \/ q # p => now[j][q] = sent[j][q]
      BY DEF Sents
<1> HIDE DEF now
<1>9. ASSUME NEW j \in Items, NEW v \in Views
      PROVE  Received(y, j, v[2]) = Only(now[j][v[1]], j, v[2])
  <2>1. Received(z, j, v[2]) = Only(sent[j][v[1]], j, v[2]) BY DEF RShows
  <2>2. v[1] \in ItemParts BY ViewsAre
  <2>3. CASE j = i /\ v[1] = p
    <3>1. Received(y, j, v[2]) = Received(z, j, v[2]) \o Only(text, j, v[2]) BY <1>2 DEF HasMore
    <3>2. Only(sent[i][p] \o text, i, v[2]) = Only(sent[i][p], i, v[2]) \o Only(text, i, v[2])
          BY <1>1, <1>8, OnlyJoins
    <3> QED BY <1>8, <2>1, <2>3, <3>1, <3>2
  <2>4. CASE ~(j = i /\ v[1] = p)
    <3>1. j # i \/ v[2] \cap PartsOf(p) = {} BY <2>4, ViewsAre
    <3> QED BY <1>7, <1>8, <2>1, <2>2, <2>4, <3>1
  <2> QED BY <2>3, <2>4
<1>10. ASSUME NEW j \in Items, IsCall(j), r.block[j] # 0
       PROVE  y.blocks[r.block[j]].text = Received(y, j, {"args"})
  <2> DEFINE l == s.block[j]
  <2>1. l \in 1..k /\ z.blocks[l].kind = "tool" /\ r.block[j] = l /\ l # 0
        BY <1>5, <1>10 DEF ROwned
  <2>2. z.blocks[l].text = Received(z, j, {"args"}) BY <1>10, <2>1 DEF RShows
  <2>3. CASE l = k
    <3>1. IsCall(i) /\ s.block[i] = k /\ p = "args" BY <1>2, <2>1, <2>3
    <3>2. i = j BY <1>10, <2>1, <2>3, <3>1 DEF ROwned
    <3>3. Only(text, i, {"args"}) = text
      <4>1. \A n \in 1..Len(text) : Mine(text[n], i, {"args"}) BY <1>1, <3>1 DEF Mine, PartsOf
      <4> QED BY <1>1, <4>1, OnlyAll
    <3>4. Received(y, i, {"args"}) = Received(z, i, {"args"}) \o text BY <1>2, <3>3 DEF HasMore
    <3> HIDE DEF k
    <3> QED BY <1>2, <2>1, <2>2, <2>3, <3>2, <3>4
  <2>4. CASE l # k
    <3>1. l \in 1..(k - 1) BY <1>2, <2>1, <2>4
    <3>2. j # i BY <1>2, <1>10, <2>4
    <3>3. Received(y, j, {"args"}) = Received(z, j, {"args"}) BY <1>7, <3>2
    <3>4. y.blocks[l].text = z.blocks[l].text BY <1>2, <3>1 DEF SameTexts
    <3> HIDE DEF k, l
    <3> QED BY <2>1, <2>2, <3>3, <3>4
  <2> QED BY <2>3, <2>4
<1>11. r.current = Len(y.blocks) BY <1>2
<1> QED BY <1>9, <1>10, <1>11 DEF RShows, r, now

\* What writeText and writeThinking write.
LEMMA RTextShows ==
  ASSUME NEW s, NEW m \in Msg, NEW z, ROK(s, m, z), s.started, NEW i \in Items, ~IsCall(i),
         NEW p \in ItemParts, NEW kind \in {"text", "thinking"},
         NEW text, text # <<>>, PiecesOf(text, i, PartsOf(p)),
         NEW sent \in Sents, RShows(s, z, sent),
         NEW y, ROK(WriteKind(s, i, kind, text), m, y)
  PROVE  RShows(WriteKind(s, i, kind, text), y, [sent EXCEPT ![i][p] = @ \o text])
<1> DEFINE o == KindOpen(s, i, kind)
           b == OpenNext(s, kind)
           k == Len(z.blocks)
<1>0. s \in ZrRec /\ At(s, m, z) /\ Decent(z) /\ ROwned(s, z) BY DEF ROK
<1>1. WriteKind(s, i, kind, text) = Write(o, text) BY DEF WriteKind, KindOpen
<1>2. kind \in Kinds /\ kind # "tool" /\ kind # "none" BY DEF Kinds
<1>3. PICK x : /\ o \in ZrRec /\ At(o, m, x) /\ ROwned(o, x) /\ o.current # 0
               /\ x.blocks[o.current].kind # "tool" /\ RShows(o, x, sent)
  <2>1. CASE s.kind = kind
    <3>1. o = s BY <2>1 DEF KindOpen
    <3>2. s.current # 0 /\ z.blocks[s.current].kind # "tool" BY <1>0, <1>2, <2>1 DEF At
    <3> QED BY <1>0, <3>1, <3>2
  <2>2. CASE s.kind # kind
    <3>1. PICK x : /\ b \in ZrRec /\ b.current = k + 1 /\ k \in Nat
                   /\ At(b, m, x) /\ x.blocks[k + 1].kind = kind /\ ROwned(b, x)
          BY <1>2, ROpens
    <3>2. RShows(b, x, sent) BY <1>2, <3>1, ROpenShows
    <3>3. o = [b EXCEPT !.block[i] = b.current] BY <2>2 DEF KindOpen
    <3> HIDE DEF b, o
    <3> DEFINE bl == [b.block EXCEPT ![i] = b.current]
    <3>4. bl \in [Items -> Nat] /\ \A c \in Items : IsCall(c) => bl[c] = b.block[c]
          BY <3>1 DEF ZrRec
    <3>5. o = [b EXCEPT !.block = bl] BY <3>3
    <3> HIDE DEF bl
    <3>6. /\ o \in ZrRec /\ o.block = bl /\ o.current = b.current
          /\ o = [f \in DOMAIN o |-> o[f]] /\ DOMAIN o = DOMAIN b /\ o.started = b.started
          /\ o.next = b.next /\ o.kind = b.kind /\ o.out = b.out
          BY <3>1, <3>4, <3>5 DEF ZrRec
    <3>7. At(o, m, x) BY <3>1, <3>6, RAtKept
    <3>8. ROwned(o, x) BY <3>1, <3>4, <3>6, ROwnedKept
    <3>9. RShows(o, x, sent) BY <3>2, <3>4, <3>6, RShowsByFields
    <3>10. o.current = k + 1 /\ k + 1 # 0 BY <3>1, <3>6
    <3> HIDE DEF k
    <3> QED BY <1>2, <3>1, <3>6, <3>7, <3>8, <3>9, <3>10
  <2> QED BY <2>1, <2>2
<1> HIDE DEF o
<1>4. At(Write(o, text), m, y) BY <1>1 DEF ROK
<1>5. Write(o, text).block = o.block BY <1>3 DEF Write, Emit, ZrRec
<1>6. RShows(Write(o, text), y, [sent EXCEPT ![i][p] = @ \o text])
      BY <1>3, <1>4, <1>5, RWriteShows
<1> QED BY <1>1, <1>6

\* And what writeText and writeThinking leave alone.
Elsewhere(r, s, i) ==
  /\ \A j \in Items \ {i} : r.block[j] = s.block[j]
  /\ r.dropped = s.dropped /\ r.toolItems = s.toolItems /\ r.sent = s.sent

\* A block that is not the current one is not it again.
OpensNew(r, s) ==
  \A j \in Items : IsCall(j) /\ s.block[j] # 0 /\ s.block[j] = r.current => s.block[j] = s.current

LEMMA ROpensNew ==
  ASSUME NEW s, NEW m, NEW z, ROK(s, m, z), NEW r, r.current = Len(z.blocks) + 1
  PROVE  OpensNew(r, s)
<1>1. SUFFICES ASSUME NEW j \in Items, IsCall(j), s.block[j] # 0, s.block[j] = r.current PROVE FALSE
      BY DEF OpensNew
<1>2. s.block[j] \in 1..Len(z.blocks) BY <1>1 DEF ROK, ROwned
<1>3. Len(z.blocks) \in Nat BY MsgFields DEF ROK, At
<1> QED BY <1>1, <1>2, <1>3

LEMMA RTextElsewhere ==
  ASSUME NEW s, NEW m, NEW z, ROK(s, m, z), s.started, NEW i \in Items, ~IsCall(i),
         NEW kind \in {"text", "thinking"}, NEW text
  PROVE  LET r == WriteKind(s, i, kind, text) IN Elsewhere(r, s, i) /\ OpensNew(r, s)
<1> DEFINE o == KindOpen(s, i, kind)
           b == OpenNext(s, kind)
           r == WriteKind(s, i, kind, text)
<1>0. s \in ZrRec BY DEF ROK
<1>1. r = Write(o, text) BY DEF WriteKind, KindOpen
<1>2. kind \in Kinds BY DEF Kinds
<1>3. o \in ZrRec /\ Elsewhere(o, s, i) /\ OpensNew(o, s)
  <2>1. CASE s.kind = kind
    <3>1. o = s BY <2>1 DEF KindOpen
    <3> QED BY <1>0, <3>1 DEF Elsewhere, OpensNew
  <2>2. CASE s.kind # kind
    <3>1. /\ b \in ZrRec /\ b.current = Len(z.blocks) + 1
          /\ b.block = s.block /\ b.dropped = s.dropped /\ b.sent = s.sent
          /\ b.toolItems = s.toolItems
          BY <1>2, ROpens
    <3>2. o = [b EXCEPT !.block[i] = b.current] BY <2>2 DEF KindOpen
    <3> HIDE DEF b, o
    <3> DEFINE bl == [b.block EXCEPT ![i] = b.current]
    <3>3. bl \in [Items -> Nat] /\ \A j \in Items \ {i} : bl[j] = b.block[j]
          BY <3>1 DEF ZrRec
    <3>4. o = [b EXCEPT !.block = bl] BY <3>2
    <3> HIDE DEF bl
    <3>5. /\ o \in ZrRec /\ o.block = bl /\ o.current = b.current /\ o.dropped = b.dropped
          /\ o.toolItems = b.toolItems /\ o.sent = b.sent
          BY <3>1, <3>3, <3>4 DEF ZrRec
    <3>6. OpensNew(o, s) BY <3>1, <3>5, ROpensNew
    <3> QED BY <3>1, <3>3, <3>5, <3>6 DEF Elsewhere
  <2> QED BY <2>1, <2>2
<1> HIDE DEF o, r
<1>4. /\ r.block = o.block /\ r.dropped = o.dropped /\ r.toolItems = o.toolItems
      /\ r.current = o.current /\ r.sent = o.sent
      BY <1>1, <1>3 DEF Write, Emit, ZrRec
<1>5. Elsewhere(r, s, i) BY <1>3, <1>4 DEF Elsewhere
<1>6. OpensNew(r, s) BY <1>3, <1>4 DEF OpensNew
<1> QED BY <1>5, <1>6 DEF r

-----------------------------------------------------------------------------
(* Pieces and what is missing of them *)

LEMMA PrefixIs ==
  ASSUME NEW u \in Texts, NEW v \in Texts
  PROVE  IsPrefix(u, v) <=> Len(u) <= Len(v) /\ \A n \in 1..Len(u) : u[n] = v[n]
<1>1. u \in Seq(AnyPiece) /\ v \in Seq(AnyPiece) /\ Len(u) \in Nat /\ Len(v) \in Nat BY TextsAre
<1>2. ASSUME Len(u) <= Len(v)
      PROVE  SubSeq(u, 1, Len(u)) = SubSeq(v, 1, Len(u)) <=> \A n \in 1..Len(u) : u[n] = v[n]
  <2> DEFINE a == SubSeq(u, 1, Len(u))
             b == SubSeq(v, 1, Len(u))
  <2>1. a = u /\ b \in Seq(AnyPiece) /\ Len(b) = Len(u) /\ \A n \in 1..Len(u) : b[n] = v[n]
        BY <1>1, <1>2
  <2> HIDE DEF a, b
  <2>2. (\A n \in 1..Len(u) : u[n] = b[n]) => u = b BY <1>1, <2>1, SeqEqual
  <2>3. a = b <=> \A n \in 1..Len(u) : u[n] = v[n] BY <2>1, <2>2
  <2> QED BY <2>3 DEF a, b
<1> QED BY <1>2 DEF IsPrefix

LEMMA MissingRest ==
  ASSUME NEW s \in ZrRec, NEW i \in Items, NEW p \in ItemParts, NEW full \in Texts
  PROVE  LET rest == Missing(s, i, p, full)
         IN /\ IsPrefix(s.sent[i][p], full) =>
                 /\ rest \in Texts /\ s.sent[i][p] \o rest = full
                 /\ rest = <<>> <=> s.sent[i][p] = full
            /\ ~IsPrefix(s.sent[i][p], full) => rest = <<>>
<1> DEFINE u == s.sent[i][p]
           rest == Missing(s, i, p, full)
           later == SubSeq(full, Len(u) + 1, Len(full))
<1>1. u \in Texts BY DEF ZrRec
<1>2. rest = IF IsPrefix(u, full) /\ u # full THEN later ELSE <<>> BY DEF Missing, IsStrictPrefix
<1> HIDE DEF u, rest
<1>3. u \in Seq(AnyPiece) /\ full \in Seq(AnyPiece) /\ Len(u) \in Nat /\ Len(full) \in Nat
      BY <1>1, TextsAre
<1>4. ASSUME IsPrefix(u, full)
      PROVE  rest \in Texts /\ u \o rest = full /\ (rest = <<>> <=> u = full)
  <2>1. Len(u) <= Len(full) /\ \A n \in 1..Len(u) : u[n] = full[n] BY <1>1, <1>4, PrefixIs
  <2>2. CASE u = full
    <3>1. rest = <<>> /\ <<>> \in Texts BY <1>2, <2>2, TextsAre
    <3>2. u \o <<>> = u BY <1>3
    <3> QED BY <2>2, <3>1, <3>2
  <2>3. CASE u # full
    <3>1. rest = later BY <1>2, <1>4, <2>3
    <3>2. /\ later \in Seq(AnyPiece) /\ Len(later) = Len(full) - Len(u)
          /\ \A n \in 1..Len(later) : later[n] = full[Len(u) + n]
          BY <1>3, <2>1
    <3> HIDE DEF later
    <3>3. /\ u \o later \in Seq(AnyPiece) /\ Len(u \o later) = Len(full)
          /\ \A n \in 1..Len(full) : (u \o later)[n] = full[n]
      <4>1. /\ u \o later \in Seq(AnyPiece) /\ Len(u \o later) = Len(u) + Len(later)
            /\ \A n \in 1..(Len(u) + Len(later)) :
                 (u \o later)[n] = IF n <= Len(u) THEN u[n] ELSE later[n - Len(u)]
            BY <1>3, <3>2
      <4>2. Len(u) + Len(later) = Len(full) BY <1>3, <2>1, <3>2
      <4>3. ASSUME NEW n \in 1..Len(full) PROVE (u \o later)[n] = full[n]
        <5>1. CASE n <= Len(u)
          <6>1. n \in 1..Len(u) BY <1>3, <5>1
          <6> QED BY <2>1, <4>1, <4>2, <5>1, <6>1
        <5>2. CASE ~(n <= Len(u))
          <6>1. n - Len(u) \in 1..Len(later) /\ Len(u) + (n - Len(u)) = n BY <1>3, <2>1, <3>2, <5>2
          <6>2. later[n - Len(u)] = full[n] BY <3>2, <6>1
          <6> QED BY <4>1, <4>2, <5>2, <6>2
        <5> QED BY <5>1, <5>2
      <4> QED BY <4>1, <4>2, <4>3
    <3>4. u \o later = full BY <1>3, <3>3, SeqEqual
    <3>5. later # <<>>
      <4>1. SUFFICES ASSUME later = <<>> PROVE FALSE OBVIOUS
      <4>2. u \o <<>> = u BY <1>3
      <4> QED BY <2>3, <3>4, <4>1, <4>2
    <3>6. later \in Texts BY <3>2, TextsAre
    <3> QED BY <2>3, <3>1, <3>4, <3>5, <3>6
  <2> QED BY <2>2, <2>3
<1> QED BY <1>2, <1>4 DEF u, rest

LEMMA PiecesPrefix ==
  ASSUME NEW i \in Nat, NEW p \in ItemParts, NEW k \in Nat, NEW n \in Nat
  PROVE  /\ IsPrefix(Pieces(i, p, k), Pieces(i, p, n)) <=> k <= n
         /\ Pieces(i, p, k) = Pieces(i, p, n) <=> k = n
<1> DEFINE u == Pieces(i, p, k)
           v == Pieces(i, p, n)
<1>1. u \in Texts /\ v \in Texts /\ Len(u) = k /\ Len(v) = n BY PiecesAre DEF PiecesOf
<1>2. k <= n => \A j \in 1..k : u[j] = v[j] BY DEF Pieces
<1> HIDE DEF u, v
<1>3. IsPrefix(u, v) <=> k <= n BY <1>1, <1>2, PrefixIs
<1>4. u = v <=> k = n BY <1>1 DEF u, v
<1> QED BY <1>3, <1>4 DEF u, v

JoinedLen(k) == IF k = 0 THEN 0 ELSE 2 * k - 1

LEMMA JoinedShape ==
  ASSUME NEW i \in Nat, NEW k \in Nat
  PROVE  /\ Joined(i, k) \in Texts /\ Len(Joined(i, k)) = JoinedLen(k) /\ JoinedLen(k) \in Nat
         /\ \A n \in 1..JoinedLen(k) :
              Joined(i, k)[n] = IF n % 2 = 1 THEN Piece(i, "thinking", (n + 1) \div 2) ELSE Gap(i)
<1> DEFINE w == Joined(i, k)
           e(n) == IF n % 2 = 1 THEN Piece(i, "thinking", (n + 1) \div 2) ELSE Gap(i)
<1>1. JoinedLen(k) \in Nat BY DEF JoinedLen
<1>2. w = [n \in 1..JoinedLen(k) |-> e(n)] BY DEF Joined, JoinedLen
<1>3. w \in Texts BY JoinedIs DEF PiecesOf
<1> HIDE DEF w
<1>4. Len(w) = JoinedLen(k) BY <1>1, <1>2, <1>3 DEF Texts
<1>5. \A n \in 1..JoinedLen(k) : w[n] = e(n) BY <1>2
<1> QED BY <1>1, <1>3, <1>4, <1>5 DEF w

LEMMA JoinedPrefix ==
  ASSUME NEW i \in Nat, NEW k \in Nat, NEW n \in Nat
  PROVE  /\ IsPrefix(Joined(i, k), Joined(i, n)) <=> k <= n
         /\ Joined(i, k) = Joined(i, n) <=> k = n
<1> DEFINE u == Joined(i, k)
           v == Joined(i, n)
<1>1. u \in Texts /\ v \in Texts /\ Len(u) = JoinedLen(k) /\ Len(v) = JoinedLen(n)
      /\ JoinedLen(k) \in Nat /\ JoinedLen(n) \in Nat
      BY JoinedShape
<1>2. JoinedLen(k) <= JoinedLen(n) <=> k <= n BY DEF JoinedLen
<1>3. JoinedLen(k) = JoinedLen(n) <=> k = n BY DEF JoinedLen
<1>4. JoinedLen(k) <= JoinedLen(n) => \A j \in 1..JoinedLen(k) : u[j] = v[j]
  <2> SUFFICES ASSUME JoinedLen(k) <= JoinedLen(n), NEW j \in 1..JoinedLen(k) PROVE u[j] = v[j]
      OBVIOUS
  <2>1. j \in 1..JoinedLen(n) BY <1>1
  <2> QED BY <2>1, JoinedShape
<1> HIDE DEF u, v
<1>5. IsPrefix(u, v) <=> k <= n BY <1>1, <1>2, <1>4, PrefixIs
<1>6. u = v <=> k = n BY <1>1, <1>3 DEF u, v
<1> QED BY <1>5, <1>6 DEF u, v

LEMMA JoinedFew ==
  ASSUME NEW i \in Nat
  PROVE  Joined(i, 0) = <<>> /\ Joined(i, 1) = Pieces(i, "thinking", 1)
<1>0. JoinedLen(0) = 0 /\ JoinedLen(1) = 1 /\ 0 \in Nat /\ 1 \in Nat BY DEF JoinedLen
<1>1. Joined(i, 0) \in Texts /\ Len(Joined(i, 0)) = JoinedLen(0) BY <1>0, JoinedShape
<1>2. Joined(i, 0) = <<>> BY <1>0, <1>1 DEF Texts
<1>3. "thinking" \in ItemParts BY DEF ItemParts
<1>p. PiecesOf(Pieces(i, "thinking", 1), i, {"thinking"}) /\ Len(Pieces(i, "thinking", 1)) = 1
      BY <1>0, <1>3, PiecesAre
<1>4. Pieces(i, "thinking", 1) \in Texts /\ Len(Pieces(i, "thinking", 1)) = 1
      BY <1>p DEF PiecesOf
<1>5. Joined(i, 1) \in Texts /\ Len(Joined(i, 1)) = JoinedLen(1) BY <1>0, JoinedShape
<1>6. Joined(i, 1)[1] = Piece(i, "thinking", 1)
  <2>1. 1 \in 1..JoinedLen(1) /\ 1 % 2 = 1 /\ (1 + 1) \div 2 = 1 BY <1>0
  <2> QED BY <1>0, <2>1, JoinedShape
<1>7. Pieces(i, "thinking", 1)[1] = Piece(i, "thinking", 1) BY DEF Pieces
<1> DEFINE u == Joined(i, 1)
           v == Pieces(i, "thinking", 1)
<1>8. u \in Texts /\ v \in Texts /\ Len(u) = 1 /\ Len(v) = 1 /\ u[1] = v[1]
      BY <1>0, <1>4, <1>5, <1>6, <1>7
<1> HIDE DEF u, v
<1>9. \A n \in 1..Len(u) : u[n] = v[n] BY <1>8
<1>10. u = v BY <1>8, <1>9, TextsAre, SeqEqual
<1> QED BY <1>2, <1>10 DEF u, v

\* A boundary between the parts tells the two apart.
LEMMA JoinedApart ==
  ASSUME NEW i \in Nat, NEW k \in Nat, NEW n \in Nat, k >= 2
  PROVE  /\ ~IsPrefix(Pieces(i, "thinking", k), Joined(i, n))
         /\ ~IsPrefix(Joined(i, k), Pieces(i, "thinking", n))
<1> DEFINE u == Pieces(i, "thinking", k)
           v == Pieces(i, "thinking", n)
           f == Joined(i, k)
           g == Joined(i, n)
<1>1. "thinking" \in ItemParts BY DEF ItemParts
<1>2. u \in Texts /\ Len(u) = k /\ v \in Texts /\ Len(v) = n BY <1>1, PiecesAre DEF PiecesOf
<1>3. f \in Texts /\ g \in Texts /\ Len(f) = JoinedLen(k) /\ Len(g) = JoinedLen(n) BY JoinedShape
<1>4. u[2].part = "thinking" /\ (n >= 2 => v[2].part = "thinking") BY DEF Pieces, Piece
<1>5. \A l \in Nat : l >= 2 => 2 \in 1..JoinedLen(l) BY DEF JoinedLen
<1>6. \A l \in Nat : l >= 2 => Joined(i, l)[2] = Gap(i)
  <2>1. ~(2 % 2 = 1) OBVIOUS
  <2> QED BY <1>5, <2>1, JoinedShape
<1>7. f[2].part = "gap" /\ (n >= 2 => g[2].part = "gap") BY <1>6 DEF Gap
<1>8. JoinedLen(k) \in Nat /\ JoinedLen(n) \in Nat /\ JoinedLen(k) >= 2 /\ (~(n >= 2) => JoinedLen(n) <= 1)
      BY DEF JoinedLen
<1> HIDE DEF u, v, f, g
<1>9. ~IsPrefix(u, g)
  <2>1. SUFFICES ASSUME IsPrefix(u, g) PROVE FALSE OBVIOUS
  <2>2. Len(u) <= Len(g) /\ \A j \in 1..Len(u) : u[j] = g[j] BY <1>2, <1>3, <2>1, PrefixIs
  <2>3. n >= 2 BY <1>2, <1>3, <1>8, <2>2
  <2>4. 2 \in 1..Len(u) BY <1>2
  <2> QED BY <1>4, <1>7, <2>2, <2>3, <2>4
<1>10. ~IsPrefix(f, v)
  <2>1. SUFFICES ASSUME IsPrefix(f, v) PROVE FALSE OBVIOUS
  <2>2. Len(f) <= Len(v) /\ \A j \in 1..Len(f) : f[j] = v[j] BY <1>2, <1>3, <2>1, PrefixIs
  <2>3. n >= 2 /\ 2 \in 1..Len(f) BY <1>2, <1>3, <1>8, <2>2
  <2> QED BY <1>4, <1>7, <2>2, <2>3
<1> QED BY <1>9, <1>10 DEF u, v, f, g

\* Another summary part, after a boundary where it is not the first.
SummaryText(i, n) ==
  IF n = 0 THEN <<Piece(i, "thinking", 1)>> ELSE <<Gap(i), Piece(i, "thinking", n + 1)>>

LEMMA SummaryIs ==
  ASSUME NEW i \in Nat, NEW n \in Nat
  PROVE  PiecesOf(SummaryText(i, n), i, {"thinking", "gap"}) /\ SummaryText(i, n) # <<>>
<1> DEFINE T == [item : Nat, part : PieceParts, n : Nat]
           e == Piece(i, "thinking", n + 1)
           g == Gap(i)
           t == SummaryText(i, n)
<1>1. e \in T /\ e.item = i /\ e.part = "thinking" BY DEF Piece, PieceParts
<1>2. g \in T /\ g.item = i /\ g.part = "gap" BY DEF Gap, PieceParts
<1>3. t = <<e>> \/ t = <<g, e>> BY DEF SummaryText
<1> HIDE DEF T, e, g, t
<1>4. <<e>> # <<>> /\ <<e>> \in Seq(T) /\ Len(<<e>>) = 1 /\ <<e>>[1] = e BY <1>1
<1>5. /\ <<g, e>> # <<>> /\ <<g, e>> \in Seq(T) /\ Len(<<g, e>>) = 2
      /\ <<g, e>>[1] = g /\ <<g, e>>[2] = e
      BY <1>1, <1>2
<1>6. CASE t = <<e>> BY <1>1, <1>4, <1>6 DEF PiecesOf, Texts, T, t
<1>7. CASE t = <<g, e>>
  <2>1. \A l \in 1..Len(t) : t[l] = g \/ t[l] = e BY <1>5, <1>7
  <2> QED BY <1>1, <1>2, <1>5, <1>7, <2>1 DEF PiecesOf, Texts, T, t
<1> QED BY <1>3, <1>6, <1>7

LEMMA JoinedMore ==
  ASSUME NEW i \in Nat, NEW n \in Nat
  PROVE  Joined(i, n) \o SummaryText(i, n) = Joined(i, n + 1)
<1> DEFINE u == Joined(i, n)
           v == SummaryText(i, n)
           w == Joined(i, n + 1)
           a == JoinedLen(n)
           c == JoinedLen(n + 1)
<1>0. n + 1 \in Nat OBVIOUS
<1>1. /\ u \in Texts /\ Len(u) = a /\ a \in Nat
      /\ w \in Texts /\ Len(w) = c /\ c \in Nat
      /\ \A j \in 1..a : u[j] = IF j % 2 = 1 THEN Piece(i, "thinking", (j + 1) \div 2) ELSE Gap(i)
      /\ \A j \in 1..c : w[j] = IF j % 2 = 1 THEN Piece(i, "thinking", (j + 1) \div 2) ELSE Gap(i)
  <2>1. /\ u \in Texts /\ Len(u) = a /\ a \in Nat
        /\ \A j \in 1..a : u[j] = IF j % 2 = 1 THEN Piece(i, "thinking", (j + 1) \div 2) ELSE Gap(i)
        BY JoinedShape
  <2> DEFINE k == n + 1
  <2>2. k \in Nat BY <1>0
  <2> HIDE DEF k
  <2>3. /\ Joined(i, k) \in Texts /\ Len(Joined(i, k)) = JoinedLen(k) /\ JoinedLen(k) \in Nat
        /\ \A j \in 1..JoinedLen(k) :
             Joined(i, k)[j] = IF j % 2 = 1 THEN Piece(i, "thinking", (j + 1) \div 2) ELSE Gap(i)
        BY <2>2, JoinedShape
  <2> QED BY <2>1, <2>3 DEF k
<1>2. v \in Texts BY SummaryIs DEF PiecesOf
<1>3. /\ n = 0 => a = 0 /\ c = 1
      /\ n # 0 => a = 2 * n - 1 /\ c = 2 * n + 1
      BY DEF JoinedLen
<1>4. /\ n = 0 => Len(v) = 1 /\ v[1] = Piece(i, "thinking", 1)
      /\ n # 0 => Len(v) = 2 /\ v[1] = Gap(i) /\ v[2] = Piece(i, "thinking", n + 1)
      BY DEF SummaryText
<1> HIDE DEF u, v, w, a, c
<1>5. c = a + Len(v)
  <2>1. CASE n = 0 BY <1>3, <1>4, <2>1
  <2>2. CASE n # 0
    <3>1. Len(v) = 2 BY <1>4, <2>2
    <3>2. a = 2 * n - 1 /\ c = 2 * n + 1 BY <1>3, <2>2
    <3>3. 2 * n + 1 = (2 * n - 1) + 2 OBVIOUS
    <3> QED BY <3>1, <3>2, <3>3
  <2> QED BY <2>1, <2>2
<1>6. ASSUME NEW j \in 1..Len(v) PROVE v[j] = w[a + j]
  <2>1. CASE n = 0
    <3>0. Len(v) = 1 /\ a = 0 /\ c = 1 BY <1>3, <1>4, <2>1
    <3>1. j = 1 /\ a + j = 1 /\ 1 \in 1..c BY <3>0
    <3>2. w[1] = Piece(i, "thinking", 1)
      <4>1. 1 % 2 = 1 /\ (1 + 1) \div 2 = 1 OBVIOUS
      <4> QED BY <1>1, <3>1, <4>1
    <3> QED BY <1>4, <2>1, <3>1, <3>2
  <2>2. CASE n # 0
    <3>1. CASE j = 1
      <4>1. a + j = 2 * n /\ 2 * n \in 1..c /\ (2 * n) % 2 # 1 BY <1>3, <2>2, <3>1
      <4>2. w[2 * n] = Gap(i) BY <1>1, <4>1
      <4> QED BY <1>4, <2>2, <3>1, <4>1, <4>2
    <3>2. CASE j = 2
      <4>1. a + j = 2 * n + 1 /\ 2 * n + 1 \in 1..c /\ (2 * n + 1) % 2 = 1 /\ (2 * n + 1 + 1) \div 2 = n + 1
            BY <1>3, <2>2, <3>2
      <4>2. w[2 * n + 1] = Piece(i, "thinking", n + 1) BY <1>1, <4>1
      <4> QED BY <1>4, <2>2, <3>2, <4>1, <4>2
    <3>3. Len(v) = 2 BY <1>4, <2>2
    <3> QED BY <3>1, <3>2, <3>3
  <2> QED BY <2>1, <2>2
<1>7. \A j \in 1..a : u[j] = w[j]
  <2>1. \A j \in 1..a : j \in 1..c
    <3>1. Len(v) \in Nat BY <1>2, TextsAre
    <3> QED BY <1>1, <1>5, <3>1
  <2> QED BY <1>1, <2>1
<1>8. u \in Seq(AnyPiece) /\ v \in Seq(AnyPiece) /\ w \in Seq(AnyPiece) BY <1>1, <1>2, TextsAre
<1>9. /\ u \o v \in Seq(AnyPiece) /\ Len(u \o v) = Len(w)
      /\ \A j \in 1..Len(w) : (u \o v)[j] = w[j]
  <2>0. Len(v) \in Nat BY <1>8
  <2>1. /\ u \o v \in Seq(AnyPiece) /\ Len(u \o v) = a + Len(v) /\ Len(v) \in Nat
        /\ \A j \in 1..(a + Len(v)) : (u \o v)[j] = IF j <= a THEN u[j] ELSE v[j - a]
    <3>1. \A p, q \in Seq(AnyPiece) :
            /\ p \o q \in Seq(AnyPiece) /\ Len(p \o q) = Len(p) + Len(q)
            /\ \A j \in 1..(Len(p) + Len(q)) : (p \o q)[j] = IF j <= Len(p) THEN p[j] ELSE q[j - Len(p)]
          OBVIOUS
    <3>2. Len(u) = a BY <1>1
    <3> QED BY <1>8, <2>0, <3>1, <3>2
  <2>2. ASSUME NEW j \in 1..c PROVE (u \o v)[j] = w[j]
    <3>1. CASE j <= a
      <4>1. j \in 1..a BY <1>1, <3>1
      <4> QED BY <1>5, <1>7, <2>1, <3>1, <4>1
    <3>2. CASE ~(j <= a)
      <4>1. j - a \in 1..Len(v) /\ a + (j - a) = j BY <1>1, <1>5, <2>1, <3>2
      <4>2. v[j - a] = w[j] BY <1>6, <4>1
      <4> QED BY <1>5, <2>1, <3>2, <4>2
    <3> QED BY <3>1, <3>2
  <2> QED BY <1>1, <1>5, <2>1, <2>2
<1>10. u \o v = w BY <1>8, <1>9, SeqEqual
<1> QED BY <1>10 DEF u, v, w

\* Its pieces are the parts.
LEMMA JoinedThinks ==
  ASSUME NEW i \in Nat, NEW n \in Nat
  PROVE  Only(Joined(i, n), i, {"thinking"}) = Pieces(i, "thinking", n)
<1> DEFINE w == Joined(i, n)
           a == JoinedLen(n)
           g == [m \in 0..a |-> Pieces(i, "thinking", (m + 1) \div 2)]
<1>1. /\ w \in Texts /\ Len(w) = a /\ a \in Nat
      /\ \A j \in 1..a : w[j] = IF j % 2 = 1 THEN Piece(i, "thinking", (j + 1) \div 2) ELSE Gap(i)
      BY JoinedShape
<1>2. "thinking" \in ItemParts BY DEF ItemParts
<1> HIDE DEF w, a
<1>3. (0 + 1) \div 2 = 0 /\ (a + 1) \div 2 = n
  <2>1. a = IF n = 0 THEN 0 ELSE 2 * n - 1 BY DEF a, JoinedLen
  <2> QED BY <2>1
<1>4. g[0] = <<>>
  <2>1. 0 \in 0..a /\ 0 \in Nat BY <1>1
  <2>2. g[0] = Pieces(i, "thinking", (0 + 1) \div 2) BY <2>1
  <2>3. Pieces(i, "thinking", 0) = <<>> BY <1>2, <2>1, PieceMore
  <2> HIDE DEF g
  <2> QED BY <1>3, <2>2, <2>3
<1>5. ASSUME NEW m \in 1..a
      PROVE  g[m] = IF Mine(w[m], i, {"thinking"}) THEN Append(g[m - 1], w[m]) ELSE g[m - 1]
  <2>0. m \in 0..a /\ m - 1 \in 0..a /\ m - 1 + 1 = m BY <1>1
  <2>1. g[m] = Pieces(i, "thinking", (m + 1) \div 2) /\ g[m - 1] = Pieces(i, "thinking", m \div 2)
        BY <2>0
  <2> HIDE DEF g
  <2>2. CASE m % 2 = 1
    <3> DEFINE k == m \div 2
    <3>1. (m + 1) \div 2 = k + 1 /\ k \in Nat BY <1>1, <2>2
    <3>2. w[m] = Piece(i, "thinking", k + 1) BY <1>1, <2>2, <3>1
    <3> HIDE DEF k
    <3>3. Mine(w[m], i, {"thinking"}) BY <3>2 DEF Mine, Piece
    <3>4. Pieces(i, "thinking", k) \in Texts /\ Pieces(i, "thinking", k) \o <<w[m]>> = Pieces(i, "thinking", k + 1)
          BY <1>2, <3>1, <3>2, PieceMore
    <3>5. Append(Pieces(i, "thinking", k), w[m]) = Pieces(i, "thinking", k) \o <<w[m]>>
      <4>1. Pieces(i, "thinking", k) \in Seq(AnyPiece) /\ w[m] \in AnyPiece BY <1>1, <3>4, TextsAre
      <4> QED BY <4>1
    <3> QED BY <2>1, <3>1, <3>3, <3>4, <3>5 DEF k
  <2>3. CASE m % 2 # 1
    <3>1. (m + 1) \div 2 = m \div 2 BY <1>1, <2>3
    <3>2. w[m] = Gap(i) BY <1>1, <2>3
    <3>3. ~Mine(w[m], i, {"thinking"}) BY <3>2 DEF Mine, Gap
    <3> QED BY <2>1, <3>1, <3>3
  <2> QED BY <2>2, <2>3
<1>6. g[a] = Pieces(i, "thinking", n) BY <1>1, <1>3
<1> HIDE DEF g
<1>7. Selects(g, w, i, {"thinking"}) BY <1>1, <1>4, <1>5 DEF Selects
<1> QED BY <1>1, <1>6, <1>7, OnlyIs DEF w

-----------------------------------------------------------------------------
(* What an operation shows *)

\* The client's message has what the stream has noted as sent.
Showing(s, m) == s.started /\ \E z : ROK(s, m, z) /\ RShows(s, z, s.sent)

\* What is not item i's is left as it is; a block that is not the current one
\* is not it again.
Untouched(r, s, i) ==
  /\ \A j \in Items \ {i} :
       /\ r.block[j] = s.block[j] /\ r.sent[j] = s.sent[j]
       /\ j \in r.dropped <=> j \in s.dropped
  /\ \A j \in Items \ {i} :
       IsCall(j) /\ s.block[j] # 0 /\ s.block[j] = r.current => s.block[j] = s.current

\* A text is noted as sent of a part of it.
Sends(r, s, i, p, text) ==
  /\ r.sent[i][p] = s.sent[i][p] \o text
  /\ \A q \in ItemParts \ {p} : r.sent[i][q] = s.sent[i][q]

SameSaid(r, s) ==
  /\ r.block = s.block /\ r.sent = s.sent /\ r.dropped = s.dropped
  /\ r.toolItems = s.toolItems /\ r.current = s.current

LEMMA SameUntouched ==
  ASSUME NEW s, NEW r, SameSaid(r, s) PROVE \A i : Untouched(r, s, i)
BY DEF SameSaid, Untouched

LEMMA UntouchedOn ==
  ASSUME NEW s, NEW r, NEW q, NEW i, Untouched(r, s, i), Untouched(q, r, i)
  PROVE  Untouched(q, s, i)
BY DEF Untouched

LEMMA ShowingByFields ==
  ASSUME NEW s, NEW m, NEW z, RShows(s, z, s.sent), NEW r, ROK(r, m, z), r.started, SameSaid(r, s)
  PROVE  Showing(r, m)
<1>1. RShows(r, z, s.sent) BY RShowsByFields DEF SameSaid
<1> QED BY <1>1 DEF Showing, SameSaid

LEMMA ShowingStart ==
  ASSUME NEW s, NEW m \in Msg, NEW z, ROK(s, m, z), RShows(s, z, s.sent)
  PROVE  Showing(StartMessage(s), m) /\ SameSaid(StartMessage(s), s)
<1> DEFINE r == StartMessage(s)
<1>1. s \in ZrRec /\ At(s, m, z) BY DEF ROK
<1>2. PICK y : ROK(r, m, y) BY RStarts
<1>3. r.started /\ r.sent = s.sent /\ r.block = s.block /\ r.dropped = s.dropped BY RStarts
<1>4. y.blocks = z.blocks /\ SameHad(y, z) /\ r.current = s.current BY <1>1, <1>2, StartShows DEF ROK
<1>5. r.toolItems = s.toolItems
  <2>1. Keeps(r, s, {"started", "out"}) BY <1>1, StartOK
  <2> HIDE DEF r
  <2> QED BY <1>1, <2>1 DEF Keeps, ZrRec
<1> HIDE DEF r
<1>6. SameSaid(r, s) BY <1>3, <1>4, <1>5 DEF SameSaid
<1>7. RShows(r, y, s.sent)
  <2>1. \A i \in Items, v \in Views : Received(y, i, v[2]) = Only(s.sent[i][v[1]], i, v[2])
        BY <1>4 DEF RShows, SameHad
  <2>2. \A i \in Items : IsCall(i) /\ r.block[i] # 0 => y.blocks[r.block[i]].text = Received(y, i, {"args"})
        BY <1>3, <1>4 DEF RShows, SameHad
  <2>3. r.current = Len(y.blocks) BY <1>4 DEF RShows
  <2> QED BY <2>1, <2>2, <2>3 DEF RShows
<1>8. Showing(r, m) BY <1>2, <1>3, <1>7 DEF Showing
<1> QED BY <1>6, <1>8 DEF r

LEMMA ShowingStop ==
  ASSUME NEW s, NEW m, Showing(s, m), NEW stop \in StopReasons
  PROVE  Showing([s EXCEPT !.stop = stop], m) /\ SameSaid([s EXCEPT !.stop = stop], s)
<1> DEFINE r == [s EXCEPT !.stop = stop]
<1>1. PICK z : ROK(s, m, z) /\ RShows(s, z, s.sent) BY DEF Showing
<1>2. ROK(r, m, z) /\ r.started = s.started BY <1>1, RMarks
<1>3. SameSaid(r, s)
  <2>1. s \in ZrRec BY <1>1 DEF ROK
  <2> QED BY <2>1 DEF ZrRec, SameSaid
<1> HIDE DEF r
<1>4. r.started BY <1>2 DEF Showing
<1>5. Showing(r, m) BY <1>1, <1>2, <1>3, <1>4, ShowingByFields
<1> QED BY <1>3, <1>5 DEF r

LEMMA ShowingSettled ==
  ASSUME NEW s, NEW m, Showing(s, m)
  PROVE  Showing([s EXCEPT !.settled = TRUE], m) /\ SameSaid([s EXCEPT !.settled = TRUE], s)
<1> DEFINE r == [s EXCEPT !.settled = TRUE]
<1>1. PICK z : ROK(s, m, z) /\ RShows(s, z, s.sent) BY DEF Showing
<1>2. ROK(r, m, z) /\ r.started = s.started BY <1>1, RSettles
<1>3. SameSaid(r, s)
  <2>1. s \in ZrRec BY <1>1 DEF ROK
  <2> QED BY <2>1 DEF ZrRec, SameSaid
<1> HIDE DEF r
<1>4. r.started BY <1>2 DEF Showing
<1>5. Showing(r, m) BY <1>1, <1>2, <1>3, <1>4, ShowingByFields
<1> QED BY <1>3, <1>5 DEF r

LEMMA ShowingReason ==
  ASSUME NEW s, NEW m, Showing(s, m), NEW reason \in Reasons
  PROVE  Showing(Reason(s, reason), m) /\ SameSaid(Reason(s, reason), s)
<1>1. "refusal" \in StopReasons /\ "max_tokens" \in StopReasons BY DEF StopReasons
<1> DEFINE a == [s EXCEPT !.stop = "refusal"]
           b == [s EXCEPT !.stop = "max_tokens"]
<1>2. Showing(a, m) /\ SameSaid(a, s) /\ Showing(b, m) /\ SameSaid(b, s) BY <1>1, ShowingStop
<1>3. Reason(s, reason) = a \/ Reason(s, reason) = b \/ Reason(s, reason) = s
  <2>1. CASE reason = "content_filter" BY <2>1 DEF Reason
  <2>2. CASE reason = "max_output_tokens" /\ s.stop # "refusal" BY <2>2 DEF Reason
  <2>3. CASE reason # "content_filter" /\ ~(reason = "max_output_tokens" /\ s.stop # "refusal")
        BY <2>3 DEF Reason
  <2> QED BY <2>1, <2>2, <2>3
<1>4. SameSaid(s, s) BY DEF SameSaid
<1> HIDE DEF a, b
<1> QED BY <1>2, <1>3, <1>4

\* What is noted and written.
\* What is recorded as sent, and that nothing else changes.
Recorded(a, s, i, p, text) ==
  /\ a.sent = [s.sent EXCEPT ![i][p] = @ \o text]
  /\ a.block = s.block /\ a.dropped = s.dropped /\ a.toolItems = s.toolItems
  /\ a.current = s.current /\ a.started = s.started
  /\ Sends(a, s, i, p, text) /\ \A j \in Items \ {i} : a.sent[j] = s.sent[j]

LEMMA RecordIs ==
  ASSUME NEW s \in ZrRec, NEW i \in Items, NEW p \in ItemParts, NEW text \in Texts
  PROVE  Recorded(Record(s, i, p, text), s, i, p, text)
<1> DEFINE v == [s.sent EXCEPT ![i][p] = @ \o text]
           a == Record(s, i, p, text)
<1>1. s.sent \in [Items -> [ItemParts -> Texts]] BY DEF ZrRec
<1>2. /\ v[i][p] = s.sent[i][p] \o text
      /\ \A q \in ItemParts \ {p} : v[i][q] = s.sent[i][q]
      /\ \A j \in Items \ {i} : v[j] = s.sent[j]
      BY <1>1
<1>3. a = [s EXCEPT !.sent = v] BY DEF Record
<1> HIDE DEF v, a
<1>4. /\ a.sent = v /\ a.block = s.block /\ a.dropped = s.dropped /\ a.toolItems = s.toolItems
      /\ a.current = s.current /\ a.started = s.started
      BY <1>3 DEF ZrRec
<1>5. Sends(a, s, i, p, text) /\ \A j \in Items \ {i} : a.sent[j] = s.sent[j]
      BY <1>2, <1>4 DEF Sends
<1>6. v = [s.sent EXCEPT ![i][p] = @ \o text] BY DEF v
<1>7. Recorded(a, s, i, p, text) BY <1>4, <1>5, <1>6 DEF Recorded
<1> QED BY <1>7 DEF a

LEMMA ShowingWrite ==
  ASSUME NEW s, NEW m \in Msg, Showing(s, m), NEW i \in Items, ~IsCall(i), NEW p \in ItemParts,
         NEW kind \in {"text", "thinking"}, NEW text, text # <<>>,
         PiecesOf(text, i, PartsOf(p)), PartsOf(p) \subseteq KindParts(kind)
  PROVE  LET r == WriteKind(Record(s, i, p, text), i, kind, text)
         IN /\ Showing(r, m) /\ Untouched(r, s, i) /\ Sends(r, s, i, p, text)
            /\ r.toolItems = s.toolItems
<1> DEFINE a == Record(s, i, p, text)
           r == WriteKind(a, i, kind, text)
           now == [s.sent EXCEPT ![i][p] = @ \o text]
<1>1. PICK z : ROK(s, m, z) /\ RShows(s, z, s.sent) BY DEF Showing
<1>2. s \in ZrRec /\ text \in Texts /\ s.started BY <1>1 DEF ROK, PiecesOf, Showing
<1>3. /\ a.sent = now /\ a.block = s.block /\ a.dropped = s.dropped /\ a.toolItems = s.toolItems
      /\ a.current = s.current /\ a.started
      /\ Sends(a, s, i, p, text) /\ \A j \in Items \ {i} : a.sent[j] = s.sent[j]
  <2>1. Recorded(Record(s, i, p, text), s, i, p, text) BY <1>2, RecordIs
  <2>2. Recorded(a, s, i, p, text) BY <2>1
  <2> HIDE DEF a, r
  <2> QED BY <1>2, <2>2 DEF Recorded
<1>4. ROK(a, m, z) BY <1>1, <1>2, RRecord
<1> HIDE DEF a, now
<1>5. RShows(a, z, s.sent) BY <1>1, <1>3, RShowsByFields
<1>6. s.sent \in Sents BY <1>2 DEF ZrRec, Sents
<1>7. r.sent = a.sent /\ SameMarks(r, a) /\ \E y : ROK(r, m, y) BY <1>3, <1>4, RWriteKind
<1>8. PICK y : ROK(r, m, y) BY <1>7
<1>9. RShows(r, y, now) BY <1>3, <1>4, <1>5, <1>6, <1>8, RTextShows DEF now
<1>10. Elsewhere(r, a, i) /\ OpensNew(r, a) BY <1>3, <1>4, RTextElsewhere
<1> HIDE DEF r
<1>11. r.sent = now /\ r.started BY <1>3, <1>7 DEF SameMarks
<1>12. Showing(r, m) BY <1>8, <1>9, <1>11 DEF Showing
<1>13. Untouched(r, s, i)
  <2>1. \A j \in Items \ {i} : r.block[j] = s.block[j] /\ r.sent[j] = s.sent[j]
        BY <1>3, <1>7, <1>10 DEF Elsewhere
  <2>2. r.dropped = s.dropped BY <1>3, <1>10 DEF Elsewhere
  <2>3. \A j \in Items \ {i} :
          IsCall(j) /\ s.block[j] # 0 /\ s.block[j] = r.current => s.block[j] = s.current
        BY <1>3, <1>10 DEF OpensNew
  <2> QED BY <2>1, <2>2, <2>3 DEF Untouched
<1>14. Sends(r, s, i, p, text) BY <1>3, <1>7 DEF Sends
<1>15. r.toolItems = s.toolItems BY <1>3, <1>10 DEF Elsewhere
<1> QED BY <1>12, <1>13, <1>14, <1>15 DEF r, a

\* completePart.
LEMMA ShowingPart ==
  ASSUME NEW s, NEW m \in Msg, Showing(s, m), NEW i \in Items, ~IsCall(i), NEW p \in ItemParts,
         NEW kind \in {"text", "thinking"}, NEW full,
         PiecesOf(full, i, PartsOf(p)), PartsOf(p) \subseteq KindParts(kind)
  PROVE  LET r == CompletePart(s, i, p, kind, full)
         IN /\ Showing(r, m) /\ Untouched(r, s, i) /\ Sends(r, s, i, p, Missing(s, i, p, full))
            /\ r.toolItems = s.toolItems
<1> DEFINE rest == Missing(s, i, p, full)
           w == WriteKind(Record(s, i, p, rest), i, kind, rest)
           r == CompletePart(s, i, p, kind, full)
<1>1. s \in ZrRec BY DEF Showing, ROK
<1>2. PiecesOf(rest, i, PartsOf(p)) BY <1>1, MissingIs
<1>3. r = IF rest = <<>> THEN s ELSE w BY DEF CompletePart
<1> HIDE DEF rest, r
<1>4. CASE rest = <<>>
  <2>1. r = s BY <1>3, <1>4
  <2>2. Untouched(r, s, i) BY <2>1 DEF Untouched
  <2>3. s.sent[i][p] \in Seq(AnyPiece) BY <1>1, TextsAre DEF ZrRec
  <2>4. s.sent[i][p] \o <<>> = s.sent[i][p] BY <2>3
  <2>5. Sends(r, s, i, p, rest) BY <1>4, <2>1, <2>4 DEF Sends
  <2> QED BY <2>1, <2>2, <2>5 DEF r, rest
<1>5. CASE rest # <<>>
  <2>1. /\ Showing(w, m) /\ Untouched(w, s, i) /\ Sends(w, s, i, p, rest)
        /\ w.toolItems = s.toolItems
        BY <1>2, <1>5, ShowingWrite
  <2>2. r = w BY <1>3, <1>5
  <2> HIDE DEF w
  <2> QED BY <2>1, <2>2 DEF r, rest
<1> QED BY <1>4, <1>5

\* Arguments for the open block of their call.
LEMMA ShowingArgs ==
  ASSUME NEW s, NEW m \in Msg, Showing(s, m), NEW i \in Items, IsCall(i),
         s.block[i] = s.current, s.block[i] # 0,
         NEW text, text # <<>>, PiecesOf(text, i, {"args"})
  PROVE  LET r == Write(Record(s, i, "args", text), text)
         IN /\ Showing(r, m) /\ Untouched(r, s, i) /\ Sends(r, s, i, "args", text)
            /\ r.toolItems = s.toolItems /\ r.block = s.block /\ r.dropped = s.dropped
            /\ r.current = s.current
<1> DEFINE a == Record(s, i, "args", text)
           r == Write(a, text)
           now == [s.sent EXCEPT ![i]["args"] = @ \o text]
<1>1. PICK z : ROK(s, m, z) /\ RShows(s, z, s.sent) BY DEF Showing
<1>2. s \in ZrRec /\ text \in Texts /\ s.started /\ "args" \in ItemParts
      BY <1>1 DEF ROK, PiecesOf, Showing, ItemParts
<1>3. /\ a.sent = now /\ a.block = s.block /\ a.dropped = s.dropped /\ a.toolItems = s.toolItems
      /\ a.current = s.current /\ a.started
      /\ Sends(a, s, i, "args", text) /\ \A j \in Items \ {i} : a.sent[j] = s.sent[j]
  <2>1. Recorded(Record(s, i, "args", text), s, i, "args", text) BY <1>2, RecordIs
  <2>2. Recorded(a, s, i, "args", text) BY <2>1
  <2> HIDE DEF a, r
  <2> QED BY <1>2, <2>2 DEF Recorded
<1>4. ROK(a, m, z) BY <1>1, <1>2, RRecord
<1>5. \E y : ROK(r, m, y) BY <1>1, <1>2, RArguments
<1> HIDE DEF a, now
<1>6. RShows(a, z, s.sent) BY <1>1, <1>3, RShowsByFields
<1>7. s.sent \in Sents BY <1>2 DEF ZrRec, Sents
<1>8. PICK y : ROK(r, m, y) BY <1>5
<1>9. a \in ZrRec /\ At(a, m, z) /\ ROwned(a, z) /\ At(r, m, y) BY <1>4, <1>8 DEF ROK
<1>10. /\ r.block = a.block /\ r.sent = a.sent /\ r.dropped = a.dropped /\ r.toolItems = a.toolItems
       /\ r.current = a.current /\ r.started = a.started
       BY <1>9 DEF Write, Emit, ZrRec
<1>11. PiecesOf(text, i, PartsOf("args")) BY DEF PartsOf
<1>12. a.current # 0 /\ (IsCall(i) => a.block[i] = a.current /\ "args" = "args") BY <1>3
<1>13. RShows(r, y, now) BY <1>2, <1>6, <1>7, <1>9, <1>10, <1>11, <1>12, RWriteShows DEF now
<1> HIDE DEF r
<1>14. Showing(r, m) BY <1>3, <1>8, <1>10, <1>13 DEF Showing
<1>15. Untouched(r, s, i) BY <1>3, <1>10 DEF Untouched
<1>16. Sends(r, s, i, "args", text) BY <1>3, <1>10 DEF Sends
<1> QED BY <1>3, <1>10, <1>14, <1>15, <1>16 DEF r, a

\* The block of a call.
LEMMA ShowingCall ==
  ASSUME NEW s, NEW m \in Msg, Showing(s, m), NEW i \in Items, IsCall(i),
         s.block[i] = 0, s.sent[i]["args"] = <<>>
  PROVE  LET r == OpenCall(s, i)
         IN /\ Showing(r, m) /\ Untouched(r, s, i) /\ r.sent = s.sent
            /\ i \in s.dropped => r = s
            /\ i \notin s.dropped /\ answer[i].injected =>
                 /\ r.block = s.block /\ r.dropped = s.dropped \cup {i}
                 /\ r.toolItems = s.toolItems
            /\ i \notin s.dropped /\ ~answer[i].injected =>
                 r.block[i] = r.current /\ r.current # 0 /\ r.dropped = s.dropped
<1> DEFINE r == OpenCall(s, i)
<1>0. PICK z : ROK(s, m, z) /\ RShows(s, z, s.sent) BY DEF Showing
<1>1. s \in ZrRec /\ At(s, m, z) /\ Decent(z) /\ ROwned(s, z) /\ s.started BY <1>0 DEF ROK, Showing
<1>2. CASE i \in s.dropped
  <2>1. r = s BY <1>2 DEF OpenCall
  <2> QED BY <1>2, <2>1 DEF Untouched
<1>3. CASE i \notin s.dropped /\ answer[i].injected
  <2> DEFINE D == s.dropped \cup {i}
  <2>1. D \in SUBSET Items BY <1>1 DEF ZrRec
  <2>2. r = [s EXCEPT !.dropped = D] BY <1>3 DEF OpenCall
  <2> HIDE DEF D, r
  <2>3. /\ r \in ZrRec /\ r.block = s.block /\ r.sent = s.sent /\ r.toolItems = s.toolItems
        /\ r.dropped = D
        /\ r = [x \in DOMAIN r |-> r[x]] /\ DOMAIN r = DOMAIN s /\ r.started = s.started
        /\ r.next = s.next /\ r.current = s.current /\ r.kind = s.kind /\ r.out = s.out
        BY <1>1, <2>1, <2>2 DEF ZrRec
  <2>4. At(r, m, z) BY <1>1, <2>3, RAtKept
  <2>5. ROwned(r, z) BY <1>1, <2>3, ROwnedKept
  <2>6. ROK(r, m, z) BY <1>0, <2>3, <2>4, <2>5 DEF ROK
  <2>7. RShows(r, z, s.sent) BY <1>0, <2>3, RShowsByFields
  <2>8. Showing(r, m) BY <1>1, <2>3, <2>6, <2>7 DEF Showing
  <2>9. Untouched(r, s, i) BY <2>3 DEF Untouched, D
  <2> QED BY <1>3, <2>3, <2>8, <2>9 DEF r, D
<1>4. CASE i \notin s.dropped /\ ~answer[i].injected
  <2> DEFINE b == OpenNext(s, "tool")
             k == Len(z.blocks)
  <2>1. "tool" \in Kinds BY DEF Kinds
  <2>2. PICK y : /\ b \in ZrRec /\ b.current = k + 1 /\ b.kind = "tool" /\ k \in Nat
                 /\ b.block = s.block /\ b.dropped = s.dropped /\ b.sent = s.sent
                 /\ b.toolItems = s.toolItems /\ SameMarks(b, s)
                 /\ At(b, m, y) /\ Len(y.blocks) = k + 1 /\ y.blocks[k + 1].text = <<>>
        BY <1>0, <1>1, <2>1, ROpens
  <2>3. RShows(b, y, s.sent) BY <1>0, <1>1, <2>1, <2>2, ROpenShows
  <2>4. \E x : ROK(r, m, x) BY <1>0, <1>1, ROpenCall
  <2>5. r = [b EXCEPT !.block[i] = b.current, !.toolItems = @ + 1] BY <1>4 DEF OpenCall
  <2> HIDE DEF b
  <2> DEFINE bl == [b.block EXCEPT ![i] = k + 1]
             tools == s.toolItems + 1
  <2>6. bl \in [Items -> Nat] /\ bl[i] = k + 1 /\ \A c \in Items : c # i => bl[c] = b.block[c]
        BY <2>2 DEF ZrRec
  <2>7. r = [b EXCEPT !.block = bl, !.toolItems = tools] BY <2>2, <2>5
  <2> HIDE DEF bl, tools, r
  <2>8. /\ r.block = bl /\ r.sent = s.sent /\ r.current = k + 1 /\ r.out = b.out
        /\ r.started = b.started /\ r.dropped = s.dropped
        BY <2>2, <2>6, <2>7 DEF ZrRec
  <2>9. PICK x : ROK(r, m, x) BY <2>4
  <2>10. x = y
    <3>1. Delivers(r.out, m, x) BY <2>9 DEF ROK, At
    <3>2. Delivers(r.out, m, y) BY <2>2, <2>8 DEF At
    <3> QED BY <3>1, <3>2, DeliversOne
  <2>11. RShows(r, y, s.sent)
    <3>1. r.current = Len(y.blocks) BY <2>2, <2>8
    <3>2. \A j \in Items, v \in Views : Received(y, j, v[2]) = Only(s.sent[j][v[1]], j, v[2])
          BY <2>3 DEF RShows
    <3>3. ASSUME NEW j \in Items, IsCall(j), r.block[j] # 0
          PROVE  y.blocks[r.block[j]].text = Received(y, j, {"args"})
      <4>1. CASE j = i
        <5> DEFINE v == <<"args", {"args"}>>
        <5>1. v \in Views /\ v[1] = "args" /\ v[2] = {"args"} BY DEF Views
        <5>2. Received(y, i, v[2]) = Only(s.sent[i][v[1]], i, v[2]) BY <3>2, <5>1
        <5>3. <<>> \in Texts /\ Len(<<>>) = 0 BY TextsAre
        <5>4. Only(<<>>, i, {"args"}) = <<>> BY <5>3, OnlyNone
        <5>5. Received(y, i, {"args"}) = <<>> BY <5>1, <5>2, <5>4
        <5>6. r.block[j] = k + 1 BY <2>6, <2>8, <4>1
        <5> QED BY <2>2, <4>1, <5>5, <5>6
      <4>2. CASE j # i
        <5>1. r.block[j] = b.block[j] BY <2>6, <2>8, <4>2
        <5> QED BY <2>3, <3>3, <5>1 DEF RShows
      <4> QED BY <4>1, <4>2
    <3> QED BY <3>1, <3>2, <3>3 DEF RShows
  <2>12. r.started BY <1>1, <2>2, <2>8 DEF SameMarks
  <2>13. Showing(r, m) BY <2>8, <2>9, <2>10, <2>11, <2>12 DEF Showing
  <2>14. Untouched(r, s, i)
    <3>1. \A j \in Items \ {i} : r.block[j] = s.block[j] /\ r.sent[j] = s.sent[j]
          BY <2>2, <2>6, <2>8
    <3>2. OpensNew(r, s) BY <1>0, <2>8, ROpensNew
    <3> QED BY <2>8, <3>1, <3>2 DEF Untouched, OpensNew
  <2>15. r.block[i] = r.current /\ r.current # 0 BY <2>2, <2>6, <2>8
  <2> QED BY <1>4, <2>8, <2>13, <2>14, <2>15 DEF r
<1> QED BY <1>2, <1>3, <1>4

-----------------------------------------------------------------------------
(* What upstream has said *)

\* n tells how many pieces of each part of item i upstream has said.
ThinkingSaid(text, i, n) ==
  IF tagged THEN text = Joined(i, n)
  ELSE text = Pieces(i, "thinking", n) \/ (n = answer[i].size["thinking"] /\ text = Joined(i, n))

\* A call that was announced has a block or is dropped; its arguments are those
\* that were said, unless another block was opened before they were.
CallSaid(s, cur, i, n, announced) ==
  /\ s.block[i] # 0 <=> ~answer[i].injected /\ announced
  /\ i \in s.dropped <=> answer[i].injected /\ announced
  /\ \E k \in Nat :
       /\ s.sent[i]["args"] = Pieces(i, "args", k) /\ k <= n["args"]
       /\ s.block[i] = 0 => k = 0
       /\ s.block[i] # 0 /\ s.block[i] = cur => k = n["args"]

ItemSaid(s, cur, i, n, announced) ==
  /\ \A p \in ItemParts : n[p] \in Nat /\ n[p] <= answer[i].size[p]
  /\ \A p \in {"text", "refusal"} : s.sent[i][p] = Pieces(i, p, n[p])
  /\ ThinkingSaid(s.sent[i]["thinking"], i, n["thinking"])
  /\ IsCall(i) => CallSaid(s, cur, i, n, announced)

SomeCall(s) == \E i \in Items : IsCall(i) /\ s.block[i] # 0

RSaid(s, cur, heard, announced) ==
  /\ s.toolItems > 0 => SomeCall(s)
  /\ \A i \in Items : ItemSaid(s, cur, i, heard[i], i \in announced)

LEMMA ItemSaidSame ==
  ASSUME NEW s, NEW r, NEW i \in Items, NEW n, NEW announced, NEW cur, NEW now,
         ItemSaid(s, cur, i, n, announced),
         r.block[i] = s.block[i], r.sent[i] = s.sent[i], i \in r.dropped <=> i \in s.dropped,
         IsCall(i) /\ s.block[i] # 0 /\ s.block[i] = now => s.block[i] = cur
  PROVE  ItemSaid(r, now, i, n, announced)
<1>1. CallSaid(s, cur, i, n, announced) /\ IsCall(i) => CallSaid(r, now, i, n, announced)
  <2> SUFFICES ASSUME CallSaid(s, cur, i, n, announced), IsCall(i) PROVE CallSaid(r, now, i, n, announced)
      OBVIOUS
  <2>1. PICK k \in Nat :
          /\ s.sent[i]["args"] = Pieces(i, "args", k) /\ k <= n["args"]
          /\ s.block[i] = 0 => k = 0
          /\ s.block[i] # 0 /\ s.block[i] = cur => k = n["args"]
        BY DEF CallSaid
  <2> QED BY <2>1 DEF CallSaid
<1> QED BY <1>1 DEF ItemSaid

\* What one item's handler changes.
LEMMA SaidKept ==
  ASSUME NEW s, NEW heard, NEW announced, RSaid(s, s.current, heard, announced),
         NEW r, NEW i \in Items, Untouched(r, s, i), NEW now, NEW and,
         \A j \in Items \ {i} : now[j] = heard[j] /\ (j \in and <=> j \in announced),
         ItemSaid(r, r.current, i, now[i], i \in and),
         r.toolItems > 0 => SomeCall(r)
  PROVE  RSaid(r, r.current, now, and)
<1>1. ASSUME NEW j \in Items \ {i} PROVE ItemSaid(r, r.current, j, now[j], j \in and)
  <2>1. ItemSaid(s, s.current, j, heard[j], j \in announced) BY DEF RSaid
  <2>2. ItemSaid(r, r.current, j, heard[j], j \in announced) BY <2>1, ItemSaidSame DEF Untouched
  <2>3. (j \in and) = (j \in announced) /\ now[j] = heard[j] OBVIOUS
  <2> QED BY <2>2, <2>3
<1> QED BY <1>1 DEF RSaid

\* No call goes.
LEMMA CallsStay ==
  ASSUME NEW s, SomeCall(s), NEW r, NEW i \in Items, Untouched(r, s, i),
         IsCall(i) /\ s.block[i] # 0 => r.block[i] # 0
  PROVE  SomeCall(r)
BY DEF SomeCall, Untouched

LEMMA SaidSame ==
  ASSUME NEW s, NEW heard, NEW announced, RSaid(s, s.current, heard, announced),
         NEW r, SameSaid(r, s)
  PROVE  RSaid(r, r.current, heard, announced)
<1>1. ASSUME NEW j \in Items PROVE ItemSaid(r, r.current, j, heard[j], j \in announced)
  <2>1. ItemSaid(s, s.current, j, heard[j], j \in announced) BY DEF RSaid
  <2> QED BY <2>1, ItemSaidSame DEF SameSaid
<1> QED BY <1>1 DEF RSaid, SameSaid, SomeCall

\* More of a part is said.
LEMMA SaysMore ==
  ASSUME NEW s, NEW cur, NEW i \in Items, NEW n, NEW ann, ItemSaid(s, cur, i, n, ann), ~IsCall(i),
         NEW r, NEW p \in ItemParts, NEW text, Sends(r, s, i, p, text), NEW now,
         now[p] \in Nat, now[p] <= answer[i].size[p], \A q \in ItemParts \ {p} : now[q] = n[q],
         p = "thinking" => ThinkingSaid(s.sent[i][p] \o text, i, now[p]),
         p # "thinking" => s.sent[i][p] \o text = Pieces(i, p, now[p])
  PROVE  \A c, a : ItemSaid(r, c, i, now, a)
<1>1. /\ "text" \in ItemParts /\ "refusal" \in ItemParts /\ "thinking" \in ItemParts
      /\ "text" # "thinking" /\ "refusal" # "thinking"
      BY DEF ItemParts
<1>2. \A q \in ItemParts : now[q] \in Nat /\ now[q] <= answer[i].size[q]
  <2> TAKE q \in ItemParts
  <2>1. CASE q = p BY <2>1
  <2>2. CASE q # p BY <2>2 DEF ItemSaid
  <2> QED BY <2>1, <2>2
<1>3. \A q \in {"text", "refusal"} : r.sent[i][q] = Pieces(i, q, now[q])
  <2> TAKE q \in {"text", "refusal"}
  <2>1. CASE q = p BY <1>1, <2>1 DEF Sends
  <2>2. CASE q # p
    <3>1. q \in ItemParts \ {p} BY <1>1, <2>2
    <3>2. r.sent[i][q] = s.sent[i][q] /\ now[q] = n[q] BY <3>1 DEF Sends
    <3>3. s.sent[i][q] = Pieces(i, q, n[q]) BY DEF ItemSaid
    <3> QED BY <3>2, <3>3
  <2> QED BY <2>1, <2>2
<1>4. ThinkingSaid(r.sent[i]["thinking"], i, now["thinking"])
  <2>1. CASE p = "thinking" BY <2>1 DEF Sends
  <2>2. CASE p # "thinking"
    <3>1. "thinking" \in ItemParts \ {p} BY <1>1, <2>2
    <3>2. r.sent[i]["thinking"] = s.sent[i]["thinking"] /\ now["thinking"] = n["thinking"]
          BY <3>1 DEF Sends
    <3>3. ThinkingSaid(s.sent[i]["thinking"], i, n["thinking"]) BY DEF ItemSaid
    <3> QED BY <3>2, <3>3
  <2> QED BY <2>1, <2>2
<1> QED BY <1>2, <1>3, <1>4 DEF ItemSaid

\* A summary part more.
LEMMA SummaryNext ==
  ASSUME answer \in Answers, NEW i \in Items, NEW n \in Nat, n + 1 <= answer[i].size["thinking"],
         NEW u \in Texts, ThinkingSaid(u, i, n)
  PROVE  LET text == IF tagged /\ n + 1 > 1 /\ u # <<>>
                     THEN <<Gap(i), Piece(i, "thinking", n + 1)>> ELSE <<Piece(i, "thinking", n + 1)>>
         IN /\ ThinkingSaid(u \o text, i, n + 1) /\ text # <<>>
            /\ PiecesOf(text, i, {"thinking", "gap"})
<1> DEFINE text == IF tagged /\ n + 1 > 1 /\ u # <<>>
                   THEN <<Gap(i), Piece(i, "thinking", n + 1)>> ELSE <<Piece(i, "thinking", n + 1)>>
           one == <<Piece(i, "thinking", n + 1)>>
<1>0. i \in Nat /\ "thinking" \in ItemParts /\ answer[i].size["thinking"] \in Nat
  <2>1. "thinking" \in ItemParts BY DEF ItemParts
  <2> QED BY <2>1, AnswerFacts
<1>1. CASE tagged
  <2>1. u = Joined(i, n) BY <1>1 DEF ThinkingSaid
  <2>2. u # <<>> <=> n # 0
    <3>1. Len(u) = JoinedLen(n) BY <1>0, <2>1, JoinedShape
    <3>2. Len(<<>>) = 0 OBVIOUS
    <3>3. n # 0 => JoinedLen(n) # 0 BY DEF JoinedLen
    <3>4. n = 0 => u = <<>> BY <1>0, <2>1, JoinedFew
    <3> QED BY <3>1, <3>2, <3>3, <3>4
  <2>3. text = SummaryText(i, n)
    <3>1. CASE n = 0 BY <2>2, <3>1 DEF SummaryText
    <3>2. CASE n # 0
      <4>1. n + 1 > 1 BY <3>2
      <4> QED BY <1>1, <2>2, <3>2, <4>1 DEF SummaryText
    <3> QED BY <3>1, <3>2
  <2> HIDE DEF text
  <2>4. PiecesOf(text, i, {"thinking", "gap"}) /\ text # <<>> BY <1>0, <2>3, SummaryIs
  <2>5. u \o text = Joined(i, n + 1) BY <1>0, <2>1, <2>3, JoinedMore
  <2>6. ThinkingSaid(u \o text, i, n + 1) BY <1>1, <2>5 DEF ThinkingSaid
  <2> QED BY <2>4, <2>6 DEF text
<1>2. CASE ~tagged
  <2>1. u = Pieces(i, "thinking", n)
    <3>1. n # answer[i].size["thinking"] BY <1>0
    <3> QED BY <1>2, <3>1 DEF ThinkingSaid
  <2>2. text = one BY <1>2
  <2>3. one \in Texts /\ u \o one = Pieces(i, "thinking", n + 1) BY <1>0, <2>1, PieceMore
  <2>4. Len(one) = 1 /\ one[1] = Piece(i, "thinking", n + 1) OBVIOUS
  <2>5. one # <<>>
    <3> DEFINE e == Piece(i, "thinking", n + 1)
    <3> HIDE DEF e
    <3>1. <<e>> # <<>> OBVIOUS
    <3> QED BY <3>1 DEF e
  <2>6. PiecesOf(one, i, {"thinking", "gap"})
    <3> HIDE DEF one
    <3>1. Piece(i, "thinking", n + 1).item = i /\ Piece(i, "thinking", n + 1).part = "thinking"
          BY DEF Piece
    <3>2. \A l \in 1..Len(one) : one[l] = Piece(i, "thinking", n + 1) BY <2>4
    <3> QED BY <2>3, <3>1, <3>2 DEF PiecesOf
  <2>7. ThinkingSaid(u \o one, i, n + 1) BY <1>2, <2>3 DEF ThinkingSaid
  <2> QED BY <2>2, <2>5, <2>6, <2>7
<1> QED BY <1>1, <1>2

LEMMA MissingMakes ==
  ASSUME NEW s \in ZrRec, NEW i \in Items, NEW p \in ItemParts, NEW v \in Texts
  PROVE  /\ IsPrefix(s.sent[i][p], v) =>
              /\ s.sent[i][p] \o Missing(s, i, p, v) = v
              /\ Missing(s, i, p, v) = <<>> <=> s.sent[i][p] = v
         /\ ~IsPrefix(s.sent[i][p], v) => Missing(s, i, p, v) = <<>>
BY MissingRest

\* What is missing of a part makes it whole.
LEMMA PiecesCompleted ==
  ASSUME answer \in Answers, NEW s \in ZrRec, NEW i \in Items, NEW p \in ItemParts, NEW n \in Nat,
         n <= answer[i].size[p], s.sent[i][p] = Pieces(i, p, n)
  PROVE  LET rest == Missing(s, i, p, Whole(i, p))
         IN /\ s.sent[i][p] \o rest = Whole(i, p)
            /\ rest = <<>> => n = answer[i].size[p]
<1> DEFINE N == answer[i].size[p]
<1>1. i \in Nat /\ N \in Nat BY AnswerFacts
<1>2. Whole(i, p) = Pieces(i, p, N) /\ Whole(i, p) \in Texts BY WholeIs DEF Whole, PiecesOf
<1> HIDE DEF N
<1>3. IsPrefix(s.sent[i][p], Whole(i, p)) /\ (s.sent[i][p] = Whole(i, p) <=> n = N)
      BY <1>1, <1>2, PiecesPrefix DEF N
<1>4. /\ s.sent[i][p] \o Missing(s, i, p, Whole(i, p)) = Whole(i, p)
      /\ Missing(s, i, p, Whole(i, p)) = <<>> <=> s.sent[i][p] = Whole(i, p)
      BY <1>2, <1>3, MissingMakes
<1> QED BY <1>3, <1>4 DEF N

\* completeReasoning: the reasoning of a restated item is whole, with the
\* boundaries where they were told.
LEMMA ThinkingCompleted ==
  ASSUME answer \in Answers, NEW s \in ZrRec, NEW i \in Items, NEW n \in Nat,
         n <= answer[i].size["thinking"], ThinkingSaid(s.sent[i]["thinking"], i, n)
  PROVE  LET joined == Joined(i, answer[i].size["thinking"])
             full == IF Missing(s, i, "thinking", joined) # <<>> THEN joined ELSE Whole(i, "thinking")
         IN /\ PiecesOf(full, i, {"thinking", "gap"})
            /\ ThinkingSaid(s.sent[i]["thinking"] \o Missing(s, i, "thinking", full), i,
                            answer[i].size["thinking"])
<1> DEFINE N == answer[i].size["thinking"]
           joined == Joined(i, N)
           whole == Whole(i, "thinking")
           u == s.sent[i]["thinking"]
           full == IF Missing(s, i, "thinking", joined) # <<>> THEN joined ELSE whole
           restJ == Missing(s, i, "thinking", joined)
           restW == Missing(s, i, "thinking", whole)
           rest == Missing(s, i, "thinking", full)
<1>0. "thinking" \in ItemParts BY DEF ItemParts
<1>1. i \in Nat /\ N \in Nat BY <1>0, AnswerFacts
<1>2. /\ whole = Pieces(i, "thinking", N) /\ PiecesOf(whole, i, {"thinking"}) /\ whole \in Texts
      BY <1>0, WholeIs DEF Whole, PiecesOf
<1>3. PiecesOf(joined, i, {"thinking", "gap"}) /\ joined \in Texts BY <1>1, JoinedIs DEF PiecesOf
<1>4. PiecesOf(full, i, {"thinking", "gap"})
  <2>1. PiecesOf(whole, i, {"thinking", "gap"}) BY <1>2, PiecesMore
  <2> QED BY <1>3, <2>1
<1>m. \A v \in Texts :
        /\ IsPrefix(u, v) => u \o Missing(s, i, "thinking", v) = v /\ (Missing(s, i, "thinking", v) = <<>> <=> u = v)
        /\ ~IsPrefix(u, v) => Missing(s, i, "thinking", v) = <<>>
      BY <1>0, MissingMakes
<1>5. /\ IsPrefix(u, joined) => u \o restJ = joined /\ (restJ = <<>> <=> u = joined)
      /\ ~IsPrefix(u, joined) => restJ = <<>>
      BY <1>3, <1>m
<1>6. /\ IsPrefix(u, whole) => u \o restW = whole /\ (restW = <<>> <=> u = whole)
      /\ ~IsPrefix(u, whole) => restW = <<>>
      BY <1>2, <1>m
<1>7. u \in Texts /\ u \o <<>> = u
  <2>1. u \in Texts BY <1>0 DEF ZrRec
  <2>2. u \in Seq(AnyPiece) BY <2>1, TextsAre
  <2> QED BY <2>1, <2>2
<1>8. /\ restJ # <<>> => rest = restJ
      /\ restJ = <<>> => rest = restW
      OBVIOUS
<1>9. tagged => u = Joined(i, n) BY DEF ThinkingSaid
<1>10. ~tagged => u = Pieces(i, "thinking", n) \/ (n = N /\ u = joined) BY DEF ThinkingSaid
<1>11. /\ N >= 2 => ~IsPrefix(joined, whole)
       /\ ~(N >= 2) => joined = whole
  <2>1. N >= 2 => ~IsPrefix(joined, whole) BY <1>1, <1>2, JoinedApart
  <2>2. CASE N = 0
    <3>1. joined = <<>> BY <1>1, <2>2, JoinedFew
    <3>2. whole = <<>> BY <1>0, <1>1, <1>2, <2>2, PieceMore
    <3> QED BY <2>2, <3>1, <3>2
  <2>3. CASE N = 1
    <3>1. joined = whole BY <1>1, <1>2, <2>3, JoinedFew
    <3> QED BY <2>3, <3>1
  <2>4. N >= 2 \/ N = 0 \/ N = 1 BY <1>1
  <2> QED BY <2>1, <2>2, <2>3, <2>4
<1>12. n <= N OBVIOUS
<1>13. IsPrefix(Joined(i, n), joined) BY <1>1, <1>12, JoinedPrefix
<1>14. IsPrefix(Pieces(i, "thinking", n), whole) BY <1>0, <1>1, <1>2, <1>12, PiecesPrefix
<1>15. IsPrefix(joined, joined) BY <1>1, JoinedPrefix
<1>16. u = joined => restJ = <<>> /\ rest = restW /\ u \o rest = joined
  <2> SUFFICES ASSUME u = joined PROVE restJ = <<>> /\ rest = restW /\ u \o rest = joined OBVIOUS
  <2> HIDE DEF u, joined, whole, restJ, restW, rest, N
  <2>1. restJ = <<>> /\ rest = restW BY <1>5, <1>8, <1>15
  <2>2. restW = <<>>
    <3>1. CASE N >= 2 BY <1>6, <1>11, <3>1
    <3>2. CASE ~(N >= 2) BY <1>6, <1>11, <1>15, <3>2
    <3> QED BY <3>1, <3>2
  <2> QED BY <1>7, <2>1, <2>2
<1> HIDE DEF u, joined, whole, restJ, restW, rest, N
<1>17. CASE tagged
  <2>1. u \o restJ = joined /\ (restJ = <<>> <=> u = joined) BY <1>5, <1>9, <1>13, <1>17
  <2>2. u \o rest = joined
    <3>1. CASE restJ = <<>> BY <1>16, <2>1, <3>1
    <3>2. CASE restJ # <<>> BY <1>8, <2>1, <3>2
    <3> QED BY <3>1, <3>2
  <2>3. ThinkingSaid(u \o rest, i, N) BY <1>17, <2>2 DEF ThinkingSaid, joined
  <2> QED BY <1>4, <2>3 DEF u, joined, whole, rest, N
<1>18. CASE ~tagged
  <2>1. u \o rest = joined \/ u \o rest = whole
    <3>1. CASE u = joined BY <1>16, <3>1
    <3>2. CASE u # joined
      <4>1. u = Pieces(i, "thinking", n) BY <1>10, <1>18, <3>2
      <4>2. CASE restJ # <<>> BY <1>5, <1>8, <4>2
      <4>3. CASE restJ = <<>> BY <1>6, <1>8, <1>14, <4>1, <4>3
      <4> QED BY <4>2, <4>3
    <3> QED BY <3>1, <3>2
  <2>2. ThinkingSaid(u \o rest, i, N) BY <1>18, <1>2, <2>1 DEF ThinkingSaid, joined, N
  <2> QED BY <1>4, <2>2 DEF u, joined, whole, rest, N
<1> QED BY <1>17, <1>18

\* An item has nothing of the parts its type has not.
LEMMA NotOwnNone ==
  ASSUME answer \in Answers, NEW i \in Items, NEW p \in ItemParts,
         p \notin (CASE answer[i].type = "reasoning" -> {"thinking"}
                     [] answer[i].type = "message" -> {"text", "refusal"}
                     [] OTHER -> {"args"}),
         NEW s, NEW cur, NEW n, NEW ann, ItemSaid(s, cur, i, n, ann)
  PROVE  n[p] = answer[i].size[p]
<1>1. answer[i].size[p] \in Nat /\ ~(answer[i].size[p] > 0) BY AnswerFacts
<1>2. n[p] \in Nat /\ n[p] <= answer[i].size[p] BY DEF ItemSaid
<1> QED BY <1>1, <1>2

\* All of item i is said, and it is announced.
Completes(r, s, m, i) ==
  /\ Showing(r, m) /\ Untouched(r, s, i)
  /\ ItemSaid(r, r.current, i, answer[i].size, TRUE)
  /\ r.toolItems > 0 => SomeCall(r)

LEMMA MessageCompletes ==
  ASSUME answer \in Answers, NEW s, NEW m \in Msg, Showing(s, m), NEW i \in Items,
         answer[i].type = "message", NEW n, NEW ann, ItemSaid(s, s.current, i, n, ann),
         s.toolItems > 0 => SomeCall(s)
  PROVE  Completes(CompleteMessage(s, i), s, m, i)
<1> DEFINE refused == Missing(s, i, "refusal", Whole(i, "refusal")) # <<>>
           a == IF refused THEN [s EXCEPT !.stop = "refusal"] ELSE s
           b == CompletePart(a, i, "refusal", "text", Whole(i, "refusal"))
           c == CompletePart(b, i, "text", "text", Whole(i, "text"))
           size == answer[i].size
<1>0. CompleteMessage(s, i) = c BY DEF CompleteMessage
<1>1. /\ "refusal" \in ItemParts /\ "text" \in ItemParts /\ "thinking" \in ItemParts /\ "args" \in ItemParts
      /\ "refusal" \in StopReasons /\ "text" # "refusal" /\ "thinking" # "refusal" /\ "thinking" # "text"
      /\ "text" \in {"text", "thinking"}
      /\ PartsOf("refusal") = {"refusal"} /\ PartsOf("text") = {"text"}
      /\ {"refusal"} \subseteq KindParts("text") /\ {"text"} \subseteq KindParts("text")
      BY DEF ItemParts, StopReasons, KindParts, PartsOf
<1>2. ~IsCall(i) BY DEF IsCall
<1>3. PiecesOf(Whole(i, "refusal"), i, {"refusal"}) /\ PiecesOf(Whole(i, "text"), i, {"text"})
      BY <1>1, WholeIs
<1>4. \A p \in ItemParts : size[p] \in Nat BY AnswerFacts
<1>5. Showing(a, m) /\ SameSaid(a, s)
  <2>1. CASE refused
    <3> DEFINE w == [s EXCEPT !.stop = "refusal"]
    <3>1. Showing(w, m) /\ SameSaid(w, s) BY <1>1, ShowingStop
    <3>2. a = w BY <2>1
    <3> HIDE DEF w, a
    <3> QED BY <3>1, <3>2
  <2>2. CASE ~refused
    <3>1. a = s BY <2>2
    <3> QED BY <3>1 DEF SameSaid
  <2> QED BY <2>1, <2>2
<1> HIDE DEF a, size
<1>6. /\ Showing(b, m) /\ Untouched(b, a, i)
      /\ Sends(b, a, i, "refusal", Missing(a, i, "refusal", Whole(i, "refusal")))
      /\ b.toolItems = a.toolItems
  <2> DEFINE full == Whole(i, "refusal")
             r == CompletePart(a, i, "refusal", "text", full)
  <2>1. PiecesOf(full, i, PartsOf("refusal")) /\ PartsOf("refusal") \subseteq KindParts("text")
        BY <1>1, <1>3
  <2>2. r = b OBVIOUS
  <2> HIDE DEF full
  <2>3. /\ Showing(r, m) /\ Untouched(r, a, i)
        /\ Sends(r, a, i, "refusal", Missing(a, i, "refusal", full))
        /\ r.toolItems = a.toolItems
        BY <1>1, <1>2, <1>5, <2>1, ShowingPart
  <2> HIDE DEF r, b
  <2> QED BY <2>2, <2>3 DEF full
<1> HIDE DEF b
<1>7. /\ Showing(c, m) /\ Untouched(c, b, i)
      /\ Sends(c, b, i, "text", Missing(b, i, "text", Whole(i, "text")))
      /\ c.toolItems = b.toolItems
  <2> DEFINE full == Whole(i, "text")
             r == CompletePart(b, i, "text", "text", full)
  <2>1. PiecesOf(full, i, PartsOf("text")) /\ PartsOf("text") \subseteq KindParts("text")
        BY <1>1, <1>3
  <2>2. r = c OBVIOUS
  <2> HIDE DEF full
  <2>3. /\ Showing(r, m) /\ Untouched(r, b, i)
        /\ Sends(r, b, i, "text", Missing(b, i, "text", full))
        /\ r.toolItems = b.toolItems
        BY <1>1, <1>2, <1>6, <2>1, ShowingPart
  <2> HIDE DEF r, c
  <2> QED BY <2>2, <2>3 DEF full
<1> HIDE DEF c
<1>8. Untouched(b, s, i) /\ Untouched(c, s, i)
  <2>1. Untouched(a, s, i) BY <1>5, SameUntouched
  <2> QED BY <1>6, <1>7, <2>1, UntouchedOn
<1>9. a \in ZrRec /\ b \in ZrRec BY <1>5, <1>6 DEF Showing, ROK
<1>10. \A p \in ItemParts : n[p] \in Nat /\ n[p] <= size[p] BY DEF ItemSaid, size
<1>11. c.sent[i]["refusal"] = Pieces(i, "refusal", size["refusal"])
  <2>1. a.sent[i]["refusal"] = Pieces(i, "refusal", n["refusal"]) BY <1>5 DEF SameSaid, ItemSaid
  <2>a. n["refusal"] \in Nat /\ n["refusal"] <= answer[i].size["refusal"] BY <1>1, <1>10 DEF size
  <2>2. a.sent[i]["refusal"] \o Missing(a, i, "refusal", Whole(i, "refusal")) = Whole(i, "refusal")
        BY <1>1, <1>9, <2>1, <2>a, PiecesCompleted
  <2>3. b.sent[i]["refusal"] = Whole(i, "refusal") BY <1>6, <2>2 DEF Sends
  <2>4. c.sent[i]["refusal"] = b.sent[i]["refusal"] BY <1>1, <1>7 DEF Sends
  <2> QED BY <2>3, <2>4 DEF Whole, size
<1>12. c.sent[i]["text"] = Pieces(i, "text", size["text"])
  <2>1. a.sent[i]["text"] = Pieces(i, "text", n["text"]) BY <1>5 DEF SameSaid, ItemSaid
  <2>2. b.sent[i]["text"] = a.sent[i]["text"] BY <1>1, <1>6 DEF Sends
  <2>a. n["text"] \in Nat /\ n["text"] <= answer[i].size["text"] BY <1>1, <1>10 DEF size
  <2>b. b.sent[i]["text"] = Pieces(i, "text", n["text"]) BY <2>1, <2>2
  <2>3. b.sent[i]["text"] \o Missing(b, i, "text", Whole(i, "text")) = Whole(i, "text")
        BY <1>1, <1>9, <2>a, <2>b, PiecesCompleted
  <2>4. c.sent[i]["text"] = Whole(i, "text") BY <1>7, <2>3 DEF Sends
  <2> QED BY <2>4 DEF Whole, size
<1>13. ThinkingSaid(c.sent[i]["thinking"], i, size["thinking"])
  <2>1. c.sent[i]["thinking"] = s.sent[i]["thinking"] BY <1>1, <1>5, <1>6, <1>7 DEF Sends, SameSaid
  <2>2. n["thinking"] = size["thinking"] BY <1>1, NotOwnNone DEF size
  <2> QED BY <2>1, <2>2 DEF ItemSaid
<1>14. ItemSaid(c, c.current, i, size, TRUE)
  <2>1. \A p \in ItemParts : size[p] \in Nat /\ size[p] <= answer[i].size[p] BY <1>4 DEF size
  <2> QED BY <1>2, <1>11, <1>12, <1>13, <2>1 DEF ItemSaid
<1>15. c.toolItems > 0 => SomeCall(c)
  <2>1. c.toolItems = s.toolItems BY <1>5, <1>6, <1>7 DEF SameSaid
  <2> QED BY <1>2, <1>8, <2>1, CallsStay
<1> QED BY <1>0, <1>7, <1>8, <1>14, <1>15 DEF Completes, size

LEMMA ReasoningCompletes ==
  ASSUME answer \in Answers, NEW s, NEW m \in Msg, Showing(s, m), NEW i \in Items,
         answer[i].type = "reasoning", NEW n, NEW ann, ItemSaid(s, s.current, i, n, ann),
         s.toolItems > 0 => SomeCall(s)
  PROVE  Completes(CompleteReasoning(s, i), s, m, i)
<1> DEFINE size == answer[i].size
           joined == Joined(i, size["thinking"])
           full == IF Missing(s, i, "thinking", joined) # <<>> THEN joined ELSE Whole(i, "thinking")
           r == CompletePart(s, i, "thinking", "thinking", full)
<1>0. CompleteReasoning(s, i) = r BY DEF CompleteReasoning
<1>1. /\ "refusal" \in ItemParts /\ "text" \in ItemParts /\ "thinking" \in ItemParts /\ "args" \in ItemParts
      /\ "text" # "thinking" /\ "thinking" # "refusal" /\ "thinking" \in {"text", "thinking"}
      /\ PartsOf("thinking") = {"thinking", "gap"}
      /\ PartsOf("thinking") \subseteq KindParts("thinking")
      BY DEF ItemParts, KindParts, PartsOf
<1>2. ~IsCall(i) BY DEF IsCall
<1>3. s \in ZrRec BY DEF Showing, ROK
<1>4. \A p \in ItemParts : n[p] \in Nat /\ n[p] <= size[p] BY DEF ItemSaid
<1>5. /\ PiecesOf(full, i, PartsOf("thinking"))
      /\ ThinkingSaid(s.sent[i]["thinking"] \o Missing(s, i, "thinking", full), i, size["thinking"])
  <2>1. ThinkingSaid(s.sent[i]["thinking"], i, n["thinking"]) BY DEF ItemSaid
  <2>2. n["thinking"] \in Nat /\ n["thinking"] <= answer[i].size["thinking"] BY <1>1, <1>4
  <2> QED BY <1>1, <1>3, <2>1, <2>2, ThinkingCompleted
<1> HIDE DEF full
<1>6. /\ Showing(r, m) /\ Untouched(r, s, i)
      /\ Sends(r, s, i, "thinking", Missing(s, i, "thinking", full))
      /\ r.toolItems = s.toolItems
      BY <1>1, <1>2, <1>5, ShowingPart
<1> HIDE DEF r
<1>7. \A p \in ItemParts : size[p] \in Nat /\ size[p] <= answer[i].size[p] BY AnswerFacts
<1>8. ASSUME NEW p \in {"text", "refusal"} PROVE r.sent[i][p] = Pieces(i, p, size[p])
  <2>1. p \in ItemParts \ {"thinking"} BY <1>1
  <2>2. r.sent[i][p] = s.sent[i][p] BY <1>6, <2>1 DEF Sends
  <2>3. s.sent[i][p] = Pieces(i, p, n[p]) BY DEF ItemSaid
  <2>4. n[p] = size[p] BY <2>1, NotOwnNone
  <2> QED BY <2>2, <2>3, <2>4
<1>9. ThinkingSaid(r.sent[i]["thinking"], i, size["thinking"]) BY <1>5, <1>6 DEF Sends
<1> HIDE DEF size
<1>10. ItemSaid(r, r.current, i, size, TRUE) BY <1>2, <1>7, <1>8, <1>9 DEF ItemSaid
<1>11. r.toolItems > 0 => SomeCall(r) BY <1>2, <1>6, CallsStay
<1> QED BY <1>0, <1>6, <1>10, <1>11 DEF Completes, size

\* The call has its block or is dropped.
CallHeld(o, i) ==
  /\ o.block[i] # 0 <=> ~answer[i].injected
  /\ i \in o.dropped <=> answer[i].injected
  /\ \E k \in Nat : /\ o.sent[i]["args"] = Pieces(i, "args", k) /\ k <= answer[i].size["args"]
                    /\ o.block[i] = 0 => k = 0

LEMMA CallOpens ==
  ASSUME answer \in Answers, NEW s, NEW m \in Msg, Showing(s, m), NEW i \in Items, IsCall(i),
         NEW n, NEW ann, ItemSaid(s, s.current, i, n, ann), s.toolItems > 0 => SomeCall(s)
  PROVE  LET o == IF s.block[i] = 0 THEN OpenCall(s, i) ELSE s
         IN /\ Showing(o, m) /\ Untouched(o, s, i) /\ o.sent = s.sent
            /\ CallHeld(o, i) /\ (o.toolItems > 0 => SomeCall(o))
<1> DEFINE o == IF s.block[i] = 0 THEN OpenCall(s, i) ELSE s
<1>0. s \in ZrRec /\ "args" \in ItemParts /\ i \in Nat BY AnswerFacts DEF Showing, ROK, ItemParts
<1>1. /\ s.block[i] # 0 <=> ~answer[i].injected /\ ann
      /\ i \in s.dropped <=> answer[i].injected /\ ann
      BY DEF ItemSaid, CallSaid
<1>2. PICK k \in Nat : /\ s.sent[i]["args"] = Pieces(i, "args", k) /\ k <= n["args"]
                       /\ s.block[i] = 0 => k = 0
      BY DEF ItemSaid, CallSaid
<1>3. n["args"] \in Nat /\ n["args"] <= answer[i].size["args"] BY <1>0 DEF ItemSaid
<1>4. answer[i].size["args"] \in Nat /\ k <= answer[i].size["args"]
  <2>1. answer[i].size["args"] \in Nat BY <1>0, AnswerFacts
  <2> QED BY <1>2, <1>3, <2>1
<1>5. CASE s.block[i] # 0
  <2>1. o = s BY <1>5
  <2>2. CallHeld(s, i) BY <1>1, <1>2, <1>4, <1>5 DEF CallHeld
  <2>3. Untouched(s, s, i) BY DEF Untouched
  <2> HIDE DEF o
  <2> QED BY <2>1, <2>2, <2>3 DEF o
<1>6. CASE s.block[i] = 0
  <2>1. o = OpenCall(s, i) BY <1>6
  <2>2. s.sent[i]["args"] = <<>> /\ s.sent[i]["args"] = Pieces(i, "args", 0)
        BY <1>0, <1>2, <1>6, PieceMore
  <2> HIDE DEF o
  <2>3. /\ Showing(o, m) /\ Untouched(o, s, i) /\ o.sent = s.sent
        /\ i \in s.dropped => o = s
        /\ i \notin s.dropped /\ answer[i].injected =>
             /\ o.block = s.block /\ o.dropped = s.dropped \cup {i}
             /\ o.toolItems = s.toolItems
        /\ i \notin s.dropped /\ ~answer[i].injected =>
             o.block[i] = o.current /\ o.current # 0 /\ o.dropped = s.dropped
        BY <1>6, <2>1, <2>2, ShowingCall
  <2>4. CallHeld(o, i)
    <3>1. o.sent[i]["args"] = Pieces(i, "args", 0) /\ 0 \in Nat /\ 0 <= answer[i].size["args"]
          BY <1>4, <2>2, <2>3
    <3>2. o.block[i] # 0 <=> ~answer[i].injected
      <4>1. CASE i \in s.dropped BY <1>1, <1>6, <2>3, <4>1
      <4>2. CASE i \notin s.dropped BY <1>6, <2>3, <4>2
      <4> QED BY <4>1, <4>2
    <3>3. i \in o.dropped <=> answer[i].injected
      <4>1. CASE i \in s.dropped BY <1>1, <2>3, <4>1
      <4>2. CASE i \notin s.dropped BY <2>3, <4>2
      <4> QED BY <4>1, <4>2
    <3> QED BY <3>1, <3>2, <3>3 DEF CallHeld
  <2>5. o.toolItems > 0 => SomeCall(o)
    <3>1. CASE o.block[i] # 0 BY <3>1 DEF SomeCall
    <3>2. CASE o.block[i] = 0
      <4>1. o.toolItems = s.toolItems
        <5>1. CASE i \in s.dropped BY <2>3, <5>1
        <5>2. CASE i \notin s.dropped BY <2>3, <3>2, <5>2
        <5> QED BY <5>1, <5>2
      <4> QED BY <1>6, <2>3, <4>1, CallsStay
    <3> QED BY <3>1, <3>2
  <2> QED BY <2>3, <2>4, <2>5 DEF o
<1> QED BY <1>5, <1>6

\* A call that is complete has all its arguments, unless its block is not the
\* current one.
LEMMA CallCompletes ==
  ASSUME answer \in Answers, NEW s, NEW m \in Msg, Showing(s, m), NEW i \in Items, IsCall(i),
         NEW n, NEW ann, ItemSaid(s, s.current, i, n, ann), s.toolItems > 0 => SomeCall(s)
  PROVE  Completes(CompleteCall(IF s.block[i] = 0 THEN OpenCall(s, i) ELSE s, i), s, m, i)
<1> DEFINE o == IF s.block[i] = 0 THEN OpenCall(s, i) ELSE s
           full == Whole(i, "args")
           rest == Missing(o, i, "args", full)
           size == answer[i].size
           r == CompleteCall(o, i)
           w == Write(Record(o, i, "args", rest), rest)
<1>1. /\ "text" \in ItemParts /\ "refusal" \in ItemParts /\ "thinking" \in ItemParts /\ "args" \in ItemParts
      /\ "text" # "args" /\ "refusal" # "args" /\ "thinking" # "args"
      BY DEF ItemParts
<1>2. /\ Showing(o, m) /\ Untouched(o, s, i) /\ o.sent = s.sent
      /\ CallHeld(o, i) /\ (o.toolItems > 0 => SomeCall(o))
      BY CallOpens
<1>r. r = IF i \in o.dropped \/ rest = <<>> \/ o.block[i] # o.current \/ o.kind # "tool" THEN o ELSE w
      BY DEF CompleteCall
<1> HIDE DEF o, size
<1>3. o \in ZrRec BY <1>2 DEF Showing, ROK
<1>4. \A p \in ItemParts : size[p] \in Nat /\ size[p] <= answer[i].size[p]
  <2>1. \A p \in ItemParts : size[p] \in Nat BY AnswerFacts DEF size
  <2> QED BY <2>1 DEF size
<1>5. PICK k \in Nat : /\ o.sent[i]["args"] = Pieces(i, "args", k) /\ k <= answer[i].size["args"]
                       /\ o.block[i] = 0 => k = 0
      BY <1>2 DEF CallHeld
<1>6. o.sent[i]["args"] \o rest = full /\ (rest = <<>> => k = size["args"])
      BY <1>1, <1>3, <1>5, PiecesCompleted DEF size
<1>7. PiecesOf(rest, i, {"args"}) BY <1>1, <1>3, WholeIs, MissingIs
<1>8. /\ \A p \in {"text", "refusal"} : o.sent[i][p] = Pieces(i, p, size[p])
      /\ ThinkingSaid(o.sent[i]["thinking"], i, size["thinking"])
  <2>1. answer[i].type = "function_call" BY DEF IsCall
  <2>2. \A p \in ItemParts \ {"args"} : n[p] = size[p] BY <2>1, NotOwnNone DEF size
  <2>3. n["text"] = size["text"] /\ n["refusal"] = size["refusal"] /\ n["thinking"] = size["thinking"]
        BY <1>1, <2>2
  <2> QED BY <1>2, <2>3 DEF ItemSaid
<1>9. (o.block[i] # 0 <=> ~answer[i].injected) /\ (i \in o.dropped <=> answer[i].injected)
      BY <1>2 DEF CallHeld
<1>10. o.block[i] # 0 /\ o.block[i] = o.current => o.kind = "tool"
  <2>1. PICK z : ROK(o, m, z) BY <1>2 DEF Showing
  <2>2. ROwned(o, z) /\ At(o, m, z) BY <2>1 DEF ROK
  <2>3. o.block[i] # 0 => z.blocks[o.block[i]].kind = "tool" BY <2>2 DEF ROwned
  <2> QED BY <2>2, <2>3 DEF At
<1> HIDE DEF rest, full, w, r
<1>11. CASE i \in o.dropped \/ rest = <<>> \/ o.block[i] # o.current \/ o.kind # "tool"
  <2>1. r = o BY <1>r, <1>11
  <2>2. o.block[i] # 0 /\ o.block[i] = o.current => k = size["args"] BY <1>6, <1>9, <1>10, <1>11
  <2>3. CallSaid(o, o.current, i, size, TRUE)
    <3>1. k <= size["args"] BY <1>5 DEF size
    <3> QED BY <1>5, <1>9, <2>2, <3>1 DEF CallSaid
  <2>4. ItemSaid(o, o.current, i, size, TRUE) BY <1>4, <1>8, <2>3 DEF ItemSaid
  <2>5. Completes(o, s, m, i) BY <1>2, <2>4 DEF Completes, size
  <2> QED BY <2>1, <2>5 DEF r, o
<1>12. CASE ~(i \in o.dropped \/ rest = <<>> \/ o.block[i] # o.current \/ o.kind # "tool")
  <2>0. o.block[i] # 0 BY <1>9, <1>12
  <2>1. /\ Showing(w, m) /\ Untouched(w, o, i) /\ Sends(w, o, i, "args", rest)
        /\ w.toolItems = o.toolItems /\ w.block = o.block /\ w.dropped = o.dropped
        /\ w.current = o.current
        BY <1>2, <1>7, <1>12, <2>0, ShowingArgs DEF w
  <2>2. w.sent[i]["args"] = Pieces(i, "args", size["args"])
    <3>1. w.sent[i]["args"] = full BY <1>6, <2>1 DEF Sends
    <3> QED BY <3>1 DEF full, Whole, size
  <2>3. CallSaid(w, w.current, i, size, TRUE)
    <3>1. size["args"] \in Nat /\ size["args"] <= size["args"] BY <1>1, <1>4
    <3> QED BY <1>9, <2>0, <2>1, <2>2, <3>1 DEF CallSaid
  <2>4. /\ w.sent[i]["text"] = o.sent[i]["text"] /\ w.sent[i]["refusal"] = o.sent[i]["refusal"]
        /\ w.sent[i]["thinking"] = o.sent[i]["thinking"]
        BY <1>1, <2>1 DEF Sends
  <2>5. ItemSaid(w, w.current, i, size, TRUE) BY <1>4, <1>8, <2>3, <2>4 DEF ItemSaid
  <2>6. Untouched(w, s, i) BY <1>2, <2>1, UntouchedOn
  <2>7. w.toolItems > 0 => SomeCall(w) BY <1>2, <2>1 DEF SomeCall
  <2>8. Completes(w, s, m, i) BY <2>1, <2>5, <2>6, <2>7 DEF Completes, size
  <2>9. r = w BY <1>r, <1>12
  <2> QED BY <2>8, <2>9 DEF r, o
<1> QED BY <1>11, <1>12

LEMMA ItemCompletes ==
  ASSUME answer \in Answers, NEW s, NEW m \in Msg, Showing(s, m), NEW i \in Items,
         NEW heard, NEW announced, RSaid(s, s.current, heard, announced)
  PROVE  LET r == CompleteItem(s, i)
         IN /\ Showing(r, m)
            /\ \A now, and :
                 /\ \A j \in Items \ {i} : now[j] = heard[j] /\ (j \in and <=> j \in announced)
                 /\ now[i] = answer[i].size /\ i \in and
                 => RSaid(r, r.current, now, and)
<1> DEFINE r == CompleteItem(s, i)
<1>1. answer[i].type \in {"reasoning", "message", "function_call"} BY AnswerFacts
<1>2. ItemSaid(s, s.current, i, heard[i], i \in announced) /\ (s.toolItems > 0 => SomeCall(s))
      BY DEF RSaid
<1>3. Completes(r, s, m, i)
  <2>1. CASE answer[i].type = "function_call"
    <3>1. r = CompleteCall(IF s.block[i] = 0 THEN OpenCall(s, i) ELSE s, i) BY <2>1 DEF CompleteItem
    <3>2. IsCall(i) BY <2>1 DEF IsCall
    <3> HIDE DEF r
    <3> QED BY <1>2, <3>1, <3>2, CallCompletes
  <2>2. CASE answer[i].type = "message"
    <3>1. r = CompleteMessage(s, i) BY <2>2 DEF CompleteItem
    <3> HIDE DEF r
    <3> QED BY <1>2, <2>2, <3>1, MessageCompletes
  <2>3. CASE answer[i].type = "reasoning"
    <3>1. r = CompleteReasoning(s, i) BY <2>3 DEF CompleteItem
    <3> HIDE DEF r
    <3> QED BY <1>2, <2>3, <3>1, ReasoningCompletes
  <2> QED BY <1>1, <2>1, <2>2, <2>3
<1> HIDE DEF r
<1>4. /\ Showing(r, m) /\ Untouched(r, s, i)
      /\ ItemSaid(r, r.current, i, answer[i].size, TRUE) /\ (r.toolItems > 0 => SomeCall(r))
      BY <1>3 DEF Completes
<1>5. ASSUME NEW now, NEW and,
             \A j \in Items \ {i} : now[j] = heard[j] /\ (j \in and <=> j \in announced),
             now[i] = answer[i].size, i \in and
      PROVE  RSaid(r, r.current, now, and)
  <2>1. ItemSaid(r, r.current, i, now[i], i \in and)
    <3>1. CallSaid(r, r.current, i, now[i], i \in and) <=> CallSaid(r, r.current, i, answer[i].size, TRUE)
          BY <1>5 DEF CallSaid
    <3> QED BY <1>4, <1>5, <3>1 DEF ItemSaid
  <2> QED BY <1>4, <1>5, <2>1, SaidKept
<1> QED BY <1>4, <1>5 DEF r

\* What upstream has said tells by item.
LEMMA SaidAlike ==
  ASSUME NEW s, NEW cur, NEW heard, NEW announced, RSaid(s, cur, heard, announced), NEW now, NEW and,
         \A i \in Items : now[i] = heard[i] /\ (i \in and <=> i \in announced)
  PROVE  RSaid(s, cur, now, and)
<1>1. ASSUME NEW i \in Items PROVE ItemSaid(s, cur, i, now[i], i \in and)
  <2>1. ItemSaid(s, cur, i, heard[i], i \in announced) BY DEF RSaid
  <2>2. now[i] = heard[i] /\ (i \in and <=> i \in announced) OBVIOUS
  <2>3. CallSaid(s, cur, i, now[i], i \in and) <=> CallSaid(s, cur, i, heard[i], i \in announced)
        BY <2>2 DEF CallSaid
  <2> QED BY <2>1, <2>2, <2>3 DEF ItemSaid
<1> QED BY <1>1 DEF RSaid

\* The items of a restated response are all said.
AllSaid == [i \in Items |-> answer[i].size]

LEMMA AllComplete ==
  ASSUME answer \in Answers, NEW m \in Msg, NEW base \in Sound(m), Showing(base, m),
         NEW heard, NEW announced, RSaid(base, base.current, heard, announced)
  PROVE  LET r == CompleteAll(base)
         IN Showing(r, m) /\ RSaid(r, r.current, AllSaid, Items)
<1> DEFINE k == Len(answer)
<1>1. PICK t \in [0..k -> Sound(m)] :
        /\ t[0] = base /\ t[k] = CompleteAll(base)
        /\ \A n \in 1..k : t[n] = CompleteItem(t[n - 1], n)
      BY ItemsFold
<1>2. Items = 1..k /\ k \in Nat BY AnswerFacts
<1> HIDE DEF k
<1> DEFINE HeardTo(n) == [i \in Items |-> IF i \in 1..n THEN answer[i].size ELSE heard[i]]
           KnownTo(n) == announced \cup 1..n
           Fine(n) == Showing(t[n], m) /\ RSaid(t[n], t[n].current, HeardTo(n), KnownTo(n))
           Bad == {n \in 0..k : ~Fine(n)}
<1>3. Fine(0)
  <2>1. 1..0 = {} OBVIOUS
  <2>2. \A i \in Items : HeardTo(0)[i] = heard[i] BY <2>1
  <2>3. \A i : i \in KnownTo(0) <=> i \in announced BY <2>1
  <2> HIDE DEF HeardTo, KnownTo
  <2>4. RSaid(base, base.current, HeardTo(0), KnownTo(0)) BY <2>2, <2>3, SaidAlike
  <2> QED BY <1>1, <2>4
<1>4. ASSUME NEW n \in 1..k, Fine(n - 1) PROVE Fine(n)
  <2> DEFINE b == t[n - 1]
             old == HeardTo(n - 1)
             new == HeardTo(n)
             kn == KnownTo(n - 1)
             kw == KnownTo(n)
  <2>1. n \in Items /\ t[n] = CompleteItem(b, n) BY <1>1, <1>2
  <2>2. 1..n = (1..(n - 1)) \cup {n} /\ n \notin 1..(n - 1) BY <1>2
  <2>3. /\ \A j \in Items \ {n} : new[j] = old[j] /\ (j \in kw <=> j \in kn)
        /\ new[n] = answer[n].size /\ n \in kw
        BY <2>1, <2>2
  <2>4. Showing(b, m) /\ RSaid(b, b.current, old, kn) BY <1>4
  <2> HIDE DEF old, new, kn, kw, b
  <2> DEFINE r == CompleteItem(b, n)
  <2>5. /\ Showing(r, m)
        /\ \A now, and :
             /\ \A j \in Items \ {n} : now[j] = old[j] /\ (j \in and <=> j \in kn)
             /\ now[n] = answer[n].size /\ n \in and
             => RSaid(r, r.current, now, and)
        BY <2>1, <2>4, ItemCompletes
  <2> HIDE DEF r
  <2>6. RSaid(r, r.current, new, kw) BY <2>3, <2>5
  <2>7. t[n] = r BY <2>1 DEF r
  <2> QED BY <2>5, <2>6, <2>7 DEF new, kw
<1> HIDE DEF Fine
<1>5. Bad = {}
  <2>1. SUFFICES ASSUME Bad # {} PROVE FALSE OBVIOUS
  <2>2. Bad \subseteq Nat BY <1>2
  <2>3. PICK l \in Bad : \A n \in Bad : l <= n BY <2>1, <2>2, LeastNat
  <2>4. l \in 0..k /\ ~Fine(l) BY <2>3
  <2>5. l # 0 BY <1>3, <2>4
  <2>6. l \in 1..k /\ l - 1 \in 0..k /\ ~(l <= l - 1) BY <1>2, <2>4, <2>5
  <2>7. l - 1 \notin Bad
    <3> HIDE DEF Bad
    <3> QED BY <2>3, <2>6
  <2>8. Fine(l - 1) BY <2>6, <2>7
  <2> QED BY <1>4, <2>4, <2>6, <2>8
<1>6. k \in 0..k BY <1>2
<1>7. Fine(k) BY <1>5, <1>6
<1> DEFINE r == CompleteAll(base)
<1>8. t[k] = r BY <1>1
<1> HIDE DEF r
<1>9. Showing(r, m) /\ RSaid(r, r.current, HeardTo(k), KnownTo(k)) BY <1>7, <1>8 DEF Fine
<1>10. RSaid(r, r.current, AllSaid, Items)
  <2>1. \A i \in Items : HeardTo(k)[i] = AllSaid[i] /\ i \in KnownTo(k) BY <1>2 DEF AllSaid
  <2> HIDE DEF HeardTo, KnownTo
  <2> QED BY <1>9, <2>1, SaidAlike
<1> QED BY <1>9, <1>10 DEF r

\* How much of each part upstream has said, and the calls it has announced.
HeardBy(u) ==
  [i \in Items |-> [p \in ItemParts |->
     IF i \in u.done \/ u.restated THEN answer[i].size[p] ELSE u.deltas[i][p]]]
AnnouncedBy(u) == u.added \cup u.done \cup (IF u.restated THEN Items ELSE {})

\* What has been shown at the end.
RDone(z) ==
  /\ \A i \in Items, v \in Views : Received(z, i, v[2]) = Only(zr.sent[i][v[1]], i, v[2])
  /\ \A i \in Items : IsCall(i) /\ zr.block[i] # 0 =>
       /\ zr.block[i] \in 1..Len(z.blocks) /\ z.blocks[zr.block[i]].kind = "tool"
       /\ z.blocks[zr.block[i]].text = Received(z, i, {"args"})
  /\ RSaid(zr, Len(z.blocks), HeardBy(zup), AnnouncedBy(zup))

\* The message on its way has what upstream has said.
RShown ==
  \A z : Delivers(wire, message, z) =>
    IF zup.over THEN z.phase = "done" => RDone(z)
    ELSE RShows(zr, z, zr.sent) /\ RSaid(zr, zr.current, HeardBy(zup), AnnouncedBy(zup))

LEMMA RShownFrame ==
  ASSUME answer' = answer, tagged' = tagged
  PROVE  /\ \A z : RShows(zr', z, zr'.sent) => RShows(zr, z, zr.sent)'
         /\ \A cur : RSaid(zr', cur, HeardBy(zup'), AnnouncedBy(zup'))
                     => RSaid(zr, cur, HeardBy(zup), AnnouncedBy(zup))'
         /\ RSaid(zr', zr'.current, HeardBy(zup'), AnnouncedBy(zup'))
              => RSaid(zr, zr.current, HeardBy(zup), AnnouncedBy(zup))'
<1>1. Items' = Items BY DEF Items
<1>2. \A i : IsCall(i)' <=> IsCall(i) BY DEF IsCall
<1>3. \A z : RShows(zr', z, zr'.sent) => RShows(zr, z, zr.sent)' BY <1>1, <1>2 DEF RShows
<1>4. HeardBy(zup)' = HeardBy(zup') /\ AnnouncedBy(zup)' = AnnouncedBy(zup')
      BY <1>1 DEF HeardBy, AnnouncedBy
<1>5. \A text, i, n : ThinkingSaid(text, i, n)' <=> ThinkingSaid(text, i, n) BY DEF ThinkingSaid
<1>6. \A cur, i, n, ann : CallSaid(zr', cur, i, n, ann) => CallSaid(zr, cur, i, n, ann)'
      BY DEF CallSaid
<1>7. \A cur, i, n, ann : ItemSaid(zr', cur, i, n, ann) => ItemSaid(zr, cur, i, n, ann)'
      BY <1>2, <1>5, <1>6 DEF ItemSaid
<1>8. SomeCall(zr') => SomeCall(zr)' BY <1>1, <1>2 DEF SomeCall
<1>9. \A cur : RSaid(zr', cur, HeardBy(zup'), AnnouncedBy(zup'))
                => RSaid(zr, cur, HeardBy(zup), AnnouncedBy(zup))'
      BY <1>1, <1>4, <1>7, <1>8 DEF RSaid
<1>10. RSaid(zr', zr'.current, HeardBy(zup'), AnnouncedBy(zup'))
         => RSaid(zr, zr.current, HeardBy(zup), AnnouncedBy(zup))'
      BY <1>1, <1>4, <1>7, <1>8 DEF RSaid
<1> QED BY <1>3, <1>9, <1>10

\* What a handler that goes on has shown.
LEMMA RShownOn ==
  ASSUME message \in Msg, wire = <<>>, NEW r, Showing(r, message), Goes(r), ~zup'.over,
         RSaid(r, r.current, HeardBy(zup'), AnnouncedBy(zup'))
  PROVE  RShown'
<1>1. PICK z : ROK(r, message, z) /\ RShows(r, z, r.sent) BY DEF Showing
<1>2. r \in ZrRec /\ At(r, message, z) BY <1>1 DEF ROK
<1>3. /\ zr' = [r EXCEPT !.out = <<>>] /\ wire' = r.out /\ message' = message
      /\ answer' = answer /\ tagged' = tagged
      BY DEF Goes, Send
<1>4. SameSaid(zr', r) BY <1>2, <1>3 DEF ZrRec, SameSaid
<1>5. RShows(zr', z, zr'.sent) BY <1>1, <1>4 DEF SameSaid, RShows
<1>6. RSaid(zr', zr'.current, HeardBy(zup'), AnnouncedBy(zup')) BY <1>4, SaidSame
<1>7. RShows(zr, z, zr.sent)' BY <1>3, <1>5, RShownFrame
<1>8. RSaid(zr, zr.current, HeardBy(zup), AnnouncedBy(zup))' BY <1>3, <1>6, RShownFrame
<1>9. ASSUME NEW x, Delivers(wire', message', x) PROVE x = z
      BY <1>2, <1>3, <1>9, DeliversOne DEF At
<1> QED BY <1>7, <1>8, <1>9 DEF RShown

\* What a handler begins with.
LEMMA RShownListening ==
  ASSUME RInv, RShown, Listening
  PROVE  LET s == StartMessage(zr)
         IN /\ message \in Msg /\ wire = <<>> /\ ~zup.over /\ ~zup.restated /\ zup \in ZupRec
            /\ answer \in Answers /\ Showing(s, message) /\ s \in Sound(message)
            /\ RSaid(s, s.current, HeardBy(zup), AnnouncedBy(zup))
<1> DEFINE s == StartMessage(zr)
<1>1. /\ ~zup.over /\ wire = <<>> /\ ~zup.restated /\ ROK(zr, message, message)
      /\ s \in Sound(message)
      BY RListens
<1>2. message \in Msg /\ zup \in ZupRec /\ answer \in Answers BY DEF RInv, RTypeOK
<1>3. Delivers(wire, message, message) BY <1>1, <1>2, DeliversNothing
<1>4. RShows(zr, message, zr.sent) /\ RSaid(zr, zr.current, HeardBy(zup), AnnouncedBy(zup))
      BY <1>1, <1>3 DEF RShown
<1>5. Showing(s, message) /\ SameSaid(s, zr) BY <1>1, <1>2, <1>4, ShowingStart
<1> HIDE DEF s
<1>6. RSaid(s, s.current, HeardBy(zup), AnnouncedBy(zup)) BY <1>4, <1>5, SaidSame
<1> QED BY <1>1, <1>2, <1>5, <1>6 DEF s

\* What upstream has said of an item it has not begun, and of one it goes on with.
LEMMA HeardIs ==
  ASSUME NEW u \in ZupRec, NEW i \in Items
  PROVE  /\ i \in u.done \/ u.restated => HeardBy(u)[i] = [p \in ItemParts |-> answer[i].size[p]]
         /\ i \notin u.done /\ ~u.restated => HeardBy(u)[i] = u.deltas[i]
         /\ i \in AnnouncedBy(u) <=> i \in u.added \/ i \in u.done \/ u.restated
<1>1. u.deltas \in [Items -> [ItemParts -> Nat]] BY DEF ZupRec
<1>2. i \notin u.done /\ ~u.restated => HeardBy(u)[i] = [p \in ItemParts |-> u.deltas[i][p]]
      BY DEF HeardBy
<1>3. u.deltas[i] = [p \in ItemParts |-> u.deltas[i][p]] BY <1>1
<1>4. i \in u.done \/ u.restated => HeardBy(u)[i] = [p \in ItemParts |-> answer[i].size[p]]
      BY DEF HeardBy
<1>5. i \in AnnouncedBy(u) <=> i \in u.added \/ i \in u.done \/ u.restated BY DEF AnnouncedBy
<1> QED BY <1>2, <1>3, <1>4, <1>5

LEMMA SizeIs ==
  ASSUME answer \in Answers, NEW i \in Items
  PROVE  answer[i].size = [p \in ItemParts |-> answer[i].size[p]]
<1> DEFINE T == [type : DOMAIN OwnParts, injected : BOOLEAN, size : [ItemParts -> Nat]]
<1>1. answer \in Seq(T) /\ Items = 1..Len(answer)
      BY AnswerFacts, ZenResponsesAssumption DEF ZenResponsesAssumption
<1> HIDE DEF T
<1>2. answer[i] \in T BY <1>1
<1>3. answer[i].size \in [ItemParts -> Nat] BY <1>2 DEF T
<1> QED BY <1>3

\* An item is announced.
LEMMA RItemAddedShown == ASSUME RInv, RShown, NEW i \in Items, ItemAdded(i) PROVE RShown'
<1> DEFINE s == StartMessage(zr)
           r == IF answer[i].type = "function_call" THEN OpenCall(s, i) ELSE s
           A == zup.added \cup {i}
           n == zup.deltas[i]
           heard == HeardBy(zup)
           now == HeardBy(zup')
           known == AnnouncedBy(zup)
           and == AnnouncedBy(zup')
<1>0. Listening /\ ~Begun(i) /\ zup' = [zup EXCEPT !.added = A] /\ Goes(r) BY DEF ItemAdded
<1>1. /\ message \in Msg /\ wire = <<>> /\ ~zup.over /\ ~zup.restated /\ zup \in ZupRec
      /\ answer \in Answers /\ Showing(s, message) /\ RSaid(s, s.current, heard, known)
      BY <1>0, RShownListening
<1>2. /\ zup' \in ZupRec /\ zup'.deltas = zup.deltas /\ zup'.done = zup.done /\ zup'.added = A
      /\ zup'.restated = zup.restated /\ ~zup'.over
  <2>1. A \in SUBSET Items BY <1>1 DEF ZupRec
  <2> HIDE DEF A
  <2> QED BY <1>0, <1>1, <2>1 DEF ZupRec
<1>3. i \notin zup.done /\ i \notin zup.added /\ \A p \in ItemParts : n[p] \in Nat /\ n[p] = 0
      BY <1>0, <1>1 DEF Begun, ZupRec
<1>4. /\ heard[i] = n /\ i \notin known /\ i \in and
      BY <1>1, <1>2, <1>3, HeardIs
<1>5. \A j \in Items : now[j] = heard[j] BY <1>2 DEF HeardBy
<1>6. \A j \in Items \ {i} : j \in and <=> j \in known BY <1>1, <1>2 DEF AnnouncedBy
<1>7. ItemSaid(s, s.current, i, n, i \in known) /\ (s.toolItems > 0 => SomeCall(s))
      BY <1>1, <1>4 DEF RSaid
<1>g. Goes(r) BY <1>0
<1> HIDE DEF s, A, heard, now, known, and
<1>8. CASE answer[i].type # "function_call"
  <2>1. r = s /\ ~IsCall(i) BY <1>8 DEF IsCall
  <2>2. Untouched(s, s, i) BY DEF Untouched
  <2>3. ItemSaid(s, s.current, i, now[i], i \in and) BY <1>4, <1>5, <1>7, <2>1 DEF ItemSaid
  <2>4. RSaid(s, s.current, now, and) BY <1>1, <1>5, <1>6, <1>7, <2>2, <2>3, SaidKept
  <2> HIDE DEF r
  <2>5. Goes(s) BY <1>g, <2>1
  <2> QED BY <1>1, <1>2, <2>4, <2>5, RShownOn DEF now, and
<1>9. CASE answer[i].type = "function_call"
  <2>1. r = OpenCall(s, i) /\ IsCall(i) BY <1>9 DEF IsCall
  <2>2. /\ s.block[i] = 0 /\ i \notin s.dropped /\ s.sent[i]["args"] = Pieces(i, "args", 0)
    <3>1. CallSaid(s, s.current, i, n, i \in known) BY <1>7, <2>1 DEF ItemSaid
    <3>2. PICK k \in Nat : s.sent[i]["args"] = Pieces(i, "args", k) /\ k <= n["args"]
          BY <3>1 DEF CallSaid
    <3>3. k = 0
      <4>1. n["args"] = 0 BY <1>3 DEF ItemParts
      <4> QED BY <3>2, <4>1
    <3>4. i \in known <=> FALSE BY <1>4
    <3> QED BY <3>1, <3>2, <3>3, <3>4 DEF CallSaid
  <2>3. s.sent[i]["args"] = <<>> BY <2>2 DEF Pieces
  <2> HIDE DEF r
  <2>4. /\ Showing(r, message) /\ Untouched(r, s, i) /\ r.sent = s.sent
        /\ answer[i].injected =>
             r.block = s.block /\ r.dropped = s.dropped \cup {i} /\ r.toolItems = s.toolItems
        /\ ~answer[i].injected =>
             r.block[i] = r.current /\ r.current # 0 /\ r.dropped = s.dropped
        BY <1>1, <2>1, <2>2, <2>3, ShowingCall
  <2>5. CallSaid(r, r.current, i, n, TRUE)
    <3>1. r.block[i] # 0 <=> ~answer[i].injected BY <2>2, <2>4
    <3>2. i \in r.dropped <=> answer[i].injected BY <2>2, <2>4
    <3>3. 0 \in Nat /\ r.sent[i]["args"] = Pieces(i, "args", 0) /\ 0 <= n["args"] /\ 0 = n["args"]
      <4>1. n["args"] = 0 BY <1>3 DEF ItemParts
      <4> QED BY <2>2, <2>4, <4>1
    <3> QED BY <3>1, <3>2, <3>3 DEF CallSaid
  <2>6. ItemSaid(r, r.current, i, now[i], i \in and)
    <3>1. ItemSaid(r, r.current, i, n, TRUE) BY <1>7, <2>4, <2>5 DEF ItemSaid
    <3>2. now[i] = n /\ (i \in and <=> TRUE) BY <1>4, <1>5
    <3>3. CallSaid(r, r.current, i, now[i], i \in and) BY <2>5, <3>2 DEF CallSaid
    <3> QED BY <3>1, <3>2, <3>3 DEF ItemSaid
  <2>7. r.toolItems > 0 => SomeCall(r)
    <3>1. CASE answer[i].injected BY <1>7, <2>2, <2>4, <3>1, CallsStay
    <3>2. CASE ~answer[i].injected BY <2>1, <2>4, <3>2 DEF SomeCall
    <3> QED BY <3>1, <3>2
  <2>8. RSaid(r, r.current, now, and) BY <1>1, <1>5, <1>6, <2>4, <2>6, <2>7, SaidKept
  <2>9. Goes(r) BY <1>g DEF r
  <2> QED BY <1>1, <1>2, <2>4, <2>8, <2>9, RShownOn DEF now, and
<1> QED BY <1>8, <1>9

\* A delta tells one piece more.
LEMMA DeltaHeard ==
  ASSUME RInv, NEW i \in Items, NEW p \in ItemParts, ItemDelta(i, p)
  PROVE  LET n == zup.deltas[i][p] + 1
             old == HeardBy(zup)[i]
             new == HeardBy(zup')[i]
         IN /\ Listening /\ ~zup'.over /\ i \in Nat /\ answer \in Answers
            /\ zup.deltas[i][p] \in Nat /\ n <= answer[i].size[p] /\ old[p] = zup.deltas[i][p] /\ new[p] = n
            /\ \A q \in ItemParts \ {p} : new[q] = old[q]
            /\ \A j \in Items \ {i} : HeardBy(zup')[j] = HeardBy(zup)[j]
            /\ \A j \in Items : j \in AnnouncedBy(zup') <=> j \in AnnouncedBy(zup)
            /\ p = "args" <=> IsCall(i)
<1> DEFINE n == zup.deltas[i][p] + 1
           dl == [zup.deltas EXCEPT ![i][p] = n]
<1>1. /\ Listening /\ n <= answer[i].size[p] /\ i \notin zup.done
      /\ zup' = [zup EXCEPT !.deltas[i][p] = n]
      BY DEF ItemDelta
<1>2. ~zup.over /\ ~zup.restated BY <1>1, RListens
<1>3. zup \in ZupRec /\ answer \in Answers BY DEF RInv, RTypeOK
<1>4. zup.deltas \in [Items -> [ItemParts -> Nat]] /\ zup.deltas[i][p] \in Nat /\ n \in Nat /\ n > 0
      BY <1>3 DEF ZupRec
<1>5. /\ dl \in [Items -> [ItemParts -> Nat]] /\ dl[i][p] = n
      /\ \A q \in ItemParts \ {p} : dl[i][q] = zup.deltas[i][q]
      /\ \A j \in Items \ {i} : dl[j] = zup.deltas[j]
      BY <1>4
<1> HIDE DEF n
<1>6. zup' = [zup EXCEPT !.deltas = dl] BY <1>1, <1>3 DEF ZupRec
<1> HIDE DEF dl
<1>7. /\ zup' \in ZupRec /\ zup'.deltas = dl /\ zup'.done = zup.done /\ zup'.added = zup.added
      /\ zup'.restated = zup.restated /\ zup'.over = zup.over
      BY <1>3, <1>5, <1>6 DEF ZupRec
<1>8. HeardBy(zup)[i] = zup.deltas[i] /\ HeardBy(zup')[i] = dl[i]
      BY <1>1, <1>2, <1>3, <1>7, HeardIs
<1>9. \A j \in Items \ {i} : HeardBy(zup')[j] = HeardBy(zup)[j] BY <1>5, <1>7 DEF HeardBy
<1>10. \A j \in Items : j \in AnnouncedBy(zup') <=> j \in AnnouncedBy(zup) BY <1>7 DEF AnnouncedBy
<1>11. p = "args" <=> IsCall(i)
  <2>1. answer[i].size[p] \in Nat BY <1>3, AnswerFacts
  <2>2. answer[i].size[p] > 0 BY <1>1, <1>4, <2>1
  <2>3. /\ answer[i].type \in {"reasoning", "message", "function_call"}
        /\ p \in (CASE answer[i].type = "reasoning" -> {"thinking"}
                    [] answer[i].type = "message" -> {"text", "refusal"}
                    [] OTHER -> {"args"})
        BY <1>3, <2>2, AnswerFacts
  <2> QED BY <2>3 DEF IsCall
<1>12. i \in Nat BY <1>3, AnswerFacts
<1>13. HeardBy(zup)[i][p] = zup.deltas[i][p] /\ HeardBy(zup')[i][p] = n BY <1>5, <1>8
<1>14. \A q \in ItemParts \ {p} : HeardBy(zup')[i][q] = HeardBy(zup)[i][q] BY <1>5, <1>8
<1> QED BY <1>1, <1>2, <1>3, <1>4, <1>7, <1>9, <1>10, <1>11, <1>12, <1>13, <1>14 DEF n

\* A piece of text, of a refusal or of reasoning.
LEMMA RTextDelta ==
  ASSUME RInv, RShown, NEW i \in Items, NEW p \in ItemParts, p # "args", ItemDelta(i, p),
         NEW a, Showing(a, message), RSaid(a, a.current, HeardBy(zup), AnnouncedBy(zup)),
         NEW kind \in {"text", "thinking"}, NEW text, text # <<>>, PiecesOf(text, i, PartsOf(p)),
         PartsOf(p) \subseteq KindParts(kind),
         Goes(WriteKind(Record(a, i, p, text), i, kind, text)),
         p = "thinking" => ThinkingSaid(a.sent[i][p] \o text, i, zup.deltas[i][p] + 1),
         p # "thinking" => a.sent[i][p] \o text = Pieces(i, p, zup.deltas[i][p] + 1)
  PROVE  RShown'
<1> DEFINE r == WriteKind(Record(a, i, p, text), i, kind, text)
           now == HeardBy(zup')
           and == AnnouncedBy(zup')
           heard == HeardBy(zup)
           known == AnnouncedBy(zup)
           n == zup.deltas[i][p] + 1
<1>1. /\ Listening /\ ~zup'.over /\ zup.deltas[i][p] \in Nat /\ n <= answer[i].size[p]
      /\ now[i][p] = n /\ \A q \in ItemParts \ {p} : now[i][q] = heard[i][q]
      /\ \A j \in Items \ {i} : now[j] = heard[j]
      /\ \A j \in Items : j \in and <=> j \in known
      /\ ~IsCall(i)
      BY DeltaHeard
<1>2. message \in Msg /\ wire = <<>> BY <1>1, RShownListening
<1>g. Goes(r) OBVIOUS
<1>3. n \in Nat BY <1>1
<1>4. RSaid(a, a.current, heard, known) OBVIOUS
<1>t. /\ p = "thinking" => ThinkingSaid(a.sent[i][p] \o text, i, n)
      /\ p # "thinking" => a.sent[i][p] \o text = Pieces(i, p, n)
      OBVIOUS
<1> HIDE DEF n, now, and, heard, known
<1>5. Showing(r, message) /\ Untouched(r, a, i) /\ Sends(r, a, i, p, text) /\ r.toolItems = a.toolItems
      BY <1>1, <1>2, ShowingWrite
<1> HIDE DEF r
<1>6. ItemSaid(a, a.current, i, heard[i], i \in known) /\ (a.toolItems > 0 => SomeCall(a))
      BY <1>4 DEF RSaid
<1> DEFINE nn == now[i]
<1>7. ItemSaid(r, r.current, i, now[i], i \in and)
  <2> DEFINE hh == heard[i]
             an == i \in known
  <2>1. /\ nn[p] = n /\ \A q \in ItemParts \ {p} : nn[q] = hh[q]
        /\ ItemSaid(a, a.current, i, hh, an)
        BY <1>1, <1>6
  <2> HIDE DEF nn, hh, an
  <2>2. \A c, x : ItemSaid(r, c, i, nn, x)
    <3>1. nn[p] \in Nat /\ nn[p] <= answer[i].size[p] BY <1>1, <1>3, <2>1
    <3>2. /\ p = "thinking" => ThinkingSaid(a.sent[i][p] \o text, i, nn[p])
          /\ p # "thinking" => a.sent[i][p] \o text = Pieces(i, p, nn[p])
          BY <1>t, <2>1
    <3> QED BY <1>1, <1>5, <2>1, <3>1, <3>2, SaysMore
  <2>3. ItemSaid(r, r.current, i, nn, TRUE) /\ ItemSaid(r, r.current, i, nn, FALSE) BY <2>2
  <2>4. ~IsCall(i) BY <1>1
  <2> QED BY <2>3, <2>4 DEF nn, ItemSaid
<1>8. r.toolItems > 0 => SomeCall(r) BY <1>1, <1>5, <1>6, CallsStay
<1>9. RSaid(r, r.current, now, and)
  <2>1. \A j \in Items \ {i} : now[j] = heard[j] /\ (j \in and <=> j \in known) BY <1>1
  <2> QED BY <1>4, <1>5, <1>7, <1>8, <2>1, SaidKept
<1> QED BY <1>1, <1>2, <1>5, <1>9, <1>g, RShownOn DEF now, and, r

\* A fragment of a call's arguments.
LEMMA RArgsDelta ==
  ASSUME RInv, RShown, NEW i \in Items, ItemDelta(i, "args"), "args" \in ItemParts
  PROVE  RShown'
<1> DEFINE s == StartMessage(zr)
           n == zup.deltas[i]["args"]
           text == <<Piece(i, "args", n + 1)>>
           w == Write(Record(s, i, "args", text), text)
           now == HeardBy(zup')
           and == AnnouncedBy(zup')
           heard == HeardBy(zup)
           known == AnnouncedBy(zup)
<1>1. /\ Listening /\ ~zup'.over /\ n \in Nat /\ n + 1 <= answer[i].size["args"] /\ i \in Nat
      /\ now[i]["args"] = n + 1 /\ \A q \in ItemParts \ {"args"} : now[i][q] = heard[i][q]
      /\ heard[i]["args"] = n
      /\ \A j \in Items \ {i} : now[j] = heard[j]
      /\ \A j \in Items : j \in and <=> j \in known
      /\ IsCall(i)
      BY DeltaHeard
<1>2. /\ message \in Msg /\ wire = <<>> /\ Showing(s, message)
      /\ RSaid(s, s.current, heard, known)
      BY <1>1, RShownListening
<1>3. Goes(IF i \in s.dropped \/ s.block[i] = 0 \/ s.block[i] # s.current THEN s ELSE w)
      BY DEF ItemDelta, WriteArgs
<1>4. text # <<>> /\ PiecesOf(text, i, {"args"})
  <2> DEFINE T == [item : Nat, part : PieceParts, n : Nat]
             e == Piece(i, "args", n + 1)
  <2>1. e \in T /\ e.item = i /\ e.part = "args" BY <1>1 DEF Piece, PieceParts
  <2> HIDE DEF T, e
  <2>2. <<e>> # <<>> /\ <<e>> \in Seq(T) /\ Len(<<e>>) = 1 /\ <<e>>[1] = e BY <2>1
  <2> QED BY <2>1, <2>2 DEF PiecesOf, Texts, T, e
<1>5. Pieces(i, "args", n) \o text = Pieces(i, "args", n + 1) BY <1>1, PieceMore
<1> HIDE DEF s, text, n, now, and, heard, known
<1>6. ItemSaid(s, s.current, i, heard[i], i \in known) /\ (s.toolItems > 0 => SomeCall(s))
      BY <1>2 DEF RSaid
<1>7. CallSaid(s, s.current, i, heard[i], i \in known) BY <1>1, <1>6 DEF ItemSaid
<1>8. PICK k \in Nat : /\ s.sent[i]["args"] = Pieces(i, "args", k) /\ k <= n
                       /\ s.block[i] = 0 => k = 0
                       /\ s.block[i] # 0 /\ s.block[i] = s.current => k = n
      BY <1>1, <1>7 DEF CallSaid
<1>9. (s.block[i] # 0 <=> ~answer[i].injected /\ i \in known)
      /\ (i \in s.dropped <=> answer[i].injected /\ i \in known)
      BY <1>7 DEF CallSaid
<1>10. \A q \in ItemParts : now[i][q] \in Nat /\ now[i][q] <= answer[i].size[q]
  <2>1. \A q \in ItemParts : heard[i][q] \in Nat /\ heard[i][q] <= answer[i].size[q] BY <1>6 DEF ItemSaid
  <2>2. n + 1 \in Nat BY <1>1
  <2> QED BY <1>1, <2>1, <2>2
<1>11. /\ now[i]["text"] = heard[i]["text"] /\ now[i]["refusal"] = heard[i]["refusal"]
       /\ now[i]["thinking"] = heard[i]["thinking"]
  <2>1. "text" \in ItemParts \ {"args"} /\ "refusal" \in ItemParts \ {"args"} /\ "thinking" \in ItemParts \ {"args"}
        BY DEF ItemParts
  <2> QED BY <1>1, <2>1
<1>12. /\ \A q \in {"text", "refusal"} : s.sent[i][q] = Pieces(i, q, now[i][q])
       /\ ThinkingSaid(s.sent[i]["thinking"], i, now[i]["thinking"])
       BY <1>6, <1>11 DEF ItemSaid
<1>13. \A j \in Items \ {i} : now[j] = heard[j] /\ (j \in and <=> j \in known) BY <1>1
<1>14. i \in and <=> i \in known BY <1>1
<1>15. k <= n + 1 BY <1>1, <1>8
<1> HIDE DEF w
<1>16. CASE i \in s.dropped \/ s.block[i] = 0 \/ s.block[i] # s.current
  <2>1. Goes(s) BY <1>3, <1>16
  <2>2. ~(s.block[i] # 0 /\ s.block[i] = s.current) BY <1>9, <1>16
  <2>3. CallSaid(s, s.current, i, now[i], i \in and)
        BY <1>1, <1>8, <1>9, <1>14, <1>15, <2>2 DEF CallSaid
  <2>4. ItemSaid(s, s.current, i, now[i], i \in and) BY <1>10, <1>12, <2>3 DEF ItemSaid
  <2>5. Untouched(s, s, i) BY DEF Untouched
  <2>6. RSaid(s, s.current, now, and) BY <1>2, <1>6, <1>13, <2>4, <2>5, SaidKept
  <2> QED BY <1>1, <1>2, <2>1, <2>6, RShownOn DEF now, and
<1>17. CASE ~(i \in s.dropped \/ s.block[i] = 0 \/ s.block[i] # s.current)
  <2>1. Goes(w) BY <1>3, <1>17
  <2>2. /\ Showing(w, message) /\ Untouched(w, s, i) /\ Sends(w, s, i, "args", text)
        /\ w.toolItems = s.toolItems /\ w.block = s.block /\ w.dropped = s.dropped
        /\ w.current = s.current
        BY <1>1, <1>2, <1>4, <1>17, ShowingArgs DEF w
  <2>3. w.sent[i]["args"] = Pieces(i, "args", n + 1)
    <3>1. k = n BY <1>8, <1>17
    <3> QED BY <1>5, <1>8, <2>2, <3>1 DEF Sends
  <2>4. CallSaid(w, w.current, i, now[i], i \in and)
    <3>1. n + 1 \in Nat /\ n + 1 <= n + 1 BY <1>1
    <3> QED BY <1>1, <1>9, <1>14, <1>17, <2>2, <2>3, <3>1 DEF CallSaid
  <2>5. /\ w.sent[i]["text"] = s.sent[i]["text"] /\ w.sent[i]["refusal"] = s.sent[i]["refusal"]
        /\ w.sent[i]["thinking"] = s.sent[i]["thinking"]
        BY <2>2 DEF Sends, ItemParts
  <2>6. ItemSaid(w, w.current, i, now[i], i \in and) BY <1>10, <1>12, <2>4, <2>5 DEF ItemSaid
  <2>7. w.toolItems > 0 => SomeCall(w) BY <1>6, <2>2 DEF SomeCall
  <2>8. RSaid(w, w.current, now, and) BY <1>2, <1>13, <2>2, <2>6, <2>7, SaidKept
  <2> QED BY <1>1, <1>2, <2>1, <2>2, <2>8, RShownOn DEF now, and
<1> QED BY <1>16, <1>17

LEMMA RItemDeltaShown ==
  ASSUME RInv, RShown, NEW i \in Items, NEW p \in ItemParts, ItemDelta(i, p) PROVE RShown'
<1> DEFINE s == StartMessage(zr)
           k == zup.deltas[i][p]
           text == <<Piece(i, p, k + 1)>>
           heard == HeardBy(zup)
           known == AnnouncedBy(zup)
<1>1. /\ Listening /\ k \in Nat /\ k + 1 <= answer[i].size[p] /\ i \in Nat /\ answer \in Answers
      /\ heard[i][p] = k /\ (p = "args" <=> IsCall(i))
      BY DeltaHeard
<1>2. Showing(s, message) /\ s \in Sound(message) /\ RSaid(s, s.current, heard, known)
      BY <1>1, RShownListening
<1>3. ItemSaid(s, s.current, i, heard[i], i \in known) BY <1>2 DEF RSaid
<1>4. text # <<>> /\ PiecesOf(text, i, {p})
  <2> DEFINE T == [item : Nat, part : PieceParts, n : Nat]
             e == Piece(i, p, k + 1)
  <2>1. e \in T /\ e.item = i /\ e.part = p BY <1>1 DEF Piece, ItemParts, PieceParts
  <2> HIDE DEF T, e
  <2>2. <<e>> # <<>> /\ <<e>> \in Seq(T) /\ Len(<<e>>) = 1 /\ <<e>>[1] = e BY <2>1
  <2> QED BY <2>1, <2>2 DEF PiecesOf, Texts, T, e
<1>5. Pieces(i, p, k) \o text = Pieces(i, p, k + 1) BY <1>1, PieceMore
<1>6. CASE p = "thinking"
  <2> DEFINE u == s.sent[i]["thinking"]
             n == k + 1
             t == IF tagged /\ n > 1 /\ u # <<>>
                  THEN <<Gap(i), Piece(i, "thinking", n)>> ELSE <<Piece(i, "thinking", n)>>
  <2>1. Goes(WriteKind(Record(s, i, "thinking", t), i, "thinking", t))
        BY <1>6 DEF ItemDelta, WriteSummary
  <2>2. ThinkingSaid(u, i, k) BY <1>1, <1>3, <1>6 DEF ItemSaid
  <2>3. u \in Texts BY <1>2, <1>6 DEF Sound, ZrRec
  <2>4. ThinkingSaid(u \o t, i, k + 1) /\ t # <<>> /\ PiecesOf(t, i, {"thinking", "gap"})
        BY <1>1, <1>6, <2>2, <2>3, SummaryNext
  <2> HIDE DEF t, s
  <2>5. PartsOf("thinking") = {"thinking", "gap"} /\ PartsOf("thinking") \subseteq KindParts("thinking")
        /\ "thinking" # "args" /\ "thinking" \in {"text", "thinking"}
        BY DEF PartsOf, KindParts
  <2>6. PiecesOf(t, i, PartsOf(p)) /\ PartsOf(p) \subseteq KindParts("thinking") /\ p # "args"
        BY <1>6, <2>4, <2>5
  <2>7. Goes(WriteKind(Record(s, i, p, t), i, "thinking", t)) BY <1>6, <2>1
  <2>8. ThinkingSaid(s.sent[i][p] \o t, i, k + 1) BY <1>6, <2>4
  <2> HIDE DEF u, heard, known
  <2> QED BY <1>2, <1>6, <2>4, <2>5, <2>6, <2>7, <2>8, RTextDelta DEF heard, known
<1>7. CASE p = "args" BY <1>7, RArgsDelta
<1>8. ASSUME NEW a, Showing(a, message), SameSaid(a, s), p \in {"text", "refusal"},
             Goes(WriteKind(Record(a, i, p, text), i, "text", text))
      PROVE  RShown'
  <2>1. PartsOf(p) = {p} /\ PartsOf(p) \subseteq KindParts("text") /\ p # "args" /\ p # "thinking"
        /\ "text" \in {"text", "thinking"}
        BY <1>8 DEF PartsOf, KindParts
  <2>2. a.sent[i][p] = Pieces(i, p, k) BY <1>1, <1>3, <1>8 DEF SameSaid, ItemSaid
  <2>3. a.sent[i][p] \o text = Pieces(i, p, k + 1) BY <1>5, <2>2
  <2>4. RSaid(a, a.current, heard, known) BY <1>2, <1>8, SaidSame
  <2>5. PiecesOf(text, i, PartsOf(p)) BY <1>4, <2>1
  <2> HIDE DEF text, s
  <2> QED BY <1>4, <1>8, <2>1, <2>3, <2>4, <2>5, RTextDelta
<1>9. CASE p = "text"
  <2>1. Goes(WriteKind(Record(s, i, p, text), i, "text", text)) BY <1>9 DEF ItemDelta
  <2>2. SameSaid(s, s) BY DEF SameSaid
  <2> HIDE DEF s, text
  <2> QED BY <1>2, <1>8, <1>9, <2>1, <2>2
<1>10. CASE p = "refusal"
  <2> DEFINE a == [s EXCEPT !.stop = "refusal"]
  <2>1. Goes(WriteKind(Record(a, i, p, text), i, "text", text)) BY <1>10 DEF ItemDelta
  <2>2. Showing(a, message) /\ SameSaid(a, s)
    <3>1. "refusal" \in StopReasons BY DEF StopReasons
    <3> HIDE DEF s
    <3> QED BY <1>2, <3>1, ShowingStop
  <2> HIDE DEF a, s, text
  <2> QED BY <1>8, <1>10, <2>1, <2>2
<1> QED BY <1>6, <1>7, <1>9, <1>10 DEF ItemParts

LEMMA RItemDoneShown == ASSUME RInv, RShown, NEW i \in Items, ItemDone(i) PROVE RShown'
<1> DEFINE s == StartMessage(zr)
           r == CompleteItem(s, i)
           D == zup.done \cup {i}
           heard == HeardBy(zup)
           now == HeardBy(zup')
           known == AnnouncedBy(zup)
           and == AnnouncedBy(zup')
<1>0. Listening /\ zup' = [zup EXCEPT !.done = D] /\ Goes(r) BY DEF ItemDone
<1>1. /\ message \in Msg /\ wire = <<>> /\ ~zup.over /\ ~zup.restated /\ zup \in ZupRec
      /\ answer \in Answers /\ Showing(s, message) /\ RSaid(s, s.current, heard, known)
      BY <1>0, RShownListening
<1>2. /\ zup' \in ZupRec /\ zup'.deltas = zup.deltas /\ zup'.done = D /\ zup'.added = zup.added
      /\ zup'.restated = zup.restated /\ ~zup'.over
  <2>1. D \in SUBSET Items BY <1>1 DEF ZupRec
  <2> HIDE DEF D
  <2> QED BY <1>0, <1>1, <2>1 DEF ZupRec
<1>3. now[i] = answer[i].size /\ i \in and BY <1>1, <1>2, HeardIs, SizeIs
<1>4. \A j \in Items \ {i} : now[j] = heard[j] /\ (j \in and <=> j \in known)
  <2>1. \A j \in Items \ {i} : j \in D <=> j \in zup.done OBVIOUS
  <2> QED BY <1>2, <2>1 DEF HeardBy, AnnouncedBy
<1> HIDE DEF s, now, and, heard, known
<1>5. /\ Showing(r, message)
      /\ \A x, y :
           /\ \A j \in Items \ {i} : x[j] = heard[j] /\ (j \in y <=> j \in known)
           /\ x[i] = answer[i].size /\ i \in y
           => RSaid(r, r.current, x, y)
      BY <1>1, ItemCompletes
<1>g. Goes(r) BY <1>0
<1> HIDE DEF r
<1>6. RSaid(r, r.current, now, and) BY <1>3, <1>4, <1>5
<1> QED BY <1>1, <1>2, <1>5, <1>6, <1>g, RShownOn DEF now, and

LEMMA RCompletedShown ==
  ASSUME RInv, RShown, NEW restated \in BOOLEAN, NEW reason \in Reasons, Completed(restated, reason)
  PROVE  RShown'
<1> DEFINE s0 == StartMessage(zr)
           s1 == [s0 EXCEPT !.settled = TRUE]
           s == Reason(s1, reason)
           r == IF restated THEN CompleteAll(s) ELSE s
           heard == HeardBy(zup)
           now == HeardBy(zup')
           known == AnnouncedBy(zup)
           and == AnnouncedBy(zup')
<1>0. Listening /\ zup' = [zup EXCEPT !.restated = restated, !.reason = reason] /\ Goes(r)
      BY DEF Completed, CompleteAll
<1>1. /\ message \in Msg /\ wire = <<>> /\ ~zup.over /\ ~zup.restated /\ zup \in ZupRec
      /\ answer \in Answers /\ Showing(s0, message) /\ RSaid(s0, s0.current, heard, known)
      /\ s0 \in Sound(message)
      BY <1>0, RShownListening
<1>2. /\ zup' \in ZupRec /\ zup'.deltas = zup.deltas /\ zup'.done = zup.done /\ zup'.added = zup.added
      /\ zup'.restated = restated /\ ~zup'.over
      BY <1>0, <1>1 DEF ZupRec
<1>g. Goes(r) BY <1>0
<1>c. restated => r = CompleteAll(s) OBVIOUS
<1>d. ~restated => r = s OBVIOUS
<1> HIDE DEF r, heard, known, now, and, s0
<1>3. s1 \in Sound(message) /\ Showing(s1, message) /\ SameSaid(s1, s0)
      BY <1>1, SoundSettled, ShowingSettled
<1> HIDE DEF s1
<1>4. s \in Sound(message) /\ Showing(s, message) /\ SameSaid(s, s1)
      BY <1>3, SoundReason, ShowingReason
<1> HIDE DEF s
<1>5. RSaid(s, s.current, heard, known)
  <2>1. RSaid(s1, s1.current, heard, known) BY <1>1, <1>3, SaidSame
  <2> QED BY <1>4, <2>1, SaidSame
<1>6. Showing(r, message) /\ RSaid(r, r.current, now, and)
  <2>1. CASE restated
    <3>1. Showing(r, message) /\ RSaid(r, r.current, AllSaid, Items)
          BY <1>1, <1>4, <1>5, <1>c, <2>1, AllComplete
    <3>2. \A i \in Items : now[i] = AllSaid[i] /\ (i \in and <=> i \in Items)
          BY <1>1, <1>2, <2>1, HeardIs, SizeIs DEF AllSaid, now, and
    <3> QED BY <3>1, <3>2, SaidAlike
  <2>2. CASE ~restated
    <3>1. r = s BY <1>d, <2>2
    <3>2. \A i \in Items : now[i] = heard[i] /\ (i \in and <=> i \in known)
          BY <1>1, <1>2, <2>2 DEF now, and, heard, known, HeardBy, AnnouncedBy
    <3> QED BY <1>4, <1>5, <3>1, <3>2, SaidAlike
  <2> QED BY <2>1, <2>2
<1> QED BY <1>1, <1>2, <1>6, <1>g, RShownOn DEF now, and

LEMMA RFailsShown ==
  ASSUME RInv, NEW s, NEW z, ROK(s, message, z), ~zup.over,
         zup' = [zup EXCEPT !.over = TRUE], Goes(EmitError(s))
  PROVE  RShown'
<1> DEFINE r == EmitError(s)
<1>1. RTypeOK /\ message \in Msg BY DEF RInv
<1>2. At(s, message, z) BY DEF ROK
<1>3. PICK y : Delivers(r.out, message, y) /\ y.phase = "failed" BY <1>2, ErrorOK
<1>4. wire' = r.out /\ message' = message /\ zup'.over BY <1>1 DEF Goes, Send, RTypeOK, ZupRec
<1> HIDE DEF r
<1>5. ASSUME NEW x, Delivers(wire', message', x) PROVE x.phase # "done"
  <2>1. x = y BY <1>1, <1>3, <1>4, <1>5, DeliversOne
  <2> QED BY <1>3, <2>1
<1> QED BY <1>4, <1>5 DEF RShown

LEMMA RConcludesShown ==
  ASSUME RInv, RShown, ROK(zr, message, message), ~zup.over, wire = <<>>,
         zup' = [zup EXCEPT !.over = TRUE], Goes(Conclude(zr, Stop(zr)))
  PROVE  RShown'
<1> DEFINE stop == Stop(zr)
           r == Conclude(zr, stop)
<1>1. /\ zr \in ZrRec /\ At(zr, message, message) /\ Decent(message) /\ ROwned(zr, message)
      /\ (zr.toolItems > 0 <=> ToolShown(message)) /\ message \in Msg /\ RTypeOK
      BY DEF ROK, RInv
<1>2. stop \in StopReasons BY <1>1 DEF Stop, ZrRec, StopReasons
<1>3. zr.stop \in {"none", "refusal", "max_tokens"} BY DEF RInv, RHeard, StopOf
<1>4. stop = "tool_use" => ToolShown(message) BY <1>1, <1>3 DEF Stop
<1>5. Filled(message) BY <1>1, DecentFilled
<1>r. Goes(r) OBVIOUS
<1> HIDE DEF stop
<1>6. Keeps(r, zr, {"started", "current", "kind", "out"})
      BY <1>1, <1>2, <1>4, <1>5, ConcludeOK
<1>7. PICK y : /\ Delivers(r.out, message, y) /\ y \in Msg
               /\ Len(y.blocks) = Len(message.blocks)
               /\ \A i \in 1..Len(message.blocks) : SameBlock(y, message, i)
      BY <1>1, <1>2, <1>4, <1>5, ConcludeOK
<1>8. /\ zr' = [r EXCEPT !.out = <<>>] /\ wire' = r.out /\ message' = message
      /\ answer' = answer /\ tagged' = tagged
      BY <1>r DEF Goes, Send
<1> HIDE DEF r
<1>9. /\ zr'.block = zr.block /\ zr'.dropped = zr.dropped /\ zr'.sent = zr.sent
      /\ zr'.toolItems = zr.toolItems
  <2>1. /\ r.block = zr.block /\ r.dropped = zr.dropped /\ r.sent = zr.sent /\ r.toolItems = zr.toolItems
        /\ DOMAIN r = DOMAIN zr
        BY <1>1, <1>6 DEF Keeps, ZrRec
  <2>2. "block" \in DOMAIN r /\ "dropped" \in DOMAIN r /\ "sent" \in DOMAIN r /\ "toolItems" \in DOMAIN r
        BY <1>1, <2>1 DEF ZrRec
  <2> QED BY <1>8, <2>1, <2>2
<1>10. /\ zup'.over /\ zup'.deltas = zup.deltas /\ zup'.done = zup.done /\ zup'.added = zup.added
       /\ zup'.restated = zup.restated
       BY <1>1 DEF RTypeOK, ZupRec
<1>11. RShows(zr, message, zr.sent) /\ RSaid(zr, zr.current, HeardBy(zup), AnnouncedBy(zup))
  <2>1. Delivers(wire, message, message) BY <1>1, DeliversNothing
  <2> QED BY <2>1 DEF RShown
<1>12. SameHad(y, message)
  <2>1. SameTexts(y, message, Len(message.blocks)) BY <1>7 DEF SameTexts, SameBlock
  <2> QED BY <1>1, <1>7, <2>1, ReceivedSame DEF SameHad
<1>13. \A i \in Items, v \in Views : Received(y, i, v[2]) = Only(zr'.sent[i][v[1]], i, v[2])
       BY <1>9, <1>11, <1>12 DEF RShows, SameHad
<1>14. ASSUME NEW i \in Items, IsCall(i), zr'.block[i] # 0
       PROVE  /\ zr'.block[i] \in 1..Len(y.blocks) /\ y.blocks[zr'.block[i]].kind = "tool"
              /\ y.blocks[zr'.block[i]].text = Received(y, i, {"args"})
  <2> DEFINE b == zr.block[i]
  <2>0. b # 0 /\ zr'.block[i] = b BY <1>9, <1>14
  <2>1. b \in 1..Len(message.blocks) /\ message.blocks[b].kind = "tool" BY <1>1, <1>14, <2>0, ROwnBlock
  <2>2. message.blocks[b].text = Received(message, i, {"args"}) BY <1>11, <1>14, <2>0 DEF RShows
  <2>3. y.blocks[b].text = message.blocks[b].text /\ y.blocks[b].kind = message.blocks[b].kind
        BY <1>7, <2>1 DEF SameBlock
  <2> QED BY <1>7, <1>12, <2>0, <2>1, <2>2, <2>3 DEF SameHad
<1>15. RSaid(zr', Len(y.blocks), HeardBy(zup'), AnnouncedBy(zup'))
  <2>1. RSaid(zr, Len(y.blocks), HeardBy(zup), AnnouncedBy(zup)) BY <1>7, <1>11 DEF RShows
  <2>2. RSaid(zr', Len(y.blocks), HeardBy(zup), AnnouncedBy(zup))
    <3>1. ASSUME NEW i \in Items
          PROVE  ItemSaid(zr', Len(y.blocks), i, HeardBy(zup)[i], i \in AnnouncedBy(zup))
      <4>1. ItemSaid(zr, Len(y.blocks), i, HeardBy(zup)[i], i \in AnnouncedBy(zup)) BY <2>1 DEF RSaid
      <4> QED BY <1>9, <4>1, ItemSaidSame
    <3> QED BY <1>9, <2>1, <3>1 DEF RSaid, SomeCall
  <2>3. HeardBy(zup') = HeardBy(zup) /\ AnnouncedBy(zup') = AnnouncedBy(zup)
        BY <1>10 DEF HeardBy, AnnouncedBy
  <2> QED BY <2>2, <2>3
<1>16. RDone(y)'
  <2>1. Items' = Items /\ \A i : IsCall(i)' <=> IsCall(i) BY <1>8 DEF Items, IsCall
  <2>2. RSaid(zr, Len(y.blocks), HeardBy(zup), AnnouncedBy(zup))' BY <1>8, <1>15, RShownFrame
  <2> QED BY <1>13, <1>14, <2>1, <2>2 DEF RDone
<1>17. ASSUME NEW x, Delivers(wire', message', x) PROVE RDone(x)'
  <2>1. x = y BY <1>1, <1>7, <1>8, <1>17, DeliversOne
  <2> QED BY <1>16, <2>1
<1> QED BY <1>10, <1>17 DEF RShown

LEMMA RShownStill ==
  ASSUME RShown, UNCHANGED <<wire, message, zr, answer, tagged, zup>> PROVE RShown'
<1>1. wire' = wire /\ message' = message /\ zr' = zr /\ answer' = answer /\ tagged' = tagged /\ zup' = zup
      OBVIOUS
<1>2. Items' = Items /\ \A i : IsCall(i)' <=> IsCall(i) BY <1>1 DEF Items, IsCall
<1>3. \A z : RDone(z) => RDone(z)'
  <2> SUFFICES ASSUME NEW z, RDone(z) PROVE RDone(z)' OBVIOUS
  <2>1. RSaid(zr', Len(z.blocks), HeardBy(zup'), AnnouncedBy(zup')) BY <1>1 DEF RDone
  <2>2. RSaid(zr, Len(z.blocks), HeardBy(zup), AnnouncedBy(zup))' BY <1>1, <2>1, RShownFrame
  <2> QED BY <1>1, <1>2, <2>2 DEF RDone
<1>4. \A z : RShows(zr, z, zr.sent) => RShows(zr, z, zr.sent)' BY <1>1, RShownFrame
<1>5. RSaid(zr, zr.current, HeardBy(zup), AnnouncedBy(zup))
        => RSaid(zr, zr.current, HeardBy(zup), AnnouncedBy(zup))'
      BY <1>1, RShownFrame
<1> QED BY <1>1, <1>3, <1>4, <1>5 DEF RShown

LEMMA RTakeShown ==
  ASSUME RInv, RShown, Take, UNCHANGED <<zr, answer, tagged, zup>> PROVE RShown'
<1>1. PICK z : Delivers(wire, message, z) BY DEF RInv
<1>2. message \in Msg BY DEF RInv
<1>3. message' \in Msg /\ Delivers(wire', message', z) BY <1>1, <1>2, TakePromised
<1>4. \A x : Delivers(wire', message', x) => x = z BY <1>3, DeliversOne
<1>5. zr' = zr /\ answer' = answer /\ tagged' = tagged /\ zup' = zup OBVIOUS
<1>6. Items' = Items /\ \A i : IsCall(i)' <=> IsCall(i) BY <1>5 DEF Items, IsCall
<1>7. RDone(z) => RDone(z)'
  <2> SUFFICES ASSUME RDone(z) PROVE RDone(z)' OBVIOUS
  <2>1. RSaid(zr', Len(z.blocks), HeardBy(zup'), AnnouncedBy(zup')) BY <1>5 DEF RDone
  <2>2. RSaid(zr, Len(z.blocks), HeardBy(zup), AnnouncedBy(zup))' BY <1>5, <2>1, RShownFrame
  <2> QED BY <1>5, <1>6, <2>2 DEF RDone
<1>8. RShows(zr, z, zr.sent) => RShows(zr, z, zr.sent)' BY <1>5, RShownFrame
<1>9. RSaid(zr, zr.current, HeardBy(zup), AnnouncedBy(zup))
        => RSaid(zr, zr.current, HeardBy(zup), AnnouncedBy(zup))'
      BY <1>5, RShownFrame
<1> QED BY <1>1, <1>4, <1>5, <1>7, <1>8, <1>9 DEF RShown

\* A refusal without text shows nothing.
LEMMA REmptyRefusalShown == ASSUME RInv, RShown, NEW i \in Items, EmptyRefusal(i) PROVE RShown'
<1> DEFINE s == StartMessage(zr)
           r == [s EXCEPT !.stop = "refusal"]
           F == zup.refusing \cup {i}
<1>0. Listening /\ zup' = [zup EXCEPT !.refusing = F] /\ Goes(r) BY DEF EmptyRefusal
<1>1. /\ message \in Msg /\ wire = <<>> /\ ~zup.over /\ zup \in ZupRec /\ Showing(s, message)
      /\ RSaid(s, s.current, HeardBy(zup), AnnouncedBy(zup))
      BY <1>0, RShownListening
<1>2. /\ zup'.deltas = zup.deltas /\ zup'.added = zup.added /\ zup'.done = zup.done
      /\ zup'.restated = zup.restated /\ ~zup'.over
  <2> HIDE DEF F
  <2> QED BY <1>0, <1>1 DEF ZupRec
<1>3. HeardBy(zup') = HeardBy(zup) /\ AnnouncedBy(zup') = AnnouncedBy(zup)
      BY <1>2 DEF HeardBy, AnnouncedBy
<1> HIDE DEF s
<1>4. Showing(r, message) /\ SameSaid(r, s)
  <2>1. "refusal" \in StopReasons BY DEF StopReasons
  <2> QED BY <1>1, <2>1, ShowingStop
<1> HIDE DEF r
<1>5. RSaid(r, r.current, HeardBy(zup), AnnouncedBy(zup)) BY <1>1, <1>4, SaidSame
<1>6. RSaid(r, r.current, HeardBy(zup'), AnnouncedBy(zup')) BY <1>3, <1>5
<1> QED BY <1>0, <1>1, <1>2, <1>4, <1>6, RShownOn

LEMMA RShownStep == ASSUME RInv, RShown, ResponsesNext PROVE RShown'
<1>1. CASE Take /\ UNCHANGED <<zr, answer, tagged, zup>> BY <1>1, RTakeShown
<1>2. ASSUME NEW i \in Items,
             ItemAdded(i) \/ ItemDone(i) \/ EmptyRefusal(i) \/ \E p \in ItemParts : ItemDelta(i, p)
      PROVE  RShown'
      BY <1>2, RItemAddedShown, RItemDoneShown, REmptyRefusalShown, RItemDeltaShown
<1>3. ASSUME NEW restated \in BOOLEAN, NEW reason \in Reasons, Completed(restated, reason)
      PROVE  RShown'
      BY <1>3, RCompletedShown
<1>4. CASE ResponseFailed
  <2> DEFINE a == StartMessage(zr)
             s == [a EXCEPT !.settled = TRUE]
  <2>1. Listening /\ zup' = [zup EXCEPT !.over = TRUE] /\ Goes(EmitError(s))
        BY <1>4 DEF ResponseFailed
  <2>2. a \in Sound(message) /\ ~zup.over BY <2>1, RListens
  <2> HIDE DEF a
  <2>3. s \in Sound(message) BY <2>2, SoundSettled
  <2> HIDE DEF s
  <2>4. PICK z : ROK(s, message, z) BY <2>3 DEF Sound
  <2> QED BY <2>1, <2>2, <2>4, RFailsShown
<1>5. ASSUME NEW how \in {"[DONE]", "eof", "error"}, StreamEnds(how) PROVE RShown'
  <2>1. wire = <<>> /\ ~zup.over /\ zup' = [zup EXCEPT !.over = TRUE] BY <1>5 DEF StreamEnds
  <2>2. ROK(zr, message, message)
    <3>1. PICK z : Delivers(wire, message, z) /\ ROK(zr, z, z) BY <2>1 DEF RInv
    <3>2. z = message BY <2>1, <3>1, NothingLeft
    <3> QED BY <3>1, <3>2
  <2>3. CASE how = "error" \/ (how = "eof" /\ ~zr.settled)
    <3>1. Goes(EmitError(zr)) BY <1>5, <2>3 DEF StreamEnds
    <3> QED BY <2>1, <2>2, <3>1, RFailsShown
  <2>4. CASE ~(how = "error" \/ (how = "eof" /\ ~zr.settled))
    <3>1. Goes(Conclude(zr, Stop(zr))) BY <1>5, <2>4 DEF StreamEnds
    <3> QED BY <2>1, <2>2, <3>1, RConcludesShown
  <2> QED BY <2>3, <2>4
<1> QED BY <1>1, <1>2, <1>3, <1>4, <1>5 DEF ResponsesNext

LEMMA RShownInitially == ASSUME ResponsesInit PROVE RShown
<1>1. RInv BY RInitially
<1>2. /\ wire = <<>> /\ message = NoMessage
      /\ zr.current = 0 /\ zr.block = [i \in Items |-> 0] /\ zr.dropped = {} /\ zr.toolItems = 0
      /\ zr.sent = [i \in Items |-> [p \in ItemParts |-> <<>>]]
      /\ zup.deltas = [i \in Items |-> [p \in ItemParts |-> 0]] /\ zup.added = {} /\ zup.done = {}
      /\ ~zup.restated /\ ~zup.over
      BY DEF ResponsesInit, WireInit, NewResponsesStream, NothingSent, Items
<1>3. message.blocks = <<>> /\ Len(message.blocks) = 0 /\ message \in Msg BY <1>1, <1>2 DEF NoMessage, RInv
<1>4. \A i, P : Received(message, i, P) = <<>> BY <1>3, NothingReceived
<1>5. \A i, P : Only(<<>>, i, P) = <<>>
  <2> SUFFICES ASSUME NEW i, NEW P PROVE Only(<<>>, i, P) = <<>> OBVIOUS
  <2>1. <<>> \in Texts /\ \A n \in 1..Len(<<>>) : ~Mine(<<>>[n], i, P) BY DEF Texts
  <2> QED BY <2>1, OnlyNone
<1>6. RShows(zr, message, zr.sent)
  <2>1. \A i \in Items, v \in Views : zr.sent[i][v[1]] = <<>> BY <1>2, ViewsAre
  <2> QED BY <1>2, <1>3, <1>4, <1>5, <2>1 DEF RShows
<1>7. RSaid(zr, zr.current, HeardBy(zup), AnnouncedBy(zup))
  <2>1. answer \in Answers /\ zup \in ZupRec BY <1>1 DEF RInv, RTypeOK
  <2>2. ASSUME NEW i \in Items
        PROVE  ItemSaid(zr, zr.current, i, HeardBy(zup)[i], i \in AnnouncedBy(zup))
    <3> DEFINE n == HeardBy(zup)[i]
    <3>1. n = [p \in ItemParts |-> 0] /\ i \notin AnnouncedBy(zup) BY <1>2, <2>1, HeardIs
    <3>2. \A p \in ItemParts : n[p] \in Nat /\ n[p] = 0 /\ n[p] <= answer[i].size[p]
      <4>1. \A p \in ItemParts : answer[i].size[p] \in Nat BY <2>1, AnswerFacts
      <4> QED BY <3>1, <4>1
    <3>3. /\ "text" \in ItemParts /\ "refusal" \in ItemParts /\ "thinking" \in ItemParts
          /\ "args" \in ItemParts
          BY DEF ItemParts
    <3> HIDE DEF n
    <3>4. \A p : Pieces(i, p, 0) = <<>> BY DEF Pieces
    <3>5. \A p \in ItemParts : zr.sent[i][p] = <<>> BY <1>2
    <3>6. Joined(i, 0) = <<>> BY DEF Joined
    <3>7. ThinkingSaid(zr.sent[i]["thinking"], i, n["thinking"])
          BY <3>2, <3>3, <3>4, <3>5, <3>6 DEF ThinkingSaid
    <3>8. CallSaid(zr, zr.current, i, n, i \in AnnouncedBy(zup))
      <4>1. zr.block[i] = 0 /\ i \notin zr.dropped BY <1>2
      <4>2. 0 \in Nat /\ zr.sent[i]["args"] = Pieces(i, "args", 0) /\ 0 <= n["args"]
            BY <3>2, <3>3, <3>4, <3>5
      <4> QED BY <3>1, <4>1, <4>2 DEF CallSaid
    <3>9. \A p \in {"text", "refusal"} : zr.sent[i][p] = Pieces(i, p, n[p]) BY <3>2, <3>3, <3>4, <3>5
    <3> QED BY <3>2, <3>7, <3>8, <3>9 DEF ItemSaid, n
  <2> QED BY <1>2, <2>2 DEF RSaid
<1>8. \A z : Delivers(wire, message, z) => z = message BY <1>2, NothingLeft
<1> QED BY <1>2, <1>6, <1>7, <1>8 DEF RShown

LEMMA SaidIs ==
  ASSUME RInv, NEW i \in Items, NEW p \in ItemParts
  PROVE  /\ Said(i, p) = Pieces(i, p, HeardBy(zup)[i][p]) /\ HeardBy(zup)[i][p] \in Nat
         /\ Said(i, p) \in Texts /\ Len(Said(i, p)) = HeardBy(zup)[i][p]
         /\ \A n \in 1..Len(Said(i, p)) : Mine(Said(i, p)[n], i, {p})
<1> DEFINE n == HeardBy(zup)[i][p]
<1>1. answer \in Answers /\ zup \in ZupRec BY DEF RInv, RTypeOK
<1>2. i \in Nat /\ answer[i].size[p] \in Nat /\ zup.deltas[i][p] \in Nat
      BY <1>1, AnswerFacts DEF ZupRec
<1>3. n = IF i \in zup.done \/ zup.restated THEN answer[i].size[p] ELSE zup.deltas[i][p]
      BY DEF HeardBy
<1>4. Said(i, p) = Pieces(i, p, n) BY <1>3 DEF Said, Whole
<1>5. n \in Nat BY <1>2, <1>3
<1> HIDE DEF n
<1>6. PiecesOf(Pieces(i, p, n), i, {p}) /\ Len(Pieces(i, p, n)) = n BY <1>2, <1>5, PiecesAre
<1> QED BY <1>4, <1>5, <1>6 DEF n, PiecesOf, Mine

LEMMA RDoneIs ==
  ASSUME RInv, RShown, Concluded
  PROVE  RDone(message) /\ message \in Msg /\ REnded(message)
<1>1. zup.over /\ wire = <<>> /\ message.phase = "done" BY DEF Concluded
<1>2. message \in Msg BY DEF RInv
<1>3. Delivers(wire, message, message) BY <1>1, <1>2, DeliversNothing
<1>4. RDone(message) BY <1>1, <1>3 DEF RShown
<1>5. PICK z : Delivers(wire, message, z) /\ REnded(z) BY <1>1 DEF RInv
<1>6. z = message BY <1>1, <1>5, NothingLeft
<1> QED BY <1>2, <1>4, <1>5, <1>6

\* What upstream said, at the end.
LEMMA ResponsesSayIt == ASSUME RInv, RShown PROVE ResponsesExact
<1> SUFFICES ASSUME Concluded, NEW i \in Items
             PROVE  /\ \A p \in {"thinking", "text", "refusal"} : Received(message, i, {p}) = Said(i, p)
                    /\ tagged => Received(message, i, {"thinking", "gap"}) = Joined(i, Len(Said(i, "thinking")))
    BY DEF ResponsesExact
<1> DEFINE n == HeardBy(zup)[i]
<1>1. RDone(message) BY RDoneIs
<1>2. ItemSaid(zr, Len(message.blocks), i, n, i \in AnnouncedBy(zup)) BY <1>1 DEF RDone, RSaid
<1>3. i \in Nat /\ answer \in Answers
  <2>1. answer \in Answers BY DEF RInv, RTypeOK
  <2> QED BY <2>1, AnswerFacts
<1> HIDE DEF n
<1>4. "thinking" \in ItemParts /\ "text" \in ItemParts /\ "refusal" \in ItemParts BY DEF ItemParts
<1>5. ASSUME NEW p \in {"text", "refusal"} PROVE Received(message, i, {p}) = Said(i, p)
  <2>1. p \in ItemParts BY <1>4
  <2>2. <<p, {p}>> \in Views BY DEF Views
  <2>3. Received(message, i, {p}) = Only(zr.sent[i][p], i, {p}) BY <1>1, <2>2 DEF RDone
  <2>4. zr.sent[i][p] = Pieces(i, p, n[p]) BY <1>2 DEF ItemSaid
  <2>5. zr.sent[i][p] = Said(i, p) BY <2>1, <2>4, SaidIs DEF n
  <2>6. Said(i, p) \in Texts /\ \A j \in 1..Len(Said(i, p)) : Mine(Said(i, p)[j], i, {p})
        BY <2>1, SaidIs
  <2>7. Only(Said(i, p), i, {p}) = Said(i, p) BY <2>6, OnlyAll
  <2> QED BY <2>3, <2>5, <2>7
<1> DEFINE k == n["thinking"]
           u == zr.sent[i]["thinking"]
           said == Said(i, "thinking")
<1>6. said = Pieces(i, "thinking", k) /\ k \in Nat /\ said \in Texts /\ Len(said) = k
      /\ \A j \in 1..Len(said) : Mine(said[j], i, {"thinking"})
      BY <1>4, SaidIs DEF n
<1>7. ThinkingSaid(u, i, k) BY <1>2 DEF ItemSaid
<1>8. /\ Received(message, i, {"thinking"}) = Only(u, i, {"thinking"})
      /\ Received(message, i, {"thinking", "gap"}) = Only(u, i, {"thinking", "gap"})
  <2>1. <<"thinking", {"thinking"}>> \in Views /\ <<"thinking", {"thinking", "gap"}>> \in Views BY DEF Views
  <2> QED BY <1>1, <2>1 DEF RDone
<1> HIDE DEF k, u, said
<1>9. Only(Joined(i, k), i, {"thinking"}) = said BY <1>3, <1>6, JoinedThinks
<1>10. Only(said, i, {"thinking"}) = said BY <1>6, OnlyAll
<1>11. Only(Joined(i, k), i, {"thinking", "gap"}) = Joined(i, k)
  <2>1. PiecesOf(Joined(i, k), i, {"thinking", "gap"}) BY <1>3, <1>6, JoinedIs
  <2>2. Joined(i, k) \in Texts
        /\ \A j \in 1..Len(Joined(i, k)) : Mine(Joined(i, k)[j], i, {"thinking", "gap"})
        BY <2>1 DEF PiecesOf, Mine
  <2> QED BY <2>2, OnlyAll
<1>12. Only(u, i, {"thinking"}) = said
  <2>1. u = Joined(i, k) \/ u = Pieces(i, "thinking", k) BY <1>7 DEF ThinkingSaid
  <2> QED BY <1>6, <1>9, <1>10, <2>1
<1>13. tagged => Only(u, i, {"thinking", "gap"}) = Joined(i, k) BY <1>7, <1>11 DEF ThinkingSaid
<1> QED BY <1>5, <1>6, <1>8, <1>12, <1>13 DEF said

\* What a call has, at the end.
LEMMA CallHas ==
  ASSUME RInv, RShown, Concluded, NEW i \in Items, IsCall(i)
  PROVE  LET b == zr.block[i]
             got == Received(message, i, {"args"})
         IN /\ b # 0 <=> ~answer[i].injected /\ i \in AnnouncedBy(zup)
            /\ b = 0 => got = <<>>
            /\ b # 0 => /\ b \in 1..Len(message.blocks) /\ message.blocks[b].kind = "tool"
                        /\ message.blocks[b].text = got
            /\ \E k \in Nat : got = Pieces(i, "args", k) /\ k <= HeardBy(zup)[i]["args"]
            /\ b = Len(message.blocks) /\ b # 0 => got = Said(i, "args")
<1> DEFINE b == zr.block[i]
           got == Received(message, i, {"args"})
           n == HeardBy(zup)[i]["args"]
           cur == Len(message.blocks)
           sent == zr.sent[i]["args"]
<1>1. RDone(message) BY RDoneIs
<1>2. ItemSaid(zr, cur, i, HeardBy(zup)[i], i \in AnnouncedBy(zup)) BY <1>1 DEF RDone, RSaid
<1>3. CallSaid(zr, cur, i, HeardBy(zup)[i], i \in AnnouncedBy(zup)) BY <1>2 DEF ItemSaid
<1>4. b # 0 <=> ~answer[i].injected /\ i \in AnnouncedBy(zup) BY <1>3 DEF CallSaid
<1>5. PICK k \in Nat : /\ sent = Pieces(i, "args", k) /\ k <= n
                       /\ b = 0 => k = 0
                       /\ b # 0 /\ b = cur => k = n
      BY <1>3 DEF CallSaid
<1>6. i \in Nat /\ "args" \in ItemParts
  <2>1. answer \in Answers BY DEF RInv, RTypeOK
  <2> QED BY <2>1, AnswerFacts DEF ItemParts
<1>7. got = Only(sent, i, {"args"})
  <2>1. <<"args", {"args"}>> \in Views BY DEF Views
  <2> QED BY <1>1, <2>1 DEF RDone
<1>8. b # 0 => b \in 1..cur /\ message.blocks[b].kind = "tool" /\ message.blocks[b].text = got
      BY <1>1 DEF RDone
<1>9. Said(i, "args") = Pieces(i, "args", n) BY <1>6, SaidIs
<1> HIDE DEF b, got, n, cur, sent
<1>10. got = Pieces(i, "args", k)
  <2> DEFINE q == Pieces(i, "args", k)
  <2>1. PiecesOf(q, i, {"args"}) BY <1>6, PiecesAre
  <2> HIDE DEF q
  <2>2. q \in Texts /\ \A j \in 1..Len(q) : Mine(q[j], i, {"args"}) BY <2>1 DEF PiecesOf, Mine
  <2>3. Only(q, i, {"args"}) = q BY <2>2, OnlyAll
  <2> QED BY <1>5, <1>7, <2>3 DEF q
<1>11. b = 0 => got = <<>>
  <2>1. Pieces(i, "args", 0) = <<>> BY DEF Pieces
  <2> QED BY <1>5, <1>10, <2>1
<1>12. b = cur /\ b # 0 => got = Said(i, "args") BY <1>5, <1>9, <1>10
<1>13. \E j \in Nat : got = Pieces(i, "args", j) /\ j <= n BY <1>5, <1>10
<1> QED BY <1>4, <1>8, <1>11, <1>12, <1>13 DEF b, got, n, cur

LEMMA ResponsesCallsAreWhole == ASSUME RInv, RShown PROVE ResponsesCallsWhole
<1> SUFFICES ASSUME Concluded, NEW i \in Items, answer[i].type = "function_call"
             PROVE  LET b == zr.block[i]
                        got == Received(message, i, {"args"})
                    IN /\ (b # 0) = (/\ ~answer[i].injected
                                     /\ i \in zup.added \cup zup.done \/ zup.restated)
                       /\ b = 0 => got = <<>>
                       /\ b # 0 => /\ message.blocks[b].kind = "tool" /\ message.blocks[b].text = got
                                   /\ got = Said(i, "args") \/ b < Len(message.blocks)
    BY DEF ResponsesCallsWhole
<1> DEFINE b == zr.block[i]
           got == Received(message, i, {"args"})
           ends == Len(message.blocks)
<1>1. IsCall(i) BY DEF IsCall
<1>2. /\ b # 0 <=> ~answer[i].injected /\ i \in AnnouncedBy(zup)
      /\ b = 0 => got = <<>>
      /\ b # 0 => /\ b \in 1..ends /\ message.blocks[b].kind = "tool" /\ message.blocks[b].text = got
      /\ b = ends /\ b # 0 => got = Said(i, "args")
      BY <1>1, CallHas
<1>3. i \in AnnouncedBy(zup) <=> i \in zup.added \cup zup.done \/ zup.restated BY DEF AnnouncedBy
<1>4. ends \in Nat
  <2>1. message \in Msg BY RDoneIs
  <2> QED BY <2>1, MsgFields
<1> HIDE DEF b, got, ends
<1>5. (b # 0) = (~answer[i].injected /\ (i \in zup.added \cup zup.done \/ zup.restated)) BY <1>2, <1>3
<1>6. b # 0 => got = Said(i, "args") \/ b < ends
  <2>1. SUFFICES ASSUME b # 0, b # ends PROVE b < ends BY <1>2
  <2>2. b \in 1..ends BY <1>2, <2>1
  <2> QED BY <1>4, <2>1, <2>2
<1> QED BY <1>2, <1>5, <1>6 DEF b, got, ends

-----------------------------------------------------------------------------
(* What Cloud Code's translator has shown *)

\* The visible parts of a list, place by place.
Leaves(g, list) ==
  /\ g[0] = <<>>
  /\ \A n \in 1..Len(list) :
       g[n] = IF NotEmpty(list[n]) THEN Append(g[n - 1], list[n]) ELSE g[n - 1]

LEMMA LeavesExists ==
  ASSUME NEW list \in Seq(CloudPieces)
  PROVE  \E g \in [0..Len(list) -> Seq(CloudPieces)] : Leaves(g, list)
<1> DEFINE k == Len(list)
           S == Seq(CloudPieces)
           W == [x \in S \X (1..k) |-> IF NotEmpty(list[x[2]]) THEN Append(x[1], list[x[2]]) ELSE x[1]]
<1>1. k \in Nat /\ \A n \in 1..k : list[n] \in CloudPieces OBVIOUS
<1>2. \A t \in S, p \in CloudPieces : Append(t, p) \in S OBVIOUS
<1> HIDE DEF S
<1>3. \A t \in S, n \in 1..k :
        /\ W[<<t, n>>] = IF NotEmpty(list[n]) THEN Append(t, list[n]) ELSE t
        /\ W[<<t, n>>] \in S
      BY <1>1, <1>2
<1>4. W \in [S \X (1..k) -> S] BY <1>3
<1>5. <<>> \in S BY DEF S
<1> HIDE DEF k, W
<1>6. PICK g \in [0..k -> S] : Walks(g, W, <<>>, k) BY <1>1, <1>4, <1>5, WalkExists
<1>7. \A n \in 1..k : g[n] = IF NotEmpty(list[n]) THEN Append(g[n - 1], list[n]) ELSE g[n - 1]
  <2> TAKE n \in 1..k
  <2>1. n - 1 \in 0..k BY <1>1
  <2>2. g[n - 1] \in S BY <2>1
  <2> QED BY <1>3, <1>6, <2>2 DEF Walks
<1>8. g[0] = <<>> BY <1>6 DEF Walks
<1> QED BY <1>7, <1>8 DEF Leaves, k, S

LEMMA VisibleIs ==
  ASSUME NEW list \in Seq(CloudPieces), NEW g, Leaves(g, list)
  PROVE  Visible(list) = g[Len(list)]
<1> DEFINE k == Len(list)
           Rec(h) == h = [n \in 0..Len(list) |->
                       IF n = 0 THEN <<>>
                       ELSE IF NotEmpty(list[n]) THEN Append(h[n - 1], list[n]) ELSE h[n - 1]]
           it == CHOOSE h : Rec(h)
           f == [n \in 0..k |-> g[n]]
<1>1. k \in Nat OBVIOUS
<1>2. Rec(f)
  <2>1. \A n \in 1..k : n - 1 \in 0..k BY <1>1
  <2>2. ASSUME NEW n \in 0..k
        PROVE  f[n] = IF n = 0 THEN <<>>
                      ELSE IF NotEmpty(list[n]) THEN Append(f[n - 1], list[n]) ELSE f[n - 1]
    <3>1. CASE n = 0 BY <3>1 DEF Leaves
    <3>2. CASE n # 0
      <4>1. n \in 1..k BY <1>1, <3>2
      <4>2. f[n - 1] = g[n - 1] /\ f[n] = g[n] BY <2>1, <4>1
      <4>3. g[n] = IF NotEmpty(list[n]) THEN Append(g[n - 1], list[n]) ELSE g[n - 1]
            BY <4>1 DEF Leaves
      <4> HIDE DEF f
      <4> QED BY <3>2, <4>2, <4>3
    <3> QED BY <3>1, <3>2
  <2> QED BY <2>2
<1>3. Rec(it) BY <1>2
<1>4. Visible(list) = it[k] BY DEF Visible
<1> HIDE DEF it, f
<1>5. it[0] = g[0] BY <1>1, <1>3 DEF Leaves
<1>6. ASSUME NEW n \in 1..k, it[n - 1] = g[n - 1] PROVE it[n] = g[n]
  <2>1. n \in 0..k /\ n # 0 BY <1>1
  <2>2. it[n] = IF NotEmpty(list[n]) THEN Append(it[n - 1], list[n]) ELSE it[n - 1]
        BY <1>3, <2>1
  <2>3. g[n] = IF NotEmpty(list[n]) THEN Append(g[n - 1], list[n]) ELSE g[n - 1]
        BY DEF Leaves
  <2> QED BY <1>6, <2>2, <2>3
<1> HIDE DEF k
<1>7. it[k] = g[k] BY <1>1, <1>5, <1>6, Together
<1> QED BY <1>4, <1>7 DEF k

-----------------------------------------------------------------------------
\* Parts that show something, numbered up to N.
Numbered(P, N) ==
  /\ P \in Seq(CloudPieces)
  /\ \A i \in 1..Len(P) : /\ P[i].n \in 1..N /\ NotEmpty(P[i])
                          /\ \A j \in 1..(i - 1) : P[j].n < P[i].n

\* A part begins a run of parts of one block.
Begins(P, i) ==
  \/ i = 1 \/ P[i].kind \in {"call", "image"}
  \/ BlockOf[P[i].kind] # BlockOf[P[i - 1].kind]

\* rs are the n runs of P.
ARun(rs, b, P) ==
  /\ rs[b].from \in 1..Len(P) /\ rs[b].to \in rs[b].from..Len(P) /\ Begins(P, rs[b].from)
  /\ \A j \in (rs[b].from + 1)..rs[b].to : ~Begins(P, j)
  /\ \A j \in rs[b].from..rs[b].to : BlockOf[P[j].kind] = BlockOf[P[rs[b].from].kind]
  /\ \A a \in 1..(b - 1) : rs[a].to < rs[b].from
RunsOf(rs, n, P) ==
  /\ n \in Nat /\ rs \in [1..n -> [from : Nat, to : Nat]]
  /\ \A b \in 1..n : ARun(rs, b, P)
  /\ \A i \in 1..Len(P) : \E b \in 1..n : i \in rs[b].from..rs[b].to
  /\ n # 0 => rs[n].to = Len(P)

\* One more part that begins a run.
RunMore(rs, n, P) ==
  [b \in 1..(n + 1) |-> IF b = n + 1 THEN [from |-> Len(P) + 1, to |-> Len(P) + 1] ELSE rs[b]]

LEMMA OnePartMore ==
  ASSUME NEW P \in Seq(CloudPieces), NEW p \in CloudPieces
  PROVE  /\ Append(P, p) \in Seq(CloudPieces) /\ Len(Append(P, p)) = Len(P) + 1 /\ Len(P) \in Nat
         /\ Append(P, p)[Len(P) + 1] = p
         /\ \A i \in 1..Len(P) : Append(P, p)[i] = P[i]
         /\ \A i \in 1..Len(P) : Begins(Append(P, p), i) <=> Begins(P, i)
<1> DEFINE q == Append(P, p)
           k == Len(P)
<1>1. q \in Seq(CloudPieces) /\ Len(q) = k + 1 /\ k \in Nat /\ q[k + 1] = p
      /\ \A i \in 1..k : q[i] = P[i]
      OBVIOUS
<1> HIDE DEF q, k
<1>2. ASSUME NEW i \in 1..k PROVE Begins(q, i) <=> Begins(P, i)
  <2>1. CASE i = 1 BY <2>1 DEF Begins
  <2>2. CASE i # 1
    <3>1. i - 1 \in 1..k BY <1>1, <2>2
    <3>2. q[i] = P[i] /\ q[i - 1] = P[i - 1] BY <1>1, <3>1
    <3> QED BY <3>2 DEF Begins
  <2> QED BY <2>1, <2>2
<1> QED BY <1>1, <1>2 DEF q, k

LEMMA ARunKept ==
  ASSUME NEW P \in Seq(CloudPieces), NEW p \in CloudPieces, NEW rs, NEW ss, NEW b \in Nat, ARun(rs, b, P),
         \A a \in 1..b : ss[a] = rs[a], b # 0
  PROVE  ARun(ss, b, Append(P, p))
<1> DEFINE q == Append(P, p)
           k == Len(P)
<1>1. /\ Len(q) = k + 1 /\ k \in Nat /\ \A i \in 1..k : q[i] = P[i]
      /\ \A i \in 1..k : Begins(q, i) <=> Begins(P, i)
      BY OnePartMore
<1>2. ss[b] = rs[b] /\ \A a \in 1..(b - 1) : ss[a] = rs[a] OBVIOUS
<1> DEFINE x == rs[b].from
           w == rs[b].to
<1>3. /\ x \in 1..k /\ w \in x..k /\ Begins(P, x)
      /\ \A j \in (x + 1)..w : ~Begins(P, j)
      /\ \A j \in x..w : BlockOf[P[j].kind] = BlockOf[P[x].kind]
      /\ \A a \in 1..(b - 1) : rs[a].to < x
      BY DEF ARun
<1> HIDE DEF q, k, x, w
<1>4. x..w \subseteq 1..k /\ (x + 1)..w \subseteq 1..k BY <1>1, <1>3
<1>5. x \in 1..Len(q) /\ w \in x..Len(q) BY <1>1, <1>3
<1>6. Begins(q, x) /\ \A j \in (x + 1)..w : ~Begins(q, j) BY <1>1, <1>3, <1>4
<1>7. \A j \in x..w : BlockOf[q[j].kind] = BlockOf[q[x].kind] BY <1>1, <1>3, <1>4
<1>8. \A a \in 1..(b - 1) : ss[a].to < x BY <1>2, <1>3
<1> QED BY <1>2, <1>5, <1>6, <1>7, <1>8 DEF ARun, x, w, q

LEMMA RunsMore ==
  ASSUME NEW P \in Seq(CloudPieces), NEW p \in CloudPieces, NEW rs, NEW n, RunsOf(rs, n, P),
         Begins(Append(P, p), Len(P) + 1)
  PROVE  RunsOf(RunMore(rs, n, P), n + 1, Append(P, p))
<1> DEFINE q == Append(P, p)
           k == Len(P)
           ss == RunMore(rs, n, P)
<1>1. /\ Len(q) = k + 1 /\ k \in Nat
      BY OnePartMore
<1>2. n \in Nat /\ ss \in [1..(n + 1) -> [from : Nat, to : Nat]]
      BY <1>1 DEF RunsOf, RunMore
<1>3. ss[n + 1].from = k + 1 /\ ss[n + 1].to = k + 1 /\ \A b \in 1..n : ss[b] = rs[b]
  <2>1. n + 1 \in 1..(n + 1) /\ \A b \in 1..n : b \in 1..(n + 1) /\ b # n + 1 BY <1>2
  <2> QED BY <2>1 DEF RunMore
<1>b. Begins(q, k + 1) OBVIOUS
<1> HIDE DEF ss
<1>4. ASSUME NEW b \in 1..n PROVE ARun(ss, b, q)
  <2>1. b \in Nat /\ b # 0 /\ \A a \in 1..b : a \in 1..n BY <1>2
  <2>2. ARun(rs, b, P) BY DEF RunsOf
  <2>3. \A a \in 1..b : ss[a] = rs[a] BY <1>3, <2>1
  <2> QED BY <2>1, <2>2, <2>3, ARunKept
<1>5. ARun(ss, n + 1, q)
  <2>1. ASSUME NEW a \in 1..n PROVE ss[a].to < k + 1
    <3>1. ARun(rs, a, P) BY DEF RunsOf
    <3>2. rs[a].from \in 1..k /\ rs[a].to \in rs[a].from..k BY <3>1 DEF ARun
    <3> HIDE DEF k
    <3>3. rs[a].to < k + 1 BY <1>1, <3>2
    <3> QED BY <1>3, <3>3
  <2>2. (n + 1) - 1 = n BY <1>2
  <2> HIDE DEF q, k
  <2>3. k + 1 \in 1..(k + 1) /\ k + 1 \in (k + 1)..(k + 1) /\ (k + 1 + 1)..(k + 1) = {}
        /\ (k + 1)..(k + 1) = {k + 1}
        BY <1>1
  <2> QED BY <1>1, <1>3, <1>b, <2>1, <2>2, <2>3 DEF ARun
<1>6. \A b \in 1..(n + 1) : b \in 1..n \/ b = n + 1 BY <1>2
<1>7. ASSUME NEW i \in 1..(k + 1) PROVE \E b \in 1..(n + 1) : i \in ss[b].from..ss[b].to
  <2>1. CASE i = k + 1
    <3>1. n + 1 \in 1..(n + 1) BY <1>2
    <3> HIDE DEF k
    <3>2. k + 1 \in (k + 1)..(k + 1) BY <1>1
    <3> QED BY <1>3, <2>1, <3>1, <3>2
  <2>2. CASE i # k + 1
    <3>1. i \in 1..k BY <1>1, <2>2
    <3>2. PICK b \in 1..n : i \in rs[b].from..rs[b].to BY <3>1 DEF RunsOf
    <3>3. b \in 1..(n + 1) BY <1>2
    <3> QED BY <1>3, <3>2, <3>3
  <2> QED BY <2>1, <2>2
<1> QED BY <1>1, <1>2, <1>3, <1>4, <1>5, <1>6, <1>7 DEF RunsOf, q, k, ss

\* One more part of the last run.
RunLonger(rs, n, P) == [rs EXCEPT ![n].to = Len(P) + 1]

LEMMA RunsLonger ==
  ASSUME NEW P \in Seq(CloudPieces), NEW p \in CloudPieces, NEW rs, NEW n, RunsOf(rs, n, P), n # 0,
         ~Begins(Append(P, p), Len(P) + 1)
  PROVE  RunsOf(RunLonger(rs, n, P), n, Append(P, p))
<1> DEFINE q == Append(P, p)
           k == Len(P)
           ss == RunLonger(rs, n, P)
<1>1. /\ Len(q) = k + 1 /\ k \in Nat /\ q[k + 1] = p /\ \A i \in 1..k : q[i] = P[i]
      /\ \A i \in 1..k : Begins(q, i) <=> Begins(P, i)
      BY OnePartMore
<1>2. n \in Nat /\ n \in 1..n /\ n - 1 \in Nat /\ ss \in [1..n -> [from : Nat, to : Nat]]
  <2>1. n \in Nat /\ rs \in [1..n -> [from : Nat, to : Nat]] BY DEF RunsOf
  <2>2. n \in 1..n /\ n - 1 \in Nat BY <2>1
  <2>3. k + 1 \in Nat BY <1>1
  <2> HIDE DEF k
  <2>4. [rs[n] EXCEPT !.to = k + 1] \in [from : Nat, to : Nat] BY <2>1, <2>2, <2>3
  <2>5. ss = [rs EXCEPT ![n] = [rs[n] EXCEPT !.to = k + 1]] BY DEF RunLonger, k
  <2> QED BY <2>1, <2>2, <2>4, <2>5
<1>3. /\ ss[n].from = rs[n].from /\ ss[n].to = k + 1
      /\ \A b \in 1..(n - 1) : b \in 1..n /\ b # n /\ ss[b] = rs[b]
  <2>1. \A b \in 1..(n - 1) : b \in 1..n /\ b # n BY <1>2
  <2>2. rs \in [1..n -> [from : Nat, to : Nat]] BY DEF RunsOf
  <2> QED BY <1>2, <2>1, <2>2 DEF RunLonger
<1>b. ~Begins(q, k + 1) OBVIOUS
<1> HIDE DEF ss
<1>4. ASSUME NEW b \in 1..(n - 1) PROVE ARun(ss, b, q)
  <2>1. b \in Nat /\ b # 0 /\ \A a \in 1..b : a \in 1..(n - 1) BY <1>2
  <2>2. ARun(rs, b, P) BY <1>3 DEF RunsOf
  <2>3. \A a \in 1..b : ss[a] = rs[a] BY <1>3, <2>1
  <2> QED BY <2>1, <2>2, <2>3, ARunKept
<1> DEFINE x == rs[n].from
<1>a. /\ x \in 1..k /\ rs[n].to = k /\ Begins(P, x)
      /\ \A j \in (x + 1)..k : ~Begins(P, j)
      /\ \A j \in x..k : BlockOf[P[j].kind] = BlockOf[P[x].kind]
      /\ \A a \in 1..(n - 1) : rs[a].to < x
  <2>1. ARun(rs, n, P) /\ rs[n].to = k BY <1>2 DEF RunsOf
  <2> QED BY <2>1 DEF ARun
<1>5. ARun(ss, n, q)
  <2> HIDE DEF q, k, x
  <2>1. k # 0 /\ k \in x..k /\ k + 1 # 1 /\ (k + 1) - 1 = k BY <1>1, <1>a
  <2>2. BlockOf[q[k + 1].kind] = BlockOf[q[k].kind]
        BY <1>b, <2>1 DEF Begins
  <2>3. \A j \in x..k : j \in 1..k BY <1>1, <1>a
  <2>4. \A j \in x..(k + 1) : j \in x..k \/ j = k + 1 BY <1>1, <1>a
  <2>5. \A j \in x..k : BlockOf[q[j].kind] = BlockOf[q[x].kind]
    <3>1. x \in x..k BY <1>1, <1>a
    <3> QED BY <1>1, <1>a, <2>3, <3>1
  <2>6. \A j \in x..(k + 1) : BlockOf[q[j].kind] = BlockOf[q[x].kind]
        BY <2>1, <2>2, <2>4, <2>5
  <2>7. \A j \in (x + 1)..(k + 1) : (j \in (x + 1)..k /\ j \in 1..k) \/ j = k + 1 BY <1>1, <1>a
  <2>8. \A j \in (x + 1)..(k + 1) : ~Begins(q, j) BY <1>1, <1>a, <1>b, <2>7
  <2>9. x \in 1..(k + 1) /\ k + 1 \in x..(k + 1) BY <1>1, <1>a
  <2>10. \A a \in 1..(n - 1) : ss[a].to < x BY <1>3, <1>a
  <2>11. Begins(q, x) BY <1>1, <1>a
  <2> QED BY <1>1, <1>3, <2>6, <2>8, <2>9, <2>10, <2>11 DEF ARun, x
<1>6. \A b \in 1..n : b \in 1..(n - 1) \/ b = n BY <1>2
<1>7. ASSUME NEW i \in 1..(k + 1) PROVE \E b \in 1..n : i \in ss[b].from..ss[b].to
  <2> HIDE DEF k, x
  <2>1. CASE i = k + 1
    <3>1. i \in x..(k + 1) BY <1>1, <1>a, <2>1
    <3> QED BY <1>2, <1>3, <3>1 DEF x
  <2>2. CASE i # k + 1
    <3>1. i \in 1..k BY <1>1, <2>2
    <3>2. PICK b \in 1..n : i \in rs[b].from..rs[b].to BY <3>1 DEF RunsOf, k
    <3>3. CASE b \in 1..(n - 1) BY <1>3, <3>2, <3>3
    <3>4. CASE b = n
      <4>1. i \in x..(k + 1) BY <1>1, <1>a, <3>2, <3>4 DEF x
      <4> QED BY <1>2, <1>3, <4>1 DEF x
    <3> QED BY <1>6, <3>3, <3>4
  <2> QED BY <2>1, <2>2
<1> QED BY <1>1, <1>2, <1>3, <1>4, <1>5, <1>6, <1>7 DEF RunsOf, q, k, ss

\* The parts of a run, as they are shown.
Saying(P, i, e) == [k \in 1..(e - i + 1) |-> Shows(P[i + k - 1].kind, P[i + k - 1].n)]

\* sig is the last signature of a run, 0 for none.
IsSign(P, i, e, sig) ==
  IF sig = 0 THEN \A j \in i..e : P[j].kind # "signed"
  ELSE /\ \E j \in i..e : P[j].kind = "signed" /\ P[j].n = sig
       /\ \A j \in i..e : P[j].kind = "signed" => P[j].n <= sig

TextOf(P, i, e, sig) ==
  IF P[i].kind = "image" THEN <<>>
  ELSE IF sig = 0 THEN Saying(P, i, e) ELSE Append(Saying(P, i, e), Signature(sig))

Holds(block, P, i, e, sig) == block.kind = BlockOf[P[i].kind] /\ block.text = TextOf(P, i, e, sig)
Finished(block, P, i, e) == \E sig \in Nat : IsSign(P, i, e, sig) /\ Holds(block, P, i, e, sig)
Unfinished(block, P, i, e, sig) ==
  Holds(block, P, i, e, 0) /\ (block.kind = "thinking" => IsSign(P, i, e, sig))

\* The blocks hold the runs; block k is still open, and sig its signature.
LaidBlock(block, P, i, e, open, sig) ==
  IF open THEN Unfinished(block, P, i, e, sig) ELSE Finished(block, P, i, e)
LaidBy(rs, z, P, k, sig) ==
  /\ RunsOf(rs, Len(z.blocks), P)
  /\ \A b \in 1..Len(z.blocks) : LaidBlock(z.blocks[b], P, rs[b].from, rs[b].to, b = k, sig)
LaidOut(z, P, k, sig) == \E rs : LaidBy(rs, z, P, k, sig)

\* The converter writes to the block of the last part.
Facing(s, P) ==
  IF s.current = "none" THEN P = <<>> \/ P[Len(P)].kind = "image"
  ELSE P # <<>> /\ P[Len(P)].kind # "image" /\ s.current = BlockOf[P[Len(P)].kind]

LEMMA ShowsIs ==
  ASSUME NEW p \in CloudPieces
  PROVE  Shows(p.kind, p.n) \in AnyPiece
BY DEF CloudPieces, Shows, AnyPiece, PieceParts, CloudKinds

LEMMA SayingType ==
  ASSUME NEW P \in Seq(CloudPieces), NEW i \in 1..Len(P), NEW e \in i..Len(P)
  PROVE  /\ Saying(P, i, e) \in Seq(AnyPiece) /\ Len(Saying(P, i, e)) = e - i + 1
         /\ \A k \in 1..(e - i + 1) : Saying(P, i, e)[k] = Shows(P[i + k - 1].kind, P[i + k - 1].n)
<1> DEFINE x == e - i + 1
<1>1. x \in Nat /\ Len(P) \in Nat OBVIOUS
<1>2. \A k \in 1..x : i + k - 1 \in 1..Len(P) BY <1>1
<1>3. \A k \in 1..x : Shows(P[i + k - 1].kind, P[i + k - 1].n) \in AnyPiece BY <1>2, ShowsIs
<1> HIDE DEF x
<1>4. Saying(P, i, e) = [k \in 1..x |-> Shows(P[i + k - 1].kind, P[i + k - 1].n)] BY DEF Saying, x
<1>5. Saying(P, i, e) \in Seq(AnyPiece) /\ Len(Saying(P, i, e)) = x BY <1>1, <1>3, <1>4
<1> QED BY <1>4, <1>5 DEF x

\* What a run is does not depend on the parts after it.
LEMMA RunKept ==
  ASSUME NEW P \in Seq(CloudPieces), NEW p \in CloudPieces,
         NEW i \in 1..Len(P), NEW e \in i..Len(P)
  PROVE  /\ Saying(Append(P, p), i, e) = Saying(P, i, e)
         /\ \A sig : IsSign(Append(P, p), i, e, sig) <=> IsSign(P, i, e, sig)
         /\ \A sig : TextOf(Append(P, p), i, e, sig) = TextOf(P, i, e, sig)
         /\ \A block : Finished(block, P, i, e) => Finished(block, Append(P, p), i, e)
<1> DEFINE q == Append(P, p)
<1>1. \A j \in 1..Len(P) : q[j] = P[j] BY OnePartMore
<1> HIDE DEF q
<1>2. i..e \subseteq 1..Len(P) /\ i \in i..e /\ Len(P) \in Nat OBVIOUS
<1>3. \A j \in i..e : q[j] = P[j] BY <1>1, <1>2
<1>4. Saying(q, i, e) = Saying(P, i, e)
  <2>1. \A k \in 1..(e - i + 1) : i + k - 1 \in i..e BY <1>2
  <2>2. \A k \in 1..(e - i + 1) : q[i + k - 1] = P[i + k - 1] BY <1>3, <2>1
  <2> QED BY <2>2 DEF Saying
<1>5. \A sig : IsSign(q, i, e, sig) <=> IsSign(P, i, e, sig) BY <1>3 DEF IsSign
<1>6. q[i] = P[i] BY <1>2, <1>3
<1>7. \A sig : TextOf(q, i, e, sig) = TextOf(P, i, e, sig) BY <1>4, <1>6 DEF TextOf
<1>8. \A block : Finished(block, P, i, e) => Finished(block, q, i, e)
      BY <1>5, <1>6, <1>7 DEF Finished, Holds
<1> QED BY <1>4, <1>5, <1>7, <1>8 DEF q

\* What holds of a block depends on its kind and its text.
LEMMA SameFinished ==
  ASSUME NEW b, NEW c, b.kind = c.kind, b.text = c.text, NEW P, NEW i, NEW e, Finished(c, P, i, e)
  PROVE  Finished(b, P, i, e)
BY DEF Finished, Holds

\* A block that is closed is finished.
LEMMA LaidCloses ==
  ASSUME NEW P \in Seq(CloudPieces), NEW z, NEW y, NEW k, NEW sig \in Nat, LaidOut(z, P, k, sig),
         SignedFrom(y, z, k, sig), NEW x
  PROVE  LaidOut(y, P, 0, x)
<1>1. PICK rs : LaidBy(rs, z, P, k, sig) BY DEF LaidOut
<1>2. Len(y.blocks) = Len(z.blocks) BY DEF SignedFrom
<1>3. RunsOf(rs, Len(y.blocks), P) BY <1>1, <1>2 DEF LaidBy
<1>4. ASSUME NEW b \in 1..Len(y.blocks)
      PROVE  LaidBlock(y.blocks[b], P, rs[b].from, rs[b].to, b = 0, x)
  <2> DEFINE i == rs[b].from
             e == rs[b].to
             c == z.blocks[b]
             d == y.blocks[b]
  <2>0. b # 0
    <3>1. Len(y.blocks) \in Nat BY <1>3 DEF RunsOf
    <3> QED BY <3>1
  <2>1. /\ i \in 1..Len(P) /\ e \in i..Len(P)
        /\ \A j \in i..e : BlockOf[P[j].kind] = BlockOf[P[i].kind]
    <3>1. ARun(rs, b, P) BY <1>3 DEF RunsOf
    <3> QED BY <3>1 DEF ARun
  <2>2. LaidBlock(c, P, i, e, b = k, sig) BY <1>1, <1>2 DEF LaidBy
  <2>3. /\ d.kind = c.kind
        /\ d.text = IF b = k /\ c.kind = "thinking" /\ sig # 0 THEN c.text \o <<Signature(sig)>> ELSE c.text
        BY <1>2 DEF SignedFrom
  <2> HIDE DEF i, e, c, d
  <2>4. CASE b # k
    <3>1. Finished(c, P, i, e) BY <2>2, <2>4 DEF LaidBlock
    <3> QED BY <2>0, <2>3, <2>4, <3>1, SameFinished DEF LaidBlock, i, e, d
  <2>5. CASE b = k /\ c.kind = "thinking"
    <3>1. Holds(c, P, i, e, 0) /\ IsSign(P, i, e, sig) BY <2>2, <2>5 DEF LaidBlock, Unfinished
    <3>2. P[i].kind # "image" BY <2>5, <3>1 DEF Holds, BlockOf
    <3>3. c.text = Saying(P, i, e) /\ c.kind = BlockOf[P[i].kind] BY <3>1, <3>2 DEF Holds, TextOf
    <3>4. Saying(P, i, e) \in Seq(AnyPiece) BY <2>1, SayingType
    <3>5. Signature(sig) \in AnyPiece BY DEF Signature, AnyPiece, PieceParts
    <3> DEFINE u == Saying(P, i, e)
               v == Signature(sig)
    <3>a. u \in Seq(AnyPiece) /\ v \in AnyPiece BY <3>4, <3>5
    <3> HIDE DEF u, v
    <3>6. u \o <<v>> = Append(u, v) BY <3>a
    <3>7. d.text = TextOf(P, i, e, sig) BY <2>3, <2>5, <3>2, <3>3, <3>6 DEF TextOf, u, v
    <3>8. Finished(d, P, i, e) BY <2>3, <3>1, <3>3, <3>7 DEF Finished, Holds
    <3> QED BY <2>0, <3>8 DEF LaidBlock, i, e, d
  <2>6. CASE b = k /\ c.kind # "thinking"
    <3>1. Holds(c, P, i, e, 0) BY <2>2, <2>6 DEF LaidBlock, Unfinished
    <3>2. d.text = c.text BY <2>3, <2>6
    <3>3. \A j \in i..e : P[j].kind # "signed"
      <4>1. BlockOf["signed"] = "thinking" BY DEF BlockOf
      <4> QED BY <2>1, <2>6, <3>1, <4>1 DEF Holds
    <3>4. IsSign(P, i, e, 0) /\ 0 \in Nat BY <3>3 DEF IsSign
    <3>5. Finished(d, P, i, e) BY <2>3, <3>1, <3>2, <3>4 DEF Finished, Holds
    <3> QED BY <2>0, <3>5 DEF LaidBlock, i, e, d
  <2> QED BY <2>4, <2>5, <2>6
<1> QED BY <1>3, <1>4 DEF LaidOut, LaidBy

\* A part that begins a run has a block of its own, number k + 1.
LEMMA LaidMore ==
  ASSUME NEW P \in Seq(CloudPieces), NEW p \in CloudPieces, p.n # 0, NEW z, NEW x,
         LaidOut(z, P, 0, x), Begins(Append(P, p), Len(P) + 1),
         NEW y, Len(y.blocks) = Len(z.blocks) + 1,
         \A i \in 1..Len(z.blocks) : SameBlock(y, z, i),
         LastBlock(y).kind = BlockOf[p.kind],
         LastBlock(y).text = IF p.kind = "image" THEN <<>> ELSE <<Shows(p.kind, p.n)>>,
         NEW k, NEW sig \in Nat,
         k = IF p.kind = "image" THEN 0 ELSE Len(y.blocks),
         LastBlock(y).kind = "thinking" => sig = IF p.kind = "signed" THEN p.n ELSE 0
  PROVE  LaidOut(y, Append(P, p), k, sig)
<1> DEFINE q == Append(P, p)
           n == Len(z.blocks)
           l == Len(P) + 1
<1>1. PICK rs : LaidBy(rs, z, P, 0, x) BY DEF LaidOut
<1>2. /\ q \in Seq(CloudPieces) /\ Len(q) = l /\ l \in Nat \ {0} /\ q[l] = p
      BY OnePartMore
<1> DEFINE ss == RunMore(rs, n, P)
<1>3. n \in Nat /\ RunsOf(rs, n, P) BY <1>1 DEF LaidBy, RunsOf
<1>4. RunsOf(ss, n + 1, q) BY <1>3, RunsMore
<1>5. ss[n + 1].from = l /\ ss[n + 1].to = l /\ \A b \in 1..n : ss[b] = rs[b]
  <2>1. n + 1 \in 1..(n + 1) /\ \A b \in 1..n : b \in 1..(n + 1) /\ b # n + 1 BY <1>3
  <2> QED BY <2>1 DEF RunMore
<1>a. k \in {0, n + 1} BY <1>3
<1>b. /\ LastBlock(y) = y.blocks[n + 1] /\ Len(y.blocks) = n + 1
      /\ \A i \in 1..n : SameBlock(y, z, i)
      BY DEF LastBlock
<1> HIDE DEF q, n, l, ss
<1>6. ASSUME NEW b \in 1..n PROVE LaidBlock(y.blocks[b], q, ss[b].from, ss[b].to, b = k, sig)
  <2>1. b # k /\ b # 0 BY <1>3, <1>a
  <2> DEFINE i == rs[b].from
             e == rs[b].to
  <2>2. LaidBlock(z.blocks[b], P, i, e, b = 0, x) BY <1>1 DEF LaidBy, n
  <2>3. i \in 1..Len(P) /\ e \in i..Len(P)
    <3>1. ARun(rs, b, P) BY <1>3 DEF RunsOf
    <3> QED BY <3>1 DEF ARun
  <2>4. ss[b].from = i /\ ss[b].to = e BY <1>5
  <2> HIDE DEF i, e
  <2>5. Finished(z.blocks[b], P, i, e) BY <2>1, <2>2 DEF LaidBlock
  <2>6. Finished(z.blocks[b], q, i, e) BY <2>3, <2>5, RunKept DEF q
  <2>7. Finished(y.blocks[b], q, i, e) BY <1>b, <2>6, SameFinished DEF SameBlock
  <2> QED BY <2>1, <2>4, <2>7 DEF LaidBlock
<1>7. LaidBlock(y.blocks[n + 1], q, l, l, n + 1 = k, sig)
  <2>1. l \in 1..Len(q) /\ l \in l..Len(q) /\ l..l = {l} /\ l - l + 1 = 1 /\ n + 1 # 0 BY <1>2, <1>3
  <2>2. Saying(q, l, l) = <<Shows(p.kind, p.n)>>
    <3> DEFINE u == Saying(q, l, l)
    <3>a. /\ u \in Seq(AnyPiece) /\ Len(u) = l - l + 1
          /\ \A j \in 1..(l - l + 1) : u[j] = Shows(q[l + j - 1].kind, q[l + j - 1].n)
          BY <1>2, <2>1, SayingType
    <3>b. 1 \in 1..(l - l + 1) BY <2>1
    <3>1. u \in Seq(AnyPiece) /\ Len(u) = 1 /\ u[1] = Shows(q[l + 1 - 1].kind, q[l + 1 - 1].n)
          BY <2>1, <3>a, <3>b
    <3>2. l + 1 - 1 = l BY <1>2
    <3>3. u[1] = Shows(p.kind, p.n) BY <1>2, <3>1, <3>2
    <3> HIDE DEF u
    <3>4. u = <<u[1]>> BY <3>1
    <3> QED BY <3>3, <3>4 DEF u
  <2>3. /\ y.blocks[n + 1].kind = BlockOf[q[l].kind]
        /\ y.blocks[n + 1].text = TextOf(q, l, l, 0)
        BY <1>2, <1>b, <2>2 DEF TextOf
  <2>4. Holds(y.blocks[n + 1], q, l, l, 0) BY <2>3 DEF Holds
  <2>5. CASE p.kind = "image"
    <3>1. IsSign(q, l, l, 0) /\ 0 \in Nat BY <1>2, <2>1, <2>5 DEF IsSign
    <3>2. Finished(y.blocks[n + 1], q, l, l) BY <2>4, <3>1 DEF Finished
    <3>3. n + 1 # k BY <2>1, <2>5
    <3> QED BY <3>2, <3>3 DEF LaidBlock
  <2>6. CASE p.kind # "image"
    <3>1. n + 1 = k BY <1>b, <2>6
    <3>2. p.n \in Nat BY DEF CloudPieces
    <3>3. ASSUME y.blocks[n + 1].kind = "thinking" PROVE IsSign(q, l, l, sig)
      <4>1. sig = IF p.kind = "signed" THEN p.n ELSE 0 BY <1>b, <3>3
      <4>2. p.n <= p.n /\ p.n # 0 BY <3>2
      <4>3. \A j \in l..l : q[j] = p BY <1>2, <2>1
      <4>4. l \in l..l BY <2>1
      <4>5. CASE p.kind = "signed"
        <5>1. sig = p.n BY <4>1, <4>5
        <5> QED BY <4>2, <4>3, <4>4, <4>5, <5>1 DEF IsSign
      <4>6. CASE p.kind # "signed"
        <5>1. sig = 0 BY <4>1, <4>6
        <5> QED BY <4>3, <4>6, <5>1 DEF IsSign
      <4> QED BY <4>5, <4>6
    <3> QED BY <2>4, <3>1, <3>3 DEF LaidBlock, Unfinished
  <2> QED BY <2>5, <2>6
<1>8. \A b \in 1..(n + 1) : b \in 1..n \/ b = n + 1 BY <1>3
<1>9. LaidBy(ss, y, q, k, sig)
  <2> HIDE DEF ss, q, n, l
  <2>1. \A b \in 1..(n + 1) : LaidBlock(y.blocks[b], q, ss[b].from, ss[b].to, b = k, sig)
        BY <1>5, <1>6, <1>7, <1>8
  <2>2. RunsOf(ss, Len(y.blocks), q) BY <1>4, <1>b
  <2>3. Len(y.blocks) = n + 1 BY <1>b
  <2> QED BY <2>1, <2>2, <2>3 DEF LaidBy
<1> QED BY <1>9 DEF LaidOut, q

LEMMA SignGrows ==
  ASSUME NEW P \in Seq(CloudPieces), NEW N \in Nat, Numbered(P, N),
         NEW p \in CloudPieces, p.n = N + 1,
         NEW i \in 1..Len(P), NEW sig \in Nat, IsSign(P, i, Len(P), sig)
  PROVE  IsSign(Append(P, p), i, Len(P) + 1, IF p.kind = "signed" THEN p.n ELSE sig)
<1> DEFINE q == Append(P, p)
           l == Len(P)
<1>1. /\ l \in Nat /\ q[l + 1] = p /\ \A j \in 1..l : q[j] = P[j]
      BY OnePartMore
<1>2. \A j \in 1..l : P[j].n \in 1..N BY DEF Numbered
<1>3. IsSign(P, i, l, sig) /\ i \in 1..l OBVIOUS
<1> HIDE DEF q, l
<1>4. \A j \in i..(l + 1) : (j \in i..l /\ j \in 1..l) \/ j = l + 1 BY <1>1, <1>3
<1>5. l + 1 \in i..(l + 1) /\ \A j \in i..l : j \in i..(l + 1) /\ j \in 1..l BY <1>1, <1>3
<1>6. CASE p.kind = "signed"
  <2>1. p.n # 0 /\ p.n \in Nat OBVIOUS
  <2>2. ASSUME NEW j \in i..(l + 1) PROVE q[j].n <= p.n
    <3>1. CASE j \in 1..l
      <4>1. q[j].n \in 1..N BY <1>1, <1>2, <3>1
      <4> QED BY <4>1
    <3>2. CASE j = l + 1 BY <1>1, <2>1, <3>2
    <3> QED BY <1>4, <3>1, <3>2
  <2> QED BY <1>1, <1>5, <1>6, <2>1, <2>2 DEF IsSign, q, l
<1>7. CASE p.kind # "signed"
  <2>1. CASE sig = 0
    <3>1. \A j \in i..l : P[j].kind # "signed" BY <1>3, <2>1 DEF IsSign
    <3>2. \A j \in i..(l + 1) : q[j].kind # "signed" BY <1>1, <1>4, <1>7, <3>1
    <3> QED BY <1>7, <2>1, <3>2 DEF IsSign, q, l
  <2>2. CASE sig # 0
    <3>1. /\ \E j \in i..l : P[j].kind = "signed" /\ P[j].n = sig
          /\ \A j \in i..l : P[j].kind = "signed" => P[j].n <= sig
          BY <1>3, <2>2 DEF IsSign
    <3>2. \E j \in i..(l + 1) : q[j].kind = "signed" /\ q[j].n = sig BY <1>1, <1>5, <3>1
    <3>3. \A j \in i..(l + 1) : q[j].kind = "signed" => q[j].n <= sig BY <1>1, <1>4, <1>7, <3>1
    <3> QED BY <1>7, <2>2, <3>2, <3>3 DEF IsSign, q, l
  <2> QED BY <2>1, <2>2
<1> QED BY <1>6, <1>7

LEMMA SayingGrows ==
  ASSUME NEW P \in Seq(CloudPieces), NEW p \in CloudPieces, NEW i \in 1..Len(P)
  PROVE  Saying(Append(P, p), i, Len(P) + 1) = Saying(P, i, Len(P)) \o <<Shows(p.kind, p.n)>>
<1> DEFINE q == Append(P, p)
           l == Len(P)
           u == Saying(P, i, l)
           w == Saying(q, i, l + 1)
           x == Shows(p.kind, p.n)
           d == l - i + 1
<1>1. /\ l \in Nat /\ q \in Seq(CloudPieces) /\ Len(q) = l + 1 /\ q[l + 1] = p
      /\ \A j \in 1..l : q[j] = P[j]
      BY OnePartMore
<1>2. i \in 1..l OBVIOUS
<1> HIDE DEF l, q
<1>3. d \in Nat /\ l + 1 - i + 1 = d + 1 /\ i + (d + 1) - 1 = l + 1
      /\ \A k \in 1..d : i + k - 1 \in 1..l /\ k \in 1..(d + 1)
      /\ l \in i..l /\ l + 1 \in i..(l + 1) /\ i \in 1..(l + 1)
      BY <1>1, <1>2
<1>4. u \in Seq(AnyPiece) /\ Len(u) = d /\ \A k \in 1..d : u[k] = Shows(P[i + k - 1].kind, P[i + k - 1].n)
      BY <1>2, <1>3, SayingType DEF l
<1>5. /\ w \in Seq(AnyPiece) /\ Len(w) = d + 1
      /\ \A k \in 1..(d + 1) : w[k] = Shows(q[i + k - 1].kind, q[i + k - 1].n)
  <2> DEFINE e == l + 1
  <2>1. q \in Seq(CloudPieces) /\ i \in 1..Len(q) /\ e \in i..Len(q) BY <1>1, <1>3
  <2> HIDE DEF e
  <2>a. /\ Saying(q, i, e) \in Seq(AnyPiece) /\ Len(Saying(q, i, e)) = e - i + 1
        /\ \A k \in 1..(e - i + 1) : Saying(q, i, e)[k] = Shows(q[i + k - 1].kind, q[i + k - 1].n)
        BY <2>1, SayingType
  <2>2. w = Saying(q, i, e) BY DEF e
  <2>3. e - i + 1 = d + 1 BY <1>3 DEF e
  <2> HIDE DEF d, w
  <2> QED BY <2>a, <2>2, <2>3
<1>6. x \in AnyPiece BY ShowsIs
<1>7. w[d + 1] = x
  <2>1. d + 1 \in 1..(d + 1) BY <1>3
  <2> HIDE DEF d, w
  <2>2. w[d + 1] = Shows(q[i + (d + 1) - 1].kind, q[i + (d + 1) - 1].n) BY <1>5, <2>1
  <2> QED BY <1>1, <1>3, <2>2
<1>8. ASSUME NEW k \in 1..d PROVE w[k] = u[k]
  <2> HIDE DEF d, w, u
  <2>1. i + k - 1 \in 1..l /\ k \in 1..(d + 1) BY <1>3
  <2>2. q[i + k - 1] = P[i + k - 1] BY <1>1, <2>1
  <2> QED BY <1>4, <1>5, <2>1, <2>2
<1> HIDE DEF u, w, x, d
<1>9. u \o <<x>> \in Seq(AnyPiece) /\ Len(u \o <<x>>) = d + 1 /\ (u \o <<x>>)[d + 1] = x
      /\ \A k \in 1..d : (u \o <<x>>)[k] = u[k]
      BY <1>3, <1>4, <1>6
<1>10. \A k \in 1..(d + 1) : w[k] = (u \o <<x>>)[k]
  <2> TAKE k \in 1..(d + 1)
  <2>1. k \in 1..d \/ k = d + 1 BY <1>3
  <2> QED BY <1>7, <1>8, <1>9, <2>1
<1>11. w = u \o <<x>> BY <1>5, <1>9, <1>10, SeqEqual
<1> QED BY <1>11 DEF w, u, x, q, l

\* A part goes on with the run of the open block.
LEMMA LaidLonger ==
  ASSUME NEW P \in Seq(CloudPieces), NEW N \in Nat, Numbered(P, N),
         NEW p \in CloudPieces, NotEmpty(p), p.n = N + 1, NEW z, NEW k, k = Len(z.blocks), k # 0,
         NEW sig \in Nat, LaidOut(z, P, k, sig), ~Begins(Append(P, p), Len(P) + 1),
         NEW y, WrittenFrom(y, z, Shows(p.kind, p.n)), NEW ns,
         LastBlock(z).kind = "thinking" => ns = IF p.kind = "signed" THEN p.n ELSE sig
  PROVE  LaidOut(y, Append(P, p), k, ns)
<1> DEFINE q == Append(P, p)
           l == Len(P)
<1>1. PICK rs : LaidBy(rs, z, P, k, sig) BY DEF LaidOut
<1>2. RunsOf(rs, k, P) /\ k \in Nat /\ k \in 1..k BY <1>1 DEF LaidBy, RunsOf
<1> DEFINE ss == RunLonger(rs, k, P)
<1>3. RunsOf(ss, k, q) BY <1>2, RunsLonger
<1>4. /\ ss[k].from = rs[k].from /\ ss[k].to = l + 1
      /\ \A b \in 1..k : b # k => ss[b] = rs[b]
  <2>1. rs \in [1..k -> [from : Nat, to : Nat]] BY <1>2 DEF RunsOf
  <2> QED BY <1>2, <2>1 DEF RunLonger
<1>5. /\ Len(y.blocks) = k
      /\ y.blocks[k].kind = z.blocks[k].kind
      /\ y.blocks[k].text = z.blocks[k].text \o <<Shows(p.kind, p.n)>>
      /\ \A i \in 1..k : i # k => SameBlock(y, z, i)
  <2>1. \A i \in 1..k : i # k => i \in 1..(k - 1) BY <1>2
  <2> QED BY <2>1 DEF WrittenFrom, LastBlock
<1> DEFINE i == rs[k].from
<1>6. i \in 1..l /\ l \in i..l /\ rs[k].to = l /\ l \in Nat \ {0}
      /\ \A j \in i..l : BlockOf[P[j].kind] = BlockOf[P[i].kind]
  <2>1. ARun(rs, k, P) /\ rs[k].to = l BY <1>2 DEF RunsOf
  <2>2. i \in 1..l /\ l \in i..l /\ \A j \in i..l : BlockOf[P[j].kind] = BlockOf[P[i].kind]
        BY <2>1 DEF ARun
  <2>3. l \in Nat OBVIOUS
  <2> HIDE DEF i, l
  <2>4. l # 0 BY <2>2, <2>3
  <2> QED BY <2>1, <2>2, <2>3, <2>4
<1>7. /\ p.kind \notin {"call", "image"} /\ BlockOf[p.kind] = BlockOf[P[l].kind]
  <2>1. q[l + 1] = p /\ \A j \in 1..l : q[j] = P[j] BY OnePartMore
  <2> HIDE DEF q
  <2>2. l + 1 # 1 /\ (l + 1) - 1 = l /\ l \in 1..l BY <1>6
  <2>3. ~Begins(q, l + 1) BY DEF q
  <2> HIDE DEF l
  <2>4. q[l] = P[l] BY <2>1, <2>2
  <2> QED BY <2>1, <2>2, <2>3, <2>4 DEF Begins
<1>8. BlockOf[P[i].kind] = BlockOf[p.kind] BY <1>6, <1>7
<1>9. P[i].kind # "image"
  <2>1. BlockOf["image"] = "image" BY DEF BlockOf
  <2>2. BlockOf[p.kind] \in {"thinking", "text"}
    <3>1. p.kind \in {"thought", "signed", "blank", "text"} BY <1>7 DEF CloudPieces, CloudKinds, NotEmpty
    <3> QED BY <3>1 DEF BlockOf
  <2> QED BY <1>8, <2>1, <2>2
<1>10. Unfinished(z.blocks[k], P, i, l, sig)
  <2>1. LaidBlock(z.blocks[k], P, rs[k].from, rs[k].to, k = k, sig) BY <1>1, <1>2 DEF LaidBy
  <2> QED BY <1>6, <2>1 DEF LaidBlock
<1>11. q[i] = P[i] BY <1>6, OnePartMore
<1>12. Saying(q, i, l + 1) = Saying(P, i, l) \o <<Shows(p.kind, p.n)>> BY <1>6, SayingGrows
<1>13. IsSign(P, i, l, sig) => IsSign(q, i, l + 1, IF p.kind = "signed" THEN p.n ELSE sig)
       BY <1>6, SignGrows
<1>a. LastBlock(z) = z.blocks[k] BY DEF LastBlock
<1> HIDE DEF q, i, l, ss
<1>14. Unfinished(y.blocks[k], q, i, l + 1, ns)
  <2>1. Holds(z.blocks[k], P, i, l, 0) BY <1>10 DEF Unfinished
  <2>2. z.blocks[k].text = Saying(P, i, l) /\ z.blocks[k].kind = BlockOf[P[i].kind]
        BY <1>9, <2>1 DEF Holds, TextOf
  <2>3. y.blocks[k].text = Saying(q, i, l + 1) BY <1>5, <1>12, <2>2
  <2>4. Holds(y.blocks[k], q, i, l + 1, 0) BY <1>5, <1>9, <1>11, <2>2, <2>3 DEF Holds, TextOf
  <2>5. ASSUME y.blocks[k].kind = "thinking" PROVE IsSign(q, i, l + 1, ns)
    <3>1. z.blocks[k].kind = "thinking" BY <1>5, <2>5
    <3>2. IsSign(P, i, l, sig) BY <1>10, <3>1 DEF Unfinished
    <3>3. ns = IF p.kind = "signed" THEN p.n ELSE sig BY <1>a, <3>1
    <3> QED BY <1>13, <3>2, <3>3
  <2> QED BY <2>4, <2>5 DEF Unfinished
<1>15. ASSUME NEW b \in 1..k
       PROVE  LaidBlock(y.blocks[b], q, ss[b].from, ss[b].to, b = k, ns)
  <2>1. CASE b = k BY <1>4, <1>14, <2>1 DEF LaidBlock, i
  <2>2. CASE b # k
    <3> DEFINE f == rs[b].from
               e == rs[b].to
    <3>1. LaidBlock(z.blocks[b], P, f, e, b = k, sig) BY <1>1 DEF LaidBy
    <3>2. f \in 1..Len(P) /\ e \in f..Len(P)
      <4>1. ARun(rs, b, P) BY <1>2 DEF RunsOf
      <4> QED BY <4>1 DEF ARun
    <3>3. ss[b].from = f /\ ss[b].to = e BY <1>4, <2>2
    <3> HIDE DEF f, e
    <3>4. Finished(z.blocks[b], P, f, e) BY <2>2, <3>1 DEF LaidBlock
    <3>5. Finished(z.blocks[b], q, f, e) BY <3>2, <3>4, RunKept DEF q
    <3>6. Finished(y.blocks[b], q, f, e) BY <1>5, <2>2, <3>5, SameFinished DEF SameBlock
    <3> QED BY <2>2, <3>3, <3>6 DEF LaidBlock
  <2> QED BY <2>1, <2>2
<1>16. LaidBy(ss, y, q, k, ns) BY <1>3, <1>5, <1>15 DEF LaidBy
<1> QED BY <1>16 DEF LaidOut, q

\* The message shows the parts, and the converter knows where it is.
Laid(s, z, P, N) ==
  Numbered(P, N) /\ Facing(s, P) /\ LaidOut(z, P, OpenOf(s), s.signature)

\* A part begins a run exactly if the converter opens a block for it.
LEMMA FaceBegins ==
  ASSUME NEW s, NEW P \in Seq(CloudPieces), Facing(s, P), NEW p \in CloudPieces, NotEmpty(p)
  PROVE  Begins(Append(P, p), Len(P) + 1) <=> p.kind \in {"call", "image"} \/ s.current # BlockOf[p.kind]
<1> DEFINE q == Append(P, p)
           l == Len(P)
<1>1. l \in Nat /\ q[l + 1] = p /\ \A j \in 1..l : q[j] = P[j] BY OnePartMore
<1>2. (l = 0 <=> P = <<>>) OBVIOUS
<1>3. p.kind \in {"thought", "signed", "blank", "text", "call", "image"} BY DEF CloudPieces, CloudKinds, NotEmpty
<1>4. BlockOf["image"] = "image" BY DEF BlockOf
<1>5. p.kind \notin {"call", "image"} => BlockOf[p.kind] \notin {"image", "none"} BY <1>3 DEF BlockOf
<1> DEFINE e == P[l]
<1>6. IF s.current = "none" THEN l = 0 \/ e.kind = "image"
      ELSE l # 0 /\ s.current = BlockOf[e.kind]
      BY <1>2 DEF Facing
<1> HIDE DEF q, l, e
<1>7. l # 0 => q[l] = e /\ l + 1 # 1
  <2> SUFFICES ASSUME l # 0 PROVE q[l] = e /\ l + 1 # 1 OBVIOUS
  <2>1. l \in 1..l BY <1>1
  <2> QED BY <1>1, <2>1 DEF e
<1>8. l = 0 => l + 1 = 1 OBVIOUS
<1>9. (l + 1) - 1 = l BY <1>1
<1>10. Begins(q, l + 1) <=> l + 1 = 1 \/ p.kind \in {"call", "image"} \/ BlockOf[p.kind] # BlockOf[q[l].kind]
       BY <1>1, <1>9 DEF Begins
<1>11. CASE p.kind \in {"call", "image"} BY <1>10, <1>11 DEF q, l
<1>12. CASE p.kind \notin {"call", "image"} /\ l = 0
  <2>1. s.current = "none" BY <1>6, <1>12
  <2> QED BY <1>5, <1>8, <1>10, <1>12, <2>1 DEF q, l
<1>13. CASE p.kind \notin {"call", "image"} /\ l # 0
  <2>1. Begins(q, l + 1) <=> BlockOf[p.kind] # BlockOf[e.kind] BY <1>7, <1>10, <1>13
  <2>2. CASE s.current = "none"
    <3>1. e.kind = "image" BY <1>6, <1>13, <2>2
    <3> QED BY <1>4, <1>5, <1>13, <2>1, <2>2, <3>1 DEF q, l
  <2>3. CASE s.current # "none"
    <3>1. s.current = BlockOf[e.kind] BY <1>6, <2>3
    <3> QED BY <1>13, <2>1, <3>1 DEF q, l
  <2> QED BY <2>2, <2>3
<1> QED BY <1>11, <1>12, <1>13

LEMMA NumberedMore ==
  ASSUME NEW P, NEW N \in Nat, Numbered(P, N), NEW p \in CloudPieces, NotEmpty(p), p.n = N + 1
  PROVE  Numbered(P, N + 1) /\ Numbered(Append(P, p), N + 1)
<1> DEFINE q == Append(P, p)
           l == Len(P)
<1>0. P \in Seq(CloudPieces) BY DEF Numbered
<1>1. /\ l \in Nat /\ q \in Seq(CloudPieces) /\ Len(q) = l + 1
      /\ q[l + 1] = p /\ \A j \in 1..l : q[j] = P[j]
      BY <1>0, OnePartMore
<1>2. \A i \in 1..l : P[i].n \in 1..N /\ NotEmpty(P[i]) /\ \A j \in 1..(i - 1) : P[j].n < P[i].n
      BY DEF Numbered
<1> HIDE DEF q, l
<1>3. 1..N \subseteq 1..(N + 1) /\ N + 1 \in 1..(N + 1) /\ \A x \in 1..N : x < N + 1 OBVIOUS
<1>4. Numbered(P, N + 1) BY <1>0, <1>2, <1>3 DEF Numbered, l
<1>5. ASSUME NEW i \in 1..(l + 1)
      PROVE  q[i].n \in 1..(N + 1) /\ NotEmpty(q[i]) /\ \A j \in 1..(i - 1) : q[j].n < q[i].n
  <2>1. CASE i \in 1..l
    <3>1. \A j \in 1..(i - 1) : j \in 1..l BY <1>1, <2>1
    <3> QED BY <1>1, <1>2, <1>3, <2>1, <3>1
  <2>2. CASE i = l + 1
    <3>1. i - 1 = l BY <1>1, <2>2
    <3>2. \A j \in 1..l : q[j].n \in 1..N BY <1>1, <1>2
    <3> QED BY <1>1, <1>3, <2>2, <3>1, <3>2
  <2>3. i \in 1..l \/ i = l + 1 BY <1>1
  <2> QED BY <2>1, <2>2, <2>3
<1> QED BY <1>1, <1>4, <1>5 DEF Numbered, q

\* A part that gets a block of its own.
LEMMA LaidOpens ==
  ASSUME NEW s, s.signature \in Nat, NEW z, NEW P \in Seq(CloudPieces),
         LaidOut(z, P, OpenOf(s), s.signature), Len(z.blocks) \in Nat,
         NEW p \in CloudPieces, p.n # 0, Begins(Append(P, p), Len(P) + 1),
         NEW o, OpenedFrom(o, z, s, BlockOf[p.kind]), NEW y,
         IF p.kind = "image" THEN Len(y.blocks) = Len(o.blocks) /\ \A i \in 1..Len(o.blocks) : SameBlock(y, o, i)
         ELSE WrittenFrom(y, o, Shows(p.kind, p.n)),
         NEW k, NEW sig \in Nat, k = IF p.kind = "image" THEN 0 ELSE Len(y.blocks),
         BlockOf[p.kind] = "thinking" => sig = IF p.kind = "signed" THEN p.n ELSE 0
  PROVE  LaidOut(y, Append(P, p), k, sig)
<1> DEFINE n == Len(z.blocks)
<1>0. n \in Nat OBVIOUS
<1>1. PICK c : /\ SignedFrom(c, z, OpenOf(s), s.signature) /\ Len(o.blocks) = n + 1
               /\ o.blocks[n + 1].kind = BlockOf[p.kind] /\ o.blocks[n + 1].text = <<>>
               /\ \A i \in 1..n : SameBlock(o, c, i)
      BY DEF OpenedFrom
<1>2. LaidOut(c, P, 0, 0) BY <1>1, LaidCloses
<1>3. Len(c.blocks) = n BY <1>1 DEF SignedFrom
<1> HIDE DEF n
<1>4. LastBlock(o) = o.blocks[n + 1] BY <1>1 DEF LastBlock
<1>5. n + 1 \in 1..(n + 1) /\ (n + 1) - 1 = n /\ \A i \in 1..n : i \in 1..(n + 1) BY <1>0
<1>6. /\ Len(y.blocks) = n + 1 /\ \A i \in 1..n : SameBlock(y, o, i)
      /\ LastBlock(y).kind = BlockOf[p.kind]
      /\ LastBlock(y).text = IF p.kind = "image" THEN <<>> ELSE <<Shows(p.kind, p.n)>>
  <2>1. CASE p.kind = "image"
    <3>1. Len(y.blocks) = n + 1 /\ \A i \in 1..(n + 1) : SameBlock(y, o, i) BY <1>1, <2>1
    <3>2. SameBlock(y, o, n + 1) /\ LastBlock(y) = y.blocks[n + 1] BY <1>5, <3>1 DEF LastBlock
    <3> QED BY <1>1, <1>5, <2>1, <3>1, <3>2 DEF SameBlock
  <2>2. CASE p.kind # "image"
    <3>1. WrittenFrom(y, o, Shows(p.kind, p.n)) BY <2>2
    <3>2. /\ Len(y.blocks) = n + 1 /\ LastBlock(y).kind = BlockOf[p.kind]
          /\ LastBlock(y).text = <<>> \o <<Shows(p.kind, p.n)>>
          /\ \A i \in 1..n : SameBlock(y, o, i)
          BY <1>1, <1>4, <1>5, <3>1 DEF WrittenFrom
    <3>3. <<>> \o <<Shows(p.kind, p.n)>> = <<Shows(p.kind, p.n)>>
      <4>1. Shows(p.kind, p.n) \in AnyPiece BY ShowsIs
      <4> DEFINE x == Shows(p.kind, p.n)
      <4>2. x \in AnyPiece BY <4>1
      <4> HIDE DEF x
      <4>3. <<>> \o <<x>> = <<x>> BY <4>2
      <4> QED BY <4>3 DEF x
    <3> QED BY <2>2, <3>2, <3>3
  <2> QED BY <2>1, <2>2
<1>7. \A i \in 1..Len(c.blocks) : SameBlock(y, c, i) BY <1>1, <1>3, <1>6 DEF SameBlock
<1>8. Len(y.blocks) = Len(c.blocks) + 1 BY <1>3, <1>6
<1>9. LastBlock(y).kind = "thinking" => sig = IF p.kind = "signed" THEN p.n ELSE 0 BY <1>6
<1> QED BY <1>2, <1>6, <1>7, <1>8, <1>9, LaidMore

\* A part that may go on with the open block.
LEMMA LaidPiece ==
  ASSUME NEW s, NEW m, NEW z, CloudOK(s, m, z, 0), NEW P, NEW N \in Nat, Laid(s, z, P, N),
         NEW p \in CloudPieces, p.n = N + 1, p.kind \in {"thought", "signed", "blank", "text"},
         NEW r, NEW y, CloudOK(r, m, y, 0), r.current = BlockOf[p.kind],
         PieceFrom(y, z, s, BlockOf[p.kind], Shows(p.kind, p.n)),
         r.current = "thinking" =>
           r.signature = IF p.kind = "signed" THEN p.n ELSE IF s.current = "thinking" THEN s.signature ELSE 0
  PROVE  LaidOut(y, Append(P, p), OpenOf(r), r.signature)
<1>1. NotEmpty(p) /\ p.kind \notin {"call", "image"} /\ BlockOf[p.kind] \in {"thinking", "text"}
      /\ p.n # 0
      BY DEF NotEmpty, BlockOf
<1>2. Numbered(P, N) /\ Facing(s, P) /\ LaidOut(z, P, OpenOf(s), s.signature) /\ P \in Seq(CloudPieces)
      BY DEF Laid, Numbered
<1>3. s.signature \in Nat /\ r.signature \in Nat BY DEF CloudOK, CloudRec
<1>4. Begins(Append(P, p), Len(P) + 1) <=> s.current # BlockOf[p.kind] BY <1>1, <1>2, FaceBegins
<1>5. OpenOf(r) = Len(y.blocks) BY <1>1, CloudEmitter DEF OpenOf
<1>6. Len(z.blocks) \in Nat BY CloudEmitter
<1>7. CASE s.current = BlockOf[p.kind]
  <2>1. /\ OpenOf(s) = Len(z.blocks) /\ OpenOf(s) # 0
        /\ LastBlock(z).kind = s.current
    <3>1. s.current # "none" BY <1>1, <1>7
    <3>2. s.index = Len(z.blocks) /\ s.index \in 1..Len(z.blocks) /\ z.blocks[s.index].kind = s.current
          BY <3>1, CloudEmitter
    <3> QED BY <1>6, <3>1, <3>2 DEF OpenOf, LastBlock
  <2>2. WrittenFrom(y, z, Shows(p.kind, p.n)) BY <1>7 DEF PieceFrom
  <2>3. LastBlock(z).kind = "thinking" => r.signature = IF p.kind = "signed" THEN p.n ELSE s.signature
        BY <1>7, <2>1
  <2>4. OpenOf(r) = OpenOf(s) BY <1>5, <2>1, <2>2 DEF WrittenFrom
  <2>5. LaidOut(y, Append(P, p), OpenOf(s), r.signature)
        BY <1>1, <1>2, <1>3, <1>4, <1>7, <2>1, <2>2, <2>3, LaidLonger
  <2> QED BY <2>4, <2>5
<1>8. CASE s.current # BlockOf[p.kind]
  <2>1. PICK o : OpenedFrom(o, z, s, BlockOf[p.kind]) /\ WrittenFrom(y, o, Shows(p.kind, p.n))
        BY <1>8 DEF PieceFrom
  <2>2. BlockOf[p.kind] = "thinking" => r.signature = IF p.kind = "signed" THEN p.n ELSE 0 BY <1>8
  <2> QED BY <1>1, <1>2, <1>3, <1>4, <1>5, <1>6, <1>8, <2>1, <2>2, LaidOpens
<1> QED BY <1>7, <1>8

LEMMA FacesLast ==
  ASSUME NEW P \in Seq(CloudPieces), NEW p \in CloudPieces, NotEmpty(p), NEW r,
         r.current = IF p.kind = "image" THEN "none" ELSE BlockOf[p.kind]
  PROVE  Facing(r, Append(P, p))
<1> DEFINE q == Append(P, p)
<1>1. Len(q) = Len(P) + 1 /\ q[Len(P) + 1] = p /\ Len(P) \in Nat /\ q \in Seq(CloudPieces) BY OnePartMore
<1> HIDE DEF q
<1>2. q[Len(q)] = p /\ q # <<>> BY <1>1
<1>3. p.kind # "image" => BlockOf[p.kind] # "none"
  <2>1. p.kind \in {"thought", "signed", "blank", "text", "call", "image"} BY DEF CloudPieces, CloudKinds, NotEmpty
  <2> QED BY <2>1 DEF BlockOf
<1> QED BY <1>2, <1>3 DEF Facing, q

\* What a part makes of a message that shows those before it.
LEMMA LaidPart ==
  ASSUME NEW s, NEW m, NEW z, CloudOK(s, m, z, 0), NEW P, NEW N \in Nat, Laid(s, z, P, N),
         NEW p \in CloudPieces, p.n = N + 1,
         NEW r, NEW y, CloudOK(r, m, y, 0), PartFrom(r, y, s, z, p)
  PROVE  Laid(r, y, IF NotEmpty(p) THEN Append(P, p) ELSE P, N + 1)
<1>1. Numbered(P, N) /\ Facing(s, P) /\ LaidOut(z, P, OpenOf(s), s.signature) /\ P \in Seq(CloudPieces)
      BY DEF Laid, Numbered
<1>2. CASE ~NotEmpty(p)
  <2>1. r = s /\ y = z BY <1>2 DEF NotEmpty, PartFrom
  <2>2. Numbered(P, N + 1)
    <3>1. 1..N \subseteq 1..(N + 1) OBVIOUS
    <3> QED BY <1>1, <3>1 DEF Numbered
  <2> QED BY <1>1, <1>2, <2>1, <2>2 DEF Laid
<1>3. CASE NotEmpty(p)
  <2>1. p.kind \in {"thought", "signed", "blank", "text", "call", "image"}
        BY <1>3 DEF CloudPieces, CloudKinds, NotEmpty
  <2>2. Numbered(Append(P, p), N + 1) BY <1>1, <1>3, NumberedMore
  <2>3. s.signature \in Nat /\ r.signature \in Nat /\ p.n # 0 /\ Len(z.blocks) \in Nat
        BY CloudEmitter DEF CloudOK, CloudRec
  <2>4. r.current = IF p.kind = "image" THEN "none" ELSE BlockOf[p.kind]
        BY <2>1 DEF PartFrom, BlockOf
  <2>5. Facing(r, Append(P, p)) BY <1>1, <1>3, <2>4, FacesLast
  <2>6. LaidOut(y, Append(P, p), OpenOf(r), r.signature)
    <3>1. CASE p.kind \in {"thought", "signed", "blank"}
      <4>1. BlockOf[p.kind] = "thinking" BY <3>1 DEF BlockOf
      <4>3. /\ PieceFrom(y, z, s, "thinking", Shows(p.kind, p.n))
            /\ r.signature = IF p.kind = "signed" THEN p.n
                             ELSE IF s.current = "thinking" THEN s.signature ELSE 0
            BY <3>1 DEF PartFrom
      <4>4. r.current = BlockOf[p.kind] BY <2>4, <3>1
      <4>5. PieceFrom(y, z, s, BlockOf[p.kind], Shows(p.kind, p.n)) BY <4>1, <4>3
      <4> QED BY <3>1, <4>3, <4>4, <4>5, LaidPiece
    <3>2. CASE p.kind = "text"
      <4>1. BlockOf[p.kind] = "text" BY <3>2 DEF BlockOf
      <4>2. PieceFrom(y, z, s, BlockOf[p.kind], Shows(p.kind, p.n)) BY <3>2, <4>1 DEF PartFrom
      <4>3. r.current = BlockOf[p.kind] /\ r.current # "thinking" BY <2>4, <3>2, <4>1
      <4> QED BY <3>2, <4>2, <4>3, LaidPiece
    <3>3. CASE p.kind \in {"call", "image"}
      <4>1. BlockOf["call"] = "tool" /\ BlockOf["image"] = "image" BY DEF BlockOf
      <4>2. PICK o : /\ OpenedFrom(o, z, s, BlockOf[p.kind])
                     /\ IF p.kind = "image"
                        THEN Len(y.blocks) = Len(o.blocks) /\ \A i \in 1..Len(o.blocks) : SameBlock(y, o, i)
                        ELSE WrittenFrom(y, o, Shows(p.kind, p.n))
            BY <3>3, <4>1 DEF PartFrom
      <4>3. Begins(Append(P, p), Len(P) + 1) BY <1>1, <1>3, <3>3, FaceBegins
      <4>4. OpenOf(r) = IF p.kind = "image" THEN 0 ELSE Len(y.blocks)
            BY <2>4, <3>3, <4>1, CloudEmitter DEF OpenOf
      <4>5. BlockOf[p.kind] # "thinking" BY <3>3, <4>1
      <4> QED BY <1>1, <2>3, <4>2, <4>3, <4>4, <4>5, LaidOpens
    <3> QED BY <2>1, <3>1, <3>2, <3>3
  <2> QED BY <1>3, <2>2, <2>5, <2>6 DEF Laid
<1> QED BY <1>2, <1>3

\* Once the call has returned, a message that is complete shows all the parts;
\* until then the message under way shows those received.
CloudShown ==
  /\ Numbered(Shown, Len(parts))
  /\ \A z : Delivers(wire, message, z) =>
       IF ended THEN z.phase = "done" => LaidOut(z, Shown, 0, 0)
       ELSE Laid(conv, z, Shown, Len(parts))

LEMMA LaidSame ==
  ASSUME NEW s, NEW z, NEW P, NEW N, Laid(s, z, P, N), NEW r, NEW y,
         r.current = s.current, r.index = s.index, r.signature = s.signature, y.blocks = z.blocks
  PROVE  Laid(r, y, P, N)
<1>1. Facing(r, P) BY DEF Laid, Facing
<1>2. OpenOf(r) = OpenOf(s) BY DEF OpenOf
<1>3. PICK rs : LaidBy(rs, z, P, OpenOf(s), s.signature) BY DEF Laid, LaidOut
<1>4. LaidBy(rs, y, P, OpenOf(s), s.signature) BY <1>3 DEF LaidBy
<1> QED BY <1>1, <1>2, <1>4 DEF Laid, LaidOut

LEMMA CloudShownInitially == ASSUME CloudInit PROVE CloudShown
<1>1. /\ wire = <<>> /\ message = NoMessage /\ parts = <<>> /\ ended = FALSE
      /\ conv.current = "none" /\ conv.signature = 0
      BY DEF CloudInit, WireInit
<1>2. parts \in Seq(CloudPieces) /\ Len(parts) = 0 BY <1>1
<1>3. Shown = <<>>
  <2>1. PICK g \in [0..Len(parts) -> Seq(CloudPieces)] : Leaves(g, parts) BY <1>2, LeavesExists
  <2>2. Visible(parts) = g[0] BY <1>2, <2>1, VisibleIs
  <2> QED BY <2>1, <2>2 DEF Leaves, Shown
<1>4. Numbered(<<>>, 0) BY DEF Numbered
<1>5. ASSUME NEW z, Delivers(wire, message, z) PROVE Laid(conv, z, Shown, Len(parts))
  <2>1. z = NoMessage BY <1>1, <1>5, NothingLeft
  <2>2. z.blocks = <<>> /\ Len(z.blocks) = 0 BY <2>1 DEF NoMessage
  <2>3. RunsOf(<<>>, 0, <<>>)
    <3>1. <<>> \in [1..0 -> [from : Nat, to : Nat]] OBVIOUS
    <3> QED BY <3>1 DEF RunsOf
  <2>4. LaidBy(<<>>, z, <<>>, 0, 0) BY <2>2, <2>3 DEF LaidBy
  <2>5. LaidOut(z, <<>>, 0, 0) BY <2>4 DEF LaidOut
  <2>6. OpenOf(conv) = 0 /\ Facing(conv, <<>>) BY <1>1 DEF OpenOf, Facing
  <2> QED BY <1>1, <1>2, <1>3, <1>4, <2>5, <2>6 DEF Laid
<1> QED BY <1>1, <1>2, <1>3, <1>4, <1>5 DEF CloudShown

\* The parts of a frame are shown after those before it.
LEMMA CloudPartsShow ==
  ASSUME NEW s, NEW m, NEW y, CloudOK(s, m, y, 0), ToolsKnown(s, y), NEW list \in Seq(CloudPieces),
         list # <<>> => s.started,
         NEW N \in Nat, \A i \in 1..Len(list) : list[i].n = N + i,
         NEW P, Laid(s, y, P, N), NEW g, g[0] = P,
         \A n \in 1..Len(list) : g[n] = IF NotEmpty(list[n]) THEN Append(g[n - 1], list[n]) ELSE g[n - 1]
  PROVE  LET t == FoldLeft(ConsumePart, s, list)
         IN \E x : CloudOK(t, m, x, 0) /\ ToolsKnown(t, x) /\ Laid(t, x, g[Len(list)], N + Len(list))
<1> DEFINE k == Len(list)
           X == {x \in CloudRec : x.started /\ \E w : CloudOK(x, m, w, 0) /\ ToolsKnown(x, w)}
<1>1. k \in Nat /\ \A i \in 1..k : list[i] \in CloudPieces OBVIOUS
<1>2. CASE list = <<>>
  <2>1. FoldLeft(ConsumePart, s, list) = s BY <1>2, NoParts
  <2>2. Len(list) = 0 /\ N + 0 = N BY <1>2
  <2> QED BY <2>1, <2>2
<1>3. CASE list # <<>>
  <2>1. s \in X BY <1>3 DEF CloudOK
  <2>2. ASSUME NEW x \in X, NEW f \in CloudPieces PROVE ConsumePart(x, f) \in X
    <3>1. PICK w : CloudOK(x, m, w, 0) /\ ToolsKnown(x, w) OBVIOUS
    <3> DEFINE r == ConsumePart(x, f)
    <3>2. r.started /\ \E v : CloudOK(r, m, v, 0) /\ ToolsKnown(r, v) BY <3>1, CloudPart
    <3>3. r \in CloudRec BY <3>2 DEF CloudOK
    <3> HIDE DEF r
    <3>4. r \in X BY <3>2, <3>3
    <3> QED BY <3>4 DEF r
  <2>a. \A x \in X : x.started OBVIOUS
  <2> HIDE DEF X
  <2>c. \A x \in X, f \in CloudPieces : ConsumePart(x, f) \in X BY <2>2
  <2>b. PICK t : PartsGo(t, X, s, list) BY <2>1, <2>c, PartsFold
  <2>3. /\ t \in [0..k -> X] /\ t[0] = s /\ t[k] = FoldLeft(ConsumePart, s, list)
        /\ \A n \in 1..k : t[n] = ConsumePart(t[n - 1], list[n])
        BY <2>b DEF PartsGo
  <2> DEFINE Fine(n) == \E x : CloudOK(t[n], m, x, 0) /\ ToolsKnown(t[n], x) /\ Laid(t[n], x, g[n], N + n)
             Bad == {n \in Nat : n <= k /\ ~Fine(n)}
  <2> HIDE DEF k
  <2>4. Fine(0)
    <3>1. N + 0 = N OBVIOUS
    <3> QED BY <2>3, <3>1
  <2>5. ASSUME NEW n \in 1..k, Fine(n - 1) PROVE Fine(n)
    <3> DEFINE b == t[n - 1]
               p == list[n]
               r == t[n]
    <3>1. n - 1 \in 0..k /\ n \in 0..k /\ N + (n - 1) + 1 = N + n /\ N + (n - 1) \in Nat BY <1>1
    <3>2. b.started BY <2>3, <2>a, <3>1
    <3>3. p \in CloudPieces /\ p.n = N + n BY <1>1 DEF k
    <3>4. PICK x : CloudOK(b, m, x, 0) /\ ToolsKnown(b, x) /\ Laid(b, x, g[n - 1], N + (n - 1)) BY <2>5
    <3>5. r = ConsumePart(b, p) BY <2>3
    <3>6. g[n] = IF NotEmpty(p) THEN Append(g[n - 1], p) ELSE g[n - 1] BY DEF k
    <3> HIDE DEF b, p, r
    <3>7. PICK w : CloudOK(r, m, w, 0) /\ ToolsKnown(r, w) /\ PartFrom(r, w, b, x, p)
          BY <3>2, <3>3, <3>4, <3>5, CloudPart
    <3> DEFINE l == N + (n - 1)
    <3>8. l \in Nat /\ p.n = l + 1 /\ l + 1 = N + n /\ Laid(b, x, g[n - 1], l) BY <3>1, <3>3, <3>4
    <3> HIDE DEF l
    <3>9. Laid(r, w, IF NotEmpty(p) THEN Append(g[n - 1], p) ELSE g[n - 1], l + 1)
          BY <3>3, <3>4, <3>7, <3>8, LaidPart
    <3>10. Laid(r, w, g[n], N + n) BY <3>6, <3>8, <3>9
    <3> QED BY <3>7, <3>10 DEF r
  <2> HIDE DEF Fine
  <2>6. Bad = {}
    <3> SUFFICES ASSUME Bad # {} PROVE FALSE OBVIOUS
    <3>1. PICK n \in Bad : \A j \in Bad : n <= j BY LeastNat
    <3>2. n \in Nat /\ n <= k /\ ~Fine(n) /\ n # 0 BY <2>4, <3>1
    <3>3. n \in 1..k /\ n - 1 \in Nat /\ n - 1 <= k /\ ~(n <= n - 1) BY <1>1, <3>2 DEF k
    <3>4. n - 1 \notin Bad
      <4> HIDE DEF Bad
      <4> QED BY <3>1, <3>3
    <3>5. Fine(n - 1) BY <3>3, <3>4
    <3> QED BY <2>5, <3>2, <3>3, <3>5
  <2>7. Fine(k)
    <3>1. k \in Nat /\ k <= k BY <1>1 DEF k
    <3> QED BY <2>6, <3>1
  <2> QED BY <2>3, <2>7 DEF Fine, k
<1> QED BY <1>2, <1>3

LEMMA CloudFrameShows ==
  ASSUME CloudInv, CloudShown, NEW kinds \in Seq(CloudKinds),
         NEW finish \in IF cutoff = "none" THEN {"none", "STOP", "MAX_TOKENS", "SAFETY"} ELSE {"none"},
         Frame(kinds, finish)
  PROVE  CloudShown'
<1> DEFINE numbered == [i \in DOMAIN kinds |-> [kind |-> kinds[i], n |-> Len(parts) + i]]
           s == IF conv.started \/ kinds = <<>> THEN conv
                ELSE [Adds(conv, <<MessageStart>>) EXCEPT !.started = TRUE]
           t == FoldLeft(ConsumePart, s, numbered)
           Told == [STOP |-> "end_turn", MAX_TOKENS |-> "max_tokens", SAFETY |-> "none", none |-> "none"]
           u == IF t.stop = "none" THEN [t EXCEPT !.stop = Told[finish]] ELSE t
           N == Len(parts)
           k == Len(numbered)
<1>1. CloudTypeOK /\ message \in Msg /\ ~ended /\ wire = <<>> BY DEF CloudInv, Frame
<1>2. CloudOK(conv, message, message, 0) /\ ToolsKnown(conv, message) /\ Laid(conv, message, Shown, N)
  <2>1. PICK z : Delivers(wire, message, z) /\ CloudOK(conv, z, z, 0) /\ ToolsKnown(conv, z)
        BY <1>1 DEF CloudInv
  <2>2. z = message BY <1>1, <2>1, NothingLeft
  <2> QED BY <1>1, <2>1, <2>2 DEF CloudShown
<1>3. /\ numbered \in Seq(CloudPieces) /\ \A i \in 1..Len(numbered) : numbered[i].n = N + i
      /\ N \in Nat /\ (numbered # <<>> => kinds # <<>>)
  <2>1. N \in Nat BY <1>1 DEF CloudTypeOK
  <2>2. DOMAIN kinds = 1..Len(kinds) /\ Len(kinds) \in Nat OBVIOUS
  <2>3. \A i \in 1..Len(kinds) : [kind |-> kinds[i], n |-> N + i] \in CloudPieces
        BY <2>1, <2>2 DEF CloudPieces
  <2>4. numbered \in Seq(CloudPieces) /\ Len(numbered) = Len(kinds) BY <2>2, <2>3
  <2>5. \A i \in 1..Len(kinds) : numbered[i].n = N + i BY <2>2
  <2>6. kinds = <<>> => Len(numbered) = 0 BY <2>4
  <2> HIDE DEF numbered
  <2>7. kinds = <<>> => numbered = <<>> BY <2>4, <2>6
  <2> QED BY <2>1, <2>4, <2>5, <2>7
<1>4. PICK y : /\ CloudOK(s, message, y, 0) /\ ToolsKnown(s, y) /\ Laid(s, y, Shown, N)
               /\ (kinds # <<>> => s.started)
  <2>1. CASE conv.started \/ kinds = <<>> BY <1>2, <2>1
  <2>2. CASE ~(conv.started \/ kinds = <<>>)
    <3>1. s = [Adds(conv, <<MessageStart>>) EXCEPT !.started = TRUE] BY <2>2
    <3> HIDE DEF s
    <3>2. /\ s.started /\ s.current = conv.current /\ s.signature = conv.signature /\ s.index = conv.index
          /\ \E y : CloudOK(s, message, y, 0) /\ ToolsKnown(s, y) /\ y.blocks = message.blocks
          BY <1>2, <2>2, <3>1, CloudStarts
    <3> QED BY <1>2, <3>2, LaidSame
  <2> QED BY <2>1, <2>2
<1>5. CloudGoes(u) /\ parts' = parts \o numbered /\ ended' = ended BY DEF Frame, s
<1> HIDE DEF s, numbered
<1>6. parts \in Seq(CloudPieces) BY <1>1 DEF CloudTypeOK
<1>7. /\ parts' \in Seq(CloudPieces) /\ Len(parts') = N + k /\ k \in Nat
      /\ \A i \in 1..N : parts'[i] = parts[i]
      /\ \A i \in 1..k : parts'[N + i] = numbered[i]
  <2> DEFINE w == parts \o numbered
  <2>1. w \in Seq(CloudPieces) /\ Len(w) = N + k /\ k \in Nat
        /\ (\A i \in 1..N : w[i] = parts[i]) /\ (\A i \in 1..k : w[N + i] = numbered[i])
        BY <1>3, <1>6
  <2> QED BY <1>5, <2>1
<1>8. PICK g \in [0..Len(parts') -> Seq(CloudPieces)] : Leaves(g, parts') BY <1>7, LeavesExists
<1> HIDE DEF N, k
<1>9. /\ g[0] = <<>>
      /\ \A n \in 1..(N + k) : g[n] = IF NotEmpty(parts'[n]) THEN Append(g[n - 1], parts'[n]) ELSE g[n - 1]
      BY <1>7, <1>8 DEF Leaves
<1>10. g[N] = Shown
  <2>1. \A n \in 1..N : n \in 1..(N + k) BY <1>3, <1>7
  <2>2. Leaves(g, parts) BY <1>7, <1>9, <2>1 DEF Leaves, N
  <2> QED BY <1>6, <2>2, VisibleIs DEF N, Shown
<1>11. g[N + k] = Shown' BY <1>7, <1>8, VisibleIs DEF Shown
<1> DEFINE h == [n \in 0..k |-> g[N + n]]
<1>12. /\ h[0] = Shown /\ h[k] = Shown'
       /\ \A n \in 1..k : h[n] = IF NotEmpty(numbered[n]) THEN Append(h[n - 1], numbered[n]) ELSE h[n - 1]
  <2>1. 0 \in 0..k /\ k \in 0..k /\ N + 0 = N BY <1>3, <1>7
  <2>2. ASSUME NEW n \in 1..k
        PROVE  h[n] = IF NotEmpty(numbered[n]) THEN Append(h[n - 1], numbered[n]) ELSE h[n - 1]
    <3>1. n \in 0..k /\ n - 1 \in 0..k /\ N + n \in 1..(N + k) /\ (N + n) - 1 = N + (n - 1)
          BY <1>3, <1>7
    <3>2. h[n] = g[N + n] /\ h[n - 1] = g[N + (n - 1)] BY <3>1
    <3> HIDE DEF h
    <3> QED BY <1>7, <1>9, <3>1, <3>2
  <2> QED BY <1>10, <1>11, <2>1, <2>2
<1> HIDE DEF h
<1>13. PICK x : CloudOK(t, message, x, 0) /\ ToolsKnown(t, x) /\ Laid(t, x, Shown', N + k)
  <2>1. \A i \in 1..Len(numbered) : numbered[i].n = N + i BY <1>3
  <2> HIDE DEF t
  <2>2. \E x : CloudOK(t, message, x, 0) /\ ToolsKnown(t, x) /\ Laid(t, x, h[Len(numbered)], N + Len(numbered))
        BY <1>3, <1>4, <1>12, <2>1, CloudPartsShow DEF k, t
  <2> QED BY <1>12, <2>2 DEF k
<1> HIDE DEF t
<1>14. Told[finish] \in StopReasons \cup {"none"} /\ Told[finish] # "tool_use"
  <2>1. finish \in Finishes BY DEF Finishes
  <2> QED BY <2>1 DEF Finishes, StopReasons
<1> HIDE DEF Told
<1>15. /\ u.current = t.current /\ u.index = t.index /\ u.signature = t.signature
       /\ CloudOK(u, message, x, 0) /\ ToolsKnown(u, x)
  <2>1. CASE t.stop = "none"
    <3>1. u = [t EXCEPT !.stop = Told[finish]] BY <2>1
    <3>2. t \in CloudRec BY <1>13 DEF CloudOK
    <3>3. u.signature = t.signature BY <3>1, <3>2 DEF CloudRec
    <3> HIDE DEF u
    <3>4. /\ u.stop = Told[finish] /\ u.current = t.current /\ u.index = t.index
          /\ CloudOK(u, message, x, 0)
          BY <1>13, <1>14, <3>1, CloudMarks
    <3> QED BY <1>13, <1>14, <2>1, <3>3, <3>4 DEF ToolsKnown
  <2>2. CASE t.stop # "none" BY <1>13, <2>2
  <2> QED BY <2>1, <2>2
<1> HIDE DEF u
<1>16. Delivers(wire', message', x) /\ message' = message BY <1>1, <1>5, <1>15, CloudSends
<1>17. conv'.current = u.current /\ conv'.index = u.index /\ conv'.signature = u.signature
  <2>1. u \in CloudRec BY <1>15 DEF CloudOK
  <2>2. conv' = [u EXCEPT !.out = <<>>] BY <1>5 DEF CloudGoes
  <2> QED BY <2>1, <2>2 DEF CloudRec
<1>18. Laid(conv', x, Shown', Len(parts')) BY <1>7, <1>13, <1>15, <1>17, LaidSame
<1>19. \A z : Delivers(wire', message', z) => z = x BY <1>1, <1>16, DeliversOne
<1>20. Numbered(Shown', Len(parts')) BY <1>18 DEF Laid
<1>21. ~ended' BY <1>1, <1>5
<1> QED BY <1>18, <1>19, <1>20, <1>21 DEF CloudShown

LEMMA CloudEndShows ==
  ASSUME CloudInv, CloudShown, NEW failed \in BOOLEAN, CloudEnds(failed)
  PROVE  CloudShown'
<1>1. /\ CloudTypeOK /\ message \in Msg
      /\ ~ended /\ wire = <<>> /\ conv.out = <<>>
      /\ ended' = TRUE /\ parts' = parts
      BY DEF CloudInv, CloudEnds
<1>2. CloudOK(conv, message, message, 0) /\ ToolsKnown(conv, message)
      /\ Laid(conv, message, Shown, Len(parts))
  <2>1. PICK z : Delivers(wire, message, z) /\ CloudOK(conv, z, z, 0) /\ ToolsKnown(conv, z)
        BY <1>1 DEF CloudInv
  <2>2. z = message BY <1>1, <2>1, NothingLeft
  <2> QED BY <1>1, <2>1, <2>2 DEF CloudShown
<1>3. conv \in CloudRec /\ At(Em(conv), message, message) BY <1>2 DEF CloudOK
<1>4. Shown' = Shown /\ Numbered(Shown', Len(parts')) BY <1>1 DEF Shown, CloudShown
<1>5. SUFFICES ASSUME NEW s, CloudGoes(s), NEW z, Delivers(s.out, message, z),
                      z.phase = "done" => LaidOut(z, Shown, 0, 0)
               PROVE  CloudShown'
  <2>1. CASE ~conv.started
    <3>1. CloudGoes(conv) BY <2>1 DEF CloudEnds
    <3>2. Delivers(conv.out, message, message) BY <1>1, DeliversNothing
    <3>3. message.phase = "none"
      <4>1. ~Em(conv).started BY <2>1 DEF Em
      <4> QED BY <1>3, <4>1 DEF At
    <3> QED BY <1>5, <3>1, <3>2, <3>3
  <2>2. CASE conv.started /\ failed
    <3> DEFINE s == Adds(conv, <<ErrorEvent>>)
    <3>1. CloudGoes(s) BY <2>2 DEF CloudEnds
    <3>2. s \in CloudRec /\ s = [conv EXCEPT !.out = Append(conv.out, ErrorEvent)]
          BY <1>3, EventsOf, AddsIs
    <3> HIDE DEF s
    <3>3. s.out = Append(conv.out, ErrorEvent) BY <1>3, <3>2 DEF CloudRec
    <3>4. PICK z : Delivers(EmitError(Em(conv)).out, message, z) /\ z \in Msg /\ z.phase = "failed"
          BY <1>3, ErrorOK
    <3>5. EmitError(Em(conv)).out = Append(conv.out, ErrorEvent) BY DEF EmitError, Emit, Em
    <3> QED BY <1>5, <3>1, <3>3, <3>4, <3>5
  <2>3. CASE conv.started /\ ~failed
    <3> DEFINE stop == IF conv.stop = "none" THEN "end_turn" ELSE conv.stop
               s == Adds(CloseCloud(conv), <<MessageDelta(stop), MessageStop>>)
    <3>1. CloudGoes(s) BY <2>3 DEF CloudEnds
    <3>2. \E z : Delivers(s.out, message, z) /\ SignedFrom(z, message, OpenOf(conv), conv.signature)
      <4>1. /\ s \in CloudRec /\ s.stop = conv.stop
            /\ \E z : /\ Delivers(s.out, message, z) /\ z \in Msg /\ z.phase = "done"
                      /\ z.stop = stop /\ (ToolShown(z) <=> ToolShown(message))
                      /\ SignedFrom(z, message, OpenOf(conv), conv.signature)
            BY <1>1, <1>2, <2>3, CloudEndsWell
      <4> HIDE DEF s
      <4> QED BY <4>1
    <3> HIDE DEF s
    <3>3. PICK z : Delivers(s.out, message, z) /\ SignedFrom(z, message, OpenOf(conv), conv.signature)
          BY <3>2
    <3>4. conv.signature \in Nat BY <1>3 DEF CloudRec
    <3>5. LaidOut(message, Shown, OpenOf(conv), conv.signature) /\ Shown \in Seq(CloudPieces)
          BY <1>2 DEF Laid, Numbered
    <3>6. LaidOut(z, Shown, 0, 0) BY <3>3, <3>4, <3>5, LaidCloses
    <3> QED BY <1>5, <3>1, <3>3, <3>6
  <2> QED BY <2>1, <2>2, <2>3
<1>6. wire' = s.out /\ message' = message BY <1>5 DEF CloudGoes, Send
<1>7. \A x : Delivers(wire', message', x) => x = z BY <1>1, <1>5, <1>6, DeliversOne
<1> QED BY <1>1, <1>4, <1>5, <1>7 DEF CloudShown

LEMMA CloudShownStep ==
  ASSUME CloudInv, CloudShown, CloudNext PROVE CloudShown'
<1>1. CASE Take /\ UNCHANGED <<conv, parts, cutoff, ended>>
  <2>1. PICK z : Delivers(wire, message, z) BY DEF CloudInv
  <2>2. message \in Msg BY DEF CloudInv
  <2>3. message' \in Msg /\ Delivers(wire', message', z) BY <1>1, <2>1, <2>2, TakePromised
  <2>4. \A x : Delivers(wire', message', x) => x = z BY <2>3, DeliversOne
  <2>5. Shown' = Shown /\ conv' = conv /\ parts' = parts /\ ended' = ended BY <1>1 DEF Shown
  <2>6. /\ Numbered(Shown, Len(parts))
        /\ IF ended THEN z.phase = "done" => LaidOut(z, Shown, 0, 0)
           ELSE Laid(conv, z, Shown, Len(parts))
        BY <2>1 DEF CloudShown
  <2>7. IF ended' THEN z.phase = "done" => LaidOut(z, Shown', 0, 0)
        ELSE Laid(conv', z, Shown', Len(parts'))
        BY <2>5, <2>6
  <2>8. Numbered(Shown', Len(parts')) BY <2>5, <2>6
  <2> QED BY <2>4, <2>7, <2>8 DEF CloudShown
<1>2. ASSUME NEW kinds \in BoundedSeq(CloudKinds, MaxFrame),
             NEW finish \in IF cutoff = "none" THEN {"none", "STOP", "MAX_TOKENS", "SAFETY"} ELSE {"none"},
             Frame(kinds, finish)
      PROVE  CloudShown'
  <2>1. kinds \in Seq(CloudKinds) BY CloudStreamAssumption, BoundedIsSeq DEF CloudStreamAssumption
  <2> QED BY <1>2, <2>1, CloudFrameShows
<1> QED BY <1>1, <1>2, CloudEndShows DEF CloudNext

LEMMA CloudShownStill ==
  ASSUME CloudShown, UNCHANGED <<wire, message, conv, parts, cutoff, ended>> PROVE CloudShown'
<1>1. Shown' = Shown /\ conv' = conv /\ parts' = parts /\ ended' = ended /\ wire' = wire /\ message' = message
      BY DEF Shown
<1> QED BY <1>1 DEF CloudShown

Heads(rs, k) == {rs[a].from : a \in 1..k}

LEMMA RunIs ==
  ASSUME NEW P, NEW rs, NEW n, RunsOf(rs, n, P), NEW b \in 1..n
  PROVE  /\ rs[b].from \in 1..Len(P) /\ rs[b].to \in rs[b].from..Len(P) /\ Begins(P, rs[b].from)
         /\ \A j \in (rs[b].from + 1)..rs[b].to : ~Begins(P, j)
         /\ \A j \in rs[b].from..rs[b].to : BlockOf[P[j].kind] = BlockOf[P[rs[b].from].kind]
         /\ \A a \in 1..(b - 1) : rs[a].to < rs[b].from
BY DEF RunsOf, ARun

LEMMA RunsInOrder ==
  ASSUME NEW P \in Seq(CloudPieces), NEW rs, NEW n, RunsOf(rs, n, P), NEW a \in 1..n, NEW b \in 1..n, a < b
  PROVE  rs[a].to < rs[b].from /\ rs[a].from < rs[b].from
<1>1. a \in 1..(b - 1) OBVIOUS
<1>2. rs[a].to < rs[b].from BY <1>1, RunIs
<1>3. rs[a].from \in 1..Len(P) /\ rs[a].to \in rs[a].from..Len(P) /\ rs[b].from \in 1..Len(P) BY RunIs
<1> DEFINE x == rs[a].from
           y == rs[a].to
           z == rs[b].from
<1>4. x \in 1..Len(P) /\ y \in x..Len(P) /\ z \in 1..Len(P) /\ y < z BY <1>2, <1>3
<1>5. Len(P) \in Nat OBVIOUS
<1> HIDE DEF x, y, z
<1>6. x < z BY <1>4, <1>5
<1> QED BY <1>2, <1>6 DEF x, z

\* As many runs begin as there are.
LEMMA HeadsCount ==
  ASSUME NEW P \in Seq(CloudPieces), NEW rs, NEW n, RunsOf(rs, n, P), NEW k \in 0..n
  PROVE  IsFiniteSet(Heads(rs, k)) /\ Cardinality(Heads(rs, k)) = k
<1> DEFINE f == [a \in 1..k |-> rs[a].from]
           S == 1..k
           T == Heads(rs, k)
<1>1. n \in Nat /\ \A a \in S : a \in 1..n BY DEF RunsOf
<1>2. ASSUME NEW a \in S, NEW b \in S, rs[a].from = rs[b].from PROVE a = b
  <2>1. a \in 1..n /\ b \in 1..n BY <1>1
  <2>2. rs[a].from \in 1..Len(P) /\ Len(P) \in Nat BY <2>1, RunIs
  <2> DEFINE x == rs[a].from
             y == rs[b].from
  <2>3. (a < b => x < y) /\ (b < a => y < x) BY <2>1, RunsInOrder
  <2>4. x = y /\ x \in 1..Len(P) BY <1>2, <2>2
  <2> HIDE DEF x, y
  <2>5. ~(a < b) /\ ~(b < a) BY <2>2, <2>3, <2>4
  <2> QED BY <2>1, <2>5
<1>3. f \in Bijection(S, T)
  <2>1. f \in [S -> T] BY DEF Heads
  <2>2. \A a, b \in S : f[a] = f[b] => a = b BY <1>2
  <2>3. \A t \in T : \E a \in S : f[a] = t BY DEF Heads
  <2> HIDE DEF f, S, T
  <2> QED BY <2>1, <2>2, <2>3 DEF Bijection, Injection, Surjection, IsInjective
<1>4. IsFiniteSet(S) /\ Cardinality(S) = k
  <2>1. k \in Nat BY <1>1
  <2>2. IsFiniteSet(1..k) /\ Cardinality(1..k) = IF 1 > k THEN 0 ELSE k - 1 + 1 BY <2>1, FS_Interval
  <2>3. 1 > k => k = 0 BY <2>1
  <2>4. k - 1 + 1 = k BY <2>1
  <2> QED BY <2>2, <2>3, <2>4
<1> HIDE DEF f, S, T
<1>5. IsFiniteSet(T) /\ Cardinality(T) = Cardinality(S) BY <1>3, <1>4, FS_Bijection DEF ExistsBijection
<1> QED BY <1>4, <1>5 DEF T

\* The parts where a run begins are the heads of the runs.
LEMMA HeadsAre ==
  ASSUME NEW P \in Seq(CloudPieces), NEW rs, NEW n, RunsOf(rs, n, P)
  PROVE  {i \in 1..Len(P) : Begins(P, i)} = Heads(rs, n)
<1>1. ASSUME NEW i \in 1..Len(P), Begins(P, i) PROVE i \in Heads(rs, n)
  <2>1. PICK b \in 1..n : i \in rs[b].from..rs[b].to BY DEF RunsOf
  <2> DEFINE x == rs[b].from
             y == rs[b].to
  <2>2. /\ x \in 1..Len(P) /\ y \in x..Len(P) /\ \A j \in (x + 1)..y : ~Begins(P, j)
        BY RunIs
  <2>3. i \in x..y /\ Len(P) \in Nat BY <2>1
  <2> HIDE DEF x, y
  <2>4. i # x => i \in (x + 1)..y BY <2>2, <2>3
  <2>5. i = x BY <1>1, <2>2, <2>4
  <2> QED BY <2>5 DEF Heads, x
<1>2. ASSUME NEW b \in 1..n PROVE rs[b].from \in 1..Len(P) /\ Begins(P, rs[b].from) BY RunIs
<1> QED BY <1>1, <1>2 DEF Heads

LEMMA HeadsUpTo ==
  ASSUME NEW P \in Seq(CloudPieces), NEW rs, NEW n, RunsOf(rs, n, P), NEW b \in 1..n
  PROVE  {j \in Heads(rs, n) : j <= rs[b].from} = Heads(rs, b)
<1>0. n \in Nat /\ \A a \in 1..b : a \in 1..n BY DEF RunsOf
<1>1. ASSUME NEW a \in 1..n, rs[a].from <= rs[b].from PROVE a \in 1..b
  <2> DEFINE x == rs[a].from
             y == rs[b].from
  <2>1. x \in 1..Len(P) /\ y \in 1..Len(P) /\ Len(P) \in Nat BY RunIs
  <2>2. b < a => y < x BY RunsInOrder
  <2>3. x <= y BY <1>1
  <2> HIDE DEF x, y
  <2>4. ~(b < a) BY <2>1, <2>2, <2>3
  <2> QED BY <1>0, <2>4
<1>2. ASSUME NEW a \in 1..b PROVE a \in 1..n /\ rs[a].from <= rs[b].from
  <2> DEFINE x == rs[a].from
             y == rs[b].from
  <2>0. a \in 1..n BY <1>0
  <2>1. x \in 1..Len(P) /\ y \in 1..Len(P) /\ Len(P) \in Nat BY <2>0, RunIs
  <2>2. a < b => x < y BY <2>0, RunsInOrder
  <2>3. a = b => x = y OBVIOUS
  <2> HIDE DEF x, y
  <2>4. a < b \/ a = b BY <1>0
  <2>5. x <= y BY <2>1, <2>2, <2>3, <2>4
  <2> QED BY <2>0, <2>5 DEF x, y
<1> QED BY <1>1, <1>2 DEF Heads

\* A run goes on until another begins.
LEMMA RunGoesTo ==
  ASSUME NEW P \in Seq(CloudPieces), NEW rs, NEW n, RunsOf(rs, n, P), NEW b \in 1..n
  PROVE  {j \in 1..Len(P) : j >= rs[b].from /\ \A k \in (rs[b].from + 1)..j : ~Begins(P, k)}
           = rs[b].from..rs[b].to
<1> DEFINE x == rs[b].from
           y == rs[b].to
           l == Len(P)
<1>1. /\ x \in 1..l /\ y \in x..l /\ l \in Nat /\ \A j \in (x + 1)..y : ~Begins(P, j)
      BY RunIs
<1>2. y + 1 \in 1..l => Begins(P, y + 1)
  <2> SUFFICES ASSUME y + 1 \in 1..l PROVE Begins(P, y + 1) OBVIOUS
  <2>1. PICK c \in 1..n : y + 1 \in rs[c].from..rs[c].to BY DEF RunsOf
  <2> DEFINE u == rs[c].from
             v == rs[c].to
  <2>2. /\ u \in 1..l /\ v \in u..l /\ Begins(P, u) /\ y + 1 \in u..v BY <2>1, RunIs
  <2>3. (b < c => y < u) /\ (c < b => v < x) /\ (b = c => v = y) BY RunsInOrder
  <2> HIDE DEF u, v, x, y, l
  <2>4. ~(c < b) /\ b # c BY <1>1, <2>2, <2>3
  <2>5. n \in Nat BY DEF RunsOf
  <2>6. b < c BY <2>4, <2>5
  <2>7. u = y + 1 BY <1>1, <2>2, <2>3, <2>6
  <2> QED BY <2>2, <2>7
<1> HIDE DEF x, y, l
<1>3. ASSUME NEW j \in 1..l, j >= x, \A k \in (x + 1)..j : ~Begins(P, k) PROVE j \in x..y
  <2> SUFFICES ASSUME j > y PROVE FALSE BY <1>1, <1>3
  <2>1. y + 1 \in 1..l /\ y + 1 \in (x + 1)..j BY <1>1, <1>3
  <2> QED BY <1>2, <1>3, <2>1
<1>4. ASSUME NEW j \in x..y PROVE j \in 1..l /\ j >= x /\ \A k \in (x + 1)..j : ~Begins(P, k)
  <2>1. j \in 1..l /\ j >= x /\ \A k \in (x + 1)..j : k \in (x + 1)..y BY <1>1
  <2> QED BY <1>1, <2>1
<1>5. {j \in 1..l : j >= x /\ \A k \in (x + 1)..j : ~Begins(P, k)} = x..y
      BY <1>3, <1>4
<1> QED BY <1>5 DEF x, y, l

\* The signature of a run is the last it has.
Signs(P, R) == {P[j].n : j \in {k \in R : P[k].kind = "signed"}}
LastOf(S) == CHOOSE n \in S : \A m \in S : m <= n

LEMMA SignIs ==
  ASSUME NEW P, NEW N \in Nat, Numbered(P, N), NEW i \in 1..Len(P), NEW e \in i..Len(P), NEW sig,
         IsSign(P, i, e, sig), NEW R, R = i..e
  PROVE  /\ Signs(P, R) = {} <=> sig = 0
         /\ Signs(P, R) # {} => LastOf(Signs(P, R)) = sig
<1> DEFINE S == Signs(P, R)
           Top(n) == n \in S /\ \A m \in S : m <= n
           c == CHOOSE n : Top(n)
<1>0. P \in Seq(CloudPieces) BY DEF Numbered
<1>1. \A j \in R : P[j].n \in 1..N
  <2>1. \A j \in i..e : j \in 1..Len(P) BY <1>0
  <2> QED BY <2>1 DEF Numbered
<1>2. \A m \in S : m \in 1..N BY <1>1 DEF Signs
<1>3. CASE sig = 0
  <2>1. S = {} BY <1>3 DEF IsSign, Signs
  <2> QED BY <1>3, <2>1
<1>4. CASE sig # 0
  <2>1. Top(sig) BY <1>4 DEF IsSign, Signs
  <2>2. Top(c) BY <2>1
  <2>a. LastOf(S) = c BY DEF LastOf
  <2>b. sig \in S /\ c \in S /\ sig <= c /\ c <= sig BY <2>1, <2>2
  <2> HIDE DEF c, S
  <2>3. sig \in 1..N /\ c \in 1..N BY <1>2, <2>b
  <2>4. c = sig BY <2>b, <2>3
  <2>5. S # {} BY <2>b
  <2> QED BY <1>4, <2>a, <2>4, <2>5 DEF S
<1> QED BY <1>3, <1>4

\* Cloud Code's parts are shown, one block for each run of them.
LEMMA CloudSaysIt == ASSUME CloudInv, CloudShown PROVE CloudExact
<1> DEFINE runs == {i \in DOMAIN Shown : RunBegins(i)}
           Run(i) == {j \in DOMAIN Shown : j >= i /\ \A k \in (i + 1)..j : ~RunBegins(k)}
           BlockAt(i) == message.blocks[Cardinality({j \in runs : j <= i})]
           Signed(i) == {Shown[j].n : j \in {k \in Run(i) : Shown[k].kind = "signed"}}
           Text(i) == [k \in 1..Cardinality(Run(i)) |-> Shows(Shown[i + k - 1].kind, Shown[i + k - 1].n)]
           Told(i) == CASE Shown[i].kind = "image" -> <<>>
                        [] Signed(i) # {} -> Append(Text(i), Signature(CHOOSE n \in Signed(i) : \A m \in Signed(i) : m <= n))
                        [] OTHER -> Text(i)
<1>1. SUFFICES ASSUME CloudConcluded
               PROVE  /\ Len(message.blocks) = Cardinality(runs)
                      /\ \A i \in runs : BlockAt(i).kind = BlockOf[Shown[i].kind] /\ BlockAt(i).text = Told(i)
      BY DEF CloudExact
<1>2. ended /\ wire = <<>> /\ message.phase = "done" BY <1>1 DEF CloudConcluded
<1>3. LaidOut(message, Shown, 0, 0) /\ Numbered(Shown, Len(parts)) /\ Len(parts) \in Nat
  <2>1. PICK z : Delivers(wire, message, z) BY DEF CloudInv
  <2>2. z = message /\ message \in Msg BY <1>2, <2>1, NothingLeft DEF CloudInv
  <2>3. Len(parts) \in Nat BY DEF CloudInv, CloudTypeOK
  <2> QED BY <1>2, <2>1, <2>2, <2>3 DEF CloudShown
<1> DEFINE P == Shown
           n == Len(message.blocks)
<1>4. PICK rs : LaidBy(rs, message, P, 0, 0) BY <1>3 DEF LaidOut
<1>5. RunsOf(rs, n, P) /\ P \in Seq(CloudPieces) /\ DOMAIN P = 1..Len(P) /\ n \in Nat
      BY <1>3, <1>4 DEF LaidBy, Numbered, RunsOf
<1>6. \A i : RunBegins(i) <=> Begins(P, i) BY DEF RunBegins, Begins
<1>7. runs = Heads(rs, n) BY <1>5, <1>6, HeadsAre
<1>8. Cardinality(runs) = n
  <2>1. n \in 0..n BY <1>5
  <2> HIDE DEF runs, n, P
  <2> QED BY <1>5, <1>7, <2>1, HeadsCount
<1>9. ASSUME NEW b \in 1..n
      PROVE  BlockAt(rs[b].from).kind = BlockOf[P[rs[b].from].kind] /\ BlockAt(rs[b].from).text = Told(rs[b].from)
  <2> DEFINE i == rs[b].from
             e == rs[b].to
  <2>1. /\ i \in 1..Len(P) /\ e \in i..Len(P)
        /\ \A j \in i..e : BlockOf[P[j].kind] = BlockOf[P[i].kind]
        BY <1>5, RunIs
  <2>2. BlockAt(i) = message.blocks[b]
    <3>1. {j \in runs : j <= i} = Heads(rs, b) BY <1>5, <1>7, HeadsUpTo
    <3>2. b \in 0..n BY <1>5
    <3>3. Cardinality(Heads(rs, b)) = b BY <1>5, <3>2, HeadsCount
    <3> QED BY <3>1, <3>3
  <2>3. Run(i) = i..e BY <1>5, <1>6, RunGoesTo
  <2>4. Cardinality(Run(i)) = e - i + 1
    <3>1. i \in Int /\ e \in Int /\ ~(i > e)
      <4>1. i \in 1..Len(P) /\ e \in i..Len(P) /\ Len(P) \in Nat BY <1>5, <2>1
      <4> HIDE DEF i, e
      <4> QED BY <4>1
    <3>2. Cardinality(i..e) = IF i > e THEN 0 ELSE e - i + 1 BY <3>1, FS_Interval
    <3> QED BY <2>3, <3>1, <3>2
  <2>5. Text(i) = Saying(P, i, e) BY <2>4 DEF Saying
  <2>6. PICK sig \in Nat : IsSign(P, i, e, sig) /\ Holds(message.blocks[b], P, i, e, sig)
    <3>1. LaidBlock(message.blocks[b], P, i, e, b = 0, 0) BY <1>4 DEF LaidBy
    <3>2. b # 0 BY <1>5
    <3> QED BY <3>1, <3>2 DEF LaidBlock, Finished
  <2>a. Signed(i) = Signs(P, Run(i)) BY DEF Signs
  <2>b. LastOf(Signed(i)) = CHOOSE x \in Signed(i) : \A m \in Signed(i) : m <= x BY DEF LastOf
  <2>7. (Signed(i) = {} <=> sig = 0) /\ (Signed(i) # {} => LastOf(Signed(i)) = sig)
    <3> HIDE DEF Run, Signed, i, e
    <3> QED BY <1>3, <2>1, <2>3, <2>6, <2>a, SignIs
  <2>8. P[i].kind = "image" => Signed(i) = {}
    <3>1. BlockOf["signed"] = "thinking" /\ BlockOf["image"] = "image" BY DEF BlockOf
    <3> QED BY <2>1, <2>3, <3>1
  <2>9. message.blocks[b].kind = BlockOf[P[i].kind] /\ message.blocks[b].text = TextOf(P, i, e, sig)
        BY <2>6 DEF Holds
  <2>c. Told(i) = CASE P[i].kind = "image" -> <<>>
                    [] Signed(i) # {} -> Append(Text(i), Signature(LastOf(Signed(i))))
                    [] OTHER -> Text(i)
        BY <2>b
  <2> HIDE DEF Signed, Text, Run, BlockAt, Told, i, e
  <2>10. Told(i) = TextOf(P, i, e, sig)
    <3>1. CASE P[i].kind = "image" BY <2>8, <2>c, <3>1 DEF TextOf
    <3>2. CASE P[i].kind # "image" /\ sig = 0 BY <2>5, <2>7, <2>c, <3>2 DEF TextOf
    <3>3. CASE P[i].kind # "image" /\ sig # 0 BY <2>5, <2>7, <2>c, <3>3 DEF TextOf
    <3> QED BY <3>1, <3>2, <3>3
  <2> QED BY <2>2, <2>9, <2>10 DEF i
<1>10. ASSUME NEW i \in runs PROVE BlockAt(i).kind = BlockOf[Shown[i].kind] /\ BlockAt(i).text = Told(i)
  <2>1. PICK b \in 1..n : i = rs[b].from BY <1>7 DEF Heads
  <2>2. BlockAt(rs[b].from).kind = BlockOf[P[rs[b].from].kind] /\ BlockAt(rs[b].from).text = Told(rs[b].from)
        BY <1>9
  <2> HIDE DEF BlockAt, Told, runs, n
  <2> QED BY <2>1, <2>2
<1> QED BY <1>8, <1>10

-----------------------------------------------------------------------------
(* All of them *)

\* The invariant of what the translator that the instance runs has shown.
AnswersInv ==
  /\ StreamsInv
  /\ part = "responses" => RShown
  /\ part = "chat" => ChatShown
  /\ part = "cloud" => CloudShown

LEMMA AnswersInitially == Init => AnswersInv
<1> SUFFICES ASSUME Init PROVE AnswersInv OBVIOUS
<1>1. StreamsInv BY StreamsInitially
<1>2. part = "responses" => RShown BY RShownInitially DEF Init
<1>3. part = "chat" => ChatShown BY ChatShownInitially DEF Init
<1>4. part = "cloud" => CloudShown BY CloudShownInitially DEF Init
<1> QED BY <1>1, <1>2, <1>3, <1>4 DEF AnswersInv

\* A step keeps the invariant.
LEMMA AnswersStep == ASSUME AnswersInv, [Next]_vars PROVE AnswersInv'
<1>0. StreamsInv' BY StreamsStep DEF AnswersInv
<1>1. CASE UNCHANGED vars
  <2>1. /\ UNCHANGED <<wire, message, zr, answer, tagged, zup>>
        /\ UNCHANGED <<wire, message, cs, gate, cup>>
        /\ UNCHANGED <<wire, message, conv, parts, cutoff, ended>>
        /\ part' = part
        BY <1>1 DEF vars, Streams, responses, chat, cloud
  <2>2. part = "responses" => RShown' BY <2>1, RShownStill DEF AnswersInv
  <2>3. part = "chat" => ChatShown' BY <2>1, ChatShownStill DEF AnswersInv
  <2>4. part = "cloud" => CloudShown' BY <2>1, CloudShownStill DEF AnswersInv
  <2> QED BY <1>0, <2>1, <2>2, <2>3, <2>4 DEF AnswersInv
<1>2. CASE part' = part /\ part \in {"one request", "two requests"} /\ UNCHANGED Streams
  BY <1>0, <1>2 DEF AnswersInv
<1>3. CASE part' = part /\ part = "responses" /\ ResponsesNext
  <2>1. RInv /\ RShown BY <1>3 DEF AnswersInv, StreamsInv
  <2>2. RShown' BY <1>3, <2>1, RShownStep
  <2> QED BY <1>0, <1>3, <2>2 DEF AnswersInv
<1>4. CASE part' = part /\ part = "chat" /\ ChatNext
  <2>1. ChatInv /\ ChatShown BY <1>4 DEF AnswersInv, StreamsInv
  <2>2. ChatShown' BY <1>4, <2>1, ChatShownStep
  <2> QED BY <1>0, <1>4, <2>2 DEF AnswersInv
<1>5. CASE part' = part /\ part = "cloud" /\ CloudNext
  <2>1. CloudInv /\ CloudShown BY <1>5 DEF AnswersInv, StreamsInv
  <2>2. CloudShown' BY <1>5, <2>1, CloudShownStep
  <2> QED BY <1>0, <1>5, <2>2 DEF AnswersInv
<1> QED BY <1>1, <1>2, <1>3, <1>4, <1>5 DEF Next

THEOREM AnswersSound == Spec => []AnswersInv
<1>1. Init => AnswersInv BY AnswersInitially
<1>2. AnswersInv /\ [Next]_vars => AnswersInv' BY AnswersStep
<1> QED BY <1>1, <1>2, PTL DEF Spec

\* What upstream said reaches the client once, in order and in blocks of its
\* kind; thinking keeps the signature of its own run; a call has one block and
\* arguments of its own, whole unless another block was opened before they were;
\* a gate call has none (responsesstream.go 402-757, chatwire.go 1048-1291,
\* format/stream.go 69-222).
THEOREM AnswerShownExactly == Spec => []AnswerExact
<1>1. AnswersInv => AnswerExact
  <2> SUFFICES ASSUME AnswersInv PROVE AnswerExact OBVIOUS
  <2>1. part = "responses" => ResponsesExact /\ ResponsesCallsWhole
        BY ResponsesSayIt, ResponsesCallsAreWhole DEF AnswersInv, StreamsInv
  <2>2. part = "chat" => ChatExact /\ ChatCallsWhole BY ChatSaysIt DEF AnswersInv, StreamsInv
  <2>3. part = "cloud" => CloudExact BY CloudSaysIt DEF AnswersInv, StreamsInv
  <2> QED BY <2>1, <2>2, <2>3 DEF AnswerExact
<1> QED BY <1>1, AnswersSound, PTL
=============================================================================
