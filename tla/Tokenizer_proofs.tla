---------------------------- MODULE Tokenizer_proofs ----------------------------
(******************************************************************************)
(* The tokenizer on the abstract trie finds the longest match, however the    *)
(* text arrives.                                                              *)
(******************************************************************************)
EXTENDS Tokenizer, NaturalsInduction, WellFoundedInduction, SequenceTheorems, TLAPS

Letters == [c : Chars, at : Nat]

Codes == {"CONTINUE", "EXIT", "BUFFER_END", "BUFFER_END_ON_SKIP"}

TokenizerTypeOK ==
  /\ encoding \in Trie!Encodings /\ options \in [Trie!OptionFields -> BOOLEAN]
  /\ text \in Seq(Chars) /\ received \in 2..Len(text) /\ from \in 1..(received - 1)
  /\ resumed \in BOOLEAN /\ code \in Codes
  /\ st \in Trie!TrieState /\ st.req_position < received

--------------------------------------------------------------------------------
(* Numbers and recursion.                                                     *)

\* A set of numbers has a least: what an induction over positions needs.
LEMMA Least ==
  ASSUME NEW T \in SUBSET Nat, NEW t \in T
  PROVE  \E n \in T : \A m \in T : n <= m
<1> DEFINE R == {ss \in Nat \X Nat : ss[1] < ss[2]}
<1>1. IsWellFoundedOn(R, Nat)
  BY NatLessThanWellFounded DEF OpToRel
<1>2. ASSUME NEW m \in Nat, NEW n \in Nat, <<m, n>> \notin R PROVE n <= m
  <2>1. <<m, n>> \in Nat \X Nat /\ <<m, n>>[1] = m /\ <<m, n>>[2] = n
    OBVIOUS
  <2> QED
    BY <1>2, <2>1
<1> HIDE DEF R
<1>3. \E n \in T : \A m \in T : <<m, n>> \notin R
  BY <1>1, WFMin
<1> QED
  BY <1>2, <1>3

\* A set of positions that holds the last one, and the one before each it holds,
\* holds all: induction towards the start of a text.
LEMMA Backwards ==
  ASSUME NEW N \in Nat, NEW Q \in SUBSET (0..N), N \in Q,
         \A n \in 0..(N - 1) : n + 1 \in Q => n \in Q
  PROVE  Q = 0..N
<1> SUFFICES ASSUME NEW p \in 0..N, p \notin Q PROVE FALSE
  OBVIOUS
<1> DEFINE T == {m \in Nat : m <= N /\ N - m \notin Q}
<1>1. N - p \in T
  OBVIOUS
<1>2. T \in SUBSET Nat
  OBVIOUS
<1>3. PICK m \in T : \A k \in T : m <= k
  <2> HIDE DEF T
  <2> QED
    BY <1>1, <1>2, Least
<1>4. m \in Nat /\ m <= N /\ m # 0 /\ N - m \notin Q
  OBVIOUS
<1>5. m - 1 \notin T
  BY <1>3, <1>4
<1>6. (N - m) + 1 \in Q
  BY <1>4, <1>5
<1> QED
  BY <1>4, <1>6

\* Said is what its definition says: the recursion ends, as it goes on towards the
\* end of the text.
LEMMA SaidIs ==
  ASSUME text \in Seq(Chars)
  PROVE
  Said = [p \in 0..(Len(text) + 1) |->
            IF p >= Len(text) THEN <<>>
            ELSE IF ~options.escape_chars \/ text[p + 1] # "\\"
            THEN <<[c |-> text[p + 1], at |-> p]>> \o Said[p + 1]
            ELSE IF p + 1 = Len(text) THEN <<>>
            ELSE <<[c |-> Trie!Unescape(text[p + 2]), at |-> p + 1]>> \o Said[p + 2]]
<1> DEFINE F(g, p) ==
      IF p >= Len(text) THEN <<>>
      ELSE IF ~options.escape_chars \/ text[p + 1] # "\\"
      THEN <<[c |-> text[p + 1], at |-> p]>> \o g[p + 1]
      ELSE IF p + 1 = Len(text) THEN <<>>
      ELSE <<[c |-> Trie!Unescape(text[p + 2]), at |-> p + 1]>> \o g[p + 2]
<1> DEFINE N == Len(text) + 1
<1> DEFINE Some(n) == \E g : g = [p \in n..N |-> F(g, p)]
<1> DEFINE Q == {n \in 0..N : Some(n)}
<1>0. N \in Nat /\ Len(text) \in Nat /\ N > Len(text)
  OBVIOUS
<1>1. N \in Q
  <2> DEFINE g == [p \in N..N |-> <<>>]
  <2>1. \A p \in N..N : F(g, p) = <<>>
    BY <1>0
  <2>2. g = [p \in N..N |-> F(g, p)]
    BY <2>1
  <2> HIDE DEF F, g
  <2>3. Some(N)
    BY <2>2
  <2> QED
    BY <2>3, <1>0
<1>2. ASSUME NEW n \in 0..(N - 1), n + 1 \in Q PROVE n \in Q
  <2>1. PICK g : g = [p \in (n + 1)..N |-> F(g, p)]
    BY <1>2
  <2> DEFINE h == [p \in n..N |-> IF p = n THEN F(g, n) ELSE g[p]]
  <2>2. ASSUME NEW p \in n..N PROVE h[p] = F(h, p)
    <3>1. \A q \in (n + 1)..N : h[q] = g[q]
      BY <1>0
    <3>2. p < Len(text) => h[p + 1] = g[p + 1]
      BY <3>1, <1>0
    <3>3. p < Len(text) => h[p + 2] = g[p + 2]
      BY <3>1, <1>0
    <3>4. F(h, p) = F(g, p)
      <4> HIDE DEF h
      <4> QED
        BY <3>2, <3>3, <1>0
    <3>5. p # n => p \in (n + 1)..N /\ g[p] = F(g, p)
      <4> HIDE DEF F
      <4> QED
        BY <2>1, <1>0
    <3>6. h[p] = F(g, p)
      <4> HIDE DEF F
      <4> QED
        BY <3>5
    <3> QED
      BY <3>4, <3>6
  <2>3. h = [p \in n..N |-> h[p]]
    OBVIOUS
  <2> HIDE DEF F, h
  <2>4. h = [p \in n..N |-> F(h, p)]
    BY <2>2, <2>3
  <2> QED
    BY <2>4, <1>0
<1>3. 0 \in Q
  <2> HIDE DEF Q
  <2>1. Q \in SUBSET (0..N)
    BY DEF Q
  <2>2. Q = 0..N
    BY <1>0, <1>1, <1>2, <2>1, Backwards
  <2> QED
    BY <2>2, <1>0
<1>4. \E g : g = [p \in 0..N |-> F(g, p)]
  <2> HIDE DEF F
  <2> QED
    BY <1>3
<1>5. Said = CHOOSE g : g = [p \in 0..N |-> F(g, p)]
  BY DEF Said
<1>6. Said = [p \in 0..N |-> F(Said, p)]
  <2> HIDE DEF F
  <2> QED
    BY <1>4, <1>5
<1> QED
  BY <1>6

\* Each step of it, as a fact of its own.
LEMMA SaidStep ==
  ASSUME text \in Seq(Chars), NEW p \in 0..(Len(text) + 1)
  PROVE  /\ p >= Len(text) => Said[p] = <<>>
         /\ p < Len(text) /\ (~options.escape_chars \/ text[p + 1] # "\\") =>
              Said[p] = <<[c |-> text[p + 1], at |-> p]>> \o Said[p + 1]
         /\ p + 1 = Len(text) /\ options.escape_chars /\ text[p + 1] = "\\" => Said[p] = <<>>
         /\ p + 1 < Len(text) /\ options.escape_chars /\ text[p + 1] = "\\" =>
              Said[p] = <<[c |-> Trie!Unescape(text[p + 2]), at |-> p + 1]>> \o Said[p + 2]
<1>1. Len(text) \in Nat
  OBVIOUS
<1>2. Said[p] = IF p >= Len(text) THEN <<>>
            ELSE IF ~options.escape_chars \/ text[p + 1] # "\\"
            THEN <<[c |-> text[p + 1], at |-> p]>> \o Said[p + 1]
            ELSE IF p + 1 = Len(text) THEN <<>>
            ELSE <<[c |-> Trie!Unescape(text[p + 2]), at |-> p + 1]>> \o Said[p + 2]
  BY SaidIs, Zenon
<1> QED
  BY <1>1, <1>2

\* What an escape stands for is a character.
LEMMA UnescapeTyped ==
  ASSUME Typed, NEW c \in Chars
  PROVE  Trie!Unescape(c) \in Chars
BY DEF Typed, Trie!CodeChars, Trie!Unescape

\* What a text says is a sequence of characters at positions.
LEMMA SaidTyped ==
  ASSUME Typed, text \in Seq(Chars)
  PROVE  \A p \in 0..(Len(text) + 1) : Said[p] \in Seq(Letters)
<1> DEFINE N == Len(text) + 1
<1> DEFINE Q == {p \in 0..N : Said[p] \in Seq(Letters) /\ (p < N => Said[p + 1] \in Seq(Letters))}
<1>0. N \in Nat /\ Len(text) \in Nat /\ N > Len(text)
  OBVIOUS
<1>1. N \in Q
  <2>0. N \in 0..(Len(text) + 1) /\ N >= Len(text) /\ N \in 0..N /\ ~(N < N)
    BY <1>0
  <2> HIDE DEF N
  <2>1. Said[N] = <<>>
    BY <2>0, SaidStep
  <2>2. <<>> \in Seq(Letters)
    OBVIOUS
  <2> QED
    BY <2>0, <2>1, <2>2
<1>2. ASSUME NEW p \in 0..(N - 1), p + 1 \in Q PROVE p \in Q
  <2>1. Said[p + 1] \in Seq(Letters) /\ (p + 1 < N => Said[p + 2] \in Seq(Letters))
    <3>1. p + 1 < N => p + 1 + 1 = p + 2
      OBVIOUS
    <3> QED
      BY <1>2, <3>1
  <2>2. p < Len(text) => [c |-> text[p + 1], at |-> p] \in Letters
    <3>1. p < Len(text) => text[p + 1] \in Chars
      BY <1>0
    <3> QED
      BY <3>1 DEF Letters
  <2>3. p + 1 < Len(text) => [c |-> Trie!Unescape(text[p + 2]), at |-> p + 1] \in Letters
    <3>1. p + 1 < Len(text) => text[p + 2] \in Chars
      BY <1>0
    <3>2. p + 1 < Len(text) => Trie!Unescape(text[p + 2]) \in Chars
      BY <3>1, UnescapeTyped
    <3> QED
      BY <3>2 DEF Letters
  <2>4. \A l \in Letters, s \in Seq(Letters) : <<l>> \o s \in Seq(Letters)
    OBVIOUS
  <2>5. p < Len(text) => p + 1 < N
    BY <1>0
  <2>6. p \in 0..(Len(text) + 1)
    BY <1>0
  <2>7. (p >= Len(text) \/ p + 1 = Len(text) \/ p + 1 < Len(text)) /\ p \in Nat
    BY <1>0
  <2>8. <<>> \in Seq(Letters)
    OBVIOUS
  <2>9. Said[p] \in Seq(Letters)
    <3> HIDE DEF Q, N
    <3>1. CASE p >= Len(text)
      BY <3>1, <2>6, <2>8, SaidStep
    <3>2. CASE p < Len(text) /\ (~options.escape_chars \/ text[p + 1] # "\\")
      BY <3>2, <2>1, <2>2, <2>4, <2>6, SaidStep
    <3>3. CASE p + 1 = Len(text) /\ options.escape_chars /\ text[p + 1] = "\\"
      BY <3>3, <2>6, <2>8, SaidStep
    <3>4. CASE p + 1 < Len(text) /\ options.escape_chars /\ text[p + 1] = "\\"
      <4>1. p < Len(text) /\ p + 1 < N
        BY <3>4, <2>5, <2>7, <1>0
      <4> QED
        BY <3>4, <4>1, <2>1, <2>3, <2>4, <2>6, SaidStep
    <3> QED
      BY <3>1, <3>2, <3>3, <3>4, <2>7, <1>0
  <2> QED
    BY <2>1, <2>9
<1> HIDE DEF Q
<1>3. Q \in SUBSET (0..N)
  BY DEF Q
<1>4. Q = 0..N
  BY <1>0, <1>1, <1>2, <1>3, Backwards
<1> QED
  BY <1>4 DEF Q

\* What a text says from a position on stands there or behind it.
LEMMA SaidBehind ==
  ASSUME Typed, text \in Seq(Chars)
  PROVE  \A p \in 0..(Len(text) + 1) : \A i \in 1..Len(Said[p]) : Said[p][i].at >= p
<1> DEFINE N == Len(text) + 1
<1> DEFINE Behind(p) == \A i \in 1..Len(Said[p]) : Said[p][i].at >= p
<1> DEFINE Q == {p \in 0..N : Behind(p) /\ (p < N => Behind(p + 1))}
<1>0. N \in Nat /\ Len(text) \in Nat /\ N > Len(text)
  OBVIOUS
<1>1. ASSUME NEW p \in 0..N, Said[p] = <<>> PROVE Behind(p)
  BY <1>1
<1>2. ASSUME NEW p \in Nat, NEW q \in Nat, q > p, q <= N, Behind(q),
             NEW l \in Letters, l.at >= p, Said[p] = <<l>> \o Said[q]
      PROVE  Behind(p)
  <2>1. Said[q] \in Seq(Letters)
    BY <1>2, SaidTyped
  <2> DEFINE s == Said[q]
  <2>2. /\ Len(<<l>> \o s) = 1 + Len(s) /\ (<<l>> \o s)[1] = l /\ Len(s) \in Nat
        /\ \A i \in 2..(1 + Len(s)) : (<<l>> \o s)[i] = s[i - 1]
    BY <2>1
  <2>3. \A i \in 1..Len(s) : s[i].at >= q /\ s[i].at \in Nat
    <3>1. \A i \in 1..Len(s) : s[i] \in Letters
      BY <2>1
    <3> QED
      BY <1>2, <3>1 DEF Letters
  <2> HIDE DEF s
  <2>4. \A i \in 1..(1 + Len(s)) : (<<l>> \o s)[i].at >= p
    <3> SUFFICES ASSUME NEW i \in 1..(1 + Len(s)) PROVE (<<l>> \o s)[i].at >= p
      OBVIOUS
    <3>1. CASE i = 1
      BY <3>1, <2>2, <1>2
    <3>2. CASE i # 1
      <4>1. i \in 2..(1 + Len(s)) /\ i - 1 \in 1..Len(s)
        BY <3>2, <2>2
      <4>2. s[i - 1].at >= q /\ s[i - 1].at \in Nat
        BY <4>1, <2>3
      <4> QED
        BY <4>1, <4>2, <2>2, <1>2
    <3> QED
      BY <3>1, <3>2
  <2> QED
    BY <1>2, <2>2, <2>4 DEF s
<1>3. N \in Q
  <2>0. N \in 0..N /\ N >= Len(text) /\ N \in 0..(Len(text) + 1)
    BY <1>0
  <2>1. Said[N] = <<>>
    BY <2>0, SaidStep
  <2>2. Behind(N)
    BY <2>0, <1>1, <2>1
  <2> HIDE DEF Behind
  <2> QED
    BY <1>0, <2>2
<1>4. ASSUME NEW p \in 0..(N - 1), p + 1 \in Q PROVE p \in Q
  <2> HIDE DEF Behind
  <2>1. Behind(p + 1) /\ (p + 1 < N => Behind(p + 2)) /\ p \in Nat /\ p + 1 \in Nat /\ p + 2 \in Nat
    <3>1. p + 1 < N => p + 1 + 1 = p + 2
      OBVIOUS
    <3> QED
      BY <1>4, <3>1
  <2>2. /\ p \in 0..N /\ p + 1 <= N /\ p + 1 > p /\ p + 2 > p /\ p >= p /\ p + 1 >= p
        /\ p < Len(text) => p + 2 <= N /\ p + 1 < N
        /\ p >= Len(text) \/ p + 1 = Len(text) \/ p + 1 < Len(text)
        /\ p + 1 = Len(text) \/ p + 1 < Len(text) => p < Len(text)
    BY <1>0
  <2>3. p < Len(text) => [c |-> text[p + 1], at |-> p] \in Letters
    <3>1. p < Len(text) => text[p + 1] \in Chars
      BY <1>0
    <3> QED
      BY <3>1 DEF Letters
  <2>4. p + 1 < Len(text) => [c |-> Trie!Unescape(text[p + 2]), at |-> p + 1] \in Letters
    <3>1. p + 1 < Len(text) => text[p + 2] \in Chars
      BY <1>0
    <3>2. p + 1 < Len(text) => Trie!Unescape(text[p + 2]) \in Chars
      BY <3>1, UnescapeTyped
    <3> QED
      BY <3>2 DEF Letters
  <2>5. Behind(p)
    <3>1. CASE p >= Len(text)
      BY <3>1, <1>1, <2>2, SaidStep
    <3>2. CASE p < Len(text) /\ (~options.escape_chars \/ text[p + 1] # "\\")
      <4>1. Said[p] = <<[c |-> text[p + 1], at |-> p]>> \o Said[p + 1]
        BY <3>2, <2>2, SaidStep
      <4> DEFINE l == [c |-> text[p + 1], at |-> p]
      <4>2. l \in Letters /\ l.at >= p
        BY <2>2, <2>3, <3>2
      <4> HIDE DEF l
      <4> QED
        BY <1>2, <2>1, <2>2, <4>1, <4>2 DEF l
    <3>3. CASE p + 1 = Len(text) /\ options.escape_chars /\ text[p + 1] = "\\"
      BY <3>3, <1>1, <2>2, SaidStep
    <3>4. CASE p + 1 < Len(text) /\ options.escape_chars /\ text[p + 1] = "\\"
      <4>1. Said[p] = <<[c |-> Trie!Unescape(text[p + 2]), at |-> p + 1]>> \o Said[p + 2]
        BY <3>4, <2>2, SaidStep
      <4> DEFINE l == [c |-> Trie!Unescape(text[p + 2]), at |-> p + 1]
      <4>2. l \in Letters /\ l.at >= p
        BY <2>2, <2>4, <3>4
      <4> HIDE DEF l
      <4> QED
        BY <1>2, <2>1, <2>2, <3>4, <4>1, <4>2 DEF l
    <3> QED
      BY <3>1, <3>2, <3>3, <3>4, <2>2
  <2> QED
    BY <2>1, <2>2, <2>5
<1> HIDE DEF Q, Behind
<1>5. Q \in SUBSET (0..N)
  BY DEF Q
<1>6. Q = 0..N
  BY <1>0, <1>3, <1>4, <1>5, Backwards
<1> QED
  BY <1>6 DEF Q, Behind

\* What is said has the quote that stands at q, and in front of it what stands there.
Closes(said, q, quote) ==
  \E s, r \in Seq(Letters) :
    /\ said = s \o (<<[c |-> quote, at |-> q]>> \o r)
    /\ \A i \in 1..Len(s) : s[i].at < q
    /\ \A i \in 1..Len(r) : r[i].at > q

\* A character more in front does not change that.
LEMMA ClosesLater ==
  ASSUME NEW q \in Nat, NEW quote \in Chars, NEW said, Closes(said, q, quote),
         NEW l \in Letters, l.at < q
  PROVE  Closes(<<l>> \o said, q, quote)
<1> DEFINE k == [c |-> quote, at |-> q]
<1>1. PICK s, r \in Seq(Letters) : /\ said = s \o (<<k>> \o r)
                                   /\ \A i \in 1..Len(s) : s[i].at < q
                                   /\ \A i \in 1..Len(r) : r[i].at > q
  BY Zenon DEF Closes
<1>2. k \in Letters
  BY DEF Letters
<1> DEFINE t == <<k>> \o r
<1> DEFINE u == <<l>> \o s
<1>3. t \in Seq(Letters)
  <2> HIDE DEF k
  <2> QED
    BY <1>2
<1> HIDE DEF t, k
<1>4. u \o t = <<l>> \o (s \o t) /\ u \in Seq(Letters) /\ Len(u) = 1 + Len(s) /\ u[1] = l
      /\ \A i \in 2..Len(u) : u[i] = s[i - 1] /\ i - 1 \in 1..Len(s)
  BY <1>3
<1>5. \A i \in 1..Len(u) : u[i].at < q
  <2> HIDE DEF u
  <2> SUFFICES ASSUME NEW i \in 1..Len(u) PROVE u[i].at < q
    OBVIOUS
  <2>1. CASE i = 1
    BY <1>4, <2>1
  <2>2. CASE i # 1
    <3>1. i \in 2..Len(u)
      BY <2>2, <1>4
    <3> QED
      BY <1>1, <1>4, <3>1
  <2> QED
    BY <2>1, <2>2
<1> HIDE DEF u
<1>6. <<l>> \o said = u \o (<<k>> \o r)
  BY <1>1, <1>4 DEF t
<1> QED
  BY <1>1, <1>4, <1>5, <1>6, Zenon DEF Closes, k

\* E[i] is 1 where the i-th character is escaped, else 0.
Escapes(E) ==
  \A i \in 2..Len(text) : E[i] = IF text[i - 1] = "\\" /\ E[i - 1] = 0 THEN 1 ELSE 0

\* A quote no backslash escapes is said as itself, whether escapes are resolved or not,
\* and not swallowed by what stands in front of it.
LEMMA QuoteSaid ==
  ASSUME Typed, text \in Seq(Chars), NEW q \in 1..(Len(text) - 1),
         NEW quote, quote # "\\", text[q + 1] = quote,
         NEW E, Escapes(E),
         E[q + 1] = 0, text[1] # "\\"
  PROVE  Closes(Said[1], q, quote)
<1>0. Len(text) \in Nat /\ q \in Nat /\ q < Len(text) /\ q + 1 \in 1..Len(text) /\ q >= 1
      /\ quote \in Chars
  <2>1. q + 1 \in 1..Len(text)
    OBVIOUS
  <2>2. text[q + 1] \in Chars
    BY <2>1
  <2> QED
    BY <2>1, <2>2
<1> DEFINE Good(p) == p >= 1 /\ (options.escape_chars => E[p + 1] = 0) => Closes(Said[p], q, quote)
<1> DEFINE Q == {p \in 0..q : Good(p) /\ (p < q => Good(p + 1))}
<1>1. Closes(Said[q], q, quote)
  <2> DEFINE k == [c |-> quote, at |-> q]
  <2>1. Said[q] = <<[c |-> text[q + 1], at |-> q]>> \o Said[q + 1]
    <3>1. q \in 0..(Len(text) + 1)
      BY <1>0
    <3> QED
      BY <1>0, <3>1, SaidStep
  <2>2. q + 1 \in 0..(Len(text) + 1)
    BY <1>0
  <2> DEFINE r == Said[q + 1]
  <2>3. r \in Seq(Letters) /\ \A i \in 1..Len(r) : r[i].at >= q + 1 /\ r[i].at \in Nat
    <3>1. r \in Seq(Letters) /\ \A i \in 1..Len(r) : r[i].at >= q + 1
      BY <2>2, SaidTyped, SaidBehind
    <3>2. \A i \in 1..Len(r) : r[i] \in Letters
      BY <3>1
    <3> QED
      BY <3>1, <3>2 DEF Letters
  <2> HIDE DEF r
  <2>4. \A i \in 1..Len(r) : r[i].at > q
    BY <1>0, <2>3
  <2>5. k \in Letters
    BY <1>0 DEF Letters
  <2> HIDE DEF k
  <2>6. <<>> \o (<<k>> \o r) = <<k>> \o r /\ <<>> \in Seq(Letters)
    BY <2>3, <2>5
  <2>7. \A i \in 1..Len(<<>>) : (<<>>)[i].at < q
    OBVIOUS
  <2>8. Said[q] = <<>> \o (<<k>> \o r)
    BY <2>1, <2>6 DEF r, k
  <2> QED
    BY <2>3, <2>4, <2>6, <2>7, <2>8, Zenon DEF Closes, k
<1>2. q \in Q
  BY <1>0, <1>1
<1>3. ASSUME NEW p \in 0..(q - 1), p + 1 \in Q PROVE p \in Q
  <2> HIDE DEF Good
  <2>1. Good(p + 1) /\ (p + 1 < q => Good(p + 2)) /\ p \in Nat /\ p \in 0..q
    <3>1. p + 1 < q => p + 1 + 1 = p + 2
      OBVIOUS
    <3> QED
      BY <1>3, <3>1
  <2>2. /\ p < Len(text) /\ p + 1 < Len(text) /\ p \in 0..(Len(text) + 1) /\ p < q
        /\ p + 2 \in 2..Len(text) /\ (p + 1 < q => p + 3 \in 2..Len(text))
        /\ (p + 2) - 1 = p + 1 /\ (p + 3) - 1 = p + 2 /\ (p + 1) + 1 = p + 2 /\ (p + 2) + 1 = p + 3
        /\ p + 1 >= 1 /\ p + 2 >= 1
        /\ p + 1 \in 1..Len(text) /\ p + 2 \in 1..Len(text)
    BY <1>0
  <2>3. E[p + 2] = IF text[p + 1] = "\\" /\ E[p + 1] = 0 THEN 1 ELSE 0
    BY <2>2 DEF Escapes
  <2>4. p + 1 < q => E[p + 3] = IF text[p + 2] = "\\" /\ E[p + 2] = 0 THEN 1 ELSE 0
    BY <2>2 DEF Escapes
  <2>5. text[p + 1] \in Chars /\ text[p + 2] \in Chars /\ Trie!Unescape(text[p + 2]) \in Chars
    <3>1. text[p + 1] \in Chars /\ text[p + 2] \in Chars
      BY <2>2
    <3> QED
      BY <3>1, UnescapeTyped
  <2>6. ASSUME p >= 1, options.escape_chars => E[p + 1] = 0
        PROVE  Closes(Said[p], q, quote)
    <3>1. CASE ~options.escape_chars \/ text[p + 1] # "\\"
      <4> DEFINE l == [c |-> text[p + 1], at |-> p]
      <4>1. Said[p] = <<l>> \o Said[p + 1]
        BY <3>1, <2>2, SaidStep
      <4>2. Closes(Said[p + 1], q, quote)
        BY <2>1, <2>2, <2>3, <3>1 DEF Good
      <4>3. l \in Letters /\ l.at < q
        BY <2>1, <2>2, <2>5 DEF Letters
      <4> HIDE DEF l
      <4> QED
        BY <1>0, <4>1, <4>2, <4>3, ClosesLater
    <3>2. CASE options.escape_chars /\ text[p + 1] = "\\"
      <4> DEFINE l == [c |-> Trie!Unescape(text[p + 2]), at |-> p + 1]
      <4>1. Said[p] = <<l>> \o Said[p + 2]
        BY <3>2, <2>2, SaidStep
      <4>2. E[p + 2] = 1
        BY <2>3, <2>6, <3>2
      <4>3. p + 1 # q
        BY <2>2, <4>2
      <4>4. p + 1 < q
        BY <2>1, <2>2, <4>3
      <4>5. Closes(Said[p + 2], q, quote)
        BY <2>1, <2>2, <2>4, <4>2, <4>4 DEF Good
      <4>6. l \in Letters /\ l.at < q
        BY <2>1, <2>5, <4>4 DEF Letters
      <4> HIDE DEF l
      <4> QED
        BY <1>0, <4>1, <4>5, <4>6, ClosesLater
    <3> QED
      BY <3>1, <3>2
  <2>7. Good(p)
    BY <2>6 DEF Good
  <2> QED
    BY <2>1, <2>7
<1>4. E[2] = 0
  BY <1>0 DEF Escapes
<1> HIDE DEF Q
<1>5. Q \in SUBSET (0..q)
  BY DEF Q
<1>6. Q = 0..q
  BY <1>0, <1>2, <1>3, <1>5, Backwards
<1>7. 1 \in Q
  BY <1>0, <1>6
<1> QED
  BY <1>4, <1>7 DEF Q

--------------------------------------------------------------------------------
(* The keys and the characters read.                                          *)

\* The beginnings of keys are sequences of characters, closed under beginnings;
\* none is the well, and no key ends at the root.
LEMMA Prefixes ==
  ASSUME Typed
  PROVE  /\ Trie!KeyPrefixes \subseteq Seq(Chars) /\ <<>> \in Trie!KeyPrefixes
         /\ \A s \in Trie!KeyPrefixes : \A n \in 0..Len(s) : SubSeq(s, 1, n) \in Trie!KeyPrefixes
         /\ Trie!NotFound \notin Trie!KeyPrefixes
         /\ Trie!TokenAt(<<>>) = 0 /\ \A node : Trie!TokenAt(node) \in Nat
<1>1. \A s : s \in Trie!KeyPrefixes <=> \E w \in DOMAIN Words : \E n \in 0..Len(w) : s = SubSeq(w, 1, n)
  BY DEF Trie!KeyPrefixes
<1>2. \A w \in DOMAIN Words : w \in Seq(Chars) /\ Len(w) \in Nat /\ Len(w) # 0
  BY EmptySeq DEF Typed
<1>3. ASSUME NEW w \in DOMAIN Words, NEW n \in 0..Len(w)
      PROVE  /\ SubSeq(w, 1, n) \in Seq(Chars) /\ Len(SubSeq(w, 1, n)) = n
             /\ \A k \in 1..n : SubSeq(w, 1, n)[k] = w[k]
  BY <1>2
<1>4. ASSUME NEW s \in Trie!KeyPrefixes, NEW n \in 0..Len(s)
      PROVE  SubSeq(s, 1, n) \in Trie!KeyPrefixes
  <2>1. PICK w \in DOMAIN Words : \E m \in 0..Len(w) : s = SubSeq(w, 1, m)
    BY <1>1
  <2>2. PICK m \in 0..Len(w) : s = SubSeq(w, 1, m)
    BY <2>1
  <2>3. Len(s) = m /\ s \in Seq(Chars) /\ n \in 0..Len(w) /\ n <= m
    BY <1>2, <1>3, <2>2
  <2>4. SubSeq(s, 1, n) = SubSeq(w, 1, n)
    <3>1. \A k \in 1..n : s[k] = w[k]
      BY <1>3, <2>2, <2>3
    <3>2. w \in Seq(Chars)
      BY <1>2
    <3> QED
      BY <3>1, <3>2, <2>3
  <2> QED
    BY <1>1, <2>3, <2>4
<1>5. <<>> \in Trie!KeyPrefixes
  <2>1. PICK w \in DOMAIN Words : TRUE
    BY DEF Typed
  <2>2. SubSeq(w, 1, 0) = <<>> /\ 0 \in 0..Len(w)
    BY <1>2
  <2> QED
    BY <1>1, <2>2
<1>6. Trie!NotFound \notin Trie!KeyPrefixes
  <2> SUFFICES ASSUME NEW w \in DOMAIN Words, NEW n \in 0..Len(w), SubSeq(w, 1, n) = Trie!NotFound
               PROVE  FALSE
    BY <1>1
  <2>1. Len(Trie!NotFound) = 1
    BY DEF Trie!NotFound
  <2>2. Len(SubSeq(w, 1, n)) = n
    BY <1>3
  <2>3. n = 1
    BY <2>1, <2>2
  <2>4. SubSeq(w, 1, n)[1] = w[1]
    BY <1>3, <2>3
  <2> QED
    BY <2>4 DEF Typed
<1>7. Trie!TokenAt(<<>>) = 0 /\ \A node : Trie!TokenAt(node) \in Nat
  BY DEF Trie!TokenAt, Typed
<1>8. Trie!KeyPrefixes \subseteq Seq(Chars)
  <2> SUFFICES ASSUME NEW s \in Trie!KeyPrefixes PROVE s \in Seq(Chars)
    OBVIOUS
  <2> QED
    BY <1>1, <1>3
<1> QED
  BY <1>4, <1>5, <1>6, <1>7, <1>8

\* The characters of what has been read.
Word(s) == [i \in 1..Len(s) |-> s[i].c]

\* A word read is a sequence of characters, and reading one more appends to it.
LEMMA WordOf ==
  ASSUME NEW s \in Seq(Letters), NEW l \in Letters
  PROVE  /\ Word(s) \in Seq(Chars) /\ Len(Word(s)) = Len(s)
         /\ Word(s \o <<l>>) = Append(Word(s), l.c)
         /\ s \o <<l>> \in Seq(Letters) /\ Len(s \o <<l>>) = Len(s) + 1
<1>0. \A d \in Letters : d.c \in Chars
  BY DEF Letters
<1>1. Len(s) \in Nat /\ \A i \in 1..Len(s) : s[i] \in Letters /\ s[i].c \in Chars
  BY <1>0
<1>2. Word(s) \in Seq(Chars) /\ Len(Word(s)) = Len(s)
  BY <1>1 DEF Word
<1>3. s \o <<l>> \in Seq(Letters) /\ Len(s \o <<l>>) = Len(s) + 1
  OBVIOUS
<1>4. \A i \in 1..Len(s) : (s \o <<l>>)[i] = s[i]
  OBVIOUS
<1>5. (s \o <<l>>)[Len(s) + 1] = l
  OBVIOUS
<1>6. l.c \in Chars
  BY DEF Letters
<1> DEFINE a == Append(Word(s), l.c)
<1>7. a \in Seq(Chars) /\ Len(a) = Len(s) + 1 /\ a[Len(s) + 1] = l.c
      /\ \A i \in 1..Len(s) : a[i] = s[i].c
  <2>1. \A i \in 1..Len(s) : Word(s)[i] = s[i].c
    BY DEF Word
  <2> QED
    BY <1>2, <1>6, <2>1
<1>8. a = [i \in 1..(Len(s) + 1) |-> a[i]]
  BY <1>7, <1>1
<1>9. \A i \in 1..(Len(s) + 1) : a[i] = (s \o <<l>>)[i].c
  <2> HIDE DEF a
  <2> QED
    BY <1>1, <1>4, <1>5, <1>7
<1>10. Word(s \o <<l>>) = [i \in 1..(Len(s) + 1) |-> (s \o <<l>>)[i].c]
  BY <1>3 DEF Word
<1>11. Word(s \o <<l>>) = a
  <2> HIDE DEF a
  <2> QED
    BY <1>8, <1>9, <1>10
<1> QED
  BY <1>2, <1>3, <1>11

\* Where the text is that s has not read yet, and when s may wait for the second half
\* of an escape: at its backslash.
Unread(s) == s.req_position + (IF s.escape = 1 THEN 0 ELSE s.skip_next)

EscapeFits(s) ==
  s.escape = 1 => s.skip_next = 1 /\ options.escape_chars /\ text[s.req_position + 1] = "\\"

\* noizu_trie__next_char reads what the text says next, or waits for it where it was.
LEMMA NextCharReads ==
  ASSUME Typed, TokenizerTypeOK, EscapeFits(st), NEW n, n = Trie!NextChar(st, Buffer)
  PROVE  /\ n.ok \in BOOLEAN
         /\ n.st \in Trie!TrieState /\ n.st.req_position < received /\ EscapeFits(n.st)
         /\ n.st.position = st.position /\ n.st.token = st.token /\ n.st.delimiter = st.delimiter
         /\ n.ok => /\ n.st.skip_next = 0 /\ n.st.escape = 0 /\ n.c \in Chars
                    /\ Said[Unread(st)] =
                         <<[c |-> n.c, at |-> n.st.req_position]>> \o Said[n.st.req_position + 1]
         /\ ~n.ok => Unread(n.st) = Unread(st)
<1> DEFINE r == st.req_position
           s == Trie!Skipped(st)
           e == Trie!Escaping(s)
           p == r + st.skip_next
<1>1. /\ r \in Nat /\ r < received /\ st.skip_next \in 0..1 /\ st.escape \in 0..1
      /\ received \in Nat /\ received <= Len(text) /\ Len(text) \in Nat /\ text \in Seq(Chars)
      /\ options.escape_chars \in BOOLEAN
  BY DEF TokenizerTypeOK, Trie!TrieState, Trie!Bit, Trie!OptionFields
<1>2. DOMAIN Buffer = 0..(received - 1)
      /\ \A q \in 0..(received - 1) : Buffer[q] = text[q + 1] /\ text[q + 1] \in Chars
  BY <1>1 DEF Buffer
<1>3. st \in Trie!TrieState
  BY DEF TokenizerTypeOK
<1>0. ASSUME NEW t \in Trie!TrieState
      PROVE  /\ Trie!Skipped(t) \in Trie!TrieState
             /\ Trie!Skipped(t).req_position = t.req_position + t.skip_next
             /\ Trie!Skipped(t).skip_next = 0 /\ Trie!Skipped(t).escape = t.escape
             /\ Trie!Skipped(t).position = t.position /\ Trie!Skipped(t).token = t.token
             /\ Trie!Skipped(t).delimiter = t.delimiter
  <2>1. t.req_position + t.skip_next \in Nat /\ 0 \in Trie!Bit
    BY DEF Trie!TrieState, Trie!Bit
  <2> DEFINE m == t.req_position + t.skip_next
  <2> HIDE DEF m
  <2>2. Trie!Skipped(t) = [t EXCEPT !.req_position = m, !.skip_next = 0] /\ m \in Nat
    BY <2>1 DEF Trie!Skipped, m
  <2> QED
    BY <2>1, <2>2 DEF Trie!TrieState, m
<1>4. /\ s \in Trie!TrieState /\ s.req_position = p /\ s.skip_next = 0 /\ s.escape = st.escape
      /\ s.position = st.position /\ s.token = st.token /\ s.delimiter = st.delimiter
  BY <1>0, <1>3
<1>5. /\ e \in Trie!TrieState /\ e.req_position = p /\ e.skip_next = 1 /\ e.escape = 1
      /\ e.position = st.position /\ e.token = st.token /\ e.delimiter = st.delimiter
  <2>1. ASSUME NEW t \in Trie!TrieState
        PROVE  /\ Trie!Escaping(t) \in Trie!TrieState
               /\ Trie!Escaping(t).req_position = t.req_position
               /\ Trie!Escaping(t).skip_next = 1 /\ Trie!Escaping(t).escape = 1
               /\ Trie!Escaping(t).position = t.position /\ Trie!Escaping(t).token = t.token
               /\ Trie!Escaping(t).delimiter = t.delimiter
    <3>1. 1 \in Trie!Bit
      BY DEF Trie!Bit
    <3> QED
      BY <3>1 DEF Trie!Escaping, Trie!TrieState
  <2> HIDE DEF s
  <2> QED
    BY <1>4, <2>1
<1>6. Trie!CanRead(st, Buffer) <=> p < received
  BY <1>1, <1>2 DEF Trie!CanRead
<1>7. ASSUME NEW t \in Trie!TrieState, t.req_position < received
      PROVE  /\ Trie!Read(t, Buffer).ok = TRUE
             /\ Trie!Read(t, Buffer).st \in Trie!TrieState
             /\ Trie!Read(t, Buffer).st.req_position = t.req_position
             /\ Trie!Read(t, Buffer).st.skip_next = t.skip_next
             /\ Trie!Read(t, Buffer).st.escape = 0
             /\ Trie!Read(t, Buffer).st.position = t.position
             /\ Trie!Read(t, Buffer).st.token = t.token
             /\ Trie!Read(t, Buffer).st.delimiter = t.delimiter
             /\ t.escape = 1 => Trie!Read(t, Buffer).c = Trie!Unescape(text[t.req_position + 1])
             /\ t.escape = 0 => Trie!Read(t, Buffer).c = text[t.req_position + 1]
             /\ text[t.req_position + 1] \in Chars
  <2>1. t.req_position \in 0..(received - 1)
    BY <1>1, <1>7 DEF Trie!TrieState
  <2>2. Buffer[t.req_position] = text[t.req_position + 1] /\ text[t.req_position + 1] \in Chars
    BY <1>2, <2>1
  <2> QED
    BY <2>2 DEF Trie!Read, Trie!TrieState, Trie!Bit
<1>8. ASSUME NEW t PROVE Trie!Starved(t).ok = FALSE /\ Trie!Starved(t).st = t
  BY DEF Trie!Starved
<1>9. p \in 0..(Len(text) + 1) /\ p \in Nat
  BY <1>1
<1> HIDE DEF s, e
<1>10. CASE ~Trie!CanRead(st, Buffer)
  <2>1. n = Trie!Starved(st)
    BY <1>10 DEF Trie!NextChar
  <2> QED
    BY <2>1, <1>1, <1>3, <1>8
<1>11. CASE Trie!CanRead(st, Buffer) /\ ~Trie!IsEscape(s, Buffer)
  <2>1. n = Trie!Read(s, Buffer)
    BY <1>11 DEF Trie!NextChar, s
  <2>2. s.req_position < received /\ p < Len(text) /\ p < received
    BY <1>1, <1>4, <1>6, <1>11
  <2>3. /\ n.ok = TRUE /\ n.st \in Trie!TrieState /\ n.st.req_position = p
        /\ n.st.skip_next = 0 /\ n.st.escape = 0 /\ n.st.position = st.position
        /\ n.st.token = st.token /\ n.st.delimiter = st.delimiter
        /\ st.escape = 1 => n.c = Trie!Unescape(text[p + 1])
        /\ st.escape = 0 => n.c = text[p + 1]
        /\ text[p + 1] \in Chars
    BY <1>4, <1>7, <2>1, <2>2
  <2>4. n.c \in Chars
    BY <1>1, <2>3, UnescapeTyped
  <2>5. CASE st.escape = 1
    <3>1. /\ st.skip_next = 1 /\ options.escape_chars /\ text[r + 1] = "\\"
          /\ Unread(st) = r /\ p = r + 1 /\ r + 1 < Len(text) /\ r \in 0..(Len(text) + 1)
      BY <1>1, <2>2, <2>5 DEF EscapeFits, Unread
    <3>2. Said[r] = <<[c |-> Trie!Unescape(text[r + 2]), at |-> r + 1]>> \o Said[r + 2]
      BY <1>1, <3>1, SaidStep
    <3>3. p + 1 = r + 2 /\ p = r + 1
      BY <1>1, <3>1
    <3>4. Said[Unread(st)] = <<[c |-> n.c, at |-> n.st.req_position]>> \o Said[n.st.req_position + 1]
      BY <2>3, <2>5, <3>1, <3>2, <3>3
    <3>5. EscapeFits(n.st) /\ n.st.req_position < received
      BY <2>2, <2>3 DEF EscapeFits
    <3> QED
      BY <2>3, <2>4, <3>4, <3>5, Zenon
  <2>6. CASE st.escape = 0
    <3>1. Unread(st) = p
      BY <2>6 DEF Unread
    <3>2. ~options.escape_chars \/ text[p + 1] # "\\"
      <4>1. Buffer[p] = text[p + 1]
        BY <1>1, <1>2, <2>2
      <4> QED
        BY <1>4, <1>11, <2>6, <4>1 DEF Trie!IsEscape
    <3>3. Said[p] = <<[c |-> text[p + 1], at |-> p]>> \o Said[p + 1]
      BY <1>1, <1>9, <2>2, <3>2, SaidStep
    <3>4. Said[Unread(st)] = <<[c |-> n.c, at |-> n.st.req_position]>> \o Said[n.st.req_position + 1]
      BY <2>3, <2>6, <3>1, <3>3
    <3>5. EscapeFits(n.st) /\ n.st.req_position < received
      BY <2>2, <2>3 DEF EscapeFits
    <3> QED
      BY <2>3, <2>4, <3>4, <3>5, Zenon
  <2> QED
    BY <1>1, <2>5, <2>6
<1>12. CASE Trie!CanRead(st, Buffer) /\ Trie!IsEscape(s, Buffer)
  <2>1. st.escape = 0 /\ options.escape_chars /\ text[p + 1] = "\\" /\ Unread(st) = p
        /\ p < received /\ p < Len(text)
    <3>1. p < received
      BY <1>6, <1>12
    <3>2. Buffer[p] = text[p + 1]
      BY <1>1, <1>2, <3>1
    <3> QED
      BY <1>1, <1>4, <1>12, <3>1, <3>2 DEF Trie!IsEscape, Unread
  <2>2. Trie!CanRead(e, Buffer) <=> p + 1 < received
    BY <1>1, <1>2, <1>5 DEF Trie!CanRead
  <2>3. CASE ~Trie!CanRead(e, Buffer)
    <3>1. n = Trie!Starved(e)
      BY <1>12, <2>3 DEF Trie!NextChar, s, e
    <3>2. n.ok = FALSE /\ n.st = e
      BY <1>8, <3>1
    <3>3. EscapeFits(n.st) /\ n.st.req_position < received /\ Unread(n.st) = Unread(st)
      BY <1>5, <1>9, <2>1, <3>2 DEF EscapeFits, Unread
    <3> QED
      BY <1>5, <3>2, <3>3, Zenon
  <2>4. CASE Trie!CanRead(e, Buffer)
    <3> DEFINE t == Trie!Skipped(e)
    <3>1. n = Trie!Read(t, Buffer)
      BY <1>12, <2>4 DEF Trie!NextChar, s, e
    <3>2. /\ t \in Trie!TrieState /\ t.req_position = p + 1 /\ t.skip_next = 0 /\ t.escape = 1
          /\ t.position = st.position /\ t.token = st.token /\ t.delimiter = st.delimiter
      BY <1>0, <1>5
    <3> HIDE DEF t
    <3>3. p + 1 < received /\ p + 1 < Len(text) /\ p + 1 + 1 = p + 2
      BY <1>1, <2>2, <2>4
    <3>4. /\ n.ok = TRUE /\ n.st \in Trie!TrieState /\ n.st.req_position = p + 1
          /\ n.st.skip_next = 0 /\ n.st.escape = 0 /\ n.st.position = st.position
          /\ n.st.token = st.token /\ n.st.delimiter = st.delimiter
          /\ n.c = Trie!Unescape(text[p + 1 + 1]) /\ text[p + 1 + 1] \in Chars
      BY <1>7, <3>1, <3>2, <3>3
    <3>5. n.c \in Chars
      BY <3>4, UnescapeTyped
    <3>6. Said[p] = <<[c |-> Trie!Unescape(text[p + 2]), at |-> p + 1]>> \o Said[p + 2]
      BY <1>1, <1>9, <2>1, <3>3, SaidStep
    <3>7. Said[Unread(st)] = <<[c |-> n.c, at |-> n.st.req_position]>> \o Said[n.st.req_position + 1]
      BY <2>1, <3>3, <3>4, <3>6
    <3>8. EscapeFits(n.st) /\ n.st.req_position < received
      BY <3>3, <3>4 DEF EscapeFits
    <3> QED
      BY <3>4, <3>5, <3>7, <3>8, Zenon
  <2> QED
    BY <2>3, <2>4
<1> QED
  BY <1>10, <1>11, <1>12

--------------------------------------------------------------------------------
(* The longest match.                                                         *)

\* What has been read is what the text says first, up to where it is read next.
LEMMA ReadSoFar ==
  ASSUME NEW done \in Seq(Letters), NEW l \in Letters, NEW rest \in Seq(Letters),
         Decoded = done \o (<<l>> \o rest)
  PROVE  /\ Decoded \in Seq(Letters) /\ Len(done) < Len(Decoded) /\ Decoded[Len(done) + 1] = l
         /\ \A i \in 1..Len(done) : Decoded[i] = done[i]
         /\ Spelled(Len(done)) = Word(done)
         /\ Spelled(Len(done) + 1) = Append(Word(done), l.c)
<1>1. <<l>> \o rest \in Seq(Letters) /\ Len(<<l>> \o rest) = 1 + Len(rest)
      /\ (<<l>> \o rest)[1] = l /\ Len(done) \in Nat /\ Len(rest) \in Nat
  OBVIOUS
<1> DEFINE tail == <<l>> \o rest
<1> HIDE DEF tail
<1>2. Decoded = done \o tail /\ tail \in Seq(Letters) /\ Len(tail) = 1 + Len(rest) /\ tail[1] = l
  BY <1>1 DEF tail
<1>3. /\ Decoded \in Seq(Letters) /\ Len(Decoded) = Len(done) + Len(tail)
      /\ \A i \in 1..Len(done) : Decoded[i] = done[i]
      /\ Decoded[Len(done) + 1] = l
  BY <1>1, <1>2
<1>4. Spelled(Len(done)) = Word(done)
  BY <1>3 DEF Spelled, Word
<1>5. Spelled(Len(done) + 1) = Word(done \o <<l>>)
  <2>1. done \o <<l>> \in Seq(Letters) /\ Len(done \o <<l>>) = Len(done) + 1
    OBVIOUS
  <2>2. \A i \in 1..(Len(done) + 1) : (done \o <<l>>)[i] = Decoded[i]
    BY <1>1, <1>3
  <2> QED
    BY <2>1, <2>2 DEF Spelled, Word
<1>6. Word(done \o <<l>>) = Append(Word(done), l.c)
  BY WordOf
<1>7. Len(done) < Len(Decoded)
  BY <1>1, <1>2, <1>3
<1> QED
  BY <1>3, <1>4, <1>5, <1>6, <1>7, Zenon

\* What has been read is the longest match when no key goes on with what follows.
LEMMA MatchEnds ==
  ASSUME Typed, NEW done \in Seq(Letters), NEW l \in Letters, NEW rest \in Seq(Letters),
         Decoded = done \o (<<l>> \o rest),
         Word(done) \in Trie!KeyPrefixes,
         options.hard_delim => \A i \in 1..Len(done) : done[i].c # st.delimiter,
         \/ options.hard_delim /\ st.delimiter = l.c
         \/ Append(Word(done), l.c) \notin Trie!KeyPrefixes
  PROVE  /\ Matched = Len(done) /\ Matched < Len(Decoded)
         /\ Decoded[Matched + 1] = l /\ Spelled(Matched) = Word(done)
<1> DEFINE Fits(k) == /\ Spelled(k) \in Trie!KeyPrefixes
                      /\ options.hard_delim => \A i \in 1..k : Decoded[i].c # st.delimiter
           Best(n) == Fits(n) /\ \A k \in (n + 1)..Len(Decoded) : ~Fits(k)
           d == Len(done)
<1>1. /\ Decoded \in Seq(Letters) /\ d < Len(Decoded) /\ Decoded[d + 1] = l
      /\ \A i \in 1..d : Decoded[i] = done[i]
      /\ Spelled(d) = Word(done)
      /\ Spelled(d + 1) = Append(Word(done), l.c)
  BY ReadSoFar
<1>2. d \in 0..Len(Decoded) /\ Len(Decoded) \in Nat /\ d \in Nat
  BY <1>1
<1>3. Fits(d)
  BY <1>1
<1>4. ASSUME NEW k \in (d + 1)..Len(Decoded), Fits(k) PROVE FALSE
  <2>1. d + 1 \in 1..k /\ k \in Nat
    BY <1>2
  <2>2. ~(options.hard_delim /\ st.delimiter = l.c)
    BY <1>1, <1>4, <2>1
  <2>3. Len(Spelled(k)) = k /\ Spelled(k) \in Seq(Chars)
    <3>1. \A i \in 1..k : Decoded[i] \in Letters
      BY <1>1, <2>1
    <3>2. \A m \in Letters : m.c \in Chars
      BY DEF Letters
    <3>3. \A i \in 1..k : Decoded[i].c \in Chars
      BY <3>1, <3>2
    <3> QED
      BY <2>1, <3>3 DEF Spelled
  <2>4. SubSeq(Spelled(k), 1, d + 1) \in Trie!KeyPrefixes
    <3>1. d + 1 \in 0..Len(Spelled(k))
      BY <2>1, <2>3, <1>2
    <3> QED
      BY <1>4, <3>1, Prefixes
  <2>5. SubSeq(Spelled(k), 1, d + 1) = Spelled(d + 1)
    <3> DEFINE a == SubSeq(Spelled(k), 1, d + 1)
    <3>1. d + 1 \in 1..k
      BY <2>1
    <3>2. a = [i \in 1..(d + 1) |-> Spelled(k)[i]]
      BY <1>2, <2>1, <2>3
    <3>3. \A i \in 1..(d + 1) : Spelled(k)[i] = Decoded[i].c
      BY <2>1, <1>2 DEF Spelled
    <3> HIDE DEF a
    <3>4. a = [i \in 1..(d + 1) |-> Decoded[i].c]
      BY <3>2, <3>3
    <3> QED
      BY <3>4 DEF a, Spelled
  <2> QED
    BY <1>1, <2>2, <2>4, <2>5
<1>5. Best(d)
  BY <1>3, <1>4
<1>6. ASSUME NEW n \in 0..Len(Decoded), Best(n) PROVE n = d
  <2>1. n <= d
    BY <1>2, <1>4, <1>6
  <2>2. ~(n < d)
    BY <1>2, <1>3, <1>6
  <2> QED
    BY <1>2, <2>1, <2>2
<1>7. Matched = CHOOSE n \in 0..Len(Decoded) : Best(n)
  BY DEF Matched
<1>8. Matched = d
  <2> HIDE DEF Best
  <2> QED
    BY <1>2, <1>5, <1>6, <1>7
<1> QED
  BY <1>1, <1>8

\* Matched is the longest beginning that fits: the empty one does.
Fits(n) ==
  /\ Spelled(n) \in Trie!KeyPrefixes
  /\ options.hard_delim => \A i \in 1..n : Decoded[i].c # st.delimiter

LEMMA MatchedIs ==
  ASSUME Typed, Decoded \in Seq(Letters)
  PROVE  Matched \in 0..Len(Decoded) /\ Fits(Matched) /\ \A k \in (Matched + 1)..Len(Decoded) : ~Fits(k)
<1> DEFINE N == Len(Decoded)
<1> DEFINE Best(n) == Fits(n) /\ \A k \in (n + 1)..N : ~Fits(k)
<1> DEFINE Q == {n \in 0..N : \A k \in n..N : ~Fits(k)}
<1>0. N \in Nat
  OBVIOUS
<1>1. Fits(0)
  <2>1. Spelled(0) = <<>>
    BY DEF Spelled
  <2> QED
    BY <2>1, Prefixes DEF Fits
<1> HIDE DEF N
<1>2. \E n \in 0..N : Best(n)
  <2> SUFFICES ASSUME \A n \in 0..N : ~Best(n) PROVE FALSE
    OBVIOUS
  <2>1. N \in Q
    <3>1. \A k \in (N + 1)..N : FALSE
      BY <1>0
    <3>2. ~Fits(N)
      BY <1>0, <3>1
    <3>3. \A k \in N..N : k = N
      BY <1>0
    <3> QED
      BY <1>0, <3>2, <3>3
  <2>2. ASSUME NEW n \in 0..(N - 1), n + 1 \in Q PROVE n \in Q
    <3>1. n \in 0..N /\ \A k \in n..N : k = n \/ k \in (n + 1)..N
      BY <1>0
    <3>2. \A k \in (n + 1)..N : ~Fits(k)
      BY <2>2
    <3>3. ~Fits(n)
      BY <3>1, <3>2
    <3> QED
      BY <3>1, <3>2, <3>3
  <2>3. Q \in SUBSET (0..N)
    OBVIOUS
  <2> HIDE DEF Q
  <2>4. Q = 0..N
    BY <1>0, <2>1, <2>2, <2>3, Backwards
  <2>5. 0 \in Q
    BY <1>0, <2>4
  <2>6. 0 \in 0..N
    BY <1>0
  <2> QED
    BY <1>1, <2>5, <2>6 DEF Q
<1>3. Matched = CHOOSE n \in 0..N : Best(n)
  BY DEF Matched, Fits, N
<1> HIDE DEF Best
<1>4. Matched \in 0..N /\ Best(Matched)
  BY <1>2, <1>3
<1> QED
  BY <1>4 DEF Best, N

\* The quote at q is the letter behind the first n, which stand in front of it.
QuoteBehind(n, q, quote) ==
  /\ Decoded[n + 1].c = quote /\ Decoded[n + 1].at = q
  /\ \A i \in 1..Len(Decoded) : (i <= n <=> Decoded[i].at < q) /\ (i > n + 1 => Decoded[i].at > q)

\* With a quote as the letter behind the first n, the token of a match that ends at that
\* quote is that of the n letters as a key, and if they are a key the match does end there.
LEMMA TokenOfValue ==
  ASSUME Typed, Decoded \in Seq(Letters), NEW n \in 0..(Len(Decoded) - 1), NEW q \in Nat, NEW quote,
         QuoteBehind(n, q, quote),
         \A w \in DOMAIN Words : Append(w, quote) \notin Trie!KeyPrefixes,
         Matched < Len(Decoded), st.req_position = Decoded[Matched + 1].at,
         st.token = Trie!TokenAt(Spelled(Matched)),
         NEW token, token = IF st.req_position = q THEN st.token ELSE 0
  PROVE  token = IF /\ Spelled(n) \in DOMAIN Words
                    /\ options.hard_delim => \A i \in 1..n : Decoded[i].c # st.delimiter
                 THEN Words[Spelled(n)] ELSE 0
<1> DEFINE Known == /\ Spelled(n) \in DOMAIN Words
                    /\ options.hard_delim => \A i \in 1..n : Decoded[i].c # st.delimiter
<1>1. /\ Matched \in 0..Len(Decoded) /\ Fits(Matched)
      /\ \A k \in (Matched + 1)..Len(Decoded) : ~Fits(k)
  BY MatchedIs
<1>2. /\ Decoded[n + 1].c = quote /\ Decoded[n + 1].at = q
      /\ \A i \in 1..Len(Decoded) : (i <= n <=> Decoded[i].at < q) /\ (i > n + 1 => Decoded[i].at > q)
  BY Zenon DEF QuoteBehind
<1> DEFINE m == Matched
<1> HIDE DEF m
<1>3. /\ Len(Decoded) \in Nat /\ n \in Nat /\ m \in Nat /\ n < Len(Decoded) /\ m < Len(Decoded)
      /\ m + 1 \in 1..Len(Decoded) /\ n + 1 \in 1..Len(Decoded)
  BY <1>1 DEF m
<1>4. CASE m = n
  <2>1. token = Trie!TokenAt(Spelled(n))
    BY <1>4, <1>2 DEF m
  <2>2. options.hard_delim => \A i \in 1..n : Decoded[i].c # st.delimiter
    BY <1>1, <1>4 DEF Fits, m
  <2> QED
    BY <2>1, <2>2, Zenon DEF Trie!TokenAt
<1>5. CASE m < n
  <2>1. Decoded[m + 1].at < q
    <3>1. m + 1 <= n
      BY <1>3, <1>5
    <3> QED
      BY <1>3, <1>2, <3>1
  <2>2. Decoded[m + 1].at \in Nat
    <3>1. Decoded[m + 1] \in Letters
      BY <1>3
    <3> QED
      BY <3>1 DEF Letters
  <2>3. token = 0
    <3>1. st.req_position # q
      BY <2>1, <2>2 DEF m
    <3> QED
      BY <3>1
  <2>4. ~Fits(n)
    <3>1. n \in (m + 1)..Len(Decoded)
      BY <1>3, <1>5
    <3> QED
      BY <1>1, <3>1 DEF m
  <2>5. Known => Fits(n)
    <3>1. Spelled(n) \in DOMAIN Words => Spelled(n) \in Trie!KeyPrefixes
      <4> SUFFICES ASSUME Spelled(n) \in DOMAIN Words PROVE Spelled(n) \in Trie!KeyPrefixes
        OBVIOUS
      <4> DEFINE w == Spelled(n)
      <4>1. w \in Seq(Chars)
        BY DEF Typed
      <4> HIDE DEF w
      <4>2. SubSeq(w, 1, Len(w)) = w /\ Len(w) \in 0..Len(w)
        BY <4>1
      <4>3. \A x : (\E v \in DOMAIN Words : \E j \in 0..Len(v) : x = SubSeq(v, 1, j)) => x \in Trie!KeyPrefixes
        BY DEF Trie!KeyPrefixes
      <4>4. w \in DOMAIN Words
        BY DEF w
      <4>5. w \in Trie!KeyPrefixes
        BY <4>2, <4>3, <4>4
      <4> QED
        BY <4>5 DEF w
    <3> QED
      BY <3>1 DEF Fits
  <2> QED
    BY <2>3, <2>4, <2>5
<1>6. CASE m > n
  <2>1. Decoded[m + 1].at > q
    <3>1. m + 1 > n + 1
      BY <1>3, <1>6
    <3> QED
      BY <1>3, <1>2, <3>1
  <2>2. Decoded[m + 1].at \in Nat
    <3>1. Decoded[m + 1] \in Letters
      BY <1>3
    <3> QED
      BY <3>1 DEF Letters
  <2>3. token = 0
    <3>1. st.req_position # q
      BY <2>1, <2>2 DEF m
    <3> QED
      BY <3>1
  <2>4. Spelled(n) \notin DOMAIN Words
    <3>0. Spelled(m) \in Trie!KeyPrefixes
      BY <1>1 DEF Fits, m
    <3>1. Append(Spelled(n), quote) \in Trie!KeyPrefixes
      <4>1. \A i \in 1..m : Decoded[i].c \in Chars
        <5>1. \A i \in 1..m : Decoded[i] \in Letters
          BY <1>3
        <5> QED
          BY <5>1 DEF Letters
      <4>2. Spelled(m) \in Seq(Chars) /\ Len(Spelled(m)) = m
        <5>1. Spelled(m) = [i \in 1..m |-> Decoded[i].c]
          BY Zenon DEF Spelled
        <5> QED
          BY <1>3, <4>1, <5>1
      <4>3. SubSeq(Spelled(m), 1, n + 1) \in Trie!KeyPrefixes
        <5>1. n + 1 \in 0..Len(Spelled(m))
          BY <1>3, <1>6, <4>2
        <5> QED
          BY <3>0, <5>1, Prefixes
      <4> DEFINE a == SubSeq(Spelled(m), 1, n + 1)
      <4> DEFINE b == Append(Spelled(n), quote)
      <4>4. a \in Seq(Chars) /\ Len(a) = n + 1 /\ \A i \in 1..(n + 1) : a[i] = Spelled(m)[i]
        BY <1>3, <1>6, <4>2
      <4>5. Spelled(n) \in Seq(Chars) /\ Len(Spelled(n)) = n
        BY <1>3, <1>6, <4>1 DEF Spelled
      <4>6. quote \in Chars
        <5>1. n + 1 \in 1..m
          BY <1>3, <1>6
        <5> QED
          BY <5>1, <4>1, <1>2
      <4>7. b \in Seq(Chars) /\ Len(b) = n + 1 /\ b[n + 1] = quote /\ \A i \in 1..n : b[i] = Spelled(n)[i]
        BY <4>5, <4>6, <1>3
      <4>8. \A i \in 1..n : Spelled(n)[i] = Decoded[i].c
        BY DEF Spelled
      <4>9. \A i \in 1..(n + 1) : Spelled(m)[i] = Decoded[i].c
        BY <1>3, <1>6 DEF Spelled
      <4> HIDE DEF a, b
      <4>10. \A i \in 1..(n + 1) : a[i] = b[i]
        <5> SUFFICES ASSUME NEW i \in 1..(n + 1) PROVE a[i] = b[i]
          OBVIOUS
        <5>1. CASE i = n + 1
          BY <1>2, <4>4, <4>7, <4>9, <5>1
        <5>2. CASE i # n + 1
          <6>1. i \in 1..n
            BY <1>3, <5>2
          <6> QED
            BY <4>4, <4>7, <4>8, <4>9, <6>1
        <5> QED
          BY <5>1, <5>2
      <4>11. a = b
        BY <4>4, <4>7, <4>10, <1>3
      <4> QED
        BY <4>3, <4>11 DEF a, b
    <3> QED
      BY <3>1
  <2> QED
    BY <2>3, <2>4
<1> QED
  BY <1>3, <1>4, <1>5, <1>6

\* What is where in two sequences joined.
LEMMA Joined ==
  ASSUME NEW s \in Seq(Letters), NEW t \in Seq(Letters)
  PROVE  /\ Len(s \o t) = Len(s) + Len(t)
         /\ \A i \in 1..Len(s) : (s \o t)[i] = s[i]
         /\ \A i \in (Len(s) + 1)..(Len(s) + Len(t)) : (s \o t)[i] = t[i - Len(s)]
         /\ Len(t) > 0 => (s \o t)[Len(s) + 1] = t[1]
OBVIOUS

\* The letters in front of a quote no backslash escapes, and that quote.
LEMMA QuoteFound ==
  ASSUME Typed, text \in Seq(Chars), from = 1, NEW q \in 1..(Len(text) - 1),
         NEW quote, quote # "\\", text[q + 1] = quote,
         NEW E, Escapes(E),
         E[q + 1] = 0, text[1] # "\\"
  PROVE  Decoded \in Seq(Letters) /\ \E n \in 0..(Len(Decoded) - 1) : QuoteBehind(n, q, quote)
<1>0. Decoded = Said[1] /\ Len(text) \in Nat /\ q \in Nat /\ 1 \in 0..(Len(text) + 1)
  BY DEF Decoded
<1>1. Closes(Decoded, q, quote)
  BY <1>0, QuoteSaid
<1>2. Decoded \in Seq(Letters)
  BY <1>0, SaidTyped
<1> DEFINE d == Decoded
<1> HIDE DEF d
<1> DEFINE k == [c |-> quote, at |-> q]
<1>3. PICK s, r \in Seq(Letters) : /\ d = s \o (<<k>> \o r)
                                   /\ \A i \in 1..Len(s) : s[i].at < q
                                   /\ \A i \in 1..Len(r) : r[i].at > q
  BY <1>1, Zenon DEF Closes, d
<1>4. k.c = quote /\ k.at = q
  OBVIOUS
<1>5. k \in Letters
  <2>1. q + 1 \in 1..Len(text)
    BY <1>0
  <2>2. text[q + 1] \in Chars
    BY <2>1
  <2> QED
    BY <1>0, <2>2 DEF Letters
<1> HIDE DEF k
<1> DEFINE n == Len(s)
<1> DEFINE t == <<k>> \o r
<1>6. t \in Seq(Letters) /\ Len(t) = 1 + Len(r) /\ t[1] = k /\ \A i \in 2..Len(t) : t[i] = r[i - 1]
  BY <1>5
<1> HIDE DEF t
<1>7. d = s \o t
  BY <1>3 DEF t
<1>8. /\ n \in Nat /\ Len(r) \in Nat /\ Len(d) = n + 1 + Len(r) /\ d[n + 1] = k
      /\ \A i \in 1..n : d[i] = s[i]
  <2>1. n \in Nat /\ Len(r) \in Nat /\ Len(t) = 1 + Len(r)
    BY <1>6
  <2>2. Len(d) = n + Len(t) /\ d[n + 1] = t[1] /\ \A i \in 1..n : d[i] = s[i]
    <3>1. Len(t) > 0
      BY <2>1
    <3>2. Len(s \o t) = Len(s) + Len(t) /\ (s \o t)[Len(s) + 1] = t[1]
          /\ \A i \in 1..Len(s) : (s \o t)[i] = s[i]
      BY <1>6, <3>1, Joined, Zenon
    <3> QED
      BY <1>7, <3>2, Zenon
  <2> QED
    BY <1>6, <2>1, <2>2
<1>9. \A i \in (n + 2)..Len(d) : d[i] = r[i - (n + 1)] /\ i - (n + 1) \in 1..Len(r)
  <2> SUFFICES ASSUME NEW i \in (n + 2)..Len(d) PROVE d[i] = r[i - (n + 1)] /\ i - (n + 1) \in 1..Len(r)
    OBVIOUS
  <2>1. i - n \in 2..Len(t) /\ i \in (n + 1)..(n + Len(t)) /\ (i - n) - 1 = i - (n + 1) /\ i - (n + 1) \in 1..Len(r)
    BY <1>6, <1>8
  <2>2. d[i] = t[i - n]
    BY <1>6, <1>7, <2>1, Joined
  <2>3. t[i - n] = r[(i - n) - 1]
    BY <1>6, <2>1
  <2> QED
    BY <2>1, <2>2, <2>3
<1> HIDE DEF n
<1>10. ASSUME NEW i \in 1..Len(d) PROVE (i <= n <=> d[i].at < q) /\ (i > n + 1 => d[i].at > q)
  <2>1. CASE i <= n
    <3>1. i \in 1..n
      BY <1>8, <2>1
    <3>2. d[i].at < q
      BY <1>3, <1>8, <3>1 DEF n
    <3> QED
      BY <1>8, <2>1, <3>2
  <2>2. CASE i = n + 1
    BY <1>0, <1>4, <1>8, <2>2
  <2>3. CASE i > n + 1
    <3>1. i \in (n + 2)..Len(d)
      BY <1>8, <2>3
    <3> DEFINE j == i - (n + 1)
    <3>2. d[i] = r[j] /\ j \in 1..Len(r)
      BY <1>9, <3>1
    <3> HIDE DEF j
    <3>3. d[i].at > q
      BY <1>3, <3>2
    <3>4. d[i].at \in Nat
      <4>1. r[j] \in Letters
        BY <3>2
      <4> QED
        BY <3>2, <4>1 DEF Letters
    <3> QED
      BY <1>0, <1>8, <2>3, <3>3, <3>4
  <2> QED
    BY <1>8, <2>1, <2>2, <2>3
<1>11. n \in 0..(Len(d) - 1)
  BY <1>8
<1> QED
  BY <1>2, <1>4, <1>8, <1>10, <1>11, Zenon DEF QuoteBehind, d

--------------------------------------------------------------------------------
(* One round of the loop.                                                     *)

\* The node a mismatch leaves the walk at is one of the trie.
LEMMA MismatchTyped ==
  ASSUME NEW t \in Trie!TrieState, NEW c
  PROVE  Trie!Mismatch(encoding, t, c) \in Trie!Nodes
<1> DEFINE node == t.position
<1>1. node \in Trie!Nodes /\ Trie!NotFound \in Trie!Nodes
  BY DEF Trie!TrieState, Trie!Nodes
<1>2. ASSUME Trie!LastLabels(node) # {}
      PROVE  Append(node, CHOOSE l \in Trie!LastLabels(node) : TRUE) \in Trie!Nodes
  <2> DEFINE l == CHOOSE l \in Trie!LastLabels(node) : TRUE
  <2>1. l \in Trie!LastLabels(node)
    BY <1>2
  <2> HIDE DEF l
  <2>2. Append(node, l) \in Trie!KeyPrefixes
    BY <2>1 DEF Trie!LastLabels, Trie!Labels
  <2> QED
    BY <2>2 DEF Trie!Nodes, l
<1> QED
  BY <1>1, <1>2 DEF Trie!Mismatch

\* What a step into the trie does to the state.
LEMMA EnterFields ==
  ASSUME Typed, NEW t \in Trie!TrieState, NEW node \in Trie!Nodes
  PROVE  /\ Trie!Enter(t, node) \in Trie!TrieState
         /\ Trie!Enter(t, node).position = node
         /\ Trie!Enter(t, node).token = IF options.keep_last_token THEN Trie!TokenAt(node) ELSE t.token
         /\ Trie!Enter(t, node).req_position = t.req_position
         /\ Trie!Enter(t, node).skip_next = t.skip_next
         /\ Trie!Enter(t, node).escape = t.escape
         /\ Trie!Enter(t, node).delimiter = t.delimiter
<1> DEFINE entered == IF options.keep_last_token THEN Trie!TokenAt(node) ELSE t.token
<1>1. entered \in Nat
  <2>1. \A x : Trie!TokenAt(x) \in Nat
    BY Prefixes
  <2> QED
    BY <2>1 DEF Trie!TrieState
<1>2. Trie!Enter(t, node) = [t EXCEPT !.position = node, !.token = entered]
  BY DEF Trie!Enter
<1> HIDE DEF entered
<1>3. /\ Trie!Enter(t, node) \in Trie!TrieState
      /\ Trie!Enter(t, node).position = node
      /\ Trie!Enter(t, node).token = entered
      /\ Trie!Enter(t, node).req_position = t.req_position
      /\ Trie!Enter(t, node).skip_next = t.skip_next
      /\ Trie!Enter(t, node).escape = t.escape
      /\ Trie!Enter(t, node).delimiter = t.delimiter
  BY <1>1, <1>2 DEF Trie!TrieState
<1> QED
  BY <1>3, Zenon DEF entered

\* What a step out of the trie does to it.
LEMMA LeaveFields ==
  ASSUME Typed, NEW t \in Trie!TrieState, NEW c \in Chars
  PROVE  /\ Trie!Leave(encoding, t, c) \in Trie!TrieState
         /\ Trie!Leave(encoding, t, c).terminator = c
         /\ Trie!Leave(encoding, t, c).token =
              IF options.keep_last_token \/ Trie!TokenAt(t.position) = 0
              THEN t.token ELSE Trie!TokenAt(t.position)
         /\ Trie!Leave(encoding, t, c).req_position = t.req_position
         /\ Trie!Leave(encoding, t, c).skip_next = t.skip_next
         /\ Trie!Leave(encoding, t, c).escape = t.escape
         /\ Trie!Leave(encoding, t, c).delimiter = t.delimiter
<1> DEFINE left == IF options.keep_last_token \/ Trie!TokenAt(t.position) = 0
                   THEN t.token ELSE Trie!TokenAt(t.position)
           there == Trie!Mismatch(encoding, t, c)
<1>1. left \in Nat
  <2>1. \A x : Trie!TokenAt(x) \in Nat
    BY Prefixes
  <2> QED
    BY <2>1 DEF Trie!TrieState
<1>2. there \in Trie!Nodes
  BY MismatchTyped
<1>3. Trie!Leave(encoding, t, c) = [t EXCEPT !.position = there, !.terminator = c, !.token = left]
  BY DEF Trie!Leave
<1> HIDE DEF left, there
<1>4. /\ Trie!Leave(encoding, t, c) \in Trie!TrieState
      /\ Trie!Leave(encoding, t, c).terminator = c
      /\ Trie!Leave(encoding, t, c).token = left
      /\ Trie!Leave(encoding, t, c).req_position = t.req_position
      /\ Trie!Leave(encoding, t, c).skip_next = t.skip_next
      /\ Trie!Leave(encoding, t, c).escape = t.escape
      /\ Trie!Leave(encoding, t, c).delimiter = t.delimiter
  BY <1>1, <1>2, <1>3 DEF Trie!TrieState
<1> QED
  BY <1>4, Zenon DEF left

\* What the end of the buffer does to it.
LEMMA BufferEndFields ==
  ASSUME Typed, NEW t \in Trie!TrieState
  PROVE  /\ Trie!AtBufferEnd(t) \in Trie!TrieState
         /\ Trie!AtBufferEnd(t).position = t.position
         /\ Trie!AtBufferEnd(t).token =
              IF options.end_of_buffer_token /\ ~options.keep_last_token
              THEN Trie!TokenAt(t.position) ELSE t.token
         /\ Trie!AtBufferEnd(t).req_position = t.req_position
         /\ Trie!AtBufferEnd(t).skip_next = 1
         /\ Trie!AtBufferEnd(t).escape = t.escape
         /\ Trie!AtBufferEnd(t).delimiter = t.delimiter
<1> DEFINE ended == IF options.end_of_buffer_token /\ ~options.keep_last_token
                    THEN Trie!TokenAt(t.position) ELSE t.token
<1>1. ended \in Nat
  <2>1. \A x : Trie!TokenAt(x) \in Nat
    BY Prefixes
  <2> QED
    BY <2>1 DEF Trie!TrieState
<1>2. Trie!AtBufferEnd(t) = [t EXCEPT !.skip_next = 1, !.token = ended]
  BY DEF Trie!AtBufferEnd
<1>3. 1 \in Trie!Bit
  BY DEF Trie!Bit
<1> HIDE DEF ended
<1>4. /\ Trie!AtBufferEnd(t) \in Trie!TrieState
      /\ Trie!AtBufferEnd(t).position = t.position
      /\ Trie!AtBufferEnd(t).token = ended
      /\ Trie!AtBufferEnd(t).req_position = t.req_position
      /\ Trie!AtBufferEnd(t).skip_next = 1
      /\ Trie!AtBufferEnd(t).escape = t.escape
      /\ Trie!AtBufferEnd(t).delimiter = t.delimiter
  BY <1>1, <1>2, <1>3 DEF Trie!TrieState
<1> QED
  BY <1>4, Zenon DEF ended

\* noizu_trie__array__advance and its twins have four ways to go.
LEMMA AdvanceWays ==
  ASSUME NEW n, n = Trie!NextChar(st, Buffer),
         NEW node,
         node = IF Trie!HardDelim(n.st, n.c) THEN Trie!NotFound ELSE Trie!ChildOf(n.st.position, n.c),
         NEW a, a = Trie!Advance(encoding, st, Buffer)
  PROVE  \/ ~n.ok /\ a.code = "BUFFER_END_ON_SKIP" /\ a.st = n.st
         \/ /\ n.ok /\ node = Trie!NotFound
            /\ a.code = "EXIT" /\ a.st = Trie!Leave(encoding, n.st, n.c)
         \/ /\ n.ok /\ node # Trie!NotFound /\ a.code = "CONTINUE"
            /\ Trie!Enter(n.st, node).req_position + 1 \in DOMAIN Buffer
            /\ a.st = [Trie!Enter(n.st, node) EXCEPT !.req_position = @ + 1]
         \/ /\ n.ok /\ node # Trie!NotFound
            /\ a.code = "BUFFER_END" /\ a.st = Trie!AtBufferEnd(Trie!Enter(n.st, node))
<1> DEFINE in == Trie!Enter(n.st, node)
<1>1. a = CASE ~n.ok -> [code |-> "BUFFER_END_ON_SKIP", st |-> n.st]
            [] n.ok /\ node = Trie!NotFound -> [code |-> "EXIT", st |-> Trie!Leave(encoding, n.st, n.c)]
            [] n.ok /\ node # Trie!NotFound /\ in.req_position + 1 \in DOMAIN Buffer ->
                 [code |-> "CONTINUE", st |-> [in EXCEPT !.req_position = @ + 1]]
            [] OTHER -> [code |-> "BUFFER_END", st |-> Trie!AtBufferEnd(in)]
  BY Zenon DEF Trie!Advance
<1> HIDE DEF in
<1>2. CASE ~n.ok
  BY <1>1, <1>2
<1>3. CASE n.ok /\ node = Trie!NotFound
  BY <1>1, <1>3
<1>4. CASE n.ok /\ node # Trie!NotFound /\ in.req_position + 1 \in DOMAIN Buffer
  BY <1>1, <1>4 DEF in
<1>5. CASE n.ok /\ node # Trie!NotFound /\ in.req_position + 1 \notin DOMAIN Buffer
  BY <1>1, <1>5 DEF in
<1> QED
  BY <1>2, <1>3, <1>4, <1>5

--------------------------------------------------------------------------------
(* The invariant.                                                             *)

\* As long as the match goes on, what has been read since the last reset is a
\* beginning of keys and all that the text says up to where it is read next.
Underway ==
  /\ st.position \in Trie!KeyPrefixes
  /\ \E done \in Seq(Letters) :
       /\ Decoded = done \o Said[Unread(st)]
       /\ st.position = Word(done)
       /\ options.hard_delim => \A i \in 1..Len(done) : done[i].c # st.delimiter
  /\ NoInterim => st.token = IF options.keep_last_token THEN Trie!TokenAt(st.position) ELSE 0

TokInv ==
  /\ TokenizerTypeOK
  /\ EscapeFits(st)
  /\ code = "EXIT" => st.escape = 0 /\ st.skip_next = 0
  /\ ~resumed /\ code # "EXIT" => Underway
  /\ LongestMatch

\* What the text says does not depend on how much of it has arrived.
LEMMA SaidStays ==
  ASSUME UNCHANGED <<options, text, from>>
  PROVE  /\ Said' = Said /\ Decoded' = Decoded /\ NoInterim' = NoInterim
         /\ \A k : Spelled(k)' = Spelled(k)
         /\ Trie!KeyPrefixes' = Trie!KeyPrefixes
         /\ st'.delimiter = st.delimiter => Matched' = Matched
<1>1. text' = text /\ options' = options /\ from' = from
  OBVIOUS
<1>2. Said' = Said
  BY <1>1 DEF Said, Trie!Unescape
<1>3. Decoded' = Decoded
  BY <1>1, <1>2 DEF Decoded
<1>4. \A k : Spelled(k)' = Spelled(k)
  BY <1>3 DEF Spelled
<1>5. Trie!KeyPrefixes' = Trie!KeyPrefixes
  BY DEF Trie!KeyPrefixes
<1>6. st'.delimiter = st.delimiter => Matched' = Matched
  BY <1>1, <1>3, <1>4 DEF Matched
<1>7. NoInterim' = NoInterim
  BY <1>1 DEF NoInterim
<1> QED
  BY <1>2, <1>3, <1>4, <1>5, <1>6, <1>7

\* After a reset nothing has been read.
LEMMA ResetUnderway ==
  ASSUME Typed, text \in Seq(Chars), from \in Nat, from < Len(text), NEW delimiter \in Chars,
         st = Trie!TrieReset(delimiter, from)
  PROVE  st \in Trie!TrieState /\ st.req_position = from /\ EscapeFits(st) /\ Underway
<1>1. /\ st.position = <<>> /\ st.req_position = from /\ st.skip_next = 0 /\ st.escape = 0
      /\ st.token = 0 /\ st.delimiter = delimiter
  BY DEF Trie!TrieReset
<1>2. st \in Trie!TrieState
  <2>1. Trie!Nul \in Chars /\ <<>> \in Trie!Nodes /\ 0 \in Trie!Bit
    BY DEF Typed, Trie!CodeChars, Trie!Nodes, Trie!Bit
  <2> QED
    BY <2>1 DEF Trie!TrieReset, Trie!TrieState
<1>3. Unread(st) = from
  BY <1>1 DEF Unread
<1>4. Said[from] \in Seq(Letters)
  BY SaidTyped
<1>5. <<>> \in Seq(Letters) /\ Len(<<>>) = 0 /\ <<>> \o Said[from] = Said[from]
  BY <1>4
<1>6. Word(<<>>) = <<>>
  BY DEF Word
<1>7. \E done \in Seq(Letters) :
       /\ Decoded = done \o Said[Unread(st)]
       /\ st.position = Word(done)
       /\ options.hard_delim => \A i \in 1..Len(done) : done[i].c # st.delimiter
  <2>1. Decoded = <<>> \o Said[Unread(st)]
    BY <1>3, <1>5 DEF Decoded
  <2>2. \A i \in 1..Len(<<>>) : <<>>[i].c # st.delimiter
    BY <1>5
  <2> WITNESS <<>> \in Seq(Letters)
  <2> QED
    BY <1>1, <1>6, <2>1, <2>2
<1>8. st.position \in Trie!KeyPrefixes /\ Trie!TokenAt(st.position) = 0
  BY <1>1, Prefixes
<1> QED
  BY <1>1, <1>2, <1>7, <1>8 DEF Underway, EscapeFits

\* The initial states.
LEMMA TokInvInit ==
  ASSUME Typed, Init
  PROVE  TokInv
<1>1. /\ text \in Seq(Chars) /\ received \in 2..Len(text) /\ from = 1 /\ code = "CONTINUE"
      /\ resumed = FALSE /\ options \in [Trie!OptionFields -> BOOLEAN]
      /\ encoding \in Trie!Encodings
  BY DEF Init, Typed
<1>2. PICK delimiter \in Chars : st = Trie!TrieReset(delimiter, from)
  BY <1>1 DEF Init, Typed
<1>3. from \in Nat /\ from < Len(text) /\ from \in 1..(received - 1) /\ from < received
  BY <1>1
<1>4. st \in Trie!TrieState /\ st.req_position = from /\ EscapeFits(st) /\ Underway
  BY <1>1, <1>2, <1>3, ResetUnderway
<1> QED
  BY <1>1, <1>3, <1>4 DEF TokInv, TokenizerTypeOK, Codes, LongestMatch

\* A round of the loop reads one more character, or waits for it, and keeps the types.
LEMMA StepTyped ==
  ASSUME Typed, TokenizerTypeOK, EscapeFits(st),
         NEW n, n = Trie!NextChar(st, Buffer),
         NEW node,
         node = IF Trie!HardDelim(n.st, n.c) THEN Trie!NotFound ELSE Trie!ChildOf(n.st.position, n.c),
         NEW a, a = Trie!Advance(encoding, st, Buffer)
  PROVE  /\ a.st \in Trie!TrieState /\ a.st.req_position < received /\ EscapeFits(a.st)
         /\ a.code \in Codes /\ a.st.delimiter = st.delimiter
         /\ a.code = "EXIT" => a.st.escape = 0 /\ a.st.skip_next = 0
         /\ \/ /\ ~n.ok /\ a.code # "EXIT" /\ a.st.position = st.position /\ a.st.token = st.token
               /\ Unread(a.st) = Unread(st)
            \/ /\ n.ok /\ node = Trie!NotFound /\ a.code = "EXIT"
               /\ a.st.terminator = n.c /\ a.st.req_position = n.st.req_position
               /\ a.st.token = IF options.keep_last_token \/ Trie!TokenAt(st.position) = 0
                               THEN st.token ELSE Trie!TokenAt(st.position)
            \/ /\ n.ok /\ node # Trie!NotFound /\ a.code # "EXIT" /\ a.st.position = node
               /\ Unread(a.st) = n.st.req_position + 1
               /\ options.keep_last_token => a.st.token = Trie!TokenAt(node)
               /\ ~options.keep_last_token /\ ~options.end_of_buffer_token => a.st.token = st.token
<1>1. /\ n.ok \in BOOLEAN
      /\ n.st \in Trie!TrieState /\ n.st.req_position < received /\ EscapeFits(n.st)
      /\ n.st.position = st.position /\ n.st.token = st.token /\ n.st.delimiter = st.delimiter
      /\ n.ok => n.st.skip_next = 0 /\ n.st.escape = 0 /\ n.c \in Chars
      /\ ~n.ok => Unread(n.st) = Unread(st)
  BY NextCharReads
<1>2. node \in Trie!Nodes
  BY DEF Trie!ChildOf, Trie!Nodes
<1>3. DOMAIN Buffer = 0..(received - 1) /\ received \in Nat
  BY DEF Buffer, TokenizerTypeOK
<1>4. \A t \in Trie!TrieState : t.req_position \in Nat
  BY DEF Trie!TrieState
<1>5. CASE ~n.ok /\ a.code = "BUFFER_END_ON_SKIP" /\ a.st = n.st
  BY <1>1, <1>5 DEF Codes
<1>6. CASE /\ n.ok /\ node = Trie!NotFound
           /\ a.code = "EXIT" /\ a.st = Trie!Leave(encoding, n.st, n.c)
  <2>1. /\ a.st \in Trie!TrieState /\ a.st.terminator = n.c
        /\ a.st.token = IF options.keep_last_token \/ Trie!TokenAt(st.position) = 0
                        THEN st.token ELSE Trie!TokenAt(st.position)
        /\ a.st.req_position = n.st.req_position
        /\ a.st.skip_next = 0 /\ a.st.escape = 0 /\ a.st.delimiter = st.delimiter
    <3>1. n.st \in Trie!TrieState /\ n.c \in Chars
      BY <1>1, <1>6
    <3>2. /\ a.st \in Trie!TrieState /\ a.st.terminator = n.c
          /\ a.st.token = IF options.keep_last_token \/ Trie!TokenAt(n.st.position) = 0
                          THEN n.st.token ELSE Trie!TokenAt(n.st.position)
          /\ a.st.req_position = n.st.req_position
          /\ a.st.skip_next = n.st.skip_next /\ a.st.escape = n.st.escape
          /\ a.st.delimiter = n.st.delimiter
      BY <1>6, <3>1, LeaveFields
    <3> QED
      BY <1>1, <1>6, <3>2
  <2> QED
    BY <1>1, <1>6, <2>1 DEF Codes, EscapeFits
<1> DEFINE in == Trie!Enter(n.st, node)
<1>7. ASSUME n.ok
      PROVE  /\ in \in Trie!TrieState /\ in.position = node
             /\ in.token = IF options.keep_last_token THEN Trie!TokenAt(node) ELSE st.token
             /\ in.req_position = n.st.req_position /\ in.skip_next = 0 /\ in.escape = 0
             /\ in.delimiter = st.delimiter
  <2>1. n.st \in Trie!TrieState /\ n.c \in Chars
    BY <1>1, <1>7
  <2>2. /\ in \in Trie!TrieState /\ in.position = node
        /\ in.token = IF options.keep_last_token THEN Trie!TokenAt(node) ELSE n.st.token
        /\ in.req_position = n.st.req_position /\ in.skip_next = n.st.skip_next
        /\ in.escape = n.st.escape /\ in.delimiter = n.st.delimiter
    BY <1>2, <2>1, EnterFields
  <2> HIDE DEF in
  <2> QED
    BY <1>1, <1>7, <2>2
<1> HIDE DEF in
<1>8. CASE /\ n.ok /\ node # Trie!NotFound /\ a.code = "CONTINUE"
           /\ in.req_position + 1 \in DOMAIN Buffer
           /\ a.st = [in EXCEPT !.req_position = @ + 1]
  <2>1. in.req_position + 1 < received /\ in.req_position + 1 \in Nat
    BY <1>3, <1>4, <1>7, <1>8
  <2> DEFINE m == in.req_position + 1
  <2> HIDE DEF m
  <2>2. a.st = [in EXCEPT !.req_position = m] /\ m \in Nat /\ m < received
    BY <1>8, <2>1 DEF m
  <2>3. /\ a.st \in Trie!TrieState /\ a.st.req_position = m /\ a.st.position = in.position
        /\ a.st.token = in.token /\ a.st.skip_next = in.skip_next /\ a.st.escape = in.escape
        /\ a.st.delimiter = in.delimiter
    BY <1>7, <1>8, <2>2 DEF Trie!TrieState
  <2>4. Unread(a.st) = n.st.req_position + 1
    BY <1>7, <1>8, <2>2, <2>3 DEF Unread, m
  <2> QED
    BY <1>7, <1>8, <2>2, <2>3, <2>4 DEF Codes, EscapeFits
<1>9. CASE /\ n.ok /\ node # Trie!NotFound
           /\ a.code = "BUFFER_END" /\ a.st = Trie!AtBufferEnd(in)
  <2>1. /\ a.st \in Trie!TrieState /\ a.st.req_position = in.req_position /\ a.st.position = in.position
        /\ a.st.token = IF options.end_of_buffer_token /\ ~options.keep_last_token
                        THEN Trie!TokenAt(in.position) ELSE in.token
        /\ a.st.skip_next = 1 /\ a.st.escape = in.escape /\ a.st.delimiter = in.delimiter
    BY <1>7, <1>9, BufferEndFields
  <2>2. Unread(a.st) = n.st.req_position + 1
    BY <1>7, <1>9, <2>1 DEF Unread
  <2> QED
    BY <1>1, <1>7, <1>9, <2>1, <2>2 DEF Codes, EscapeFits
<1> QED
  BY <1>5, <1>6, <1>8, <1>9, AdvanceWays DEF in

\* A round that leaves the trie has found the longest match; any other has read on.
LEMMA InvStep ==
  ASSUME Typed, TokInv, Step
  PROVE  TokInv'
<1> DEFINE n == Trie!NextChar(st, Buffer)
           node == IF Trie!HardDelim(n.st, n.c) THEN Trie!NotFound
                   ELSE Trie!ChildOf(n.st.position, n.c)
           a == Trie!Advance(encoding, st, Buffer)
<1>1. /\ st' = a.st /\ code' = a.code /\ code # "EXIT"
      /\ UNCHANGED <<encoding, options, text, received, from, resumed>>
  BY Zenon DEF Step
<1>2. TokenizerTypeOK /\ EscapeFits(st)
  BY DEF TokInv
<1>3. /\ a.st \in Trie!TrieState /\ a.st.req_position < received /\ EscapeFits(a.st)
      /\ a.code \in Codes /\ a.st.delimiter = st.delimiter
      /\ a.code = "EXIT" => a.st.escape = 0 /\ a.st.skip_next = 0
      /\ \/ /\ ~n.ok /\ a.code # "EXIT" /\ a.st.position = st.position /\ a.st.token = st.token
            /\ Unread(a.st) = Unread(st)
         \/ /\ n.ok /\ node = Trie!NotFound /\ a.code = "EXIT"
            /\ a.st.terminator = n.c /\ a.st.req_position = n.st.req_position
            /\ a.st.token = IF options.keep_last_token \/ Trie!TokenAt(st.position) = 0
                            THEN st.token ELSE Trie!TokenAt(st.position)
         \/ /\ n.ok /\ node # Trie!NotFound /\ a.code # "EXIT" /\ a.st.position = node
            /\ Unread(a.st) = n.st.req_position + 1
            /\ options.keep_last_token => a.st.token = Trie!TokenAt(node)
            /\ ~options.keep_last_token /\ ~options.end_of_buffer_token => a.st.token = st.token
  BY <1>2, StepTyped
<1>4. /\ n.st.position = st.position /\ n.st.delimiter = st.delimiter
      /\ n.ok => /\ n.c \in Chars /\ n.st.req_position \in Nat /\ n.st.req_position < received
                 /\ Said[Unread(st)] =
                      <<[c |-> n.c, at |-> n.st.req_position]>> \o Said[n.st.req_position + 1]
  <2>1. n.st \in Trie!TrieState => n.st.req_position \in Nat
    BY DEF Trie!TrieState
  <2> QED
    BY <1>2, <2>1, NextCharReads
<1>5. /\ text \in Seq(Chars) /\ Len(text) \in Nat /\ received \in Nat /\ received <= Len(text)
      /\ options.hard_delim \in BOOLEAN /\ options.keep_last_token \in BOOLEAN
      /\ options.end_of_buffer_token \in BOOLEAN
  BY <1>2 DEF TokenizerTypeOK, Trie!OptionFields
<1>6. /\ Said' = Said /\ Decoded' = Decoded /\ NoInterim' = NoInterim
      /\ \A k : Spelled(k)' = Spelled(k)
      /\ Matched' = Matched
  <2>1. UNCHANGED <<options, text, from>> /\ st'.delimiter = st.delimiter
    BY <1>1, <1>3
  <2> QED
    BY <2>1, SaidStays
<1> DEFINE l == [c |-> n.c, at |-> n.st.req_position]
           rest == Said[n.st.req_position + 1]
<1>7. ASSUME n.ok
      PROVE  l \in Letters /\ l.c = n.c /\ l.at = n.st.req_position
             /\ rest \in Seq(Letters) /\ Said[Unread(st)] = <<l>> \o rest
  <2>1. l \in Letters /\ l.c = n.c /\ l.at = n.st.req_position
    BY <1>4, <1>7 DEF Letters
  <2>2. n.st.req_position + 1 \in 0..(Len(text) + 1)
    BY <1>4, <1>5, <1>7
  <2>3. rest \in Seq(Letters)
    BY <1>5, <2>2, SaidTyped
  <2> QED
    BY <1>4, <1>7, <2>1, <2>3
<1>8. node = Trie!NotFound <=> (options.hard_delim /\ st.delimiter = n.c)
                                \/ Append(st.position, n.c) \notin Trie!KeyPrefixes
  BY <1>4, Prefixes DEF Trie!HardDelim, Trie!ChildOf
<1>9. node # Trie!NotFound => node = Append(st.position, n.c) /\ node \in Trie!KeyPrefixes
  BY <1>4 DEF Trie!ChildOf
<1> HIDE DEF n, node, a, l, rest
<1>10. TokenizerTypeOK' /\ EscapeFits(st)'
       /\ (code' = "EXIT" => st'.escape = 0 /\ st'.skip_next = 0)
  <2>1. TokenizerTypeOK'
    <3>1. Trie!Encodings' = Trie!Encodings /\ Trie!TrieState' = Trie!TrieState
          /\ Trie!OptionFields' = Trie!OptionFields
      BY DEF Trie!Encodings, Trie!TrieState, Trie!Nodes, Trie!KeyPrefixes, Trie!NotFound, Trie!Bit,
             Trie!OptionFields
    <3> QED
      BY <1>1, <1>2, <1>3, <3>1 DEF TokenizerTypeOK
  <2> QED
    BY <1>1, <1>3, <2>1 DEF EscapeFits
<1>11. CASE resumed
  BY <1>1, <1>2, <1>10, <1>11 DEF TokInv, LongestMatch, TokenizerTypeOK
<1>12. CASE ~resumed
  <2>1. Underway
    BY <1>1, <1>12 DEF TokInv
  <2>2. PICK done \in Seq(Letters) :
          /\ Decoded = done \o Said[Unread(st)]
          /\ st.position = Word(done)
          /\ options.hard_delim => \A i \in 1..Len(done) : done[i].c # st.delimiter
    BY <2>1 DEF Underway
  <2>3. st.position \in Trie!KeyPrefixes /\ Trie!KeyPrefixes' = Trie!KeyPrefixes
        /\ (NoInterim => st.token = IF options.keep_last_token THEN Trie!TokenAt(st.position) ELSE 0)
        /\ \A k : Trie!TokenAt(k)' = Trie!TokenAt(k)
    BY <2>1 DEF Underway, Trie!KeyPrefixes, Trie!TokenAt
  <2>4. CASE ~n.ok /\ a.code # "EXIT" /\ a.st.position = st.position /\ a.st.token = st.token
             /\ Unread(a.st) = Unread(st)
    <3>1. Unread(st)' = Unread(st) /\ st'.position = st.position /\ st'.token = st.token
          /\ st'.delimiter = st.delimiter
      BY <1>1, <1>3, <2>4 DEF Unread
    <3>2. Underway'
      BY <1>1, <1>6, <2>2, <2>3, <3>1 DEF Underway
    <3>3. code' # "EXIT"
      BY <1>1, <2>4
    <3> QED
      BY <1>10, <3>2, <3>3 DEF TokInv, LongestMatch
  <2>5. CASE /\ n.ok /\ node = Trie!NotFound /\ a.code = "EXIT"
             /\ a.st.terminator = n.c /\ a.st.req_position = n.st.req_position
             /\ a.st.token = IF options.keep_last_token \/ Trie!TokenAt(st.position) = 0
                             THEN st.token ELSE Trie!TokenAt(st.position)
    <3>1. l \in Letters /\ l.c = n.c /\ l.at = n.st.req_position
          /\ rest \in Seq(Letters) /\ Said[Unread(st)] = <<l>> \o rest
      BY <1>7, <2>5
    <3>2. Word(done) \in Trie!KeyPrefixes /\ Decoded = done \o (<<l>> \o rest)
      BY <2>2, <2>3, <3>1
    <3>3. \/ options.hard_delim /\ st.delimiter = l.c
          \/ Append(Word(done), l.c) \notin Trie!KeyPrefixes
      BY <1>8, <2>2, <2>5, <3>1
    <3>4. /\ Matched < Len(Decoded) /\ Decoded[Matched + 1] = l /\ Spelled(Matched) = Word(done)
      BY <2>2, <3>1, <3>2, <3>3, MatchEnds
    <3>5. st'.terminator = Decoded[Matched + 1].c /\ st'.req_position = Decoded[Matched + 1].at
      BY <1>1, <2>5, <3>1, <3>4
    <3>6. NoInterim => st'.token = Trie!TokenAt(Spelled(Matched))
      <4> SUFFICES ASSUME NoInterim
                   PROVE  st'.token = Trie!TokenAt(Spelled(Matched))
        OBVIOUS
      <4>1. st.token = IF options.keep_last_token THEN Trie!TokenAt(st.position) ELSE 0
        BY <2>3
      <4>2. st'.token = Trie!TokenAt(st.position)
        BY <1>1, <1>5, <2>5, <4>1
      <4> QED
        BY <2>2, <3>4, <4>2
    <3>7. LongestMatch'
      <4>1. Trie!TokenAt(Spelled(Matched))' = Trie!TokenAt(Spelled(Matched))
        BY <1>6 DEF Trie!TokenAt
      <4> QED
        BY <1>6, <3>4, <3>5, <3>6, <4>1 DEF LongestMatch
    <3>8. code' = "EXIT"
      BY <1>1, <2>5
    <3> QED
      BY <1>10, <3>7, <3>8 DEF TokInv
  <2>6. CASE /\ n.ok /\ node # Trie!NotFound /\ a.code # "EXIT" /\ a.st.position = node
             /\ Unread(a.st) = n.st.req_position + 1
             /\ options.keep_last_token => a.st.token = Trie!TokenAt(node)
             /\ ~options.keep_last_token /\ ~options.end_of_buffer_token => a.st.token = st.token
    <3>1. l \in Letters /\ l.c = n.c /\ l.at = n.st.req_position
          /\ rest \in Seq(Letters) /\ Said[Unread(st)] = <<l>> \o rest
      BY <1>7, <2>6
    <3> DEFINE more == done \o <<l>>
    <3>2. more \in Seq(Letters) /\ Len(more) = Len(done) + 1 /\ Word(more) = Append(Word(done), l.c)
      BY <3>1, WordOf
    <3>3. Decoded = more \o rest
      BY <2>2, <3>1
    <3>4. \A i \in 1..Len(done) : more[i] = done[i]
      BY <3>1
    <3>5. more[Len(done) + 1] = l
      BY <3>1
    <3> HIDE DEF more
    <3>6. node = Word(more) /\ node \in Trie!KeyPrefixes
      BY <1>9, <2>2, <2>6, <3>1, <3>2
    <3>7. ASSUME options.hard_delim, NEW i \in 1..Len(more) PROVE more[i].c # st.delimiter
      <4>1. Len(done) \in Nat
        OBVIOUS
      <4>2. i \in 1..Len(done) \/ i = Len(done) + 1
        BY <3>2, <4>1
      <4>3. st.delimiter # n.c
        BY <1>8, <2>6, <3>7
      <4> QED
        BY <2>2, <3>1, <3>4, <3>5, <3>7, <4>2, <4>3
    <3>8. Unread(st)' = n.st.req_position + 1 /\ st'.position = node /\ st'.delimiter = st.delimiter
      BY <1>1, <1>3, <2>6 DEF Unread
    <3>9. Decoded' = more \o Said'[Unread(st)']
      BY <1>6, <3>3, <3>8 DEF rest
    <3>10. NoInterim' =>
             st'.token = IF options'.keep_last_token THEN Trie!TokenAt(st.position)' ELSE 0
      <4>1. Trie!TokenAt(st.position)' = Trie!TokenAt(node)
        BY <3>8 DEF Trie!TokenAt
      <4>2. NoInterim => (options.end_of_buffer_token => options.keep_last_token)
        BY DEF NoInterim
      <4> QED
        BY <1>1, <1>5, <1>6, <2>3, <2>6, <4>1, <4>2
    <3>11. Underway'
      <4>1. \E d \in Seq(Letters) :
              /\ Decoded' = d \o Said'[Unread(st)']
              /\ st'.position = Word(d)
              /\ options'.hard_delim => \A i \in 1..Len(d) : d[i].c # st'.delimiter
        BY <1>1, <3>2, <3>6, <3>7, <3>8, <3>9
      <4>2. st'.position \in Trie!KeyPrefixes'
        BY <2>3, <3>6, <3>8
      <4> QED
        BY <3>10, <4>1, <4>2 DEF Underway, Word, Letters
    <3>12. code' # "EXIT"
      BY <1>1, <2>6
    <3> QED
      BY <1>10, <3>11, <3>12 DEF TokInv, LongestMatch
  <2> QED
    BY <1>3, <2>4, <2>5, <2>6
<1> QED
  BY <1>11, <1>12

\* A step that changes neither the text nor the state of the tokenizer changes nothing
\* of what has been matched.
LEMMA InvStays ==
  ASSUME Typed, TokInv, UNCHANGED <<encoding, options, text, from, resumed, st, code>>,
         received' \in 2..Len(text), received <= received'
  PROVE  TokInv'
<1>1. /\ encoding' = encoding /\ options' = options /\ text' = text /\ from' = from
      /\ resumed' = resumed /\ st' = st /\ code' = code
  OBVIOUS
<1>2. /\ Said' = Said /\ Decoded' = Decoded /\ NoInterim' = NoInterim
      /\ \A k : Spelled(k)' = Spelled(k)
      /\ Trie!KeyPrefixes' = Trie!KeyPrefixes /\ Matched' = Matched
  <2>1. UNCHANGED <<options, text, from>> /\ st'.delimiter = st.delimiter
    BY <1>1
  <2> QED
    BY <2>1, SaidStays
<1>3. TokenizerTypeOK'
  <2>1. Trie!Encodings' = Trie!Encodings /\ Trie!TrieState' = Trie!TrieState
        /\ Trie!OptionFields' = Trie!OptionFields
    BY DEF Trie!Encodings, Trie!TrieState, Trie!Nodes, Trie!KeyPrefixes, Trie!NotFound, Trie!Bit,
           Trie!OptionFields
  <2>2. st.req_position \in Nat /\ received \in Nat /\ from \in 1..(received - 1)
        /\ received' \in Nat /\ st.req_position < received
    <3>1. st \in Trie!TrieState => st.req_position \in Nat
      BY DEF Trie!TrieState
    <3> QED
      BY <3>1 DEF TokInv, TokenizerTypeOK
  <2>3. st.req_position < received' /\ from \in 1..(received' - 1)
    <3>1. \A q, r, more \in Nat : \A f \in 1..(r - 1) :
            q < r /\ r <= more => q < more /\ f \in 1..(more - 1)
      OBVIOUS
    <3> QED
      BY <2>2, <3>1, Zenon
  <2> QED
    BY <1>1, <2>1, <2>3 DEF TokInv, TokenizerTypeOK
<1>4. EscapeFits(st)' /\ (code' = "EXIT" => st'.escape = 0 /\ st'.skip_next = 0)
  BY <1>1 DEF TokInv, EscapeFits
<1>5. ASSUME ~resumed', code' # "EXIT" PROVE Underway'
  <2>1. Underway
    BY <1>1, <1>5 DEF TokInv
  <2>2. Unread(st)' = Unread(st) /\ Trie!TokenAt(st.position)' = Trie!TokenAt(st.position)
    BY <1>1 DEF Unread, Trie!TokenAt
  <2>3. PICK done \in Seq(Letters) :
          /\ Decoded = done \o Said[Unread(st)]
          /\ st.position = Word(done)
          /\ options.hard_delim => \A i \in 1..Len(done) : done[i].c # st.delimiter
    BY <2>1 DEF Underway
  <2>4. \E d \in Seq(Letters) :
          /\ Decoded' = d \o Said'[Unread(st)']
          /\ st'.position = Word(d)
          /\ options'.hard_delim => \A i \in 1..Len(d) : d[i].c # st'.delimiter
    BY <1>1, <1>2, <2>2, <2>3
  <2>5. st.position \in Trie!KeyPrefixes
        /\ (NoInterim => st.token = IF options.keep_last_token THEN Trie!TokenAt(st.position) ELSE 0)
    BY <2>1 DEF Underway
  <2> QED
    BY <1>1, <1>2, <2>2, <2>4, <2>5 DEF Underway, Word, Letters
<1>6. LongestMatch'
  <2>1. Trie!TokenAt(Spelled(Matched))' = Trie!TokenAt(Spelled(Matched))
    BY <1>2 DEF Trie!TokenAt
  <2> QED
    BY <1>1, <1>2, <2>1 DEF TokInv, LongestMatch
<1> QED
  BY <1>3, <1>4, <1>5, <1>6 DEF TokInv

\* More of the text arrives: what has been matched stays so.
LEMMA InvReceive ==
  ASSUME Typed, TokInv, Receive
  PROVE  TokInv'
<1>1. UNCHANGED <<encoding, options, text, from, resumed, st, code>>
  BY DEF Receive
<1>2. received' \in 2..Len(text) /\ received <= received'
  <2>1. received \in Nat /\ received \in 2..Len(text)
    BY DEF TokInv, TokenizerTypeOK
  <2> QED
    BY <2>1 DEF Receive
<1> QED
  BY <1>1, <1>2, InvStays

\* The caller goes on behind a mismatch: nothing is promised until the next reset.
LEMMA InvResume ==
  ASSUME Typed, TokInv, Resume
  PROVE  TokInv'
<1>1. /\ code = "EXIT" /\ resumed' = TRUE /\ code' = "CONTINUE"
      /\ st' = [st EXCEPT !.req_position = received - 1]
      /\ encoding' = encoding /\ options' = options /\ text' = text /\ received' = received
      /\ from' = from
  BY DEF Resume
<1>2. TokenizerTypeOK
  BY DEF TokInv
<1> DEFINE m == received - 1
<1>3. m \in Nat /\ m < received
  BY <1>2 DEF TokenizerTypeOK
<1> HIDE DEF m
<1>4. st' \in Trie!TrieState /\ st'.req_position = m /\ st'.escape = st.escape
  <2>1. st' = [st EXCEPT !.req_position = m]
    BY <1>1 DEF m
  <2> QED
    BY <1>2, <1>3, <2>1 DEF TokenizerTypeOK, Trie!TrieState
<1>5. TokenizerTypeOK'
  <2>1. Trie!Encodings' = Trie!Encodings /\ Trie!TrieState' = Trie!TrieState
        /\ Trie!OptionFields' = Trie!OptionFields
    BY DEF Trie!Encodings, Trie!TrieState, Trie!Nodes, Trie!KeyPrefixes, Trie!NotFound, Trie!Bit,
           Trie!OptionFields
  <2> QED
    BY <1>1, <1>2, <1>3, <1>4, <2>1 DEF TokenizerTypeOK, Codes
<1>6. EscapeFits(st)'
  BY <1>1, <1>4 DEF TokInv, EscapeFits
<1> QED
  BY <1>1, <1>5, <1>6 DEF TokInv, LongestMatch

\* After a reset the next match is under way.
LEMMA InvReset ==
  ASSUME Typed, TokInv, Reset
  PROVE  TokInv'
<1>1. /\ code = "EXIT" /\ st.req_position + 1 < received /\ from' = st.req_position + 1
      /\ resumed' = FALSE /\ code' = "CONTINUE"
      /\ encoding' = encoding /\ options' = options /\ text' = text /\ received' = received
  BY DEF Reset
<1>2. TokenizerTypeOK /\ st.req_position \in Nat
  BY DEF TokInv, TokenizerTypeOK, Trie!TrieState
<1>3. PICK delimiter \in Chars : st' = Trie!TrieReset(delimiter, from')
  BY DEF Reset, Typed
<1>4. /\ text' \in Seq(Chars) /\ from' \in Nat /\ from' < Len(text') /\ from' < received'
      /\ from' \in 1..(received' - 1)
  BY <1>1, <1>2 DEF TokenizerTypeOK
<1>5. Trie!Encodings' = Trie!Encodings /\ Trie!TrieState' = Trie!TrieState
      /\ Trie!OptionFields' = Trie!OptionFields
  BY DEF Trie!Encodings, Trie!TrieState, Trie!Nodes, Trie!KeyPrefixes, Trie!NotFound, Trie!Bit,
         Trie!OptionFields
<1>6. /\ st'.position = <<>> /\ st'.req_position = from' /\ st'.skip_next = 0 /\ st'.escape = 0
      /\ st'.token = 0 /\ st'.delimiter = delimiter
  BY <1>3 DEF Trie!TrieReset
<1>7. st' \in Trie!TrieState
  <2>1. Trie!Nul \in Chars /\ <<>> \in Trie!Nodes /\ 0 \in Trie!Bit
    BY DEF Typed, Trie!CodeChars, Trie!Nodes, Trie!Bit
  <2> QED
    BY <1>3, <1>4, <2>1 DEF Trie!TrieReset, Trie!TrieState
<1>8. TokenizerTypeOK'
  BY <1>1, <1>2, <1>4, <1>5, <1>6, <1>7 DEF TokenizerTypeOK, Codes
<1>9. Underway'
  <2>1. Unread(st)' = from'
    BY <1>4, <1>6 DEF Unread
  <2>2. Said' = Said
    <3>1. options' = options /\ text' = text
      BY <1>1
    <3> QED
      BY <3>1 DEF Said, Trie!Unescape
  <2>3. Said[from'] \in Seq(Letters)
    BY <1>1, <1>2, <1>4, SaidTyped DEF TokenizerTypeOK
  <2>4. <<>> \in Seq(Letters) /\ Len(<<>>) = 0 /\ <<>> \o Said[from'] = Said[from']
    BY <2>3
  <2>5. Decoded' = <<>> \o Said'[Unread(st)']
    BY <2>1, <2>2, <2>4 DEF Decoded
  <2>6. Word(<<>>) = <<>>
    BY DEF Word
  <2>7. \E d \in Seq(Letters) :
          /\ Decoded' = d \o Said'[Unread(st)']
          /\ st'.position = Word(d)
          /\ options'.hard_delim => \A i \in 1..Len(d) : d[i].c # st'.delimiter
    <3>1. \A i \in 1..Len(<<>>) : <<>>[i].c # st'.delimiter
      BY <2>4
    <3> WITNESS <<>> \in Seq(Letters)
    <3> QED
      BY <1>6, <2>5, <2>6, <3>1
  <2>8. st'.position \in Trie!KeyPrefixes' /\ Trie!TokenAt(st.position)' = 0
    <3>1. Trie!KeyPrefixes' = Trie!KeyPrefixes /\ Trie!TokenAt(st.position)' = Trie!TokenAt(st'.position)
      BY DEF Trie!KeyPrefixes, Trie!TokenAt
    <3> QED
      BY <1>6, <3>1, Prefixes
  <2> QED
    BY <1>6, <2>7, <2>8 DEF Underway, Word, Letters
<1> QED
  BY <1>1, <1>6, <1>8, <1>9 DEF TokInv, EscapeFits, LongestMatch

\* The invariant of the tokenizer.
THEOREM TokenizerInvariance ==
  ASSUME Typed
  PROVE  Spec => []TokInv
<1>1. Init => TokInv
  BY TokInvInit
<1>2. TokInv /\ [Next]_vars => TokInv'
  <2> SUFFICES ASSUME TokInv, [Next]_vars
               PROVE  TokInv'
    OBVIOUS
  <2>1. CASE Step
    BY <2>1, InvStep
  <2>2. CASE Receive
    BY <2>2, InvReceive
  <2>3. CASE Resume
    BY <2>3, InvResume
  <2>4. CASE Reset
    BY <2>4, InvReset
  <2>5. CASE UNCHANGED vars
    <3>1. UNCHANGED <<encoding, options, text, from, resumed, st, code>> /\ received' = received
      BY <2>5 DEF vars
    <3>2. received' \in 2..Len(text) /\ received <= received'
      BY <3>1 DEF TokInv, TokenizerTypeOK
    <3> QED
      BY <3>1, <3>2, InvStays
  <2> QED
    BY <2>1, <2>2, <2>3, <2>4, <2>5 DEF Next
<1> QED
  BY <1>1, <1>2, PTL DEF Spec

\* The match ends at the first character no key goes on with, which becomes the terminator,
\* with the token of the key that ends there, however the text arrived.
THEOREM MatchesLongest ==
  ASSUME Typed
  PROVE  Spec => []LongestMatch
<1>1. TokInv => LongestMatch
  BY DEF TokInv
<1> QED
  BY <1>1, TokenizerInvariance, PTL
================================================================================
