--------------------------- MODULE TrieTables_proofs ----------------------------
(******************************************************************************)
(* The tokenizer on each of the three tables implements the tokenizer on the  *)
(* abstract trie, and so finds the longest match.                             *)
(******************************************************************************)
EXTENDS TrieTables, NaturalsInduction, WellFoundedInduction, SequenceTheorems, TLAPS

Proved == INSTANCE Tokenizer_proofs WITH st <- AbstractState

--------------------------------------------------------------------------------
(* The rows of the table and the prefixes of keys.                            *)

\* What the assumptions say of the constants, in the terms of this module.
LEMMA Given ==
  /\ Len(Rows) \in Nat /\ TrieRows = 1..(Len(Rows) - 1) /\ Len(Rows) <= TrieLength /\ TrieLength \in Nat
  /\ DOMAIN Words # {}
  /\ \A w \in DOMAIN Words : w \in Seq(Chars) /\ w # <<>> /\ Words[w] \in Nat /\ w[1] # Trie!NotFound[1]
  /\ \A t \in Texts : t \in Seq(Chars)
  /\ Delimiters \subseteq Chars /\ Trie!CodeChars \subseteq Chars
<1>1. /\ Texts \subseteq Seq(Chars) /\ Delimiters \subseteq Chars /\ Trie!CodeChars \subseteq Chars
      /\ DOMAIN Words # {}
      /\ \A w \in DOMAIN Words : w \in Seq(Chars) /\ w # <<>> /\ Words[w] \in Nat
      /\ \A w \in DOMAIN Words : w[1] # Trie!NotFound[1]
  BY TokensAssumption
     DEF Tokens!Typed, Tokens!Trie!CodeChars, Tokens!Trie!NotFound, Tokens!Trie!Nul,
         Trie!CodeChars, Trie!NotFound, Trie!Nul
<1>2. /\ Len(Rows) \in Nat /\ Len(Rows) <= TrieLength /\ TrieLength \in Nat
  BY TablesAssumption
<1> QED
  BY <1>1, <1>2 DEF TrieRows

\* The well is no beginning of a key and no key; the root is a beginning of one, but no key.
LEMMA WellAndRoot ==
  /\ Trie!NotFound \notin Trie!KeyPrefixes /\ Trie!NotFound \notin DOMAIN Words
  /\ <<>> \notin DOMAIN Words
  /\ \A k \in Trie!KeyPrefixes : k \in Seq(Chars)
  /\ \A c : Append(Trie!NotFound, c) \notin Trie!KeyPrefixes
<1>1. \A k \in Trie!KeyPrefixes : \E w \in DOMAIN Words : \E n \in 0..Len(w) : k = SubSeq(w, 1, n)
  BY DEF Trie!KeyPrefixes
<1>2. ASSUME NEW w \in DOMAIN Words, NEW n \in 0..Len(w)
      PROVE  /\ SubSeq(w, 1, n) \in Seq(Chars) /\ Len(SubSeq(w, 1, n)) = n
             /\ n > 0 => SubSeq(w, 1, n)[1] # Trie!NotFound[1]
  <2>1. w \in Seq(Chars) /\ w[1] # Trie!NotFound[1]
    BY Given
  <2>2. n > 0 => SubSeq(w, 1, n)[1] = w[1]
    BY <2>1
  <2>3. SubSeq(w, 1, n) \in Seq(Chars) /\ Len(SubSeq(w, 1, n)) = n
    BY <2>1
  <2> QED
    BY <2>1, <2>2, <2>3
<1>3. Len(Trie!NotFound) = 1
  BY DEF Trie!NotFound
<1>4. \A c : /\ Len(Append(Trie!NotFound, c)) = 2
             /\ Append(Trie!NotFound, c)[1] = Trie!NotFound[1]
  BY DEF Trie!NotFound
<1>5. ASSUME NEW k \in Trie!KeyPrefixes
      PROVE  k \in Seq(Chars) /\ (Len(k) > 0 => k[1] # Trie!NotFound[1])
  <2>1. PICK w \in DOMAIN Words : \E n \in 0..Len(w) : k = SubSeq(w, 1, n)
    BY <1>1
  <2>2. PICK n \in 0..Len(w) : k = SubSeq(w, 1, n)
    BY <2>1
  <2> QED
    BY <1>2, <2>2
<1>6. Trie!NotFound \notin Trie!KeyPrefixes
  BY <1>3, <1>5
<1>7. \A c : Append(Trie!NotFound, c) \notin Trie!KeyPrefixes
  <2>1. \A c : Len(Append(Trie!NotFound, c)) > 0
    BY <1>4
  <2> QED
    BY <1>4, <1>5, <2>1, Zenon
<1>8. Trie!NotFound \notin DOMAIN Words /\ <<>> \notin DOMAIN Words
  BY Given
<1> QED
  BY <1>5, <1>6, <1>7, <1>8

\* A row stands for a beginning of a key.
LEMMA PathTyped ==
  \A i \in TrieRows : Path[i] \in Trie!KeyPrefixes /\ Path[i] \in Seq(Chars)
<1>1. {Path[i] : i \in TrieRows} = Trie!KeyPrefixes
  BY RowsAssumption
<1> QED
  BY <1>1, WellAndRoot

\* The table is not empty: row 1 is the root.
LEMMA RootRow ==
  1 \in TrieRows /\ Path[1] = <<>>
<1>1. PICK w : w \in DOMAIN Words
  BY Given
<1>2. w \in Seq(Chars)
  BY <1>1, Given
<1>3. SubSeq(w, 1, 0) \in Trie!KeyPrefixes
  BY <1>1, <1>2 DEF Trie!KeyPrefixes
<1>4. \E i \in TrieRows : TRUE
  BY <1>3, RowsAssumption
<1> QED
  BY <1>4, RowsAssumption, Given

\* The children of a row stand for the beginnings of keys one character longer.
LEMMA ChildRows ==
  ASSUME NEW p \in TrieRows, NEW c
  PROVE  /\ Append(Path[p], c) \in Trie!KeyPrefixes <=> \E j \in Children(p) : Row(j).char = c
         /\ \A j \in Children(p) : /\ j \in TrieRows /\ j # 1
                                   /\ Path[j] = Append(Path[p], Row(j).char)
<1>1. \A j \in Children(p) : j \in TrieRows /\ Path[j] = Append(Path[p], Row(j).char)
  BY DEF Children
<1>2. \A j \in Children(p) : j # 1
  <2>1. \A j \in Children(p) : j \in UNION {Children(i) : i \in TrieRows}
    OBVIOUS
  <2> QED
    BY <2>1, RowsAssumption
<1>3. ASSUME Append(Path[p], c) \in Trie!KeyPrefixes PROVE \E j \in Children(p) : Row(j).char = c
  <2>1. PICK j \in TrieRows : Path[j] = Append(Path[p], c)
    BY <1>3, RowsAssumption
  <2>2. Path[p] \in Seq(Chars) /\ Path[j] \in Seq(Chars)
    BY PathTyped
  <2>3. Append(Path[p], c) # <<>>
    BY <2>2
  <2>4. j # 1
    BY <2>1, <2>3, RootRow
  <2>5. PICK i \in TrieRows : j \in Children(i)
    BY <2>4, RowsAssumption
  <2>6. Path[j] = Append(Path[i], Row(j).char) /\ Path[i] \in Seq(Chars)
    BY <2>5, PathTyped DEF Children
  <2>7. Len(Path[i]) = Len(Path[p]) /\ Row(j).char = c
    <3>1. /\ Len(Append(Path[p], c)) = Len(Path[p]) + 1
          /\ Append(Path[p], c)[Len(Path[p]) + 1] = c
      BY <2>2
    <3>2. /\ Len(Append(Path[i], Row(j).char)) = Len(Path[i]) + 1
          /\ Append(Path[i], Row(j).char)[Len(Path[i]) + 1] = Row(j).char
      BY <2>6
    <3> QED
      BY <2>1, <2>2, <2>6, <3>1, <3>2, LenProperties
  <2>8. j \in Children(p)
    BY <2>1, <2>7 DEF Children
  <2> QED
    BY <2>7, <2>8
<1>4. ASSUME NEW j \in Children(p), Row(j).char = c PROVE Append(Path[p], c) \in Trie!KeyPrefixes
  BY <1>1, <1>4, PathTyped
<1> QED
  BY <1>1, <1>2, <1>3, <1>4

--------------------------------------------------------------------------------
(* Walks along siblings.                                                      *)

\* From each of 0..N, what a walk comes out with where it stops, and that goes on to next.
Walk(N, stop, out, next) ==
  CHOOSE g : g = [i \in 0..N |-> IF stop[i] THEN out[i] ELSE g[next[i]]]

\* The walk only goes forward, or to a place where it stops.
Ends(N, stop, next) ==
  \A i \in 0..N : ~stop[i] => next[i] \in 0..N /\ (next[i] > i \/ stop[next[i]])

\* Such a walk has a result: the recursive functions of the walks are what they say.
LEMMA WalkIs ==
  ASSUME NEW N \in Nat, NEW stop, NEW out, NEW next, Ends(N, stop, next)
  PROVE  Walk(N, stop, out, next)
         = [i \in 0..N |-> IF stop[i] THEN out[i] ELSE Walk(N, stop, out, next)[next[i]]]
<1> DEFINE D(n) == {i \in 0..N : stop[i] \/ i >= n}
<1> DEFINE Some(n) == \E g : g = [i \in D(n) |-> IF stop[i] THEN out[i] ELSE g[next[i]]]
<1> DEFINE Q == {n \in 0..(N + 1) : Some(n)}
<1>1. N + 1 \in Q
  <2> DEFINE g == [i \in D(N + 1) |-> out[i]]
  <2>1. \A i \in D(N + 1) : stop[i]
    OBVIOUS
  <2>2. g = [i \in D(N + 1) |-> IF stop[i] THEN out[i] ELSE g[next[i]]]
    <3> HIDE DEF D
    <3> QED
      BY <2>1
  <2> HIDE DEF g, D
  <2>3. Some(N + 1)
    BY <2>2
  <2> QED
    BY <2>3
<1>2. ASSUME NEW n \in 0..((N + 1) - 1), n + 1 \in Q PROVE n \in Q
  <2>1. PICK g : g = [i \in D(n + 1) |-> IF stop[i] THEN out[i] ELSE g[next[i]]]
    BY <1>2
  <2> DEFINE h == [i \in D(n) |-> IF i \in D(n + 1) THEN g[i] ELSE g[next[i]]]
  <2>2. \A i \in D(n) : i \in D(n + 1) \/ (i = n /\ ~stop[n])
    OBVIOUS
  <2>3. \A i \in D(n) : ~stop[i] => next[i] \in D(n + 1) /\ next[i] \in D(n)
    BY DEF Ends
  <2>4. \A i \in D(n) : h[i] = IF stop[i] THEN out[i] ELSE h[next[i]]
    <3>1. \A i \in D(n) : ~stop[i] => h[next[i]] = g[next[i]]
      <4> HIDE DEF D
      <4> QED
        BY <2>3
    <3>2. \A i \in D(n + 1) : g[i] = IF stop[i] THEN out[i] ELSE g[next[i]]
      <4> HIDE DEF D
      <4> QED
        BY <2>1
    <3>3. \A i \in D(n) : h[i] = IF i \in D(n + 1) THEN g[i] ELSE g[next[i]]
      <4> HIDE DEF D
      <4> QED
        OBVIOUS
    <3>4. \A i \in D(n) : stop[i] => i \in D(n + 1)
      BY <2>2
    <3> HIDE DEF D, h
    <3> QED
      BY <3>1, <3>2, <3>3, <3>4
  <2>5. h = [i \in D(n) |-> h[i]]
    <3> HIDE DEF D
    <3> QED
      OBVIOUS
  <2> HIDE DEF D, h
  <2>6. h = [i \in D(n) |-> IF stop[i] THEN out[i] ELSE h[next[i]]]
    BY <2>4, <2>5
  <2>7. Some(n)
    BY <2>6
  <2> QED
    BY <2>7
<1>3. 0 \in Q
  <2> HIDE DEF Q
  <2>1. Q \in SUBSET (0..(N + 1))
    BY DEF Q
  <2>2. Q = 0..(N + 1)
    BY <1>1, <1>2, <2>1, Proved!Backwards
  <2> QED
    BY <2>2
<1>4. D(0) = 0..N
  OBVIOUS
<1>5. Some(0)
  <2> HIDE DEF Some
  <2> QED
    BY <1>3
<1> HIDE DEF D
<1>6. \E g : g = [i \in 0..N |-> IF stop[i] THEN out[i] ELSE g[next[i]]]
  BY <1>4, <1>5
<1> QED
  BY <1>6, Zenon DEF Walk

\* The first of some rows is one of them, with the least code.
LEMMA FirstRow ==
  ASSUME NEW rows, rows \subseteq TrieRows, rows # {},
         \A j \in rows : CodeAt(j) \in Nat
  PROVE  FirstOf(rows) \in rows /\ \A j \in rows : CodeAt(FirstOf(rows)) <= CodeAt(j)
<1> DEFINE T == {CodeAt(j) : j \in rows}
<1>1. T \in SUBSET Nat /\ \E t : t \in T
  OBVIOUS
<1>2. PICK n \in T : \A m \in T : n <= m
  <2> HIDE DEF T
  <2> QED
    BY <1>1, Proved!Least
<1>3. PICK i \in rows : CodeAt(i) = n
  BY <1>2
<1>4. \A j \in rows : CodeAt(i) <= CodeAt(j)
  BY <1>2, <1>3
<1>5. \E k \in rows : \A j \in rows : CodeAt(k) <= CodeAt(j)
  BY <1>4
<1> QED
  BY <1>5 DEF FirstOf

\* What rows and codes the children of a row have.
LEMMA ChildCodes ==
  ASSUME NEW p \in TrieRows
  PROVE  /\ Children(p) \subseteq TrieRows
         /\ \A j \in TrieRows : Row(j).char \in DOMAIN CharCode /\ CodeAt(j) \in 0..255
         /\ \A j, k \in Children(p) : CodeAt(j) = CodeAt(k) => j = k
         /\ \A j \in Children(p), c \in DOMAIN CharCode : CodeAt(j) = CharCode[c] => Row(j).char = c
<1>1. Children(p) \subseteq TrieRows
  BY DEF Children
<1>2. \A j \in TrieRows : Row(j).char \in DOMAIN CharCode
  <2>1. \A j \in TrieRows : j + 1 \in DOMAIN Rows
    BY TablesAssumption DEF TrieRows
  <2> QED
    BY <2>1, CodesAssumption DEF Row
<1>3. \A j \in TrieRows : CodeAt(j) \in 0..255
  BY <1>2, CodesAssumption DEF CodeAt
<1>4. \A j \in TrieRows, c \in DOMAIN CharCode : CodeAt(j) = CharCode[c] => Row(j).char = c
  BY <1>2, CodesAssumption DEF CodeAt
<1>5. \A j, k \in Children(p) : CodeAt(j) = CodeAt(k) => j = k
  <2> SUFFICES ASSUME NEW j \in Children(p), NEW k \in Children(p), CodeAt(j) = CodeAt(k)
               PROVE  j = k
    OBVIOUS
  <2>1. Row(j).char = Row(k).char
    BY <1>1, <1>2, <1>4 DEF CodeAt
  <2>2. Path[j] = Path[k]
    BY <2>1 DEF Children
  <2> QED
    BY <1>1, <2>2, RowsAssumption
<1> QED
  BY <1>1, <1>2, <1>3, <1>4, <1>5

\* What a walk g for c does at each child of row p: it has hit it, c is sorted before
\* it, or it goes on to the next sibling.
Along(p, c, g, hit, beyond, last) ==
  \A j \in Children(p) :
    /\ Row(j).char = c => g[j] = hit[j]
    /\ CharCode[c] < CodeAt(j) => g[j] = beyond
    /\ CodeAt(j) < CharCode[c] => g[j] = IF Row(j).sibling = 0 THEN last[j] ELSE g[Row(j).sibling]

\* Where it arrives when it starts at child first: at the child labelled c; where there
\* is none, at the first child sorted behind c, or else at the last of all.
Arrives(p, c, g, first, hit, beyond, last) ==
  /\ \A k \in Children(p) : Row(k).char = c => g[first] = hit[k]
  /\ (\A k \in Children(p) : Row(k).char # c) /\ (\E k \in Children(p) : CharCode[c] < CodeAt(k))
       => g[first] = beyond
  /\ (\A k \in Children(p) : CodeAt(k) < CharCode[c])
       => \E m \in Children(p) : /\ \A k \in Children(p) : CodeAt(k) <= CodeAt(m)
                                 /\ g[first] = last[m]

\* A walk along the children of a row, from the first one on.
LEMMA SiblingWalk ==
  ASSUME NEW p \in TrieRows, Children(p) # {}, NEW c \in DOMAIN CharCode,
         NEW g, NEW hit, NEW beyond, NEW last, Along(p, c, g, hit, beyond, last)
  PROVE  Arrives(p, c, g, Row(p).child, hit, beyond, last)
<1> DEFINE C == Children(p)
<1> DEFINE Hits(j) == \A k \in C : Row(k).char = c /\ CodeAt(j) <= CodeAt(k) => g[j] = hit[k]
<1> DEFINE Passes(j) ==
      (\A k \in C : Row(k).char # c) /\ (\E k \in C : CodeAt(j) <= CodeAt(k) /\ CharCode[c] < CodeAt(k))
        => g[j] = beyond
<1> DEFINE Stops(j) ==
      (\A k \in C : CodeAt(k) < CharCode[c])
        => \E m \in C : (\A k \in C : CodeAt(k) <= CodeAt(m)) /\ g[j] = last[m]
<1> DEFINE Good(j) == Hits(j) /\ Passes(j) /\ Stops(j)
<1>0. /\ \A j \in C : j \in TrieRows /\ Row(j).char \in DOMAIN CharCode /\ CodeAt(j) \in 0..255
      /\ \A j, k \in C : CodeAt(j) = CodeAt(k) => j = k
      /\ \A j \in C : CodeAt(j) = CharCode[c] <=> Row(j).char = c
      /\ CharCode[c] \in 0..255
  <2>1. /\ \A j \in C : j \in TrieRows /\ Row(j).char \in DOMAIN CharCode /\ CodeAt(j) \in 0..255
        /\ \A j, k \in C : CodeAt(j) = CodeAt(k) => j = k
        /\ \A j \in C : CodeAt(j) = CharCode[c] => Row(j).char = c
    BY ChildCodes
  <2>2. CharCode[c] \in 0..255
    BY CodesAssumption
  <2> QED
    BY <2>1, <2>2 DEF CodeAt
<1>00. /\ \A j \in C : CodeAt(j) \in Int
       /\ CharCode[c] \in Int
  BY <1>0
<1>01. \A j, k \in C : CodeAt(j) < CodeAt(k) \/ CodeAt(k) <= CodeAt(j)
  <2> HIDE DEF C
  <2> QED
    BY <1>00
<1>02. \A j \in C : Row(j).char = c => CodeAt(j) = CharCode[c]
  BY <1>0
<1>03. \A j \in C :
         /\ Row(j).char = c => g[j] = hit[j]
         /\ CharCode[c] < CodeAt(j) => g[j] = beyond
         /\ CodeAt(j) < CharCode[c]
              => g[j] = IF Row(j).sibling = 0 THEN last[j] ELSE g[Row(j).sibling]
  BY DEF Along
<1>1. ASSUME NEW j \in C, \A k \in C : CodeAt(j) < CodeAt(k) => Good(k)
      PROVE  Good(j)
  <2> DEFINE Later == {k \in C : CodeAt(j) < CodeAt(k)}
  <2>0. Row(j).sibling = FirstOf(Later)
    BY RowsAssumption
  <2>1. CASE Row(j).char = c
    <3>1. g[j] = hit[j] /\ CodeAt(j) = CharCode[c]
      BY <2>1, <1>0, <1>03
    <3>2. Hits(j)
      BY <3>1, <1>0
    <3> QED
      BY <2>1, <3>1, <3>2, <1>0
  <2>2. CASE CharCode[c] < CodeAt(j)
    <3>1. g[j] = beyond
      BY <2>2, <1>03
    <3>2. \A k \in C : Row(k).char = c => ~(CodeAt(j) <= CodeAt(k))
      <4> HIDE DEF C
      <4> QED
        BY <2>2, <1>00, <1>02
    <3>3. ~(CodeAt(j) < CharCode[c])
      <4> HIDE DEF C
      <4> QED
        BY <2>2, <1>00
    <3>4. Hits(j) /\ Passes(j)
      BY <3>1, <3>2
    <3>5. Stops(j)
      BY <3>3
    <3> QED
      BY <3>4, <3>5
  <2>3. CASE CodeAt(j) < CharCode[c] /\ Row(j).sibling = 0
    <3>1. Later = {}
      <4> SUFFICES ASSUME Later # {} PROVE FALSE
        OBVIOUS
      <4>1. FirstOf(Later) \in Later
        <5>1. Later \subseteq TrieRows /\ \A k \in Later : CodeAt(k) \in Nat
          BY <1>0
        <5> HIDE DEF Later
        <5> QED
          BY <5>1, FirstRow
      <4> QED
        BY <2>0, <2>3, <4>1, <1>0 DEF TrieRows
    <3>2. \A k \in C : CodeAt(k) <= CodeAt(j)
      BY <3>1, <1>01
    <3>3. g[j] = last[j]
      BY <2>3, <1>03
    <3>4. Stops(j)
      BY <3>2, <3>3
    <3>5. \A k \in C : Row(k).char # c /\ ~(CharCode[c] < CodeAt(k))
      <4> HIDE DEF C
      <4> QED
        BY <2>3, <3>2, <1>00, <1>02
    <3>6. Hits(j) /\ Passes(j)
      BY <3>5
    <3> QED
      BY <3>4, <3>6
  <2>4. CASE CodeAt(j) < CharCode[c] /\ Row(j).sibling # 0
    <3> DEFINE s == Row(j).sibling
    <3>1. g[j] = g[s]
      BY <2>4, <1>03
    <3>2. CASE Later = {}
      <4>1. s = 0
        <5>1. FirstOf({}) = 0
          BY DEF FirstOf
        <5> QED
          BY <2>0, <3>2, <5>1
      <4> QED
        BY <2>4, <4>1
    <3>3. CASE Later # {}
      <4>1. s \in Later /\ \A k \in Later : CodeAt(s) <= CodeAt(k)
        <5>1. Later \subseteq TrieRows /\ \A k \in Later : CodeAt(k) \in Nat
          BY <1>0
        <5> HIDE DEF Later
        <5> QED
          BY <2>0, <3>3, <5>1, FirstRow
      <4>2. s \in C /\ CodeAt(j) < CodeAt(s)
        BY <4>1
      <4>3. Good(s)
        <5> HIDE DEF Good, s
        <5> QED
          BY <4>2, <1>1
      <4>4. \A k \in C : CodeAt(j) < CodeAt(k) => CodeAt(s) <= CodeAt(k)
        BY <4>1
      <4> HIDE DEF s, C, Later
      <4>5. \A k \in C : CharCode[c] <= CodeAt(k) => CodeAt(s) <= CodeAt(k)
        <5>1. \A k \in C : CharCode[c] <= CodeAt(k) => CodeAt(j) < CodeAt(k)
          <6>1. CodeAt(j) \in Int /\ CodeAt(j) < CharCode[c]
            BY <2>4, <1>00
          <6> QED
            BY <6>1, <1>00
        <5> QED
          BY <4>4, <5>1
      <4>6. Hits(j)
        <5>1. \A k \in C : Row(k).char = c => CharCode[c] <= CodeAt(k)
          BY <1>00, <1>02
        <5> QED
          BY <3>1, <4>3, <4>5, <5>1
      <4>7. Passes(j)
        <5>1. \A k \in C : CharCode[c] < CodeAt(k) => CharCode[c] <= CodeAt(k)
          BY <1>00
        <5> QED
          BY <3>1, <4>3, <4>5, <5>1
      <4>8. Stops(j)
        BY <3>1, <4>3
      <4> QED
        BY <4>6, <4>7, <4>8
    <3> QED
      BY <3>2, <3>3
  <2> QED
    <3>1. CodeAt(j) \in Nat /\ CharCode[c] \in Nat /\ (CodeAt(j) = CharCode[c] <=> Row(j).char = c)
      BY <1>0
    <3> HIDE DEF Good
    <3> QED
      BY <2>1, <2>2, <2>3, <2>4, <3>1
<1>2. \A j \in C : Good(j)
  <2> SUFFICES ASSUME NEW b \in C, ~Good(b) PROVE FALSE
    OBVIOUS
  <2> HIDE DEF Good
  <2> DEFINE T == {255 - CodeAt(j) : j \in {k \in C : ~Good(k)}}
  <2>1. T \in SUBSET Nat /\ 255 - CodeAt(b) \in T
    BY <1>0
  <2>2. PICK n \in T : \A m \in T : n <= m
    <3> HIDE DEF T
    <3> QED
      BY <2>1, Proved!Least
  <2>3. PICK j \in C : ~Good(j) /\ n = 255 - CodeAt(j)
    BY <2>2
  <2>4. ASSUME NEW k \in C, CodeAt(j) < CodeAt(k) PROVE Good(k)
    <3> SUFFICES ASSUME ~Good(k) PROVE FALSE
      OBVIOUS
    <3>1. 255 - CodeAt(k) \in T
      OBVIOUS
    <3>2. 255 - CodeAt(j) <= 255 - CodeAt(k)
      BY <2>2, <2>3, <3>1
    <3>3. CodeAt(j) \in Int /\ CodeAt(k) \in Int
      BY <1>00
    <3> QED
      BY <2>4, <3>2, <3>3
  <2> QED
    BY <1>1, <2>3, <2>4
<1>3. Row(p).child \in C /\ \A k \in C : CodeAt(Row(p).child) <= CodeAt(k)
  <2>1. Row(p).child = FirstOf(C)
    BY RowsAssumption
  <2>2. C \subseteq TrieRows /\ C # {} /\ \A k \in C : CodeAt(k) \in Nat
    BY <1>0
  <2> HIDE DEF C
  <2> QED
    BY <2>1, <2>2, FirstRow
<1>4. Good(Row(p).child)
  <2> HIDE DEF Good, C
  <2> QED
    BY <1>2, <1>3
<1> QED
  BY <1>3, <1>4 DEF Arrives

\* What the links of a row are: they lead on, or nowhere.
LEMMA LinksForward ==
  /\ \A i \in 0..(Len(Rows) - 1) : Row(i).char \in DOMAIN CharCode /\ CharCode[Row(i).char] \in Int
  /\ \A i \in 0..(Len(Rows) - 1) : Row(i).sibling = 0 \/ (Row(i).sibling \in 0..(Len(Rows) - 1) /\ Row(i).sibling > i)
  /\ \A i \in 0..(Len(Rows) - 1) : Row(i).child \in 0..(Len(Rows) - 1)
<1>1. \A i \in 0..(Len(Rows) - 1) : i + 1 \in DOMAIN Rows /\ Row(i) = Rows[i + 1]
  BY TablesAssumption DEF Row
<1>2. \A k \in DOMAIN Rows : Rows[k].char \in DOMAIN CharCode /\ CharCode[Rows[k].char] \in Int
  BY CodesAssumption
<1>3. \A k \in DOMAIN Rows : {Rows[k].sibling, Rows[k].child} \subseteq {0} \cup (k..(Len(Rows) - 1))
  BY TablesAssumption
<1>4. \A k \in DOMAIN Rows : /\ Rows[k].sibling = 0 \/ Rows[k].sibling \in k..(Len(Rows) - 1)
                             /\ Rows[k].child = 0 \/ Rows[k].child \in k..(Len(Rows) - 1)
  BY <1>3
<1>5. Len(Rows) \in Nat /\ \A k \in DOMAIN Rows : k \in 1..Len(Rows)
  BY TablesAssumption
<1> QED
  BY <1>1, <1>2, <1>4, <1>5

\* A byte is promoted to its code, or to a negative number, which no character of a key is.
LEMMA PromotedIs ==
  ASSUME NEW c \in DOMAIN CharCode
  PROVE  /\ Promoted(c) \in Int
         /\ Promoted(c) = CharCode[c] \/ (Promoted(c) < 0 /\ c \notin Trie!CharMap)
<1>1. CharCode[c] \in 0..255
  BY CodesAssumption
<1>2. SignedChar /\ CharCode[c] >= 128 => c \notin Trie!CharMap
  <2>1. ASSUME c \in Trie!CharMap PROVE \E i \in DOMAIN CharTable : CharTable[i] = c
    BY <2>1, CodesAssumption DEF Range
  <2>2. SignedChar => \A i \in DOMAIN CharTable : CharCode[CharTable[i]] < 128
    BY TablesAssumption
  <2> QED
    BY <1>1, <2>1, <2>2
<1> QED
  BY <1>1, <1>2 DEF Promoted

\* The labels of children are characters of keys.
LEMMA LabelsInMap ==
  ASSUME NEW p \in TrieRows, NEW j \in Children(p)
  PROVE  Row(j).char \in Trie!CharMap
<1>1. Path[j] = Append(Path[p], Row(j).char) /\ Path[p] \in Seq(Chars) /\ Path[j] \in Trie!KeyPrefixes
  BY ChildRows, PathTyped
<1>2. PICK w \in DOMAIN Words : \E n \in 0..Len(w) : Path[j] = SubSeq(w, 1, n)
  BY <1>1 DEF Trie!KeyPrefixes
<1>3. PICK n \in 0..Len(w) : Path[j] = SubSeq(w, 1, n)
  BY <1>2
<1>4. w \in Seq(Chars)
  BY Given
<1>5. n = Len(Path[p]) + 1 /\ w[n] = Row(j).char /\ n \in DOMAIN w
  <2> DEFINE k == Len(Path[p]) + 1
  <2>1. Len(Append(Path[p], Row(j).char)) = k /\ Append(Path[p], Row(j).char)[k] = Row(j).char /\ k \in Nat \ {0}
    BY <1>1
  <2>2. Len(SubSeq(w, 1, n)) = n /\ (n > 0 => SubSeq(w, 1, n)[n] = w[n] /\ n \in DOMAIN w)
    BY <1>4
  <2> HIDE DEF k
  <2>3. n = k
    BY <1>1, <1>3, <2>1, <2>2
  <2> QED
    BY <1>1, <1>3, <2>1, <2>2, <2>3 DEF k
<1> QED
  BY <1>5 DEF Trie!CharMap

\* The walk of the array encoding finds the child labelled c, if there is one.
LEMMA ArrayFinds ==
  ASSUME NEW p \in TrieRows, NEW c \in DOMAIN CharCode
  PROVE  /\ \A k \in Children(p) : Row(k).char = c => ArrayChild(c, p) = k
         /\ (\A k \in Children(p) : Row(k).char # c) => ArrayChild(c, p) = 0
<1> DEFINE N == Len(Rows) - 1
<1> DEFINE P == Promoted(c)
<1> DEFINE F(h, i) == IF i = 0 \/ CharCode[Row(i).char] = P THEN i
                      ELSE IF CharCode[Row(i).char] < P THEN h[Row(i).sibling] ELSE 0
<1> DEFINE g == CHOOSE h : h = [i \in 0..N |-> F(h, i)]
<1>1. ArrayChild(c, p) = IF p = 0 THEN 0 ELSE g[Row(p).child]
  BY DEF ArrayChild
<1>2. N \in Nat /\ p \in 0..N /\ p # 0 /\ p \in TrieRows
  BY Given
<1>3. \E h : h = [i \in 0..N |-> F(h, i)]
  <2> DEFINE stop == [i \in 0..N |-> i = 0 \/ ~(CharCode[Row(i).char] < P)]
  <2> DEFINE out == [i \in 0..N |-> IF i = 0 \/ CharCode[Row(i).char] = P THEN i ELSE 0]
  <2> DEFINE next == [i \in 0..N |-> Row(i).sibling]
  <2>1. Ends(N, stop, next)
    <3>1. \A i \in 0..N : Row(i).sibling = 0 \/ (Row(i).sibling \in 0..N /\ Row(i).sibling > i)
      BY LinksForward
    <3>2. stop[0] /\ 0 \in 0..N
      <4>1. 0 \in 0..N
        BY <1>2
      <4> HIDE DEF N, P
      <4> QED
        BY <4>1
    <3>3. \A i \in 0..N : next[i] = Row(i).sibling
      OBVIOUS
    <3> HIDE DEF N, stop, next
    <3> QED
      BY <3>1, <3>2, <3>3 DEF Ends
  <2>2. \A h : \A i \in 0..N : F(h, i) = IF stop[i] THEN out[i] ELSE h[next[i]]
    <3>1. \A i \in 0..N : CharCode[Row(i).char] = P => ~(CharCode[Row(i).char] < P)
      <4>1. P \in Int /\ \A i \in 0..N : CharCode[Row(i).char] \in Int
        BY LinksForward, PromotedIs
      <4> HIDE DEF P, N
      <4> QED
        BY <4>1
    <3>2. \A i \in 0..N : /\ stop[i] <=> (i = 0 \/ ~(CharCode[Row(i).char] < P))
                          /\ out[i] = IF i = 0 \/ CharCode[Row(i).char] = P THEN i ELSE 0
                          /\ next[i] = Row(i).sibling
      <4> HIDE DEF P, N
      <4> QED
        OBVIOUS
    <3> HIDE DEF P, N, stop, out, next
    <3> QED
      BY <3>1, <3>2
  <2>3. \E h : h = [i \in 0..N |-> IF stop[i] THEN out[i] ELSE h[next[i]]]
    <3> HIDE DEF stop, out, next, N
    <3>1. Walk(N, stop, out, next)
          = [i \in 0..N |-> IF stop[i] THEN out[i] ELSE Walk(N, stop, out, next)[next[i]]]
      BY <1>2, <2>1, WalkIs
    <3> QED
      BY <3>1
  <2> HIDE DEF stop, out, next, N, F
  <2> QED
    BY <2>2, <2>3
<1>4. g = [i \in 0..N |-> F(g, i)]
  <2> HIDE DEF F, N
  <2> QED
    BY <1>3
<1>5. \A i \in 0..N : g[i] = F(g, i)
  <2> HIDE DEF F, N, g
  <2> QED
    BY <1>4
<1> HIDE DEF g
<1>6. g[0] = 0
  BY <1>2, <1>5
<1>7. Row(p).child = FirstOf(Children(p))
  BY RowsAssumption
<1>8. CASE Children(p) = {}
  <2>1. FirstOf({}) = 0
    BY DEF FirstOf
  <2> QED
    BY <1>1, <1>2, <1>6, <1>7, <1>8, <2>1
<1>9. CASE Children(p) # {} /\ P = CharCode[c]
  <2> DEFINE hit == [j \in Children(p) |-> j]
  <2> DEFINE last == [j \in Children(p) |-> 0]
  <2>1. Along(p, c, g, hit, 0, last)
    <3> SUFFICES ASSUME NEW j \in Children(p)
                 PROVE  /\ Row(j).char = c => g[j] = hit[j]
                        /\ CharCode[c] < CodeAt(j) => g[j] = 0
                        /\ CodeAt(j) < CharCode[c]
                             => g[j] = IF Row(j).sibling = 0 THEN last[j] ELSE g[Row(j).sibling]
      BY DEF Along
    <3>1. j \in 0..N /\ j # 0 /\ CodeAt(j) = CharCode[Row(j).char] /\ CodeAt(j) \in Int /\ P \in Int
      BY <1>2, ChildCodes, LinksForward, PromotedIs DEF CodeAt, TrieRows
    <3>2. g[j] = F(g, j)
      BY <1>5, <3>1
    <3> HIDE DEF P, N
    <3> QED
      BY <1>6, <1>9, <3>1, <3>2
  <2> HIDE DEF hit, last, P, N, F
  <2>2. Arrives(p, c, g, Row(p).child, hit, 0, last)
    BY <1>9, <2>1, SiblingWalk
  <2>3. \A k \in Children(p) : hit[k] = k /\ last[k] = 0
    BY DEF hit, last
  <2>4. (\A k \in Children(p) : Row(k).char # c)
          => (\E k \in Children(p) : CharCode[c] < CodeAt(k)) \/ (\A k \in Children(p) : CodeAt(k) < CharCode[c])
    <3>1. \A k \in Children(p) : CodeAt(k) \in Int /\ (CodeAt(k) = CharCode[c] => Row(k).char = c)
      BY ChildCodes
    <3>2. CharCode[c] \in Int
      BY CodesAssumption
    <3> QED
      BY <3>1, <3>2
  <2> QED
    BY <1>1, <1>2, <2>2, <2>3, <2>4 DEF Arrives
<1>10. CASE Children(p) # {} /\ P < 0 /\ c \notin Trie!CharMap
  <2>1. \A k \in Children(p) : Row(k).char # c
    BY <1>10, LabelsInMap
  <2>2. Row(p).child \in Children(p)
    <3>1. Children(p) \subseteq TrieRows /\ \A j \in Children(p) : CodeAt(j) \in Nat
      BY ChildCodes
    <3> QED
      BY <1>7, <1>10, <3>1, FirstRow
  <2>3. g[Row(p).child] = 0
    <3> DEFINE j == Row(p).child
    <3>1. j \in 0..N /\ j # 0 /\ CharCode[Row(j).char] \in Nat /\ P \in Int
      <4>1. j \in TrieRows /\ CharCode[Row(j).char] \in 0..255
        BY <2>2, ChildCodes DEF CodeAt
      <4>2. P \in Int
        BY PromotedIs
      <4>3. j \in 0..N /\ j # 0
        <5>1. j \in TrieRows
          BY <4>1
        <5> HIDE DEF j
        <5> QED
          BY <1>2, <5>1 DEF TrieRows
      <4> HIDE DEF N, j, P
      <4> QED
        BY <4>1, <4>2, <4>3
    <3>2. g[j] = F(g, j)
      BY <1>5, <3>1
    <3> HIDE DEF P, N, j
    <3>3. CharCode[Row(j).char] # P /\ ~(CharCode[Row(j).char] < P)
      BY <1>10, <3>1
    <3> QED
      BY <3>1, <3>2, <3>3 DEF j
  <2> QED
    BY <1>1, <1>2, <2>1, <2>3
<1> QED
  BY <1>8, <1>9, <1>10, PromotedIs

\* The struct encoding has the same links under other names.
LEMMA StructFinds ==
  ASSUME NEW c, NEW p
  PROVE  StructChild(c, p) = ArrayChild(c, p)
<1> DEFINE P == Promoted(c)
<1> DEFINE F(h, i) == IF i = 0 \/ CharCode[Row(i).char] = P THEN i
                      ELSE IF CharCode[Row(i).char] < P THEN h[Row(i).sibling] ELSE 0
<1> DEFINE G(h, i) == IF i = 0 \/ Struct(i).key = P THEN i
                      ELSE IF Struct(i).key < P THEN h[Struct(i).next_sibling] ELSE 0
<1>1. ArrayChild(c, p) =
        IF p = 0 THEN 0 ELSE (CHOOSE h : h = [i \in 0..(Len(Rows) - 1) |-> F(h, i)])[Row(p).child]
  BY DEF ArrayChild
<1>2. StructChild(c, p) =
        IF p = 0 THEN 0
        ELSE (CHOOSE h : h = [i \in 0..(Len(Rows) - 1) |-> G(h, i)])[Struct(p).first_child]
  BY DEF StructChild
<1>3. \A i : /\ Struct(i).key = CharCode[Row(i).char] /\ Struct(i).next_sibling = Row(i).sibling
             /\ Struct(i).first_child = Row(i).child
  BY DEF Struct
<1>4. \A h, i : G(h, i) = F(h, i)
  BY <1>3
<1> HIDE DEF F, G
<1>5. \A h : [i \in 0..(Len(Rows) - 1) |-> G(h, i)] = [i \in 0..(Len(Rows) - 1) |-> F(h, i)]
  BY <1>4
<1> DEFINE f == CHOOSE h : h = [i \in 0..(Len(Rows) - 1) |-> F(h, i)]
<1> DEFINE g == CHOOSE h : h = [i \in 0..(Len(Rows) - 1) |-> G(h, i)]
<1>6. g = f
  BY <1>5, Zenon
<1>7. ArrayChild(c, p) = IF p = 0 THEN 0 ELSE f[Row(p).child]
  BY <1>1
<1>8. StructChild(c, p) = IF p = 0 THEN 0 ELSE g[Struct(p).first_child]
  BY <1>2
<1> HIDE DEF f, g
<1> QED
  BY <1>3, <1>6, <1>7, <1>8

\* The number of a character in char_map is not 0 for those of keys, and tells them apart.
LEMMA CodeOfIs ==
  /\ Len(CharTable) \in Nat
  /\ \A c \in Trie!CharMap : CodeOf(c) \in 1..Len(CharTable) /\ CharTable[CodeOf(c)] = c
  /\ \A c : c \notin Trie!CharMap => CodeOf(c) = 0
<1>1. Range(CharTable) = Trie!CharMap /\ CharTable \in Seq(Chars)
  BY CodesAssumption, TablesAssumption
<1>2. Len(CharTable) \in Nat /\ DOMAIN CharTable = 1..Len(CharTable)
  BY <1>1
<1>3. \A c : c \in Trie!CharMap <=> \E i \in DOMAIN CharTable : CharTable[i] = c
  BY <1>1 DEF Range
<1>4. \A c \in Trie!CharMap : CodeOf(c) \in DOMAIN CharTable /\ CharTable[CodeOf(c)] = c
  BY <1>3 DEF CodeOf
<1>5. \A c : c \notin Trie!CharMap => CodeOf(c) = 0
  BY <1>3 DEF CodeOf
<1> QED
  BY <1>2, <1>4, <1>5

\* The links of a record of the compact table, in the terms of rows.
LEMMA RawLinks ==
  ASSUME NEW i \in TrieRows
  PROVE  /\ CharAt(i - 1) = CodeOf(Row(i).char)
         /\ SiblingJump(i - 1) = 0 <=> Row(i).sibling = 0
         /\ Row(i).sibling # 0 => SiblingJump(i - 1) = Row(i).sibling - i
         /\ ChildJump(i - 1) = 0 <=> Row(i).child = 0
         /\ Row(i).child # 0 => ChildJump(i - 1) = Row(i).child - i
<1>1. /\ CharAt(i - 1) = CodeOf(Row(i).char)
      /\ SiblingJump(i - 1) = IF Row(i).sibling = 0 THEN 0 ELSE Row(i).sibling - i
      /\ ChildJump(i - 1) = IF Row(i).child = 0 THEN 0 ELSE Row(i).child - i
  BY RawAssumption
<1>2. i \in Nat /\ i # 0
  BY Given
<1>3. Row(i).sibling = 0 \/ (Row(i).sibling \in Nat /\ Row(i).sibling > i)
  BY <1>2, Given, LinksForward
<1>4. Row(i).child = 0 \/ (Row(i).child \in Nat /\ Row(i).child > i)
  <2>1. i + 1 \in DOMAIN Rows /\ Row(i) = Rows[i + 1] /\ Len(Rows) \in Nat
    BY TablesAssumption DEF Row, TrieRows
  <2>2. {Row(i).sibling, Row(i).child} \subseteq {0} \cup ((i + 1)..(Len(Rows) - 1))
    BY <2>1, TablesAssumption
  <2>3. Row(i).child = 0 \/ Row(i).child \in (i + 1)..(Len(Rows) - 1)
    BY <2>2
  <2> QED
    BY <1>2, <2>1, <2>3
<1> QED
  BY <1>1, <1>2, <1>3, <1>4

\* The walk of the compact encoding from the record of row p, for a character of keys: it
\* finds the child labelled c; if there is none it falls into the well before a child sorted
\* behind c, stays at the last child, or does not move where there are no children.
LEMMA CompactFinds ==
  ASSUME NEW p \in TrieRows, NEW c \in Trie!CharMap
  PROVE  /\ Children(p) = {} => CompactSearch(c, p - 1) = [index |-> p - 1, found |-> FALSE]
         /\ \A k \in Children(p) :
              Row(k).char = c => CompactSearch(c, p - 1) = [index |-> k - 1, found |-> TRUE]
         /\ (\A k \in Children(p) : Row(k).char # c) /\ (\E k \in Children(p) : CharCode[c] < CodeAt(k))
              => CompactSearch(c, p - 1) = [index |-> 0, found |-> FALSE]
         /\ Children(p) # {} /\ (\A k \in Children(p) : CodeAt(k) < CharCode[c])
              => \E m \in Children(p) :
                   /\ \A k \in Children(p) : CodeAt(k) <= CodeAt(m)
                   /\ CompactSearch(c, p - 1) = [index |-> m - 1, found |-> FALSE]
<1> DEFINE N == Len(Rows) - 2
<1> DEFINE F(h, i) == IF CharAt(i) \notin 1..Len(CharTable) THEN [index |-> i, found |-> FALSE]
                      ELSE IF CharAt(i) = CodeOf(c) THEN [index |-> i, found |-> TRUE]
                      ELSE IF CharCode[CharTable[CharAt(i)]] >= CharCode[c]
                      THEN [index |-> 0, found |-> FALSE]
                      ELSE IF SiblingJump(i) = 0 THEN [index |-> i, found |-> FALSE]
                      ELSE h[i + SiblingJump(i)]
<1> DEFINE g == CHOOSE h : h = [i \in 0..N |-> F(h, i)]
<1>1. CompactSearch(c, p - 1) = IF ChildJump(p - 1) = 0 THEN [index |-> p - 1, found |-> FALSE]
                                ELSE g[(p - 1) + ChildJump(p - 1)]
  BY DEF CompactSearch
<1>2. Len(Rows) \in Nat /\ TrieRows = 1..(Len(Rows) - 1) /\ N \in Nat
  BY Given, RootRow
<1>3. \E h : h = [i \in 0..N |-> F(h, i)]
  <2> DEFINE goes(i) == /\ CharAt(i) \in 1..Len(CharTable) /\ CharAt(i) # CodeOf(c)
                        /\ ~(CharCode[CharTable[CharAt(i)]] >= CharCode[c])
                        /\ SiblingJump(i) # 0
  <2> DEFINE stop == [i \in 0..N |-> ~goes(i)]
  <2> DEFINE out == [i \in 0..N |->
                       IF CharAt(i) \notin 1..Len(CharTable) THEN [index |-> i, found |-> FALSE]
                       ELSE IF CharAt(i) = CodeOf(c) THEN [index |-> i, found |-> TRUE]
                       ELSE IF CharCode[CharTable[CharAt(i)]] >= CharCode[c]
                       THEN [index |-> 0, found |-> FALSE]
                       ELSE [index |-> i, found |-> FALSE]]
  <2> DEFINE next == [i \in 0..N |-> i + SiblingJump(i)]
  <2>1. Ends(N, stop, next)
    <3>1. \A i \in 0..N : SiblingJump(i) # 0 => i + SiblingJump(i) \in 0..N /\ i + SiblingJump(i) > i
      <4> SUFFICES ASSUME NEW i \in 0..N, SiblingJump(i) # 0
                   PROVE  i + SiblingJump(i) \in 0..N /\ i + SiblingJump(i) > i
        OBVIOUS
      <4>1. i + 1 \in TrieRows /\ (i + 1) - 1 = i /\ i \in Nat
        BY <1>2
      <4>2. Row(i + 1).sibling # 0 /\ SiblingJump(i) = Row(i + 1).sibling - (i + 1)
        BY <4>1, RawLinks
      <4>3. Row(i + 1).sibling \in 0..(Len(Rows) - 1) /\ Row(i + 1).sibling > i + 1
        BY <1>2, <4>1, <4>2, LinksForward
      <4> QED
        BY <1>2, <4>1, <4>2, <4>3
    <3>2. \A i \in 0..N : /\ ~stop[i] => SiblingJump(i) # 0
                          /\ next[i] = i + SiblingJump(i)
      <4> HIDE DEF N
      <4> QED
        OBVIOUS
    <3> HIDE DEF N, stop, next
    <3> QED
      BY <3>1, <3>2 DEF Ends
  <2>2. \A h : \A i \in 0..N : F(h, i) = IF stop[i] THEN out[i] ELSE h[next[i]]
    <3> HIDE DEF N
    <3> QED
      OBVIOUS
  <2>3. \E h : h = [i \in 0..N |-> IF stop[i] THEN out[i] ELSE h[next[i]]]
    <3> HIDE DEF stop, out, next, N
    <3>1. Walk(N, stop, out, next)
          = [i \in 0..N |-> IF stop[i] THEN out[i] ELSE Walk(N, stop, out, next)[next[i]]]
      BY <1>2, <2>1, WalkIs
    <3> QED
      BY <3>1
  <2> HIDE DEF stop, out, next, N, F
  <2> QED
    BY <2>2, <2>3
<1>4. g = [i \in 0..N |-> F(g, i)]
  <2> HIDE DEF F, N
  <2> QED
    BY <1>3
<1>5. \A i \in 0..N : g[i] = F(g, i)
  <2> HIDE DEF F, N, g
  <2> QED
    BY <1>4
<1> HIDE DEF g
<1>6. Row(p).child = FirstOf(Children(p))
  BY RowsAssumption
<1>7. CASE Children(p) = {}
  <2>1. FirstOf({}) = 0
    BY DEF FirstOf
  <2>2. ChildJump(p - 1) = 0
    BY <1>6, <1>7, <2>1, RawLinks
  <2> QED
    BY <1>1, <1>7, <2>2
<1>8. CASE Children(p) # {}
  <2> DEFINE shifted == [j \in TrieRows |-> g[j - 1]]
  <2> DEFINE hit == [j \in Children(p) |-> [index |-> j - 1, found |-> TRUE]]
  <2> DEFINE last == [j \in Children(p) |-> [index |-> j - 1, found |-> FALSE]]
  <2> DEFINE beyond == [index |-> 0, found |-> FALSE]
  <2>0. /\ \A j \in TrieRows : shifted[j] = g[j - 1]
        /\ \A j \in Children(p) : /\ hit[j] = [index |-> j - 1, found |-> TRUE]
                                  /\ last[j] = [index |-> j - 1, found |-> FALSE]
    OBVIOUS
  <2>1. c \in DOMAIN CharCode /\ CharCode[c] \in Int
    BY CodesAssumption
  <2>2. Along(p, c, shifted, hit, beyond, last)
    <3> SUFFICES ASSUME NEW j \in Children(p)
                 PROVE  /\ Row(j).char = c => shifted[j] = hit[j]
                        /\ CharCode[c] < CodeAt(j) => shifted[j] = beyond
                        /\ CodeAt(j) < CharCode[c]
                             => shifted[j] = IF Row(j).sibling = 0 THEN last[j]
                                             ELSE shifted[Row(j).sibling]
      BY DEF Along
    <3>1. j \in TrieRows /\ j \in Nat /\ j - 1 \in 0..N
      BY <1>2, ChildRows
    <3>2. shifted[j] = F(g, j - 1)
      <4>1. shifted[j] = g[j - 1]
        BY <2>0, <3>1
      <4> HIDE DEF F, N, shifted
      <4> QED
        BY <1>5, <3>1, <4>1
    <3>3. CharAt(j - 1) = CodeOf(Row(j).char) /\ Row(j).char \in Trie!CharMap
      BY <3>1, RawLinks, LabelsInMap
    <3>4. CharAt(j - 1) \in 1..Len(CharTable) /\ CharTable[CharAt(j - 1)] = Row(j).char
      BY <3>3, CodeOfIs
    <3>5. CharAt(j - 1) = CodeOf(c) <=> Row(j).char = c
      BY <3>3, <3>4, CodeOfIs
    <3>6. CodeAt(j) = CharCode[CharTable[CharAt(j - 1)]] /\ CodeAt(j) \in Int
      <4>1. CodeAt(j) \in 0..255
        BY <3>1, ChildCodes, Zenon
      <4>2. CodeAt(j) \in Int
        BY <4>1
      <4> QED
        BY <3>4, <4>2 DEF CodeAt
    <3>7. Row(j).char = c => CodeAt(j) = CharCode[c]
      BY DEF CodeAt
    <3>8. /\ SiblingJump(j - 1) = 0 <=> Row(j).sibling = 0
          /\ Row(j).sibling # 0 => (j - 1) + SiblingJump(j - 1) = Row(j).sibling - 1
                                   /\ Row(j).sibling \in TrieRows
      <4>1. /\ SiblingJump(j - 1) = 0 <=> Row(j).sibling = 0
            /\ Row(j).sibling # 0 => SiblingJump(j - 1) = Row(j).sibling - j
        BY <3>1, RawLinks
      <4>2. Row(j).sibling # 0 => Row(j).sibling \in 0..(Len(Rows) - 1)
        BY <1>2, <3>1, LinksForward
      <4> QED
        BY <1>2, <3>1, <4>1, <4>2
    <3>9. Row(j).sibling # 0 => shifted[Row(j).sibling] = g[(j - 1) + SiblingJump(j - 1)]
      <4> HIDE DEF shifted
      <4> QED
        BY <2>0, <3>8
    <3>10. shifted[j] = IF Row(j).char = c THEN hit[j]
                        ELSE IF CodeAt(j) >= CharCode[c] THEN beyond
                        ELSE IF Row(j).sibling = 0 THEN last[j] ELSE shifted[Row(j).sibling]
      <4> HIDE DEF shifted, hit, last
      <4> QED
        BY <2>0, <3>2, <3>4, <3>5, <3>6, <3>8, <3>9
    <3> HIDE DEF shifted, hit, last, beyond
    <3>11. CharCode[c] < CodeAt(j) => CodeAt(j) >= CharCode[c] /\ Row(j).char # c
      BY <2>1, <3>6, <3>7
    <3>12. CodeAt(j) < CharCode[c] => ~(CodeAt(j) >= CharCode[c]) /\ Row(j).char # c
      BY <2>1, <3>6, <3>7
    <3> QED
      BY <3>10, <3>11, <3>12
  <2>3. Row(p).child \in Children(p)
    <3>1. Children(p) \subseteq TrieRows /\ \A j \in Children(p) : CodeAt(j) \in Nat
      BY ChildCodes
    <3> QED
      BY <1>6, <1>8, <3>1, FirstRow
  <2>4. CompactSearch(c, p - 1) = shifted[Row(p).child]
    <3>1. Row(p).child \in TrieRows /\ Row(p).child # 0
      <4>1. Row(p).child \in TrieRows
        BY <2>3, ChildCodes
      <4>2. 0 \notin TrieRows
        BY <1>2
      <4> QED
        BY <4>1, <4>2
    <3>2. ChildJump(p - 1) # 0 /\ ChildJump(p - 1) = Row(p).child - p
      BY <3>1, RawLinks
    <3>3. (p - 1) + ChildJump(p - 1) = Row(p).child - 1
      BY <1>2, <3>1, <3>2
    <3> HIDE DEF shifted
    <3> QED
      BY <1>1, <2>0, <3>1, <3>2, <3>3
  <2> HIDE DEF shifted, hit, last, beyond
  <2>5. Arrives(p, c, shifted, Row(p).child, hit, beyond, last)
    BY <1>8, <2>1, <2>2, SiblingWalk
  <2> QED
    BY <1>8, <2>0, <2>4, <2>5 DEF Arrives, beyond
<1> QED
  BY <1>7, <1>8

--------------------------------------------------------------------------------
(* States of a table and states of the abstract trie.                         *)

RowState ==
  [position : Nat, req_position : Nat, skip_next : 0..1, escape : 0..1, terminator : Chars,
   token : Nat, delimiter : Chars, initialized : BOOLEAN]

\* The position is that of a record of the compact table, of a row of the others, or the well.
OnRow(s) ==
  IF encoding = "compact" THEN s.position + 1 \in TrieRows
  ELSE s.position = 0 \/ s.position \in TrieRows

\* Node and AbstractState, of any state.
NodeOf(position, initialized) ==
  IF encoding = "compact"
  THEN IF position = 0 /\ initialized THEN Trie!NotFound ELSE Path[position + 1]
  ELSE IF position = 0 THEN Trie!NotFound ELSE Path[position]

Fields(node, req_position, skip_next, escape, terminator, token, delimiter) ==
  [position |-> node, req_position |-> req_position, skip_next |-> skip_next,
   escape |-> escape, terminator |-> terminator, token |-> token, delimiter |-> delimiter]

Abstract(node, s) ==
  Fields(node, s.req_position, s.skip_next, s.escape, s.terminator, s.token, s.delimiter)

At(s) == NodeOf(s.position, s.initialized)
Abs(s) == Abstract(At(s), s)

\* Abstract has the fields of s, and node for a position.
LEMMA AbstractFields ==
  ASSUME NEW node, NEW s
  PROVE  LET t == Abstract(node, s)
         IN  /\ t.position = node /\ t.req_position = s.req_position /\ t.skip_next = s.skip_next
             /\ t.escape = s.escape /\ t.terminator = s.terminator /\ t.token = s.token
             /\ t.delimiter = s.delimiter
  BY DEF Abstract, Fields

\* Several assignments are one after the other.
LEMMA ExceptSteps ==
  ASSUME NEW t, NEW m, NEW c, NEW x
  PROVE  /\ [t EXCEPT !.position = m, !.terminator = c, !.token = x]
            = [[[t EXCEPT !.position = m] EXCEPT !.terminator = c] EXCEPT !.token = x]
         /\ [t EXCEPT !.position = m, !.token = x] = [[t EXCEPT !.position = m] EXCEPT !.token = x]
         /\ [t EXCEPT !.skip_next = m, !.token = x] = [[t EXCEPT !.skip_next = m] EXCEPT !.token = x]
         /\ [t EXCEPT !.skip_next = m, !.escape = x] = [[t EXCEPT !.skip_next = m] EXCEPT !.escape = x]
         /\ [t EXCEPT !.req_position = m, !.skip_next = x]
            = [[t EXCEPT !.req_position = m] EXCEPT !.skip_next = x]
  OBVIOUS

\* What the operators of NoizuTrie make of an abstract state, field by field.
LEMMA AbstractOperators ==
  ASSUME NEW node, NEW s, NEW next, NEW c
  PROVE  /\ Trie!Leave(encoding, Abstract(node, s), c)
            = Fields(Trie!Mismatch(encoding, Abstract(node, s), c), s.req_position, s.skip_next, s.escape, c,
                     IF options.keep_last_token \/ Trie!TokenAt(node) = 0 THEN s.token ELSE Trie!TokenAt(node),
                     s.delimiter)
         /\ Trie!Enter(Abstract(node, s), next)
            = Fields(next, s.req_position, s.skip_next, s.escape, s.terminator,
                     IF options.keep_last_token THEN Trie!TokenAt(next) ELSE s.token, s.delimiter)
         /\ [Abstract(node, s) EXCEPT !.req_position = @ + 1]
            = Fields(node, s.req_position + 1, s.skip_next, s.escape, s.terminator, s.token, s.delimiter)
         /\ Trie!AtBufferEnd(Abstract(node, s))
            = Fields(node, s.req_position, 1, s.escape, s.terminator,
                     IF options.end_of_buffer_token /\ ~options.keep_last_token THEN Trie!TokenAt(node)
                     ELSE s.token, s.delimiter)
<1> DEFINE t == Abstract(node, s)
<1>1. /\ t.position = node /\ t.req_position = s.req_position /\ t.token = s.token
  BY AbstractFields
<1>2. ASSUME NEW m, NEW x
      PROVE  /\ [t EXCEPT !.position = m, !.terminator = c, !.token = x]
                = Fields(m, s.req_position, s.skip_next, s.escape, c, x, s.delimiter)
             /\ [t EXCEPT !.position = m, !.token = x]
                = Fields(m, s.req_position, s.skip_next, s.escape, s.terminator, x, s.delimiter)
             /\ [t EXCEPT !.skip_next = 1, !.token = x]
                = Fields(node, s.req_position, 1, s.escape, s.terminator, x, s.delimiter)
             /\ [t EXCEPT !.req_position = m]
                = Fields(node, m, s.skip_next, s.escape, s.terminator, s.token, s.delimiter)
  <2>1. [t EXCEPT !.position = m]
        = Fields(m, s.req_position, s.skip_next, s.escape, s.terminator, s.token, s.delimiter)
    BY DEF Abstract, Fields
  <2>2. [[t EXCEPT !.position = m] EXCEPT !.terminator = c]
        = Fields(m, s.req_position, s.skip_next, s.escape, c, s.token, s.delimiter)
    <3>1. [Fields(m, s.req_position, s.skip_next, s.escape, s.terminator, s.token, s.delimiter) EXCEPT !.terminator = c]
          = Fields(m, s.req_position, s.skip_next, s.escape, c, s.token, s.delimiter)
      BY DEF Fields
    <3> QED
      BY <2>1, <3>1
  <2>3. [[[t EXCEPT !.position = m] EXCEPT !.terminator = c] EXCEPT !.token = x]
        = Fields(m, s.req_position, s.skip_next, s.escape, c, x, s.delimiter)
    <3>1. [Fields(m, s.req_position, s.skip_next, s.escape, c, s.token, s.delimiter) EXCEPT !.token = x]
          = Fields(m, s.req_position, s.skip_next, s.escape, c, x, s.delimiter)
      BY DEF Fields
    <3> QED
      BY <2>2, <3>1
  <2>4. [[t EXCEPT !.position = m] EXCEPT !.token = x]
        = Fields(m, s.req_position, s.skip_next, s.escape, s.terminator, x, s.delimiter)
    <3>1. [Fields(m, s.req_position, s.skip_next, s.escape, s.terminator, s.token, s.delimiter) EXCEPT !.token = x]
          = Fields(m, s.req_position, s.skip_next, s.escape, s.terminator, x, s.delimiter)
      BY DEF Fields
    <3> QED
      BY <2>1, <3>1
  <2>5. [t EXCEPT !.skip_next = 1]
        = Fields(node, s.req_position, 1, s.escape, s.terminator, s.token, s.delimiter)
    BY DEF Abstract, Fields
  <2>6. [[t EXCEPT !.skip_next = 1] EXCEPT !.token = x]
        = Fields(node, s.req_position, 1, s.escape, s.terminator, x, s.delimiter)
    <3>1. [Fields(node, s.req_position, 1, s.escape, s.terminator, s.token, s.delimiter) EXCEPT !.token = x]
          = Fields(node, s.req_position, 1, s.escape, s.terminator, x, s.delimiter)
      BY DEF Fields
    <3> QED
      BY <2>5, <3>1
  <2>7. [t EXCEPT !.req_position = m]
        = Fields(node, m, s.skip_next, s.escape, s.terminator, s.token, s.delimiter)
    BY DEF Abstract, Fields
  <2> QED
    BY <2>3, <2>4, <2>6, <2>7, ExceptSteps, Zenon
<1>3. /\ Trie!Leave(encoding, t, c)
         = [t EXCEPT !.position = Trie!Mismatch(encoding, t, c), !.terminator = c,
                     !.token = IF options.keep_last_token \/ Trie!TokenAt(t.position) = 0 THEN t.token
                               ELSE Trie!TokenAt(t.position)]
      /\ Trie!Enter(t, next)
         = [t EXCEPT !.position = next,
                     !.token = IF options.keep_last_token THEN Trie!TokenAt(next) ELSE t.token]
      /\ Trie!AtBufferEnd(t)
         = [t EXCEPT !.skip_next = 1,
                     !.token = IF options.end_of_buffer_token /\ ~options.keep_last_token
                               THEN Trie!TokenAt(t.position) ELSE t.token]
      /\ [t EXCEPT !.req_position = @ + 1] = [t EXCEPT !.req_position = t.req_position + 1]
  BY Zenon DEF Trie!Leave, Trie!Enter, Trie!AtBufferEnd
<1> HIDE DEF t
<1>4. /\ Trie!Leave(encoding, t, c)
         = Fields(Trie!Mismatch(encoding, t, c), s.req_position, s.skip_next, s.escape, c,
                  IF options.keep_last_token \/ Trie!TokenAt(node) = 0 THEN s.token ELSE Trie!TokenAt(node),
                  s.delimiter)
      /\ Trie!Enter(t, next)
         = Fields(next, s.req_position, s.skip_next, s.escape, s.terminator,
                  IF options.keep_last_token THEN Trie!TokenAt(next) ELSE s.token, s.delimiter)
      /\ Trie!AtBufferEnd(t)
         = Fields(node, s.req_position, 1, s.escape, s.terminator,
                  IF options.end_of_buffer_token /\ ~options.keep_last_token THEN Trie!TokenAt(node)
                  ELSE s.token, s.delimiter)
      /\ [t EXCEPT !.req_position = @ + 1]
         = Fields(node, s.req_position + 1, s.skip_next, s.escape, s.terminator, s.token, s.delimiter)
  BY <1>1, <1>2, <1>3
<1> USE DEF t
<1> QED
  BY <1>4

\* r is a state of a table with these fields.
Holds(r, position, req_position, skip_next, escape, terminator, token, delimiter, initialized) ==
  /\ r \in RowState
  /\ r.position = position /\ r.req_position = req_position /\ r.skip_next = skip_next
  /\ r.escape = escape /\ r.terminator = terminator /\ r.token = token
  /\ r.delimiter = delimiter /\ r.initialized = initialized

\* The assignments to leave the trie.
LEMMA PutLeave ==
  ASSUME NEW s \in RowState, NEW i \in Nat, NEW c \in Chars, NEW x \in Nat
  PROVE  Holds([s EXCEPT !.position = i, !.terminator = c, !.token = x],
               i, s.req_position, s.skip_next, s.escape, c, x, s.delimiter, s.initialized)
<1>1. 0 \in 0..1 /\ 1 \in 0..1
  OBVIOUS
<1> QED
  BY <1>1 DEF RowState, Holds

\* The assignments to enter a row.
LEMMA PutEnter ==
  ASSUME NEW s \in RowState, NEW i \in Nat, NEW x \in Nat
  PROVE  Holds([s EXCEPT !.position = i, !.token = x],
               i, s.req_position, s.skip_next, s.escape, s.terminator, x, s.delimiter, s.initialized)
<1>1. 0 \in 0..1 /\ 1 \in 0..1
  OBVIOUS
<1> QED
  BY <1>1 DEF RowState, Holds

\* The assignments to end at the end of the buffer.
LEMMA PutEnd ==
  ASSUME NEW s \in RowState, NEW x \in Nat
  PROVE  Holds([s EXCEPT !.skip_next = 1, !.token = x],
               s.position, s.req_position, 1, s.escape, s.terminator, x, s.delimiter, s.initialized)
<1>1. 0 \in 0..1 /\ 1 \in 0..1
  OBVIOUS
<1> QED
  BY <1>1 DEF RowState, Holds

\* The assignments to remember an escape.
LEMMA PutEscaping ==
  ASSUME NEW s \in RowState
  PROVE  Holds([s EXCEPT !.skip_next = 1, !.escape = 1],
               s.position, s.req_position, 1, 1, s.terminator, s.token, s.delimiter, s.initialized)
<1>1. 0 \in 0..1 /\ 1 \in 0..1
  OBVIOUS
<1> QED
  BY <1>1 DEF RowState, Holds

\* The assignments to skip a character.
LEMMA PutSkipped ==
  ASSUME NEW s \in RowState, NEW x \in Nat
  PROVE  Holds([s EXCEPT !.req_position = x, !.skip_next = 0],
               s.position, x, 0, s.escape, s.terminator, s.token, s.delimiter, s.initialized)
<1>1. 0 \in 0..1 /\ 1 \in 0..1
  OBVIOUS
<1> QED
  BY <1>1 DEF RowState, Holds

\* The assignments to have read an escaped one.
LEMMA PutRead ==
  ASSUME NEW s \in RowState
  PROVE  Holds([s EXCEPT !.escape = 0],
               s.position, s.req_position, s.skip_next, 0, s.terminator, s.token, s.delimiter, s.initialized)
<1>1. 0 \in 0..1 /\ 1 \in 0..1
  OBVIOUS
<1> QED
  BY <1>1 DEF RowState, Holds

\* The assignments to move on.
LEMMA PutPosition ==
  ASSUME NEW s \in RowState, NEW x \in Nat
  PROVE  Holds([s EXCEPT !.req_position = x],
               s.position, x, s.skip_next, s.escape, s.terminator, s.token, s.delimiter, s.initialized)
<1>1. 0 \in 0..1 /\ 1 \in 0..1
  OBVIOUS
<1> QED
  BY <1>1 DEF RowState, Holds

\* The assignments to walk for the first time.
LEMMA PutInitialized ==
  ASSUME NEW s \in RowState, NEW y \in BOOLEAN
  PROVE  Holds([s EXCEPT !.initialized = y],
               s.position, s.req_position, s.skip_next, s.escape, s.terminator, s.token, s.delimiter, y)
<1>1. 0 \in 0..1 /\ 1 \in 0..1
  OBVIOUS
<1> QED
  BY <1>1 DEF RowState, Holds

\* What the operators behind the walk make of a state.
LEMMA RowOperators ==
  ASSUME NEW s \in RowState, NEW i \in Nat, NEW c \in Chars, NEW x \in Nat
  PROVE  /\ Holds(LeaveTable(s, c, i, x),
                  i, s.req_position, s.skip_next, s.escape, c,
                  IF options.keep_last_token \/ x = 0 THEN s.token ELSE x, s.delimiter, s.initialized)
         /\ Holds(EnterRow(s, i, x),
                  i, s.req_position, s.skip_next, s.escape, s.terminator,
                  IF options.keep_last_token THEN x ELSE s.token, s.delimiter, s.initialized)
         /\ Holds([s EXCEPT !.req_position = @ + 1],
                  s.position, s.req_position + 1, s.skip_next, s.escape, s.terminator, s.token,
                  s.delimiter, s.initialized)
         /\ Holds(EndOfBuffer(s, x),
                  s.position, s.req_position, 1, s.escape, s.terminator,
                  IF options.end_of_buffer_token /\ ~options.keep_last_token THEN x ELSE s.token,
                  s.delimiter, s.initialized)
<1> DEFINE left == IF options.keep_last_token \/ x = 0 THEN s.token ELSE x
<1> DEFINE entered == IF options.keep_last_token THEN x ELSE s.token
<1> DEFINE ended == IF options.end_of_buffer_token /\ ~options.keep_last_token THEN x ELSE s.token
<1>1. s.token \in Nat /\ s.req_position \in Nat
  BY DEF RowState
<1>2. left \in Nat /\ entered \in Nat /\ ended \in Nat /\ 1 \in 0..1 /\ s.req_position + 1 \in Nat
  BY <1>1
<1>3. /\ LeaveTable(s, c, i, x) = [s EXCEPT !.position = i, !.terminator = c, !.token = left]
      /\ EnterRow(s, i, x) = [s EXCEPT !.position = i, !.token = entered]
      /\ EndOfBuffer(s, x) = [s EXCEPT !.skip_next = 1, !.token = ended]
      /\ [s EXCEPT !.req_position = @ + 1] = [s EXCEPT !.req_position = s.req_position + 1]
  BY Zenon DEF LeaveTable, EnterRow, EndOfBuffer
<1> HIDE DEF left, entered, ended
<1>4. Holds(LeaveTable(s, c, i, x),
            i, s.req_position, s.skip_next, s.escape, c, left, s.delimiter, s.initialized)
  <2>1. Holds([s EXCEPT !.position = i, !.terminator = c, !.token = left],
              i, s.req_position, s.skip_next, s.escape, c, left, s.delimiter, s.initialized)
    BY <1>2, PutLeave
  <2> QED
    BY <1>3, <2>1, Zenon
<1>5. Holds(EnterRow(s, i, x),
            i, s.req_position, s.skip_next, s.escape, s.terminator, entered, s.delimiter, s.initialized)
  <2>1. Holds([s EXCEPT !.position = i, !.token = entered],
              i, s.req_position, s.skip_next, s.escape, s.terminator, entered, s.delimiter, s.initialized)
    BY <1>2, PutEnter
  <2> QED
    BY <1>3, <2>1, Zenon
<1>6. Holds([s EXCEPT !.req_position = @ + 1],
            s.position, s.req_position + 1, s.skip_next, s.escape, s.terminator, s.token,
            s.delimiter, s.initialized)
  BY <1>2, <1>3, PutPosition, Zenon
<1>7. Holds(EndOfBuffer(s, x),
            s.position, s.req_position, 1, s.escape, s.terminator, ended, s.delimiter, s.initialized)
  BY <1>2, <1>3, PutEnd, Zenon
<1> QED
  BY <1>4, <1>5, <1>6, <1>7, Zenon DEF left, entered, ended

\* Of such a state, only the fields the trie has are left in the abstract one.
LEMMA HoldsAbstract ==
  ASSUME NEW r, NEW i, NEW q, NEW k, NEW e, NEW t, NEW w, NEW d, NEW y, NEW node,
         Holds(r, i, q, k, e, t, w, d, y)
  PROVE  Abstract(node, r) = Fields(node, q, k, e, t, w, d)
  BY Zenon DEF Holds, Abstract

\* noizu_trie__array__advance and its twins on the abstract trie, once c has been read.
Child(t, c) == IF Trie!HardDelim(t, c) THEN Trie!NotFound ELSE Trie!ChildOf(t.position, c)

After(t, c) ==
  IF Child(t, c) = Trie!NotFound THEN [code |-> "EXIT", st |-> Trie!Leave(encoding, t, c)]
  ELSE LET in == Trie!Enter(t, Child(t, c))
       IN  IF in.req_position + 1 \in DOMAIN Buffer
           THEN [code |-> "CONTINUE", st |-> [in EXCEPT !.req_position = @ + 1]]
           ELSE [code |-> "BUFFER_END", st |-> Trie!AtBufferEnd(in)]

\* The part behind the walk does on a table what the trie does, when the walk has found
\* what the trie does, and the tokens are those of the trie.
LEMMA Concluded ==
  ASSUME NEW r \in RowState, NEW node, NEW c \in Chars, NEW i \in Nat, NEW f \in BOOLEAN,
         NEW tokens, NEW length \in Nat, received \in Nat,
         i < length, tokens[i] \in Nat, tokens[r.position] \in Nat,
         tokens[r.position] = Trie!TokenAt(node),
         f <=> Child(Abstract(node, r), c) # Trie!NotFound,
         f => tokens[i] = Trie!TokenAt(Child(Abstract(node, r), c)),
         NEW a, a = Conclude(r, c, [index |-> i, found |-> f], tokens, length),
         NEW out, out = IF f THEN Child(Abstract(node, r), c)
                        ELSE Trie!Mismatch(encoding, Abstract(node, r), c)
  PROVE  /\ a.st \in RowState /\ a.st.position = i /\ a.st.initialized = r.initialized
         /\ After(Abstract(node, r), c) = [code |-> a.code, st |-> Abstract(out, a.st)]
<1> DEFINE t == Abstract(node, r)
<1> DEFINE next == Child(t, c)
<1> DEFINE walk == [index |-> i, found |-> f]
<1>0. walk.index = i /\ walk.found = f /\ ~(i >= length)
  OBVIOUS
<1>1. CASE ~f
  <2> DEFINE s == LeaveTable(r, c, i, tokens[r.position])
  <2>1. a = [code |-> "EXIT", st |-> s]
    BY <1>0, <1>1 DEF Conclude
  <2>2. Holds(s, i, r.req_position, r.skip_next, r.escape, c,
              IF options.keep_last_token \/ tokens[r.position] = 0 THEN r.token ELSE tokens[r.position],
              r.delimiter, r.initialized)
    BY RowOperators
  <2>3. Trie!Leave(encoding, t, c)
        = Fields(out, r.req_position, r.skip_next, r.escape, c,
                 IF options.keep_last_token \/ Trie!TokenAt(node) = 0 THEN r.token ELSE Trie!TokenAt(node),
                 r.delimiter)
    <3>1. out = Trie!Mismatch(encoding, t, c)
      BY <1>1
    <3>2. Trie!Leave(encoding, t, c)
          = Fields(Trie!Mismatch(encoding, t, c), r.req_position, r.skip_next, r.escape, c,
                   IF options.keep_last_token \/ Trie!TokenAt(node) = 0 THEN r.token
                   ELSE Trie!TokenAt(node), r.delimiter)
      BY AbstractOperators, Zenon
    <3> QED
      BY <3>1, <3>2, Zenon
  <2>4. After(t, c) = [code |-> "EXIT", st |-> Trie!Leave(encoding, t, c)]
    BY <1>1 DEF After
  <2> HIDE DEF s, t
  <2>5. Abstract(out, s) = Trie!Leave(encoding, t, c)
    BY <2>2, <2>3, HoldsAbstract
  <2>6. s \in RowState /\ s.position = i /\ s.initialized = r.initialized
    BY <2>2 DEF Holds
  <2>7. a.st = s /\ a.code = "EXIT"
    BY <2>1
  <2> QED
    BY <2>4, <2>5, <2>6, <2>7 DEF t
<1>2. CASE f
  <2> DEFINE in == EnterRow(r, i, tokens[i])
  <2> DEFINE ab == Trie!Enter(t, next)
  <2> DEFINE token == IF options.keep_last_token THEN tokens[i] ELSE r.token
  <2>1. Holds(in, i, r.req_position, r.skip_next, r.escape, r.terminator, token, r.delimiter, r.initialized)
    BY RowOperators
  <2>2. ab = Fields(next, r.req_position, r.skip_next, r.escape, r.terminator, token, r.delimiter)
    <3>1. tokens[i] = Trie!TokenAt(next)
      BY <1>2
    <3>2. ab = Fields(next, r.req_position, r.skip_next, r.escape, r.terminator,
                      IF options.keep_last_token THEN Trie!TokenAt(next) ELSE r.token, r.delimiter)
      BY AbstractOperators, Zenon
    <3> QED
      BY <3>1, <3>2, Zenon
  <2> HIDE DEF in, token, ab
  <2>3. ab = Abstract(next, in) /\ in \in RowState /\ out = next
    BY <1>2, <2>1, <2>2, HoldsAbstract DEF Holds
  <2>4. /\ in.position = i /\ in.initialized = r.initialized
        /\ in.req_position = r.req_position /\ ab.req_position = r.req_position
    BY <2>1, <2>3, AbstractFields DEF Holds
  <2>5. r.req_position + 1 \in DOMAIN Buffer <=> r.req_position + 1 < received
    BY DEF Buffer, RowState
  <2>6. CASE r.req_position + 1 < received
    <3> DEFINE s == [in EXCEPT !.req_position = @ + 1]
    <3>1. a = [code |-> "CONTINUE", st |-> s]
      BY <1>0, <1>2, <2>6 DEF Conclude, in
    <3>2. Holds(s, in.position, in.req_position + 1, in.skip_next, in.escape, in.terminator, in.token,
                in.delimiter, in.initialized)
      BY <2>3, RowOperators
    <3>3. [ab EXCEPT !.req_position = @ + 1]
          = Fields(next, in.req_position + 1, in.skip_next, in.escape, in.terminator, in.token, in.delimiter)
      BY <2>3, AbstractOperators
    <3>4. After(t, c) = [code |-> "CONTINUE", st |-> [ab EXCEPT !.req_position = @ + 1]]
      BY <1>2, <2>4, <2>5, <2>6 DEF After, ab
    <3> HIDE DEF s, t, next
    <3>5. Abstract(next, s) = [ab EXCEPT !.req_position = @ + 1]
      BY <3>2, <3>3, HoldsAbstract
    <3>6. s \in RowState /\ s.position = i /\ s.initialized = r.initialized
      BY <2>4, <3>2 DEF Holds
    <3>7. a.st = s /\ a.code = "CONTINUE"
      BY <3>1
    <3> QED
      BY <2>3, <3>4, <3>5, <3>6, <3>7 DEF t
  <2>7. CASE ~(r.req_position + 1 < received)
    <3> DEFINE s == EndOfBuffer(in, tokens[i])
    <3>1. a = [code |-> "BUFFER_END", st |-> s]
      BY <1>0, <1>2, <2>7 DEF Conclude, in
    <3>2. Holds(s, in.position, in.req_position, 1, in.escape, in.terminator,
                IF options.end_of_buffer_token /\ ~options.keep_last_token THEN tokens[i] ELSE in.token,
                in.delimiter, in.initialized)
      BY <2>3, RowOperators
    <3>3. Trie!AtBufferEnd(ab)
          = Fields(next, in.req_position, 1, in.escape, in.terminator,
                   IF options.end_of_buffer_token /\ ~options.keep_last_token THEN tokens[i] ELSE in.token,
                   in.delimiter)
      BY <1>2, <2>3, AbstractOperators
    <3>4. After(t, c) = [code |-> "BUFFER_END", st |-> Trie!AtBufferEnd(ab)]
      BY <1>2, <2>4, <2>5, <2>7 DEF After, ab
    <3> HIDE DEF s, t, next
    <3>5. Abstract(next, s) = Trie!AtBufferEnd(ab)
      BY <3>2, <3>3, HoldsAbstract
    <3>6. s \in RowState /\ s.position = i /\ s.initialized = r.initialized
      BY <2>4, <3>2 DEF Holds
    <3>7. a.st = s /\ a.code = "BUFFER_END"
      BY <3>1
    <3> QED
      BY <2>3, <3>4, <3>5, <3>6, <3>7 DEF t
  <2> QED
    BY <2>6, <2>7
<1> QED
  BY <1>1, <1>2

\* Where the trie goes from the node of a row, and with which tokens.
LEMMA ChildNode ==
  ASSUME NEW p \in TrieRows, NEW c
  PROVE  /\ \A k \in Children(p) :
              Row(k).char = c => Trie!ChildOf(Path[p], c) = Path[k] /\ Path[k] # Trie!NotFound
         /\ (\A k \in Children(p) : Row(k).char # c) => Trie!ChildOf(Path[p], c) = Trie!NotFound
         /\ Trie!ChildOf(Trie!NotFound, c) = Trie!NotFound
<1>1. \A k \in Children(p) : k \in TrieRows /\ Path[k] = Append(Path[p], Row(k).char)
  BY ChildRows
<1>2. \A k \in Children(p) : Path[k] \in Trie!KeyPrefixes /\ Path[k] # Trie!NotFound
  BY <1>1, PathTyped, WellAndRoot
<1>3. \A k \in Children(p) : Row(k).char = c => Trie!ChildOf(Path[p], c) = Path[k]
  BY <1>1, <1>2, Zenon DEF Trie!ChildOf
<1>4. (\A k \in Children(p) : Row(k).char # c) => Trie!ChildOf(Path[p], c) = Trie!NotFound
  BY ChildRows, Zenon DEF Trie!ChildOf
<1>5. Trie!ChildOf(Trie!NotFound, c) = Trie!NotFound
  BY WellAndRoot, Zenon DEF Trie!ChildOf
<1> QED
  BY <1>2, <1>3, <1>4, <1>5

\* The tokens of rows are those of their nodes.
LEMMA RowTokens ==
  /\ \A i \in TrieRows : Row(i).token = Trie!TokenAt(Path[i]) /\ Row(i).token \in Nat
  /\ Row(0).token = 0 /\ Trie!TokenAt(Trie!NotFound) = 0 /\ Trie!TokenAt(<<>>) = 0
<1>1. \A i \in TrieRows : Row(i).token = Trie!TokenAt(Path[i])
  BY RowsAssumption
<1>2. \A n : Trie!TokenAt(n) \in Nat
  BY Given DEF Trie!TokenAt
<1>3. Trie!TokenAt(Trie!NotFound) = 0 /\ Trie!TokenAt(<<>>) = 0
  BY WellAndRoot, Zenon DEF Trie!TokenAt
<1> QED
  BY <1>1, <1>2, <1>3, RowsAssumption

\* One character in the array encoding leads to the row of the node the trie goes to.
LEMMA ArrayWalk ==
  ASSUME encoding # "compact", NEW s \in RowState, OnRow(s), NEW c \in DOMAIN CharCode,
         NEW i, i = IF Trie!HardDelim(s, c) THEN 0 ELSE ArrayChild(c, s.position),
         NEW next, next = Child(Abs(s), c)
  PROVE  /\ i = 0 \/ i \in TrieRows
         /\ i # 0 <=> next # Trie!NotFound
         /\ i # 0 => Row(i).token = Trie!TokenAt(next)
         /\ Row(s.position).token = Trie!TokenAt(At(s)) /\ Row(s.position).token \in Nat
         /\ \A y : NodeOf(i, y) = IF i # 0 THEN next ELSE Trie!Mismatch(encoding, Abs(s), c)
<1>1. s.position = 0 \/ s.position \in TrieRows
  BY DEF OnRow
<1>2. /\ s.position = 0 => At(s) = Trie!NotFound
      /\ s.position # 0 => At(s) = Path[s.position]
  BY DEF At, NodeOf
<1>3. Abs(s).position = At(s) /\ Abs(s).delimiter = s.delimiter
  BY AbstractFields DEF Abs
<1>4. Trie!HardDelim(Abs(s), c) <=> Trie!HardDelim(s, c)
  BY <1>3 DEF Trie!HardDelim
<1>5. next = IF Trie!HardDelim(s, c) THEN Trie!NotFound ELSE Trie!ChildOf(At(s), c)
  BY <1>3, <1>4, Zenon DEF Child
<1>6. Trie!Mismatch(encoding, Abs(s), c) = Trie!NotFound
  BY DEF Trie!Mismatch
<1>7. 0 \notin TrieRows
  BY Given
<1>8. Row(s.position).token = Trie!TokenAt(At(s)) /\ Row(s.position).token \in Nat
  BY <1>1, <1>2, RowTokens
<1>9. \A j \in TrieRows : Path[j] # Trie!NotFound
  BY PathTyped, WellAndRoot
<1>10. \/ i = 0 /\ next = Trie!NotFound
       \/ i \in TrieRows /\ next = Path[i]
  <2>1. CASE Trie!HardDelim(s, c)
    BY <2>1, <1>5
  <2>2. CASE ~Trie!HardDelim(s, c) /\ s.position = 0
    <3>1. ArrayChild(c, 0) = 0
      BY DEF ArrayChild
    <3>2. Trie!ChildOf(Trie!NotFound, c) = Trie!NotFound
      BY RootRow, ChildNode
    <3> QED
      BY <2>2, <3>1, <3>2, <1>2, <1>5
  <2>3. CASE ~Trie!HardDelim(s, c) /\ s.position # 0
    <3> DEFINE p == s.position
    <3>0. p \in TrieRows /\ At(s) = Path[p] /\ i = ArrayChild(c, p) /\ next = Trie!ChildOf(Path[p], c)
      BY <2>3, <1>1, <1>2, <1>5
    <3> HIDE DEF p
    <3>1. CASE \E k \in Children(p) : Row(k).char = c
      <4>1. PICK k \in Children(p) : Row(k).char = c
        BY <3>1
      <4>2. i = k
        BY <3>0, <4>1, ArrayFinds
      <4>3. next = Path[k] /\ k \in TrieRows
        BY <3>0, <4>1, ChildNode, ChildRows
      <4> QED
        BY <4>2, <4>3
    <3>2. CASE \A k \in Children(p) : Row(k).char # c
      BY <3>0, <3>2, ArrayFinds, ChildNode
    <3> QED
      BY <3>1, <3>2
  <2> QED
    BY <2>1, <2>2, <2>3
<1>11. \A y : NodeOf(i, y) = IF i = 0 THEN Trie!NotFound ELSE Path[i]
  BY DEF NodeOf
<1> QED
  BY <1>6, <1>7, <1>8, <1>9, <1>10, <1>11, RowTokens

\* The labels of a node are those of the children of its row; the well has none.
LEMMA LabelsOf ==
  /\ \A p \in TrieRows : Trie!Labels(Path[p]) = {Row(j).char : j \in Children(p)}
  /\ Trie!Labels(Trie!NotFound) = {}
<1>1. ASSUME NEW p \in TrieRows
      PROVE  Trie!Labels(Path[p]) = {Row(j).char : j \in Children(p)}
  <2>1. \A l : Append(Path[p], l) \in Trie!KeyPrefixes <=> \E j \in Children(p) : Row(j).char = l
    BY ChildRows
  <2>2. \A j \in Children(p) : Row(j).char \in Trie!CharMap
    BY LabelsInMap
  <2> QED
    BY <2>1, <2>2 DEF Trie!Labels
<1>2. Trie!Labels(Trie!NotFound) = {}
  BY WellAndRoot DEF Trie!Labels
<1> QED
  BY <1>1, <1>2

\* The root has children.
LEMMA RootHasChildren ==
  Children(1) # {}
<1>1. PICK w \in DOMAIN Words : w \in Seq(Chars) /\ w # <<>>
  BY Given
<1>2. SubSeq(w, 1, 1) = Append(<<>>, w[1]) /\ 1 \in 0..Len(w)
  <2>1. Len(w) \in Nat /\ Len(w) # 0
    BY <1>1
  <2>2. Len(SubSeq(w, 1, 1)) = 1 /\ SubSeq(w, 1, 1) \in Seq(Chars) /\ SubSeq(w, 1, 1)[1] = w[1]
    BY <1>1, <2>1
  <2>3. w[1] \in Chars /\ Append(<<>>, w[1]) = <<w[1]>>
    BY <1>1, <2>1
  <2>4. SubSeq(w, 1, 1) = <<w[1]>>
    <3>1. <<w[1]>> \in Seq(Chars) /\ Len(<<w[1]>>) = 1 /\ <<w[1]>>[1] = w[1]
      BY <2>3
    <3> DEFINE u == SubSeq(w, 1, 1)
    <3> DEFINE v == <<w[1]>>
    <3>2. u \in Seq(Chars) /\ v \in Seq(Chars) /\ Len(u) = 1 /\ Len(v) = 1 /\ u[1] = v[1]
      BY <2>2, <3>1
    <3> HIDE DEF u, v
    <3>3. u = v
      BY <3>2, SeqEqual
    <3> QED
      BY <3>3 DEF u, v
  <2> QED
    BY <2>1, <2>3, <2>4
<1>3. Append(Path[1], w[1]) \in Trie!KeyPrefixes
  BY <1>1, <1>2, RootRow DEF Trie!KeyPrefixes
<1> QED
  BY <1>3, RootRow, ChildRows

\* Where a mismatch leaves the compact encoding, in the terms of rows.
LEMMA CompactMismatch ==
  ASSUME encoding = "compact", NEW t, NEW c \in DOMAIN CharCode
  PROVE  /\ Trie!HardDelim(t, c) \/ c \notin Trie!CharMap \/ t.position = Trie!NotFound
              => Trie!Mismatch(encoding, t, c) = t.position
         /\ \A p \in TrieRows :
              t.position = Path[p] /\ ~Trie!HardDelim(t, c) /\ c \in Trie!CharMap =>
                /\ (\E k \in Children(p) : CharCode[c] < CodeAt(k))
                     => Trie!Mismatch(encoding, t, c) = Trie!NotFound
                /\ Children(p) = {} => Trie!Mismatch(encoding, t, c) = t.position
                /\ \A m \in Children(p) :
                     (\A k \in Children(p) : CodeAt(k) < CharCode[c] /\ CodeAt(k) <= CodeAt(m))
                       => Trie!Mismatch(encoding, t, c) = Path[m]
<1> DEFINE beyond == \E l \in Trie!Labels(t.position) : CharCode[l] > CharCode[c]
<1> DEFINE walks == ~Trie!HardDelim(t, c) /\ c \in Trie!CharMap
<1>1. /\ ~walks => Trie!Mismatch(encoding, t, c) = t.position
      /\ walks /\ beyond => Trie!Mismatch(encoding, t, c) = Trie!NotFound
      /\ walks /\ ~beyond /\ Trie!LastLabels(t.position) = {}
           => Trie!Mismatch(encoding, t, c) = t.position
      /\ walks /\ ~beyond /\ Trie!LastLabels(t.position) # {}
           => Trie!Mismatch(encoding, t, c)
              = Append(t.position, CHOOSE l \in Trie!LastLabels(t.position) : TRUE)
  BY DEF Trie!Mismatch
<1>2. Trie!Labels(t.position) = {} => ~beyond /\ Trie!LastLabels(t.position) = {}
  BY DEF Trie!LastLabels
<1> HIDE DEF walks
<1>3. Trie!HardDelim(t, c) \/ c \notin Trie!CharMap \/ t.position = Trie!NotFound
        => Trie!Mismatch(encoding, t, c) = t.position
  <2>1. Trie!HardDelim(t, c) \/ c \notin Trie!CharMap => ~walks
    BY DEF walks
  <2> HIDE DEF beyond
  <2> QED
    BY <1>1, <1>2, <2>1, LabelsOf
<1>4. ASSUME NEW p \in TrieRows, t.position = Path[p], walks
      PROVE  /\ (\E k \in Children(p) : CharCode[c] < CodeAt(k))
                  => Trie!Mismatch(encoding, t, c) = Trie!NotFound
             /\ Children(p) = {} => Trie!Mismatch(encoding, t, c) = t.position
             /\ \A m \in Children(p) :
                  (\A k \in Children(p) : CodeAt(k) < CharCode[c] /\ CodeAt(k) <= CodeAt(m))
                    => Trie!Mismatch(encoding, t, c) = Path[m]
  <2>0. /\ \A k \in Children(p) : CodeAt(k) \in Int /\ CodeAt(k) = CharCode[Row(k).char]
        /\ CharCode[c] \in Int
        /\ Trie!Labels(t.position) = {Row(j).char : j \in Children(p)}
    <3>1. \A k \in Children(p) : CodeAt(k) \in 0..255
      BY ChildCodes, Zenon
    <3>2. CharCode[c] \in 0..255
      BY CodesAssumption
    <3>3. \A k \in Children(p) : CodeAt(k) = CharCode[Row(k).char]
      BY DEF CodeAt
    <3>4. \A n \in 0..255 : n \in Int
      OBVIOUS
    <3>5. Trie!Labels(t.position) = {Row(j).char : j \in Children(p)}
      BY <1>4, LabelsOf
    <3> QED
      BY <3>1, <3>2, <3>3, <3>4, <3>5, Zenon
  <2>1. ASSUME NEW k \in Children(p), CharCode[c] < CodeAt(k)
        PROVE  Trie!Mismatch(encoding, t, c) = Trie!NotFound
    <3>1. Row(k).char \in Trie!Labels(t.position) /\ CharCode[Row(k).char] > CharCode[c]
      BY <2>0, <2>1
    <3>2. beyond
      BY <3>1
    <3> HIDE DEF beyond
    <3> QED
      BY <1>1, <1>4, <3>2
  <2>2. ASSUME Children(p) = {} PROVE Trie!Mismatch(encoding, t, c) = t.position
    <3>1. Trie!Labels(t.position) = {}
      BY <2>0, <2>2
    <3> HIDE DEF beyond
    <3> QED
      BY <1>1, <1>2, <1>4, <3>1
  <2>3. ASSUME NEW m \in Children(p),
               \A k \in Children(p) : CodeAt(k) < CharCode[c] /\ CodeAt(k) <= CodeAt(m)
        PROVE  Trie!Mismatch(encoding, t, c) = Path[m]
    <3>1. ~beyond
      <4>1. \A k \in Children(p) : ~(CharCode[Row(k).char] > CharCode[c])
        BY <2>0, <2>3
      <4> QED
        BY <2>0, <4>1
    <3>2. Trie!LastLabels(t.position) = {Row(m).char}
      <4>1. \A k \in Children(p) :
              (\A j \in Children(p) : CharCode[Row(j).char] <= CharCode[Row(k).char]) <=> k = m
        <5>1. \A j \in Children(p) : CharCode[Row(j).char] <= CharCode[Row(m).char]
          BY <2>0, <2>3
        <5>2. ASSUME NEW k \in Children(p),
                     \A j \in Children(p) : CharCode[Row(j).char] <= CharCode[Row(k).char]
              PROVE  k = m
          <6>1. CodeAt(m) <= CodeAt(k) /\ CodeAt(k) <= CodeAt(m)
            BY <2>0, <2>3, <5>2
          <6>2. CodeAt(m) = CodeAt(k)
            BY <2>0, <6>1
          <6> QED
            BY <6>2, ChildCodes
        <5> QED
          BY <5>1, <5>2
      <4>2. Trie!LastLabels(t.position)
            = {l \in {Row(j).char : j \in Children(p)} :
                 \A j \in Children(p) : CharCode[Row(j).char] <= CharCode[l]}
        BY <2>0 DEF Trie!LastLabels
      <4> QED
        BY <4>1, <4>2
    <3>3. (CHOOSE l \in Trie!LastLabels(t.position) : TRUE) = Row(m).char
      BY <3>2
    <3> HIDE DEF beyond
    <3>4. Trie!Mismatch(encoding, t, c) = Append(Path[p], Row(m).char)
      BY <1>1, <1>4, <3>1, <3>2, <3>3
    <3> QED
      BY <3>4, ChildRows
  <2> QED
    BY <2>1, <2>2, <2>3
<1> QED
  BY <1>3, <1>4 DEF walks

\* One character in the compact encoding leads to the record of the row of the node the
\* trie goes to, or leaves it where the trie says a mismatch does.
LEMMA CompactWalk ==
  ASSUME encoding = "compact", NEW s \in RowState, OnRow(s), NEW c \in DOMAIN CharCode,
         NEW walks, walks = (~Trie!HardDelim(s, c) /\ ~(s.position = 0 /\ s.initialized) /\ CodeOf(c) # 0),
         NEW walk, walk = IF walks THEN CompactSearch(c, s.position)
                          ELSE [index |-> s.position, found |-> FALSE],
         NEW y, y = (s.initialized \/ walks),
         NEW next, next = Child(Abs(s), c)
  PROVE  /\ \E i \in Nat, f \in BOOLEAN :
              /\ walk = [index |-> i, found |-> f] /\ i + 1 \in TrieRows
              /\ f <=> next # Trie!NotFound
              /\ f => Row(i + 1).token = Trie!TokenAt(next)
              /\ NodeOf(i, y) = IF f THEN next ELSE Trie!Mismatch(encoding, Abs(s), c)
         /\ Row(s.position + 1).token = Trie!TokenAt(At(s))
<1> DEFINE p == s.position + 1
<1> DEFINE well == s.position = 0 /\ s.initialized
<1>1. p \in TrieRows /\ s.position \in Nat /\ p \in Nat /\ p - 1 = s.position
  BY DEF OnRow, RowState
<1>2. /\ well => At(s) = Trie!NotFound
      /\ ~well => At(s) = Path[p]
  BY DEF At, NodeOf
<1>3. Abs(s).position = At(s) /\ Abs(s).delimiter = s.delimiter
  BY AbstractFields DEF Abs
<1>4. Trie!HardDelim(Abs(s), c) <=> Trie!HardDelim(s, c)
  BY <1>3 DEF Trie!HardDelim
<1>5. next = IF Trie!HardDelim(s, c) THEN Trie!NotFound ELSE Trie!ChildOf(At(s), c)
  BY <1>3, <1>4, Zenon DEF Child
<1>6. CodeOf(c) # 0 <=> c \in Trie!CharMap
  BY CodeOfIs
<1>7. Row(p).token = Trie!TokenAt(At(s))
  <2>1. CASE well
    <3>1. p = 1 /\ Path[1] = <<>>
      BY <1>1, <2>1, RootRow
    <3>2. Row(1).token = Trie!TokenAt(<<>>)
      BY <3>1, RootRow, RowTokens
    <3> HIDE DEF p
    <3> QED
      BY <1>2, <2>1, <3>1, <3>2, RowTokens
  <2>2. CASE ~well
    BY <1>1, <1>2, <2>2, RowTokens
  <2> QED
    BY <2>1, <2>2
<1> HIDE DEF p
<1>8. CASE ~walks
  <2>1. y = s.initialized /\ walk = [index |-> s.position, found |-> FALSE]
    BY <1>8 DEF RowState
  <2>2. NodeOf(s.position, y) = At(s)
    BY <2>1 DEF At
  <2>3. Trie!HardDelim(Abs(s), c) \/ c \notin Trie!CharMap \/ Abs(s).position = Trie!NotFound
    BY <1>2, <1>3, <1>4, <1>6, <1>8
  <2>4. Trie!Mismatch(encoding, Abs(s), c) = At(s)
    BY <1>3, <2>3, CompactMismatch
  <2>5. next = Trie!NotFound
    <3>1. c \notin Trie!CharMap => \A k \in Children(p) : Row(k).char # c
      BY <1>1, LabelsInMap
    <3>2. c \notin Trie!CharMap => Trie!ChildOf(Path[p], c) = Trie!NotFound
      BY <1>1, <3>1, ChildNode
    <3>3. Trie!ChildOf(Trie!NotFound, c) = Trie!NotFound
      BY <1>1, ChildNode
    <3> HIDE DEF well
    <3> QED
      BY <1>2, <1>3, <1>4, <1>5, <2>3, <3>2, <3>3
  <2>6. s.position + 1 \in TrieRows
    BY <1>1 DEF p
  <2>7. \E f \in BOOLEAN :
          /\ walk = [index |-> s.position, found |-> f] /\ s.position + 1 \in TrieRows
          /\ f <=> next # Trie!NotFound
          /\ f => Row(s.position + 1).token = Trie!TokenAt(next)
          /\ NodeOf(s.position, y) = IF f THEN next ELSE Trie!Mismatch(encoding, Abs(s), c)
    <3> WITNESS FALSE \in BOOLEAN
    <3> QED
      BY <2>1, <2>2, <2>4, <2>5, <2>6
  <2> QED
    BY <1>1, <1>7, <2>7 DEF p
<1>9. CASE walks
  <2>1. /\ ~Trie!HardDelim(s, c) /\ ~well /\ c \in Trie!CharMap /\ y = TRUE
        /\ walk = CompactSearch(c, p - 1)
    BY <1>1, <1>6, <1>9
  <2>2. At(s) = Path[p] /\ next = Trie!ChildOf(Path[p], c) /\ Abs(s).position = Path[p]
        /\ ~Trie!HardDelim(Abs(s), c)
    BY <1>2, <1>3, <1>4, <1>5, <2>1
  <2>3. \A k \in Nat : k # 0 => NodeOf(k, y) = Path[k + 1]
    BY DEF NodeOf
  <2>4. NodeOf(0, y) = Trie!NotFound
    BY <2>1 DEF NodeOf
  <2>5. \A k \in Children(p) : k \in TrieRows /\ k - 1 \in Nat /\ k - 1 # 0 /\ (k - 1) + 1 = k
    <3>1. \A k \in Children(p) : k \in TrieRows /\ k # 1
      BY <1>1, ChildRows
    <3> QED
      BY <3>1, Given
  <2> DEFINE Goes(i, f) ==
        /\ walk = [index |-> i, found |-> f] /\ i + 1 \in TrieRows
        /\ f <=> next # Trie!NotFound
        /\ f => Row(i + 1).token = Trie!TokenAt(next)
        /\ NodeOf(i, y) = IF f THEN next ELSE Trie!Mismatch(encoding, Abs(s), c)
  <2>6. CASE \E k \in Children(p) : Row(k).char = c
    <3>1. PICK k \in Children(p) : Row(k).char = c
      BY <2>6
    <3>2. walk = [index |-> k - 1, found |-> TRUE]
      BY <1>1, <2>1, <3>1, CompactFinds
    <3>3. next = Path[k] /\ next # Trie!NotFound /\ Row(k).token = Trie!TokenAt(next)
      <4>1. next = Path[k] /\ next # Trie!NotFound
        BY <1>1, <2>2, <3>1, ChildNode
      <4>2. k \in TrieRows
        BY <2>5
      <4> QED
        BY <4>1, <4>2, RowTokens
    <3>4. NodeOf(k - 1, y) = Path[k]
      BY <2>3, <2>5
    <3>5. Goes(k - 1, TRUE)
      BY <2>5, <3>2, <3>3, <3>4
    <3> QED
      <4> HIDE DEF Goes
      <4>1. \E i \in Nat, f \in BOOLEAN : Goes(i, f)
        BY <2>5, <3>5
      <4> QED
        BY <1>7, <4>1 DEF Goes, p
  <2>7. CASE \A k \in Children(p) : Row(k).char # c
    <3>1. next = Trie!NotFound
      BY <1>1, <2>2, <2>7, ChildNode
    <3>2. \E i \in Nat : /\ walk = [index |-> i, found |-> FALSE] /\ i + 1 \in TrieRows
                         /\ NodeOf(i, y) = Trie!Mismatch(encoding, Abs(s), c)
      <4>1. CASE Children(p) = {}
        <5>1. walk = [index |-> s.position, found |-> FALSE]
          BY <1>1, <2>1, <4>1, CompactFinds
        <5>2. Trie!Mismatch(encoding, Abs(s), c) = Path[p]
          BY <1>1, <2>1, <2>2, <4>1, CompactMismatch
        <5>3. s.position # 0
          <6>1. p # 1
            BY <4>1, RootHasChildren
          <6> QED
            BY <1>1, <6>1
        <5>4. NodeOf(s.position, y) = Path[p]
          BY <1>1, <2>3, <5>3 DEF p
        <5>5. s.position + 1 \in TrieRows
          BY <1>1 DEF p
        <5> QED
          BY <1>1, <5>1, <5>2, <5>4, <5>5
      <4>2. CASE \E k \in Children(p) : CharCode[c] < CodeAt(k)
        <5>1. walk = [index |-> 0, found |-> FALSE]
          BY <1>1, <2>1, <2>7, <4>2, CompactFinds
        <5>2. Trie!Mismatch(encoding, Abs(s), c) = Trie!NotFound
          BY <1>1, <2>1, <2>2, <4>2, CompactMismatch
        <5>3. 0 + 1 \in TrieRows
          BY RootRow
        <5> QED
          BY <2>4, <5>1, <5>2, <5>3
      <4>3. CASE Children(p) # {} /\ \A k \in Children(p) : CodeAt(k) < CharCode[c]
        <5>1. PICK m \in Children(p) : /\ \A k \in Children(p) : CodeAt(k) <= CodeAt(m)
                                       /\ walk = [index |-> m - 1, found |-> FALSE]
          BY <1>1, <2>1, <4>3, CompactFinds
        <5>2. Trie!Mismatch(encoding, Abs(s), c) = Path[m]
          BY <1>1, <2>1, <2>2, <4>3, <5>1, CompactMismatch
        <5>3. NodeOf(m - 1, y) = Path[m]
          BY <2>3, <2>5
        <5> QED
          BY <2>5, <5>1, <5>2, <5>3
      <4>4. (\A k \in Children(p) : CodeAt(k) < CharCode[c]) \/ (\E k \in Children(p) : CharCode[c] < CodeAt(k))
        <5>1. \A k \in Children(p) : CodeAt(k) \in 0..255 /\ (CodeAt(k) = CharCode[c] => Row(k).char = c)
          BY <1>1, ChildCodes, Zenon
        <5>2. CharCode[c] \in 0..255
          BY CodesAssumption
        <5>3. \A m, n \in 0..255 : m = n \/ m < n \/ n < m
          OBVIOUS
        <5> QED
          BY <2>7, <5>1, <5>2, <5>3, Zenon
      <4> QED
        BY <4>1, <4>2, <4>3, <4>4
    <3>3. PICK i \in Nat : /\ walk = [index |-> i, found |-> FALSE] /\ i + 1 \in TrieRows
                           /\ NodeOf(i, y) = Trie!Mismatch(encoding, Abs(s), c)
      BY <3>2
    <3>4. Goes(i, FALSE)
      BY <3>1, <3>3
    <3> QED
      <4> HIDE DEF Goes
      <4>1. \E j \in Nat, f \in BOOLEAN : Goes(j, f)
        BY <3>3, <3>4
      <4> QED
        BY <1>7, <4>1 DEF Goes, p
  <2> QED
    BY <2>6, <2>7
<1> QED
  BY <1>8, <1>9

\* Skipping a character, remembering an escape and forgetting it change the state of a
\* table and the abstract one alike.
LEMMA SkipsAlike ==
  ASSUME NEW s \in RowState, NEW node
  PROVE  /\ Holds(Trie!Skipped(s), s.position, s.req_position + s.skip_next, 0, s.escape, s.terminator,
                  s.token, s.delimiter, s.initialized)
         /\ Trie!Skipped(Abstract(node, s)) = Abstract(node, Trie!Skipped(s))
<1> DEFINE q == s.req_position + s.skip_next
<1>1. q \in Nat
  BY DEF RowState
<1>2. Trie!Skipped(s) = [s EXCEPT !.req_position = q, !.skip_next = 0]
  BY Zenon DEF Trie!Skipped
<1> DEFINE t == Abstract(node, s)
<1>3. t.req_position = s.req_position /\ t.skip_next = s.skip_next
  BY AbstractFields
<1>4. Trie!Skipped(t) = [t EXCEPT !.req_position = t.req_position + t.skip_next, !.skip_next = 0]
  BY Zenon DEF Trie!Skipped
<1>5. Trie!Skipped(t) = [[t EXCEPT !.req_position = q] EXCEPT !.skip_next = 0]
  <2> HIDE DEF t
  <2> QED
    BY <1>3, <1>4, ExceptSteps, Zenon
<1> HIDE DEF q
<1>6. [t EXCEPT !.req_position = q]
      = Fields(node, q, s.skip_next, s.escape, s.terminator, s.token, s.delimiter)
  BY DEF Abstract, Fields
<1>7. [Fields(node, q, s.skip_next, s.escape, s.terminator, s.token, s.delimiter) EXCEPT !.skip_next = 0]
      = Fields(node, q, 0, s.escape, s.terminator, s.token, s.delimiter)
  BY DEF Fields
<1> HIDE DEF t
<1>8. Trie!Skipped(t) = Fields(node, q, 0, s.escape, s.terminator, s.token, s.delimiter)
  BY <1>5, <1>6, <1>7
<1>9. Holds(Trie!Skipped(s), s.position, q, 0, s.escape, s.terminator, s.token, s.delimiter, s.initialized)
  BY <1>1, <1>2, PutSkipped, Zenon
<1> QED
  BY <1>8, <1>9, HoldsAbstract DEF q, t

LEMMA EscapesAlike ==
  ASSUME NEW s \in RowState, NEW node
  PROVE  /\ Holds(Trie!Escaping(s), s.position, s.req_position, 1, 1, s.terminator,
                  s.token, s.delimiter, s.initialized)
         /\ Trie!Escaping(Abstract(node, s)) = Abstract(node, Trie!Escaping(s))
<1> DEFINE t == Abstract(node, s)
<1>1. Trie!Escaping(s) = [s EXCEPT !.skip_next = 1, !.escape = 1]
  BY Zenon DEF Trie!Escaping
<1>2. Trie!Escaping(t) = [t EXCEPT !.skip_next = 1, !.escape = 1]
  BY Zenon DEF Trie!Escaping
<1>3. Trie!Escaping(t) = [[t EXCEPT !.skip_next = 1] EXCEPT !.escape = 1]
  <2> HIDE DEF t
  <2> QED
    BY <1>2, ExceptSteps, Zenon
<1>4. [t EXCEPT !.skip_next = 1]
      = Fields(node, s.req_position, 1, s.escape, s.terminator, s.token, s.delimiter)
  BY DEF Abstract, Fields
<1>5. [Fields(node, s.req_position, 1, s.escape, s.terminator, s.token, s.delimiter) EXCEPT !.escape = 1]
      = Fields(node, s.req_position, 1, 1, s.terminator, s.token, s.delimiter)
  BY DEF Fields
<1> HIDE DEF t
<1>6. Trie!Escaping(t) = Fields(node, s.req_position, 1, 1, s.terminator, s.token, s.delimiter)
  BY <1>3, <1>4, <1>5
<1>7. Holds(Trie!Escaping(s), s.position, s.req_position, 1, 1, s.terminator, s.token, s.delimiter,
            s.initialized)
  BY <1>1, PutEscaping, Zenon
<1> QED
  BY <1>6, <1>7, HoldsAbstract DEF t

\* What a state of a table has read, and the state after that.
LEMMA ReadIs ==
  ASSUME NEW s, NEW b
  PROVE  /\ Trie!Read(s, b).ok = TRUE
         /\ Trie!Read(s, b).st = [s EXCEPT !.escape = 0]
         /\ Trie!Read(s, b).c = IF s.escape = 1 THEN Trie!Unescape(b[s.req_position]) ELSE b[s.req_position]
  BY DEF Trie!Read

\* n and m are what a state of a table and the abstract one have read: the same.
Alike(node, n, m) == m.ok = n.ok /\ m.st = Abstract(node, n.st) /\ m.c = n.c

\* An abstract state has read the same as the state of the table.
LEMMA ReadsAlike ==
  ASSUME NEW s \in RowState, NEW node, NEW b
  PROVE  /\ Holds(Trie!Read(s, b).st, s.position, s.req_position, s.skip_next, 0, s.terminator,
                  s.token, s.delimiter, s.initialized)
         /\ Alike(node, Trie!Read(s, b), Trie!Read(Abstract(node, s), b))
<1> DEFINE t == Abstract(node, s)
<1> DEFINE n == Trie!Read(s, b)
<1> DEFINE m == Trie!Read(t, b)
<1>1. t.escape = s.escape /\ t.req_position = s.req_position
  BY AbstractFields
<1>2. [t EXCEPT !.escape = 0]
      = Fields(node, s.req_position, s.skip_next, 0, s.terminator, s.token, s.delimiter)
  BY DEF Abstract, Fields
<1> HIDE DEF t
<1>3. /\ n.ok = TRUE /\ n.st = [s EXCEPT !.escape = 0]
      /\ n.c = IF s.escape = 1 THEN Trie!Unescape(b[s.req_position]) ELSE b[s.req_position]
  BY ReadIs, Zenon
<1>4. /\ m.ok = TRUE /\ m.st = [t EXCEPT !.escape = 0]
      /\ m.c = IF t.escape = 1 THEN Trie!Unescape(b[t.req_position]) ELSE b[t.req_position]
  BY ReadIs, Zenon
<1> HIDE DEF n, m
<1>5. Holds(n.st, s.position, s.req_position, s.skip_next, 0, s.terminator, s.token,
            s.delimiter, s.initialized)
  <2>1. Holds([s EXCEPT !.escape = 0], s.position, s.req_position, s.skip_next, 0, s.terminator, s.token,
              s.delimiter, s.initialized)
    BY PutRead
  <2> QED
    BY <1>3, <2>1, Zenon
<1>6. m.st = Abstract(node, n.st)
  <2>1. m.st = Fields(node, s.req_position, s.skip_next, 0, s.terminator, s.token, s.delimiter)
    BY <1>2, <1>4, Zenon
  <2> QED
    BY <1>5, <2>1, HoldsAbstract
<1>7. m.c = n.c
  BY <1>1, <1>3, <1>4
<1>8. Alike(node, n, m)
  BY <1>3, <1>4, <1>6, <1>7 DEF Alike
<1> QED
  BY <1>5, <1>8 DEF n, m, t

\* noizu_trie__next_char reads the same on both, and a character that has a code.
LEMMA NextCharAlike ==
  ASSUME NEW s \in RowState, NEW node, text \in Texts, received \in 0..Len(text),
         NEW n, n = Trie!NextChar(s, Buffer), NEW m, m = Trie!NextChar(Abstract(node, s), Buffer)
  PROVE  /\ n.ok \in BOOLEAN /\ m.ok = n.ok /\ m.st = Abstract(node, n.st)
         /\ n.st \in RowState /\ n.st.position = s.position /\ n.st.initialized = s.initialized
         /\ n.ok => m.c = n.c /\ n.c \in DOMAIN CharCode /\ n.c \in Chars
<1> DEFINE Same(u) ==
      u \in RowState /\ u.position = s.position /\ u.initialized = s.initialized
<1>0. \A q \in DOMAIN Buffer :
        /\ Buffer[q] \in DOMAIN CharCode /\ Buffer[q] \in Chars
        /\ Trie!Unescape(Buffer[q]) \in DOMAIN CharCode /\ Trie!Unescape(Buffer[q]) \in Chars
  <2>1. text \in Seq(Chars) /\ Range(text) \cup Trie!CodeChars \subseteq DOMAIN CharCode
        /\ Trie!CodeChars \subseteq Chars
    BY Given, CodesAssumption
  <2>2. \A q \in DOMAIN Buffer : q + 1 \in DOMAIN text /\ Buffer[q] = text[q + 1]
    BY <2>1 DEF Buffer
  <2>3. \A q \in DOMAIN Buffer : Buffer[q] \in Range(text) /\ Buffer[q] \in Chars
    BY <2>1, <2>2 DEF Range
  <2>4. \A c : Trie!Unescape(c) \in {c, "\n", "\r", "\t"}
    BY DEF Trie!Unescape
  <2>5. {"\n", "\r", "\t"} \subseteq Trie!CodeChars
    BY DEF Trie!CodeChars
  <2> QED
    BY <2>1, <2>3, <2>4, <2>5
<1>1. ASSUME NEW u \in RowState
      PROVE  /\ Trie!CanRead(Abstract(node, u), Buffer) <=> Trie!CanRead(u, Buffer)
             /\ Trie!IsEscape(Abstract(node, u), Buffer) <=> Trie!IsEscape(u, Buffer)
             /\ Trie!Starved(u).ok = FALSE /\ Trie!Starved(u).st = u
             /\ Trie!Starved(Abstract(node, u)).ok = FALSE
             /\ Trie!Starved(Abstract(node, u)).st = Abstract(node, u)
  <2>1. /\ Abstract(node, u).req_position = u.req_position /\ Abstract(node, u).skip_next = u.skip_next
        /\ Abstract(node, u).escape = u.escape
    BY AbstractFields
  <2>2. \A v : Trie!Starved(v).ok = FALSE /\ Trie!Starved(v).st = v
    BY DEF Trie!Starved
  <2> QED
    BY <2>1, <2>2, Zenon DEF Trie!CanRead, Trie!IsEscape
<1>2. ASSUME NEW u, u \in RowState, Same(u), u.req_position \in DOMAIN Buffer,
             NEW v, v = Trie!Read(u, Buffer), NEW w, w = Trie!Read(Abstract(node, u), Buffer)
      PROVE  /\ v.ok = TRUE /\ w.ok = TRUE /\ w.st = Abstract(node, v.st) /\ Same(v.st)
             /\ w.c = v.c /\ v.c \in DOMAIN CharCode /\ v.c \in Chars
  <2>1. Alike(node, v, w)
    BY <1>2, ReadsAlike
  <2>2. Holds(v.st, u.position, u.req_position, u.skip_next, 0, u.terminator,
              u.token, u.delimiter, u.initialized)
    BY <1>2, ReadsAlike
  <2>3. v.ok = TRUE /\ v.c = IF u.escape = 1 THEN Trie!Unescape(Buffer[u.req_position])
                             ELSE Buffer[u.req_position]
    BY <1>2, ReadIs
  <2>4. v.c \in DOMAIN CharCode /\ v.c \in Chars
    BY <1>0, <1>2, <2>3
  <2>5. Same(v.st)
    BY <1>2, <2>2 DEF Holds
  <2> QED
    BY <2>1, <2>3, <2>4, <2>5 DEF Alike
<1>3. ASSUME NEW u, u \in RowState, Same(u)
      PROVE  /\ Same(Trie!Skipped(u)) /\ Trie!Skipped(Abstract(node, u)) = Abstract(node, Trie!Skipped(u))
             /\ Trie!CanRead(u, Buffer) => Trie!Skipped(u).req_position \in DOMAIN Buffer
             /\ Same(Trie!Escaping(u)) /\ Trie!Escaping(Abstract(node, u)) = Abstract(node, Trie!Escaping(u))
  <2>1. Holds(Trie!Skipped(u), u.position, u.req_position + u.skip_next, 0, u.escape, u.terminator,
              u.token, u.delimiter, u.initialized)
    BY <1>3, SkipsAlike
  <2>2. Holds(Trie!Escaping(u), u.position, u.req_position, 1, 1, u.terminator,
              u.token, u.delimiter, u.initialized)
    BY <1>3, EscapesAlike
  <2>3. Same(Trie!Skipped(u)) /\ Same(Trie!Escaping(u))
        /\ Trie!Skipped(u).req_position = u.req_position + u.skip_next
    BY <1>3, <2>1, <2>2 DEF Holds
  <2> QED
    BY <1>3, <2>3, SkipsAlike, EscapesAlike, Zenon DEF Trie!CanRead
<1> DEFINE k == Trie!Skipped(s)
<1> DEFINE e == Trie!Escaping(k)
<1>4. /\ Same(s) /\ Same(k) /\ Same(e) /\ Same(Trie!Skipped(e))
      /\ Trie!Skipped(Abstract(node, s)) = Abstract(node, k)
      /\ Trie!Escaping(Abstract(node, k)) = Abstract(node, e)
      /\ Trie!Skipped(Abstract(node, e)) = Abstract(node, Trie!Skipped(e))
  <2>1. Same(s) /\ Same(k)
    BY <1>3
  <2>2. k \in RowState /\ Same(e)
    BY <1>3, <2>1
  <2>3. e \in RowState
    BY <2>2
  <2> HIDE DEF k, e
  <2>4. Same(Trie!Skipped(e)) /\ Trie!Skipped(Abstract(node, e)) = Abstract(node, Trie!Skipped(e))
    BY <1>3, <2>2, <2>3
  <2>5. Trie!Escaping(Abstract(node, k)) = Abstract(node, Trie!Escaping(k))
    BY <1>3, <2>1
  <2>6. Trie!Skipped(Abstract(node, s)) = Abstract(node, Trie!Skipped(s))
    BY <1>3, <2>1
  <2> QED
    BY <2>1, <2>2, <2>4, <2>5, <2>6 DEF k, e
<1>5. /\ n = IF ~Trie!CanRead(s, Buffer) THEN Trie!Starved(s)
             ELSE IF ~Trie!IsEscape(k, Buffer) THEN Trie!Read(k, Buffer)
             ELSE IF Trie!CanRead(e, Buffer) THEN Trie!Read(Trie!Skipped(e), Buffer) ELSE Trie!Starved(e)
      /\ m = IF ~Trie!CanRead(Abstract(node, s), Buffer) THEN Trie!Starved(Abstract(node, s))
             ELSE IF ~Trie!IsEscape(Abstract(node, k), Buffer) THEN Trie!Read(Abstract(node, k), Buffer)
             ELSE IF Trie!CanRead(Abstract(node, e), Buffer)
             THEN Trie!Read(Abstract(node, Trie!Skipped(e)), Buffer) ELSE Trie!Starved(Abstract(node, e))
  BY <1>4, Zenon DEF Trie!NextChar
<1> DEFINE f == Trie!Skipped(e)
<1>6. /\ Trie!CanRead(s, Buffer) => k.req_position \in DOMAIN Buffer
      /\ Trie!CanRead(e, Buffer) => f.req_position \in DOMAIN Buffer
  BY <1>3, <1>4
<1> HIDE DEF k, e, f
<1>7. CASE ~Trie!CanRead(s, Buffer)
  <2>1. n = Trie!Starved(s) /\ m = Trie!Starved(Abstract(node, s))
    <3>1. ~Trie!CanRead(Abstract(node, s), Buffer)
      BY <1>1, <1>7
    <3> QED
      BY <1>5, <1>7, <3>1, Zenon
  <2> QED
    BY <1>1, <1>4, <2>1
<1>8. CASE Trie!CanRead(s, Buffer) /\ ~Trie!IsEscape(k, Buffer)
  <2>1. n = Trie!Read(k, Buffer) /\ m = Trie!Read(Abstract(node, k), Buffer)
    BY <1>1, <1>4, <1>5, <1>8
  <2>2. k \in RowState /\ Same(k) /\ k.req_position \in DOMAIN Buffer
    BY <1>4, <1>6, <1>8
  <2>3. n.ok = TRUE /\ m.ok = TRUE /\ m.st = Abstract(node, n.st) /\ Same(n.st)
        /\ m.c = n.c /\ n.c \in DOMAIN CharCode /\ n.c \in Chars
    <3> HIDE DEF Same
    <3> QED
      BY <1>2, <2>1, <2>2
  <2> QED
    BY <2>3
<1>9. CASE Trie!CanRead(s, Buffer) /\ Trie!IsEscape(k, Buffer) /\ Trie!CanRead(e, Buffer)
  <2>1. n = Trie!Read(f, Buffer) /\ m = Trie!Read(Abstract(node, f), Buffer)
    BY <1>1, <1>4, <1>5, <1>9 DEF f
  <2>2. Same(f)
    BY <1>4 DEF f
  <2>3. f \in RowState /\ f.req_position \in DOMAIN Buffer
    BY <1>6, <1>9, <2>2
  <2>4. n.ok = TRUE /\ m.ok = TRUE /\ m.st = Abstract(node, n.st) /\ Same(n.st)
        /\ m.c = n.c /\ n.c \in DOMAIN CharCode /\ n.c \in Chars
    <3> HIDE DEF Same
    <3> QED
      BY <1>2, <2>1, <2>2, <2>3
  <2> QED
    BY <2>4
<1>10. CASE Trie!CanRead(s, Buffer) /\ Trie!IsEscape(k, Buffer) /\ ~Trie!CanRead(e, Buffer)
  <2>1. n = Trie!Starved(e) /\ m = Trie!Starved(Abstract(node, e))
    BY <1>1, <1>4, <1>5, <1>10
  <2> QED
    BY <1>1, <1>4, <2>1
<1> QED
  BY <1>7, <1>8, <1>9, <1>10

\* The walk of a row that leads to one of the trie's.
Stepped(s, c, a) ==
  a.st \in RowState /\ OnRow(a.st) /\ After(Abs(s), c) = [code |-> a.code, st |-> Abs(a.st)]

\* noizu_trie__array__advance, once it has read c, does what the trie does.
LEMMA ArrayStep ==
  ASSUME encoding # "compact", received \in Nat,
         NEW s \in RowState, OnRow(s), NEW c \in DOMAIN CharCode, c \in Chars
  PROVE  Stepped(s, c, ArrayAdvance(s, c))
<1> DEFINE i == IF Trie!HardDelim(s, c) THEN 0 ELSE ArrayChild(c, s.position)
<1> DEFINE f == i # 0
<1> DEFINE next == Child(Abs(s), c)
<1> DEFINE tokens == [j \in 0..(Len(Rows) - 1) |-> Row(j).token]
<1> DEFINE a == Conclude(s, c, [index |-> i, found |-> f], tokens, TrieLength)
<1> DEFINE out == IF f THEN next ELSE Trie!Mismatch(encoding, Abs(s), c)
<1>1. ArrayAdvance(s, c) = a
  BY Zenon DEF ArrayAdvance, Found
<1>2. /\ i = 0 \/ i \in TrieRows
      /\ f <=> next # Trie!NotFound
      /\ f => Row(i).token = Trie!TokenAt(next)
      /\ Row(s.position).token = Trie!TokenAt(At(s)) /\ Row(s.position).token \in Nat
      /\ \A y : NodeOf(i, y) = out
  BY ArrayWalk, Zenon
<1>3. s.position = 0 \/ s.position \in TrieRows
  BY DEF OnRow
<1> HIDE DEF i, next, out
<1>4. /\ i \in 0..(Len(Rows) - 1) /\ s.position \in 0..(Len(Rows) - 1)
      /\ i \in Nat /\ TrieLength \in Nat /\ i < TrieLength
  BY <1>2, <1>3, RootRow, Given
<1>5. /\ tokens[i] = Row(i).token /\ tokens[s.position] = Row(s.position).token
      /\ tokens[i] \in Nat
  BY <1>2, <1>4, RowTokens
<1> HIDE DEF tokens
<1>6. Abs(s) = Abstract(At(s), s)
  BY DEF Abs
<1>7. /\ a.st \in RowState /\ a.st.position = i /\ a.st.initialized = s.initialized
      /\ After(Abs(s), c) = [code |-> a.code, st |-> Abstract(out, a.st)]
  <2> DEFINE b == Conclude(s, c, [index |-> i, found |-> f], tokens, TrieLength)
  <2> DEFINE o == IF f THEN Child(Abstract(At(s), s), c) ELSE Trie!Mismatch(encoding, Abstract(At(s), s), c)
  <2>1. f \in BOOLEAN /\ (f <=> Child(Abstract(At(s), s), c) # Trie!NotFound)
        /\ (f => tokens[i] = Trie!TokenAt(Child(Abstract(At(s), s), c)))
        /\ tokens[s.position] = Trie!TokenAt(At(s)) /\ tokens[s.position] \in Nat
    BY <1>2, <1>5, <1>6 DEF next
  <2> HIDE DEF f
  <2>2. /\ b.st \in RowState /\ b.st.position = i /\ b.st.initialized = s.initialized
        /\ After(Abstract(At(s), s), c) = [code |-> b.code, st |-> Abstract(o, b.st)]
    BY <1>4, <1>5, <2>1, Concluded
  <2>3. out = o
    BY <1>6, Zenon DEF out, next
  <2> QED
    BY <1>6, <2>2, <2>3, Zenon
<1> HIDE DEF a
<1>8. At(a.st) = out
  BY <1>2, <1>7 DEF At
<1>9. OnRow(a.st)
  BY <1>2, <1>7 DEF OnRow
<1> QED
  BY <1>1, <1>7, <1>8, <1>9, Zenon DEF Stepped, Abs

\* So does noizu_trie__struct__advance.
LEMMA StructStep ==
  ASSUME encoding # "compact", received \in Nat,
         NEW s \in RowState, OnRow(s), NEW c \in DOMAIN CharCode, c \in Chars
  PROVE  Stepped(s, c, StructAdvance(s, c))
<1>1. [j \in 0..(Len(Rows) - 1) |-> Struct(j).termination_code] = [j \in 0..(Len(Rows) - 1) |-> Row(j).token]
  <2>1. \A j : Struct(j).termination_code = Row(j).token
    BY DEF Struct
  <2> QED
    BY <2>1
<1>2. StructAdvance(s, c) = ArrayAdvance(s, c)
  BY <1>1, StructFinds, Zenon DEF StructAdvance, ArrayAdvance
<1> QED
  BY <1>2, ArrayStep

\* So does noizu_trie__compact__advance.
LEMMA CompactStep ==
  ASSUME encoding = "compact", received \in Nat,
         NEW s \in RowState, OnRow(s), NEW c \in DOMAIN CharCode, c \in Chars
  PROVE  Stepped(s, c, CompactAdvance(s, c))
<1> DEFINE walks == ~Trie!HardDelim(s, c) /\ ~(s.position = 0 /\ s.initialized) /\ CodeOf(c) # 0
<1> DEFINE walk == IF walks THEN CompactSearch(c, s.position) ELSE [index |-> s.position, found |-> FALSE]
<1> DEFINE y == s.initialized \/ walks
<1> DEFINE r == [s EXCEPT !.initialized = y]
<1> DEFINE next == Child(Abs(s), c)
<1> DEFINE tokens == [j \in 0..(Len(Rows) - 2) |-> Row(j + 1).token]
<1> DEFINE a == Conclude(r, c, walk, tokens, Len(Rows) - 1)
<1>1. CompactAdvance(s, c) = a
  BY Zenon DEF CompactAdvance
<1>2. /\ \E i \in Nat, f \in BOOLEAN :
           /\ walk = [index |-> i, found |-> f] /\ i + 1 \in TrieRows
           /\ f <=> next # Trie!NotFound
           /\ f => Row(i + 1).token = Trie!TokenAt(next)
           /\ NodeOf(i, y) = IF f THEN next ELSE Trie!Mismatch(encoding, Abs(s), c)
      /\ Row(s.position + 1).token = Trie!TokenAt(At(s))
  <2>1. /\ walks = (~Trie!HardDelim(s, c) /\ ~(s.position = 0 /\ s.initialized) /\ CodeOf(c) # 0)
        /\ walk = IF walks THEN CompactSearch(c, s.position) ELSE [index |-> s.position, found |-> FALSE]
        /\ y = (s.initialized \/ walks) /\ next = Child(Abs(s), c)
    OBVIOUS
  <2> HIDE DEF walks, walk, y, next
  <2> QED
    BY <2>1, CompactWalk
<1>3. y \in BOOLEAN
  BY DEF RowState
<1> HIDE DEF walks, walk
<1>4. Holds(r, s.position, s.req_position, s.skip_next, s.escape, s.terminator, s.token, s.delimiter, y)
  BY <1>3, PutInitialized
<1> HIDE DEF r, y, next
<1>5. r \in RowState /\ r.position = s.position /\ r.initialized = y
  BY <1>4 DEF Holds
<1>6. Abstract(At(s), r) = Abs(s)
  <2>1. Abstract(At(s), r) = Fields(At(s), s.req_position, s.skip_next, s.escape, s.terminator, s.token, s.delimiter)
    BY <1>4, HoldsAbstract
  <2> QED
    BY <2>1, Zenon DEF Abs, Abstract
<1>7. PICK i \in Nat, f \in BOOLEAN :
           /\ walk = [index |-> i, found |-> f] /\ i + 1 \in TrieRows
           /\ f <=> next # Trie!NotFound
           /\ f => Row(i + 1).token = Trie!TokenAt(next)
           /\ NodeOf(i, y) = IF f THEN next ELSE Trie!Mismatch(encoding, Abs(s), c)
  BY <1>2
<1>8. s.position + 1 \in TrieRows /\ s.position \in Nat
  BY DEF OnRow, RowState
<1>9. /\ i \in 0..(Len(Rows) - 2) /\ s.position \in 0..(Len(Rows) - 2)
      /\ Len(Rows) - 1 \in Nat /\ i < Len(Rows) - 1
  BY <1>7, <1>8, Given
<1>10. /\ tokens[i] = Row(i + 1).token /\ tokens[s.position] = Row(s.position + 1).token
       /\ tokens[i] \in Nat /\ tokens[s.position] \in Nat
  BY <1>7, <1>8, <1>9, RowTokens
<1> HIDE DEF tokens
<1> DEFINE out == IF f THEN next ELSE Trie!Mismatch(encoding, Abs(s), c)
<1>11. /\ a.st \in RowState /\ a.st.position = i /\ a.st.initialized = y
       /\ After(Abs(s), c) = [code |-> a.code, st |-> Abstract(out, a.st)]
  <2> DEFINE b == Conclude(r, c, [index |-> i, found |-> f], tokens, Len(Rows) - 1)
  <2> DEFINE o == IF f THEN Child(Abstract(At(s), r), c) ELSE Trie!Mismatch(encoding, Abstract(At(s), r), c)
  <2>1. /\ f <=> Child(Abstract(At(s), r), c) # Trie!NotFound
        /\ f => tokens[i] = Trie!TokenAt(Child(Abstract(At(s), r), c))
        /\ tokens[r.position] = Trie!TokenAt(At(s)) /\ tokens[r.position] \in Nat
    BY <1>2, <1>5, <1>6, <1>7, <1>10 DEF next
  <2>2. /\ b.st \in RowState /\ b.st.position = i /\ b.st.initialized = r.initialized
        /\ After(Abstract(At(s), r), c) = [code |-> b.code, st |-> Abstract(o, b.st)]
    BY <1>5, <1>9, <1>10, <2>1, Concluded
  <2>3. out = o
    BY <1>6, Zenon DEF out, next
  <2>4. a = b
    BY <1>7
  <2> QED
    BY <1>5, <1>6, <2>2, <2>3, <2>4, Zenon
<1> HIDE DEF a
<1>12. At(a.st) = out
  BY <1>7, <1>11 DEF At
<1> HIDE DEF out
<1>13. OnRow(a.st)
  BY <1>7, <1>11 DEF OnRow
<1> QED
  BY <1>1, <1>11, <1>12, <1>13, Zenon DEF Stepped, Abs

\* What NoizuTrie's advance does, before and after it has read a character.
LEMMA AdvanceIs ==
  ASSUME NEW t, NEW n, n = Trie!NextChar(t, Buffer), n.ok \in BOOLEAN
  PROVE  Trie!Advance(encoding, t, Buffer)
         = IF n.ok THEN After(n.st, n.c) ELSE [code |-> "BUFFER_END_ON_SKIP", st |-> n.st]
<1>1. CASE ~n.ok
  BY <1>1 DEF Trie!Advance
<1>2. CASE n.ok
  BY <1>2 DEF Trie!Advance, After, Child
<1> QED
  BY <1>1, <1>2

\* One call of the advance function of a table does what the trie does.
LEMMA TableStep ==
  ASSUME NEW s \in RowState, OnRow(s), encoding \in Trie!Encodings,
         text \in Texts, received \in 0..Len(text),
         NEW a, a = TableAdvance(s)
  PROVE  /\ a.st \in RowState /\ OnRow(a.st)
         /\ Trie!Advance(encoding, Abs(s), Buffer) = [code |-> a.code, st |-> Abs(a.st)]
<1> DEFINE node == At(s)
<1> DEFINE n == Trie!NextChar(s, Buffer)
<1> DEFINE m == Trie!NextChar(Abstract(node, s), Buffer)
<1>1. /\ n.ok \in BOOLEAN /\ m.ok = n.ok /\ m.st = Abstract(node, n.st)
      /\ n.st \in RowState /\ n.st.position = s.position /\ n.st.initialized = s.initialized
      /\ n.ok => m.c = n.c /\ n.c \in DOMAIN CharCode /\ n.c \in Chars
  BY NextCharAlike
<1>2. OnRow(n.st) /\ At(n.st) = At(s)
  BY <1>1 DEF OnRow, At
<1>3. m.st = Abs(n.st)
  BY <1>1, <1>2 DEF Abs
<1>4. Trie!Advance(encoding, Abs(s), Buffer)
      = IF m.ok THEN After(m.st, m.c) ELSE [code |-> "BUFFER_END_ON_SKIP", st |-> m.st]
  BY <1>1, AdvanceIs, Zenon DEF Abs
<1>5. received \in Nat
  BY Given
<1> HIDE DEF m
<1>6. CASE ~n.ok
  <2>1. a = [code |-> "BUFFER_END_ON_SKIP", st |-> n.st]
    BY <1>6 DEF TableAdvance
  <2> HIDE DEF n
  <2> QED
    BY <1>1, <1>2, <1>3, <1>4, <1>6, <2>1
<1>7. CASE n.ok
  <2>1. /\ encoding = "array" => a = ArrayAdvance(n.st, n.c)
        /\ encoding = "struct" => a = StructAdvance(n.st, n.c)
        /\ encoding = "compact" => a = CompactAdvance(n.st, n.c)
    BY <1>7 DEF TableAdvance
  <2> HIDE DEF n
  <2>2. Stepped(n.st, n.c, a)
    <3>1. CASE encoding = "array"
      BY <1>1, <1>2, <1>5, <1>7, <2>1, <3>1, ArrayStep
    <3>2. CASE encoding = "struct"
      BY <1>1, <1>2, <1>5, <1>7, <2>1, <3>2, StructStep
    <3>3. CASE encoding = "compact"
      BY <1>1, <1>2, <1>5, <1>7, <2>1, <3>3, CompactStep
    <3> QED
      BY <3>1, <3>2, <3>3 DEF Trie!Encodings
  <2> QED
    BY <1>1, <1>3, <1>4, <1>7, <2>2 DEF Stepped
<1> QED
  BY <1>1, <1>6, <1>7

--------------------------------------------------------------------------------
(* The steps of the specification.                                            *)

\* What the trie of Tokenizer calls by a name is what the trie here calls by it.
LEMMA SameTrie ==
  /\ Tokens!Trie!Encodings = Trie!Encodings
  /\ \A d, p : Tokens!Trie!TrieReset(d, p) = Trie!TrieReset(d, p)
  /\ \A t : Tokens!Trie!Advance(encoding, t, Tokens!Buffer) = Trie!Advance(encoding, t, Buffer)
<1>1. /\ Tokens!Trie!Encodings = Trie!Encodings /\ Tokens!Trie!Nul = Trie!Nul
      /\ Tokens!Trie!NotFound = Trie!NotFound /\ Tokens!Trie!CharMap = Trie!CharMap
      /\ Tokens!Trie!KeyPrefixes = Trie!KeyPrefixes /\ Tokens!Buffer = Buffer
  BY Zenon DEF Tokens!Trie!Encodings, Trie!Encodings, Tokens!Trie!Nul, Trie!Nul, Tokens!Trie!NotFound,
        Trie!NotFound, Tokens!Trie!CharMap, Trie!CharMap, Tokens!Trie!KeyPrefixes, Trie!KeyPrefixes,
        Tokens!Buffer, Buffer
<1>2. \A n : /\ Tokens!Trie!TokenAt(n) = Trie!TokenAt(n)
             /\ Tokens!Trie!Labels(n) = Trie!Labels(n)
  BY <1>1, Zenon DEF Tokens!Trie!TokenAt, Trie!TokenAt, Tokens!Trie!Labels, Trie!Labels
<1>3. \A n : Tokens!Trie!LastLabels(n) = Trie!LastLabels(n)
  BY <1>2, Zenon DEF Tokens!Trie!LastLabels, Trie!LastLabels
<1>4. \A c : Tokens!Trie!Unescape(c) = Trie!Unescape(c)
  BY DEF Tokens!Trie!Unescape, Trie!Unescape
<1>5. \A t : /\ Tokens!Trie!CanRead(t, Buffer) = Trie!CanRead(t, Buffer)
             /\ Tokens!Trie!Skipped(t) = Trie!Skipped(t)
             /\ Tokens!Trie!IsEscape(t, Buffer) = Trie!IsEscape(t, Buffer)
             /\ Tokens!Trie!Escaping(t) = Trie!Escaping(t)
             /\ Tokens!Trie!Starved(t) = Trie!Starved(t)
  BY <1>1, Zenon DEF Tokens!Trie!CanRead, Trie!CanRead, Tokens!Trie!Skipped, Trie!Skipped,
        Tokens!Trie!IsEscape, Trie!IsEscape, Tokens!Trie!Escaping, Trie!Escaping,
        Tokens!Trie!Starved, Trie!Starved
<1>6. \A t : Tokens!Trie!Read(t, Buffer) = Trie!Read(t, Buffer)
  BY <1>4, Zenon DEF Tokens!Trie!Read, Trie!Read
<1>7. \A t : Tokens!Trie!NextChar(t, Buffer) = Trie!NextChar(t, Buffer)
  BY <1>5, <1>6 DEF Tokens!Trie!NextChar, Trie!NextChar
<1>8. \A t, c : /\ Tokens!Trie!HardDelim(t, c) = Trie!HardDelim(t, c)
                /\ Tokens!Trie!ChildOf(t.position, c) = Trie!ChildOf(t.position, c)
  BY <1>1, Zenon DEF Tokens!Trie!HardDelim, Trie!HardDelim, Tokens!Trie!ChildOf, Trie!ChildOf
<1>9. \A t, c : Tokens!Trie!Mismatch(encoding, t, c) = Trie!Mismatch(encoding, t, c)
  BY <1>1, <1>2, <1>3, <1>8 DEF Tokens!Trie!Mismatch, Trie!Mismatch
<1>10. \A t, c : Tokens!Trie!Leave(encoding, t, c) = Trie!Leave(encoding, t, c)
  BY <1>2, <1>9, Zenon DEF Tokens!Trie!Leave, Trie!Leave
<1>11. \A t, n : /\ Tokens!Trie!Enter(t, n) = Trie!Enter(t, n)
                 /\ Tokens!Trie!AtBufferEnd(t) = Trie!AtBufferEnd(t)
  BY <1>2, Zenon DEF Tokens!Trie!Enter, Trie!Enter, Tokens!Trie!AtBufferEnd, Trie!AtBufferEnd
<1>12. \A t : Tokens!Trie!Advance(encoding, t, Buffer) = Trie!Advance(encoding, t, Buffer)
  BY <1>1, <1>7, <1>8, <1>10, <1>11 DEF Tokens!Trie!Advance, Trie!Advance
<1>13. \A d, p : Tokens!Trie!TrieReset(d, p) = Trie!TrieReset(d, p)
  BY <1>1, Zenon DEF Tokens!Trie!TrieReset, Trie!TrieReset
<1> QED
  BY <1>1, <1>12, <1>13

\* AbstractState is Abs of the state, before a step and behind it.
LEMMA AbstractStates ==
  /\ AbstractState = Abs(state)
  /\ encoding' = encoding => AbstractState' = Abs(state') /\ (OnRow(state)' <=> OnRow(state'))
<1>1. AbstractState = Abs(state)
  BY DEF AbstractState, Node, Abs, At, NodeOf, Abstract, Fields
<1>2. ASSUME encoding' = encoding
      PROVE  AbstractState' = Abs(state') /\ (OnRow(state)' <=> OnRow(state'))
  BY <1>2 DEF AbstractState, Node, Abs, At, NodeOf, Abstract, Fields, OnRow
<1> QED
  BY <1>1, <1>2

\* A state reset is at the root.
LEMMA ResetRow ==
  ASSUME NEW d \in Delimiters, NEW q \in Nat
  PROVE  /\ TableReset(d, q) \in RowState /\ OnRow(TableReset(d, q))
         /\ Abs(TableReset(d, q)) = Trie!TrieReset(d, q)
<1> DEFINE r == TableReset(d, q)
<1>1. /\ r.position = (IF encoding = "compact" THEN 0 ELSE 1) /\ r.initialized = FALSE
      /\ r.req_position = q /\ r.skip_next = 0 /\ r.escape = 0 /\ r.terminator = Trie!Nul
      /\ r.token = 0 /\ r.delimiter = d
  BY DEF TableReset
<1>2. Trie!Nul \in Chars /\ d \in Chars
  BY Given DEF Trie!CodeChars
<1>3. r \in RowState
  BY <1>2 DEF TableReset, RowState
<1>4. At(r) = <<>> /\ OnRow(r)
  BY <1>1, RootRow DEF At, NodeOf, OnRow
<1>5. Abs(r) = Trie!TrieReset(d, q)
  <2> HIDE DEF r
  <2> QED
    BY <1>1, <1>4, Zenon DEF Abs, Abstract, Fields, Trie!TrieReset
<1> QED
  BY <1>3, <1>4, <1>5

\* What holds of the state of a table in every state: it is at a row of the table.
TabInv ==
  /\ encoding \in Trie!Encodings /\ text \in Texts /\ received \in 2..Len(text)
  /\ state \in RowState /\ OnRow(state)

\* It holds at the start, which is a start of the abstract tokenizer.
LEMMA TabInvInit ==
  ASSUME Init
  PROVE  TabInv /\ Tokens!Init
<1>1. PICK d \in Delimiters : state = TableReset(d, 1)
  BY DEF Init
<1>2. state \in RowState /\ OnRow(state) /\ Abs(state) = Trie!TrieReset(d, 1)
  BY <1>1, ResetRow
<1>3. AbstractState = Tokens!Trie!TrieReset(d, 1)
  BY <1>2, AbstractStates, SameTrie
<1>4. \E delimiter \in Delimiters : AbstractState = Tokens!Trie!TrieReset(delimiter, 1)
  BY <1>3
<1>5. Tokens!Init
  BY <1>4, SameTrie DEF Init, Tokens!Init
<1> QED
  BY <1>2, <1>5 DEF Init, TabInv

\* A round of the loop is a round of the loop on the trie.
LEMMA StepRefines ==
  ASSUME TabInv, Step
  PROVE  TabInv' /\ Tokens!Step
<1> DEFINE a == TableAdvance(state)
<1>1. /\ code # "EXIT" /\ state' = a.st /\ code' = a.code
      /\ UNCHANGED <<encoding, options, text, received, from, resumed>>
  BY Zenon DEF Step
<1>2. state \in RowState /\ OnRow(state) /\ encoding \in Trie!Encodings /\ text \in Texts
      /\ received \in 2..Len(text) /\ received \in 0..Len(text)
  BY Given DEF TabInv
<1>3. /\ a.st \in RowState /\ OnRow(a.st)
      /\ Trie!Advance(encoding, Abs(state), Buffer) = [code |-> a.code, st |-> Abs(a.st)]
  BY <1>2, TableStep
<1> HIDE DEF a
<1>4. TabInv'
  BY <1>1, <1>2, <1>3, AbstractStates DEF TabInv, Trie!Encodings
<1> DEFINE b == Tokens!Trie!Advance(encoding, AbstractState, Tokens!Buffer)
<1>5. b.st = AbstractState' /\ b.code = code'
  <2>1. b = [code |-> a.code, st |-> Abs(a.st)]
    BY <1>3, AbstractStates, SameTrie, Zenon
  <2>2. AbstractState' = Abs(a.st)
    BY <1>1, AbstractStates
  <2> HIDE DEF b
  <2> QED
    BY <1>1, <2>1, <2>2
<1> QED
  BY <1>1, <1>4, <1>5, Zenon DEF Tokens!Step

\* So are the arrival of more of the text,
LEMMA ReceiveRefines ==
  ASSUME TabInv, Receive
  PROVE  TabInv' /\ Tokens!Receive
<1>1. /\ code # "CONTINUE" /\ \E n \in (received + 1)..Len(text) : received' = n
      /\ UNCHANGED <<encoding, options, text, from, resumed, state, code>>
  BY Zenon DEF Receive
<1>2. received \in 2..Len(text) /\ Len(text) \in Nat
  BY Given DEF TabInv
<1>3. received' \in 2..Len(text)
  BY <1>1, <1>2
<1>4. AbstractState' = AbstractState
  BY <1>1, AbstractStates
<1>5. TabInv'
  BY <1>1, <1>3, AbstractStates DEF TabInv, Trie!Encodings
<1> QED
  BY <1>1, <1>4, <1>5, Zenon DEF Tokens!Receive

\* going on behind a mismatch,
LEMMA ResumeRefines ==
  ASSUME TabInv, Resume
  PROVE  TabInv' /\ Tokens!Resume
<1> DEFINE q == received - 1
<1>1. /\ code = "EXIT" /\ resumed' = TRUE
      /\ state' = [state EXCEPT !.req_position = q] /\ code' = "CONTINUE"
      /\ UNCHANGED <<encoding, options, text, received, from>>
  BY Zenon DEF Resume
<1>2. q \in Nat /\ state \in RowState /\ OnRow(state)
  BY Given DEF TabInv
<1> HIDE DEF q
<1>3. Holds(state', state.position, q, state.skip_next, state.escape, state.terminator, state.token,
            state.delimiter, state.initialized)
  BY <1>1, <1>2, PutPosition, Zenon
<1>4. state' \in RowState /\ OnRow(state') /\ At(state') = At(state)
  BY <1>2, <1>3 DEF Holds, OnRow, At
<1>5. TabInv'
  BY <1>1, <1>4, AbstractStates DEF TabInv, Trie!Encodings
<1>6. AbstractState' = [AbstractState EXCEPT !.req_position = q]
  <2>1. Abs(state') = Fields(At(state), q, state.skip_next, state.escape, state.terminator, state.token,
                             state.delimiter)
    BY <1>3, <1>4, HoldsAbstract DEF Abs
  <2>2. [Abs(state) EXCEPT !.req_position = q]
        = Fields(At(state), q, state.skip_next, state.escape, state.terminator, state.token,
                 state.delimiter)
    BY DEF Abs, Abstract, Fields
  <2> QED
    BY <1>1, <2>1, <2>2, AbstractStates
<1> QED
  BY <1>1, <1>5, <1>6, Zenon DEF Tokens!Resume, q

\* and a reset for the next key or value.
LEMMA ResetRefines ==
  ASSUME TabInv, Reset
  PROVE  TabInv' /\ Tokens!Reset

<1> DEFINE q == state.req_position + 1
<1>1. /\ code = "EXIT" /\ q < received /\ from' = q /\ resumed' = FALSE
      /\ \E d \in Delimiters : state' = TableReset(d, q)
      /\ code' = "CONTINUE" /\ UNCHANGED <<encoding, options, text, received>>
  BY DEF Reset
<1>2. PICK d \in Delimiters : state' = TableReset(d, q)
  BY <1>1
<1>3. state \in RowState /\ q \in Nat
  BY DEF TabInv, RowState
<1>4. AbstractState.req_position + 1 = q
  BY AbstractStates, AbstractFields DEF Abs
<1> HIDE DEF q
<1>5. state' \in RowState /\ OnRow(state') /\ Abs(state') = Trie!TrieReset(d, q)
  BY <1>2, <1>3, ResetRow
<1>6. TabInv'
  BY <1>1, <1>5, AbstractStates DEF TabInv, Trie!Encodings
<1>7. AbstractState' = Tokens!Trie!TrieReset(d, q)
  BY <1>1, <1>5, AbstractStates, SameTrie
<1>8. \E delimiter \in Delimiters : AbstractState' = Tokens!Trie!TrieReset(delimiter, from')
  BY <1>1, <1>7
<1> QED
  BY <1>1, <1>4, <1>6, <1>8, Zenon DEF Tokens!Reset

--------------------------------------------------------------------------------
(* The theorems.                                                              *)

\* Every step keeps the invariant and is a step of the abstract tokenizer, or none.
LEMMA EveryStepRefines ==
  ASSUME TabInv, [Next]_vars
  PROVE  TabInv' /\ [Tokens!Next]_(Tokens!vars)
<1>1. CASE Step
  BY <1>1, StepRefines, Zenon DEF Tokens!Next
<1>2. CASE Receive
  BY <1>2, ReceiveRefines, Zenon DEF Tokens!Next
<1>3. CASE Resume
  BY <1>3, ResumeRefines, Zenon DEF Tokens!Next
<1>4. CASE Reset
  BY <1>4, ResetRefines, Zenon DEF Tokens!Next
<1>5. CASE UNCHANGED vars
  <2>1. AbstractState' = AbstractState /\ state' = state /\ encoding' = encoding
        /\ (OnRow(state)' <=> OnRow(state))
    BY <1>5, AbstractStates DEF vars
  <2>2. TabInv'
    BY <1>5, <2>1 DEF TabInv, vars, Trie!Encodings
  <2> QED
    BY <1>5, <2>1, <2>2 DEF vars, Tokens!vars
<1> QED
  BY <1>1, <1>2, <1>3, <1>4, <1>5, Zenon DEF Next

\* In every state the position is a row of the table.
THEOREM TablesInvariance == Spec => []TabInv
<1>1. Init => TabInv
  BY TabInvInit
<1>2. TabInv /\ [Next]_vars => TabInv'
  BY EveryStepRefines
<1> QED
  BY <1>1, <1>2, PTL DEF Spec

\* README.md, "Supports different trie implementations": on whichever table, tokenize does
\* what it does on the trie of the keys, for all keys, all options and all texts.
THEOREM TablesRefinement == Spec => TablesImplementTrie
<1>1. Init => Tokens!Init
  BY TabInvInit
<1>2. TabInv /\ [Next]_vars => [Tokens!Next]_(Tokens!vars)
  BY EveryStepRefines
<1> QED
  BY <1>1, <1>2, TablesInvariance, PTL DEF Spec, TablesImplementTrie, Tokens!Spec

\* The instance of the module of proofs says what that of the module itself says.
LEMMA SameTokens ==
  /\ Proved!Typed <=> Tokens!Typed
  /\ Proved!Init <=> Tokens!Init
  /\ [Proved!Next]_(Proved!vars) <=> [Tokens!Next]_(Tokens!vars)
  /\ Proved!LongestMatch <=> Tokens!LongestMatch
  /\ Proved!Decoded = Tokens!Decoded /\ Proved!Matched = Tokens!Matched
  /\ \A n : Proved!Spelled(n) = Tokens!Spelled(n) /\ Proved!Trie!TokenAt(n) = Tokens!Trie!TokenAt(n)
<1>1. /\ Proved!Trie!Encodings = Tokens!Trie!Encodings /\ Proved!Trie!Nul = Tokens!Trie!Nul
      /\ Proved!Trie!NotFound = Tokens!Trie!NotFound /\ Proved!Trie!CharMap = Tokens!Trie!CharMap
      /\ Proved!Trie!KeyPrefixes = Tokens!Trie!KeyPrefixes /\ Proved!Buffer = Tokens!Buffer
      /\ Proved!Trie!OptionFields = Tokens!Trie!OptionFields
      /\ Proved!vars = Tokens!vars
  BY Zenon DEF Proved!Trie!Encodings, Tokens!Trie!Encodings, Proved!Trie!Nul, Tokens!Trie!Nul,
        Proved!Trie!NotFound, Tokens!Trie!NotFound, Proved!Trie!CharMap, Tokens!Trie!CharMap,
        Proved!Trie!KeyPrefixes, Tokens!Trie!KeyPrefixes, Proved!Buffer, Tokens!Buffer,
        Proved!Trie!OptionFields, Tokens!Trie!OptionFields, Proved!vars, Tokens!vars
<1>2. Proved!Trie!CodeChars = Tokens!Trie!CodeChars
  BY <1>1, Zenon DEF Proved!Trie!CodeChars, Tokens!Trie!CodeChars
<1>3. Proved!Typed <=> Tokens!Typed
  BY <1>1, <1>2, Zenon DEF Proved!Typed, Tokens!Typed
<1>4. \A n : /\ Proved!Trie!TokenAt(n) = Tokens!Trie!TokenAt(n)
             /\ Proved!Trie!Labels(n) = Tokens!Trie!Labels(n)
  BY <1>1, Zenon DEF Proved!Trie!TokenAt, Tokens!Trie!TokenAt, Proved!Trie!Labels, Tokens!Trie!Labels
<1>5. \A n : Proved!Trie!LastLabels(n) = Tokens!Trie!LastLabels(n)
  BY <1>4, Zenon DEF Proved!Trie!LastLabels, Tokens!Trie!LastLabels
<1>6. \A c : Proved!Trie!Unescape(c) = Tokens!Trie!Unescape(c)
  BY DEF Proved!Trie!Unescape, Tokens!Trie!Unescape
<1>7. \A t, b : /\ Proved!Trie!CanRead(t, b) = Tokens!Trie!CanRead(t, b)
                /\ Proved!Trie!Skipped(t) = Tokens!Trie!Skipped(t)
                /\ Proved!Trie!IsEscape(t, b) = Tokens!Trie!IsEscape(t, b)
                /\ Proved!Trie!Escaping(t) = Tokens!Trie!Escaping(t)
                /\ Proved!Trie!Starved(t) = Tokens!Trie!Starved(t)
  BY <1>1, Zenon DEF Proved!Trie!CanRead, Tokens!Trie!CanRead, Proved!Trie!Skipped, Tokens!Trie!Skipped,
        Proved!Trie!IsEscape, Tokens!Trie!IsEscape, Proved!Trie!Escaping, Tokens!Trie!Escaping,
        Proved!Trie!Starved, Tokens!Trie!Starved
<1>8. \A t, b : Proved!Trie!Read(t, b) = Tokens!Trie!Read(t, b)
  BY <1>6, Zenon DEF Proved!Trie!Read, Tokens!Trie!Read
<1>9. \A t, b : Proved!Trie!NextChar(t, b) = Tokens!Trie!NextChar(t, b)
  BY <1>7, <1>8 DEF Proved!Trie!NextChar, Tokens!Trie!NextChar
<1>10. \A t, c : /\ Proved!Trie!HardDelim(t, c) = Tokens!Trie!HardDelim(t, c)
                 /\ Proved!Trie!ChildOf(t.position, c) = Tokens!Trie!ChildOf(t.position, c)
  BY <1>1, Zenon DEF Proved!Trie!HardDelim, Tokens!Trie!HardDelim, Proved!Trie!ChildOf, Tokens!Trie!ChildOf
<1>11. \A t, c : Proved!Trie!Mismatch(encoding, t, c) = Tokens!Trie!Mismatch(encoding, t, c)
  BY <1>1, <1>4, <1>5, <1>10 DEF Proved!Trie!Mismatch, Tokens!Trie!Mismatch
<1>12. \A t, c : Proved!Trie!Leave(encoding, t, c) = Tokens!Trie!Leave(encoding, t, c)
  BY <1>4, <1>11, Zenon DEF Proved!Trie!Leave, Tokens!Trie!Leave
<1>13. \A t, n : /\ Proved!Trie!Enter(t, n) = Tokens!Trie!Enter(t, n)
                 /\ Proved!Trie!AtBufferEnd(t) = Tokens!Trie!AtBufferEnd(t)
  BY <1>4, Zenon DEF Proved!Trie!Enter, Tokens!Trie!Enter, Proved!Trie!AtBufferEnd, Tokens!Trie!AtBufferEnd
<1>14. \A t, b : Proved!Trie!Advance(encoding, t, b) = Tokens!Trie!Advance(encoding, t, b)
  BY <1>1, <1>9, <1>10, <1>12, <1>13 DEF Proved!Trie!Advance, Tokens!Trie!Advance
<1>15. \A d, p : Proved!Trie!TrieReset(d, p) = Tokens!Trie!TrieReset(d, p)
  BY <1>1, Zenon DEF Proved!Trie!TrieReset, Tokens!Trie!TrieReset
<1>16. Proved!Init <=> Tokens!Init
  BY <1>1, <1>15, Zenon DEF Proved!Init, Tokens!Init
<1>17. /\ Proved!Step <=> Tokens!Step
       /\ Proved!Receive <=> Tokens!Receive
       /\ Proved!Resume <=> Tokens!Resume
       /\ Proved!Reset <=> Tokens!Reset
  BY <1>1, <1>14, <1>15, Zenon DEF Proved!Step, Tokens!Step, Proved!Receive, Tokens!Receive,
        Proved!Resume, Tokens!Resume, Proved!Reset, Tokens!Reset
<1>18. [Proved!Next]_(Proved!vars) <=> [Tokens!Next]_(Tokens!vars)
  BY <1>1, <1>17, Zenon DEF Proved!Next, Tokens!Next, Proved!vars, Tokens!vars
<1>19. Proved!Said = Tokens!Said
  BY <1>6, Zenon DEF Proved!Said, Tokens!Said
<1>20. Proved!Decoded = Tokens!Decoded
  BY <1>19, Zenon DEF Proved!Decoded, Tokens!Decoded
<1>21. \A n : Proved!Spelled(n) = Tokens!Spelled(n)
  BY <1>20, Zenon DEF Proved!Spelled, Tokens!Spelled
<1>22. Proved!Matched = Tokens!Matched
  BY <1>1, <1>20, <1>21, Zenon DEF Proved!Matched, Tokens!Matched
<1>23. Proved!LongestMatch <=> Tokens!LongestMatch
  BY <1>4, <1>20, <1>21, <1>22, Zenon DEF Proved!LongestMatch, Tokens!LongestMatch,
        Proved!NoInterim, Tokens!NoInterim
<1> QED
  BY <1>3, <1>4, <1>16, <1>18, <1>20, <1>21, <1>22, <1>23, Zenon

\* Whichever table encodes the keys, and in whichever pieces a text arrives, the match ends
\* at the first character no key goes on with, and the token is that of the key read.
THEOREM MatchCorrect == Spec => []LongestMatch
<1>1. Proved!Typed
  BY TokensAssumption, SameTokens
<1>2. Proved!Spec => []Proved!LongestMatch
  BY <1>1, Proved!MatchesLongest
<1>3. Proved!Init <=> Tokens!Init
  BY SameTokens
<1>4. [Proved!Next]_(Proved!vars) <=> [Tokens!Next]_(Tokens!vars)
  BY SameTokens
<1>5. Proved!LongestMatch <=> Tokens!LongestMatch
  BY SameTokens
<1> QED
  BY <1>2, <1>3, <1>4, <1>5, TablesRefinement, PTL
     DEF TablesImplementTrie, LongestMatch, Proved!Spec, Tokens!Spec

\* Escaped is what its definition says: each character is, or not, by what is in front of it.
LEMMA EscapedIs ==
  ASSUME text \in Seq(Chars)
  PROVE  Escaped = [i \in 1..Len(text) |-> i > 1 /\ text[i - 1] = "\\" /\ ~Escaped[i - 1]]
<1> DEFINE N == Len(text)
<1> DEFINE F(g, i) == i > 1 /\ text[i - 1] = "\\" /\ ~g[i - 1]
<1> DEFINE Some(n) == \E g : g = [i \in 1..n |-> F(g, i)]
<1> DEFINE Q == {n \in 0..N : Some(N - n)}
<1>0. N \in Nat
  OBVIOUS
<1> HIDE DEF N
<1>1. N \in Q
  <2> DEFINE g == [i \in 1..0 |-> TRUE]
  <2>1. \A i \in 1..0 : FALSE
    OBVIOUS
  <2>2. g = [i \in 1..0 |-> F(g, i)]
    <3> HIDE DEF F
    <3> QED
      BY <2>1
  <2> HIDE DEF F, g
  <2>3. Some(0)
    BY <2>2
  <2>4. N - N = 0 /\ N \in 0..N
    BY <1>0
  <2> HIDE DEF Some
  <2> QED
    BY <2>3, <2>4
<1>2. ASSUME NEW n \in 0..(N - 1), n + 1 \in Q PROVE n \in Q
  <2> DEFINE m == N - n
  <2>0. m \in Nat /\ m > 0 /\ m <= N /\ n \in 0..N /\ N - (n + 1) = m - 1 /\ m - 1 \in Nat
    BY <1>0
  <2>1. PICK g : g = [i \in 1..(m - 1) |-> F(g, i)]
    BY <1>2, <2>0
  <2> DEFINE h == [i \in 1..m |-> IF i = m THEN F(g, m) ELSE g[i]]
  <2> HIDE DEF m
  <2>2. ASSUME NEW i \in 1..m PROVE h[i] = F(h, i)
    <3>1. i > 1 => i - 1 \in 1..m /\ i - 1 # m /\ i - 1 \in 1..(m - 1)
      BY <2>0
    <3>2. i > 1 => h[i - 1] = g[i - 1]
      BY <3>1
    <3> HIDE DEF h
    <3>3. F(h, i) = F(g, i)
      BY <3>2, Zenon
    <3>4. i # m => i \in 1..(m - 1)
      BY <2>0
    <3> HIDE DEF F
    <3>5. i # m => g[i] = F(g, i)
      BY <2>1, <3>4, Zenon
    <3>6. h[i] = IF i = m THEN F(g, m) ELSE g[i]
      BY Zenon DEF h
    <3>7. h[i] = F(g, i)
      <4>1. CASE i = m
        BY <3>6, <4>1, Zenon
      <4>2. CASE i # m
        BY <3>5, <3>6, <4>2, Zenon
      <4> QED
        BY <4>1, <4>2, Zenon
    <3> QED
      BY <3>3, <3>7, Zenon
  <2>3. h = [i \in 1..m |-> h[i]]
    BY Zenon
  <2> HIDE DEF F, h
  <2>4. h = [i \in 1..m |-> F(h, i)]
    BY <2>2, <2>3, Zenon
  <2>5. Some(m)
    BY <2>4, Zenon
  <2> HIDE DEF Some
  <2> QED
    BY <2>0, <2>5 DEF m
<1>3. 0 \in Q
  <2> HIDE DEF Q
  <2>1. Q \in SUBSET (0..N)
    BY DEF Q
  <2>2. Q = 0..N
    BY <1>0, <1>1, <1>2, <2>1, Proved!Backwards
  <2> QED
    BY <2>2, <1>0
<1>4. \E g : g = [i \in 1..N |-> F(g, i)]
  <2> HIDE DEF F, Some
  <2>1. Some(N - 0) /\ N - 0 = N
    BY <1>0, <1>3
  <2>2. Some(N)
    BY <2>1
  <2> QED
    BY <2>2, Zenon DEF Some
<1>5. Escaped = CHOOSE g : g = [i \in 1..N |-> F(g, i)]
  BY Zenon DEF Escaped, N
<1> HIDE DEF F
<1>6. Escaped = [i \in 1..N |-> F(Escaped, i)]
  BY <1>4, <1>5, Zenon
<1> QED
  BY <1>6, Zenon DEF F, N

\* The closing quote is one, and no backslash escapes it.
LEMMA ClosingIs ==
  ASSUME text \in Seq(Chars), Closing # 0
  PROVE  Closing \in Nat /\ Closing + 1 \in 2..Len(text) /\ text[Closing + 1] = Quote /\ ~Escaped[Closing + 1]
<1> DEFINE quotes == {i \in 2..Len(text) : text[i] = Quote /\ ~Escaped[i]}
<1> DEFINE Least(i) == \A j \in quotes : i <= j
<1>0. Len(text) \in Nat
  OBVIOUS
<1>1. Closing = IF quotes = {} THEN 0 ELSE (CHOOSE i \in quotes : Least(i)) - 1
  BY Zenon DEF Closing
<1>2. quotes \in SUBSET Nat
  BY <1>0
<1>3. \A i \in quotes : i \in 2..Len(text) /\ text[i] = Quote /\ ~Escaped[i]
  BY Zenon
<1> HIDE DEF quotes
<1>4. PICK i \in quotes : TRUE
  BY <1>1
<1>5. \E j \in quotes : Least(j)
  BY <1>2, <1>4, Proved!Least
<1> HIDE DEF Least
<1> DEFINE c == CHOOSE j \in quotes : Least(j)
<1>6. c \in quotes
  BY <1>5
<1> HIDE DEF c
<1>7. Closing = c - 1
  BY <1>1, <1>4 DEF c
<1>8. c \in 2..Len(text) /\ text[c] = Quote /\ ~Escaped[c]
  BY <1>3, <1>6, Zenon
<1>9. (c - 1) + 1 = c /\ c - 1 \in Nat
  BY <1>8
<1> QED
  BY <1>7, <1>8, <1>9

\* A token the field can hold is stored as it is.
LEMMA Held ==
  ASSUME NEW token \in Nat
  PROVE  token \in Holdable => TokenValue(token) = token
<1>1. TokenModulus \in Nat \ {0} /\ TokenSigned \in BOOLEAN
  BY ValuesAssumption
<1>2. \A k \in Nat : k < TokenModulus => k % TokenModulus = k
  BY <1>1
<1>3. CASE TokenSigned
  <2> SUFFICES ASSUME token < TokenModulus \div 2 PROVE TokenValue(token) = token
    BY <1>1, <1>3 DEF Holdable
  <2>1. token < TokenModulus /\ ~(token >= TokenModulus \div 2)
    BY <1>1
  <2> QED
    BY <1>2, <2>1 DEF TokenValue
<1>4. CASE ~TokenSigned
  BY <1>1, <1>2, <1>4 DEF TokenValue, Holdable
<1> QED
  BY <1>3, <1>4

\* In a state where the longest match is the result, the token of the value is that of the
\* key it is.
LEMMA ValueRead ==
  ASSUME TabInv, LongestMatch
  PROVE  TokensAsWritten
<1> DEFINE out  == ExtractedToken(0, Closing)
           word == Tokens!Spelled(Inside(Closing))
           Short == IF Known(word) THEN IsTokenOf(out, word) ELSE out.null
           Long  == \E n \in 0..(Len(Tokens!Decoded) - 1) :
                      /\ Tokens!Decoded[n + 1].at = Closing % U8
                      /\ Known(Tokens!Spelled(n)) /\ IsTokenOf(out, Tokens!Spelled(n))
<1> SUFFICES ASSUME code = "EXIT", from = 1, ~resumed, Tokens!NoInterim, Closing > 0
             PROVE  (Closing < U8 => Short) /\ (Closing >= U8 /\ ~out.null => Long)
  BY Zenon DEF TokensAsWritten, Tokenized
<1> HIDE DEF out, word
<1>0. out = ExtractedToken(0, Closing) /\ word = Tokens!Spelled(Inside(Closing))
  BY Zenon DEF out, word
<1> DEFINE q == Closing
<1> HIDE DEF q
<1>1. text \in Texts /\ text \in Seq(Chars) /\ Len(text) \in Nat /\ Len(text) > 0 /\ text[1] = Quote
  <2>1. text \in Texts
    BY DEF TabInv
  <2>2. text \in Seq(Chars)
    BY <2>1, Given
  <2> QED
    BY <2>1, <2>2, ValuesAssumption
<1>2. Quote # "\\"
  BY Zenon DEF Quote
<1>3. q # 0 /\ q \in Nat /\ q + 1 \in 2..Len(text) /\ text[q + 1] = Quote /\ ~Escaped[q + 1]
  <2>1. Closing # 0
    OBVIOUS
  <2> QED
    BY <1>1, <2>1, ClosingIs DEF q
<1>4. U8 \in Nat \ {0} /\ q \in Nat /\ q # 0 /\ (q < U8 => q % U8 = q)
  BY <1>3, ValuesAssumption
<1>5. q \in 1..(Len(text) - 1)
  BY <1>1, <1>4, <1>3
<1> DEFINE E == [i \in 1..Len(text) |-> IF Escaped[i] THEN 1 ELSE 0]
<1>6. \A i \in 2..Len(text) : E[i] = IF text[i - 1] = "\\" /\ E[i - 1] = 0 THEN 1 ELSE 0
  <2> SUFFICES ASSUME NEW i \in 2..Len(text)
               PROVE  E[i] = IF text[i - 1] = "\\" /\ E[i - 1] = 0 THEN 1 ELSE 0
    OBVIOUS
  <2>1. i > 1 /\ i \in 1..Len(text) /\ i - 1 \in 1..Len(text) /\ 0 # 1
    BY <1>1
  <2>2. Escaped[i] <=> text[i - 1] = "\\" /\ ~Escaped[i - 1]
    BY <1>1, <2>1, EscapedIs, Zenon
  <2>3. /\ E[i] = IF Escaped[i] THEN 1 ELSE 0
        /\ E[i - 1] = IF Escaped[i - 1] THEN 1 ELSE 0
    BY <2>1, Zenon
  <2> HIDE DEF E
  <2>4. E[i - 1] = 0 <=> ~Escaped[i - 1]
    BY <2>1, <2>3, Zenon
  <2> QED
    BY <2>2, <2>3, <2>4, Zenon
<1>7. E[q + 1] = 0
  <2>1. q + 1 \in 1..Len(text)
    BY <1>1, <1>3
  <2> QED
    BY <1>3, <2>1, Zenon
<1> HIDE DEF E
<1>8. Proved!Typed
  BY TokensAssumption, SameTokens
<1>9. text[1] # "\\" /\ from = 1
  BY <1>1, <1>2, Zenon
<1>10. /\ Proved!Decoded \in Seq(Proved!Letters)
      /\ \E n \in 0..(Len(Proved!Decoded) - 1) : Proved!QuoteBehind(n, q, Quote)
  <2>1. Proved!Escapes(E)
    BY <1>6, Zenon DEF Proved!Escapes
  <2> QED
    BY <1>1, <1>2, <1>3, <1>5, <1>7, <1>8, <1>9, <2>1, Proved!QuoteFound, Zenon
<1> DEFINE d == Proved!Decoded
<1> HIDE DEF d
<1>11. PICK n \in 0..(Len(d) - 1) : Proved!QuoteBehind(n, q, Quote)
  BY <1>10, Zenon DEF d
<1>12. /\ d[n + 1].c = Quote /\ d[n + 1].at = q
       /\ \A i \in 1..Len(d) : (i <= n <=> d[i].at < q) /\ (i > n + 1 => d[i].at > q)
  BY <1>11, Zenon DEF Proved!QuoteBehind, d
<1>13. d \in Seq(Proved!Letters) /\ Len(d) \in Nat /\ n \in 0..Len(d) /\ n \in Nat /\ n <= Len(d)
  <2>1. d \in Seq(Proved!Letters)
    BY <1>10 DEF d
  <2>2. Len(d) \in Nat
    BY <2>1
  <2> QED
    BY <2>1, <2>2, <1>12
<1>14. Inside(q) = n
  <2> DEFINE Cut(k) == \A i \in 1..Len(d) : i <= k <=> d[i].at < q
  <2>1. Cut(n)
    BY <1>12
  <2>2. ASSUME NEW k \in 0..Len(d), Cut(k) PROVE k = n
    <3>1. \A i \in 1..Len(d) : i <= k <=> i <= n
      BY <2>1, <2>2
    <3>2. CASE k < n
      BY <1>13, <3>1, <3>2
    <3>3. CASE n < k
      BY <1>13, <3>1, <3>3
    <3> QED
      BY <1>13, <3>2, <3>3
  <2>3. Inside(q) = CHOOSE k \in 0..Len(d) : Cut(k)
    BY SameTokens, Zenon DEF Inside, d
  <2> HIDE DEF Cut
  <2> QED
    BY <1>13, <2>1, <2>2, <2>3
<1>15. /\ Proved!Matched < Len(d) /\ AbstractState.req_position = d[Proved!Matched + 1].at
       /\ AbstractState.token = Proved!Trie!TokenAt(Proved!Spelled(Proved!Matched))
  BY SameTokens, Zenon DEF LongestMatch, Tokens!LongestMatch, d
<1>16. AbstractState.req_position = state.req_position /\ AbstractState.token = state.token
       /\ AbstractState.delimiter = state.delimiter
  BY Zenon DEF AbstractState
<1>17. /\ Proved!Decoded = Tokens!Decoded /\ Proved!Matched = Tokens!Matched
       /\ \A k : Proved!Spelled(k) = Tokens!Spelled(k)
  BY SameTokens
<1> DEFINE e     == q % U8
           token == IF state.req_position = e THEN state.token ELSE 0
<1>18. out = IF token # 0 THEN [null |-> FALSE, value |-> TokenValue(token)] ELSE [null |-> TRUE, value |-> 0]
  <2>1. 0 + ((q - 0) % U8) = e
    BY <1>4
  <2>2. out = IF state.req_position = e /\ state.token # 0
              THEN [null |-> FALSE, value |-> TokenValue(state.token)] ELSE [null |-> TRUE, value |-> 0]
    BY <1>0, <2>1 DEF ExtractedToken, q
  <2> QED
    BY <2>2
<1> HIDE DEF token, e
<1>19. ASSUME NEW w, Known(w), token = Words[w] PROVE IsTokenOf(out, w)
  <2>1. w \in DOMAIN Words /\ token # 0 /\ token \in Nat
    BY <1>19, Given DEF Known
  <2>2. ~out.null /\ out.value = TokenValue(token)
    BY <1>18, <2>1
  <2> QED
    BY <1>19, <2>1, <2>2, Held DEF IsTokenOf
<1>20. ASSUME q < U8 PROVE Short
  <2>1. token = IF AbstractState.req_position = q THEN AbstractState.token ELSE 0
    BY <1>4, <1>16, <1>20 DEF token, e
  <2>2. \A w \in DOMAIN Words : Append(w, Quote) \notin Proved!Trie!KeyPrefixes
    BY ValuesAssumption, Zenon DEF Trie!KeyPrefixes, Proved!Trie!KeyPrefixes
  <2>3. token = IF /\ Proved!Spelled(n) \in DOMAIN Words
                   /\ options.hard_delim => \A i \in 1..n : d[i].c # AbstractState.delimiter
                THEN Words[Proved!Spelled(n)] ELSE 0
    <3>1. /\ n \in 0..(Len(Proved!Decoded) - 1) /\ Proved!Decoded \in Seq(Proved!Letters)
          /\ Proved!Matched < Len(Proved!Decoded)
          /\ AbstractState.req_position = Proved!Decoded[Proved!Matched + 1].at
      BY <1>10, <1>11, <1>15, Zenon DEF d
    <3> QED
      BY <1>4, <1>8, <1>11, <1>15, <2>1, <2>2, <3>1, Proved!TokenOfValue, Zenon DEF d
  <2>4. word = Proved!Spelled(n) /\ DOMAIN word = 1..n /\ \A i \in 1..n : word[i] = d[i].c
    <3>1. word = Proved!Spelled(n)
      BY <1>0, <1>14, <1>17, Zenon DEF q
    <3> QED
      BY <3>1, Zenon DEF Proved!Spelled, d
  <2>5. CASE Known(word)
    <3>1. token = Words[word]
      BY <1>16, <2>3, <2>4, <2>5, Zenon DEF Known
    <3> QED
      BY <1>19, <2>5, <3>1, Zenon
  <2>6. CASE ~Known(word)
    <3>1. token = 0
      BY <1>16, <2>3, <2>4, <2>6, Zenon DEF Known
    <3>2. out.null
      BY <1>18, <3>1
    <3> QED
      BY <2>6, <3>2, Zenon
  <2> QED
    BY <2>5, <2>6, Zenon
<1>21. ASSUME ~out.null PROVE Long
  <2> DEFINE m == Proved!Matched
  <2>1. token # 0 /\ state.req_position = e /\ token = state.token
    BY <1>18, <1>21 DEF token
  <2>2. m \in 0..Len(d) /\ Proved!Fits(m)
    BY <1>8, <1>13, Proved!MatchedIs, Zenon DEF d
  <2>3. m \in 0..(Len(d) - 1) /\ d[m + 1].at = e
    BY <1>13, <1>15, <1>16, <2>1, <2>2
  <2>4. Proved!Spelled(m) \in DOMAIN Words /\ Words[Proved!Spelled(m)] = token
    BY <1>15, <1>16, <2>1, Zenon DEF Proved!Trie!TokenAt
  <2>5. DOMAIN Proved!Spelled(m) = 1..m /\ \A i \in 1..m : Proved!Spelled(m)[i] = d[i].c
    BY Zenon DEF Proved!Spelled, d
  <2>6. options.hard_delim => \A i \in 1..m : d[i].c # AbstractState.delimiter
    BY <2>2, Zenon DEF Proved!Fits, d
  <2>7. Known(Proved!Spelled(m))
    BY <1>16, <2>1, <2>4, <2>5, <2>6, Zenon DEF Known
  <2>8. IsTokenOf(out, Proved!Spelled(m))
    BY <1>19, <2>4, <2>7, Zenon
  <2> HIDE DEF m
  <2>9. /\ m \in 0..(Len(Tokens!Decoded) - 1) /\ Tokens!Decoded[m + 1].at = Closing % U8
        /\ Known(Tokens!Spelled(m)) /\ IsTokenOf(out, Tokens!Spelled(m))
    BY <1>17, <2>3, <2>7, <2>8, Zenon DEF d, e, q
  <2> QED
    BY <2>9, Zenon
<1> QED
  BY <1>20, <1>21, Zenon DEF q

\* TestStreamingParser.c:80-98: whichever table encodes the keys, and in whichever pieces a
\* value arrives, it is extracted as the token of the key it is, if the field can hold that,
\* and as nothing if it is none; and where len wraps, as nothing but a key it begins with.
THEOREM TokensCorrect == Spec => []TokensAsWritten
<1>1. TabInv /\ LongestMatch => TokensAsWritten
  BY ValueRead
<1> QED
  BY <1>1, TablesInvariance, MatchCorrect, PTL
================================================================================
