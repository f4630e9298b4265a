----------------------------- MODULE KeysProofs -----------------------------
(* What the encodings of Keys compute, for any path.  The recursive functions *)
(* in their definitions are shown to satisfy their equations first; the        *)
(* inductions are over sets of numbers.                                        *)
EXTENDS Keys, SequenceTheorems, WellFoundedInduction, TLAPS

\* The characters that matter, as values of which only this is known.
Slash == "/"
Underscore == "_"

LEMMA TwoCharacters == Slash # Underscore
BY DEF Slash, Underscore

LEMMA SetInduction ==
    ASSUME NEW S, 0 \in S, \A n \in Nat : n \in S => n + 1 \in S
    PROVE  \A n \in Nat : n \in S
<1> DEFINE Missed == Nat \ S
           Less == OpToRel(<, Nat)
<1>1. SUFFICES ASSUME Missed # {}
               PROVE  FALSE
  OBVIOUS
<1>2. IsWellFoundedOn(Less, Nat)
  BY NatLessThanWellFounded
<1>3. PICK n \in Missed : \A k \in Missed : <<k, n>> \notin Less
  <2> HIDE DEF Less
  <2>1. QED
    BY <1>1, <1>2, WFMin, Zenon
<1>4. \A k \in Missed : ~ (k < n)
  BY <1>3 DEF OpToRel
<1>5. n - 1 \in Nat /\ n - 1 < n /\ n = (n - 1) + 1
  OBVIOUS
<1>6. n - 1 \notin Missed
  BY <1>4, <1>5
<1>7. QED
  BY <1>5, <1>6

\* From the end of a list to its beginning.
LEMMA DownwardInduction ==
    ASSUME NEW S, NEW n \in Nat, n \in S,
           \A i \in 1 .. n : i \in S => i - 1 \in S
    PROVE  \A i \in 0 .. n : i \in S
<1> DEFINE Below == {k \in Nat : k <= n => n - k \in S}
<1>1. 0 \in Below
  OBVIOUS
<1>2. \A k \in Nat : k \in Below => k + 1 \in Below
  <2>1. SUFFICES ASSUME NEW k \in Nat, k \in Below, k + 1 <= n
                 PROVE  n - (k + 1) \in S
    OBVIOUS
  <2>2. n - k \in 1 .. n /\ n - k \in S /\ (n - k) - 1 = n - (k + 1)
    BY <2>1
  <2>3. QED
    BY <2>2
<1>3. \A k \in Nat : k \in Below
  <2> HIDE DEF Below
  <2>1. QED
    BY <1>1, <1>2, SetInduction
<1>4. QED
  <2>1. SUFFICES ASSUME NEW i \in 0 .. n
                 PROVE  i \in S
    OBVIOUS
  <2>2. n - i \in Nat /\ n - i <= n /\ n - (n - i) = i
    OBVIOUS
  <2>3. QED
    BY <1>3, <2>2

-----------------------------------------------------------------------------
(* FlattenSeq: its local function is the list of the concatenations so far. *)

Flattens(f, s, n) ==
    f = [i \in 1 .. n |-> IF i = 1 THEN s[i] ELSE f[i - 1] \o s[i]]

Flattenable(s, n) == \E f : Flattens(f, s, n)

LEMMA FlatteningExists ==
    ASSUME NEW T, NEW s \in Seq(Seq(T))
    PROVE  Flattenable(s, Len(s))
<1> DEFINE Known == {n \in Nat : Flattenable(s, n)}
<1>1. 0 \in Known
  <2>1. Flattens([i \in 1 .. 0 |-> s[i]], s, 0)
    BY DEF Flattens
  <2>2. QED
    BY <2>1 DEF Flattenable
<1>2. \A n \in Nat : n \in Known => n + 1 \in Known
  <2> TAKE n \in Nat
  <2> HAVE n \in Known
  <2>1. PICK g : Flattens(g, s, n)
    BY DEF Flattenable
  <2> DEFINE f == [i \in 1 .. n + 1 |-> IF i = 1 THEN s[i] ELSE g[i - 1] \o s[i]]
  <2>2. ASSUME NEW i \in 1 .. n
        PROVE  f[i] = g[i]
    <3>1. g[i] = IF i = 1 THEN s[i] ELSE g[i - 1] \o s[i]
      BY <2>1 DEF Flattens
    <3>2. QED
      BY <3>1
  <2>3. ASSUME NEW i \in 1 .. n + 1
        PROVE  f[i] = IF i = 1 THEN s[i] ELSE f[i - 1] \o s[i]
    <3>1. CASE i = 1
      BY <3>1
    <3>2. CASE i # 1
      <4>1. i - 1 \in 1 .. n
        BY <3>2
      <4>2. f[i - 1] = g[i - 1]
        BY <2>2, <4>1
      <4>3. f[i] = g[i - 1] \o s[i]
        BY <3>2
      <4> HIDE DEF f
      <4>4. QED
        BY <3>2, <4>2, <4>3
    <3>3. QED
      BY <3>1, <3>2
  <2>4. DOMAIN f = 1 .. n + 1 /\ f = [i \in DOMAIN f |-> f[i]]
    OBVIOUS
  <2>5. Flattens(f, s, n + 1)
    <3> HIDE DEF f
    <3>1. QED
      BY <2>3, <2>4, Zenon DEF Flattens
  <2>6. QED
    BY <2>5 DEF Flattenable
<1>3. QED
  <2> HIDE DEF Known
  <2>1. \A n \in Nat : n \in Known
    BY <1>1, <1>2, SetInduction
  <2>2. QED
    BY <2>1, LenProperties DEF Known

LEMMA FlatteningSteps ==
    ASSUME NEW f, NEW s, NEW n \in Nat, Flattens(f, s, n), NEW i \in 1 .. n
    PROVE  /\ i = 1 => f[i] = s[i]
           /\ i # 1 => f[i] = f[i - 1] \o s[i]
BY DEF Flattens

LEMMA FlatteningType ==
    ASSUME NEW T, NEW s \in Seq(Seq(T)), NEW f, Flattens(f, s, Len(s))
    PROVE  \A i \in 1 .. Len(s) : f[i] \in Seq(T)
<1> DEFINE Known == {n \in Nat : n \in 1 .. Len(s) => f[n] \in Seq(T)}
<1>0. Len(s) \in Nat /\ \A i \in 1 .. Len(s) : s[i] \in Seq(T)
  BY LenProperties, ElementOfSeq
<1>1. 0 \in Known
  OBVIOUS
<1>2. \A n \in Nat : n \in Known => n + 1 \in Known
  <2> TAKE n \in Nat
  <2> HAVE n \in Known
  <2>0. n \in 1 .. Len(s) => f[n] \in Seq(T)
    OBVIOUS
  <2>1. SUFFICES ASSUME n + 1 \in 1 .. Len(s)
                 PROVE  f[n + 1] \in Seq(T)
    <3>1. n + 1 \in Nat
      OBVIOUS
    <3>2. QED
      BY <3>1
  <2>2. s[n + 1] \in Seq(T)
    BY <1>0, <2>1
  <2>3. CASE n = 0
    <3>1. Len(s) >= 1 /\ n + 1 = 1
      BY <1>0, <2>1, <2>3
    <3>2. f[n + 1] = s[n + 1]
      BY <1>0, <2>1, <3>1, FlatteningSteps
    <3>3. QED
      BY <2>2, <3>1, <3>2
  <2>4. CASE n # 0
    <3>1. n \in 1 .. Len(s) - 1 /\ n \in 1 .. Len(s)
      BY <1>0, <2>1, <2>4
    <3>2. f[n] \in Seq(T)
      BY <2>0, <3>1
    <3>3. f[n + 1] = f[n] \o s[n + 1]
      <4>1. n + 1 # 1 /\ (n + 1) - 1 = n
        BY <2>4
      <4>2. n + 1 # 1 => f[n + 1] = f[(n + 1) - 1] \o s[n + 1]
        BY <1>0, <2>1, FlatteningSteps
      <4>3. QED
        BY <4>1, <4>2
    <3>4. QED
      BY <2>2, <3>2, <3>3, ConcatProperties
  <2>5. QED
    BY <2>3, <2>4
<1>3. \A n \in Nat : n \in Known
  <2> HIDE DEF Known
  <2>1. QED
    BY <1>1, <1>2, SetInduction
<1>4. QED
  BY <1>0, <1>3

\* The equation that FlattenSeq promises.
LEMMA FlattenSeqIs ==
    ASSUME NEW T, NEW s \in Seq(Seq(T)), s # <<>>
    PROVE  \E f : /\ Flattens(f, s, Len(s))
                  /\ \A i \in 1 .. Len(s) : f[i] \in Seq(T)
                  /\ FlattenSeq(s) = f[Len(s)]
<1> DEFINE f == CHOOSE g : Flattens(g, s, Len(s))
<1>1. FlattenSeq(s) = f[Len(s)]
  <2>1. Len(s) # 0
    BY EmptySeq
  <2>2. QED
    BY <2>1, Zenon DEF FlattenSeq, Flattens
<1>2. Flattens(f, s, Len(s))
  <2>1. \E g : Flattens(g, s, Len(s))
    BY FlatteningExists DEF Flattenable
  <2>2. QED
    BY <2>1, Zenon
<1>3. \A i \in 1 .. Len(s) : f[i] \in Seq(T)
  <2> HIDE DEF f
  <2>1. QED
    BY <1>2, FlatteningType
<1>4. QED
  BY <1>1, <1>2, <1>3
-----------------------------------------------------------------------------
(* Unflatten: its local function has what is decoded from each place on.     *)

DecodedAt(f, key, i) ==
    IF i > Len(key) THEN <<>>
    ELSE IF i < Len(key) /\ SubSeq(key, i, i + 1) = <<Underscore, Underscore>>
         THEN <<Slash>> \o f[i + 2]
         ELSE <<key[i]>> \o f[i + 1]

Decodes(f, key, first) == f = [i \in first .. Len(key) + 2 |-> DecodedAt(f, key, i)]

Decodable(key, first) == \E f : Decodes(f, key, first)

LEMMA DecodingExists ==
    ASSUME NEW T, NEW key \in Seq(T)
    PROVE  Decodable(key, 1)
<1> DEFINE last == Len(key) + 2
           Known == {i \in Nat : Decodable(key, i + 1)}
<1>0. Len(key) \in Nat /\ last \in Nat
  BY LenProperties
<1>1. last \in Known
  <2>1. Decodes([i \in last + 1 .. Len(key) + 2 |-> <<>>], key, last + 1)
    <3>1. last + 1 .. Len(key) + 2 = {}
      BY <1>0
    <3>2. QED
      BY <3>1 DEF Decodes
  <2>2. QED
    BY <1>0, <2>1 DEF Decodable
<1>2. \A i \in 1 .. last : i \in Known => i - 1 \in Known
  <2> TAKE i \in 1 .. last
  <2> HAVE i \in Known
  <2>1. PICK g : Decodes(g, key, i + 1)
    BY DEF Decodable
  <2> DEFINE f == [k \in i .. last |-> DecodedAt(g, key, k)]
  <2>2. ASSUME NEW k \in i + 1 .. last
        PROVE  f[k] = g[k]
    <3>1. g[k] = DecodedAt(g, key, k)
      BY <2>1 DEF Decodes
    <3>2. k \in i .. last
      BY <1>0
    <3>3. QED
      BY <3>1, <3>2
  <2>3. ASSUME NEW k \in i .. last
        PROVE  f[k] = DecodedAt(f, key, k)
    <3>1. f[k] = DecodedAt(g, key, k)
      OBVIOUS
    <3>2. k <= Len(key) => k + 1 \in i + 1 .. last /\ k + 2 \in i + 1 .. last
      BY <1>0
    <3>3. k <= Len(key) => f[k + 1] = g[k + 1] /\ f[k + 2] = g[k + 2]
      BY <2>2, <3>2
    <3>4. k > Len(key) \/ k <= Len(key)
      BY <1>0
    <3> HIDE DEF f
    <3>5. QED
      BY <3>1, <3>3, <3>4 DEF DecodedAt
  <2>4. DOMAIN f = i .. last /\ f = [k \in DOMAIN f |-> f[k]]
    OBVIOUS
  <2>5. Decodes(f, key, i)
    <3> HIDE DEF f
    <3>1. QED
      BY <2>3, <2>4, Zenon DEF Decodes
  <2>6. (i - 1) + 1 = i /\ i - 1 \in Nat
    BY <1>0
  <2>7. QED
    BY <2>5, <2>6 DEF Decodable
<1>3. QED
  <2> HIDE DEF Known, last
  <2>1. \A i \in 0 .. last : i \in Known
    BY <1>0, <1>1, <1>2, DownwardInduction
  <2>2. 0 \in Known
    BY <1>0, <2>1
  <2>3. QED
    BY <2>2 DEF Known

\* The equation that Unflatten promises.
LEMMA UnflattenIs ==
    ASSUME NEW T, NEW key \in Seq(T)
    PROVE  \E f : /\ \A i \in 1 .. Len(key) + 2 : f[i] = DecodedAt(f, key, i)
                  /\ Unflatten(key) = f[1]
<1> DEFINE f == CHOOSE g : Decodes(g, key, 1)
<1>1. Unflatten(key) = f[1]
  BY Zenon DEF Unflatten, Decodes, DecodedAt, FlatSeparator, Slash, Underscore
<1>2. Decodes(f, key, 1)
  <2>1. \E g : Decodes(g, key, 1)
    BY DecodingExists DEF Decodable
  <2>2. QED
    BY <2>1, Zenon
<1>3. \A i \in 1 .. Len(key) + 2 : f[i] = DecodedAt(f, key, i)
  <2> HIDE DEF f
  <2>1. QED
    BY <1>2 DEF Decodes
<1>4. QED
  BY <1>1, <1>3
-----------------------------------------------------------------------------
(* Where the characters of a path begin in its flat key. *)

Pieces(path) ==
    [i \in DOMAIN path |-> IF path[i] = Slash THEN <<Underscore, Underscore>> ELSE <<path[i]>>]

Layout(at, path, key) ==
    /\ at[1] = 1 /\ at[Len(path) + 1] = Len(key) + 1
    /\ \A i \in 1 .. Len(path) :
          /\ at[i] \in 1 .. Len(key)
          /\ IF path[i] = Slash
             THEN /\ at[i + 1] = at[i] + 2 /\ at[i] < Len(key)
                  /\ key[at[i]] = Underscore /\ key[at[i] + 1] = Underscore
             ELSE at[i + 1] = at[i] + 1 /\ key[at[i]] = path[i]

LEMMA PairIsSeq ==
    ASSUME NEW T, NEW a \in T, NEW b \in T
    PROVE  <<a, b>> \in Seq(T)
OBVIOUS

LEMMA PairOf ==
    ASSUME NEW T, NEW s \in Seq(T), NEW i \in 1 .. Len(s) - 1
    PROVE  SubSeq(s, i, i + 1) = <<s[i], s[i + 1]>>
<1> DEFINE left == SubSeq(s, i, i + 1)
           right == <<s[i], s[i + 1]>>
<1>1. /\ Len(s) \in Nat /\ i \in Int /\ i + 1 \in Int /\ i <= i + 1
      /\ \A k \in i .. i + 1 : s[k] \in T
  <2>1. Len(s) \in Nat
    BY LenProperties
  <2>2. i \in Int /\ i + 1 \in Int /\ i <= i + 1 /\ \A k \in i .. i + 1 : k \in 1 .. Len(s)
    BY <2>1
  <2>3. QED
    BY <2>1, <2>2, ElementOfSeq
<1>2. /\ left \in Seq(T) /\ Len(left) = i + 1 - i + 1
      /\ \A k \in 1 .. i + 1 - i + 1 : left[k] = s[i + k - 1]
  BY <1>1, SubSeqProperties
<1>3. i + 1 - i + 1 = 2 /\ i + 1 - 1 = i /\ i + 2 - 1 = i + 1 /\ i \in i .. i + 1 /\ i + 1 \in i .. i + 1
  BY <1>1
<1>4. left \in Seq(T) /\ Len(left) = 2 /\ left[1] = s[i] /\ left[2] = s[i + 1]
  <2>1. 1 \in 1 .. 2 /\ 2 \in 1 .. 2
    OBVIOUS
  <2>2. QED
    BY <1>2, <1>3, <2>1
<1>5. right \in Seq(T) /\ Len(right) = 2 /\ right[1] = s[i] /\ right[2] = s[i + 1]
  <2>1. s[i] \in T /\ s[i + 1] \in T
    BY <1>1, <1>3
  <2>2. right \in Seq(T)
    BY <2>1, PairIsSeq
  <2>3. QED
    BY <2>2
<1> HIDE DEF left, right
<1>6. \A k \in 1 .. Len(left) : left[k] = right[k]
  <2>1. \A k \in 1 .. 2 : k = 1 \/ k = 2
    OBVIOUS
  <2>2. QED
    BY <1>4, <1>5, <2>1
<1>7. left = right
  BY <1>4, <1>5, <1>6, SeqEqual
<1>8. QED
  BY <1>7 DEF left, right

LEMMA SingleIsSeq ==
    ASSUME NEW T, NEW a \in T
    PROVE  <<a>> \in Seq(T)
OBVIOUS

LEMMA FunctionIsSeq ==
    ASSUME NEW T, NEW n \in Nat, NEW g \in [1 .. n -> T]
    PROVE  g \in Seq(T) /\ Len(g) = n
OBVIOUS

LEMMA PiecesType ==
    ASSUME NEW T, Underscore \in T, Slash \in T, NEW path \in Seq(T)
    PROVE  /\ Pieces(path) \in Seq(Seq(T)) /\ Len(Pieces(path)) = Len(path)
           /\ \A i \in 1 .. Len(path) :
                 Pieces(path)[i] = IF path[i] = Slash THEN <<Underscore, Underscore>> ELSE <<path[i]>>
<1> DEFINE n == Len(path)
           Piece(i) == IF path[i] = Slash THEN <<Underscore, Underscore>> ELSE <<path[i]>>
<1>1. n \in Nat /\ DOMAIN path = 1 .. n /\ \A i \in 1 .. n : path[i] \in T
  BY LenProperties, ElementOfSeq
<1> HIDE DEF n
<1>2. Pieces(path) = [i \in 1 .. n |-> Piece(i)]
  BY <1>1 DEF Pieces
<1>3. \A i \in 1 .. n : Piece(i) \in Seq(T)
  <2> TAKE i \in 1 .. n
  <2>1. path[i] \in T
    BY <1>1
  <2>2. <<Underscore, Underscore>> \in Seq(T)
    <3>1. Underscore \in T
      OBVIOUS
    <3>2. QED
      BY <3>1, PairIsSeq
  <2>3. <<path[i]>> \in Seq(T)
    BY <2>1, SingleIsSeq
  <2>4. QED
    BY <2>2, <2>3, Zenon
<1> HIDE DEF Piece
<1>4. Pieces(path) \in Seq(Seq(T)) /\ Len(Pieces(path)) = n
  <2>1. Pieces(path) \in [1 .. n -> Seq(T)]
    BY <1>2, <1>3, Zenon
  <2>2. QED
    BY <1>1, <2>1, FunctionIsSeq, Zenon
<1>5. \A i \in 1 .. n : Pieces(path)[i] = Piece(i)
  BY <1>2
<1>6. QED
  BY <1>4, <1>5 DEF n, Piece

\* What has been concatenated stays in front.
InFront(a, b) == Len(a) <= Len(b) /\ \A k \in 1 .. Len(a) : b[k] = a[k]

LEMMA ConcatInFront ==
    ASSUME NEW T, NEW a \in Seq(T), NEW b \in Seq(T)
    PROVE  InFront(a, a \o b)
<1>1. Len(a) \in Nat /\ Len(b) \in Nat /\ Len(a \o b) = Len(a) + Len(b)
  BY LenProperties, ConcatProperties
<1>2. ASSUME NEW k \in 1 .. Len(a)
      PROVE  (a \o b)[k] = a[k]
  <2>1. k \in 1 .. Len(a) + Len(b) /\ k <= Len(a)
    BY <1>1
  <2>2. QED
    BY <2>1, ConcatProperties
<1>3. QED
  BY <1>1, <1>2 DEF InFront

LEMMA InFrontTransitive ==
    ASSUME NEW a, NEW b, NEW c, InFront(a, b), InFront(b, c),
           Len(a) \in Nat, Len(b) \in Nat, Len(c) \in Nat
    PROVE  InFront(a, c)
BY DEF InFront

LEMMA StaysInFront ==
    ASSUME NEW T, NEW s \in Seq(Seq(T)), NEW f, NEW n \in Nat, n = Len(s), Flattens(f, s, n)
    PROVE  \A i \in 1 .. n : InFront(f[i], f[n])
<1> DEFINE Known == {i \in Nat : i >= 1 => InFront(f[i], f[n])}
<1>1. \A i \in 1 .. n : f[i] \in Seq(T) /\ s[i] \in Seq(T) /\ Len(f[i]) \in Nat /\ Len(s[i]) \in Nat
  BY FlatteningType, LenProperties, ElementOfSeq
<1>2. n \in Known
  BY <1>1 DEF InFront
<1>3. \A i \in 1 .. n : i \in Known => i - 1 \in Known
  <2> TAKE i \in 1 .. n
  <2> HAVE i \in Known
  <2>1. InFront(f[i], f[n]) /\ i - 1 \in Nat
    OBVIOUS
  <2> HIDE DEF Known
  <2>2. ASSUME i - 1 >= 1
        PROVE  InFront(f[i - 1], f[n])
    <3>1. i # 1 /\ i - 1 \in 1 .. n /\ n \in 1 .. n
      BY <2>2
    <3>2. f[i] = f[i - 1] \o s[i]
      BY <3>1, FlatteningSteps
    <3>3. InFront(f[i - 1], f[i])
      BY <1>1, <3>1, <3>2, ConcatInFront
    <3>4. QED
      BY <1>1, <2>1, <3>1, <3>3, InFrontTransitive
  <2>3. QED
    BY <2>1, <2>2 DEF Known
<1>4. QED
  <2> HIDE DEF Known
  <2>1. \A i \in 0 .. n : i \in Known
    BY <1>2, <1>3, DownwardInduction
  <2>2. QED
    BY <2>1 DEF Known

\* How long the first i pieces are.
EndOf(f, i) == IF i = 0 THEN 0 ELSE Len(f[i])

LEMMA ConcatAt ==
    ASSUME NEW T, NEW a \in Seq(T), NEW b \in Seq(T)
    PROVE  /\ Len(a) \in Nat /\ Len(b) \in Nat
           /\ Len(a \o b) = Len(a) + Len(b)
           /\ \A k \in 1 .. Len(b) : (a \o b)[Len(a) + k] = b[k]
<1>1. Len(a) \in Nat /\ Len(b) \in Nat
  BY LenProperties
<1>2. ASSUME NEW k \in 1 .. Len(b)
      PROVE  (a \o b)[Len(a) + k] = b[k]
  <2>1. /\ Len(a) + k \in 1 .. Len(a) + Len(b)
        /\ ~ (Len(a) + k <= Len(a)) /\ (Len(a) + k) - Len(a) = k
    BY <1>1
  <2>2. QED
    BY <2>1, ConcatProperties
<1>3. QED
  BY <1>1, <1>2, ConcatProperties

LEMMA PieceAt ==
    ASSUME NEW T, NEW s \in Seq(Seq(T)), NEW f, Flattens(f, s, Len(s)), NEW i \in 1 .. Len(s)
    PROVE  /\ EndOf(f, i - 1) \in Nat /\ Len(s[i]) \in Nat
           /\ EndOf(f, i) = EndOf(f, i - 1) + Len(s[i])
           /\ \A k \in 1 .. Len(s[i]) : f[i][EndOf(f, i - 1) + k] = s[i][k]
<1> DEFINE n == Len(s)
           before == f[i - 1]
           piece == s[i]
           end == EndOf(f, i - 1)
<1>1. n \in Nat /\ i \in 1 .. n /\ \A k \in 1 .. n : f[k] \in Seq(T) /\ s[k] \in Seq(T)
  BY FlatteningType, LenProperties, ElementOfSeq
<1>2. /\ i = 1 => f[i] = piece
      /\ i # 1 => f[i] = before \o piece
  BY <1>1, FlatteningSteps
<1>3. /\ piece \in Seq(T) /\ Len(piece) \in Nat
      /\ i # 1 => before \in Seq(T)
  <2>1. i # 1 => i - 1 \in 1 .. n
    BY <1>1
  <2>2. QED
    BY <1>1, <2>1, LenProperties
<1>4. /\ end = IF i = 1 THEN 0 ELSE Len(before)
      /\ EndOf(f, i) = Len(f[i])
  <2>1. i - 1 = 0 <=> i = 1
    BY <1>1
  <2>2. i # 0
    BY <1>1
  <2>3. QED
    BY <2>1, <2>2 DEF EndOf
<1> HIDE DEF before, piece, end
<1>5. CASE i = 1
  <2>1. end = 0 /\ \A k \in 1 .. Len(piece) : end + k = k
    BY <1>3, <1>4, <1>5
  <2>2. QED
    BY <1>2, <1>3, <1>4, <1>5, <2>1 DEF piece, end
<1>6. CASE i # 1
  <2>1. /\ Len(before) \in Nat /\ Len(before \o piece) = Len(before) + Len(piece)
        /\ \A k \in 1 .. Len(piece) : (before \o piece)[Len(before) + k] = piece[k]
    BY <1>3, <1>6, ConcatAt
  <2>2. f[i] = before \o piece /\ end = Len(before)
    BY <1>2, <1>4, <1>6
  <2>3. /\ end \in Nat /\ EndOf(f, i) = end + Len(piece)
        /\ \A k \in 1 .. Len(piece) : f[i][end + k] = piece[k]
    BY <1>4, <2>1, <2>2
  <2>4. QED
    BY <1>3, <2>3 DEF piece, end
<1>7. QED
  BY <1>5, <1>6

\* The same of the whole key.
PieceIn(key, end, next, piece) ==
    /\ Len(key) \in Nat /\ end \in Nat /\ Len(piece) \in Nat
    /\ next = end + Len(piece) /\ next <= Len(key)
    /\ \A k \in 1 .. Len(piece) : key[end + k] = piece[k]

LEMMA WholeKeyAt ==
    ASSUME NEW T, NEW s \in Seq(Seq(T)), NEW f, NEW n \in Nat, n = Len(s), Flattens(f, s, n),
           NEW i \in 1 .. n
    PROVE  PieceIn(f[n], EndOf(f, i - 1), EndOf(f, i), s[i])
<1> DEFINE end == EndOf(f, i - 1)
           piece == s[i]
           upTo == f[i]
           key == f[n]
<1>1. /\ end \in Nat /\ Len(piece) \in Nat
      /\ EndOf(f, i) = end + Len(piece)
      /\ \A k \in 1 .. Len(piece) : upTo[end + k] = piece[k]
  BY PieceAt
<1>2. InFront(upTo, key)
  BY StaysInFront
<1>3. Len(upTo) \in Nat /\ Len(key) \in Nat
  <2>1. upTo \in Seq(T) /\ key \in Seq(T)
    BY FlatteningType
  <2>2. QED
    BY <2>1, LenProperties
<1>4. EndOf(f, i) = Len(upTo)
  BY DEF EndOf
<1> HIDE DEF end, piece, upTo, key
<1>5. Len(upTo) = end + Len(piece) /\ Len(upTo) <= Len(key)
  BY <1>1, <1>2, <1>4 DEF InFront
<1>6. ASSUME NEW k \in 1 .. Len(piece)
      PROVE  key[end + k] = piece[k]
  <2>1. end + k \in 1 .. Len(upTo)
    BY <1>1, <1>5
  <2>2. key[end + k] = upTo[end + k]
    BY <1>2, <2>1 DEF InFront
  <2>3. QED
    BY <1>1, <2>2
<1>7. QED
  BY <1>1, <1>3, <1>4, <1>5, <1>6 DEF end, piece, key, PieceIn

LEMMA PairAt ==
    ASSUME NEW a, NEW b, NEW key, NEW end \in Nat, NEW piece, piece = <<a, b>>,
           \A k \in 1 .. Len(piece) : key[end + k] = piece[k]
    PROVE  Len(piece) = 2 /\ key[end + 1] = a /\ key[end + 2] = b
<1>1. Len(piece) = 2 /\ piece[1] = a /\ piece[2] = b
  OBVIOUS
<1>2. QED
  BY <1>1

LEMMA SingleAt ==
    ASSUME NEW a, NEW key, NEW end \in Nat, NEW piece, piece = <<a>>,
           \A k \in 1 .. Len(piece) : key[end + k] = piece[k]
    PROVE  Len(piece) = 1 /\ key[end + 1] = a
<1>1. Len(piece) = 1 /\ piece[1] = a
  OBVIOUS
<1>2. QED
  BY <1>1

\* And of the key of a path.
LEMMA CharacterAt ==
    ASSUME NEW T, Underscore \in T, Slash \in T, NEW path \in Seq(T), NEW n \in Nat, n = Len(path),
           NEW f, Flattens(f, Pieces(path), n), NEW i \in 1 .. n
    PROVE  LET end == EndOf(f, i - 1)
           IN  /\ Len(f[n]) \in Nat /\ end \in Nat /\ EndOf(f, i) <= Len(f[n])
               /\ IF path[i] = Slash
                  THEN EndOf(f, i) = end + 2 /\ f[n][end + 1] = Underscore /\ f[n][end + 2] = Underscore
                  ELSE EndOf(f, i) = end + 1 /\ f[n][end + 1] = path[i]
<1> DEFINE s == Pieces(path)
           piece == s[i]
           key == f[n]
           end == EndOf(f, i - 1)
<1>1. /\ s \in Seq(Seq(T)) /\ Len(s) = n
      /\ piece = IF path[i] = Slash THEN <<Underscore, Underscore>> ELSE <<path[i]>>
  BY PiecesType, Zenon
<1>2. /\ Len(key) \in Nat /\ end \in Nat /\ EndOf(f, i) <= Len(key)
      /\ EndOf(f, i) = end + Len(piece)
      /\ \A k \in 1 .. Len(piece) : key[end + k] = piece[k]
  <2>1. n = Len(s) /\ s \in Seq(Seq(T)) /\ Flattens(f, s, n)
    BY <1>1
  <2> HIDE DEF s
  <2>2. PieceIn(f[n], EndOf(f, i - 1), EndOf(f, i), s[i])
    BY <2>1, WholeKeyAt
  <2>3. QED
    BY <2>2, Zenon DEF PieceIn
<1> HIDE DEF s, piece, key, end
<1>3. CASE path[i] = Slash
  <2>1. piece = <<Underscore, Underscore>>
    BY <1>1, <1>3, Zenon
  <2>2. Len(piece) = 2 /\ key[end + 1] = Underscore /\ key[end + 2] = Underscore
    BY <1>2, <2>1, PairAt
  <2>3. QED
    BY <1>2, <1>3, <2>2, Zenon DEF key, end
<1>4. CASE path[i] # Slash
  <2>1. piece = <<path[i]>>
    BY <1>1, <1>4, Zenon
  <2>2. Len(piece) = 1 /\ key[end + 1] = path[i]
    BY <1>2, <2>1, SingleAt
  <2>3. QED
    BY <1>2, <1>4, <2>2, Zenon DEF key, end
<1>5. QED
  BY <1>3, <1>4

LEMMA FlatLayout ==
    ASSUME NEW T, Underscore \in T, Slash \in T, NEW path \in Seq(T), path # <<>>
    PROVE  /\ EncodeKey(path, "flat") \in Seq(T)
           /\ \E at : Layout(at, path, EncodeKey(path, "flat"))
<1> DEFINE n == Len(path)
           s == Pieces(path)
           key == EncodeKey(path, "flat")
<1>1. n \in Nat \ {0} /\ s \in Seq(Seq(T)) /\ Len(s) = n
  BY PiecesType, EmptySeq
<1>2. s # <<>>
  BY <1>1, EmptySeq
<1>3. key = FlattenSeq(s)
  BY Zenon DEF EncodeKey, Pieces, FlatSeparator, Slash, Underscore
<1> HIDE DEF s, key
<1>4. PICK f : /\ Flattens(f, s, n) /\ FlattenSeq(s) = f[n]
               /\ \A i \in 1 .. n : f[i] \in Seq(T)
  BY <1>1, <1>2, FlattenSeqIs
<1>5. key = f[n] /\ key \in Seq(T)
  BY <1>1, <1>3, <1>4
<1> DEFINE at == [i \in 1 .. n + 1 |-> EndOf(f, i - 1) + 1]
<1>6. /\ at[1] = 1 /\ at[n + 1] = Len(key) + 1
      /\ \A i \in 1 .. n : at[i] = EndOf(f, i - 1) + 1 /\ at[i + 1] = EndOf(f, i) + 1
  <2>1. /\ 1 \in 1 .. n + 1 /\ n + 1 \in 1 .. n + 1 /\ 1 - 1 = 0 /\ (n + 1) - 1 = n /\ n # 0
        /\ \A i \in 1 .. n : i \in 1 .. n + 1 /\ i + 1 \in 1 .. n + 1 /\ (i + 1) - 1 = i
    BY <1>1
  <2>2. at[1] = EndOf(f, 0) + 1 /\ at[n + 1] = EndOf(f, n) + 1
    BY <2>1
  <2>3. EndOf(f, 0) = 0 /\ EndOf(f, n) = Len(key)
    BY <1>5, <2>1 DEF EndOf
  <2>4. QED
    BY <2>1, <2>2, <2>3
<1> HIDE DEF at
<1>7. ASSUME NEW i \in 1 .. n
      PROVE  /\ at[i] \in 1 .. Len(key)
             /\ IF path[i] = Slash
                THEN /\ at[i + 1] = at[i] + 2 /\ at[i] < Len(key)
                     /\ key[at[i]] = Underscore /\ key[at[i] + 1] = Underscore
                ELSE at[i + 1] = at[i] + 1 /\ key[at[i]] = path[i]
  <2> DEFINE end == EndOf(f, i - 1)
  <2>1. /\ Len(key) \in Nat /\ end \in Nat /\ end + 1 <= Len(key)
        /\ IF path[i] = Slash
           THEN /\ EndOf(f, i) = end + 2 /\ end + 2 <= Len(key)
                /\ key[end + 1] = Underscore /\ key[end + 2] = Underscore
           ELSE EndOf(f, i) = end + 1 /\ key[end + 1] = path[i]
    BY <1>4, <1>5, CharacterAt DEF s
  <2>2. at[i] = end + 1 /\ at[i + 1] = EndOf(f, i) + 1
    BY <1>6
  <2> HIDE DEF end, n
  <2>3. at[i] + 1 = end + 2
    BY <2>1, <2>2
  <2>4. CASE path[i] = Slash
    BY <2>1, <2>2, <2>3, <2>4
  <2>5. CASE path[i] # Slash
    BY <2>1, <2>2, <2>5
  <2>6. QED
    BY <2>4, <2>5
<1>8. Layout(at, path, key)
  BY <1>6, <1>7 DEF Layout
<1>9. QED
  BY <1>5, <1>8 DEF key
-----------------------------------------------------------------------------
(* Decoding, from the end of the key to its beginning. *)

\* HasSeparator and Ambiguous, place by place.
LEMMA NextCharacter ==
    ASSUME NEW T, NEW path \in Seq(T), ~HasSeparator(path), ~Ambiguous(path),
           NEW i \in 1 .. Len(path) - 1, path[i] = Underscore
    PROVE  path[i + 1] # Underscore /\ path[i + 1] # Slash
<1>1. Len(path) \in Nat /\ i \in 1 .. Len(path) /\ i + 1 \in 1 .. Len(path) /\ i \in Int /\ i + 1 \in Int
  BY LenProperties
<1>2. path[i + 1] # Slash
  BY DEF Ambiguous, Slash, Underscore
<1>3. ASSUME path[i + 1] = Underscore
      PROVE  FALSE
  <2>1. SubSeq(path, i, i + 1) = <<path[i], path[i + 1]>>
    BY <1>1, PairOf
  <2>2. SubSeq(path, i, i + 1) = FlatSeparator
    BY <1>3, <2>1, Zenon DEF FlatSeparator, Underscore
  <2>3. QED
    BY <2>2 DEF HasSeparator
<1>4. QED
  BY <1>2, <1>3

LEMMA DecodingStep ==
    ASSUME NEW T, NEW path \in Seq(T), ~HasSeparator(path), ~Ambiguous(path),
           NEW key \in Seq(T), NEW at, Layout(at, path, key),
           NEW f, \A k \in 1 .. Len(key) + 2 : f[k] = DecodedAt(f, key, k),
           NEW i \in 1 .. Len(path)
    PROVE  f[at[i]] = <<path[i]>> \o f[at[i + 1]]
<1>1. /\ Len(path) \in Nat /\ Len(key) \in Nat
      /\ at[i] \in 1 .. Len(key) /\ at[Len(path) + 1] = Len(key) + 1
  BY LenProperties DEF Layout
<1>2. f[at[i]] = DecodedAt(f, key, at[i]) /\ ~ (at[i] > Len(key))
  BY <1>1
<1>3. CASE path[i] = Slash
  <2>1. /\ at[i + 1] = at[i] + 2 /\ at[i] < Len(key)
        /\ key[at[i]] = Underscore /\ key[at[i] + 1] = Underscore
    BY <1>3 DEF Layout
  <2>2. SubSeq(key, at[i], at[i] + 1) = <<Underscore, Underscore>>
    <3>1. at[i] \in 1 .. Len(key) - 1
      BY <1>1, <2>1
    <3>2. QED
      BY <2>1, <3>1, PairOf
  <2>3. QED
    BY <1>2, <1>3, <2>1, <2>2, Zenon DEF DecodedAt
<1>4. CASE path[i] # Slash
  <2>1. at[i + 1] = at[i] + 1 /\ key[at[i]] = path[i]
    BY <1>4 DEF Layout
  <2>2. ASSUME at[i] < Len(key), SubSeq(key, at[i], at[i] + 1) = <<Underscore, Underscore>>
        PROVE  FALSE
    <3>1. at[i] \in 1 .. Len(key) - 1
      BY <1>1, <2>2
    <3>2. key[at[i]] = Underscore /\ key[at[i] + 1] = Underscore
      <4>1. SubSeq(key, at[i], at[i] + 1) = <<key[at[i]], key[at[i] + 1]>>
        BY <3>1, PairOf
      <4>2. QED
        BY <2>2, <4>1
    <3>3. i # Len(path)
      BY <1>1, <2>1, <3>1
    <3>4. i \in 1 .. Len(path) - 1 /\ i + 1 \in 1 .. Len(path)
      BY <1>1, <3>3
    <3>5. path[i + 1] # Underscore /\ path[i + 1] # Slash
      BY <2>1, <3>2, <3>4, NextCharacter
    <3>6. key[at[i + 1]] = path[i + 1]
      BY <3>4, <3>5 DEF Layout
    <3>7. QED
      BY <2>1, <3>2, <3>5, <3>6
  <2>3. f[at[i]] = <<key[at[i]]>> \o f[at[i] + 1]
    BY <1>2, <2>2, Zenon DEF DecodedAt
  <2>4. QED
    BY <2>1, <2>3, Zenon
<1>5. QED
  BY <1>3, <1>4

LEMMA Decoding ==
    ASSUME NEW T, NEW path \in Seq(T), ~HasSeparator(path), ~Ambiguous(path),
           NEW key \in Seq(T), NEW at, Layout(at, path, key)
    PROVE  Unflatten(key) = path
<1> DEFINE n == Len(path)
<1>1. n \in Nat /\ Len(key) \in Nat
  BY LenProperties
<1>2. PICK f : /\ \A k \in 1 .. Len(key) + 2 : f[k] = DecodedAt(f, key, k)
               /\ Unflatten(key) = f[1]
  BY UnflattenIs
<1>3. \A i \in 1 .. n : f[at[i]] = <<path[i]>> \o f[at[i + 1]]
  BY <1>2, DecodingStep
<1>4. f[at[n + 1]] = <<>> /\ at[1] = 1
  <2>1. at[1] = 1 /\ at[n + 1] = Len(key) + 1
    BY DEF Layout
  <2>2. Len(key) + 1 \in 1 .. Len(key) + 2 /\ Len(key) + 1 > Len(key)
    BY <1>1
  <2>3. f[Len(key) + 1] = <<>>
    BY <1>2, <2>2 DEF DecodedAt
  <2>4. QED
    BY <2>1, <2>3
<1> DEFINE Known == {i \in Nat : f[at[i + 1]] = SubSeq(path, i + 1, n)}
<1>5. n \in Known
  <2>1. SubSeq(path, n + 1, n) = <<>>
    BY <1>1, SubSeqEmpty
  <2>2. QED
    BY <1>1, <1>4, <2>1
<1>6. \A i \in 1 .. n : i \in Known => i - 1 \in Known
  <2> TAKE i \in 1 .. n
  <2> HAVE i \in Known
  <2>1. f[at[i + 1]] = SubSeq(path, i + 1, n)
    OBVIOUS
  <2>2. SubSeq(path, i, n) = <<path[i]>> \o SubSeq(path, i + 1, n)
    <3>1. n \in i .. n
      BY <1>1
    <3>2. QED
      BY <1>1, <3>1, SubSeqRecursiveFirst
  <2>3. f[at[i]] = SubSeq(path, i, n)
    BY <1>3, <2>1, <2>2, Zenon
  <2>4. i - 1 \in Nat /\ (i - 1) + 1 = i
    BY <1>1
  <2>5. QED
    BY <2>3, <2>4
<1>7. 0 \in Known
  <2> HIDE DEF Known, n
  <2>1. \A i \in 0 .. n : i \in Known
    BY <1>1, <1>5, <1>6, DownwardInduction
  <2>2. QED
    BY <1>1, <2>1
<1>8. f[at[0 + 1]] = SubSeq(path, 0 + 1, n)
  BY <1>7, Zenon
<1>9. SubSeq(path, 1, n) = path
  BY SubSeqFull
<1>10. QED
  BY <1>2, <1>4, <1>8, <1>9

LEMMA DecodeEncoded ==
    ASSUME NEW T, Underscore \in T, Slash \in T, NEW path \in Seq(T), NEW format,
           Encodable(path, format), ~Ambiguous(path), format \in {"flat", "path"}
    PROVE  DecodeKey(EncodeKey(path, format), format) = path
<1>1. CASE format = "path"
  BY <1>1, Zenon DEF DecodeKey, EncodeKey
<1>2. CASE format = "flat"
  <2>1. ~HasSeparator(path)
    BY <1>2, Zenon DEF Encodable
  <2>2. CASE path # <<>>
    <3>1. PICK at : Layout(at, path, EncodeKey(path, "flat"))
      BY <2>2, FlatLayout
    <3>2. EncodeKey(path, "flat") \in Seq(T)
      BY <2>2, FlatLayout
    <3>3. Unflatten(EncodeKey(path, "flat")) = path
      BY <2>1, <3>1, <3>2, Decoding
    <3>4. QED
      BY <1>2, <3>3 DEF DecodeKey
  <2>3. CASE path = <<>>
    <3>1. EncodeKey(path, "flat") = <<>>
      <4>1. Pieces(path) = <<>>
        BY <2>3 DEF Pieces
      <4>2. EncodeKey(path, "flat") = FlattenSeq(Pieces(path))
        BY Zenon DEF EncodeKey, Pieces, FlatSeparator, Slash, Underscore
      <4>3. FlattenSeq(<<>>) = <<>>
        BY DEF FlattenSeq
      <4>4. QED
        BY <4>1, <4>2, <4>3
    <3>2. PICK f : /\ \A k \in 1 .. Len(<<>>) + 2 : f[k] = DecodedAt(f, <<>>, k)
                   /\ Unflatten(<<>>) = f[1]
      <4>1. <<>> \in Seq(T)
        BY EmptySeq
      <4>2. QED
        BY <4>1, UnflattenIs
    <3>3. f[1] = <<>>
      <4>1. Len(<<>>) = 0 /\ 1 \in 1 .. 0 + 2 /\ 1 > 0
        OBVIOUS
      <4>2. f[1] = DecodedAt(f, <<>>, 1)
        BY <3>2, <4>1
      <4>3. 1 > Len(<<>>)
        BY <4>1
      <4>4. QED
        BY <4>2, <4>3, Zenon DEF DecodedAt
    <3>4. QED
      BY <1>2, <2>3, <3>1, <3>2, <3>3 DEF DecodeKey
  <2>4. QED
    BY <2>2, <2>3
<1>3. QED
  BY <1>1, <1>2

\* keys.py: what can be encoded and has no underscore beside a slash is read back from its
\* key as it was, in either format, however long the path is and whatever it is made of.
THEOREM DecodeUndoesEncode ==
    ASSUME NEW T, "_" \in T, "/" \in T, NEW path \in Seq(T), NEW format \in {"flat", "path"},
           Encodable(path, format), ~Ambiguous(path)
    PROVE  DecodeKey(EncodeKey(path, format), format) = path
<1>1. Underscore \in T /\ Slash \in T
  BY Zenon DEF Underscore, Slash
<1>2. QED
  BY <1>1, DecodeEncoded, Zenon

\* So no two such paths share a key.
THEOREM KeysAreInjective ==
    ASSUME NEW T, "_" \in T, "/" \in T, NEW format \in {"flat", "path"},
           NEW p \in Seq(T), Encodable(p, format), ~Ambiguous(p),
           NEW q \in Seq(T), Encodable(q, format), ~Ambiguous(q),
           EncodeKey(p, format) = EncodeKey(q, format)
    PROVE  p = q
<1>1. DecodeKey(EncodeKey(p, format), format) = p
  BY DecodeUndoesEncode, Zenon
<1>2. DecodeKey(EncodeKey(q, format), format) = q
  BY DecodeUndoesEncode, Zenon
<1>3. QED
  BY <1>1, <1>2, Zenon
=============================================================================
