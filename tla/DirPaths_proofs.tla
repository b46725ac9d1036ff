--------------------------- MODULE DirPaths_proofs ---------------------------
(***************************************************************************)
(* Proofs about DirPaths, for path tables of any length and identifiers of *)
(* any bytes.  Every record of the table is read once and whole, and each  *)
(* directory points at an earlier one or at itself, so the directories of  *)
(* a path are strictly ordered (Inv).  On top of that come the names: what *)
(* the conversion of module Utf16 makes of an identifier, and what is put  *)
(* together of it (NamesInv).                                              *)
(*                                                                         *)
(* A recursive definition of the model is a function that is chosen: the   *)
(* lemmas of the first part say that there is one, and what it gives is    *)
(* then proved by induction along its arguments.                           *)
(***************************************************************************)
EXTENDS DirPaths, FiniteSetTheorems, WellFoundedInduction, TLAPS

-----------------------------------------------------------------------------
(* Induction over the natural numbers, from a least counterexample.        *)
LEMMA LeastElement ==
    ASSUME NEW T \in SUBSET Nat, T # {}
    PROVE  \E n \in T : \A m \in T : n <= m
<1>. DEFINE Below == {0 .. (n - 1) : n \in T}
<1>1. Below \in SUBSET FiniteSubsetsOf(Nat) /\ Below # {}
  <2>1. ASSUME NEW n \in T PROVE 0 .. (n - 1) \in FiniteSubsetsOf(Nat)
    <3>1. IsFiniteSet(0 .. (n - 1))
      BY FS_Interval
    <3>. QED BY <3>1 DEF FiniteSubsetsOf
  <2>. QED BY <2>1
<1>2. PICK b \in Below : \A c \in Below : <<c, b>> \notin StrictSubsetOrdering(Nat)
  <2>. HIDE DEF Below
  <2>. QED BY <1>1, WFMin, FS_StrictSubsetOrderingWellFounded
<1>3. PICK n \in T : b = 0 .. (n - 1)
  BY <1>2
<1>4. ASSUME NEW m \in T, m < n PROVE FALSE
  <2>1. 0 .. (m - 1) \in Below /\ 0 .. (m - 1) \in SUBSET Nat /\ b \in SUBSET Nat
    BY <1>3
  <2>2. 0 .. (m - 1) \subseteq b
    BY <1>3, <1>4
  <2>3. m \in b /\ m \notin 0 .. (m - 1)
    BY <1>3, <1>4
  <2>. QED BY <1>2, <2>1, <2>2, <2>3 DEF StrictSubsetOrdering
<1>. QED BY <1>4

(* What holds of 0 and of each next number holds of all.                   *)
LEMMA Induct ==
    ASSUME NEW P \in SUBSET Nat, 0 \in P, \A n \in P : n + 1 \in P
    PROVE  P = Nat
<1>. SUFFICES ASSUME Nat \ P # {} PROVE FALSE
  OBVIOUS
<1>1. PICK n \in Nat \ P : \A m \in Nat \ P : n <= m
  BY LeastElement
<1>2. n # 0 /\ n - 1 \in Nat
  OBVIOUS
<1>3. n - 1 \in P
  BY <1>1, <1>2
<1>. QED BY <1>3

(* A function that grows from each argument to the next grows.             *)
LEMMA Grows ==
    ASSUME NEW n \in Nat, NEW f \in [1 .. n -> Nat],
           \A i \in 1 .. n : i + 1 \in 1 .. n => f[i] < f[i + 1]
    PROVE  \A i, j \in 1 .. n : i < j => f[i] < f[j]
<1>. DEFINE P == {m \in Nat : \A i \in 1 .. n : i + m + 1 \in 1 .. n =>
                                                   f[i] < f[i + m + 1]}
<1>1. 0 \in P
  OBVIOUS
<1>2. ASSUME NEW m \in P PROVE m + 1 \in P
  <2>. SUFFICES ASSUME NEW i \in 1 .. n, i + (m + 1) + 1 \in 1 .. n
                PROVE  f[i] < f[i + (m + 1) + 1]
    OBVIOUS
  <2>1. PICK k \in 1 .. n : k = i + m + 1
    OBVIOUS
  <2>2. f[i] < f[k] /\ f[k] < f[k + 1]
    BY <2>1
  <2>3. k + 1 \in 1 .. n /\ i + (m + 1) + 1 = k + 1
    BY <2>1
  <2>. QED BY <2>2, <2>3
<1>3. P = Nat
  <2>. HIDE DEF P
  <2>1. P \in SUBSET Nat
    BY DEF P
  <2>. QED BY <1>1, <1>2, <2>1, Induct
<1>. SUFFICES ASSUME NEW i \in 1 .. n, NEW j \in 1 .. n, i < j
              PROVE  f[i] < f[j]
  OBVIOUS
<1>4. PICK m \in Nat : j = i + m + 1
  <2>1. j - i - 1 \in Nat /\ j = i + (j - i - 1) + 1
    OBVIOUS
  <2>. QED BY <2>1
<1>. QED BY <1>3, <1>4

(* A function can be defined by recursion on its argument: the value at k  *)
(* is made of the value at an earlier place, or at a later one.            *)
Earlier(prv, N) == prv \in [1 .. N -> Nat] /\ \A k \in 1 .. N : prv[k] < k
Later(nxt, N) ==
    nxt \in [0 .. (N - 1) -> 0 .. N] /\ \A k \in 0 .. (N - 1) : k < nxt[k]

FromEarlier(g, N, base, prv, F) ==
    g[0] = base /\ \A k \in 1 .. N : g[k] = F[k][g[prv[k]]]
FromLater(g, N, base, nxt, F) ==
    g[N] = base /\ \A k \in 0 .. (N - 1) : g[k] = F[k][g[nxt[k]]]

(* There is a function whose values are made of earlier values.            *)
LEMMA Forward ==
    ASSUME NEW N \in Nat, NEW S, NEW base \in S,
           NEW prv, Earlier(prv, N), NEW F, F \in [1 .. N -> [S -> S]]
    PROVE  \E g \in [0 .. N -> S] : FromEarlier(g, N, base, prv, F)
<1>. USE DEF Earlier, FromEarlier
<1>. DEFINE Good(n, g) == g[0] = base /\ \A k \in 1 .. n : g[k] = F[k][g[prv[k]]]
            P == {n \in Nat : n <= N => \E g \in [0 .. n -> S] : Good(n, g)}
<1>1. 0 \in P
  <2>1. Good(0, [k \in 0 .. 0 |-> base])
    OBVIOUS
  <2>. QED BY <2>1
<1>2. ASSUME NEW n \in P PROVE n + 1 \in P
  <2>. SUFFICES ASSUME n + 1 <= N PROVE \E g \in [0 .. (n + 1) -> S] : Good(n + 1, g)
    OBVIOUS
  <2>1. PICK g \in [0 .. n -> S] : Good(n, g)
    OBVIOUS
  <2>2. n + 1 \in 1 .. N /\ prv[n + 1] \in 0 .. n
    OBVIOUS
  <2>. DEFINE v == F[n + 1][g[prv[n + 1]]]
              h == [k \in 0 .. (n + 1) |-> IF k = n + 1 THEN v ELSE g[k]]
  <2>3. v \in S
    BY <2>2
  <2>4. h \in [0 .. (n + 1) -> S]
    BY <2>3
  <2>5. ASSUME NEW k \in 1 .. (n + 1) PROVE h[k] = F[k][h[prv[k]]]
    <3>1. CASE k = n + 1
      BY <2>2, <3>1
    <3>2. CASE k # n + 1
      <4>1. k \in 1 .. n /\ k \in 1 .. N /\ prv[k] \in 0 .. n /\ k # n + 1 /\ prv[k] # n + 1
        BY <3>2
      <4>2. h[k] = g[k] /\ h[prv[k]] = g[prv[k]]
        BY <4>1
      <4>. QED BY <2>1, <4>1, <4>2
    <3>. QED BY <3>1, <3>2
  <2>6. h[0] = base
    BY <2>1
  <2>. QED BY <2>4, <2>5, <2>6
<1>3. N \in P
  <2>. HIDE DEF P
  <2>1. P \in SUBSET Nat
    BY DEF P
  <2>. QED BY <1>1, <1>2, <2>1, Induct
<1>. QED BY <1>3

(* There is one whose values are made of later values.                     *)
LEMMA Backward ==
    ASSUME NEW N \in Nat, NEW S, NEW base \in S,
           NEW nxt, Later(nxt, N), NEW F, F \in [0 .. (N - 1) -> [S -> S]]
    PROVE  \E g \in [0 .. N -> S] : FromLater(g, N, base, nxt, F)
<1>. USE DEF Later
<1>. DEFINE prv == [k \in 1 .. N |-> N - nxt[N - k]]
            G == [k \in 1 .. N |-> F[N - k]]
<1>1. ASSUME NEW k \in 1 .. N
      PROVE  /\ N - k \in 0 .. (N - 1) /\ prv[k] \in Nat /\ prv[k] < k
             /\ G[k] \in [S -> S]
  <2>1. N - k \in 0 .. (N - 1)
    OBVIOUS
  <2>2. nxt[N - k] \in 0 .. N /\ N - k < nxt[N - k] /\ F[N - k] \in [S -> S]
    BY <2>1
  <2>. QED BY <2>1, <2>2
<1>2. prv \in [1 .. N -> Nat] /\ G \in [1 .. N -> [S -> S]]
  BY <1>1
<1>3. PICK h \in [0 .. N -> S] : FromEarlier(h, N, base, prv, G)
  <2>1. Earlier(prv, N)
    BY <1>1, <1>2 DEF Earlier
  <2>. HIDE DEF prv, G
  <2>. QED BY <1>2, <2>1, Forward
<1>. DEFINE g == [k \in 0 .. N |-> h[N - k]]
<1>4. g \in [0 .. N -> S] /\ g[N] = base
  <2>1. \A k \in 0 .. N : N - k \in 0 .. N
    OBVIOUS
  <2>2. N - N = 0
    OBVIOUS
  <2>. QED BY <1>3, <2>1, <2>2 DEF FromEarlier
<1>5. ASSUME NEW k \in 0 .. (N - 1) PROVE g[k] = F[k][g[nxt[k]]]
  <2>1. N - k \in 1 .. N /\ N - (N - k) = k
    OBVIOUS
  <2>2. g[k] = F[k][h[prv[N - k]]]
    BY <1>3, <2>1 DEF FromEarlier
  <2>3. prv[N - k] = N - nxt[k] /\ nxt[k] \in 0 .. N
    BY <2>1
  <2>. QED BY <2>2, <2>3
<1>. QED BY <1>4, <1>5 DEF FromLater

(* What holds of a place when it holds of all later ones holds of all.     *)
LEMMA FromTheEnd ==
    ASSUME NEW N \in Nat, NEW P \in SUBSET (0 .. N),
           \A k \in 0 .. N : (\A j \in (k + 1) .. N : j \in P) => k \in P
    PROVE  P = 0 .. N
<1>. DEFINE Q == {n \in Nat : \A k \in 0 .. N : N - k <= n => k \in P}
<1>1. 0 \in Q
  OBVIOUS
<1>2. ASSUME NEW n \in Q PROVE n + 1 \in Q
  <2>. SUFFICES ASSUME NEW k \in 0 .. N, N - k <= n + 1 PROVE k \in P
    OBVIOUS
  <2>1. \A j \in (k + 1) .. N : j \in 0 .. N /\ N - j <= n
    OBVIOUS
  <2>. QED BY <2>1
<1>3. Q = Nat
  <2>. HIDE DEF Q
  <2>1. Q \in SUBSET Nat
    BY DEF Q
  <2>. QED BY <1>1, <1>2, <2>1, Induct
<1>4. N \in Q
  BY <1>3, Zenon
<1>5. \A k \in 0 .. N : k \in P
  BY <1>4
<1>. QED BY <1>5

-----------------------------------------------------------------------------
(* Sequences.                                                              *)
LEMMA ElementIn ==
    ASSUME NEW S, NEW s \in Seq(S), NEW i \in DOMAIN s
    PROVE  s[i] \in S
OBVIOUS

(* A function on 1 .. n is a sequence.                                     *)
LEMMA IsSequence ==
    ASSUME NEW n \in Nat, NEW S, NEW f \in [1 .. n -> S]
    PROVE  f \in Seq(S) /\ Len(f) = n /\ DOMAIN f = 1 .. n
OBVIOUS

(* A sequence cut to its own length.                                       *)
LEMMA WholeSequence ==
    ASSUME NEW S, NEW s \in Seq(S)
    PROVE  SubSeq(s, 1, Len(s)) = s
OBVIOUS

(* A sequence with one element more in front.                              *)
LEMMA LinkInFront ==
    ASSUME NEW S, NEW l \in Seq(S), NEW n \in Nat, n = Len(l), NEW x \in S,
           NEW m, m = <<x>> \o l
    PROVE  /\ Len(m) = n + 1 /\ m[1] = x /\ DOMAIN m = 1 .. (n + 1)
           /\ \A k \in 1 .. n : m[k + 1] = l[k]
OBVIOUS

-----------------------------------------------------------------------------
(* The conversion of an identifier (util.c:19-45).                         *)
LEMMA CharBytes ==
    ASSUME NEW u \in Nat
    PROVE  Char(u) \in Seq(Byte) /\ Len(Char(u)) \in 1 .. 3
<1>1. /\ Bits(u, 0, 8) \in Byte
      /\ 192 + Bits(u, 6, 5) \in Byte /\ 128 + Bits(u, 0, 6) \in Byte
      /\ 224 + Bits(u, 12, 4) \in Byte /\ 128 + Bits(u, 6, 6) \in Byte
  BY DEF Bits, Byte
<1>2. CASE Bits(u, 7, 9) = 0
  BY <1>1, <1>2 DEF Char
<1>3. CASE Bits(u, 7, 9) # 0 /\ Bits(u, 11, 5) = 0
  BY <1>1, <1>3 DEF Char
<1>4. CASE Bits(u, 7, 9) # 0 /\ Bits(u, 11, 5) # 0
  BY <1>1, <1>4 DEF Char
<1>. QED BY <1>2, <1>3, <1>4

(* The bytes of a character of two words.                                  *)
LEMMA PairBytes ==
    ASSUME NEW u \in Nat, NEW v \in Nat
    PROVE  Pair(u, v) \in Seq(Byte) /\ Len(Pair(u, v)) = 4
<1>1. /\ 240 + Bits(u + 64, 8, 2) \in Byte
      /\ 128 + 16 * Bits(u, 8, 2) + 4 * Bits(v, 0, 2) \in Byte
      /\ 128 + Bits(v, 0, 6) \in Byte
  BY DEF Bits, Byte
<1>2. 128 + Bits(Bits(u, 2, 16) + 16, 0, 6) \in Byte
  BY DEF Bits, Byte
<1>. QED BY <1>1, <1>2 DEF Pair

(* A word of the buffer, with its upper byte once more above it.           *)
LEMMA UnitIs ==
    ASSUME NEW m \in Seq(Byte), NEW k \in Nat, 2 * k + 2 <= Len(m)
    PROVE  /\ m[2 * k + 1] \in Byte /\ m[2 * k + 2] \in Byte
           /\ Unit(m, k) = 256 * m[2 * k + 1] + m[2 * k + 2] + 65536 * m[2 * k + 2]
           /\ Unit(m, k) \in Nat
<1>1. m[2 * k + 1] \in Byte /\ m[2 * k + 2] \in Byte
  OBVIOUS
<1>2. PICK a \in 0 .. 255, b \in 0 .. 255 : a = m[2 * k + 1] /\ b = m[2 * k + 2]
  BY <1>1 DEF Byte
<1>3. (a + 256 * b) \div 256 = b
  OBVIOUS
<1>4. Unit(m, k) = 256 * a + b + 65536 * b /\ Unit(m, k) \in Nat
  <2>1. Unit(m, k) = Swap(a + 256 * b)
    BY <1>2 DEF Unit
  <2>. QED BY <1>3, <2>1 DEF Swap
<1>. QED BY <1>1, <1>2, <1>4

(* A buffer of words that ends with a word 0.                              *)
Ended(m) ==
    /\ m \in Seq(Byte) /\ LastWord(m) \in Nat
    /\ Unit(m, LastWord(m)) = 0

(* The words up to the last are in the buffer.                             *)
LEMMA InBuffer ==
    ASSUME NEW m, Ended(m), NEW k \in 0 .. LastWord(m)
    PROVE  2 * k + 2 <= Len(m) /\ Unit(m, k) \in Nat
<1>1. 2 * k + 2 <= Len(m)
  <2>1. PICK n \in Nat : n = Len(m)
    BY DEF Ended
  <2>2. k <= (n \div 2) - 1
    BY <2>1 DEF Ended, LastWord
  <2>. QED BY <2>1, <2>2
<1>. QED BY <1>1, UnitIs DEF Ended

(* No character goes beyond a word that is 0.                              *)
LEMMA AfterIn ==
    ASSUME NEW m, Ended(m), NEW z \in 0 .. LastWord(m), Unit(m, z) = 0,
           NEW k \in 0 .. z, Unit(m, k) # 0
    PROVE  After(m, k) \in (k + 1) .. z
<1>1. k < z
  OBVIOUS
<1>2. CASE PairAhead(m, k)
  <2>1. Bits(0, 10, 6) # 55
    BY DEF Bits
  <2>2. k + 1 # z
    BY <1>2, <2>1 DEF PairAhead, IsPair
  <2>. QED BY <1>1, <1>2, <2>2 DEF After
<1>3. CASE ~PairAhead(m, k)
  BY <1>1, <1>3 DEF After
<1>. QED BY <1>2, <1>3

(* A character has at most four bytes for each of its words.               *)
LEMMA WrittenBytes ==
    ASSUME NEW m, Ended(m), NEW k \in 0 .. LastWord(m), Unit(m, k) # 0
    PROVE  /\ Written(m, k) \in Seq(Byte)
           /\ Len(Written(m, k)) <= 4 * (After(m, k) - k)
<1>1. Unit(m, k) \in Nat
  BY InBuffer
<1>2. CASE PairAhead(m, k)
  <2>1. LastWord(m) \in 0 .. LastWord(m) /\ Unit(m, LastWord(m)) = 0
    BY DEF Ended
  <2>2. After(m, k) \in (k + 1) .. LastWord(m) /\ After(m, k) = k + 2
    BY <1>2, <2>1, AfterIn DEF After
  <2>3. Unit(m, k + 1) \in Nat
    <3>1. k + 1 \in 0 .. LastWord(m)
      BY <2>2 DEF Ended
    <3>. QED BY <3>1, InBuffer
  <2>4. Written(m, k) = Pair(Unit(m, k), Unit(m, k + 1))
    BY <1>2 DEF Written
  <2>5. 4 <= 4 * (After(m, k) - k)
    BY <2>2
  <2>. QED BY <1>1, <2>3, <2>4, <2>5, PairBytes
<1>3. CASE ~PairAhead(m, k)
  <2>1. Written(m, k) = Char(Unit(m, k)) /\ After(m, k) = k + 1
    BY <1>3 DEF Written, After
  <2>2. 4 * (After(m, k) - k) = 4
    BY <2>1
  <2>3. /\ Written(m, k) \in Seq(Byte)
        /\ Len(Written(m, k)) \in 1 .. 3
    BY <1>1, <2>1, CharBytes
  <2>4. Len(Written(m, k)) <= 4
    <3>1. PICK n \in 1 .. 3 : n = Len(Written(m, k))
      BY <2>3, Zenon
    <3>. QED BY <3>1
  <2>. QED BY <2>2, <2>3, <2>4, Zenon
<1>. QED BY <1>2, <1>3

(* The two loops of the conversion.                                        *)
LEMMA Conversion ==
    ASSUME NEW m, Ended(m)
    PROVE  \E f \in [0 .. LastWord(m) -> Seq(Byte)] :
              /\ Converted(m) = f[0]
              /\ \A k \in 0 .. LastWord(m) :
                    f[k] = IF Unit(m, k) = 0 THEN <<>>
                           ELSE Written(m, k) \o f[After(m, k)]
<1>. DEFINE N == LastWord(m)
            nxt == [k \in 0 .. (N - 1) |-> IF Unit(m, k) = 0 THEN N ELSE After(m, k)]
            F == [k \in 0 .. (N - 1) |->
                    [s \in Seq(Byte) |-> IF Unit(m, k) = 0 THEN <<>>
                                         ELSE Written(m, k) \o s]]
<1>1. N \in Nat /\ Unit(m, N) = 0 /\ <<>> \in Seq(Byte)
  BY DEF Ended
<1>2. Later(nxt, N)
  <2>1. ASSUME NEW k \in 0 .. (N - 1) PROVE nxt[k] \in (k + 1) .. N
    <3>1. CASE Unit(m, k) = 0
      BY <1>1, <3>1
    <3>2. CASE Unit(m, k) # 0
      <4>1. k \in 0 .. N /\ N \in 0 .. N
        BY <1>1
      <4>2. After(m, k) \in (k + 1) .. N
        BY <1>1, <3>2, <4>1, AfterIn
      <4>. QED BY <3>2, <4>2
    <3>. QED BY <3>1, <3>2
  <2>2. \A k \in 0 .. (N - 1) : nxt[k] \in 0 .. N /\ k < nxt[k]
    BY <1>1, <2>1
  <2>. QED BY <2>2 DEF Later
<1>3. F \in [0 .. (N - 1) -> [Seq(Byte) -> Seq(Byte)]]
  <2>1. ASSUME NEW k \in 0 .. (N - 1), NEW s \in Seq(Byte), Unit(m, k) # 0
        PROVE  Written(m, k) \o s \in Seq(Byte)
    <3>1. Written(m, k) \in Seq(Byte)
      BY <1>1, <2>1, WrittenBytes
    <3>. QED BY <3>1
  <2>. QED BY <1>1, <2>1
<1>4. PICK f \in [0 .. N -> Seq(Byte)] : FromLater(f, N, <<>>, nxt, F)
  <2>. HIDE DEF N, nxt, F
  <2>. QED BY <1>1, <1>2, <1>3, Backward
<1>5. ASSUME NEW k \in 0 .. N
      PROVE  f[k] = IF Unit(m, k) = 0 THEN <<>> ELSE Written(m, k) \o f[After(m, k)]
  <2>1. CASE k = N
    BY <1>1, <1>4, <2>1 DEF FromLater
  <2>2. CASE k # N
    <3>1. k \in 0 .. (N - 1)
      BY <1>1, <2>2
    <3>2. f[k] = F[k][f[nxt[k]]] /\ nxt[k] \in 0 .. N
      BY <1>2, <1>4, <3>1 DEF FromLater, Later
    <3>3. f[nxt[k]] \in Seq(Byte)
      BY <3>2
    <3>. QED BY <3>1, <3>2, <3>3
  <2>. QED BY <2>1, <2>2
<1>6. f = [k \in 0 .. N |-> IF Unit(m, k) = 0 THEN <<>>
                             ELSE Written(m, k) \o f[After(m, k)]]
  BY <1>5
<1>7. PICK g : /\ g = [k \in 0 .. N |-> IF Unit(m, k) = 0 THEN <<>>
                                       ELSE Written(m, k) \o g[After(m, k)]]
             /\ Converted(m) = g[0]
  BY <1>6 DEF Converted
<1>8. ASSUME NEW k \in 0 .. N, \A j \in (k + 1) .. N : g[j] \in Seq(Byte)
      PROVE  g[k] \in Seq(Byte)
  <2>1. CASE Unit(m, k) = 0
    BY <1>1, <1>7, <2>1
  <2>2. CASE Unit(m, k) # 0
    <3>1. Written(m, k) \in Seq(Byte)
      BY <2>2, WrittenBytes
    <3>2. After(m, k) \in (k + 1) .. N
      BY <1>1, <2>2, AfterIn
    <3>3. g[k] = Written(m, k) \o g[After(m, k)]
      BY <1>7, <2>2
    <3>. QED BY <1>8, <3>1, <3>2, <3>3
  <2>. QED BY <2>1, <2>2
<1>9. g \in [0 .. N -> Seq(Byte)]
  <2>. DEFINE P == {k \in 0 .. N : g[k] \in Seq(Byte)}
  <2>1. \A k \in 0 .. N : (\A j \in (k + 1) .. N : j \in P) => k \in P
    BY <1>8
  <2>2. P = 0 .. N
    <3>. HIDE DEF N
    <3>1. P \in SUBSET (0 .. N)
      OBVIOUS
    <3>. HIDE DEF P
    <3>. QED BY <1>1, <2>1, <3>1, FromTheEnd
  <2>. QED BY <1>7, <2>2
<1>10. \A k \in 0 .. N : g[k] = IF Unit(m, k) = 0 THEN <<>>
                               ELSE Written(m, k) \o g[After(m, k)]
  BY <1>7
<1>. QED BY <1>7, <1>9, <1>10

(* No word is read after the first that is 0.                              *)
LEMMA Reads ==
    ASSUME NEW m, Ended(m), NEW z \in 0 .. LastWord(m), Unit(m, z) = 0
    PROVE  WordsRead(m) \in 1 .. (z + 1)
<1>. DEFINE N == LastWord(m)
            nxt == [k \in 0 .. (N - 1) |-> IF Unit(m, k) = 0 THEN N ELSE After(m, k)]
            F == [k \in 0 .. (N - 1) |->
                    [s \in Nat |-> IF Unit(m, k) = 0 THEN k + 1 ELSE s]]
<1>1. N \in Nat /\ Unit(m, N) = 0
  BY DEF Ended
<1>2. Later(nxt, N)
  <2>1. ASSUME NEW k \in 0 .. (N - 1) PROVE nxt[k] \in (k + 1) .. N
    <3>1. CASE Unit(m, k) = 0
      BY <1>1, <3>1
    <3>2. CASE Unit(m, k) # 0
      <4>1. k \in 0 .. N /\ N \in 0 .. N
        BY <1>1
      <4>2. After(m, k) \in (k + 1) .. N
        BY <1>1, <3>2, <4>1, AfterIn
      <4>. QED BY <3>2, <4>2
    <3>. QED BY <3>1, <3>2
  <2>2. \A k \in 0 .. (N - 1) : nxt[k] \in 0 .. N /\ k < nxt[k]
    BY <1>1, <2>1
  <2>. QED BY <2>2 DEF Later
<1>3. F \in [0 .. (N - 1) -> [Nat -> Nat]] /\ N + 1 \in Nat
  BY <1>1
<1>4. PICK f \in [0 .. N -> Nat] : FromLater(f, N, N + 1, nxt, F)
  <2>. HIDE DEF N, nxt, F
  <2>. QED BY <1>1, <1>2, <1>3, Backward
<1>5. ASSUME NEW k \in 0 .. N
      PROVE  f[k] = IF Unit(m, k) = 0 THEN k + 1 ELSE f[After(m, k)]
  <2>1. CASE k = N
    BY <1>1, <1>4, <2>1 DEF FromLater
  <2>2. CASE k # N
    <3>1. k \in 0 .. (N - 1)
      BY <1>1, <2>2
    <3>2. f[k] = F[k][f[nxt[k]]] /\ nxt[k] \in 0 .. N
      BY <1>2, <1>4, <3>1 DEF FromLater, Later
    <3>3. f[nxt[k]] \in Nat
      BY <3>2
    <3>. QED BY <3>1, <3>2, <3>3
  <2>. QED BY <2>1, <2>2
<1>6. f = [k \in 0 .. N |-> IF Unit(m, k) = 0 THEN k + 1 ELSE f[After(m, k)]]
  BY <1>5
<1>7. PICK g : /\ g = [k \in 0 .. N |-> IF Unit(m, k) = 0 THEN k + 1
                                       ELSE g[After(m, k)]]
               /\ WordsRead(m) = g[0]
  BY <1>6 DEF WordsRead
<1>8. ASSUME NEW k \in 0 .. z, \A j \in (k + 1) .. z : g[j] \in 1 .. (z + 1)
      PROVE  g[k] \in 1 .. (z + 1)
  <2>0. k \in 0 .. N
    BY <1>1
  <2>1. CASE Unit(m, k) = 0
    BY <1>7, <2>0, <2>1
  <2>2. CASE Unit(m, k) # 0
    <3>1. After(m, k) \in (k + 1) .. z
      BY <2>2, AfterIn
    <3>2. g[k] = g[After(m, k)]
      BY <1>7, <2>0, <2>2
    <3>. QED BY <1>8, <3>1, <3>2
  <2>. QED BY <2>1, <2>2
<1>9. 0 \in {k \in 0 .. z : g[k] \in 1 .. (z + 1)}
  <2>. DEFINE P == {k \in 0 .. z : g[k] \in 1 .. (z + 1)}
  <2>1. \A k \in 0 .. z : (\A j \in (k + 1) .. z : j \in P) => k \in P
    BY <1>8
  <2>2. P \in SUBSET (0 .. z) /\ z \in Nat
    BY <1>1
  <2>3. P = 0 .. z
    <3>. HIDE DEF N, P
    <3>. QED BY <2>1, <2>2, FromTheEnd
  <2>. QED BY <2>2, <2>3
<1>. QED BY <1>7, <1>9

(* What is written takes four bytes at most for each word before a 0.      *)
LEMMA WrittenLength ==
    ASSUME NEW m, Ended(m), NEW z \in 0 .. LastWord(m), Unit(m, z) = 0
    PROVE  Converted(m) \in Seq(Byte) /\ Len(Converted(m)) <= 4 * z
<1>1. PICK f \in [0 .. LastWord(m) -> Seq(Byte)] :
              /\ Converted(m) = f[0]
              /\ \A k \in 0 .. LastWord(m) :
                    f[k] = IF Unit(m, k) = 0 THEN <<>>
                           ELSE Written(m, k) \o f[After(m, k)]
  BY Conversion
<1>0. LastWord(m) \in Nat /\ z \in Nat
  BY DEF Ended
<1>. DEFINE P == {k \in 0 .. z : Len(f[k]) <= 4 * (z - k)}
<1>2. ASSUME NEW k \in 0 .. z, \A j \in (k + 1) .. z : j \in P
      PROVE  k \in P
  <2>0. k \in 0 .. LastWord(m)
    BY <1>0
  <2>1. CASE Unit(m, k) = 0
    BY <1>1, <2>0, <2>1
  <2>2. CASE Unit(m, k) # 0
    <3>1. PICK a \in (k + 1) .. z : a = After(m, k)
      BY <2>2, AfterIn
    <3>2. f[k] = Written(m, k) \o f[a] /\ a \in 0 .. LastWord(m)
      <4>1. f[k] = Written(m, k) \o f[After(m, k)]
        BY <1>1, <2>0, <2>2
      <4>. QED BY <1>0, <3>1, <4>1
    <3>3. /\ Written(m, k) \in Seq(Byte) /\ Len(Written(m, k)) <= 4 * (a - k)
          /\ f[a] \in Seq(Byte)
      BY <2>0, <2>2, <3>1, <3>2, WrittenBytes
    <3>4. Len(f[k]) = Len(Written(m, k)) + Len(f[a])
      BY <3>2, <3>3
    <3>5. Len(f[a]) <= 4 * (z - a)
      BY <1>2
    <3>. QED BY <3>1, <3>3, <3>4, <3>5
  <2>. QED BY <2>1, <2>2
<1>3. 0 \in P
  <2>1. P \in SUBSET (0 .. z)
    OBVIOUS
  <2>2. P = 0 .. z
    <3>. HIDE DEF P
    <3>. QED BY <1>0, <1>2, <2>1, FromTheEnd
  <2>. QED BY <1>0, <2>2
<1>4. 0 \in 0 .. LastWord(m) /\ 4 * (z - 0) = 4 * z
  BY <1>0
<1>. QED BY <1>1, <1>3, <1>4

(* The buffer of an identifier: its words, and where a word 0 follows.     *)
LEMMA IdBuffer ==
    ASSUME NEW id \in Seq(Byte), NEW tail \in Tails,
           NEW m, m = Memory(id, tail)
    PROVE  /\ Ended(m) /\ Words(id) \in 0 .. LastWord(m)
           /\ (Len(id) % 2 = 1 => id[Len(id)] = 0) => Unit(m, Words(id)) = 0
           /\ \A k \in 0 .. (Words(id) - 1) :
                 /\ id[2 * k + 1] \in Byte /\ id[2 * k + 2] \in Byte
                 /\ Unit(m, k) = WordAt(id, k) + 65536 * id[2 * k + 2]
<1>1. PICK n \in Nat : n = Len(id)
  OBVIOUS
<1>2. PICK rest \in Seq(Byte) :
         /\ m = id \o <<0>> \o rest
         /\ n % 2 = 0 => rest = <<0>>
         /\ n % 2 = 1 => rest \in Tails
  <2>1. 0 \in Byte /\ 65 \in Byte
    BY DEF Byte
  <2>2. <<0>> \in Seq(Byte) /\ <<0, 0>> \in Seq(Byte) /\ <<65, 0, 0, 0>> \in Seq(Byte)
    BY <2>1
  <2>3. tail \in Seq(Byte)
    BY <2>2 DEF Tails
  <2>4. CASE n % 2 = 0
    <3>1. m = id \o <<0>> \o <<0>>
      BY <1>1, <2>4 DEF Memory
    <3>2. n % 2 # 1
      BY <2>4
    <3>. QED BY <2>2, <3>1, <3>2, Zenon
  <2>5. CASE n % 2 # 0
    <3>1. m = id \o <<0>> \o tail
      BY <1>1, <2>5 DEF Memory
    <3>2. (n % 2 = 0 => tail = <<0>>) /\ (n % 2 = 1 => tail \in Tails)
      BY <2>5
    <3>. QED BY <2>3, <3>1, <3>2, Zenon
  <2>. QED BY <2>4, <2>5
<1>3. PICK l \in {1, 2, 4} :
         /\ l = Len(rest) /\ rest[l] = 0
         /\ l > 1 => rest[l - 1] = 0
         /\ n % 2 = (l + 1) % 2
  <2>1. CASE n % 2 = 0
    <3>1. 1 = Len(rest) /\ rest[1] = 0
      BY <1>2, <2>1
    <3>. QED BY <2>1, <3>1
  <2>2. CASE n % 2 = 1
    <3>1. CASE rest = <<0, 0>>
      <4>1. 2 = Len(rest) /\ rest[2] = 0 /\ rest[1] = 0
        BY <3>1
      <4>. QED BY <2>2, <4>1
    <3>2. CASE rest = <<65, 0, 0, 0>>
      <4>1. 4 = Len(rest) /\ rest[4] = 0 /\ rest[3] = 0
        BY <3>2
      <4>. QED BY <2>2, <4>1
    <3>. QED BY <1>2, <2>2, <3>1, <3>2 DEF Tails
  <2>. QED BY <2>1, <2>2
<1>4. /\ m \in Seq(Byte) /\ Len(m) = n + 1 + l
      /\ \A i \in 1 .. n : m[i] = id[i]
      /\ m[n + 1] = 0
      /\ \A i \in 1 .. l : m[n + 1 + i] = rest[i]
  <2>1. <<0>> \in Seq(Byte) /\ Len(<<0>>) = 1 /\ <<0>>[1] = 0
    BY DEF Byte
  <2>. QED BY <1>1, <1>2, <1>3, <2>1
<1>a. m \in Seq(Byte)
  BY <1>4
<1>5. PICK q \in Nat : q = Words(id) /\ q = n \div 2
  BY <1>1 DEF Words
<1>6. PICK w \in Nat : w = LastWord(m) /\ 2 * w + 2 = n + 1 + l /\ q <= w
  <2>1. (n + 1 + l) % 2 = 0 /\ n + 1 + l >= 2
    BY <1>3
  <2>2. ((n + 1 + l) \div 2) - 1 \in Nat
        /\ 2 * (((n + 1 + l) \div 2) - 1) + 2 = n + 1 + l
        /\ n \div 2 <= ((n + 1 + l) \div 2) - 1
    BY <1>3, <2>1
  <2>. QED BY <1>4, <1>5, <2>2 DEF LastWord
<1>7. m[2 * w + 1] = 0 /\ m[2 * w + 2] = 0
  <2>1. CASE l = 1
    BY <1>3, <1>4, <1>6, <2>1
  <2>2. CASE l > 1
    <3>1. 2 * w + 1 = n + 1 + (l - 1) /\ 2 * w + 2 = n + 1 + l
      BY <1>6
    <3>2. l - 1 \in 1 .. l /\ l \in 1 .. l
      BY <2>2
    <3>. QED BY <1>3, <1>4, <2>2, <3>1, <3>2
  <2>. QED BY <2>1, <2>2
<1>8. Ended(m)
  <2>1. 2 * w + 2 <= Len(m)
    BY <1>3, <1>4, <1>6
  <2>2. Unit(m, w) = 256 * m[2 * w + 1] + m[2 * w + 2] + 65536 * m[2 * w + 2]
    BY <1>a, <2>1, UnitIs
  <2>3. Unit(m, w) = 0
    BY <1>7, <2>2
  <2>. QED BY <1>4, <1>6, <2>3 DEF Ended
<1>9. ASSUME n % 2 = 1 => id[n] = 0 PROVE Unit(m, q) = 0
  <2>1. m[2 * q + 1] = 0 /\ m[2 * q + 2] = 0 /\ 2 * q + 2 <= Len(m)
    <3>1. CASE n % 2 = 0
      <4>1. 2 * q + 1 = n + 1 /\ 2 * q + 2 = n + 1 + 1 /\ 1 \in 1 .. l
        BY <1>3, <1>5, <3>1
      <4>2. rest[1] = 0
        BY <1>2, <3>1
      <4>. QED BY <1>3, <1>4, <4>1, <4>2
    <3>2. CASE n % 2 = 1
      <4>1. 2 * q + 1 = n /\ 2 * q + 2 = n + 1 /\ n \in 1 .. n
        BY <1>5, <3>2
      <4>. QED BY <1>3, <1>4, <1>9, <3>2, <4>1
    <3>. QED BY <3>1, <3>2
  <2>2. Unit(m, q) = 256 * m[2 * q + 1] + m[2 * q + 2] + 65536 * m[2 * q + 2]
    BY <1>a, <2>1, UnitIs
  <2>. QED BY <2>1, <2>2
<1>10. ASSUME NEW k \in 0 .. (q - 1)
       PROVE  /\ id[2 * k + 1] \in Byte /\ id[2 * k + 2] \in Byte
              /\ Unit(m, k) = WordAt(id, k) + 65536 * id[2 * k + 2]
  <2>1. 2 * k + 1 \in 1 .. n /\ 2 * k + 2 \in 1 .. n
    BY <1>5
  <2>2. m[2 * k + 1] = id[2 * k + 1] /\ m[2 * k + 2] = id[2 * k + 2]
    BY <1>4, <2>1
  <2>3. 2 * k + 2 <= Len(m)
    BY <1>3, <1>4, <2>1
  <2>4. k \in Nat
    OBVIOUS
  <2>5. /\ m[2 * k + 1] \in Byte /\ m[2 * k + 2] \in Byte
        /\ Unit(m, k) = 256 * m[2 * k + 1] + m[2 * k + 2] + 65536 * m[2 * k + 2]
    BY <1>a, <2>3, <2>4, UnitIs
  <2>. QED BY <2>2, <2>5 DEF WordAt
<1>. QED BY <1>1, <1>5, <1>6, <1>8, <1>9, <1>10

(* The conversion of an identifier stays in its buffers, unless it ends    *)
(* within a word that is not 0.                                            *)
LEMMA StaysInBounds ==
    ASSUME NEW id \in Seq(Byte), NEW tail \in Tails,
           Len(id) % 2 = 1 => id[Len(id)] = 0
    PROVE  InBounds(id, tail)
<1>1. PICK m : m = Memory(id, tail)
  OBVIOUS
<1>2. PICK z \in 0 .. LastWord(m) : z = Words(id) /\ Ended(m) /\ Unit(m, z) = 0
  BY <1>1, IdBuffer
<1>3. WordsRead(m) \in 1 .. (z + 1)
  BY <1>2, Reads
<1>4. Len(Converted(m)) <= 4 * z /\ Len(Converted(m)) \in Nat
  BY <1>2, WrittenLength
<1>5. PICK n \in Nat : n = Len(id)
  OBVIOUS
<1>6. z \in Nat /\ 2 * z <= n
  BY <1>2, <1>5 DEF Words
<1>. QED BY <1>1, <1>3, <1>4, <1>5, <1>6 DEF InBounds, WordSize, Utf8Size

(* The word w, with anything above its 16 bits.                            *)
Above(u, w) == \E b \in Nat : u = w + 65536 * b

(* The bits that the code takes of a word are bits of its 16.              *)
LEMMA Masks ==
    ASSUME NEW w \in Nat, w < 65536, NEW u, Above(u, w)
    PROVE  /\ Bits(u, 10, 6) = w \div 1024
           /\ Bits(u, 7, 9) = w \div 128 /\ Bits(u, 11, 5) = w \div 2048
           /\ Bits(u, 12, 4) = w \div 4096 /\ Bits(u, 6, 6) = (w \div 64) % 64
           /\ Bits(u, 0, 6) = w % 64 /\ Bits(u, 0, 8) = w % 256
           /\ Bits(u, 6, 5) = (w \div 64) % 32
<1>0. PICK b \in Nat : u = w + 65536 * b
  BY DEF Above
<1>1. Bits(u, 10, 6) = w \div 1024
  BY <1>0, SMT DEF Bits
<1>2. Bits(u, 7, 9) = w \div 128
  BY <1>0, SMT DEF Bits
<1>3. Bits(u, 11, 5) = w \div 2048
  BY <1>0, SMT DEF Bits
<1>4. Bits(u, 12, 4) = w \div 4096
  BY <1>0, SMT DEF Bits
<1>5. Bits(u, 6, 6) = (w \div 64) % 64
  BY <1>0, SMT DEF Bits
<1>6. Bits(u, 6, 5) = (w \div 64) % 32
  BY <1>0, SMT DEF Bits
<1>7. Bits(u, 0, 6) = w % 64
  BY <1>0, SMT DEF Bits
<1>8. Bits(u, 0, 8) = w % 256
  BY <1>0, SMT DEF Bits
<1>. QED BY <1>1, <1>2, <1>3, <1>4, <1>5, <1>6, <1>7, <1>8

(* One word is written as UTF-8 has it, and is a surrogate where the code  *)
(* takes it for one.                                                       *)
LEMMA CharIs ==
    ASSUME NEW w \in Nat, w < 65536, NEW u, Above(u, w)
    PROVE  /\ Char(u) = Utf8Char(w)
           /\ Bits(u, 10, 6) = 54 => High(w)
           /\ Bits(u, 10, 6) = 55 => Low(w)
<1>0. /\ Bits(u, 10, 6) = w \div 1024
      /\ Bits(u, 7, 9) = w \div 128 /\ Bits(u, 11, 5) = w \div 2048
      /\ Bits(u, 12, 4) = w \div 4096 /\ Bits(u, 6, 6) = (w \div 64) % 64
      /\ Bits(u, 0, 6) = w % 64 /\ Bits(u, 0, 8) = w % 256
      /\ Bits(u, 6, 5) = (w \div 64) % 32
  BY Masks
<1>1. Trail(w, 0) = 128 + Bits(u, 0, 6)
  BY <1>0, SMT DEF Trail
<1>2. Trail(w, 1) = 128 + Bits(u, 6, 6)
  BY <1>0, SMT DEF Trail
<1>3. Char(u) = Utf8Char(w)
  <2>1. CASE w < 128
    <3>1. Char(u) = <<w>>
      BY <1>0, <2>1, SMT DEF Char
    <3>2. Utf8Char(w) = <<w>>
      BY <2>1, SMT DEF Utf8Char
    <3>. QED BY <3>1, <3>2
  <2>2. CASE 128 <= w /\ w < 2048
    <3>1. Bits(u, 7, 9) # 0
      BY <1>0, <2>2, SMT
    <3>2. Bits(u, 11, 5) = 0
      BY <1>0, <2>2, SMT
    <3>3. Bits(u, 6, 5) = w \div 64
      BY <1>0, <2>2, SMT
    <3>4. Char(u) = <<192 + Bits(u, 6, 5), 128 + Bits(u, 0, 6)>>
      BY <3>1, <3>2, SMT DEF Char
    <3>5. Utf8Char(w) = <<192 + Bits(u, 6, 5), 128 + Bits(u, 0, 6)>>
      BY <1>1, <2>2, <3>3, SMT DEF Utf8Char
    <3>. QED BY <3>4, <3>5
  <2>3. CASE 2048 <= w
    <3>1. Bits(u, 7, 9) # 0
      BY <1>0, <2>3, SMT
    <3>2. Bits(u, 11, 5) # 0
      BY <1>0, <2>3, SMT
    <3>3. w \div 64^2 = Bits(u, 12, 4)
      BY <1>0, SMT
    <3>4. Char(u) = <<224 + Bits(u, 12, 4), 128 + Bits(u, 6, 6), 128 + Bits(u, 0, 6)>>
      BY <3>1, <3>2, SMT DEF Char
    <3>5. Utf8Char(w) = <<224 + Bits(u, 12, 4), 128 + Bits(u, 6, 6), 128 + Bits(u, 0, 6)>>
      BY <1>1, <1>2, <2>3, <3>3, SMT DEF Utf8Char
    <3>. QED BY <3>4, <3>5
  <2>. QED BY <2>1, <2>2, <2>3
<1>4. w \div 1024 = 54 => High(w)
  BY SMT DEF High
<1>5. w \div 1024 = 55 => Low(w)
  BY SMT DEF Low
<1>. QED BY <1>0, <1>3, <1>4, <1>5

(* UTF-16 without pairs is converted as UTF-8 has it.                      *)
LEMMA ConvertsUtf16 ==
    ASSUME NEW id \in Seq(Byte), NEW tail \in Tails, IsUtf16(id), ~HasPair(id)
    PROVE  Name(id, tail) = Utf8(id)
<1>1. PICK m : m = Memory(id, tail)
  OBVIOUS
<1>2. PICK q \in 0 .. LastWord(m) : q = Words(id)
  BY <1>1, IdBuffer
<1>3. Ended(m) /\ Unit(m, q) = 0 /\ LastWord(m) \in Nat /\ q \in Nat
  BY <1>1, <1>2, IdBuffer DEF IsUtf16, Ended
<1>4. ASSUME NEW k \in 0 .. (q - 1)
      PROVE  \E w \in Nat : /\ w = WordAt(id, k) /\ w # 0 /\ w < 65536
                            /\ Above(Unit(m, k), w) /\ Unit(m, k) # 0
  <2>1. /\ id[2 * k + 1] \in Byte /\ id[2 * k + 2] \in Byte
        /\ Unit(m, k) = WordAt(id, k) + 65536 * id[2 * k + 2]
    BY <1>1, <1>2, IdBuffer
  <2>2. PICK a \in Nat, b \in Nat :
           a = id[2 * k + 1] /\ b = id[2 * k + 2] /\ a < 256 /\ b < 256
    <3>1. \A x \in Byte : x \in Nat /\ x < 256
      BY DEF Byte
    <3>2. id[2 * k + 1] \in Byte /\ id[2 * k + 2] \in Byte
      BY <2>1
    <3>3. /\ id[2 * k + 1] \in Nat /\ id[2 * k + 1] < 256
          /\ id[2 * k + 2] \in Nat /\ id[2 * k + 2] < 256
      BY <3>1, <3>2, SMT
    <3>. QED BY <3>3, SMT
  <2>3. PICK w \in Nat : w = WordAt(id, k) /\ w < 65536
    BY <2>2, SMT DEF WordAt
  <2>4. Unit(m, k) = w + 65536 * b
    BY <2>1, <2>2, <2>3
  <2>5. w # 0
    BY <1>2, <2>3 DEF IsUtf16
  <2>6. Unit(m, k) # 0
    BY <2>4, <2>5, SMT
  <2>7. Above(Unit(m, k), w)
    BY <2>4 DEF Above
  <2>. QED BY <2>3, <2>5, <2>6, <2>7
<1>5. ASSUME NEW k \in 0 .. (q - 1)
      PROVE  /\ Unit(m, k) # 0 /\ ~PairAt(id, k)
             /\ Written(m, k) = Utf8Char(WordAt(id, k)) /\ After(m, k) = k + 1
  <2>1. PICK w \in Nat : /\ w = WordAt(id, k) /\ w # 0 /\ w < 65536
                         /\ Above(Unit(m, k), w) /\ Unit(m, k) # 0
    BY <1>4
  <2>2. ~PairAt(id, k)
    BY <1>2 DEF HasPair
  <2>3. ~PairAhead(m, k)
    <3>. SUFFICES ASSUME PairAhead(m, k) PROVE FALSE
      OBVIOUS
    <3>1. Bits(Unit(m, k), 10, 6) = 54 /\ Bits(Unit(m, k + 1), 10, 6) = 55
      BY DEF PairAhead, IsPair
    <3>2. CASE k + 1 = q
      <4>1. Bits(0, 10, 6) # 55
        BY DEF Bits
      <4>. QED BY <1>3, <3>1, <3>2, <4>1
    <3>3. CASE k + 1 # q
      <4>1. k + 1 \in 0 .. (q - 1) /\ k + 1 < q
        BY <1>3, <3>3
      <4>2. PICK v \in Nat : v = WordAt(id, k + 1) /\ v < 65536 /\ Above(Unit(m, k + 1), v)
        BY <1>4, <4>1
      <4>3. High(w)
        BY <2>1, <3>1, CharIs
      <4>4. Low(v)
        BY <3>1, <4>2, CharIs
      <4>. QED BY <1>2, <2>1, <2>2, <4>1, <4>2, <4>3, <4>4 DEF PairAt
    <3>. QED BY <3>2, <3>3
  <2>4. Char(Unit(m, k)) = Utf8Char(w)
    BY <2>1, CharIs
  <2>. QED BY <2>1, <2>2, <2>3, <2>4 DEF Written, After
<1>6. PICK f \in [0 .. LastWord(m) -> Seq(Byte)] :
              /\ Converted(m) = f[0]
              /\ \A k \in 0 .. LastWord(m) :
                    f[k] = IF Unit(m, k) = 0 THEN <<>>
                           ELSE Written(m, k) \o f[After(m, k)]
  BY <1>3, Conversion
<1>7. /\ f[q] = <<>>
      /\ \A k \in 0 .. (q - 1) : f[k] = Utf8Char(WordAt(id, k)) \o f[k + 1]
  <2>1. f[q] = <<>>
    BY <1>3, <1>6
  <2>2. ASSUME NEW k \in 0 .. (q - 1)
        PROVE  f[k] = Utf8Char(WordAt(id, k)) \o f[k + 1]
    <3>1. k \in 0 .. LastWord(m)
      BY <1>2, <1>3
    <3>2. f[k] = Written(m, k) \o f[After(m, k)]
      BY <1>5, <1>6, <3>1
    <3>. QED BY <1>5, <3>2
  <2>. QED BY <2>1, <2>2
<1>. DEFINE h == [k \in 0 .. q |-> f[k]]
<1>8. h = [k \in 0 .. Words(id) |->
            IF k = Words(id) THEN <<>>
            ELSE Utf8Char(CodeAt(id, k)) \o h[NextAt(id, k)]]
  <2>1. ASSUME NEW k \in 0 .. q, k # q
        PROVE  h[k] = Utf8Char(CodeAt(id, k)) \o h[NextAt(id, k)]
    <3>1. k \in 0 .. (q - 1) /\ k + 1 \in 0 .. q
      BY <1>3, <2>1
    <3>2. CodeAt(id, k) = WordAt(id, k) /\ NextAt(id, k) = k + 1
      BY <1>5, <3>1 DEF CodeAt, NextAt
    <3>. QED BY <1>7, <3>1, <3>2
  <2>2. q \in 0 .. q /\ h[q] = <<>>
    BY <1>3, <1>7
  <2>. QED BY <1>2, <2>1, <2>2
<1>9. PICK g :
         /\ g = [k \in 0 .. Words(id) |->
                   IF k = Words(id) THEN <<>>
                   ELSE Utf8Char(CodeAt(id, k)) \o g[NextAt(id, k)]]
         /\ Utf8(id) = g[0]
  <2>. HIDE DEF h
  <2>. QED BY <1>8 DEF Utf8
<1>10. ASSUME NEW k \in 0 .. q, \A j \in (k + 1) .. q : g[j] = f[j]
       PROVE  g[k] = f[k]
  <2>1. CASE k = q
    BY <1>2, <1>7, <1>9, <2>1
  <2>2. CASE k # q
    <3>1. k \in 0 .. (q - 1) /\ k + 1 \in (k + 1) .. q
      BY <1>3, <2>2
    <3>2. CodeAt(id, k) = WordAt(id, k) /\ NextAt(id, k) = k + 1
      BY <1>5, <3>1 DEF CodeAt, NextAt
    <3>3. g[k] = Utf8Char(WordAt(id, k)) \o g[k + 1]
      BY <1>2, <1>9, <2>2, <3>2
    <3>. QED BY <1>7, <1>10, <3>1, <3>3
  <2>. QED BY <2>1, <2>2
<1>11. g[0] = f[0]
  <2>. DEFINE P == {k \in 0 .. q : g[k] = f[k]}
  <2>1. \A k \in 0 .. q : (\A j \in (k + 1) .. q : j \in P) => k \in P
    BY <1>10
  <2>2. P \in SUBSET (0 .. q)
    OBVIOUS
  <2>3. P = 0 .. q
    <3>. HIDE DEF P
    <3>. QED BY <1>3, <2>1, <2>2, FromTheEnd
  <2>. QED BY <1>3, <2>3
<1>. QED BY <1>1, <1>6, <1>9, <1>11 DEF Name

-----------------------------------------------------------------------------
(* Sequences of bytes are put together along earlier places.               *)
JoinsUp(g, N, prv, U) ==
    g = [k \in 0 .. N |-> IF k = 0 THEN <<>> ELSE g[prv[k]] \o U[k] \o Slash]

JoinsAt(g, k, prv, U) == g[k] = g[prv[k]] \o U[k] \o Slash

(* The definition, place by place.                                         *)
LEMMA JoinsUpIs ==
    ASSUME NEW N \in Nat, NEW prv, NEW U, NEW g, g = [k \in 0 .. N |-> g[k]],
           g[0] = <<>>, \A k \in 1 .. N : JoinsAt(g, k, prv, U)
    PROVE  JoinsUp(g, N, prv, U)
<1>. \A k \in 0 .. N : k # 0 => k \in 1 .. N
  OBVIOUS
<1>. QED BY DEF JoinsUp, JoinsAt

LEMMA JoinsUpGives ==
    ASSUME NEW N \in Nat, NEW prv, NEW U, NEW g, JoinsUp(g, N, prv, U)
    PROVE  g[0] = <<>> /\ \A k \in 1 .. N : JoinsAt(g, k, prv, U)
<1>1. 0 \in 0 .. N /\ \A k \in 1 .. N : k \in 0 .. N /\ k # 0
  OBVIOUS
<1>. QED BY <1>1 DEF JoinsUp, JoinsAt

(* What is joined along earlier places exists.                             *)
LEMMA Joins ==
    ASSUME NEW N \in Nat, NEW prv, Earlier(prv, N), NEW U
    PROVE  \E g : JoinsUp(g, N, prv, U)
<1>. DEFINE P == {n \in Nat : n <= N => \E g : JoinsUp(g, n, prv, U)}
<1>1. 0 \in P
  <2>. DEFINE g == [k \in 0 .. 0 |-> <<>>]
  <2>1. g = [k \in 0 .. 0 |-> g[k]] /\ g[0] = <<>>
    OBVIOUS
  <2>. HIDE DEF g
  <2>2. \A k \in 1 .. 0 : FALSE
    OBVIOUS
  <2>3. JoinsUp(g, 0, prv, U)
    BY <2>1, <2>2, JoinsUpIs
  <2>. QED BY <2>3
<1>2. ASSUME NEW n \in P PROVE n + 1 \in P
  <2>. SUFFICES ASSUME n + 1 <= N PROVE \E g : JoinsUp(g, n + 1, prv, U)
    OBVIOUS
  <2>1. PICK g : JoinsUp(g, n, prv, U)
    OBVIOUS
  <2>2. n + 1 \in 1 .. N /\ prv[n + 1] \in 0 .. n
    BY DEF Earlier
  <2>. n \in Nat
    OBVIOUS
  <2>. HIDE DEF P
  <2>3. g[0] = <<>> /\ \A k \in 1 .. n : JoinsAt(g, k, prv, U)
    BY <2>1, JoinsUpGives
  <2>. DEFINE h == [k \in 0 .. (n + 1) |->
                      IF k = n + 1 THEN g[prv[n + 1]] \o U[n + 1] \o Slash ELSE g[k]]
  <2>4. /\ h = [k \in 0 .. (n + 1) |-> h[k]]
        /\ h[n + 1] = g[prv[n + 1]] \o U[n + 1] \o Slash
        /\ \A k \in 0 .. n : h[k] = g[k]
    OBVIOUS
  <2>. HIDE DEF h
  <2>5. ASSUME NEW k \in 1 .. (n + 1) PROVE JoinsAt(h, k, prv, U)
    <3>1. CASE k = n + 1
      BY <2>2, <2>4, <3>1 DEF JoinsAt
    <3>2. CASE k # n + 1
      <4>1. k \in 1 .. n /\ k \in 0 .. n /\ prv[k] \in 0 .. n
        BY <3>2 DEF Earlier
      <4>2. h[k] = g[k] /\ h[prv[k]] = g[prv[k]]
        BY <2>4, <4>1
      <4>3. JoinsAt(g, k, prv, U)
        BY <2>3, <4>1
      <4>. QED BY <4>2, <4>3, Zenon DEF JoinsAt
    <3>. QED BY <3>1, <3>2
  <2>6. h[0] = <<>> /\ n + 1 \in Nat
    <3>1. 0 \in 0 .. n /\ n + 1 \in Nat
      OBVIOUS
    <3>2. h[0] = g[0]
      BY <2>4, <3>1
    <3>. QED BY <2>3, <3>1, <3>2, Zenon
  <2>7. JoinsUp(h, n + 1, prv, U)
    BY <2>4, <2>5, <2>6, JoinsUpIs
  <2>. QED BY <2>7
<1>3. N \in P
  <2>. HIDE DEF P
  <2>1. P \in SUBSET Nat
    BY DEF P
  <2>2. P = Nat
    BY <1>1, <1>2, <2>1, Induct
  <2>. QED BY <2>2
<1>. QED BY <1>3

(* The names of a path, put together.                                      *)
LEMMA JoinedIs ==
    ASSUME NEW names \in Seq(Seq(Byte)), NEW N \in Nat, N = Len(names)
    PROVE  \E g :
              /\ g[0] = <<>> /\ Joined(names) = g[N]
              /\ \A k \in 0 .. N : g[k] \in Seq(Byte)
              /\ \A k \in 1 .. N : g[k] = g[k - 1] \o names[k] \o Slash
<1>. DEFINE prv == [k \in 1 .. N |-> k - 1]
<1>1. Earlier(prv, N) /\ \A k \in 1 .. N : prv[k] = k - 1
  BY DEF Earlier
<1>. HIDE DEF prv
<1>2. PICK f : JoinsUp(f, N, prv, names)
  BY <1>1, Joins
<1>3. f = [k \in 0 .. N |-> IF k = 0 THEN <<>> ELSE f[k - 1] \o names[k] \o Slash]
  <2>1. f[0] = <<>> /\ \A k \in 1 .. N : JoinsAt(f, k, prv, names)
    BY <1>2, JoinsUpGives
  <2>1a. f = [k \in 0 .. N |-> f[k]]
    BY <1>2 DEF JoinsUp
  <2>2. ASSUME NEW k \in 0 .. N
        PROVE  f[k] = IF k = 0 THEN <<>> ELSE f[k - 1] \o names[k] \o Slash
    <3>1. k # 0 => k \in 1 .. N
      OBVIOUS
    <3>. QED BY <1>1, <2>1, <3>1 DEF JoinsAt
  <2>. QED BY <2>1a, <2>2
<1>4. PICK g : /\ g = [k \in 0 .. N |-> IF k = 0 THEN <<>>
                                       ELSE g[k - 1] \o names[k] \o Slash]
               /\ Joined(names) = g[N]
  BY <1>3 DEF Joined
<1>5. /\ g[0] = <<>>
      /\ \A k \in 1 .. N : g[k] = g[k - 1] \o names[k] \o Slash
  <2>1. 0 \in 0 .. N /\ \A k \in 1 .. N : k \in 0 .. N /\ k # 0
    OBVIOUS
  <2>. QED BY <1>4, <2>1
<1>. DEFINE P == {n \in Nat : n <= N => g[n] \in Seq(Byte)}
<1>6. 0 \in P
  <2>1. <<>> \in Seq(Byte)
    OBVIOUS
  <2>. QED BY <1>5, <2>1
<1>7. ASSUME NEW n \in P PROVE n + 1 \in P
  <2>. SUFFICES ASSUME n + 1 <= N PROVE g[n + 1] \in Seq(Byte)
    OBVIOUS
  <2>1. PICK k \in 1 .. N : k = n + 1 /\ k - 1 = n
    OBVIOUS
  <2>2. g[k] = g[n] \o names[k] \o Slash
    BY <1>5, <2>1
  <2>3. names[k] \in Seq(Byte) /\ g[n] \in Seq(Byte)
    BY <2>1
  <2>4. Slash \in Seq(Byte)
    BY DEF Slash, Byte
  <2>. QED BY <2>1, <2>2, <2>3, <2>4
<1>8. P = Nat
  <2>. HIDE DEF P
  <2>1. P \in SUBSET Nat
    BY DEF P
  <2>. QED BY <1>6, <1>7, <2>1, Induct
<1>9. \A n \in 0 .. N : g[n] \in Seq(Byte)
  <2>. HIDE DEF P
  <2>. QED BY <1>8 DEF P
<1>. QED BY <1>4, <1>5, <1>9

(* Three sequences in a row, and two with a slash.                         *)
LEMMA Concat3 ==
    ASSUME NEW s \in Seq(Byte), NEW t \in Seq(Byte), NEW u \in Seq(Byte)
    PROVE  s \o t \o u \in Seq(Byte) /\ Len(s \o t \o u) = Len(s) + Len(t) + Len(u)
<1>1. PICK st \in Seq(Byte) : st = s \o t /\ Len(st) = Len(s) + Len(t)
  <2>1. s \o t \in Seq(Byte) /\ Len(s \o t) = Len(s) + Len(t)
    OBVIOUS
  <2>. QED BY <2>1
<1>2. st \o u \in Seq(Byte) /\ Len(st \o u) = Len(st) + Len(u)
  OBVIOUS
<1>. QED BY <1>1, <1>2, Zenon

LEMMA NextName ==
    ASSUME NEW s \in Seq(Byte), NEW t \in Seq(Byte)
    PROVE  /\ s \o t \o Slash \in Seq(Byte)
           /\ Len(s \o t \o Slash) = Len(s) + Len(t) + 1
<1>1. Slash \in Seq(Byte) /\ Len(Slash) = 1
  BY DEF Slash, Byte
<1>2. \A u : u \in Seq(Byte) => /\ s \o t \o u \in Seq(Byte)
      /\ Len(s \o t \o u) = Len(s) + Len(t) + Len(u)
  BY Concat3, Zenon
<1>3. /\ s \o t \o Slash \in Seq(Byte)
      /\ Len(s \o t \o Slash) = Len(s) + Len(t) + Len(Slash)
  BY <1>1, <1>2, Zenon
<1>. QED BY <1>1, <1>3, Zenon

(* Two sums that grow by the same numbers stay as far apart.               *)
LEMMA SameGrowth ==
    ASSUME NEW N \in Nat, NEW c \in Nat, NEW a \in [0 .. N -> Nat],
           NEW b \in [0 .. N -> Nat], NEW l \in [1 .. N -> Nat],
           a[0] = c + b[0],
           \A k \in 1 .. N : a[k] = a[k - 1] + l[k] /\ b[k] = b[k - 1] + l[k]
    PROVE  a[N] = c + b[N]
<1>. DEFINE P == {n \in Nat : n <= N => a[n] = c + b[n]}
<1>1. 0 \in P
  OBVIOUS
<1>2. ASSUME NEW n \in P PROVE n + 1 \in P
  <2>. SUFFICES ASSUME n + 1 <= N PROVE a[n + 1] = c + b[n + 1]
    OBVIOUS
  <2>1. PICK k \in 1 .. N : k = n + 1 /\ k - 1 = n /\ n \in 0 .. N
    OBVIOUS
  <2>2. a[k] = a[n] + l[k] /\ b[k] = b[n] + l[k] /\ a[n] = c + b[n]
    BY <2>1
  <2>3. a[n] \in Nat /\ b[n] \in Nat /\ l[k] \in Nat
    BY <2>1
  <2>. QED BY <2>1, <2>2, <2>3
<1>3. P = Nat
  <2>. HIDE DEF P
  <2>1. P \in SUBSET Nat
    BY DEF P
  <2>. QED BY <1>1, <1>2, <2>1, Induct
<1>4. N \in P
  BY <1>3, Zenon
<1>. QED BY <1>4

(* A name before the others adds its length and that of its '/'.           *)
LEMMA JoinedHead ==
    ASSUME NEW names \in Seq(Seq(Byte)), NEW d \in Seq(Byte),
           NEW all \in Seq(Seq(Byte)), Len(all) = Len(names) + 1, all[1] = d,
           \A k \in 1 .. Len(names) : all[k + 1] = names[k]
    PROVE  /\ Joined(names) \in Seq(Byte) /\ Joined(all) \in Seq(Byte)
           /\ Len(Joined(all)) = Len(d) + 1 + Len(Joined(names))
<1>0. PICK N \in Nat, M \in Nat : N = Len(names) /\ M = Len(all) /\ M = N + 1
  OBVIOUS
<1>1. PICK g :
         /\ g[0] = <<>> /\ Joined(names) = g[N]
         /\ \A k \in 0 .. N : g[k] \in Seq(Byte)
         /\ \A k \in 1 .. N : g[k] = g[k - 1] \o names[k] \o Slash
  BY <1>0, JoinedIs
<1>2. PICK h :
         /\ h[0] = <<>> /\ Joined(all) = h[M]
         /\ \A k \in 0 .. M : h[k] \in Seq(Byte)
         /\ \A k \in 1 .. M : h[k] = h[k - 1] \o all[k] \o Slash
  BY <1>0, JoinedIs
<1>. DEFINE a == [n \in 0 .. N |-> Len(h[n + 1])]
            b == [n \in 0 .. N |-> Len(g[n])]
            l == [k \in 1 .. N |-> Len(names[k]) + 1]
<1>3. a \in [0 .. N -> Nat] /\ b \in [0 .. N -> Nat] /\ l \in [1 .. N -> Nat]
  <2>1. ASSUME NEW n \in 0 .. N PROVE Len(h[n + 1]) \in Nat /\ Len(g[n]) \in Nat
    <3>1. PICK k \in 0 .. M : k = n + 1
      BY <1>0
    <3>2. h[k] \in Seq(Byte) /\ g[n] \in Seq(Byte)
      BY <1>1, <1>2
    <3>. QED BY <3>1, <3>2
  <2>2. ASSUME NEW k \in 1 .. N PROVE Len(names[k]) + 1 \in Nat
    <3>1. names[k] \in Seq(Byte)
      BY <1>0
    <3>. QED BY <3>1
  <2>. QED BY <2>1, <2>2
<1>4. a[0] = Len(d) + 1 + b[0] /\ Len(d) + 1 \in Nat
  <2>1. PICK k \in 1 .. M : k = 1 /\ k - 1 = 0
    BY <1>0
  <2>2. h[1] = <<>> \o d \o Slash
    BY <1>2, <2>1
  <2>3. <<>> \in Seq(Byte) /\ Len(<<>>) = 0 /\ Len(d) \in Nat
    OBVIOUS
  <2>4. Len(<<>> \o d \o Slash) = Len(<<>>) + Len(d) + 1
    BY <2>3, NextName, Zenon
  <2>5. 0 \in 0 .. N /\ 0 + 1 = 1
    OBVIOUS
  <2>6. a[0] = Len(h[1]) /\ b[0] = Len(g[0])
    BY <2>5
  <2>7. a[0] = Len(<<>>) + Len(d) + 1 /\ b[0] = Len(<<>>)
    BY <1>1, <2>2, <2>4, <2>6, Zenon
  <2>. HIDE DEF a, b
  <2>. QED BY <2>3, <2>7
<1>5. ASSUME NEW k \in 1 .. N PROVE a[k] = a[k - 1] + l[k] /\ b[k] = b[k - 1] + l[k]
  <2>1. PICK m \in 1 .. M : m = k + 1 /\ m - 1 = k /\ k - 1 \in 0 .. N /\ (k - 1) + 1 = k
    BY <1>0
  <2>2. h[m] = h[k] \o names[k] \o Slash
    BY <1>0, <1>2, <2>1
  <2>3. g[k] = g[k - 1] \o names[k] \o Slash
    BY <1>1
  <2>4. h[k] \in Seq(Byte) /\ g[k - 1] \in Seq(Byte) /\ names[k] \in Seq(Byte)
    BY <1>0, <1>1, <1>2, <2>1
  <2>5. Len(h[m]) = Len(h[k]) + Len(names[k]) + 1
    <3>1. Len(h[k] \o names[k] \o Slash) = Len(h[k]) + Len(names[k]) + 1
      BY <2>4, NextName, Zenon
    <3>. QED BY <2>2, <3>1, Zenon
  <2>6. Len(g[k]) = Len(g[k - 1]) + Len(names[k]) + 1
    <3>1. Len(g[k - 1] \o names[k] \o Slash) = Len(g[k - 1]) + Len(names[k]) + 1
      BY <2>4, NextName, Zenon
    <3>. QED BY <2>3, <3>1, Zenon
  <2>7. Len(h[k]) \in Nat /\ Len(g[k - 1]) \in Nat /\ Len(names[k]) \in Nat
    BY <2>4
  <2>8. a[k] = Len(h[m]) /\ a[k - 1] = Len(h[k]) /\ b[k] = Len(g[k])
        /\ b[k - 1] = Len(g[k - 1]) /\ l[k] = Len(names[k]) + 1
    BY <2>1
  <2>. HIDE DEF a, b, l
  <2>9. a[k] = a[k - 1] + (Len(names[k]) + 1) /\ b[k] = b[k - 1] + (Len(names[k]) + 1)
    <3>. DEFINE x == Len(h[k])  y == Len(g[k - 1])  z == Len(names[k])
    <3>1. x + z + 1 = x + (z + 1) /\ y + z + 1 = y + (z + 1)
      <4>1. x \in Nat /\ y \in Nat /\ z \in Nat
        BY <2>7
      <4>. HIDE DEF x, y, z
      <4>. QED BY <4>1
    <3>2. a[k] = x + z + 1 /\ a[k - 1] = x /\ b[k] = y + z + 1 /\ b[k - 1] = y
      BY <2>5, <2>6, <2>8, Zenon
    <3>. HIDE DEF x, y
    <3>. QED BY <3>1, <3>2, Zenon
  <2>. QED BY <2>8, <2>9, Zenon
<1>6. a[N] = Len(d) + 1 + b[N]
  <2>. HIDE DEF a, b, l
  <2>. QED BY <1>3, <1>4, <1>5, SameGrowth
<1>7. N \in 0 .. N /\ M \in 0 .. M
  OBVIOUS
<1>8. a[N] = Len(h[M]) /\ b[N] = Len(g[N])
  BY <1>0, <1>7
<1>. HIDE DEF a, b, l
<1>. QED BY <1>1, <1>2, <1>6, <1>7, <1>8

(* The paths of the directories of the disc.                               *)
LEMMA DirPathIs ==
    ASSUME NEW N \in Nat, DOMAIN disc.recs = 1 .. N,
           \A k \in 1 .. N : disc.recs[k].parent \in Nat \ {0}
    PROVE  \A i \in 1 .. N :
             DirPath[i] =
              (IF disc.recs[i].parent < i THEN DirPath[disc.recs[i].parent] ELSE <<>>)
              \o Utf8(disc.recs[i].id) \o Slash
<1>. DEFINE prv == [k \in 1 .. N |-> IF disc.recs[k].parent < k
                                     THEN disc.recs[k].parent ELSE 0]
            U == [k \in 1 .. N |-> Utf8(disc.recs[k].id)]
<1>1. /\ Earlier(prv, N)
      /\ \A k \in 1 .. N : /\ prv[k] = IF disc.recs[k].parent < k
                                       THEN disc.recs[k].parent ELSE 0
                           /\ U[k] = Utf8(disc.recs[k].id)
  BY DEF Earlier
<1>. HIDE DEF prv, U
<1>2. PICK g : JoinsUp(g, N, prv, U)
  BY <1>1, Joins
<1>3. g[0] = <<>> /\ \A k \in 1 .. N : JoinsAt(g, k, prv, U)
  BY <1>2, JoinsUpGives
<1>. DEFINE P == [k \in 1 .. N |-> g[k]]
<1>4. ASSUME NEW k \in 1 .. N
      PROVE  P[k] = (IF disc.recs[k].parent < k THEN P[disc.recs[k].parent] ELSE <<>>)
                    \o Utf8(disc.recs[k].id) \o Slash
  <2>1. P[k] = g[prv[k]] \o Utf8(disc.recs[k].id) \o Slash
    BY <1>1, <1>3 DEF JoinsAt
  <2>2. CASE disc.recs[k].parent < k
    <3>1. disc.recs[k].parent \in 1 .. N
      BY <2>2
    <3>2. P[disc.recs[k].parent] = g[prv[k]]
      BY <1>1, <2>2, <3>1
    <3>. QED BY <2>1, <2>2, <3>2, Zenon
  <2>3. CASE ~(disc.recs[k].parent < k)
    <3>1. g[prv[k]] = <<>>
      BY <1>1, <1>3, <2>3
    <3>. QED BY <2>1, <2>3, <3>1, Zenon
  <2>. QED BY <2>2, <2>3
<1>5. P = [k \in 1 .. N |-> P[k]]
  OBVIOUS
<1>. HIDE DEF P
<1>6. P = [k \in DOMAIN disc.recs |->
            (IF disc.recs[k].parent < k THEN P[disc.recs[k].parent] ELSE <<>>)
            \o Utf8(disc.recs[k].id) \o Slash]
  BY <1>4, <1>5
<1>7. DirPath = [k \in DOMAIN disc.recs |->
            (IF disc.recs[k].parent < k THEN DirPath[disc.recs[k].parent] ELSE <<>>)
            \o Utf8(disc.recs[k].id) \o Slash]
  BY <1>6 DEF DirPath
<1>. QED BY <1>7, Zenon

-----------------------------------------------------------------------------
(* Where the records of the path table are.                                *)
LEMMA Layout ==
    ASSUME disc \in Discs
    PROVE  /\ disc.recs \in Seq(PathRecord) /\ disc.files \in Seq(File)
           /\ disc.at \in [1 .. (Len(disc.recs) + 1) -> Nat]
           /\ \A i \in DOMAIN disc.recs :
                 disc.at[i + 1] = disc.at[i] + RecordLength(Len(disc.recs[i].id))
           /\ \A i, j \in 1 .. (Len(disc.recs) + 1) :
                 i < j => disc.at[i] < disc.at[j]
<1>1. /\ disc.recs \in Seq(PathRecord) /\ disc.files \in Seq(File)
      /\ disc.at \in [1 .. (Len(disc.recs) + 1) -> Nat]
  BY PathAssumption
<1>2. ASSUME NEW i \in DOMAIN disc.recs
      PROVE  /\ disc.at[i + 1] = disc.at[i] + RecordLength(Len(disc.recs[i].id))
             /\ disc.at[i] < disc.at[i + 1]
  <2>1. PICK n \in Nat : n = Len(disc.recs[i].id)
    <3>1. disc.recs[i] \in PathRecord
      BY <1>1
    <3>. QED BY <3>1 DEF PathRecord
  <2>2. /\ disc.at[i + 1] = disc.at[i] + RecHdr + n + (n % 2)
        /\ RecHdr + n + 1 < ByteMod
    BY <2>1, PathAssumption
  <2>3. RecHdr \in Nat \ {0} /\ RecHdr % 2 = 0 /\ ByteMod \in Nat \ {0}
    BY PathAssumption
  <2>4. (RecHdr + n) % ByteMod = RecHdr + n
    BY <2>2, <2>3
  <2>5. (RecHdr + n) % 2 = n % 2
    BY <2>3
  <2>6. RecordLength(Len(disc.recs[i].id)) = RecHdr + n + (n % 2)
    BY <2>1, <2>4, <2>5 DEF RecordLength
  <2>7. disc.at[i] \in Nat
    BY <1>1
  <2>. QED BY <2>2, <2>3, <2>6, <2>7
<1>3. \A i, j \in 1 .. (Len(disc.recs) + 1) : i < j => disc.at[i] < disc.at[j]
  <2>1. PICK n \in Nat : n = Len(disc.recs) + 1
    BY <1>1
  <2>2. \A i \in 1 .. n : i + 1 \in 1 .. n => disc.at[i] < disc.at[i + 1]
    BY <1>1, <1>2, <2>1
  <2>3. disc.at \in [1 .. n -> Nat]
    BY <1>1, <2>1
  <2>. QED BY <2>1, <2>2, <2>3, Grows
<1>. QED BY <1>1, <1>2, <1>3

(* The record at the place of the i-th is the i-th.                        *)
LEMMA RecordFound ==
    ASSUME disc \in Discs, NEW i \in DOMAIN disc.recs
    PROVE  RecordAt(disc.at[i]) = i
<1>1. \A j \in DOMAIN disc.recs : disc.at[j] = disc.at[i] => j = i
  <2>. TAKE j \in DOMAIN disc.recs
  <2>1. /\ i \in 1 .. (Len(disc.recs) + 1) /\ j \in 1 .. (Len(disc.recs) + 1)
        /\ disc.at[i] \in Nat /\ disc.at[j] \in Nat
    BY Layout
  <2>2. CASE i < j
    BY <2>1, <2>2, Layout
  <2>3. CASE j < i
    BY <2>1, <2>3, Layout
  <2>. QED BY <2>1, <2>2, <2>3
<1>. QED BY <1>1 DEF RecordAt

-----------------------------------------------------------------------------
(* The directories read so far are the first of the table, each with its   *)
(* pointer; they live until a path is refused.                             *)
DirsRead ==
    /\ \E S : dirs \in Seq(S)
    /\ Len(dirs) <= MaxFolders /\ Len(dirs) <= Len(disc.recs)
    /\ \A i \in DOMAIN dirs : dirs[i].parent = ParentIn(i, disc.recs[i].parent)
    /\ pc # "done" => \A i \in DOMAIN dirs : dirs[i].live = TRUE

(* While the table is read, and when it has been.                          *)
TableRead ==
    /\ pc \in {"open", "read", "list"} => list = <<>>
    /\ pc = "open" => dirs = <<>> /\ table = <<>>
    /\ pc = "read" => /\ table \in Seq(Nat) /\ Len(table) = Len(dirs)
                      /\ off = disc.at[Len(dirs) + 1]
    /\ pc \in {"list", "file", "climb", "built"} => Len(dirs) = Len(disc.recs)

(* The links of a path go up: each is an earlier directory than the next.  *)
LinksClimb ==
    /\ pc \in {"file", "climb", "built"} =>
          /\ DOMAIN files = DOMAIN disc.files
          /\ \A i \in DOMAIN files : files[i].dir = disc.files[i].dir
    /\ pc = "climb" =>
          /\ list \in Seq(DOMAIN dirs) /\ list # <<>>
          /\ \A j, k \in DOMAIN list : j < k => list[j] < list[k]

Inv ==
    /\ disc \in Discs
    /\ DirsRead /\ TableRead /\ LinksClimb
    /\ FreedOnceAndLast /\ DiesOnlyInTable

-----------------------------------------------------------------------------
(* The directories read, by their places in the path table.                *)
LEMMA DirsPlaces ==
    ASSUME disc \in Discs, DirsRead
    PROVE  /\ Len(dirs) \in Nat /\ DOMAIN dirs = 1 .. Len(dirs)
           /\ Len(disc.recs) \in Nat /\ DOMAIN disc.recs = 1 .. Len(disc.recs)
           /\ DOMAIN dirs \subseteq DOMAIN disc.recs
           /\ \A i \in DOMAIN dirs : dirs[i].parent \in 0 .. i
<1>1. PICK S : dirs \in Seq(S)
  BY DEF DirsRead
<1>2. /\ Len(dirs) \in Nat /\ DOMAIN dirs = 1 .. Len(dirs)
      /\ Len(disc.recs) \in Nat /\ DOMAIN disc.recs = 1 .. Len(disc.recs)
  BY <1>1, Layout
<1>3. DOMAIN dirs \subseteq DOMAIN disc.recs
  BY <1>2 DEF DirsRead
<1>4. ASSUME NEW i \in DOMAIN dirs PROVE dirs[i].parent \in 0 .. i
  <2>1. disc.recs[i] \in PathRecord
    BY <1>2, <1>3, Layout
  <2>2. disc.recs[i].parent \in Nat \ {0}
    BY <2>1 DEF PathRecord
  <2>3. i \in Nat
    BY <1>2
  <2>. QED BY <2>2, <2>3 DEF DirsRead, ParentIn
<1>. QED BY <1>2, <1>3, <1>4

(* The invariant holds at first.                                           *)
LEMMA InvInit == Init => Inv
<1>. SUFFICES ASSUME Init PROVE Inv
  OBVIOUS
<1>1. <<>> \in Seq({}) /\ Len(<<>>) = 0 /\ DOMAIN <<>> = {}
  OBVIOUS
<1>2. MaxFolders \in Nat /\ Len(disc.recs) \in Nat
  BY PathAssumption, Layout DEF Init
<1>3. DirsRead
  BY <1>1, <1>2 DEF Init, DirsRead
<1>. QED BY <1>1, <1>3 DEF Init, Inv, TableRead, LinksClimb, FreedOnceAndLast,
                          DiesOnlyInTable

(* The next record of the table becomes the next directory.                *)
LEMMA ReadStep ==
    ASSUME Inv, Reading, NEW e,
           e.parent = ParentIn(Len(table) + 1, disc.recs[RecordAt(off)].parent),
           e.live = TRUE,
           Len(table) + 1 <= MaxFolders,
           dirs' = Append(dirs, e), table' = Append(table, Len(table) + 1),
           off' = off + RecordLength(Len(disc.recs[RecordAt(off)].id)),
           UNCHANGED <<disc, files, fi, list, pathLen, path, badFree, stale, pc, ret>>
    PROVE  Inv'
<1>. DEFINE n == Len(dirs)
<1>0. pc = "read" /\ disc \in Discs /\ DirsRead /\ TableRead
  BY DEF Inv, Reading
<1>1. PICK S : dirs \in Seq(S)
  BY <1>0 DEF DirsRead
<1>2. n \in Nat /\ Len(table) = n /\ table \in Seq(Nat)
  BY <1>0, <1>1 DEF TableRead
<1>3. n + 1 \in DOMAIN disc.recs /\ off = disc.at[n + 1]
  <2>1. Len(disc.recs) \in Nat /\ DOMAIN disc.recs = 1 .. Len(disc.recs)
    BY <1>0, DirsPlaces
  <2>2. off = disc.at[n + 1] /\ n <= Len(disc.recs)
    BY <1>0 DEF TableRead, DirsRead
  <2>3. \A m \in 1 .. (Len(disc.recs) + 1) : disc.at[m] \in Nat
    BY <1>0, Layout
  <2>4. ASSUME n = Len(disc.recs) PROVE FALSE
    <3>1. off < off
      BY <2>2, <2>4 DEF Reading
    <3>2. n + 1 \in 1 .. (Len(disc.recs) + 1)
      BY <2>1, <2>4
    <3>3. off \in Nat
      BY <2>2, <2>3, <3>2
    <3>. QED BY <3>1, <3>3
  <2>. QED BY <1>2, <2>1, <2>2, <2>4
<1>4. RecordAt(off) = n + 1
  BY <1>0, <1>3, RecordFound
<1>5. /\ \E T : dirs' \in Seq(T)
      /\ Len(dirs') = n + 1
      /\ \A i \in 1 .. n : dirs'[i] = dirs[i]
      /\ dirs'[n + 1] = e /\ DOMAIN dirs' = 1 .. (n + 1)
  <2>1. dirs \in Seq(S \cup {e}) /\ e \in S \cup {e}
    BY <1>1
  <2>2. dirs' \in Seq(S \cup {e})
    BY <2>1
  <2>3. \E T : dirs' \in Seq(T)
    BY <2>2
  <2>. QED BY <2>1, <2>2, <2>3
<1>6. DirsRead'
  <2>1. n + 1 <= MaxFolders /\ n + 1 <= Len(disc.recs)
    BY <1>0, <1>2, <1>3, DirsPlaces
  <2>2. \A i \in 1 .. (n + 1) :
           dirs'[i].parent = ParentIn(i, disc.recs[i].parent) /\ dirs'[i].live = TRUE
    <3>1. \A i \in 1 .. n :
             dirs[i].parent = ParentIn(i, disc.recs[i].parent) /\ dirs[i].live = TRUE
      BY <1>0, DirsPlaces DEF DirsRead
    <3>2. e.parent = ParentIn(n + 1, disc.recs[n + 1].parent)
      BY <1>2, <1>4
    <3>. QED BY <1>2, <1>5, <3>1, <3>2
  <2>3. disc' = disc /\ disc.recs' = disc.recs
    OBVIOUS
  <2>. QED BY <1>5, <2>1, <2>2, <2>3 DEF DirsRead
<1>7. TableRead'
  <2>1. table' \in Seq(Nat) /\ Len(table') = n + 1
    BY <1>2
  <2>2. off' = disc.at[n + 2]
    <3>1. disc.at[(n + 1) + 1] = disc.at[n + 1] + RecordLength(Len(disc.recs[n + 1].id))
      BY <1>0, <1>3, Layout
    <3>2. (n + 1) + 1 = n + 2
      BY <1>2
    <3>. QED BY <1>3, <1>4, <3>1, <3>2
  <2>3. Len(dirs') + 1 = n + 2
    BY <1>2, <1>5
  <2>. QED BY <1>0, <1>5, <2>1, <2>2, <2>3 DEF TableRead
<1>. QED BY <1>0, <1>6, <1>7 DEF Inv, LinksClimb, FreedOnceAndLast, DiesOnlyInTable

(* A path is refused: its links are distinct directories, all still there. *)
LEMMA RefuseStep ==
    ASSUME Inv, pc = "climb", NEW r, FreeLinked(r),
           stale' = (stale \/ ~Cur.live),
           UNCHANGED <<disc, off, table, files, list>>
    PROVE  Inv'
<1>0. disc \in Discs /\ DirsRead /\ TableRead /\ LinksClimb /\ ~badFree /\ ~stale
  BY DEF Inv, FreedOnceAndLast
<1>1. pc' = "done"
  BY DEF FreeLinked, PathFails, Fail
<1>2. PICK S : dirs \in Seq(S)
  BY <1>0 DEF DirsRead
<1>3. /\ \E T : dirs' \in Seq(T)
      /\ Len(dirs') = Len(dirs) /\ DOMAIN dirs' = DOMAIN dirs
      /\ \A i \in DOMAIN dirs : dirs'[i].parent = dirs[i].parent
  <2>. DEFINE d == [i \in DOMAIN dirs |->
                      IF \E k \in DOMAIN list : list[k] = i
                      THEN [dirs[i] EXCEPT !.live = FALSE] ELSE dirs[i]]
              T == {d[i] : i \in DOMAIN dirs}
  <2>1. dirs' = d
    BY DEF FreeLinked
  <2>2. DOMAIN dirs = 1 .. Len(dirs) /\ Len(dirs) \in Nat
    BY <1>2
  <2>3. d \in [1 .. Len(dirs) -> T]
    BY <2>2
  <2>4. \A i \in DOMAIN dirs : d[i].parent = dirs[i].parent
    OBVIOUS
  <2>. HIDE DEF d, T
  <2>5. dirs' \in Seq(T) /\ Len(dirs') = Len(dirs)
    BY <2>1, <2>2, <2>3
  <2>. QED BY <2>1, <2>2, <2>3, <2>4, <2>5
<1>4. list \in Seq(DOMAIN dirs) /\ list # <<>>
      /\ \A j, k \in DOMAIN list : j < k => list[j] < list[k]
  BY <1>0 DEF LinksClimb
<1>5. \A j, k \in DOMAIN list : j # k => list[j] # list[k]
  <2>. SUFFICES ASSUME NEW j \in DOMAIN list, NEW k \in DOMAIN list, j # k
                PROVE  list[j] # list[k]
    OBVIOUS
  <2>1. j \in Nat /\ k \in Nat /\ list[j] \in Nat /\ list[k] \in Nat
    BY <1>0, <1>4, DirsPlaces
  <2>2. j < k \/ k < j
    BY <2>1
  <2>. QED BY <1>4, <2>1, <2>2
<1>6. badFree' = FALSE
  BY <1>5 DEF FreeLinked
<1>7. list[1] \in DOMAIN dirs
  BY <1>4
<1>8. stale' = FALSE
  BY <1>0, <1>7 DEF DirsRead, Cur
<1>9. DirsRead'
  BY <1>0, <1>1, <1>3 DEF DirsRead
<1>10. TableRead' /\ LinksClimb'
  BY <1>1 DEF TableRead, LinksClimb
<1>. QED BY <1>0, <1>1, <1>6, <1>8, <1>9, <1>10 DEF Inv, FreedOnceAndLast, DiesOnlyInTable

(* The next link is the parent, which is an earlier directory.             *)
LEMMA LinkStep ==
    ASSUME Inv, pc = "climb", ~AtRoot, Up(list[1]) # 0,
           list' = <<Up(list[1])>> \o list,
           stale' = (stale \/ ~Cur.live),
           UNCHANGED <<disc, off, dirs, table, files, badFree, pc, ret>>
    PROVE  Inv'
<1>0. disc \in Discs /\ DirsRead /\ TableRead /\ LinksClimb /\ ~badFree /\ ~stale
  BY DEF Inv, FreedOnceAndLast
<1>1. list \in Seq(DOMAIN dirs) /\ list # <<>>
      /\ \A j, k \in DOMAIN list : j < k => list[j] < list[k]
  BY <1>0 DEF LinksClimb
<1>2. PICK n \in Nat : n = Len(list) /\ DOMAIN list = 1 .. n /\ n >= 1
  BY <1>1
<1>2a. 1 \in 1 .. n /\ \A j, k \in 1 .. n : j < k => list[j] < list[k]
  <2>1. 1 \in 1 .. n /\ DOMAIN list = 1 .. n
    BY <1>2
  <2>2. \A j, k \in DOMAIN list : j < k => list[j] < list[k]
    BY <1>1
  <2>. QED BY <2>1, <2>2, Zenon
<1>3. PICK up : up = Up(list[1])
  OBVIOUS
<1>4. list[1] \in DOMAIN dirs
  BY <1>1, <1>2
<1>5. up \in DOMAIN dirs /\ up \in Nat /\ list[1] \in Nat /\ up < list[1]
  <2>1. up \in 0 .. list[1] /\ list[1] \in 1 .. Len(dirs) /\ Len(dirs) \in Nat
    BY <1>0, <1>3, <1>4, DirsPlaces DEF Up
  <2>2. up # list[1] /\ up # 0
    BY <1>3 DEF AtRoot
  <2>. QED BY <1>0, <2>1, <2>2, DirsPlaces
<1>6. /\ list' \in Seq(DOMAIN dirs) /\ list' # <<>> /\ DOMAIN list' = 1 .. (n + 1)
      /\ list'[1] = up
      /\ \A j \in 2 .. (n + 1) : list'[j] = list[j - 1]
  <2>1. list' = <<up>> \o list /\ <<up>> \in Seq(DOMAIN dirs)
    BY <1>3, <1>5
  <2>2. list' \in Seq(DOMAIN dirs) /\ Len(list') = n + 1
    BY <1>1, <1>2, <2>1
  <2>3. list'[1] = up /\ \A j \in 2 .. (n + 1) : list'[j] = list[j - 1]
    BY <1>1, <1>2, <2>1
  <2>. QED BY <1>2, <2>2, <2>3
<1>7. ASSUME NEW j \in 1 .. (n + 1), NEW k \in 1 .. (n + 1), j < k
      PROVE  list'[j] < list'[k]
  <2>1. PICK m \in 1 .. n : m = k - 1
    BY <1>2, <1>7
  <2>2. list'[k] = list[m] /\ list[m] \in Nat
    BY <1>0, <1>1, <1>2, <1>6, <1>7, <2>1, DirsPlaces
  <2>3. list[1] <= list[m]
    <3>1. CASE m = 1
      BY <2>2, <3>1
    <3>2. CASE 1 < m
      <4>1. list[1] < list[m]
        BY <1>2, <1>2a, <3>2
      <4>. QED BY <1>5, <2>2, <4>1
    <3>. QED BY <2>1, <3>1, <3>2
  <2>4. CASE j = 1
    BY <1>5, <1>6, <2>2, <2>3, <2>4
  <2>5. CASE j > 1
    <3>1. PICK l \in 1 .. n : l = j - 1
      BY <1>2, <1>7, <2>5
    <3>2. list'[j] = list[l] /\ l < m
      BY <1>6, <1>7, <2>1, <2>5, <3>1
    <3>3. list[l] < list[m]
      BY <1>2a, <3>2
    <3>. QED BY <2>2, <3>2, <3>3
  <2>. QED BY <1>2, <2>4, <2>5
<1>8. stale' = FALSE
  BY <1>0, <1>4 DEF DirsRead, Cur
<1>9. LinksClimb'
  <2>1. DOMAIN dirs' = DOMAIN dirs
    OBVIOUS
  <2>. QED BY <1>0, <1>6, <1>7, <2>1 DEF LinksClimb
<1>10. DirsRead' /\ TableRead'
  BY <1>0 DEF DirsRead, TableRead
<1>. QED BY <1>0, <1>8, <1>9, <1>10 DEF Inv, FreedOnceAndLast, DiesOnlyInTable

(* A step that only moves on, or ends the run without a path: what was read *)
(* of the table, and the directories, stay as they are.                    *)
LEMMA QuietStep ==
    ASSUME Inv, pc # "done", pc' \in {"done", "aborted"} \cup {pc},
           pc' = "aborted" => DiesOnlyInTable',
           FreedOnceAndLast',
           UNCHANGED <<disc, off, dirs, table, files, list>>
    PROVE  Inv'
<1>1. DirsRead' /\ TableRead' /\ LinksClimb' /\ disc' \in Discs
  BY DEF Inv, DirsRead, TableRead, LinksClimb
<1>2. DiesOnlyInTable'
  <2>1. CASE pc' = "aborted"
    BY <2>1
  <2>2. CASE pc' # "aborted"
    BY <2>2 DEF DiesOnlyInTable
  <2>. QED BY <2>1, <2>2
<1>. QED BY <1>1, <1>2 DEF Inv

(* The invariant is inductive: one step per action.                        *)
LEMMA InvStep == Inv /\ [Next]_vars => Inv'
<1>. SUFFICES ASSUME Inv, [Next]_vars PROVE Inv'
  OBVIOUS
<1>0. disc \in Discs /\ DirsRead /\ TableRead /\ LinksClimb
      /\ FreedOnceAndLast /\ DiesOnlyInTable
  BY DEF Inv
<1>a. /\ Len(dirs) \in Nat /\ DOMAIN dirs = 1 .. Len(dirs)
      /\ Len(disc.recs) \in Nat /\ DOMAIN disc.recs = 1 .. Len(disc.recs)
      /\ DOMAIN dirs \subseteq DOMAIN disc.recs
  BY <1>0, DirsPlaces
<1>f. UNCHANGED <<badFree, stale>> => FreedOnceAndLast'
  BY <1>0 DEF FreedOnceAndLast
<1>1. CASE Open
  <2>1. CASE pc' = "done" /\ UNCHANGED off
    BY <1>1, <2>1, <1>f, QuietStep DEF Open
  <2>2. CASE off' = TableStart /\ pc' = "read" /\ UNCHANGED ret
    <3>1. off' = disc.at[1] /\ table = <<>> /\ dirs = <<>> /\ list = <<>>
      BY <1>0, <1>1, <2>2, PathAssumption DEF Open, TableStart, TableRead
    <3>2. table \in Seq(Nat) /\ Len(table) = 0 /\ Len(dirs) = 0
      BY <3>1
    <3>3. TableRead'
      BY <1>1, <2>2, <3>1, <3>2 DEF Open, TableRead
    <3>. QED BY <1>0, <1>1, <2>2, <3>3 DEF Open, Inv, DirsRead, LinksClimb,
                FreedOnceAndLast, DiesOnlyInTable
  <2>. QED BY <1>1, <2>1, <2>2 DEF Open, Fail
<1>2. CASE ReadDir
  <2>0. pc = "read" /\ Len(table) = Len(dirs) /\ list = <<>>
    BY <1>0, <1>2 DEF ReadDir, Reading, TableRead
  <2>. DEFINE i == RecordAt(off)  r == disc.recs[i]  n == Len(table) + 1
  <2>1. CASE /\ n <= MaxFolders
             /\ \E tail \in Tails :
                   dirs' = Append(dirs,
                         [block |-> r.block,
                          name |-> DirName(r.id, tail),
                          parent |-> ParentIn(n, r.parent), live |-> TRUE])
             /\ table' = Append(table, n)
             /\ off' = off + RecordLength(Len(r.id))
             /\ UNCHANGED <<pc, ret>>
    <3>1. PICK tail \in Tails :
                   dirs' = Append(dirs,
                         [block |-> r.block,
                          name |-> DirName(r.id, tail),
                          parent |-> ParentIn(n, r.parent), live |-> TRUE])
      BY <2>1
    <3>2. PICK e : /\ dirs' = Append(dirs, e)
                   /\ e.parent = ParentIn(n, r.parent) /\ e.live = TRUE
      BY <3>1
    <3>. QED BY <1>2, <2>1, <3>2, ReadStep DEF ReadDir
  <2>2. CASE n > MaxFolders /\ pc' = "aborted" /\ UNCHANGED <<off, dirs, table, wild, ret>>
    <3>1. Len(dirs) = MaxFolders
      <4>1. MaxFolders \in Nat
        BY PathAssumption
      <4>2. Len(dirs) + 1 > MaxFolders /\ Len(dirs) <= MaxFolders
        BY <1>0, <2>0, <2>2 DEF DirsRead
      <4>3. Len(dirs) \in Nat
        BY <1>a
      <4>. QED BY <4>1, <4>2, <4>3
    <3>2. DiesOnlyInTable'
      BY <1>2, <2>0, <2>2, <3>1 DEF ReadDir, DiesOnlyInTable
    <3>. QED BY <1>2, <2>0, <2>2, <3>2, <1>f, QuietStep DEF ReadDir
  <2>3. CASE pc' = "done" /\ UNCHANGED <<off, dirs, table, wild>>
    BY <1>2, <2>0, <2>3, <1>f, QuietStep DEF ReadDir
  <2>. QED BY <1>2, <2>1, <2>2, <2>3 DEF ReadDir, Fail
<1>3. CASE SortDirs
  <2>0. pc = "read" /\ list = <<>> /\ ~(off < disc.at[Len(disc.recs) + 1])
    BY <1>0, <1>3 DEF SortDirs, Reading, TableRead
  <2>1. CASE pc' = "list"
    <3>1. Len(dirs) = Len(disc.recs)
      <4>1. off = disc.at[Len(dirs) + 1] /\ Len(dirs) <= Len(disc.recs)
        BY <1>0, <2>0 DEF TableRead, DirsRead
      <4>2. ASSUME Len(dirs) < Len(disc.recs) PROVE FALSE
        <5>1. PICK j, k \in 1 .. (Len(disc.recs) + 1) :
                 j = Len(dirs) + 1 /\ k = Len(disc.recs) + 1 /\ j < k
          BY <1>a, <4>2
        <5>2. disc.at[j] < disc.at[k]
          BY <1>0, <5>1, Layout
        <5>. QED BY <2>0, <4>1, <5>1, <5>2
      <4>. QED BY <1>a, <4>1, <4>2
    <3>. QED BY <1>0, <1>3, <2>0, <2>1, <3>1
             DEF SortDirs, Inv, DirsRead, TableRead, LinksClimb, FreedOnceAndLast,
                 DiesOnlyInTable
  <2>2. CASE pc' = "aborted" /\ UNCHANGED <<table, ret>>
    <3>1. DiesOnlyInTable'
      BY <1>3, <2>0, <2>2 DEF SortDirs, DiesOnlyInTable
    <3>. QED BY <1>3, <2>0, <2>2, <3>1, <1>f, QuietStep DEF SortDirs
  <2>3. CASE pc' = "done" /\ UNCHANGED table
    BY <1>3, <2>0, <2>3, <1>f, QuietStep DEF SortDirs
  <2>. QED BY <1>3, <2>1, <2>2, <2>3 DEF SortDirs, Fail
<1>4. CASE ListFiles
  <2>1. CASE \E tail \in Tails :
             /\ files' = [i \in DOMAIN disc.files |->
                            [dir |-> disc.files[i].dir,
                             name |-> FileName(disc.files[i].id, tail)]]
             /\ pc' = "file" /\ UNCHANGED ret
    <3>1. /\ DOMAIN files' = DOMAIN disc.files
          /\ \A i \in DOMAIN disc.files : files'[i].dir = disc.files[i].dir
      BY <2>1
    <3>. QED BY <1>0, <1>4, <2>1, <3>1
             DEF ListFiles, Inv, DirsRead, TableRead, LinksClimb, FreedOnceAndLast,
                 DiesOnlyInTable
  <2>2. CASE pc' = "done" /\ UNCHANGED files
    BY <1>4, <2>2, <1>f, QuietStep DEF ListFiles
  <2>. QED BY <1>4, <2>1, <2>2 DEF ListFiles, Fail
<1>5. CASE StartPath
  <2>1. CASE /\ list' = <<files[fi].dir>> /\ pc' = "climb" /\ UNCHANGED ret
    <3>1. files[fi].dir \in DOMAIN dirs
      <4>1. files[fi].dir = disc.files[fi].dir /\ fi \in DOMAIN disc.files
            /\ Len(dirs) = Len(disc.recs)
        BY <1>0, <1>5 DEF StartPath, LinksClimb, TableRead
      <4>2. disc.files[fi].dir \in DOMAIN disc.recs
        BY <1>0, <4>1, PathAssumption
      <4>. QED BY <1>a, <4>1, <4>2
    <3>2. list' \in Seq(DOMAIN dirs) /\ list' # <<>>
          /\ \A j, k \in DOMAIN list' : ~(j < k)
      BY <2>1, <3>1
    <3>. QED BY <1>0, <1>5, <2>1, <3>2
             DEF StartPath, Inv, DirsRead, TableRead, LinksClimb, FreedOnceAndLast,
                 DiesOnlyInTable
  <2>2. CASE pc' = "done" /\ UNCHANGED list
    BY <1>5, <2>2, <1>f, QuietStep DEF StartPath
  <2>. QED BY <1>5, <2>1, <2>2 DEF StartPath, Fail
<1>6. CASE Climb
  <2>0. pc = "climb" /\ ~AtRoot
    BY <1>6 DEF Climb
  <2>1. CASE \E e \in {"PATH_BUFFER_ERROR", "ALLOC_ERROR", "RECORD_ECMA_ERROR"} :
                FreeLinked(e) /\ UNCHANGED list
    BY <1>6, <2>1, RefuseStep DEF Climb
  <2>2. CASE /\ Up(list[1]) # 0 /\ list' = <<Up(list[1])>> \o list
             /\ UNCHANGED <<dirs, badFree, pc, ret>>
    BY <1>6, <2>2, LinkStep DEF Climb
  <2>3. CASE Up(list[1]) = 0 /\ pc' = "aborted" /\ UNCHANGED <<dirs, badFree, list, ret>>
    <3>1. list[1] \in DOMAIN dirs
      BY <1>0, <2>0 DEF LinksClimb
    <3>2. ~ParentsFirst
      <4>1. Up(list[1]) = ParentIn(list[1], disc.recs[list[1]].parent)
        BY <1>0, <3>1 DEF DirsRead, Up
      <4>2. list[1] \in DOMAIN disc.recs /\ list[1] \in Nat
        BY <1>a, <3>1
      <4>3. disc.recs[list[1]] \in PathRecord
        BY <1>0, <1>a, <4>2, Layout
      <4>4. disc.recs[list[1]].parent \in Nat \ {0}
        BY <4>3 DEF PathRecord
      <4>5. disc.recs[list[1]].parent > list[1]
        BY <2>3, <4>1, <4>2, <4>4 DEF ParentIn
      <4>. QED BY <4>2, <4>4, <4>5 DEF ParentsFirst
    <3>3. FreedOnceAndLast'
      BY <1>0, <1>6, <2>0, <2>3, <3>1 DEF Climb, Cur, DirsRead, FreedOnceAndLast
    <3>4. DiesOnlyInTable'
      BY <1>6, <3>2 DEF Climb, DiesOnlyInTable, ParentsFirst
    <3>. QED BY <1>6, <2>0, <2>3, <3>3, <3>4, QuietStep DEF Climb
  <2>. QED BY <1>6, <2>1, <2>2, <2>3 DEF Climb
<1>7. CASE WritePath
  <2>1. ~\E k \in DOMAIN list : ~dirs[list[k]].live
    BY <1>0, <1>7 DEF WritePath, LinksClimb, DirsRead
  <2>2. FreedOnceAndLast'
    BY <1>0, <1>7, <2>1 DEF WritePath, FreedOnceAndLast
  <2>. QED BY <1>0, <1>7, <2>2
           DEF WritePath, Inv, DirsRead, TableRead, LinksClimb, DiesOnlyInTable
<1>8. CASE NextFile
  BY <1>0, <1>8 DEF NextFile, Inv, DirsRead, TableRead, LinksClimb, FreedOnceAndLast,
                    DiesOnlyInTable
<1>9. CASE UNCHANGED vars
  BY <1>0, <1>9 DEF vars, Inv, DirsRead, TableRead, LinksClimb, FreedOnceAndLast,
                    DiesOnlyInTable, ParentsFirst
<1>. QED BY <1>1, <1>2, <1>3, <1>4, <1>5, <1>6, <1>7, <1>8, <1>9
         DEF Next, Terminated

(* Every record is read, in order.                                         *)
LEMMA InvTable == Inv => TableIsComplete
<1>. SUFFICES ASSUME Inv PROVE TableIsComplete
  OBVIOUS
<1>0. disc \in Discs /\ DirsRead /\ TableRead
  BY DEF Inv
<1>1. ASSUME Reading PROVE RecordAt(off) = Len(dirs) + 1
  <2>1. off = disc.at[Len(dirs) + 1] /\ Len(dirs) <= Len(disc.recs)
    BY <1>0, <1>1 DEF TableRead, DirsRead, Reading
  <2>2. \A m \in 1 .. (Len(disc.recs) + 1) : disc.at[m] \in Nat
    BY <1>0, Layout
  <2>3. Len(dirs) # Len(disc.recs)
    <3>. SUFFICES ASSUME Len(dirs) = Len(disc.recs) PROVE FALSE
      OBVIOUS
    <3>1. off < off
      BY <1>1, <2>1 DEF Reading
    <3>2. off \in Nat
      BY <1>0, <2>1, <2>2, DirsPlaces
    <3>. QED BY <3>1, <3>2
  <2>4. Len(dirs) + 1 \in DOMAIN disc.recs
    BY <1>0, <2>1, <2>3, DirsPlaces
  <2>. QED BY <1>0, <2>1, <2>4, RecordFound
<1>. QED BY <1>0, <1>1 DEF TableIsComplete, TableRead

LEMMA InvCorrect == Spec => []Inv
BY InvInit, InvStep, PTL DEF Spec

-----------------------------------------------------------------------------
(* Names are what was made of the identifiers in the order they were read. *)
NamesRead ==
    /\ \A i \in DOMAIN dirs :
          \E tail \in Tails : dirs[i].name = DirName(disc.recs[i].id, tail)
    /\ pc \in {"file", "climb", "built"} =>
          \A i \in DOMAIN files :
             \E tail \in Tails : files[i].name = FileName(disc.files[i].id, tail)

(* The links lead from the directory of the file up, and the length counts *)
(* the names below the first of them, each with its '/', and the file.     *)
PathClimbs ==
    pc \in {"climb", "built"} =>
       /\ list[Len(list)] = files[fi].dir
       /\ \A k \in 2 .. Len(list) :
             Up(list[k]) = list[k - 1] /\ list[k - 1] # list[k]
       /\ pathLen <= BufSize
       /\ pathLen + Len(Cur.name) = Len(Joined(Names)) + Len(files[fi].name)

PathWritten ==
    pc = "built" => AtRoot /\ path = Joined(Names) \o files[fi].name

-----------------------------------------------------------------------------
(* What the code makes of a name, and what it keeps of it.                 *)
LEMMA NameTyped ==
    ASSUME NEW id \in Seq(Byte), NEW tail \in Tails
    PROVE  /\ Name(id, tail) \in Seq(Byte)
           /\ DirName(id, tail) \in Seq(Byte)
<1>1. PICK m : m = Memory(id, tail)
  OBVIOUS
<1>2. Ended(m)
  BY <1>1, IdBuffer
<1>3. LastWord(m) \in 0 .. LastWord(m) /\ Unit(m, LastWord(m)) = 0
  <2>1. LastWord(m) \in Nat /\ Unit(m, LastWord(m)) = 0
    BY <1>2 DEF Ended
  <2>. QED BY <2>1
<1>4. Name(id, tail) \in Seq(Byte)
  BY <1>1, <1>2, <1>3, WrittenLength DEF Name
<1>5. PICK s \in Seq(Byte) : s = Name(id, tail)
  BY <1>4
<1>6. DirNameLen(Len(s)) \in 0 .. Len(s)
  BY PathAssumption DEF DirNameLen
<1>7. PICK n \in Nat : n = Len(s)
  OBVIOUS
<1>8. PICK l \in 0 .. n : l = DirNameLen(n)
  BY <1>6, <1>7
<1>9. SubSeq(s, 1, l) \in Seq(Byte)
  BY <1>7
<1>. QED BY <1>4, <1>5, <1>7, <1>8, <1>9, Zenon DEF DirName

(* The name of a file: shorter than the buffer, without its ";1".          *)
LEMMA FileNameTyped ==
    ASSUME disc \in Discs, NEW i \in DOMAIN disc.files, NEW tail \in Tails
    PROVE  LET id == disc.files[i].id
               n == Len(Name(id, tail))
           IN  /\ id \in Seq(Byte) /\ disc.files[i].dir \in Nat
               /\ n \in Nat /\ n >= 2 /\ FileNameLen(n) \in 0 .. n
               /\ FileName(id, tail) \in Seq(Byte)
               /\ Len(FileName(id, tail)) = FileNameLen(n)
               /\ Len(FileName(id, tail)) < BufSize
<1>1. disc.files[i].id \in Seq(Byte) /\ disc.files[i].dir \in Nat
  <2>1. disc.files[i] \in File
    BY Layout
  <2>. QED BY <2>1 DEF File
<1>2. PICK id \in Seq(Byte) : id = disc.files[i].id
  BY <1>1
<1>3. PICK s \in Seq(Byte) : s = Name(id, tail)
  BY <1>2, NameTyped
<1>4. PICK n \in Nat : n = Len(s)
  OBVIOUS
<1>5. n >= 2 /\ FileNameLen(n) < BufSize
  BY <1>2, <1>3, <1>4, PathAssumption, Zenon
<1>6. FileNameLen(n) \in 0 .. n
  BY <1>5, PathAssumption DEF FileNameLen
<1>7. PICK l \in 0 .. n : l = FileNameLen(n)
  BY <1>6
<1>8. SubSeq(s, 1, l) \in Seq(Byte) /\ Len(SubSeq(s, 1, l)) = l
  BY <1>4
<1>9. FileName(id, tail) = SubSeq(s, 1, l)
  BY <1>3, <1>4, <1>7, Zenon DEF FileName
<1>. QED BY <1>1, <1>2, <1>3, <1>4, <1>5, <1>6, <1>7, <1>8, <1>9

(* The names of the directories of a path.                                 *)
LEMMA NamesAre ==
    ASSUME NEW d \in Seq(Dir), NEW l \in Seq(DOMAIN d),
           NEW names, names = [k \in DOMAIN l |-> d[l[k]].name]
    PROVE  /\ names \in Seq(Seq(Byte)) /\ Len(names) = Len(l)
           /\ DOMAIN names = 1 .. Len(l) /\ DOMAIN l = 1 .. Len(l)
           /\ \A k \in 1 .. Len(l) : names[k] = d[l[k]].name
<1>1. PICK n \in Nat : n = Len(l) /\ DOMAIN l = 1 .. n
  OBVIOUS
<1>2. ASSUME NEW k \in 1 .. n PROVE d[l[k]].name \in Seq(Byte)
  <2>1. l[k] \in DOMAIN d
    BY <1>1
  <2>2. d[l[k]] \in Dir
    BY <2>1
  <2>. QED BY <2>2 DEF Dir
<1>3. names \in [1 .. n -> Seq(Byte)] /\ \A k \in 1 .. n : names[k] = d[l[k]].name
  BY <1>1, <1>2
<1>4. names \in Seq(Seq(Byte)) /\ Len(names) = n /\ DOMAIN names = 1 .. n
  BY <1>3
<1>. QED BY <1>1, <1>3, <1>4

(* Only a name that is not UTF-16 is converted outside of its buffers.     *)
LEMMA WildStep ==
    ASSUME disc \in Discs, NamesStayInBounds, [Next]_vars
    PROVE  NamesStayInBounds'
<1>1. ASSUME NEW ids \in SUBSET Seq(Byte), NEW tail \in Tails, NEW id \in WildIn(ids, tail)
      PROVE  Len(id) % 2 = 1 /\ id[Len(id)] # 0
  <2>1. id \in Seq(Byte) /\ ~InBounds(id, tail)
    BY DEF WildIn
  <2>2. ~(Len(id) % 2 = 1 => id[Len(id)] = 0)
    BY <2>1, StaysInBounds
  <2>. QED BY <2>2
<1>2. CASE UNCHANGED wild
  BY <1>2 DEF NamesStayInBounds
<1>3. CASE \E ids \in SUBSET Seq(Byte), tail \in Tails : wild' = wild \cup WildIn(ids, tail)
  BY <1>1, <1>3 DEF NamesStayInBounds
<1>4. CASE ReadDir
  <2>. DEFINE i == RecordAt(off)
  <2>1. i \in DOMAIN disc.recs
    BY <1>4 DEF ReadDir, RecordAt
  <2>2. disc.recs[i] \in PathRecord
    BY <2>1, Layout
  <2>3. {disc.recs[i].id} \in SUBSET Seq(Byte)
    BY <2>2 DEF PathRecord
  <2>4. UNCHANGED wild \/ \E tail \in Tails : wild' = wild \cup WildIn({disc.recs[i].id}, tail)
    BY <1>4 DEF ReadDir
  <2>. QED BY <1>2, <1>3, <2>3, <2>4
<1>5. CASE ListFiles
  <2>. DEFINE ids == Dots \cup {disc.files[i].id : i \in DOMAIN disc.files}
  <2>1. ASSUME NEW i \in DOMAIN disc.files PROVE disc.files[i].id \in Seq(Byte)
    <3>1. disc.files[i] \in File
      BY Layout
    <3>. QED BY <3>1 DEF File
  <2>2. Dots \in SUBSET Seq(Byte)
    BY DEF Dots, Byte
  <2>3. ids \in SUBSET Seq(Byte)
    BY <2>1, <2>2
  <2>4. UNCHANGED wild \/ \E tail \in Tails : wild' = wild \cup WildIn(ids, tail)
    BY <1>5 DEF ListFiles
  <2>. HIDE DEF ids
  <2>. QED BY <1>2, <1>3, <2>3, <2>4
<1>. QED BY <1>2, <1>4, <1>5
         DEF Next, Terminated, vars, Open, SortDirs, StartPath, Climb, WritePath,
             NextFile

(* Type correctness: one lemma per action that changes more than pc.       *)
LEMMA TypeInit == Init => TypeOK
<1>. SUFFICES ASSUME Init PROVE TypeOK
  OBVIOUS
<1>1. <<>> \in Seq(Byte) /\ <<>> \in Seq(Dir) /\ <<>> \in Seq(DOMAIN <<>>)
      /\ <<>> \in Seq([dir: Nat, name: Seq(Byte)]) /\ Len(<<>>) = 0
      /\ DOMAIN <<>> = {}
  OBVIOUS
<1>2. MaxFolders \in Nat
  BY PathAssumption
<1>3. /\ table \in Seq(DOMAIN dirs) /\ list \in Seq(DOMAIN dirs)
      /\ Len(dirs) <= MaxFolders /\ \A i \in DOMAIN dirs : FALSE
  BY <1>1, <1>2 DEF Init
<1>4. /\ dirs \in Seq(Dir) /\ path \in Seq(Byte)
      /\ files \in Seq([dir: Nat, name: Seq(Byte)])
  BY <1>1 DEF Init
<1>5. /\ off \in Nat /\ pathLen \in Nat /\ fi \in Nat \ {0}
      /\ pc = "open" /\ ret = "EXIT_OK" /\ badFree = FALSE /\ stale = FALSE
      /\ disc \in Discs
  BY DEF Init
<1>. QED BY <1>3, <1>4, <1>5 DEF TypeOK

(* A directory is read; the table names every directory.                   *)
LEMMA TypeReadDir ==
    ASSUME Inv, Inv', TypeOK, ReadDir
    PROVE  TypeOK'
<1>. DEFINE i == RecordAt(off)  r == disc.recs[i]  n == Len(table) + 1
<1>0. disc \in Discs /\ pc = "read" /\ Len(table) = Len(dirs) /\ list = <<>>
  BY DEF Inv, ReadDir, Reading, TableRead
<1>1. i \in DOMAIN disc.recs
  BY DEF ReadDir, RecordAt
<1>2. r \in PathRecord
  BY <1>0, <1>1, Layout
<1>3. CASE UNCHANGED <<off, dirs, table>> /\ pc' \in {"aborted", "done"}
  <2>1. ret' \in {"EXIT_OK", "ALLOC_ERROR", "F_OPEN_ERROR", "F_SEEK_ERROR",
                "F_READ_ERROR", "PATH_BUFFER_ERROR", "RECORD_ECMA_ERROR"}
    BY <1>3 DEF ReadDir, TypeOK, Fail
  <2>. QED BY <1>3, <2>1 DEF ReadDir, TypeOK
<1>4. CASE /\ \E tail \in Tails : dirs' = Append(dirs,
                 [block |-> r.block, name |-> DirName(r.id, tail),
                  parent |-> ParentIn(n, r.parent), live |-> TRUE])
           /\ table' = Append(table, n)
           /\ off' = off + RecordLength(Len(r.id))
           /\ UNCHANGED <<pc, ret>>
  <2>1. PICK tail \in Tails : dirs' = Append(dirs,
                 [block |-> r.block, name |-> DirName(r.id, tail),
                  parent |-> ParentIn(n, r.parent), live |-> TRUE])
    BY <1>4
  <2>2. r.block \in Nat /\ r.parent \in Nat \ {0} /\ r.id \in Seq(Byte)
    BY <1>2 DEF PathRecord
  <2>3. DirName(r.id, tail) \in Seq(Byte)
    BY <2>2, NameTyped
  <2>4. ParentIn(n, r.parent) \in Nat
    BY <2>2 DEF ParentIn
  <2>5. PICK e \in Dir : dirs' = Append(dirs, e)
    BY <2>1, <2>2, <2>3, <2>4 DEF Dir
  <2>6. dirs \in Seq(Dir) /\ table \in Seq(DOMAIN dirs)
    BY DEF TypeOK
  <2>7. dirs' \in Seq(Dir) /\ Len(dirs') = Len(dirs) + 1
    BY <2>5, <2>6
  <2>8. table' \in Seq(DOMAIN dirs')
    <3>1. n \in DOMAIN dirs' /\ DOMAIN dirs \subseteq DOMAIN dirs'
      BY <1>0, <2>6, <2>7
    <3>2. table \in Seq(DOMAIN dirs')
      BY <2>6, <3>1
    <3>. QED BY <1>4, <3>1, <3>2
  <2>9. off' \in Nat
    <3>1. PICK k \in Nat : k = (RecHdr + Len(r.id)) % ByteMod
      <4>1. PICK l \in Nat : l = Len(r.id)
        BY <2>2
      <4>2. RecHdr \in Nat /\ ByteMod \in Nat \ {0}
        BY PathAssumption
      <4>3. (RecHdr + l) % ByteMod \in Nat
        BY <4>2
      <4>. QED BY <4>1, <4>3
    <3>2. RecordLength(Len(r.id)) \in Nat
      BY <3>1 DEF RecordLength
    <3>. QED BY <1>4, <3>2 DEF TypeOK
  <2>10. Len(dirs') <= MaxFolders /\ \A j \in DOMAIN dirs' : dirs'[j].parent <= j
    <3>1. DirsRead' /\ disc' = disc
      BY DEF Inv, ReadDir
    <3>2. DOMAIN dirs' = 1 .. Len(dirs') /\ Len(dirs') \in Nat
      BY <2>7
    <3>3. ASSUME NEW j \in DOMAIN dirs' PROVE dirs'[j].parent <= j
      <4>1. dirs'[j].parent = ParentIn(j, disc.recs[j].parent) /\ j \in Nat
        BY <3>1, <3>2, <3>3 DEF DirsRead
      <4>2. j \in DOMAIN disc.recs
        <5>1. Len(dirs') <= Len(disc.recs)
          BY <3>1 DEF DirsRead
        <5>. QED BY <1>0, <3>2, <5>1, Layout
      <4>3. disc.recs[j] \in PathRecord
        BY <1>0, <4>2, Layout
      <4>4. disc.recs[j].parent \in Nat
        BY <4>3 DEF PathRecord
      <4>. QED BY <4>1, <4>4 DEF ParentIn
    <3>. QED BY <3>1, <3>3 DEF DirsRead
  <2>11. list' \in Seq(DOMAIN dirs') /\ pc' = "read"
    BY <1>0, <1>4 DEF ReadDir
  <2>. QED BY <1>4, <2>7, <2>8, <2>9, <2>10, <2>11 DEF ReadDir, TypeOK
<1>. QED BY <1>3, <1>4 DEF ReadDir, Fail

(* The sorted table holds the entries of the table.                        *)
LEMMA TypeSortDirs ==
    ASSUME TypeOK, SortDirs
    PROVE  TypeOK'
<1>1. table \in Seq(DOMAIN dirs) /\ UNCHANGED dirs
  BY DEF TypeOK, SortDirs
<1>2. ASSUME table' \in SortedTables PROVE table' \in Seq(DOMAIN dirs)
  <2>1. PICK p \in Bijection(DOMAIN table, DOMAIN table) :
           table' = [i \in DOMAIN table |-> table[p[i]]]
    BY <1>2 DEF SortedTables
  <2>2. PICK n \in Nat : n = Len(table) /\ DOMAIN table = 1 .. n
    BY <1>1
  <2>3. p \in [1 .. n -> 1 .. n]
    BY <2>2 DEF Bijection, Injection, Surjection, IsInjective
  <2>4. table' \in [1 .. n -> DOMAIN dirs]
    <3>1. \A k \in 1 .. n : table[k] \in DOMAIN dirs
      BY <1>1, <2>2
    <3>. QED BY <2>1, <2>2, <2>3, <3>1
  <2>. QED BY <2>2, <2>4, IsSequence, Zenon
<1>2a. table' = table \/ table' \in SortedTables
  BY DEF SortDirs
<1>3. table' \in Seq(DOMAIN dirs')
  BY <1>1, <1>2, <1>2a, Zenon
<1>4. /\ pc' \in {"list", "aborted", "done"}
      /\ ret' \in {"EXIT_OK", "ALLOC_ERROR", "F_OPEN_ERROR", "F_SEEK_ERROR",
                "F_READ_ERROR", "PATH_BUFFER_ERROR", "RECORD_ECMA_ERROR"}
  BY DEF SortDirs, Fail, TypeOK
<1>. QED BY <1>3, <1>4 DEF SortDirs, TypeOK

(* The names of the files are listed.                                      *)
LEMMA TypeListFiles ==
    ASSUME TypeOK, ListFiles
    PROVE  TypeOK'
<1>0. disc \in Discs
  BY DEF TypeOK
<1>1. ASSUME \E tail \in Tails :
                files' = [i \in DOMAIN disc.files |->
                            [dir |-> disc.files[i].dir,
                             name |-> FileName(disc.files[i].id, tail)]]
      PROVE  files' \in Seq([dir: Nat, name: Seq(Byte)])
  <2>1. PICK tail \in Tails :
             files' = [i \in DOMAIN disc.files |->
                            [dir |-> disc.files[i].dir,
                             name |-> FileName(disc.files[i].id, tail)]]
    BY <1>1
  <2>2. PICK n \in Nat : DOMAIN disc.files = 1 .. n
    BY <1>0, Layout
  <2>3. ASSUME NEW i \in 1 .. n
        PROVE  /\ disc.files[i].dir \in Nat
               /\ FileName(disc.files[i].id, tail) \in Seq(Byte)
    BY <1>0, <2>2, FileNameTyped
  <2>4. files' \in [1 .. n -> [dir: Nat, name: Seq(Byte)]]
    BY <2>1, <2>2, <2>3
  <2>. QED BY <2>2, <2>4, IsSequence, Zenon
<1>1a. UNCHANGED files \/ \E tail \in Tails :
             files' = [i \in DOMAIN disc.files |->
                            [dir |-> disc.files[i].dir,
                             name |-> FileName(disc.files[i].id, tail)]]
  BY DEF ListFiles
<1>2. files' \in Seq([dir: Nat, name: Seq(Byte)])
  BY <1>1, <1>1a DEF TypeOK
<1>3. /\ pc' \in {"file", "done"}
      /\ ret' \in {"EXIT_OK", "ALLOC_ERROR", "F_OPEN_ERROR", "F_SEEK_ERROR",
                "F_READ_ERROR", "PATH_BUFFER_ERROR", "RECORD_ECMA_ERROR"}
  BY DEF ListFiles, Fail, TypeOK
<1>. QED BY <1>2, <1>3 DEF ListFiles, TypeOK

LEMMA FileTyped ==
    ASSUME NEW f \in Seq([dir: Nat, name: Seq(Byte)]), NEW i \in DOMAIN f
    PROVE  f[i].name \in Seq(Byte)
<1>1. f[i] \in [dir: Nat, name: Seq(Byte)]
  BY ElementIn, Zenon
<1>. QED BY <1>1

(* The directory of a file is one that was read.                           *)
LEMMA TypeStartPath ==
    ASSUME Inv, TypeOK, StartPath
    PROVE  TypeOK'
<1>1. CASE Fail("ALLOC_ERROR") /\ UNCHANGED <<list, pathLen>>
  BY <1>1 DEF StartPath, Fail, TypeOK
<1>2. CASE /\ list' = <<files[fi].dir>> /\ pathLen' = Len(files[fi].name) + 1
           /\ pc' = "climb" /\ UNCHANGED ret
  <2>1. files[fi].name \in Seq(Byte) /\ fi \in DOMAIN files
    <3>1. files \in Seq([dir: Nat, name: Seq(Byte)]) /\ fi \in DOMAIN files
      BY DEF StartPath, TypeOK
    <3>. QED BY <3>1, FileTyped
  <2>2. pathLen' \in Nat
    BY <1>2, <2>1
  <2>3. files[fi].dir \in DOMAIN dirs
    <3>1. /\ disc \in Discs /\ DirsRead /\ Len(dirs) = Len(disc.recs)
          /\ files[fi].dir = disc.files[fi].dir /\ fi \in DOMAIN disc.files
      BY <2>1 DEF StartPath, Inv, TableRead, LinksClimb
    <3>2. disc.files[fi].dir \in DOMAIN disc.recs
      BY <3>1, PathAssumption
    <3>. QED BY <3>1, <3>2, DirsPlaces
  <2>4. list' \in Seq(DOMAIN dirs) /\ list' # <<>>
    BY <1>2, <2>3
  <2>. QED BY <1>2, <2>1, <2>2, <2>4 DEF StartPath, TypeOK
<1>. QED BY <1>1, <1>2 DEF StartPath

(* A path that is refused changes nothing of a directory but its life.     *)
LEMMA TypeClimb ==
    ASSUME Inv, TypeOK, Climb
    PROVE  TypeOK'
<1>0. /\ list \in Seq(DOMAIN dirs) /\ list # <<>> /\ fi \in DOMAIN files
      /\ dirs \in Seq(Dir) /\ disc \in Discs /\ DirsRead
      /\ Len(dirs) <= MaxFolders /\ \A i \in DOMAIN dirs : dirs[i].parent <= i
  BY DEF Climb, TypeOK, Inv
<1>1. list[1] \in DOMAIN dirs
  BY <1>0
<1>2. Cur \in Dir /\ Cur.live \in BOOLEAN /\ Cur.name \in Seq(Byte)
  <2>1. Cur \in Dir
    BY <1>0, <1>1 DEF Cur
  <2>. QED BY <2>1 DEF Dir
<1>3. pathLen' \in Nat /\ stale' \in BOOLEAN
  <2>1. Len(Cur.name) \in Nat
    BY <1>2
  <2>. QED BY <1>2, <2>1 DEF Climb, TypeOK
<1>4. CASE \E e \in {"PATH_BUFFER_ERROR", "ALLOC_ERROR", "RECORD_ECMA_ERROR"} :
              FreeLinked(e) /\ UNCHANGED list
  <2>1. PICK n \in Nat : n = Len(dirs) /\ DOMAIN dirs = 1 .. n
    BY <1>0
  <2>2. dirs' = [i \in DOMAIN dirs |->
                   IF \E k \in DOMAIN list : list[k] = i
                   THEN [dirs[i] EXCEPT !.live = FALSE] ELSE dirs[i]]
    BY <1>4 DEF FreeLinked
  <2>3. ASSUME NEW i \in 1 .. n
        PROVE  dirs'[i] \in Dir /\ dirs'[i].parent = dirs[i].parent
    <3>1. dirs[i] \in Dir
      BY <1>0, <2>1
    <3>2. [dirs[i] EXCEPT !.live = FALSE] \in Dir
      BY <3>1 DEF Dir
    <3>. QED BY <2>1, <2>2, <3>1, <3>2
  <2>4. dirs' \in [1 .. n -> Dir]
    BY <2>1, <2>2, <2>3
  <2>5. dirs' \in Seq(Dir) /\ Len(dirs') = Len(dirs) /\ DOMAIN dirs' = DOMAIN dirs
    BY <2>1, <2>4
  <2>6. \A i \in DOMAIN dirs' : dirs'[i].parent <= i
    BY <1>0, <2>1, <2>3, <2>5
  <2>7. badFree' \in BOOLEAN /\ pc' = "done" /\ UNCHANGED <<list, table>>
    BY <1>4 DEF FreeLinked, PathFails, Fail, Climb
  <2>8. ret' \in {"EXIT_OK", "ALLOC_ERROR", "F_OPEN_ERROR", "F_SEEK_ERROR",
                "F_READ_ERROR", "PATH_BUFFER_ERROR", "RECORD_ECMA_ERROR"}
    BY <1>4 DEF FreeLinked, PathFails, Fail
  <2>. QED BY <1>0, <1>3, <2>5, <2>6, <2>7, <2>8 DEF Climb, TypeOK
<1>5. CASE /\ Up(list[1]) # 0 /\ list' = <<Up(list[1])>> \o list
           /\ UNCHANGED <<dirs, badFree, pc, ret>>
  <2>1. Up(list[1]) \in DOMAIN dirs
    <3>1. /\ Up(list[1]) \in 0 .. list[1] /\ list[1] \in 1 .. Len(dirs)
          /\ Len(dirs) \in Nat /\ DOMAIN dirs = 1 .. Len(dirs)
      BY <1>0, <1>1, DirsPlaces DEF Up
    <3>. QED BY <1>5, <3>1
  <2>2. PICK up \in DOMAIN dirs : list' = <<up>> \o list
    BY <1>5, <2>1
  <2>3. list' \in Seq(DOMAIN dirs) /\ list' # <<>>
    <3>1. <<up>> \in Seq(DOMAIN dirs) /\ Len(<<up>>) = 1
      OBVIOUS
    <3>2. list' \in Seq(DOMAIN dirs) /\ Len(list') = 1 + Len(list)
      BY <1>0, <2>2, <3>1
    <3>3. Len(list) \in Nat
      BY <1>0
    <3>. QED BY <3>2, <3>3
  <2>. QED BY <1>0, <1>3, <1>5, <2>3 DEF Climb, TypeOK
<1>6. CASE pc' = "aborted" /\ UNCHANGED <<dirs, badFree, list, ret>>
  BY <1>3, <1>6 DEF Climb, TypeOK
<1>. QED BY <1>4, <1>5, <1>6 DEF Climb

(* The parts of a path, while one is built.                                *)
LEMMA PathParts ==
    ASSUME TypeOK, pc \in {"climb", "built"}
    PROVE  /\ Names \in Seq(Seq(Byte)) /\ Joined(Names) \in Seq(Byte)
           /\ files[fi].name \in Seq(Byte)
<1>0. /\ list \in Seq(DOMAIN dirs) /\ dirs \in Seq(Dir) /\ fi \in DOMAIN files
      /\ files \in Seq([dir: Nat, name: Seq(Byte)])
  BY DEF TypeOK
<1>1. Names \in Seq(Seq(Byte))
  BY <1>0, NamesAre, Zenon DEF Names
<1>2. files[fi].name \in Seq(Byte)
  BY <1>0, FileTyped
<1>3. Joined(Names) \in Seq(Byte)
  <2>1. PICK N \in Nat : N = Len(Names)
    BY <1>1
  <2>2. PICK g : Joined(Names) = g[N] /\ \A k \in 0 .. N : g[k] \in Seq(Byte)
    BY <1>1, <2>1, JoinedIs
  <2>3. N \in 0 .. N
    OBVIOUS
  <2>. QED BY <2>2, <2>3
<1>. QED BY <1>1, <1>2, <1>3

(* A path is written.                                                      *)
LEMMA TypeWritePath ==
    ASSUME Inv, TypeOK, WritePath
    PROVE  TypeOK'
<1>1. path' \in Seq(Byte)
  <2>1. Joined(Names) \in Seq(Byte) /\ files[fi].name \in Seq(Byte)
    BY PathParts DEF WritePath
  <2>2. PICK s \in Seq(Byte), t \in Seq(Byte) : path' = s \o t
    BY <2>1 DEF WritePath
  <2>. QED BY <2>2
<1>2. stale' \in BOOLEAN
  BY DEF WritePath, Inv, FreedOnceAndLast, LinksClimb, DirsRead
<1>. QED BY <1>1, <1>2 DEF WritePath, TypeOK

(* No step leaves the types.                                               *)
LEMMA TypeStep == Inv /\ Inv' /\ TypeOK /\ [Next]_vars => TypeOK'
<1>. SUFFICES ASSUME Inv, Inv', TypeOK, [Next]_vars PROVE TypeOK'
  OBVIOUS
<1>1. CASE Open
  <2>1. off' \in Nat
    <3>1. PICK x \in Nat, y \in Nat : x = disc.loc /\ y = disc.block
      BY PathAssumption DEF TypeOK
    <3>2. x * y \in Nat
      OBVIOUS
    <3>. QED BY <1>1, <3>1, <3>2 DEF Open, TableStart, TypeOK
  <2>. QED BY <1>1, <2>1 DEF Open, Fail, TypeOK
<1>2. CASE NextFile
  <2>1. fi' \in Nat \ {0}
    BY <1>2 DEF NextFile, NextIndex, TypeOK
  <2>. QED BY <1>2, <2>1 DEF NextFile, TypeOK
<1>3. CASE UNCHANGED vars
  BY <1>3 DEF vars, TypeOK
<1>. QED BY <1>1, <1>2, <1>3, TypeReadDir, TypeSortDirs, TypeListFiles, TypeStartPath,
            TypeClimb, TypeWritePath
         DEF Next, Terminated

(* A name stays what was made of its identifier.                           *)
LEMMA NamesStep ==
    ASSUME Inv, TypeOK, NamesRead, [Next]_vars
    PROVE  NamesRead'
<1>0. /\ disc \in Discs /\ disc' = disc /\ dirs \in Seq(Dir)
      /\ \A i \in DOMAIN dirs :
            \E tail \in Tails : dirs[i].name = DirName(disc.recs[i].id, tail)
  BY DEF TypeOK, NamesRead, Next, Terminated, vars, Open, ReadDir, SortDirs,
         ListFiles, StartPath, Climb, WritePath, NextFile
<1>1. ASSUME UNCHANGED dirs
      PROVE  \A i \in DOMAIN dirs' :
                \E tail \in Tails : dirs'[i].name = DirName(disc'.recs[i].id, tail)
  BY <1>0, <1>1
<1>2. CASE ReadDir
  <2>0. pc = "read" /\ pc' \in {"read", "aborted", "done"}
    BY <1>2 DEF ReadDir, Reading, Fail
  <2>1. ASSUME NEW tail \in Tails, NEW e,
               e.name = DirName(disc.recs[RecordAt(off)].id, tail),
               dirs' = Append(dirs, e)
        PROVE  \A i \in DOMAIN dirs' :
                  \E t \in Tails : dirs'[i].name = DirName(disc'.recs[i].id, t)
    <3>1. PICK n \in Nat : n = Len(dirs) /\ DOMAIN dirs = 1 .. n
      BY <1>0
    <3>2. RecordAt(off) = n + 1
      BY <1>2, <3>1, InvTable DEF ReadDir, TableIsComplete
    <3>3. /\ DOMAIN dirs' = 1 .. (n + 1) /\ dirs'[n + 1] = e
          /\ \A i \in 1 .. n : dirs'[i] = dirs[i]
      BY <1>0, <2>1, <3>1
    <3>4. ASSUME NEW i \in 1 .. (n + 1)
          PROVE  \E t \in Tails : dirs'[i].name = DirName(disc'.recs[i].id, t)
      <4>1. CASE i = n + 1
        BY <1>0, <2>1, <3>2, <3>3, <4>1
      <4>2. CASE i # n + 1
        <5>1. i \in 1 .. n
          BY <4>2
        <5>. QED BY <1>0, <3>1, <3>3, <5>1
      <4>. QED BY <4>1, <4>2
    <3>. QED BY <3>3, <3>4
  <2>2. CASE \E tail \in Tails : \E e : /\ e.name = DirName(disc.recs[RecordAt(off)].id, tail)
                                        /\ dirs' = Append(dirs, e)
    BY <2>0, <2>1, <2>2 DEF NamesRead
  <2>3. CASE UNCHANGED dirs
    BY <1>1, <2>0, <2>3 DEF NamesRead
  <2>4. ASSUME NEW tail \in Tails,
               dirs' = Append(dirs,
                         [block |-> disc.recs[RecordAt(off)].block,
                          name |-> DirName(disc.recs[RecordAt(off)].id, tail),
                          parent |-> ParentIn(Len(table) + 1, disc.recs[RecordAt(off)].parent),
                          live |-> TRUE])
        PROVE  \E e : /\ e.name = DirName(disc.recs[RecordAt(off)].id, tail)
                      /\ dirs' = Append(dirs, e)
    <3>. DEFINE e == [block |-> disc.recs[RecordAt(off)].block,
                      name |-> DirName(disc.recs[RecordAt(off)].id, tail),
                      parent |-> ParentIn(Len(table) + 1, disc.recs[RecordAt(off)].parent),
                      live |-> TRUE]
    <3>1. e.name = DirName(disc.recs[RecordAt(off)].id, tail) /\ dirs' = Append(dirs, e)
      BY <2>4
    <3>. HIDE DEF e
    <3>. QED BY <3>1
  <2>. QED BY <1>2, <2>2, <2>3, <2>4 DEF ReadDir
<1>3. CASE ListFiles
  <2>0. UNCHANGED dirs
    BY <1>3 DEF ListFiles
  <2>1. CASE pc' = "done"
    BY <1>1, <2>0, <2>1 DEF NamesRead
  <2>2. CASE \E tail \in Tails :
             files' = [i \in DOMAIN disc.files |->
                            [dir |-> disc.files[i].dir,
                             name |-> FileName(disc.files[i].id, tail)]]
    <3>1. \A i \in DOMAIN files' :
             \E tail \in Tails : files'[i].name = FileName(disc'.files[i].id, tail)
      BY <1>0, <2>2
    <3>. QED BY <1>1, <2>0, <3>1 DEF NamesRead
  <2>. QED BY <1>3, <2>1, <2>2 DEF ListFiles, Fail
<1>4. CASE Climb
  <2>0. /\ pc = "climb" /\ pc' \in {"climb", "aborted", "done"} /\ UNCHANGED files
    BY <1>4 DEF Climb, FreeLinked, PathFails, Fail
  <2>1. UNCHANGED dirs \/
        dirs' = [i \in DOMAIN dirs |->
                   IF \E k \in DOMAIN list : list[k] = i
                   THEN [dirs[i] EXCEPT !.live = FALSE] ELSE dirs[i]]
    BY <1>4 DEF Climb, FreeLinked
  <2>2. DOMAIN dirs' = DOMAIN dirs
    BY <2>1
  <2>3. ASSUME NEW i \in DOMAIN dirs PROVE dirs'[i].name = dirs[i].name
    <3>1. dirs[i] \in Dir
      BY <1>0, ElementIn, Zenon
    <3>2. [dirs[i] EXCEPT !.live = FALSE].name = dirs[i].name
      BY <3>1 DEF Dir
    <3>. QED BY <2>1, <3>2
  <2>4. \A i \in DOMAIN dirs' :
           \E tail \in Tails : dirs'[i].name = DirName(disc'.recs[i].id, tail)
    BY <1>0, <2>2, <2>3
  <2>. QED BY <1>0, <2>0, <2>4 DEF NamesRead
<1>5. CASE UNCHANGED <<dirs, files>> /\ (pc' \in {"file", "climb", "built"}
                                        => pc \in {"file", "climb", "built"})
  BY <1>0, <1>1, <1>5 DEF NamesRead
<1>. QED BY <1>2, <1>3, <1>4, <1>5
         DEF Next, Terminated, vars, Open, SortDirs, StartPath, WritePath, NextFile, Fail

(* The names of a path of one directory, and of a path one longer.         *)
LEMMA PathOfOne ==
    ASSUME NEW d \in Seq(Byte)
    PROVE  Joined(<<d>>) = <<>> \o d \o Slash /\ Len(Joined(<<d>>)) = Len(d) + 1
<1>1. PICK names \in Seq(Seq(Byte)), N \in Nat :
         names = <<d>> /\ N = Len(names) /\ N = 1 /\ names[1] = d
  <2>1. <<d>> \in Seq(Seq(Byte)) /\ Len(<<d>>) = 1 /\ <<d>>[1] = d /\ 1 \in Nat
    OBVIOUS
  <2>. QED BY <2>1, Zenon
<1>2. PICK g : /\ g[0] = <<>> /\ Joined(names) = g[N]
               /\ \A k \in 0 .. N : g[k] \in Seq(Byte)
               /\ \A k \in 1 .. N : g[k] = g[k - 1] \o names[k] \o Slash
  BY <1>1, JoinedIs
<1>3. 1 \in 1 .. N /\ 1 - 1 = 0 /\ <<>> \in Seq(Byte) /\ Len(<<>>) = 0
  BY <1>1
<1>4. g[1] = <<>> \o d \o Slash
  BY <1>1, <1>2, <1>3
<1>5. Len(<<>> \o d \o Slash) = Len(<<>>) + Len(d) + 1
  BY <1>3, NextName, Zenon
<1>6. Len(d) \in Nat
  OBVIOUS
<1>7. 0 + Len(d) + 1 = Len(d) + 1
  BY <1>6
<1>8. Joined(<<d>>) = <<>> \o d \o Slash
  BY <1>1, <1>2, <1>4, Zenon
<1>9. Len(Joined(<<d>>)) = Len(d) + 1
  BY <1>3, <1>5, <1>7, <1>8, Zenon
<1>. QED BY <1>8, <1>9

(* A path starts with one directory.                                       *)
LEMMA PathStarts ==
    ASSUME Inv, TypeOK, TypeOK', NamesRead, StartPath
    PROVE  PathClimbs' /\ PathWritten'
<1>1. CASE pc' = "done"
  BY <1>1 DEF PathClimbs, PathWritten
<1>2. CASE /\ list' = <<files[fi].dir>> /\ pathLen' = Len(files[fi].name) + 1
           /\ pc' = "climb"
  <2>1. /\ fi \in DOMAIN files /\ UNCHANGED <<dirs, files, fi, disc>> /\ disc \in Discs
        /\ DOMAIN files = DOMAIN disc.files /\ dirs \in Seq(Dir)
        /\ files \in Seq([dir: Nat, name: Seq(Byte)])
        /\ list' \in Seq(DOMAIN dirs')
    BY DEF StartPath, TypeOK, TypeOK, Inv, LinksClimb
  <2>2. PICK n \in Nat : n = Len(files[fi].name) /\ n < BufSize
    <3>1. PICK tail \in Tails : files[fi].name = FileName(disc.files[fi].id, tail)
      BY <2>1 DEF NamesRead, StartPath
    <3>2. Len(files[fi].name) < BufSize
      BY <2>1, <3>1, FileNameTyped
    <3>3. files[fi].name \in Seq(Byte)
      BY <2>1, FileTyped
    <3>. QED BY <3>2, <3>3
  <2>3. PICK s \in DOMAIN dirs : s = files[fi].dir /\ list' = <<s>>
    <3>1. list'[1] \in DOMAIN dirs' /\ list'[1] = files[fi].dir
      BY <1>2, <2>1
    <3>. QED BY <1>2, <2>1, <3>1
  <2>4. PICK d \in Seq(Byte) : d = dirs[s].name
    <3>1. dirs[s] \in Dir
      BY <2>1, ElementIn, Zenon
    <3>. QED BY <3>1 DEF Dir
  <2>5. Names' = <<d>>
    BY <2>1, <2>3, <2>4 DEF Names
  <2>6. Cur'.name = d
    BY <2>1, <2>3, <2>4 DEF Cur
  <2>7. pathLen' + Len(Cur'.name) = Len(Joined(Names')) + Len(files'[fi'].name)
    <3>1. PICK l \in Nat : l = Len(d)
      OBVIOUS
    <3>2. (n + 1) + l = (l + 1) + n
      OBVIOUS
    <3>3. Len(Joined(Names')) = l + 1
      BY <2>5, <3>1, PathOfOne
    <3>4. pathLen' = n + 1 /\ Len(Cur'.name) = l /\ Len(files'[fi'].name) = n
      BY <1>2, <2>1, <2>2, <2>6, <3>1
    <3>. QED BY <3>2, <3>3, <3>4, Zenon
  <2>8. pathLen' <= BufSize'
    BY <1>2, <2>2, PathAssumption
  <2>9. /\ list'[Len(list')] = files'[fi'].dir
        /\ \A k \in 2 .. Len(list') : FALSE
    BY <2>1, <2>3
  <2>10. Joined(Names') = Joined(Names)'
    OBVIOUS
  <2>. QED BY <1>2, <2>7, <2>8, <2>9 DEF PathClimbs, PathWritten
<1>. QED BY <1>1, <1>2 DEF StartPath, Fail

(* A link is added in front: its name and '/' are counted later.           *)
LEMMA PathGrows ==
    ASSUME Inv, TypeOK, TypeOK', PathClimbs, Climb
    PROVE  PathClimbs' /\ PathWritten'
<1>1. CASE pc' \in {"aborted", "done"}
  BY <1>1 DEF PathClimbs, PathWritten
<1>2. CASE /\ ~TooLong(pathLen + Len(Cur.name) + 1)
           /\ Up(list[1]) # 0 /\ list' = <<Up(list[1])>> \o list
           /\ UNCHANGED <<dirs, badFree, pc, ret>>
  <2>1. /\ pc = "climb" /\ list[1] # Up(list[1])
        /\ UNCHANGED <<dirs, files, fi>> /\ pc' = "climb"
        /\ pathLen' = pathLen + Len(Cur.name) + 1
        /\ list \in Seq(DOMAIN dirs) /\ list # <<>> /\ fi \in DOMAIN files
        /\ list' \in Seq(DOMAIN dirs) /\ dirs \in Seq(Dir) /\ pathLen \in Nat
        /\ files \in Seq([dir: Nat, name: Seq(Byte)])
    BY <1>2 DEF Climb, AtRoot, TypeOK
  <2>2. PICK n \in Nat : n = Len(list) /\ n >= 1 /\ DOMAIN list = 1 .. n
    BY <2>1
  <2>3. PICK up : up = Up(list[1])
    OBVIOUS
  <2>3a. up \in DOMAIN dirs
    <3>1. disc \in Discs /\ DirsRead /\ list[1] \in DOMAIN dirs
      BY <2>1, <2>2 DEF Inv
    <3>2. /\ up \in 0 .. list[1] /\ list[1] \in 1 .. Len(dirs)
          /\ Len(dirs) \in Nat /\ DOMAIN dirs = 1 .. Len(dirs)
      BY <2>3, <3>1, DirsPlaces DEF Up
    <3>. QED BY <1>2, <2>3, <3>2
  <2>4. /\ Len(list') = n + 1 /\ list'[1] = up /\ DOMAIN list' = 1 .. (n + 1)
        /\ \A k \in 1 .. n : list'[k + 1] = list[k]
    <3>1. list \in Seq(DOMAIN dirs) /\ list' = <<up>> \o list
      BY <1>2, <2>1, <2>3
    <3>. QED BY <2>2, <2>3a, <3>1, LinkInFront
  <2>6. /\ list'[Len(list')] = files'[fi'].dir
        /\ \A k \in 2 .. Len(list') :
              dirs'[list'[k]].parent = list'[k - 1] /\ list'[k - 1] # list'[k]
    <3>1. list'[n + 1] = list[n] /\ list[n] = files[fi].dir
      BY <2>1, <2>2, <2>4 DEF PathClimbs
    <3>2. ASSUME NEW k \in 2 .. (n + 1)
          PROVE  dirs[list'[k]].parent = list'[k - 1] /\ list'[k - 1] # list'[k]
      <4>1. PICK j \in 1 .. n : k = j + 1 /\ list'[k] = list[j] /\ k - 1 = j
        BY <2>4
      <4>2. CASE j = 1
        BY <2>1, <2>3, <2>4, <4>1, <4>2 DEF Up
      <4>3. CASE j # 1
        <5>1. PICK i \in 1 .. n : j = i + 1 /\ i = j - 1 /\ list'[j] = list[i]
          BY <2>4, <4>3
        <5>2. j \in 2 .. n
          BY <4>3
        <5>3. Up(list[j]) = list[j - 1] /\ list[j - 1] # list[j]
          BY <2>1, <2>2, <5>2 DEF PathClimbs
        <5>. QED BY <4>1, <5>1, <5>3 DEF Up
      <4>. QED BY <4>2, <4>3
    <3>3. dirs' = dirs /\ files' = files /\ fi' = fi /\ Len(list') = n + 1
      BY <2>1, <2>4
    <3>. QED BY <3>1, <3>2, <3>3
  <2>7. PICK d \in Seq(Byte), c \in Seq(Byte), f \in Seq(Byte) :
           d = dirs[up].name /\ c = Cur.name /\ f = files[fi].name
    <3>1. dirs[up] \in Dir /\ dirs[list[1]] \in Dir
      <4>1. list[1] \in DOMAIN dirs
        BY <2>1, <2>2
      <4>. QED BY <2>1, <2>3a, <4>1, ElementIn, Zenon
    <3>2. files[fi].name \in Seq(Byte)
      BY <2>1, FileTyped
    <3>. QED BY <3>1, <3>2 DEF Dir, Cur
  <2>8. Len(Joined(Names')) = Len(d) + 1 + Len(Joined(Names))
        /\ Joined(Names) \in Seq(Byte)
    <3>1. PICK names : names = Names
      OBVIOUS
    <3>2. PICK all : all = Names'
      OBVIOUS
    <3>3. /\ names \in Seq(Seq(Byte)) /\ Len(names) = n
          /\ \A k \in 1 .. n : names[k] = dirs[list[k]].name
      <4>1. names = [k \in DOMAIN list |-> dirs[list[k]].name]
        BY <3>1 DEF Names
      <4>2. dirs \in Seq(Dir) /\ list \in Seq(DOMAIN dirs)
        BY <2>1
      <4>3. /\ names \in Seq(Seq(Byte)) /\ Len(names) = Len(list)
            /\ \A k \in 1 .. Len(list) : names[k] = dirs[list[k]].name
        BY <4>1, <4>2, NamesAre, Zenon
      <4>. QED BY <2>2, <4>3, Zenon
    <3>4. all = [k \in DOMAIN list' |-> dirs[list'[k]].name]
      BY <2>1, <3>2 DEF Names
    <3>5. /\ all \in Seq(Seq(Byte)) /\ Len(all) = n + 1
          /\ \A k \in 1 .. (n + 1) : all[k] = dirs[list'[k]].name
      <4>1. dirs \in Seq(Dir) /\ list' \in Seq(DOMAIN dirs)
        BY <2>1
      <4>2. /\ all \in Seq(Seq(Byte)) /\ Len(all) = Len(list')
            /\ \A k \in 1 .. Len(list') : all[k] = dirs[list'[k]].name
        BY <3>4, <4>1, NamesAre, Zenon
      <4>. QED BY <2>4, <4>2, Zenon
    <3>6. all[1] = d /\ \A k \in 1 .. Len(names) : all[k + 1] = names[k]
      <4>1. all[1] = d
        BY <2>2, <2>4, <2>7, <3>5
      <4>2. ASSUME NEW k \in 1 .. n PROVE all[k + 1] = names[k]
        <5>1. k + 1 \in 1 .. (n + 1)
          OBVIOUS
        <5>2. all[k + 1] = dirs[list'[k + 1]].name
          BY <3>5, <5>1
        <5>3. list'[k + 1] = list[k] /\ names[k] = dirs[list[k]].name
          BY <2>4, <3>3
        <5>. QED BY <5>2, <5>3, Zenon
      <4>. QED BY <3>3, <4>1, <4>2
    <3>. QED BY <3>1, <3>2, <3>3, <3>5, <3>6, JoinedHead
  <2>9. pathLen' + Len(Cur'.name) = Len(Joined(Names')) + Len(files'[fi'].name)
    <3>1. PICK l \in Nat, m \in Nat, j \in Nat, h \in Nat, p \in Nat :
             /\ l = Len(d) /\ m = Len(c) /\ h = Len(f) /\ p = pathLen
             /\ j = Len(Joined(Names))
      BY <2>1, <2>8
    <3>2. p + m = j + h
      BY <2>1, <2>7, <3>1 DEF PathClimbs
    <3>3. p + m + 1 + l = (l + 1 + j) + h
      BY <3>2
    <3>4. /\ pathLen' = p + m + 1 /\ Len(Cur'.name) = l
          /\ Len(files'[fi'].name) = h /\ Len(Joined(Names')) = l + 1 + j
      BY <2>1, <2>4, <2>7, <2>8, <3>1 DEF Cur
    <3>. QED BY <3>3, <3>4, Zenon
  <2>10. pathLen' <= BufSize
    <3>1. PICK p \in Nat : p = pathLen + Len(Cur.name) + 1
      BY <2>1, <2>7
    <3>2. ~(p > BufSize) /\ pathLen' = p
      BY <1>2, <2>1, <3>1 DEF TooLong
    <3>. QED BY <3>2, PathAssumption
  <2>11. pathLen' <= BufSize' /\ pc' # "built"
    BY <2>1, <2>10
  <2>. QED BY <2>6, <2>9, <2>11 DEF PathClimbs, PathWritten, Up
<1>. QED BY <1>1, <1>2 DEF Climb, FreeLinked, PathFails, Fail

(* The path is written when its first directory is its own parent.         *)
LEMMA PathEnds ==
    ASSUME TypeOK, PathClimbs, WritePath
    PROVE  PathClimbs' /\ PathWritten'
<1>1. /\ UNCHANGED <<dirs, list, files, fi, pathLen>> /\ pc = "climb" /\ pc' = "built"
      /\ AtRoot /\ path' = Joined(Names) \o files[fi].name
  BY DEF WritePath
<1>2. AtRoot' /\ Names' = Names /\ Cur' = Cur
  BY <1>1 DEF AtRoot, Up, Names, Cur
<1>3. PathWritten'
  BY <1>1, <1>2 DEF PathWritten
<1>4. PathClimbs'
  <2>1. /\ list[Len(list)] = files[fi].dir
        /\ \A k \in 2 .. Len(list) : Up(list[k]) = list[k - 1] /\ list[k - 1] # list[k]
        /\ pathLen <= BufSize
        /\ pathLen + Len(Cur.name) = Len(Joined(Names)) + Len(files[fi].name)
    BY <1>1 DEF PathClimbs
  <2>. QED BY <1>1, <1>2, <2>1 DEF PathClimbs, Up
<1>. QED BY <1>3, <1>4

(* The length and the links of a path, step by step.                       *)
LEMMA PathStep ==
    ASSUME Inv, TypeOK, TypeOK', NamesRead, PathClimbs, PathWritten, [Next]_vars
    PROVE  PathClimbs' /\ PathWritten'
<1>1. CASE pc' \notin {"climb", "built"}
  BY <1>1 DEF PathClimbs, PathWritten
<1>2. CASE UNCHANGED vars
  <2>1. UNCHANGED <<dirs, list, files, fi, pathLen, path, pc>>
    BY <1>2 DEF vars
  <2>2. AtRoot' = AtRoot /\ Names' = Names /\ Cur' = Cur
    BY <2>1 DEF AtRoot, Up, Names, Cur
  <2>3. PathWritten'
    BY <2>1, <2>2 DEF PathWritten
  <2>4. PathClimbs'
    BY <2>1, <2>2 DEF PathClimbs, Up
  <2>. QED BY <2>3, <2>4
<1>. QED BY <1>1, <1>2, PathStarts, PathGrows, PathEnds
         DEF Next, Terminated, Open, ReadDir, Reading, SortDirs, ListFiles, NextFile, Fail

-----------------------------------------------------------------------------
(* The inductive invariant: names and paths on top of Inv.                 *)
NamesInv ==
    Inv /\ TypeOK /\ NamesRead /\ NamesStayInBounds /\ PathClimbs /\ PathWritten

LEMMA NamesInvCorrect == Spec => []NamesInv
<1>1. Init => NamesInv
  <2>. SUFFICES ASSUME Init PROVE NamesInv
    OBVIOUS
  <2>1. DOMAIN dirs = {} /\ wild = {} /\ pc = "open"
    BY DEF Init
  <2>. QED BY <2>1, InvInit, TypeInit
           DEF NamesInv, NamesRead, NamesStayInBounds, PathClimbs, PathWritten
<1>2. NamesInv /\ [Next]_vars => NamesInv'
  <2>. SUFFICES ASSUME NamesInv, [Next]_vars PROVE NamesInv'
    OBVIOUS
  <2>0. Inv /\ TypeOK /\ NamesRead /\ NamesStayInBounds /\ PathClimbs /\ PathWritten
        /\ disc \in Discs
    BY DEF NamesInv, TypeOK
  <2>1. Inv'
    BY <2>0, InvStep
  <2>2. TypeOK'
    BY <2>0, <2>1, TypeStep
  <2>. QED BY <2>0, <2>1, <2>2, NamesStep, WildStep, PathStep DEF NamesInv
<1>. QED BY <1>1, <1>2, PTL DEF Spec

-----------------------------------------------------------------------------
(* Names that the conversion is right for are those of the disc.           *)
LEMMA FaithfulDir ==
    ASSUME NEW id \in Seq(Byte), NEW tail \in Tails, Faithful(id, 0)
    PROVE  DirName(id, tail) = Utf8(id)
<1>1. Name(id, tail) = Utf8(id)
  BY ConvertsUtf16 DEF Faithful
<1>2. PICK s \in Seq(Byte) : s = Utf8(id) /\ s = Name(id, tail)
  BY <1>1, NameTyped
<1>3. PICK n \in Nat : n = Len(s)
  OBVIOUS
<1>4. n < ByteMod /\ ByteMod \in Nat \ {0}
  BY <1>2, <1>3, PathAssumption DEF Faithful
<1>5. DirNameLen(n) = n
  BY <1>4 DEF DirNameLen
<1>6. SubSeq(s, 1, n) = s
  BY <1>3, WholeSequence, Zenon
<1>. QED BY <1>2, <1>3, <1>5, <1>6, Zenon DEF DirName

LEMMA FaithfulFile ==
    ASSUME disc \in Discs, NEW i \in DOMAIN disc.files, NEW tail \in Tails,
           Faithful(disc.files[i].id, 2)
    PROVE  LET name == Utf8(disc.files[i].id)
           IN  FileName(disc.files[i].id, tail) = SubSeq(name, 1, Len(name) - 2)
<1>1. PICK id \in Seq(Byte) : id = disc.files[i].id
  BY FileNameTyped
<1>2. Name(id, tail) = Utf8(id)
  BY <1>1, ConvertsUtf16 DEF Faithful
<1>3. PICK s \in Seq(Byte) : s = Utf8(id) /\ s = Name(id, tail)
  BY <1>2, NameTyped
<1>4. PICK n \in Nat : n = Len(s) /\ n >= 2
  BY <1>1, <1>3, FileNameTyped
<1>5. n - 2 < ByteMod /\ ByteMod \in Nat \ {0}
  BY <1>1, <1>3, <1>4, PathAssumption DEF Faithful
<1>6. FileNameLen(n) = n - 2
  BY <1>4, <1>5 DEF FileNameLen
<1>. QED BY <1>1, <1>3, <1>4, <1>6, Zenon DEF FileName

(* The names of the links are those of the path that the disc has.         *)
LEMMA JoinedIsOfDisc ==
    ASSUME NamesInv, pc = "built", \A k \in DOMAIN list : Faithful(disc.recs[list[k]].id, 0)
    PROVE  Joined(Names) = DirPath[disc.files[fi].dir]
<1>0. /\ disc \in Discs /\ DirsRead /\ Len(dirs) = Len(disc.recs)
      /\ list \in Seq(DOMAIN dirs) /\ list # <<>> /\ dirs \in Seq(Dir) /\ AtRoot
      /\ list[Len(list)] = files[fi].dir /\ files[fi].dir = disc.files[fi].dir
      /\ \A k \in 2 .. Len(list) : Up(list[k]) = list[k - 1] /\ list[k - 1] # list[k]
  BY DEF NamesInv, Inv, TypeOK, TableRead, LinksClimb, PathClimbs, PathWritten
<1>1. PICK N \in Nat : N = Len(dirs) /\ DOMAIN dirs = 1 .. N /\ DOMAIN disc.recs = 1 .. N
  BY <1>0, DirsPlaces
<1>2. PICK n \in Nat : n = Len(list) /\ n >= 1 /\ DOMAIN list = 1 .. n
  BY <1>0
<1>3. \A k \in 1 .. n : list[k] \in 1 .. N
  BY <1>0, <1>1, <1>2
<1>4. \A i \in 1 .. N : disc.recs[i].id \in Seq(Byte) /\ disc.recs[i].parent \in Nat \ {0}
  <2>1. \A i \in 1 .. N : disc.recs[i] \in PathRecord
    BY <1>0, <1>1, Layout
  <2>. QED BY <2>1 DEF PathRecord
<1>5. ASSUME NEW k \in 1 .. n
      PROVE  dirs[list[k]].name = Utf8(disc.recs[list[k]].id)
  <2>1. PICK tail \in Tails : dirs[list[k]].name = DirName(disc.recs[list[k]].id, tail)
    BY <1>1, <1>3 DEF NamesInv, NamesRead
  <2>. QED BY <1>2, <1>3, <1>4, <2>1, FaithfulDir
<1>6. \A i \in 1 .. N :
             DirPath[i] =
              (IF disc.recs[i].parent < i THEN DirPath[disc.recs[i].parent] ELSE <<>>)
              \o Utf8(disc.recs[i].id) \o Slash
  BY <1>1, <1>4, DirPathIs
<1>7. PICK names \in Seq(Seq(Byte)) :
         /\ names = Names /\ Len(names) = n
         /\ \A k \in 1 .. n : names[k] = dirs[list[k]].name
  <2>1. /\ Names \in Seq(Seq(Byte)) /\ Len(Names) = Len(list)
        /\ \A k \in 1 .. Len(list) : Names[k] = dirs[list[k]].name
    <3>1. Names = [k \in DOMAIN list |-> dirs[list[k]].name]
      BY DEF Names
    <3>2. dirs \in Seq(Dir) /\ list \in Seq(DOMAIN dirs)
      BY <1>0
    <3>. QED BY <3>1, <3>2, NamesAre, Zenon
  <2>. QED BY <1>2, <2>1, Zenon
<1>8. PICK g : /\ g[0] = <<>> /\ Joined(names) = g[n]
               /\ \A k \in 0 .. n : g[k] \in Seq(Byte)
               /\ \A k \in 1 .. n : g[k] = g[k - 1] \o names[k] \o Slash
  BY <1>7, JoinedIs
<1>. DEFINE P == {m \in Nat : m + 1 <= n => g[m + 1] = DirPath[list[m + 1]]}
<1>9. 0 \in P
  <2>1. list[1] \in 1 .. N /\ 1 \in 1 .. n /\ 1 - 1 = 0
    BY <1>2, <1>3
  <2>2. ~(disc.recs[list[1]].parent < list[1])
    <3>1. ParentIn(list[1], disc.recs[list[1]].parent) = list[1]
      BY <1>0, <1>1, <2>1 DEF AtRoot, Up, DirsRead
    <3>. QED BY <1>4, <2>1, <3>1 DEF ParentIn
  <2>3. DirPath[list[1]] = <<>> \o Utf8(disc.recs[list[1]].id) \o Slash
    BY <1>6, <2>1, <2>2
  <2>4. g[1] = <<>> \o names[1] \o Slash
    BY <1>8, <2>1
  <2>5. names[1] = Utf8(disc.recs[list[1]].id)
    BY <1>5, <1>7, <2>1
  <2>6. g[1] = DirPath[list[1]] /\ 0 + 1 = 1
    BY <2>3, <2>4, <2>5
  <2>. QED BY <2>6
<1>10. ASSUME NEW m \in P PROVE m + 1 \in P
  <2>. SUFFICES ASSUME (m + 1) + 1 <= n
                PROVE  g[(m + 1) + 1] = DirPath[list[(m + 1) + 1]]
    OBVIOUS
  <2>1. PICK k \in 2 .. n : k = (m + 1) + 1 /\ k - 1 = m + 1
    OBVIOUS
  <2>2. k \in 1 .. n /\ k - 1 \in 1 .. n /\ g[k - 1] = DirPath[list[k - 1]]
    BY <2>1
  <2>3. list[k] \in 1 .. N /\ list[k - 1] \in 1 .. N
    BY <1>3, <2>2
  <2>4. disc.recs[list[k]].parent = list[k - 1] /\ disc.recs[list[k]].parent < list[k]
    <3>1. Up(list[k]) = list[k - 1] /\ list[k - 1] # list[k]
      BY <1>0, <1>2, <2>1
    <3>2. ParentIn(list[k], disc.recs[list[k]].parent) = list[k - 1]
      BY <1>0, <1>1, <2>3, <3>1 DEF Up, DirsRead
    <3>3. PICK p \in Nat, i \in Nat, j \in Nat \ {0} :
             p = disc.recs[list[k]].parent /\ i = list[k] /\ j = list[k - 1]
      BY <1>4, <2>3
    <3>4. ParentIn(i, p) = j /\ j # i
      BY <3>1, <3>2, <3>3
    <3>5. p = j /\ p < i
      BY <3>4 DEF ParentIn
    <3>. QED BY <3>3, <3>5
  <2>5. DirPath[list[k]] = DirPath[list[k - 1]] \o Utf8(disc.recs[list[k]].id) \o Slash
    BY <1>6, <2>3, <2>4
  <2>6. g[k] = g[k - 1] \o names[k] \o Slash /\ names[k] = Utf8(disc.recs[list[k]].id)
    BY <1>5, <1>7, <1>8, <2>2
  <2>7. g[k] = DirPath[list[k]]
    BY <2>2, <2>5, <2>6, Zenon
  <2>. QED BY <2>1, <2>7
<1>11. g[n] = DirPath[list[n]]
  <2>1. PICK m \in Nat : m + 1 = n
    <3>1. n - 1 \in Nat /\ (n - 1) + 1 = n
      BY <1>2
    <3>. QED BY <3>1
  <2>2. P = Nat
    <3>. HIDE DEF P
    <3>1. P \in SUBSET Nat
      BY DEF P
    <3>. QED BY <1>9, <1>10, <3>1, Induct
  <2>3. m \in P
    <3>. HIDE DEF P
    <3>. QED BY <2>2
  <2>. QED BY <2>1, <2>3
<1>. QED BY <1>0, <1>2, <1>7, <1>8, <1>11, Zenon

-----------------------------------------------------------------------------
(* The path table is read record by record to its end, padding included,   *)
(* for a table of any length (iso.c:629-690).                              *)
THEOREM TableIsCompleteCorrect == Spec => []TableIsComplete
BY InvCorrect, InvTable, PTL

(* A path that is refused frees each of its directories once, whatever the *)
(* order of the table, and none is read after that (iso.c:299-447).        *)
THEOREM FreedOnceAndLastCorrect == Spec => []FreedOnceAndLast
<1>1. Inv => FreedOnceAndLast
  BY DEF Inv
<1>. QED BY <1>1, InvCorrect, PTL

(* With parents first, the process never dies while a path is built: the   *)
(* pointers up are all set.                                                *)
THEOREM DiesOnlyInTableCorrect == Spec => []DiesOnlyInTable
<1>1. Inv => DiesOnlyInTable
  BY DEF Inv
<1>. QED BY <1>1, InvCorrect, PTL

(* Type correctness: pointers of the table and of a path are directories   *)
(* that were read, and no table is longer than MAX_FOLDERS.                *)
THEOREM PathTypeCorrect == Spec => []TypeOK
<1>1. NamesInv => TypeOK
  BY DEF NamesInv
<1>. QED BY <1>1, NamesInvCorrect, PTL

(* Of identifiers of any length and any bytes, only those of odd length    *)
(* whose last byte is not 0 are converted outside of the two buffers       *)
(* (iso.c:166-192, 253-278, util.c:19-45).                                 *)
THEOREM NamesStayInBoundsCorrect == Spec => []NamesStayInBounds
<1>1. NamesInv => NamesStayInBounds
  BY DEF NamesInv
<1>. QED BY <1>1, NamesInvCorrect, PTL

(* A path that passes the test of its length (iso.c:376) is at most one    *)
(* byte longer than the buffer, however deep it is.                        *)
THEOREM OverrunsByTheSlashCorrect == Spec => []OverrunsByTheSlash
<1>1. NamesInv => OverrunsByTheSlash
  <2>. SUFFICES ASSUME NamesInv, pc = "built", dirs[list[1]].name = <<>>
                PROVE  /\ Len(path) + 1 <= BufSize + 1
                       /\ Len(path) + 1 > BufSize => pathLen = BufSize
    BY DEF OverrunsByTheSlash
  <2>1. /\ TypeOK /\ path = Joined(Names) \o files[fi].name /\ pathLen <= BufSize
        /\ pathLen + Len(Cur.name) = Len(Joined(Names)) + Len(files[fi].name)
        /\ pathLen \in Nat /\ path \in Seq(Byte)
    BY DEF NamesInv, PathClimbs, PathWritten, TypeOK
  <2>2. Len(Cur.name) = 0
    BY DEF Cur
  <2>3. Len(path) = pathLen
    <3>1. Joined(Names) \in Seq(Byte) /\ files[fi].name \in Seq(Byte)
      BY <2>1, PathParts
    <3>2. PICK s \in Seq(Byte), t \in Seq(Byte) : s = Joined(Names) /\ t = files[fi].name
      BY <3>1
    <3>3. Len(s \o t) = Len(s) + Len(t) /\ Len(s) + Len(t) \in Nat
      OBVIOUS
    <3>. QED BY <2>1, <2>2, <3>2, <3>3
  <2>. QED BY <2>1, <2>3, PathAssumption
<1>. QED BY <1>1, NamesInvCorrect, PTL

(* A path that is built is the path of the file on the disc, whatever the  *)
(* order of the table after the sort and however long the names, where the *)
(* identifiers are UTF-16 without pairs (iso.c:299-447, util.c:19-45).     *)
THEOREM PathIsOfDiscCorrect == Spec => []PathIsOfDisc
<1>1. NamesInv => PathIsOfDisc
  <2>. SUFFICES ASSUME NamesInv, pc = "built", Faithful(disc.files[fi].id, 2),
                       \A k \in DOMAIN list : Faithful(disc.recs[list[k]].id, 0)
                PROVE  path = DiscPath(disc.files[fi])
    BY DEF PathIsOfDisc
  <2>1. /\ path = Joined(Names) \o files[fi].name /\ disc \in Discs
        /\ fi \in DOMAIN files /\ DOMAIN files = DOMAIN disc.files
    BY DEF NamesInv, Inv, TypeOK, LinksClimb, PathWritten
  <2>2. PICK tail \in Tails : files[fi].name = FileName(disc.files[fi].id, tail)
    BY <2>1 DEF NamesInv, NamesRead
  <2>3. LET name == Utf8(disc.files[fi].id)
        IN  files[fi].name = SubSeq(name, 1, Len(name) - 2)
    BY <2>1, <2>2, FaithfulFile
  <2>4. Joined(Names) = DirPath[disc.files[fi].dir]
    BY JoinedIsOfDisc
  <2>. QED BY <2>1, <2>3, <2>4, Zenon DEF DiscPath
<1>. QED BY <1>1, NamesInvCorrect, PTL
=============================================================================
