-------------------------- MODULE VerifyFiles_proofs --------------------------
(***************************************************************************)
(* Proofs about VerifyFiles, for discs with any number of files: the hash  *)
(* that a record gets is its own when two tables, each in its order, are   *)
(* of the same disc, and the verdict is then exact.                        *)
(***************************************************************************)
EXTENDS VerifyFiles, FiniteSetTheorems, TLAPS

-----------------------------------------------------------------------------
LEMMA IntervalSize ==
    ASSUME NEW a \in Int, NEW b \in Int, a <= b + 1
    PROVE  IsFiniteSet(a .. b) /\ Cardinality(a .. b) = b - a + 1
<1>1. Cardinality(a .. b) = IF a > b THEN 0 ELSE b - a + 1
  BY FS_Interval
<1>. QED BY <1>1, FS_Interval

(* What maps a set into a smaller one takes two elements to one value.     *)
LEMMA Pigeons ==
    ASSUME NEW S, NEW T, NEW f, IsFiniteSet(S), IsFiniteSet(T),
           Cardinality(T) < Cardinality(S), \A x \in S : f[x] \in T
    PROVE  \E x, y \in S : x # y /\ f[x] = f[y]
<1>. DEFINE g == [x \in S |-> f[x]]
<1>1. g \in [S -> T]
  OBVIOUS
<1>2. \A x \in S : g[x] = f[x]
  OBVIOUS
<1>. HIDE DEF g
<1>3. \E x, y \in S : x # y /\ g[x] = g[y]
  BY <1>1, FS_PigeonHole
<1>. QED BY <1>2, <1>3

(* A permutation takes some place up to i to i or beyond it: else i places *)
(* would go to i - 1.                                                      *)
LEMMA SomeForward ==
    ASSUME NEW n \in Nat, NEW p \in [1 .. n -> 1 .. n],
           \A i, j \in 1 .. n : p[i] = p[j] => i = j,
           NEW i \in 1 .. n
    PROVE  \E k \in 1 .. n : k <= i /\ i <= p[k]
<1>. SUFFICES ASSUME \A k \in 1 .. n : k <= i => p[k] < i
              PROVE  FALSE
  OBVIOUS
<1>1. PICK m \in Int : m = i - 1
  OBVIOUS
<1>2. PICK S, T : S = 1 .. i /\ T = 1 .. m
  OBVIOUS
<1>3. IsFiniteSet(S) /\ IsFiniteSet(T) /\ Cardinality(T) < Cardinality(S)
  BY <1>1, <1>2, IntervalSize
<1>4. \A x \in S : p[x] \in T
  BY <1>1, <1>2
<1>5. ~\E x, y \in S : x # y /\ p[x] = p[y]
  BY <1>2
<1>. QED BY ONLY <1>3, <1>4, <1>5, Pigeons

(* And some place from i on to i or before it.                             *)
LEMMA SomeBack ==
    ASSUME NEW n \in Nat, NEW p \in [1 .. n -> 1 .. n],
           \A i, j \in 1 .. n : p[i] = p[j] => i = j,
           NEW i \in 1 .. n
    PROVE  \E k \in 1 .. n : i <= k /\ p[k] <= i
<1>. SUFFICES ASSUME \A k \in 1 .. n : i <= k => i < p[k]
              PROVE  FALSE
  OBVIOUS
<1>1. PICK m \in Int : m = i + 1
  OBVIOUS
<1>2. PICK S, T : S = i .. n /\ T = m .. n
  OBVIOUS
<1>3. IsFiniteSet(S) /\ IsFiniteSet(T) /\ Cardinality(T) < Cardinality(S)
  BY <1>1, <1>2, IntervalSize
<1>4. \A x \in S : p[x] \in T
  BY <1>1, <1>2
<1>5. ~\E x, y \in S : x # y /\ p[x] = p[y]
  BY <1>2
<1>. QED BY ONLY <1>3, <1>4, <1>5, Pigeons

-----------------------------------------------------------------------------
(* What the table, the hashes and the state are at each label.             *)
TableSorted ==
    /\ \A j, k \in DOMAIN ft : j < k => ft[j].block <= ft[k].block
    /\ Len(ft) <= Len(disc.hashes)

Attached ==
    pc \in {"stat", "sum", "ok", "reported"} =>
       \A i \in DOMAIN ft : sums[i] = disc.hashes[i].sum

(* What a file has had at some time, when its sum ought to be sums[i].     *)
Sized(i) == \E f \in Was(i) : SizeOf(f, ft[i])
Summed(i) == \E f \in Was(i) : f.is /\ f.sum = sums[i]
Off(i) == \E f \in Was(i) : ~(f.is /\ f.len = ft[i].len /\ f.sum = sums[i])
Earned(i) == Sized(i) /\ Summed(i)
Fair(i) == IF state[i] = "VERIFIED" THEN Earned(i) ELSE Off(i)

Remembered == \A n \in Names : folder[n] \in past[n]

Judged ==
    /\ pc \in {"stat", "sum"} =>
          /\ allOk <=> \A i \in 1 .. (index - 1) : state[i] = "VERIFIED"
          /\ \A i \in 1 .. (index - 1) : Fair(i)
    /\ pc = "sum" => Sized(index)
    /\ pc = "ok" => \A i \in DOMAIN ft : Earned(i)
    /\ pc = "reported" =>
          /\ printed # {}
          /\ \A i \in DOMAIN ft : IF i \in printed THEN Off(i) ELSE Earned(i)

Vanished(i) == \E f, g \in Was(i) : SizeOf(f, ft[i]) /\ ~g.is

Failed ==
    /\ ret # "EXIT_OK" => pc = "failed"
    /\ pc = "attach" => allOk /\ index = 1
    /\ pc = "failed" /\ ret = "F_OPEN_ERROR" => \E i \in DOMAIN ft : Vanished(i)
    /\ pc = "failed" /\ ret = "RECORD_ECMA_ERROR" =>
          sums # <<>> \/ \E i \in DOMAIN ft : ft[i].block # disc.hashes[i].sector

Inv == TypeOK /\ TableSorted /\ Attached /\ Remembered /\ Judged /\ Failed
-----------------------------------------------------------------------------
LEMMA DiscType ==
    ASSUME disc \in Discs
    PROVE  /\ disc.recs \in Seq(Record) /\ disc.hashes \in Seq(Hash)
           /\ Len(disc.recs) <= Len(disc.hashes)
BY VerifyAssumption

LEMMA SortedIsTable ==
    ASSUME NEW recs \in Seq(Record), NEW t \in SortedTables(recs)
    PROVE  /\ t \in Seq(Record) /\ Len(t) = Len(recs)
           /\ \A j, k \in DOMAIN t : j < k => t[j].block <= t[k].block
<1>1. PICK p \in Bijection(DOMAIN recs, DOMAIN recs) :
         t = [i \in DOMAIN recs |-> recs[p[i]]]
  BY DEF SortedTables
<1>2. p \in [DOMAIN recs -> DOMAIN recs]
  BY DEF Bijection, Injection
<1>3. DOMAIN recs = 1 .. Len(recs) /\ Len(recs) \in Nat
  OBVIOUS
<1>4. t \in [1 .. Len(recs) -> Record]
  <2>. SUFFICES ASSUME NEW i \in 1 .. Len(recs)
                PROVE  recs[p[i]] \in Record
    BY <1>1, <1>3
  <2>. QED BY <1>2, <1>3
<1>5. t \in Seq(Record) /\ Len(t) = Len(recs) /\ DOMAIN t = DOMAIN recs
  BY <1>3, <1>4
<1>6. \A j, k \in DOMAIN recs : j < k => t[j].block <= t[k].block
  BY DEF SortedTables
<1>. QED BY <1>5, <1>6

(* With the disc's own IRD, in order, each record meets its own hash: both *)
(* tables are sorted, so some record up to the i-th has a hash from the    *)
(* i-th on, and the other way round.                                       *)
LEMMA HashesFit ==
    ASSUME ft \in Seq(Record), disc \in Discs, TableSorted, OwnIrd, SortedIrd
    PROVE  \A i \in DOMAIN ft :
              /\ ft[i].block = disc.hashes[i].sector
              /\ Distinct => ft[i].sum = disc.hashes[i].sum
<1>. DEFINE n == Len(ft)
            b(i) == ft[i].block
            h(i) == disc.hashes[i].sector
<1>1. n \in Nat /\ DOMAIN ft = 1 .. n /\ DOMAIN disc.hashes = 1 .. n
  BY DiscType DEF OwnIrd
<1>2. PICK p \in Bijection(DOMAIN ft, DOMAIN ft) : \A i \in DOMAIN ft :
          disc.hashes[p[i]] = [sector |-> ft[i].block, sum |-> ft[i].sum]
  BY DEF OwnIrd
<1>3. p \in [1 .. n -> 1 .. n] /\ \A i, j \in 1 .. n : p[i] = p[j] => i = j
  BY <1>1, <1>2 DEF Bijection, Injection, IsInjective
<1>4. \A i \in 1 .. n : b(i) \in Nat /\ h(i) \in Nat
  <2>1. \A i \in 1 .. n : ft[i] \in Record /\ disc.hashes[i] \in Hash
    BY <1>1, DiscType
  <2>. QED BY <2>1 DEF Record, Hash
<1>5. \A i, j \in 1 .. n : i <= j => b(i) <= b(j) /\ h(i) <= h(j)
  <2>. TAKE i, j \in 1 .. n
  <2>1. CASE i < j
    BY <1>1, <2>1 DEF TableSorted, SortedIrd
  <2>2. CASE i = j
    BY <1>4, <2>2
  <2>. QED BY <2>1, <2>2
<1>6. ASSUME NEW i \in 1 .. n
      PROVE  p[i] \in 1 .. n /\ h(p[i]) = b(i) /\ disc.hashes[p[i]].sum = ft[i].sum
  <2>1. disc.hashes[p[i]] = [sector |-> ft[i].block, sum |-> ft[i].sum]
    BY <1>1, <1>2
  <2>2. p[i] \in 1 .. n
    BY <1>3
  <2>. QED BY <2>1, <2>2
<1>7. ASSUME NEW i \in 1 .. n PROVE b(i) = h(i)
  <2>. HIDE DEF b, h, n
  <2>1. PICK k \in 1 .. n : k <= i /\ i <= p[k]
    BY <1>1, <1>3, SomeForward
  <2>2. h(i) <= b(i)
    <3>1. p[k] \in 1 .. n /\ h(p[k]) = b(k)
      BY <1>6
    <3>2. h(i) <= h(p[k]) /\ b(k) <= b(i)
      BY <1>5, <2>1, <3>1
    <3>. QED BY <1>4, <3>1, <3>2
  <2>3. PICK m \in 1 .. n : i <= m /\ p[m] <= i
    BY <1>1, <1>3, SomeBack
  <2>4. b(i) <= h(i)
    <3>1. p[m] \in 1 .. n /\ h(p[m]) = b(m)
      BY <1>6
    <3>2. h(p[m]) <= h(i) /\ b(i) <= b(m)
      BY <1>5, <2>3, <3>1
    <3>. QED BY <1>4, <3>1, <3>2
  <2>. QED BY <1>4, <2>2, <2>4
<1>8. ASSUME Distinct, NEW i \in 1 .. n
      PROVE  ft[i].sum = disc.hashes[i].sum
  <2>1. PICK k \in 1 .. n : p[k] = i
    BY <1>1, <1>2 DEF Bijection, Surjection
  <2>2. ft[k].block = ft[i].block
    BY <1>6, <1>7, <2>1
  <2>3. k = i
    BY <1>1, <1>8, <2>2 DEF Distinct
  <2>. QED BY <1>6, <2>1, <2>3
<1>. QED BY <1>1, <1>7, <1>8

-----------------------------------------------------------------------------
LEMMA InvInit == Init => Inv
<1>. SUFFICES ASSUME Init PROVE Inv
  OBVIOUS
<1>1. /\ ft \in Seq(Record) /\ Len(ft) = Len(disc.recs)
      /\ \A j, k \in DOMAIN ft : j < k => ft[j].block <= ft[k].block
  BY DiscType, SortedIsTable DEF Init
<1>2. TypeOK
  <2>1. index \in 1 .. (Len(ft) + 1)
    BY <1>1 DEF Init
  <2>2. past \in [Names -> SUBSET File] /\ changes \in 0 .. MaxChanges
    BY VerifyAssumption DEF Init
  <2>. QED BY <1>1, <2>1, <2>2 DEF Init, TypeOK
<1>3. TableSorted
  BY <1>1, DiscType DEF Init, TableSorted
<1>. QED BY <1>2, <1>3 DEF Init, Inv, Attached, Remembered, Judged, Failed

(* A file is judged: its state is written and the loop goes on.            *)
LEMMA JudgeStep ==
    ASSUME TypeOK, pc \in {"stat", "sum"}, index \in DOMAIN ft,
           NEW s \in {"MISSING", "SZ_MISMATCH", "MD5_MISMATCH", "VERIFIED"},
           Judge(s),
           UNCHANGED <<disc, folder, past, changes, ft, sums, printed, ret>>
    PROVE  /\ TypeOK'
           /\ state'[index] = s
           /\ \A i \in 1 .. (index - 1) : state'[i] = state[i]
<1>1. DOMAIN ft = 1 .. Len(ft) /\ Len(ft) \in Nat
  BY DEF TypeOK
<1>2. state \in [DOMAIN ft -> {"unknown", "MISSING", "SZ_MISMATCH",
                               "MD5_MISMATCH", "VERIFIED"}]
  BY DEF TypeOK
<1>3. state' = [state EXCEPT ![index] = s]
  BY DEF Judge
<1>4. state' \in [DOMAIN ft -> {"unknown", "MISSING", "SZ_MISMATCH",
                               "MD5_MISMATCH", "VERIFIED"}]
  BY <1>2, <1>3
<1>5. index + 1 \in 1 .. (Len(ft) + 1)
  BY <1>1
<1>6. TypeOK'
  BY <1>4, <1>5 DEF TypeOK, Judge
<1>. QED BY <1>1, <1>2, <1>3, <1>6

(* What that does to the verdicts so far.                                  *)
LEMMA JudgedStep ==
    ASSUME TypeOK, TableSorted', Attached, Remembered, Judged, Failed, TypeOK',
           pc \in {"stat", "sum"}, index \in DOMAIN ft,
           NEW s \in {"MISSING", "SZ_MISMATCH", "MD5_MISMATCH", "VERIFIED"},
           Judge(s), IF s = "VERIFIED" THEN Earned(index) ELSE Off(index),
           UNCHANGED <<disc, folder, past, changes, ft, sums, printed, ret>>
    PROVE  Inv'
<1>1. /\ state'[index] = s
      /\ \A i \in 1 .. (index - 1) : state'[i] = state[i]
  BY JudgeStep
<1>2. pc' = "stat" /\ index' = index + 1 /\ allOk' = (allOk /\ s = "VERIFIED")
  BY DEF Judge
<1>3. index \in Nat \ {0}
  BY DEF TypeOK
<1>4. 1 .. (index' - 1) = 1 .. (index - 1) \cup {index}
  BY <1>2, <1>3
<1>5. allOk' <=> \A i \in 1 .. (index' - 1) : state'[i] = "VERIFIED"
  BY <1>1, <1>2, <1>4 DEF Judged
<1>6. ASSUME NEW i \in 1 .. (index' - 1)
      PROVE  Fair(i)'
  <2>1. IF state'[i] = "VERIFIED" THEN Earned(i) ELSE Off(i)
    BY <1>1, <1>4, <1>6 DEF Judged, Fair
  <2>2. (Earned(i) => Earned(i)') /\ (Off(i) => Off(i)')
    BY DEF Earned, Sized, Summed, Off, Was, SizeOf
  <2>. QED BY <2>1, <2>2 DEF Fair
<1>7. Judged'
  BY <1>2, <1>5, <1>6 DEF Judged
<1>8. Remembered'
  BY DEF Remembered
<1>9. Failed'
  BY <1>2 DEF Failed
<1>. QED BY <1>2, <1>7, <1>8, <1>9 DEF Inv, Attached

LEMMA TypeStep == Inv /\ [Next]_vars => TypeOK'
<1>. SUFFICES ASSUME Inv, [Next]_vars PROVE TypeOK'
  OBVIOUS
<1>0. TypeOK
  BY DEF Inv
<1>1. CASE Attach
  <2>1. CASE /\ sums' = [i \in DOMAIN ft |-> HashOf(i).sum]
             /\ state' = [i \in DOMAIN ft |-> "unknown"]
             /\ pc' = "stat"
    <3>1. \A i \in DOMAIN ft : HashOf(i).sum \in Sums
      <4>1. /\ ft \in Seq(Record) /\ disc.hashes \in Seq(Hash)
            /\ Len(ft) <= Len(disc.hashes)
        BY <1>0, DiscType DEF Inv, TypeOK, TableSorted
      <4>2. \A i \in DOMAIN ft : disc.hashes[i] \in Hash
        BY <4>1
      <4>. QED BY <4>2 DEF HashOf, Hash
    <3>. QED BY <1>0, <1>1, <2>1, <3>1 DEF Attach, TypeOK
  <2>2. CASE Fail("RECORD_ECMA_ERROR")
    BY <1>0, <1>1, <2>2 DEF Attach, Fail, TypeOK
  <2>. QED BY <1>1, <2>1, <2>2 DEF Attach
<1>2. CASE Stat
  <2>1. CASE Judge("MISSING") /\ UNCHANGED ret
    BY <1>0, <1>2, <2>1, JudgeStep DEF Stat
  <2>2. CASE Judge("SZ_MISMATCH") /\ UNCHANGED ret
    BY <1>0, <1>2, <2>2, JudgeStep DEF Stat
  <2>3. CASE pc' = "sum" /\ UNCHANGED <<state, allOk, index, ret>>
    BY <1>0, <1>2, <2>3 DEF Stat, TypeOK
  <2>4. CASE \E e \in {"ALLOC_ERROR", "PATH_BUFFER_ERROR", "RECORD_ECMA_ERROR"} :
               Fail(e) /\ UNCHANGED <<state, allOk, index>>
    BY <1>0, <1>2, <2>4 DEF Stat, Fail, TypeOK
  <2>. QED BY <1>2, <2>1, <2>2, <2>3, <2>4 DEF Stat
<1>3. CASE Checksum
  <2>0. index \in DOMAIN ft
    BY <1>0, <1>3 DEF Checksum, TypeOK
  <2>1. CASE Judge("VERIFIED") /\ UNCHANGED ret
    BY <1>0, <1>3, <2>0, <2>1, JudgeStep DEF Checksum
  <2>2. CASE Judge("MD5_MISMATCH") /\ UNCHANGED ret
    BY <1>0, <1>3, <2>0, <2>2, JudgeStep DEF Checksum
  <2>3. CASE pc' = "failed" /\ UNCHANGED <<state, allOk, index>>
    BY <1>0, <1>3, <2>3 DEF Checksum, TypeOK
  <2>. QED BY <1>3, <2>1, <2>2, <2>3 DEF Checksum, Fail
<1>4. CASE Finish
  <2>1. CASE pc' = "ok" /\ UNCHANGED printed
    BY <1>0, <1>4, <2>1 DEF Finish, TypeOK
  <2>2. CASE printed' = {i \in DOMAIN ft : state[i] # "VERIFIED"}
             /\ pc' = "reported"
    BY <1>0, <1>4, <2>2 DEF Finish, TypeOK
  <2>3. CASE printed' \subseteq DOMAIN ft /\ pc' = "failed"
    BY <1>0, <1>4, <2>3 DEF Finish, TypeOK
  <2>. QED BY <1>4, <2>1, <2>2, <2>3 DEF Finish, Fail
<1>5. CASE Change
  <2>1. PICK n \in Names, f \in File :
           /\ folder' = [folder EXCEPT ![n] = f]
           /\ past' = [past EXCEPT ![n] = @ \cup {f}]
    BY <1>5 DEF Change
  <2>2. folder' \in [Names -> File] /\ past' \in [Names -> SUBSET File]
    BY <1>0, <2>1 DEF TypeOK
  <2>3. changes' \in 0 .. MaxChanges
    BY <1>0, <1>5, VerifyAssumption DEF Change, TypeOK
  <2>. QED BY <1>0, <1>5, <2>2, <2>3 DEF Change, TypeOK
<1>6. CASE UNCHANGED vars
  BY <1>0, <1>6 DEF vars, TypeOK
<1>. QED BY <1>1, <1>2, <1>3, <1>4, <1>5, <1>6 DEF Next, Terminated

(* The environment only adds to what the files have been.                  *)
LEMMA ChangeStep ==
    ASSUME Inv, TypeOK', TableSorted', Change
    PROVE  Inv'
<1>0. TypeOK /\ Attached /\ Remembered /\ Judged /\ Failed
  BY DEF Inv
<1>1. PICK n \in Names, f \in File :
         /\ folder' = [folder EXCEPT ![n] = f]
         /\ past' = [past EXCEPT ![n] = @ \cup {f}]
  BY DEF Change
<1>2. UNCHANGED <<disc, ft, sums, state, index, allOk, printed, pc, ret>>
  BY DEF Change
<1>3. \A m \in Names : past[m] \subseteq past'[m]
  BY <1>0, <1>1 DEF TypeOK
<1>4. Remembered'
  BY <1>0, <1>1 DEF TypeOK, Remembered
<1>5. \A i \in DOMAIN ft : Was(i) \subseteq Was(i)'
  <2>1. \A i \in DOMAIN ft : ft[i].name \in Names
    <3>1. \A i \in DOMAIN ft : ft[i] \in Record
      BY <1>0 DEF TypeOK
    <3>. QED BY <3>1 DEF Record
  <2>. QED BY <1>2, <1>3, <2>1 DEF Was
<1>6. ASSUME NEW i \in DOMAIN ft
      PROVE  /\ Sized(i) => Sized(i)'
             /\ Vanished(i) => Vanished(i)'
             /\ Earned(i) => Earned(i)'
             /\ Off(i) => Off(i)'
  <2>1. Sized(i) => Sized(i)'
    BY <1>2, <1>5 DEF Sized, SizeOf
  <2>2. Summed(i) => Summed(i)'
    BY <1>2, <1>5 DEF Summed
  <2>3. Off(i) => Off(i)'
    BY <1>2, <1>5 DEF Off
  <2>4. Vanished(i) => Vanished(i)'
    BY <1>2, <1>5 DEF Vanished, SizeOf
  <2>. QED BY <2>1, <2>2, <2>3, <2>4 DEF Earned
<1>7. 1 .. (index - 1) \subseteq DOMAIN ft /\ (pc = "sum" => index \in DOMAIN ft)
  BY <1>0 DEF TypeOK
<1>8. Judged'
  <2>1. ASSUME pc \in {"stat", "sum"}, NEW i \in 1 .. (index - 1)
        PROVE  Fair(i)'
    <3>1. Fair(i) /\ i \in DOMAIN ft
      BY <1>0, <1>7, <2>1 DEF Judged
    <3>. QED BY <1>2, <1>6, <3>1 DEF Fair
  <2>2. (pc = "sum" => Sized(index))'
    BY <1>0, <1>2, <1>6, <1>7 DEF Judged
  <2>3. ASSUME pc \in {"stat", "sum"}
        PROVE  \A i \in 1 .. (index' - 1) : Fair(i)'
    BY <1>2, <2>1, <2>3
  <2>4. pc \in {"attach", "stat", "sum"} /\ pc' = pc
    BY <1>2 DEF Change
  <2>5. pc \in {"stat", "sum"} =>
           (allOk' <=> \A i \in 1 .. (index' - 1) : state'[i] = "VERIFIED")
    BY <1>0, <1>2 DEF Judged
  <2>. QED BY <2>2, <2>3, <2>4, <2>5 DEF Judged
<1>9. Failed'
  BY <1>0, <1>2, <1>6 DEF Failed
<1>10. Attached'
  BY <1>0, <1>2 DEF Attached
<1>. QED BY <1>4, <1>8, <1>9, <1>10 DEF Inv

LEMMA InvStep == Inv /\ [Next]_vars => Inv'
<1>. SUFFICES ASSUME Inv, [Next]_vars PROVE Inv'
  OBVIOUS
<1>0. TypeOK /\ TypeOK' /\ TableSorted /\ Attached /\ Remembered /\ Judged /\ Failed
  BY TypeStep DEF Inv
<1>a. DOMAIN ft = 1 .. Len(ft) /\ Len(ft) \in Nat
  BY <1>0 DEF TypeOK
<1>b. TableSorted'
  BY <1>0 DEF Next, vars, Attach, Stat, Checksum, Finish, Change, Terminated,
              TableSorted
<1>r. UNCHANGED <<folder, past>> => Remembered'
  BY <1>0 DEF Remembered
<1>n. index \in DOMAIN ft => folder[ft[index].name] \in Was(index)
  <2>1. index \in DOMAIN ft => ft[index] \in Record
    BY <1>0 DEF TypeOK
  <2>. QED BY <1>0, <2>1 DEF Remembered, Was, Record
<1>f. ASSUME NEW e, e # "F_OPEN_ERROR", Fail(e),
             UNCHANGED <<disc, folder, past, ft, sums>>,
             sums # <<>>
      PROVE  Inv'
  <2>1. Remembered'
    BY <1>f, <1>r
  <2>2. Attached' /\ Judged' /\ Failed'
    BY <1>f DEF Fail, Attached, Judged, Failed
  <2>. QED BY <1>0, <1>b, <2>1, <2>2 DEF Inv
<1>1. CASE Attach
  <2>1. Remembered'
    BY <1>1, <1>r DEF Attach
  <2>2. Attached'
    BY <1>1 DEF Attach, Fail, HashOf, Attached
  <2>3. Judged'
    BY <1>0, <1>1 DEF Attach, Fail, Judged, Failed
  <2>4. Failed'
    BY <1>0, <1>1 DEF Attach, Fail, HashOf, Failed
  <2>. QED BY <1>0, <1>b, <2>1, <2>2, <2>3, <2>4 DEF Inv
<1>2. CASE Stat
  <2>n. index \in DOMAIN ft /\ pc = "stat"
    BY <1>2 DEF Stat
  <2>1. CASE \E s \in {"MISSING", "SZ_MISMATCH"} : Judge(s) /\ Off(index)
             /\ UNCHANGED ret
    <3>1. PICK s \in {"MISSING", "SZ_MISMATCH"} : Judge(s) /\ Off(index)
                                                /\ UNCHANGED ret
      BY <2>1
    <3>2. s # "VERIFIED"
      BY <3>1
    <3>3. UNCHANGED <<disc, folder, past, changes, ft, sums, printed, ret>>
      BY <1>2, <3>1 DEF Stat
    <3>. QED BY <1>0, <1>b, <2>n, <3>1, <3>2, <3>3, JudgedStep
  <2>2. CASE /\ SizeOf(folder[ft[index].name], ft[index])
             /\ pc' = "sum"
             /\ UNCHANGED <<state, allOk, index, ret>>
    <3>1. Sized(index)
      BY <1>n, <2>2, <2>n DEF Sized
    <3>2. UNCHANGED <<disc, folder, past, changes, ft, sums, state, index, allOk,
                      printed, ret>>
      BY <1>2, <2>2 DEF Stat
    <3>4. Judged'
      BY <1>0, <2>2, <2>n, <3>1, <3>2
         DEF Judged, Fair, Earned, Sized, Summed, Off, Was
    <3>5. Attached' /\ Failed' /\ Remembered'
      BY <1>0, <1>r, <2>2, <2>n, <3>2 DEF Attached, Failed
    <3>. QED BY <1>0, <1>b, <3>4, <3>5 DEF Inv
  <2>3. CASE \E e \in {"ALLOC_ERROR", "PATH_BUFFER_ERROR", "RECORD_ECMA_ERROR"} :
               Fail(e) /\ UNCHANGED <<state, allOk, index>>
    <3>1. sums # <<>>
      BY <1>0, <1>2 DEF Stat, TypeOK
    <3>. QED BY <1>2, <1>f, <2>3, <3>1 DEF Stat
  <2>4. /\ ~folder[ft[index].name].is => Off(index)
        /\ ~SizeOK(folder[ft[index].name], ft[index]) => Off(index)
    BY <1>n, <2>n DEF Off, SizeOK
  <2>. QED BY <1>2, <2>1, <2>2, <2>3, <2>4 DEF Stat, SizeOf, SizeOK
<1>3. CASE Checksum
  <2>n. index \in DOMAIN ft /\ pc = "sum" /\ Sized(index)
    BY <1>0, <1>3 DEF Checksum, TypeOK, Judged
  <2>1. CASE /\ folder[ft[index].name].is
             /\ folder[ft[index].name].sum = sums[index]
             /\ Judge("VERIFIED") /\ UNCHANGED ret
    <3>1. Earned(index)
      BY <1>n, <2>1, <2>n DEF Earned, Summed
    <3>2. UNCHANGED <<disc, folder, past, changes, ft, sums, printed, ret>>
      BY <1>3, <2>1 DEF Checksum
    <3>. QED BY <1>0, <1>b, <2>1, <2>n, <3>1, <3>2, JudgedStep
  <2>2. CASE /\ folder[ft[index].name].sum # sums[index]
             /\ Judge("MD5_MISMATCH") /\ UNCHANGED ret
    <3>1. Off(index)
      BY <1>n, <2>2, <2>n DEF Off
    <3>2. UNCHANGED <<disc, folder, past, changes, ft, sums, printed, ret>>
      BY <1>3, <2>2 DEF Checksum
    <3>. QED BY <1>0, <1>b, <2>2, <2>n, <3>1, <3>2, JudgedStep
  <2>3. CASE ~folder[ft[index].name].is /\ Fail("F_OPEN_ERROR")
             /\ UNCHANGED <<state, allOk, index>>
    <3>1. Vanished(index)
      BY <1>n, <2>3, <2>n DEF Vanished, Sized
    <3>2. UNCHANGED <<disc, folder, past, changes, ft, sums, printed>>
      BY <1>3 DEF Checksum
    <3>3. Vanished(index)'
      BY <3>1, <3>2, <2>3 DEF Vanished, Was
    <3>4. Attached' /\ Judged' /\ Remembered'
      BY <1>r, <2>3, <3>2 DEF Fail, Attached, Judged
    <3>5. Failed'
      BY <2>3, <2>n, <3>2, <3>3 DEF Fail, Failed
    <3>. QED BY <1>0, <1>b, <3>4, <3>5 DEF Inv
  <2>4. CASE \E e \in {"ALLOC_ERROR", "MD5_START_ERROR", "MD5_UPDT_ERROR",
                        "MD5_END_ERROR"} :
               Fail(e) /\ UNCHANGED <<state, allOk, index>>
    <3>1. sums # <<>>
      BY <1>0, <2>n DEF TypeOK
    <3>. QED BY <1>3, <1>f, <2>4, <3>1 DEF Checksum
  <2>. QED BY <1>3, <2>1, <2>2, <2>3, <2>4 DEF Checksum
<1>4. CASE Finish
  <2>0. 1 .. (index - 1) = DOMAIN ft /\ pc = "stat"
    BY <1>0, <1>a, <1>4 DEF Finish, TypeOK
  <2>u. UNCHANGED <<disc, folder, past, changes, ft, sums, state, index, allOk>>
    BY <1>4 DEF Finish
  <2>d. \A i \in DOMAIN ft : Fair(i)
    BY <1>0, <2>0 DEF Judged
  <2>1. CASE allOk /\ pc' = "ok" /\ UNCHANGED <<printed, ret>>
    <3>1. \A i \in DOMAIN ft : Earned(i)
      BY <1>0, <2>0, <2>1, <2>d DEF Judged, Fair
    <3>2. \A i \in DOMAIN ft : Earned(i)'
      BY <2>u, <3>1 DEF Earned, Sized, Summed, Was, SizeOf
    <3>3. Judged'
      BY <2>1, <2>u, <3>2 DEF Judged
    <3>4. Attached' /\ Failed' /\ Remembered'
      BY <1>0, <1>r, <2>0, <2>1, <2>u DEF Attached, Failed
    <3>. QED BY <1>0, <1>b, <3>3, <3>4 DEF Inv
  <2>2. CASE /\ ~allOk /\ printed' = {i \in DOMAIN ft : state[i] # "VERIFIED"}
             /\ pc' = "reported" /\ UNCHANGED ret
    <3>1. printed' # {}
      BY <1>0, <2>0, <2>2 DEF Judged
    <3>2. \A i \in DOMAIN ft : IF i \in printed' THEN Off(i) ELSE Earned(i)
      BY <2>2, <2>d DEF Fair
    <3>5. \A i \in DOMAIN ft : (Earned(i) => Earned(i)') /\ (Off(i) => Off(i)')
      BY <2>u DEF Earned, Sized, Summed, Off, Was, SizeOf
    <3>6. \A i \in DOMAIN ft' : IF i \in printed' THEN Off(i)' ELSE Earned(i)'
      BY <2>u, <3>2, <3>5
    <3>3. Judged'
      BY <2>2, <3>1, <3>6 DEF Judged
    <3>4. Attached' /\ Failed' /\ Remembered'
      BY <1>0, <1>r, <2>0, <2>2, <2>u DEF Attached, Failed
    <3>. QED BY <1>0, <1>b, <3>3, <3>4 DEF Inv
  <2>3. CASE /\ ~allOk
             /\ \E e \in {"ALLOC_ERROR", "PATH_BUFFER_ERROR", "RECORD_ECMA_ERROR"} :
                   Fail(e)
    <3>1. sums # <<>>
      BY <1>0, <2>0, <2>3 DEF Judged, TypeOK
    <3>. QED BY <1>f, <2>3, <2>u, <3>1
  <2>. QED BY <1>4, <2>1, <2>2, <2>3 DEF Finish
<1>5. CASE Change
  BY <1>0, <1>b, <1>5, ChangeStep
<1>6. CASE UNCHANGED vars
  BY <1>0, <1>b, <1>6 DEF vars, Inv, Attached, Remembered, Judged, Failed, Fair, Earned,
                          Sized, Summed, Off, Vanished, Was
<1>. QED BY <1>1, <1>2, <1>3, <1>4, <1>5, <1>6 DEF Next, Terminated

-----------------------------------------------------------------------------
LEMMA InvCorrect == Spec => []Inv
BY InvInit, InvStep, PTL DEF Spec

(* The types of the verification's state, for every disc and every rip.    *)
THEOREM VerifyTypeCorrect == Spec => []TypeOK
<1>1. Inv => TypeOK
  BY DEF Inv
<1>. QED BY <1>1, InvCorrect, PTL

(* With the disc's own IRD, in order, verification never fails because a   *)
(* sector differs, whatever order qsort gave to the files of one block.    *)
THEOREM SectorsAgreeCorrect == Spec => []SectorsAgree
<1>1. Inv => SectorsAgree
  <2>. SUFFICES ASSUME Inv, OwnIrd, SortedIrd, pc = "failed",
                       ret = "RECORD_ECMA_ERROR"
                PROVE  sums # <<>>
    BY DEF SectorsAgree
  <2>1. \A i \in DOMAIN ft : ft[i].block = disc.hashes[i].sector
    BY HashesFit DEF Inv, TypeOK
  <2>. QED BY <2>1 DEF Inv, Failed
<1>. QED BY <1>1, InvCorrect, PTL

(* The verdict on a file that nobody touches is exact, and one on a file   *)
(* that changes meanwhile is right about what it was at some time.         *)
THEOREM VerdictExactCorrect == Spec => []VerdictExact
<1>1. Inv => VerdictExact
  <2>. SUFFICES ASSUME Inv, Distinct, OwnIrd, SortedIrd
                PROVE  /\ pc = "ok" => \A i \in DOMAIN ft : Passable(i)
                       /\ pc = "reported" =>
                             /\ printed # {}
                             /\ \A i \in DOMAIN ft :
                                   IF i \in printed THEN Faulty(i) ELSE Passable(i)
                       /\ (pc = "failed" /\ ret = "F_OPEN_ERROR") =>
                             \E i \in DOMAIN ft : Vanished(i)
    BY DEF VerdictExact, Vanished
  <2>0. TypeOK /\ TableSorted /\ Attached /\ Judged /\ Failed
    BY DEF Inv
  <2>1. \A i \in DOMAIN ft : ft[i].sum = disc.hashes[i].sum
    BY <2>0, HashesFit DEF TypeOK
  <2>2. ASSUME pc \in {"ok", "reported"}, NEW i \in DOMAIN ft
        PROVE  /\ Earned(i) => Passable(i)
               /\ Off(i) => Faulty(i)
    <3>1. sums[i] = ft[i].sum
      BY <2>0, <2>1, <2>2 DEF Attached
    <3>. QED BY <3>1 DEF Earned, Sized, Summed, Off, Passable, Faulty, SizeOf, SumOf
  <2>3. pc = "ok" => \A i \in DOMAIN ft : Passable(i)
    BY <2>0, <2>2 DEF Judged
  <2>4. ASSUME pc = "reported", NEW i \in DOMAIN ft
        PROVE  IF i \in printed THEN Faulty(i) ELSE Passable(i)
    <3>1. IF i \in printed THEN Off(i) ELSE Earned(i)
      BY <2>0, <2>4 DEF Judged
    <3>. QED BY <2>2, <2>4, <3>1
  <2>. QED BY <2>0, <2>3, <2>4 DEF Judged, Failed
<1>. QED BY <1>1, InvCorrect, PTL
=============================================================================
