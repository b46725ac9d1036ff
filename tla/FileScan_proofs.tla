-------------------------- MODULE FileScan_proofs ---------------------------
(***************************************************************************)
(* Proofs about FileScan, for every header and table size: the table is    *)
(* never written past its end, a failing scan frees every entry once, and  *)
(* no continuation record is in a finished table.                          *)
(***************************************************************************)
EXTENDS FileScan, TLAPS

(* The entries made so far: those of the scan are leads, and those of the  *)
(* file whose extents are being read follow them.                          *)
Filled ==
    /\ tpos + li <= max
    /\ \A s \in 0 .. (tpos + li - 1) : table[s].set /\ ~table[s].cont
    /\ pc = "extent" =>
          /\ tpos + li + xi <= max
          /\ \A s \in (tpos + li) .. (tpos + li + xi - 1) : table[s].set
    /\ pc = "dir" => li = 0
    /\ pc \in {"scan", "extent"} => ti <= Len(disc.dirs)

(* TypeOK but for the flag, which is FALSE.                                *)
Types ==
    /\ disc \in Discs /\ max \in MaxCounts
    /\ table \in [0 .. (max - 1) ->
                     [name: Nat, cont: BOOLEAN, set: BOOLEAN]]
    /\ ti \in Nat \ {0} /\ ti <= Len(disc.dirs) + 1
    /\ tpos \in Nat /\ li \in Nat /\ xi \in Nat
    /\ pos \in Nat /\ target \in Nat /\ cur \in Nat
    /\ pc \in {"dir", "scan", "extent", "done"}
    /\ ret \in {"EXIT_OK", "ALLOC_ERROR", "RECORD_FIT_ERROR", "F_READ_ERROR",
                "FILE_LIST_BUFFER_ERROR"}

NoBadFree == badFree = FALSE

Inv == Types /\ Filled /\ NoBadFree

LEMMA Nats ==
    ASSUME Types
    PROVE  /\ max \in Nat /\ tpos \in Nat /\ pos \in Nat /\ target \in Nat
           /\ li \in Nat /\ cur \in Nat /\ xi \in Nat /\ ti \in Nat \ {0}
           /\ BlockSize \in Nat \ {0}
BY ScanAssumption DEF Types

LEMMA DirTypes ==
    ASSUME disc \in Discs
    PROVE  /\ Len(disc.dirs) \in Nat
           /\ DOMAIN disc.dirs = 1 .. Len(disc.dirs)
           /\ \A i \in 1 .. Len(disc.dirs) : disc.dirs[i] \in Nat
<1>1. disc.dirs \in Seq(Nat)
  BY ScanAssumption
<1>. QED BY <1>1

LEMMA RecordTypes ==
    ASSUME disc \in Discs, NEW p \in DOMAIN disc.at
    PROVE  /\ p \in Nat /\ disc.at[p] \in DirRecord
           /\ disc.at[p].rlen \in Nat /\ disc.at[p].elen \in Nat
<1>1. DOMAIN disc.at \subseteq Nat /\ disc.at[p] \in DirRecord
  BY ScanAssumption
<1>. QED BY <1>1 DEF DirRecord

LEMMA NextBlockType ==
    ASSUME NEW p \in Nat
    PROVE  NextBlock(p) \in Nat
<1>1. p % BlockSize \in 0 .. (BlockSize - 1)
  BY ScanAssumption
<1>. QED BY <1>1, ScanAssumption DEF NextBlock

(* Only what starts at an offset of the header reads as a record.          *)
LEMMA OutcomeOK ==
    ASSUME NEW p, Outcome(p) = "EXIT_OK"
    PROVE  p \in DOMAIN disc.at
BY DEF Outcome

LEMMA EntryType ==
    ASSUME NEW r \in DirRecord, NEW c \in BOOLEAN
    PROVE  /\ Entry(r, c) \in [name: Nat, cont: BOOLEAN, set: BOOLEAN]
           /\ Entry(r, c).set /\ Entry(r, c).cont = c
BY DEF Entry, DirRecord

LEMMA ScanInit == Init => Inv
<1>. SUFFICES ASSUME Init PROVE Inv
  OBVIOUS
<1>. USE ScanAssumption DEF Init
<1>1. max \in Nat /\ Unset \in [name: Nat, cont: BOOLEAN, set: BOOLEAN]
  BY DEF Unset
<1>2. table \in [0 .. (max - 1) -> [name: Nat, cont: BOOLEAN, set: BOOLEAN]]
  BY <1>1
<1>3. Len(disc.dirs) \in Nat
  BY DirTypes
<1>4. Types
  BY <1>1, <1>2, <1>3 DEF Types
<1>5. Filled
  BY <1>1 DEF Filled
<1>6. NoBadFree
  BY DEF NoBadFree
<1>. QED BY <1>4, <1>5, <1>6 DEF Inv

(* Every error exit frees three ranges of slots that do not meet and are   *)
(* filled.                                                                 *)
LEMMA ExitStep ==
    ASSUME Inv, NEW n \in Nat, NEW e, Exit(n, e),
           e \in {"ALLOC_ERROR", "RECORD_FIT_ERROR", "F_READ_ERROR",
                  "FILE_LIST_BUFFER_ERROR"},
           \A s \in (tpos + li) .. (tpos + li + n - 1) : table[s].set
    PROVE  Inv'
<1>0. Types /\ Filled /\ NoBadFree
  BY DEF Inv
<1>. USE <1>0, Nats
<1>1. badFree' = FALSE
  <2>. DEFINE f == FreedSlots(n)
  <2>1. /\ f[1] = (tpos + li) .. (tpos + li + n - 1)
        /\ f[2] = tpos .. (tpos + li - 1)
        /\ f[3] = 0 .. (tpos - 1)
    BY DEF FreedSlots
  <2>. HIDE DEF f
  <2>2. f[1] \cap f[2] = {} /\ f[1] \cap f[3] = {} /\ f[2] \cap f[3] = {}
    BY <2>1
  <2>3. \A i, j \in 1 .. 3 : i < j => f[i] \cap f[j] = {}
    <3>. SUFFICES ASSUME NEW i \in 1 .. 3, NEW j \in 1 .. 3, i < j
                  PROVE  f[i] \cap f[j] = {}
      OBVIOUS
    <3>1. \/ i = 1 /\ j = 2
          \/ i = 1 /\ j = 3
          \/ i = 2 /\ j = 3
      OBVIOUS
    <3>. QED BY <2>2, <3>1
  <2>4. \A s \in f[1] : table[s].set
    BY <2>1
  <2>5. \A s \in f[2] \cup f[3] : table[s].set
    BY <2>1 DEF Filled
  <2>6. \A i \in 1 .. 3 : \A s \in f[i] : table[s].set
    <3>. SUFFICES ASSUME NEW i \in 1 .. 3 PROVE \A s \in f[i] : table[s].set
      OBVIOUS
    <3>1. i = 1 \/ i = 2 \/ i = 3
      OBVIOUS
    <3>. QED BY <2>4, <2>5, <3>1
  <2>. QED BY <2>3, <2>6 DEF Exit, f
<1>2. /\ ret' = e /\ pc' = "done"
      /\ UNCHANGED <<disc, max, table, ti, tpos, pos, target, li, cur, xi>>
  BY DEF Exit
<1>3. Types'
  BY <1>1, <1>2 DEF Types
<1>4. Filled'
  BY <1>2 DEF Filled
<1>. QED BY <1>1, <1>3, <1>4 DEF Inv, NoBadFree

LEMMA ScanStep == Inv /\ [Next]_vars => Inv'
<1>. SUFFICES ASSUME Inv, [Next]_vars PROVE Inv'
  OBVIOUS
<1>t. Types /\ Filled /\ NoBadFree
  BY DEF Inv
<1>n. /\ max \in Nat /\ tpos \in Nat /\ pos \in Nat /\ target \in Nat
      /\ li \in Nat /\ cur \in Nat /\ xi \in Nat /\ ti \in Nat \ {0}
  BY <1>t, Nats
<1>. USE <1>t, <1>n
<1>0. \A s \in (tpos + li) .. (tpos + li + 0 - 1) : table[s].set
  OBVIOUS
<1>1. CASE EnterDir
  <2>. DEFINE p == disc.dirs[ti] * BlockSize
  <2>0. p \in Nat /\ ti <= Len(disc.dirs)
    <3>1. ti \in 1 .. Len(disc.dirs)
      BY <1>1, DirTypes DEF EnterDir, Types
    <3>2. disc.dirs[ti] \in Nat /\ BlockSize \in Nat /\ Len(disc.dirs) \in Nat
      BY <3>1, DirTypes, Nats DEF Types
    <3>. QED BY <3>1, <3>2
  <2>. HIDE DEF p
  <2>1. CASE Exit(0, "ALLOC_ERROR")
    BY <1>0, <2>1, ExitStep
  <2>2. CASE Outcome(p) # "EXIT_OK" /\ Exit(0, Outcome(p))
    <3>1. Outcome(p) \in {"RECORD_FIT_ERROR", "F_READ_ERROR"}
      BY <2>2 DEF Outcome
    <3>. QED BY <1>0, <2>2, <3>1, ExitStep
  <2>3. CASE /\ Outcome(p) = "EXIT_OK"
             /\ pos' = p
             /\ target' = p + disc.at[p].elen
             /\ pc' = "scan"
             /\ UNCHANGED <<disc, max, table, ti, tpos, li, cur, xi, ret, badFree>>
    <3>0. disc.at[p].elen \in Nat
      BY <2>3, OutcomeOK, RecordTypes DEF Types
    <3>1. target' \in Nat /\ pos' \in Nat
      BY <2>0, <2>3, <3>0
    <3>2. Types'
      BY <2>3, <3>1 DEF Types
    <3>3. Filled' /\ NoBadFree'
      BY <2>0, <2>3 DEF Filled, NoBadFree
    <3>. QED BY <3>2, <3>3 DEF Inv
  <2>. QED BY <1>1, <2>1, <2>2, <2>3 DEF EnterDir, p
<1>2. CASE SkipBlock \/ SkipDir
  <2>1. pos' \in Nat
    <3>1. CASE SkipBlock
      BY <3>1, NextBlockType DEF SkipBlock
    <3>2. CASE SkipDir
      <4>1. disc.at[pos].rlen \in Nat
        BY <3>2, OutcomeOK, RecordTypes DEF SkipDir, Types
      <4>. QED BY <3>2, <4>1 DEF SkipDir, NextRecord
    <3>. QED BY <1>2, <3>1, <3>2
  <2>2. /\ pc = "scan"
        /\ UNCHANGED <<disc, max, table, ti, tpos, target, li, cur, xi, pc, ret,
                       badFree>>
    BY <1>2 DEF SkipBlock, SkipDir, Scanning
  <2>3. Types'
    BY <2>1, <2>2 DEF Types
  <2>4. Filled' /\ NoBadFree'
    BY <2>2 DEF Filled, NoBadFree
  <2>. QED BY <2>3, <2>4 DEF Inv
<1>3. CASE AddFile
  <2>. DEFINE r == disc.at[pos]
              t == tpos + li
  <2>0. /\ r \in DirRecord /\ r.rlen \in Nat /\ r.elen \in Nat
        /\ pc = "scan" /\ t \in 0 .. (max - 1)
    <3>1. Outcome(pos) = "EXIT_OK" /\ pc = "scan" /\ ~(t >= max)
      BY <1>3 DEF AddFile, Scanning, Full
    <3>. QED BY <3>1, OutcomeOK, RecordTypes DEF Types
  <2>1. /\ table' = [table EXCEPT ![t] = Entry(r, FALSE)]
        /\ li' = li + 1
        /\ UNCHANGED <<disc, max, ti, tpos, target, ret, badFree>>
    BY <1>3 DEF AddFile
  <2>2. /\ pos' \in Nat /\ cur' \in Nat /\ xi' \in Nat
        /\ pc' \in {"scan", "extent"}
        /\ pc' = "extent" => xi' = 0
    <3>1. \/ pos' = pos + r.rlen /\ UNCHANGED <<cur, xi, pc>>
          \/ cur' = pos + r.elen /\ xi' = 0 /\ pc' = "extent" /\ UNCHANGED pos
      BY <1>3 DEF AddFile, NextRecord
    <3>. QED BY <2>0, <3>1
  <2>e. /\ Entry(r, FALSE) \in [name: Nat, cont: BOOLEAN, set: BOOLEAN]
        /\ Entry(r, FALSE).set /\ ~Entry(r, FALSE).cont
    BY <2>0, EntryType
  <2>. HIDE DEF r
  <2>i. /\ t \in 0 .. (max - 1) /\ t = tpos + li
        /\ tpos' = tpos /\ li' = li + 1 /\ max' = max
    BY <2>0, <2>1
  <2>t. table' \in [0 .. (max - 1) ->
                       [name: Nat, cont: BOOLEAN, set: BOOLEAN]]
    BY <2>1, <2>e DEF Types
  <2>. HIDE DEF t
  <2>3. Types'
    <3>1. UNCHANGED <<disc, max, ti, tpos, target, ret>>
      BY <2>1
    <3>2. li' \in Nat
      BY <2>i
    <3>. QED BY <2>2, <2>t, <3>1, <3>2 DEF Types
  <2>4. \A s \in 0 .. (max - 1) :
           table'[s] = IF s = t THEN Entry(r, FALSE) ELSE table[s]
    BY <2>1, <2>i DEF Types
  <2>5. \A s \in 0 .. (tpos' + li' - 1) : table'[s].set /\ ~table'[s].cont
    <3>. SUFFICES ASSUME NEW s \in 0 .. t
                  PROVE  table'[s].set /\ ~table'[s].cont
      <4>1. tpos' + li' - 1 = t
        BY <2>i
      <4>. QED BY <4>1
    <3>0. s \in 0 .. (max - 1)
      BY <2>i
    <3>1. CASE s = t
      BY <2>4, <2>e, <3>0, <3>1
    <3>2. CASE s # t
      <4>1. s \in 0 .. (tpos + li - 1)
        BY <2>i, <3>2
      <4>2. table'[s] = table[s]
        BY <2>4, <3>0, <3>2
      <4>. QED BY <4>1, <4>2 DEF Filled
    <3>. QED BY <3>1, <3>2
  <2>6. Filled'
    <3>0. ti' = ti /\ disc' = disc /\ ti <= Len(disc.dirs)
      BY <2>0, <2>1 DEF Filled
    <3>1. /\ tpos' + li' <= max'
          /\ pc' = "extent" => tpos' + li' + xi' <= max' /\ xi' = 0
      <4>1. tpos' + li' <= max'
        BY <2>i
      <4>2. CASE pc' = "extent"
        <5>1. xi' = 0
          BY <2>2, <4>2
        <5>. QED BY <2>i, <4>1, <5>1
      <4>. QED BY <4>1, <4>2
    <3>2. pc' = "extent" =>
             \A s \in (tpos' + li') .. (tpos' + li' + xi' - 1) : table'[s].set
      BY <2>i, <3>1
    <3>. QED BY <2>2, <2>5, <3>0, <3>1, <3>2 DEF Filled
  <2>. QED BY <2>1, <2>3, <2>6 DEF Inv, NoBadFree
<1>4. CASE ScanFails
  BY <1>0, <1>4, ExitStep DEF ScanFails
<1>5. CASE ReadExtent
  <2>0. /\ pc = "extent" /\ ~Full(tpos + li + xi)
        /\ UNCHANGED <<disc, max, ti, tpos, target, li, ret, badFree>>
    BY <1>5 DEF ReadExtent
  <2>1. CASE /\ \/ EndExtents(NextBlock(cur))
                \/ cur' = NextBlock(cur) /\ UNCHANGED <<pos, pc>>
             /\ UNCHANGED <<table, xi>>
    <3>1. pos' \in Nat /\ cur' \in Nat /\ pc' \in {"scan", "extent"}
      <4>1. NextBlock(cur) \in Nat
        BY NextBlockType
      <4>2. \/ pos' = pos + NextBlock(cur) /\ cur' = NextBlock(cur) /\ pc' = "scan"
            \/ cur' = NextBlock(cur) /\ UNCHANGED <<pos, pc>>
        BY <2>1 DEF EndExtents
      <4>. QED BY <2>0, <4>1, <4>2
    <3>2. Types'
      BY <2>0, <2>1, <3>1 DEF Types
    <3>3. Filled' /\ NoBadFree'
      BY <2>0, <2>1, <3>1 DEF Filled, NoBadFree
    <3>. QED BY <3>2, <3>3 DEF Inv
  <2>2. CASE /\ Outcome(cur) = "EXIT_OK"
             /\ LET r == disc.at[cur] IN
                /\ table' = [table EXCEPT ![tpos + li + xi] = Entry(r, TRUE)]
                /\ xi' = xi + 1
                /\ \/ ~r.more /\ EndExtents(cur + r.rlen)
                   \/ r.more /\ cur' = cur + r.rlen /\ UNCHANGED <<pos, pc>>
    <3>. DEFINE r == disc.at[cur]
                t == tpos + li + xi
    <3>0. r \in DirRecord /\ r.rlen \in Nat /\ t \in 0 .. (max - 1)
      BY <2>0, <2>2, OutcomeOK, RecordTypes DEF Full, Types
    <3>1. /\ pos' \in Nat /\ cur' \in Nat /\ pc' \in {"scan", "extent"}
          /\ xi' = xi + 1
          /\ table' = [table EXCEPT ![t] = Entry(r, TRUE)]
      <4>1. /\ \/ /\ pos' = pos + (cur + r.rlen) /\ cur' = cur + r.rlen
                  /\ pc' = "scan"
               \/ cur' = cur + r.rlen /\ UNCHANGED <<pos, pc>>
            /\ xi' = xi + 1 /\ table' = [table EXCEPT ![t] = Entry(r, TRUE)]
        BY <2>2 DEF EndExtents
      <4>. QED BY <2>0, <3>0, <4>1
    <3>e. /\ Entry(r, TRUE) \in [name: Nat, cont: BOOLEAN, set: BOOLEAN]
          /\ Entry(r, TRUE).set
      BY <3>0, EntryType
    <3>. HIDE DEF r
    <3>i. /\ t \in 0 .. (max - 1) /\ t = tpos + li + xi
          /\ tpos' = tpos /\ li' = li /\ max' = max /\ xi' = xi + 1
      BY <2>0, <3>0, <3>1
    <3>t. table' \in [0 .. (max - 1) ->
                         [name: Nat, cont: BOOLEAN, set: BOOLEAN]]
      BY <3>1, <3>e DEF Types
    <3>. HIDE DEF t
    <3>2. Types'
      <4>1. UNCHANGED <<disc, max, ti, tpos, target, li, ret>>
        BY <2>0
      <4>2. xi' \in Nat
        BY <3>1
      <4>. QED BY <3>1, <3>t, <4>1, <4>2 DEF Types
    <3>3. \A s \in 0 .. (max - 1) :
             table'[s] = IF s = t THEN Entry(r, TRUE) ELSE table[s]
      BY <3>1, <3>i DEF Types
    <3>4. \A s \in 0 .. (tpos' + li' - 1) : table'[s].set /\ ~table'[s].cont
      <4>. SUFFICES ASSUME NEW s \in 0 .. (tpos + li - 1)
                    PROVE  table'[s].set /\ ~table'[s].cont
        BY <3>i
      <4>0. s \in 0 .. (max - 1) /\ s # t
        BY <3>i
      <4>1. table'[s] = table[s]
        BY <3>3, <4>0
      <4>. QED BY <4>1 DEF Filled
    <3>5. \A s \in (tpos' + li') .. (tpos' + li' + xi' - 1) : table'[s].set
      <4>. SUFFICES ASSUME NEW s \in (tpos + li) .. t PROVE table'[s].set
        <5>1. tpos' + li' = tpos + li /\ tpos' + li' + xi' - 1 = t
          BY <3>i
        <5>. QED BY <5>1
      <4>0. s \in 0 .. (max - 1)
        BY <3>i
      <4>1. CASE s = t
        BY <3>3, <3>e, <4>0, <4>1
      <4>2. CASE s # t
        <5>1. s \in (tpos + li) .. (tpos + li + xi - 1)
          BY <3>i, <4>2
        <5>2. table'[s] = table[s]
          BY <3>3, <4>0, <4>2
        <5>. QED BY <2>0, <5>1, <5>2 DEF Filled
      <4>. QED BY <4>1, <4>2
    <3>6. Filled'
      <4>1. /\ tpos' + li' <= max' /\ tpos' + li' + xi' <= max'
            /\ ti' = ti /\ disc' = disc /\ ti <= Len(disc.dirs)
        BY <2>0, <3>i DEF Filled
      <4>. QED BY <3>1, <3>4, <3>5, <4>1 DEF Filled
    <3>. QED BY <2>0, <3>2, <3>6 DEF Inv, NoBadFree
  <2>. QED BY <1>5, <2>1, <2>2 DEF ReadExtent
<1>6. CASE ExtentFails
  <2>1. pc = "extent" /\ \A s \in (tpos + li) .. (tpos + li + xi - 1) : table[s].set
    BY <1>6 DEF ExtentFails, Filled
  <2>. QED BY <1>6, <2>1, ExitStep DEF ExtentFails
<1>7. CASE LeaveDir
  <2>0. /\ tpos' = tpos + li /\ li' = 0 /\ ti' = ti + 1 /\ pc = "scan"
        /\ pc' \in {"done", "dir"}
        /\ UNCHANGED <<disc, max, table, pos, target, cur, xi, ret, badFree>>
    BY <1>7 DEF LeaveDir, NextDir
  <2>1. ti <= Len(disc.dirs) /\ Len(disc.dirs) \in Nat
    BY <2>0, DirTypes DEF Types, Filled
  <2>2. Types'
    BY <2>0, <2>1 DEF Types
  <2>3. Filled' /\ NoBadFree'
    BY <2>0 DEF Filled, NoBadFree
  <2>. QED BY <2>2, <2>3 DEF Inv
<1>8. CASE LastDir
  <2>1. Types'
    BY <1>8 DEF LastDir, Types
  <2>2. Filled' /\ NoBadFree'
    BY <1>8 DEF LastDir, Filled, NoBadFree
  <2>. QED BY <2>1, <2>2 DEF Inv
<1>9. CASE UNCHANGED vars
  BY <1>9 DEF vars, Inv, Types, Filled, NoBadFree
<1>. QED BY <1>1, <1>2, <1>3, <1>4, <1>5, <1>6, <1>7, <1>8, <1>9
            DEF Next, Terminated

LEMMA ScanInv == Spec => []Inv
<1>. QED BY ScanInit, ScanStep, PTL DEF Spec

-----------------------------------------------------------------------------
(* Every variable keeps its type, and the loop over the directories reads  *)
(* no entry past the last.                                                 *)
THEOREM ScanTypeCorrect == Spec => []TypeOK
<1>1. Inv => TypeOK
  <2>1. NoBadFree => badFree \in BOOLEAN
    BY DEF NoBadFree
  <2>. QED BY <2>1 DEF Inv, Types, TypeOK
<1>. QED BY <1>1, ScanInv, PTL

(* No file and no extent is written past the end of the table.             *)
THEOREM WithinTableCorrect == Spec => []WithinTable
<1>1. Inv => WithinTable
  BY Nats DEF Inv, Filled, WithinTable
<1>. QED BY <1>1, ScanInv, PTL

(* A failing scan frees each entry once, wherever it fails.                *)
THEOREM FreesOnceCorrect == Spec => []FreesOnce
<1>1. Inv => FreesOnce
  BY DEF Inv, NoBadFree, FreesOnce
<1>. QED BY <1>1, ScanInv, PTL

-----------------------------------------------------------------------------
(* Offsets and blocks.                                                     *)
LEMMA Scaled ==
    ASSUME NEW m \in Nat, NEW n \in Nat, m < n
    PROVE  BlockSize * m + BlockSize <= BlockSize * n
<1>1. PICK k \in Nat : n = m + 1 + k
  <2>1. n - m - 1 \in Nat /\ n = m + 1 + (n - m - 1)
    OBVIOUS
  <2>. QED BY <2>1
<1>2. BlockSize * n = BlockSize * m + BlockSize + BlockSize * k
  BY <1>1, ScanAssumption
<1>3. BlockSize * k \in Nat /\ BlockSize * m \in Nat
  BY ScanAssumption
<1>. QED BY <1>2, <1>3, ScanAssumption

LEMMA Division ==
    ASSUME NEW x \in Nat
    PROVE  /\ x \div BlockSize \in Nat /\ x % BlockSize \in 0 .. (BlockSize - 1)
           /\ x = BlockSize * (x \div BlockSize) + (x % BlockSize)
           /\ BlockSize * (x \div BlockSize) \in Nat
           /\ BlockSize \in Nat \ {0}
BY ScanAssumption

LEMMA NextBlockIs ==
    ASSUME NEW x \in Nat
    PROVE  NextBlock(x) = BlockSize * (x \div BlockSize) + BlockSize
<1>. DEFINE b == BlockSize * (x \div BlockSize)
            r == x % BlockSize
<1>1. b \in Nat /\ r \in Nat /\ x = b + r /\ BlockSize \in Nat
  BY Division
<1>2. NextBlock(x) = x + (BlockSize - r)
  BY DEF NextBlock
<1>. HIDE DEF b, r
<1>3. x + (BlockSize - r) = b + BlockSize
  BY <1>1
<1>. QED BY <1>2, <1>3 DEF b

LEMMA Quotient ==
    ASSUME NEW q \in Nat, NEW x \in Nat,
           BlockSize * q <= x, x < BlockSize * q + BlockSize
    PROVE  x \div BlockSize = q /\ x % BlockSize = x - BlockSize * q
<1>. DEFINE d == x \div BlockSize
            r == x % BlockSize
            Bd == BlockSize * d
            Bq == BlockSize * q
<1>1. /\ d \in Nat /\ r \in 0 .. (BlockSize - 1) /\ x = Bd + r /\ Bd \in Nat
      /\ BlockSize \in Nat
  BY Division
<1>2. Bq \in Nat
  BY <1>1
<1>3. d < q => Bd + BlockSize <= Bq
  BY <1>1, Scaled
<1>4. q < d => Bq + BlockSize <= Bd
  BY <1>1, Scaled
<1>5. Bq <= x /\ x < Bq + BlockSize
  OBVIOUS
<1>. HIDE DEF d, r, Bd, Bq
<1>6. d = q
  BY <1>1, <1>2, <1>3, <1>4, <1>5
<1>7. Bd = Bq
  BY <1>6 DEF Bd, Bq
<1>8. r = x - Bq
  BY <1>1, <1>2, <1>7
<1>. QED BY <1>6, <1>8 DEF d, r, Bq

(* What follows x in its block keeps the distance from its start.          *)
LEMMA SameBlock ==
    ASSUME NEW x \in Nat, NEW p \in Nat, x <= p, p < NextBlock(x)
    PROVE  p % BlockSize = (x % BlockSize) + (p - x)
<1>. DEFINE q == x \div BlockSize
            b == BlockSize * q
<1>1. /\ q \in Nat /\ x % BlockSize \in 0 .. (BlockSize - 1)
      /\ x = b + (x % BlockSize) /\ b \in Nat /\ BlockSize \in Nat
  BY Division
<1>2. b <= p /\ p < b + BlockSize
  BY <1>1 DEF NextBlock
<1>3. p % BlockSize = p - b
  BY <1>1, <1>2, Quotient
<1>. QED BY <1>1, <1>3

LEMMA Straddling ==
    ASSUME NEW x \in Nat
    PROVE  Straddles(x) <=> x + RecHdr > NextBlock(x)
<1>. DEFINE q == x \div BlockSize
            b == BlockSize * q
            y == x + RecHdr - 1
            w == y \div BlockSize
            c == BlockSize * w
<1>1. /\ q \in Nat /\ b \in Nat /\ x % BlockSize \in 0 .. (BlockSize - 1)
      /\ x = b + (x % BlockSize)
  BY Division
<1>2. BlockSize \in Nat \ {0} /\ RecHdr \in 1 .. BlockSize
  BY ScanAssumption
<1>3. y \in Nat
  BY <1>2
<1>4. /\ w \in Nat /\ c \in Nat /\ y % BlockSize \in 0 .. (BlockSize - 1)
      /\ y = c + (y % BlockSize)
  BY <1>3, Division
<1>5. NextBlock(x) = b + BlockSize
  BY NextBlockIs
<1>6. Straddles(x) <=> q # w
  BY DEF Straddles
<1>7. q = w => b = c
  OBVIOUS
<1>8. (q < w => b + BlockSize <= c) /\ (w < q => c + BlockSize <= b)
  BY <1>1, <1>4, Scaled
<1>9. y = x + RecHdr - 1
  OBVIOUS
<1>. HIDE DEF q, b, y, w, c
<1>10. CASE q = w
  BY <1>1, <1>2, <1>4, <1>5, <1>6, <1>7, <1>9, <1>10
<1>11. CASE q # w
  <2>1. b + BlockSize <= c
    BY <1>1, <1>2, <1>4, <1>8, <1>9, <1>11
  <2>. QED BY <1>1, <1>2, <1>4, <1>5, <1>6, <1>9, <1>11, <2>1
<1>. QED BY <1>10, <1>11

(* A block does not reach over the end of an extent of whole blocks.       *)
LEMMA BlockWithin ==
    ASSUME NEW x \in Nat, NEW t \in Nat, x < t, t % BlockSize = 0
    PROVE  NextBlock(x) <= t
<1>. DEFINE q == x \div BlockSize
            b == BlockSize * q
            u == t \div BlockSize
            c == BlockSize * u
<1>1. /\ q \in Nat /\ x % BlockSize \in 0 .. (BlockSize - 1)
      /\ x = b + (x % BlockSize) /\ b \in Nat /\ BlockSize \in Nat
  BY Division
<1>2. u \in Nat /\ t = c + (t % BlockSize) /\ c \in Nat
  BY Division
<1>3. NextBlock(x) = b + BlockSize
  BY NextBlockIs
<1>4. (q < u => b + BlockSize <= c) /\ (u < q => c + BlockSize <= b)
  BY <1>1, <1>2, Scaled
<1>5. u = q => c = b
  OBVIOUS
<1>. HIDE DEF q, b, u, c
<1>6. t = c
  BY <1>2
<1>. QED BY <1>1, <1>2, <1>3, <1>4, <1>5, <1>6

LEMMA WholeEnd ==
    ASSUME NEW n \in Nat, NEW e \in Nat, e % BlockSize = 0
    PROVE  (n * BlockSize + e) % BlockSize = 0 /\ n * BlockSize \in Nat
<1>. DEFINE u == e \div BlockSize
            t == n * BlockSize + e
<1>1. u \in Nat /\ e = BlockSize * u /\ BlockSize \in Nat \ {0}
  BY Division
<1>2. n * BlockSize = BlockSize * n /\ n * BlockSize \in Nat
  BY <1>1
<1>3. BlockSize * (n + u) = BlockSize * n + BlockSize * u
  BY <1>1
<1>. DEFINE q == n + u
<1>4. q \in Nat /\ t \in Nat /\ t = BlockSize * q
  BY <1>1, <1>2, <1>3
<1>. HIDE DEF t, q
<1>5. BlockSize * q <= t /\ t < BlockSize * q + BlockSize
  BY <1>1, <1>4
<1>6. t % BlockSize = t - BlockSize * q
  BY <1>4, <1>5, Quotient
<1>7. t % BlockSize = 0
  BY <1>4, <1>6
<1>. QED BY <1>2, <1>7 DEF t

-----------------------------------------------------------------------------
(* A scan of a mastered disc without multi-extent files.  It stands only   *)
(* between records (Between); what it has passed is what it has counted    *)
(* (Followed), and that is in the table (Matches).                         *)
Plain == Mastered(disc) /\ ~Multi

Between(d, x) == \A p \in DOMAIN d.at : p < x => p + d.at[p].rlen <= x

Passed(i, p) == i < ti \/ (i = ti /\ pc = "scan" /\ p < pos)

Matches ==
    /\ tpos + li <= Len(disc.files)
    /\ \A s \in 0 .. (tpos + li - 1) :
          table[s].name = disc.at[disc.files[s + 1]].name

Followed ==
    pc # "done" =>
       /\ ret = "EXIT_OK" /\ pc # "extent"
       /\ \A k \in DOMAIN disc.files : \A i \in DOMAIN disc.dirs :
             Lists(disc, i, disc.files[k]) =>
                 (k <= tpos + li <=> Passed(i, disc.files[k]))
       /\ pc = "scan" =>
             /\ Start(disc, ti) \in DOMAIN disc.at
             /\ target = Start(disc, ti) + disc.at[Start(disc, ti)].elen
             /\ Start(disc, ti) <= pos /\ Between(disc, pos)

Finished ==
    (pc = "done" /\ ret = "EXIT_OK") =>
        li = 0 /\ (tpos = Len(disc.files) \/ tpos = max)

Survives ==
    (pc = "done" /\ Intact) =>
        ret \in {"EXIT_OK", "ALLOC_ERROR", "FILE_LIST_BUFFER_ERROR"}

Exact == Plain => Matches /\ Followed /\ Finished /\ Survives

LEMMA FileTypes ==
    ASSUME disc \in Discs
    PROVE  /\ Len(disc.files) \in Nat
           /\ DOMAIN disc.files = 1 .. Len(disc.files)
           /\ \A k \in DOMAIN disc.files :
                 disc.files[k] \in DOMAIN disc.at /\ disc.files[k] \in Nat
<1>1. disc.files \in Seq(DOMAIN disc.at) /\ DOMAIN disc.at \subseteq Nat
  BY ScanAssumption
<1>. QED BY <1>1

LEMMA RecordInBlock ==
    ASSUME disc \in Discs, Packed(disc), NEW p \in DOMAIN disc.at
    PROVE  /\ p + disc.at[p].rlen <= NextBlock(p)
           /\ disc.at[p].rlen >= RecHdr /\ RecHdr \in Nat \ {0}
           /\ ~Straddles(p)
<1>1. p \in Nat /\ disc.at[p].rlen \in Nat
  BY RecordTypes
<1>2. disc.at[p].rlen >= RecHdr /\ RecHdr \in Nat \ {0}
  BY ScanAssumption
<1>3. (p % BlockSize) + disc.at[p].rlen <= BlockSize
  BY DEF Packed
<1>4. p % BlockSize \in Nat /\ BlockSize \in Nat
  BY <1>1, Division
<1>5. p + disc.at[p].rlen <= NextBlock(p)
  BY <1>1, <1>3, <1>4 DEF NextBlock
<1>6. p + RecHdr <= NextBlock(p) /\ NextBlock(p) \in Nat
  BY <1>1, <1>2, <1>5, NextBlockType
<1>7. ~Straddles(p)
  BY <1>1, <1>2, <1>6, Straddling
<1>. QED BY <1>2, <1>5, <1>7

(* Where nothing is read, no record starts in the rest of the block.       *)
LEMMA SkipsNothing ==
    ASSUME disc \in Discs, Packed(disc), NEW x \in Nat, Between(disc, x),
           Outcome(x) = "RECORD_FIT_ERROR"
    PROVE  /\ \A p \in DOMAIN disc.at : x <= p => NextBlock(x) <= p
           /\ Between(disc, NextBlock(x))
           /\ x <= NextBlock(x) /\ NextBlock(x) \in Nat
<1>1. NextBlock(x) \in Nat /\ x <= NextBlock(x)
  <2>1. x % BlockSize \in 0 .. (BlockSize - 1) /\ BlockSize \in Nat
    BY Division
  <2>. QED BY <2>1, NextBlockType DEF NextBlock
<1>2. ASSUME NEW p \in DOMAIN disc.at, x <= p
      PROVE  NextBlock(x) <= p
  <2>. SUFFICES ASSUME p < NextBlock(x) PROVE FALSE
    BY <1>1, <1>2, RecordTypes
  <2>1. p \in Nat /\ disc.at[p].rlen \in Nat
    BY RecordTypes
  <2>2. p % BlockSize = (x % BlockSize) + (p - x)
    BY <1>2, <2>1, SameBlock
  <2>3. /\ x % BlockSize \in Nat /\ p % BlockSize \in Nat
        /\ BlockSize \in Nat
    BY <2>1, Division
  <2>4. CASE x \in DOMAIN disc.at
    <3>1. Straddles(x)
      BY <2>4 DEF Outcome
    <3>. QED BY <2>4, <3>1, RecordInBlock
  <2>5. CASE x \notin DOMAIN disc.at
    <3>1. x \in (p - (p % BlockSize)) .. (p - 1)
      <4>1. x # p
        BY <2>5
      <4>. QED BY <1>2, <2>1, <2>2, <2>3, <4>1
    <3>2. PICK q \in DOMAIN disc.at : q <= x /\ x < q + disc.at[q].rlen
      BY <3>1 DEF Packed
    <3>3. q \in Nat /\ q # x /\ disc.at[q].rlen \in Nat
      BY <2>5, RecordTypes
    <3>4. q + disc.at[q].rlen <= x
      BY <3>2, <3>3 DEF Between
    <3>. QED BY <3>2, <3>3, <3>4
  <2>. QED BY <2>4, <2>5
<1>3. Between(disc, NextBlock(x))
  <2>. SUFFICES ASSUME NEW p \in DOMAIN disc.at, p < NextBlock(x)
                PROVE  p + disc.at[p].rlen <= NextBlock(x)
    BY DEF Between
  <2>1. p \in Nat /\ disc.at[p].rlen \in Nat
    BY RecordTypes
  <2>2. p < x
    BY <1>1, <1>2, <2>1
  <2>3. p + disc.at[p].rlen <= x
    BY <2>2 DEF Between
  <2>. QED BY <1>1, <2>1, <2>3
<1>. QED BY <1>1, <1>2, <1>3

(* Behind a record stands the next one.                                    *)
LEMMA StepsOver ==
    ASSUME disc \in Discs, Packed(disc), NEW x \in DOMAIN disc.at
    PROVE  /\ \A p \in DOMAIN disc.at :
                 x < p => x + disc.at[x].rlen <= p
           /\ Between(disc, x + disc.at[x].rlen)
           /\ x < x + disc.at[x].rlen /\ x + disc.at[x].rlen \in Nat
<1>1. x \in Nat /\ disc.at[x].rlen \in Nat /\ disc.at[x].rlen > 0
  BY RecordTypes, RecordInBlock
<1>2. \A p \in DOMAIN disc.at : x < p => x + disc.at[x].rlen <= p
  BY DEF Packed
<1>3. ASSUME NEW p \in DOMAIN disc.at, p < x + disc.at[x].rlen
      PROVE  p + disc.at[p].rlen <= x + disc.at[x].rlen
  <2>1. p \in Nat /\ disc.at[p].rlen \in Nat
    BY RecordTypes
  <2>2. CASE p = x
    BY <1>1, <2>2
  <2>3. CASE p < x
    <3>1. p + disc.at[p].rlen <= x
      BY <2>3 DEF Packed
    <3>. QED BY <1>1, <2>1, <3>1
  <2>. QED BY <1>1, <1>2, <1>3, <2>1, <2>2, <2>3
<1>. QED BY <1>1, <1>2, <1>3 DEF Between

(* Within a directory that lies in the header nothing is cut off.          *)
LEMMA IntactReads ==
    ASSUME disc \in Discs, Packed(disc), WholeBlocks(disc), Intact,
           NEW i \in DOMAIN disc.dirs, NEW x \in Nat, Start(disc, i) <= x,
           x < Start(disc, i) + disc.at[Start(disc, i)].elen
    PROVE  Outcome(x) # "F_READ_ERROR"
<1>. DEFINE p == Start(disc, i)
            e == disc.at[p].elen
<1>1. p \in DOMAIN disc.at /\ p + e <= disc.len /\ disc.len \in Nat
  BY ScanAssumption DEF Intact
<1>2. p \in Nat /\ e \in Nat
  BY <1>1, RecordTypes
<1>3. e % BlockSize = 0
  BY <1>1 DEF WholeBlocks
<1>4. (p + e) % BlockSize = 0
  <2>1. disc.dirs[i] \in Nat
    BY DirTypes
  <2>2. (disc.dirs[i] * BlockSize + e) % BlockSize = 0
    BY <1>2, <1>3, <2>1, WholeEnd
  <2>. QED BY <2>2 DEF Start
<1>. DEFINE t == p + e
<1>5. t \in Nat /\ t % BlockSize = 0 /\ x < t /\ t <= disc.len
  BY <1>1, <1>2, <1>4
<1>. HIDE DEF t
<1>6. NextBlock(x) <= t /\ NextBlock(x) \in Nat
  BY <1>5, BlockWithin, NextBlockType
<1>7. ~Straddles(x) => x + RecHdr <= disc.len
  <2>1. RecHdr \in Nat
    BY ScanAssumption
  <2>. QED BY <1>1, <1>5, <1>6, <2>1, Straddling
<1>8. x \in DOMAIN disc.at => x + disc.at[x].rlen <= disc.len
  <2>. SUFFICES ASSUME x \in DOMAIN disc.at
                PROVE  x + disc.at[x].rlen <= disc.len
    OBVIOUS
  <2>1. x + disc.at[x].rlen <= NextBlock(x) /\ disc.at[x].rlen \in Nat
    BY RecordInBlock, RecordTypes
  <2>. QED BY <1>1, <1>5, <1>6, <2>1
<1>9. ~Straddles(x) => ~(x + RecHdr > disc.len)
  <2>1. RecHdr \in Nat
    BY ScanAssumption
  <2>. QED BY <1>1, <1>7, <2>1
<1>10. x \in DOMAIN disc.at => ~(x + disc.at[x].rlen > disc.len)
  BY <1>1, <1>8, RecordTypes
<1>. QED BY <1>9, <1>10 DEF Outcome

LEMMA IntactEnters ==
    ASSUME disc \in Discs, Packed(disc), WholeBlocks(disc), Intact,
           NEW i \in DOMAIN disc.dirs
    PROVE  Outcome(Start(disc, i)) = "EXIT_OK"
<1>. DEFINE p == Start(disc, i)
<1>1. p \in DOMAIN disc.at
  BY DEF Intact
<1>2. p \in Nat /\ disc.at[p].elen \in Nat /\ disc.at[p].elen > 0
  BY <1>1, RecordTypes DEF WholeBlocks
<1>3. Outcome(p) # "F_READ_ERROR"
  BY <1>2, IntactReads
<1>4. ~Straddles(p)
  BY <1>1, RecordInBlock
<1>. QED BY <1>1, <1>3, <1>4 DEF Outcome

LEMMA ExactInit == Init => Exact
<1>. SUFFICES ASSUME Init, Plain PROVE Exact
  BY DEF Exact
<1>1. disc \in Discs
  BY DEF Init
<1>2. Matches
  BY <1>1, FileTypes DEF Init, Matches
<1>3. Followed
  <2>. SUFFICES ASSUME NEW k \in DOMAIN disc.files, NEW i \in DOMAIN disc.dirs
                PROVE  k <= tpos + li <=> Passed(i, disc.files[k])
    BY DEF Followed, Init
  <2>1. k \in Nat \ {0} /\ i \in Nat \ {0}
    BY <1>1, FileTypes, DirTypes
  <2>. QED BY <2>1 DEF Init, Passed
<1>4. Finished /\ Survives
  BY DEF Init, Finished, Survives
<1>. QED BY <1>2, <1>3, <1>4 DEF Exact

LEMMA ExactExit ==
    ASSUME Matches, NEW n, NEW e, Exit(n, e), e # "EXIT_OK",
           Intact => e \in {"ALLOC_ERROR", "FILE_LIST_BUFFER_ERROR"}
    PROVE  Matches' /\ Followed' /\ Finished' /\ Survives'
<1>1. /\ ret' = e /\ pc' = "done"
      /\ UNCHANGED <<disc, max, table, ti, tpos, pos, target, li, cur, xi>>
  BY DEF Exit
<1>2. Matches'
  BY <1>1 DEF Matches
<1>3. Intact' = Intact
  BY <1>1 DEF Intact
<1>4. Followed' /\ Finished' /\ Survives'
  BY <1>1, <1>3 DEF Followed, Finished, Survives
<1>. QED BY <1>2, <1>4

(* The scan moves on to x without counting a file, there being none on the *)
(* way.                                                                    *)
LEMMA ExactMove ==
    ASSUME Types, Matches, Followed, Scanning, NEW x \in Nat,
           pos <= x, Between(disc, x),
           \A p \in DOMAIN disc.at : (pos <= p /\ p < x) => disc.at[p].isDir,
           \A k \in DOMAIN disc.files : ~disc.at[disc.files[k]].isDir,
           pos' = x,
           UNCHANGED <<disc, max, table, ti, tpos, target, li, cur, xi, pc, ret,
                       badFree>>
    PROVE  Matches' /\ Followed' /\ Finished' /\ Survives'
<1>1. pc = "scan" /\ pc' = "scan" /\ pos \in Nat /\ disc \in Discs
  BY DEF Scanning, Types
<1>2. Matches'
  BY DEF Matches
<1>3. Finished' /\ Survives'
  BY <1>1 DEF Finished, Survives
<1>4. ASSUME NEW k \in DOMAIN disc.files, NEW i \in DOMAIN disc.dirs,
             Lists(disc, i, disc.files[k])
      PROVE  k <= tpos + li <=> Passed(i, disc.files[k])'
  <2>1. disc.files[k] \in DOMAIN disc.at /\ disc.files[k] \in Nat
    BY <1>1, FileTypes
  <2>2. ~(pos <= disc.files[k] /\ disc.files[k] < x)
    BY <2>1
  <2>3. k <= tpos + li <=> Passed(i, disc.files[k])
    BY <1>1, <1>4 DEF Followed
  <2>. QED BY <1>1, <2>1, <2>2, <2>3 DEF Passed
<1>5. /\ ret = "EXIT_OK" /\ Start(disc, ti) \in DOMAIN disc.at
      /\ target = Start(disc, ti) + disc.at[Start(disc, ti)].elen
      /\ Start(disc, ti) <= pos
  BY <1>1 DEF Followed
<1>6. Start(disc, ti) \in Nat
  BY <1>1, <1>5, RecordTypes
<1>7. Start(disc, ti) <= pos'
  BY <1>1, <1>5, <1>6
<1>8. Followed'
  BY <1>1, <1>4, <1>5, <1>7 DEF Followed
<1>. QED BY <1>2, <1>3, <1>8

(* The record at pos is of this directory.                                 *)
LEMMA HereListed ==
    ASSUME Types, Followed, Scanning
    PROVE  Lists(disc, ti, pos)
BY DEF Followed, Scanning, Lists

(* A file that is read is the next one of the disc, and no other file is   *)
(* passed with it.                                                         *)
LEMMA ExactAdd ==
    ASSUME Inv, Plain, Matches, Followed, AddFile
    PROVE  Matches' /\ Followed' /\ Finished' /\ Survives'
<1>. DEFINE r == disc.at[pos]
            c == tpos + li
            x == pos + r.rlen
            L == Len(disc.files)
<1>1. /\ Scanning /\ Outcome(pos) = "EXIT_OK" /\ ~r.isDir /\ ~Full(c)
      /\ table' = [table EXCEPT ![c] = Entry(r, FALSE)]
      /\ li' = li + 1
      /\ UNCHANGED <<disc, max, ti, tpos, target, ret, badFree>>
  BY DEF AddFile
<1>2. Types /\ disc \in Discs /\ pos \in DOMAIN disc.at /\ pos \in Nat
      /\ r.rlen \in Nat /\ pc = "scan" /\ ti \in DOMAIN disc.dirs
  <2>1. Types /\ disc \in Discs /\ pc = "scan" /\ ti <= Len(disc.dirs)
        /\ ti \in Nat \ {0}
    BY <1>1 DEF Inv, Types, Filled, Scanning
  <2>. QED BY <1>1, <2>1, OutcomeOK, RecordTypes, DirTypes
<1>3. pos' = x /\ pc' = "scan"
  <2>1. ~r.more
    BY <1>2 DEF Plain, Multi
  <2>. QED BY <1>2, <2>1 DEF AddFile, NextRecord
<1>4. Packed(disc) /\ InOrder(disc)
  BY DEF Plain, Mastered
<1>5. /\ \A p \in DOMAIN disc.at : pos < p => x <= p
      /\ Between(disc, x) /\ pos < x /\ x \in Nat
  BY <1>2, <1>4, StepsOver
<1>6. c \in 0 .. (max - 1) /\ L \in Nat /\ DOMAIN disc.files = 1 .. L
      /\ tpos \in Nat /\ li \in Nat /\ max \in Nat /\ c <= L
  BY <1>1, <1>2, FileTypes, Nats DEF Full, Matches
<1>7. ret = "EXIT_OK" /\ Start(disc, ti) \in DOMAIN disc.at
      /\ target = Start(disc, ti) + disc.at[Start(disc, ti)].elen
      /\ Start(disc, ti) <= pos
  BY <1>2 DEF Followed
<1>8. \A k \in DOMAIN disc.files : \A i \in DOMAIN disc.dirs :
         Lists(disc, i, disc.files[k]) =>
             (k <= c <=> i < ti \/ (i = ti /\ disc.files[k] < pos))
  BY <1>2 DEF Followed, Passed
<1>9. \A i, j \in DOMAIN disc.dirs : \A k, m \in DOMAIN disc.files :
         (Lists(disc, i, disc.files[k]) /\ Lists(disc, j, disc.files[m])) =>
             /\ k = m => i = j
             /\ k < m => i < j \/ (i = j /\ disc.files[k] < disc.files[m])
  BY <1>4 DEF InOrder
<1>10. Lists(disc, ti, pos)
  BY <1>1, <1>2, HereListed
<1>11. PICK m \in DOMAIN disc.files : disc.files[m] = pos
  BY <1>1, <1>2, <1>4, <1>10 DEF InOrder
<1>12. m = c + 1
  <2>1. ~(m <= c)
    <3>1. m <= c <=> ti < ti \/ (ti = ti /\ pos < pos)
      BY <1>2, <1>8, <1>10, <1>11
    <3>. QED BY <1>2, <3>1, Nats
  <2>2. ASSUME c + 1 < m PROVE FALSE
    <3>1. c + 1 \in DOMAIN disc.files
      BY <1>6, <2>2
    <3>2. PICK i \in DOMAIN disc.dirs : Lists(disc, i, disc.files[c + 1])
      BY <1>4, <3>1 DEF InOrder
    <3>3. i < ti \/ (i = ti /\ disc.files[c + 1] < pos)
      BY <1>2, <1>9, <1>10, <1>11, <2>2, <3>1, <3>2
    <3>4. c + 1 <= c
      BY <1>8, <3>1, <3>2, <3>3
    <3>. QED BY <1>6, <3>4
  <2>. QED BY <1>6, <2>1, <2>2
<1>13. Matches'
  <2>1. tpos' + li' = c + 1 /\ disc' = disc
    BY <1>1, <1>6
  <2>2. c + 1 <= L
    BY <1>6, <1>12
  <2>3. ASSUME NEW s \in 0 .. c
        PROVE  table'[s].name = disc.at[disc.files[s + 1]].name
    <3>1. s \in 0 .. (max - 1)
      BY <1>6
    <3>2. table'[s] = IF s = c THEN Entry(r, FALSE) ELSE table[s]
      BY <1>1, <1>2, <3>1 DEF Types
    <3>3. CASE s = c
      BY <1>11, <1>12, <3>2, <3>3 DEF Entry
    <3>4. CASE s # c
      <4>1. s \in 0 .. (tpos + li - 1)
        BY <1>6, <3>4
      <4>. QED BY <3>2, <3>4, <4>1 DEF Matches
    <3>. QED BY <3>3, <3>4
  <2>4. tpos' + li' - 1 = c
    <3>1. tpos' = tpos /\ li' = li + 1
      BY <1>1
    <3>. QED BY <1>6, <3>1
  <2>5. \A s \in 0 .. (tpos' + li' - 1) :
           table'[s].name = disc'.at[disc'.files[s + 1]].name
    BY <2>1, <2>3, <2>4
  <2>6. tpos' + li' <= Len(disc'.files)
    BY <2>1, <2>2
  <2>. QED BY <2>5, <2>6 DEF Matches
<1>14. ASSUME NEW k \in DOMAIN disc.files, NEW i \in DOMAIN disc.dirs,
              Lists(disc, i, disc.files[k])
       PROVE  k <= c + 1 <=> i < ti \/ (i = ti /\ disc.files[k] < x)
  <2>1. /\ k \in Nat /\ m \in Nat /\ i \in Nat /\ ti \in Nat
        /\ disc.files[k] \in DOMAIN disc.at /\ disc.files[k] \in Nat
    BY <1>2, <1>6, FileTypes, DirTypes
  <2>2. k <= c <=> i < ti \/ (i = ti /\ disc.files[k] < pos)
    BY <1>8, <1>14
  <2>3. CASE k = m
    <3>1. i = ti
      BY <1>2, <1>9, <1>10, <1>11, <1>14, <2>3
    <3>. QED BY <1>5, <1>6, <1>11, <1>12, <2>3, <3>1
  <2>4. CASE k # m
    <3>1. k <= c + 1 <=> k <= c
      BY <1>6, <1>12, <2>1, <2>4
    <3>2. i = ti => disc.files[k] # pos
      <4>. SUFFICES ASSUME i = ti, disc.files[k] = pos PROVE FALSE
        OBVIOUS
      <4>1. k < m \/ m < k
        BY <2>1, <2>4
      <4>2. ti < ti \/ (ti = ti /\ pos < pos)
        BY <1>2, <1>9, <1>10, <1>11, <4>1
      <4>. QED BY <1>2, <2>1, <4>2
    <3>3. i = ti => (disc.files[k] < pos <=> disc.files[k] < x)
      BY <1>2, <1>5, <2>1, <3>2
    <3>. QED BY <2>2, <3>1, <3>3
  <2>. QED BY <2>3, <2>4
<1>15. Start(disc, ti) \in Nat
  BY <1>2, <1>7, RecordTypes
<1>16. tpos' + li' = c + 1 /\ Start(disc, ti) <= x
  BY <1>1, <1>2, <1>5, <1>6, <1>7, <1>15
<1>. HIDE DEF c, x
<1>17. Followed'
  <2>1. ASSUME NEW k \in DOMAIN disc'.files, NEW i \in DOMAIN disc'.dirs,
               Lists(disc', i, disc'.files[k])
        PROVE  k <= tpos' + li' <=> Passed(i, disc.files[k])'
    BY <1>1, <1>3, <1>14, <1>16, <2>1 DEF Passed
  <2>2. /\ ret' = "EXIT_OK" /\ Start(disc', ti') \in DOMAIN disc'.at
        /\ target' = Start(disc', ti') + disc'.at[Start(disc', ti')].elen
        /\ Start(disc', ti') <= pos' /\ Between(disc', pos')
    BY <1>1, <1>3, <1>5, <1>7, <1>16
  <2>. QED BY <1>1, <1>3, <2>1, <2>2 DEF Followed, Passed
<1>18. Finished' /\ Survives'
  BY <1>3 DEF Finished, Survives
<1>. QED BY <1>13, <1>17, <1>18

LEMMA ExactEnter ==
    ASSUME Inv, Plain, Matches, Followed, EnterDir
    PROVE  Matches' /\ Followed' /\ Finished' /\ Survives'
<1>. DEFINE p == Start(disc, ti)
<1>1. pc = "dir" /\ ti \in DOMAIN disc.dirs /\ disc \in Discs
  BY DEF EnterDir, Inv, Types
<1>2. Packed(disc) /\ WholeBlocks(disc)
  BY DEF Plain, Mastered
<1>3. CASE Exit(0, "ALLOC_ERROR")
  BY <1>3, ExactExit
<1>4. CASE Outcome(p) # "EXIT_OK" /\ Exit(0, Outcome(p))
  <2>1. ~Intact
    BY <1>1, <1>2, <1>4, IntactEnters
  <2>. QED BY <1>4, <2>1, ExactExit
<1>5. CASE /\ Outcome(p) = "EXIT_OK"
           /\ pos' = p
           /\ target' = p + disc.at[p].elen
           /\ pc' = "scan"
           /\ UNCHANGED <<disc, max, table, ti, tpos, li, cur, xi, ret, badFree>>
  <2>1. p \in DOMAIN disc.at /\ p \in Nat /\ ret = "EXIT_OK"
    BY <1>1, <1>5, OutcomeOK, RecordTypes DEF Followed
  <2>2. Matches'
    BY <1>5 DEF Matches
  <2>3. Between(disc, p)
    BY <1>2, <2>1 DEF Packed, Between
  <2>4. ASSUME NEW k \in DOMAIN disc.files, NEW i \in DOMAIN disc.dirs,
               Lists(disc, i, disc.files[k])
        PROVE  k <= tpos + li <=> Passed(i, disc.files[k])'
    <3>1. k <= tpos + li <=> i < ti
      BY <1>1, <2>4 DEF Followed, Passed
    <3>2. i = ti => ~(disc.files[k] < p)
      <4>1. disc.files[k] \in Nat
        BY <1>1, FileTypes
      <4>. QED BY <2>1, <2>4, <4>1 DEF Lists
    <3>. QED BY <1>5, <3>1, <3>2 DEF Passed
  <2>5. p <= pos'
    BY <1>5, <2>1
  <2>6. Followed'
    BY <1>5, <2>1, <2>3, <2>4, <2>5 DEF Followed
  <2>7. Finished' /\ Survives'
    BY <1>5 DEF Finished, Survives
  <2>. QED BY <2>2, <2>6, <2>7
<1>. QED BY <1>3, <1>4, <1>5 DEF EnterDir, Start

LEMMA ExactLeave ==
    ASSUME Inv, Plain, Matches, Followed, LeaveDir
    PROVE  Matches' /\ Followed' /\ Finished' /\ Survives'
<1>1. /\ pc = "scan" /\ pos >= target
      /\ tpos' = tpos + li /\ li' = 0 /\ ti' = ti + 1
      /\ pc' = IF Stops(tpos + li) THEN "done" ELSE "dir"
      /\ UNCHANGED <<disc, max, table, pos, target, cur, xi, ret, badFree>>
  BY DEF LeaveDir, NextDir
<1>2. /\ disc \in Discs /\ tpos \in Nat /\ li \in Nat /\ ti \in Nat \ {0}
      /\ pos \in Nat /\ target \in Nat /\ max \in Nat
      /\ tpos + li <= max
  BY Nats DEF Inv, Types, Filled
<1>3. tpos' + li' = tpos + li
  BY <1>1, <1>2
<1>4. Matches'
  <2>1. tpos' + li' - 1 = tpos + li - 1
    BY <1>1, <1>2
  <2>2. \A s \in 0 .. (tpos' + li' - 1) :
           table'[s].name = disc'.at[disc'.files[s + 1]].name
    BY <1>1, <2>1 DEF Matches
  <2>3. tpos' + li' <= Len(disc'.files)
    BY <1>1, <1>3 DEF Matches
  <2>. QED BY <2>2, <2>3 DEF Matches
<1>5. ret = "EXIT_OK"
  BY <1>1 DEF Followed
<1>6. ASSUME NEW k \in DOMAIN disc.files, NEW i \in DOMAIN disc.dirs,
             Lists(disc, i, disc.files[k])
      PROVE  k <= tpos + li <=> i < ti + 1
  <2>1. disc.files[k] \in Nat /\ i \in Nat
    BY <1>2, FileTypes, DirTypes
  <2>2. i = ti => disc.files[k] < pos
    <3>. SUFFICES ASSUME i = ti PROVE disc.files[k] < pos
      OBVIOUS
    <3>1. disc.files[k] < target
      BY <1>1, <1>6 DEF Followed, Lists
    <3>. QED BY <1>1, <1>2, <2>1, <3>1
  <2>3. k <= tpos + li <=> i < ti \/ (i = ti /\ disc.files[k] < pos)
    BY <1>1, <1>6 DEF Followed, Passed
  <2>. QED BY <1>2, <2>1, <2>2, <2>3
<1>7. Followed'
  BY <1>1, <1>3, <1>5, <1>6 DEF Followed, Passed
<1>8. Finished'
  <2>1. pc' = "done" => tpos' = max'
    BY <1>1, <1>2 DEF Stops
  <2>. QED BY <1>1, <2>1 DEF Finished
<1>9. Survives'
  BY <1>1, <1>5 DEF Survives
<1>. QED BY <1>4, <1>7, <1>8, <1>9

LEMMA ExactLast ==
    ASSUME Inv, Plain, Matches, Followed, LastDir
    PROVE  Matches' /\ Followed' /\ Finished' /\ Survives'
<1>1. /\ pc = "dir" /\ ti \notin DOMAIN disc.dirs /\ pc' = "done"
      /\ UNCHANGED <<disc, max, table, ti, tpos, pos, target, li, cur, xi, ret,
                     badFree>>
  BY DEF LastDir
<1>2. /\ disc \in Discs /\ tpos \in Nat /\ li = 0 /\ ti \in Nat \ {0}
      /\ ti <= Len(disc.dirs) + 1
  BY <1>1, Nats DEF Inv, Types, Filled
<1>3. Matches' /\ Followed' /\ ret = "EXIT_OK"
  BY <1>1 DEF Matches, Followed
<1>4. /\ Len(disc.dirs) \in Nat /\ DOMAIN disc.dirs = 1 .. Len(disc.dirs)
      /\ Len(disc.files) \in Nat /\ DOMAIN disc.files = 1 .. Len(disc.files)
  BY <1>2, DirTypes, FileTypes
<1>5. tpos = Len(disc.files)
  <2>1. tpos <= Len(disc.files)
    BY <1>2 DEF Matches
  <2>2. ASSUME tpos < Len(disc.files) PROVE FALSE
    <3>1. tpos + 1 \in DOMAIN disc.files
      BY <1>2, <1>4, <2>2
    <3>2. PICK i \in DOMAIN disc.dirs : Lists(disc, i, disc.files[tpos + 1])
      BY <3>1 DEF Plain, Mastered, InOrder
    <3>3. i < ti
      BY <1>1, <1>2, <1>4, <3>2
    <3>4. tpos + 1 <= tpos + li
      BY <1>1, <3>1, <3>2, <3>3 DEF Followed, Passed
    <3>. QED BY <1>2, <3>4
  <2>. QED BY <1>2, <1>4, <2>1, <2>2
<1>6. Finished' /\ Survives'
  BY <1>1, <1>2, <1>3, <1>5 DEF Finished, Survives
<1>. QED BY <1>3, <1>6

LEMMA ExactStep == Inv /\ Exact /\ [Next]_vars => Exact'
<1>. SUFFICES ASSUME Inv, Exact, [Next]_vars, Plain' PROVE Exact'
  BY DEF Exact
<1>1. disc' = disc
  BY DEF Next, vars, EnterDir, SkipBlock, SkipDir, AddFile, ScanFails, Exit,
         ReadExtent, ExtentFails, LeaveDir, LastDir, Terminated
<1>2. Plain
  BY <1>1 DEF Plain, Multi
<1>3. Matches /\ Followed /\ Finished /\ Survives
  BY <1>2 DEF Exact
<1>4. /\ Packed(disc) /\ WholeBlocks(disc) /\ disc \in Discs /\ Types /\ Filled
      /\ \A k \in DOMAIN disc.files : ~disc.at[disc.files[k]].isDir
  BY <1>2 DEF Plain, Mastered, InOrder, Inv, Types
<1>5. pos \in Nat /\ target \in Nat
  BY <1>4, Nats
<1>6. Scanning => Between(disc, pos) /\ pc = "scan"
  BY <1>3 DEF Scanning, Followed
<1>. SUFFICES Matches' /\ Followed' /\ Finished' /\ Survives'
  BY DEF Exact
<1>7. CASE EnterDir
  BY <1>2, <1>3, <1>7, ExactEnter
<1>8. CASE SkipBlock
  <2>. DEFINE x == NextBlock(pos)
  <2>1. /\ \A p \in DOMAIN disc.at : pos <= p => x <= p
        /\ Between(disc, x) /\ pos <= x /\ x \in Nat
    BY <1>4, <1>5, <1>6, <1>8, SkipsNothing DEF SkipBlock
  <2>2. \A p \in DOMAIN disc.at : (pos <= p /\ p < x) => disc.at[p].isDir
    <3>1. \A p \in DOMAIN disc.at : p \in Nat
      BY <1>4, RecordTypes
    <3>. QED BY <2>1, <3>1
  <2>3. /\ Scanning /\ pos' = x
        /\ UNCHANGED <<disc, max, table, ti, tpos, target, li, cur, xi, pc, ret,
                       badFree>>
    BY <1>8 DEF SkipBlock
  <2>. HIDE DEF x
  <2>. QED BY <1>3, <1>4, <2>1, <2>2, <2>3, ExactMove
<1>9. CASE SkipDir
  <2>. DEFINE x == pos + disc.at[pos].rlen
  <2>0. pos \in DOMAIN disc.at /\ disc.at[pos].isDir
    BY <1>9, OutcomeOK DEF SkipDir
  <2>1. /\ \A p \in DOMAIN disc.at : pos < p => x <= p
        /\ Between(disc, x) /\ pos < x /\ x \in Nat
    BY <1>4, <2>0, StepsOver
  <2>2. \A p \in DOMAIN disc.at : (pos <= p /\ p < x) => disc.at[p].isDir
    <3>1. \A p \in DOMAIN disc.at : p \in Nat
      BY <1>4, RecordTypes
    <3>. QED BY <1>5, <2>0, <2>1, <3>1
  <2>3. /\ Scanning /\ pos' = x
        /\ UNCHANGED <<disc, max, table, ti, tpos, target, li, cur, xi, pc, ret,
                       badFree>>
    BY <1>9 DEF SkipDir, NextRecord
  <2>. HIDE DEF x
  <2>4. pos <= x
    BY <1>5, <2>1
  <2>. QED BY <1>3, <1>4, <2>1, <2>2, <2>3, <2>4, ExactMove
<1>10. CASE AddFile
  BY <1>2, <1>3, <1>10, ExactAdd
<1>11. CASE ScanFails
  <2>1. CASE Exit(0, "ALLOC_ERROR")
    BY <1>3, <2>1, ExactExit
  <2>2. CASE Outcome(pos) = "F_READ_ERROR" /\ Exit(0, "F_READ_ERROR")
    <3>1. /\ pos < target /\ ti \in DOMAIN disc.dirs
          /\ Start(disc, ti) <= pos
          /\ target = Start(disc, ti) + disc.at[Start(disc, ti)].elen
      <4>1. pc = "scan" /\ pos < target
        BY <1>11 DEF ScanFails, Scanning
      <4>2. ti \in DOMAIN disc.dirs
        BY <1>4, <4>1, DirTypes DEF Types, Filled
      <4>. QED BY <1>3, <4>1, <4>2 DEF Followed
    <3>2. ~Intact
      BY <1>4, <1>5, <2>2, <3>1, IntactReads
    <3>. QED BY <1>3, <2>2, <3>2, ExactExit
  <2>3. CASE Exit(0, "FILE_LIST_BUFFER_ERROR")
    BY <1>3, <2>3, ExactExit
  <2>. QED BY <1>11, <2>1, <2>2, <2>3 DEF ScanFails
<1>12. CASE ReadExtent \/ ExtentFails
  BY <1>3, <1>12 DEF ReadExtent, ExtentFails, Followed
<1>13. CASE LeaveDir
  BY <1>2, <1>3, <1>13, ExactLeave
<1>14. CASE LastDir
  BY <1>2, <1>3, <1>14, ExactLast
<1>15. CASE UNCHANGED vars
  BY <1>3, <1>15 DEF vars, Matches, Followed, Finished, Survives, Passed, Intact
<1>. QED BY <1>7, <1>8, <1>9, <1>10, <1>11, <1>12, <1>13, <1>14, <1>15
            DEF Next, Terminated

LEMMA ExactInv == Spec => [](Inv /\ Exact)
<1>. QED BY ScanInit, ScanStep, ExactInit, ExactStep, PTL DEF Spec

-----------------------------------------------------------------------------
(* On a mastered disc without multi-extent files a scan that succeeds      *)
(* found the files of the disc, in order: all of them, or as many as the   *)
(* table holds.                                                            *)
THEOREM ScanIsExactCorrect == Spec => []ScanIsExact
<1>1. Inv /\ Exact => ScanIsExact
  <2>. SUFFICES ASSUME Inv, Exact, pc = "done", ret = "EXIT_OK", Plain
                PROVE  /\ tpos <= Len(disc.files)
                       /\ \A s \in 0 .. (tpos - 1) :
                             table[s].name = disc.at[disc.files[s + 1]].name
                       /\ tpos < Len(disc.files) => tpos = max
    BY DEF ScanIsExact, Plain
  <2>1. Matches /\ Finished
    BY DEF Exact
  <2>2. li = 0 /\ (tpos = Len(disc.files) \/ tpos = max)
    BY <2>1 DEF Finished
  <2>3. tpos \in Nat /\ Len(disc.files) \in Nat
    BY FileTypes DEF Inv, Types
  <2>. QED BY <2>1, <2>2, <2>3 DEF Matches
<1>. QED BY <1>1, ExactInv, PTL

(* On such a disc the scan reads at no offset within a record.             *)
THEOREM NeverTornCorrect == Spec => []NeverTorn
<1>1. Inv /\ Exact => NeverTorn
  <2>. SUFFICES ASSUME Inv, Exact, Plain, Scanning
                PROVE  \A p \in DOMAIN disc.at :
                          ~(p < pos /\ pos < p + disc.at[p].rlen)
    BY DEF Plain, NeverTorn
  <2>1. Followed
    BY DEF Exact
  <2>2. pc = "scan" /\ Between(disc, pos)
    BY <2>1 DEF Followed, Scanning
  <2>3. pos \in Nat /\ disc \in Discs
    BY DEF Inv, Types
  <2>. SUFFICES ASSUME NEW p \in DOMAIN disc.at
                PROVE  ~(p < pos /\ pos < p + disc.at[p].rlen)
    BY <2>2
  <2>4. p \in Nat /\ disc.at[p].rlen \in Nat
    BY <2>3, RecordTypes
  <2>. QED BY <2>2, <2>3, <2>4 DEF Between
<1>. QED BY <1>1, ExactInv, PTL

(* On an intact disc of this kind the scan only fails for want of memory   *)
(* or of room in the table.                                                *)
THEOREM IntactScansCorrect == Spec => []IntactScans
<1>1. Inv /\ Exact => IntactScans
  BY DEF Exact, Plain, Survives, IntactScans
<1>. QED BY <1>1, ExactInv, PTL
=============================================================================
