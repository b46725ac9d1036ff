---------------------------- MODULE VerifyFiles -----------------------------
(***************************************************************************)
(* print_verification (src/src/ird.c:329-601): the hashes of the IRD are   *)
(* attached to the sorted file table, every file of the rip is compared    *)
(* with its record and its hash, and what differs is reported.  The files  *)
(* may change meanwhile: each is looked at twice, by stat and by MD5.      *)
(*                                                                         *)
(* The table is that of FileScan: at most file_count records, none of them *)
(* the continuation of another, for the scan does not count those.  An MD5 *)
(* sum is a value; equal sums mean equal content.                          *)
(***************************************************************************)
EXTENDS Integers, Sequences, Functions

CONSTANTS Discs,    \* [recs: Seq(Record), hashes: Seq(Hash)]
          Names, Sums, Lens,
          MaxChanges  \* bound on the changes of the rip

(* A file of the disc (`sum' is the sum of its content there), a hash of   *)
(* the IRD, and what a path of the rip has: a file or nothing.             *)
Record == [name: Names, block: Nat, len: Lens, sum: Sums]
Hash == [sector: Nat, sum: Sums]
File == [is: {TRUE}, len: Lens, sum: Sums] \cup {[is |-> FALSE]}

ASSUME VerifyAssumption ==
    /\ Lens \subseteq Nat /\ MaxChanges \in Nat
    /\ Discs \subseteq [recs: Seq(Record), hashes: Seq(Hash)]
    /\ \A d \in Discs : Len(d.recs) <= Len(d.hashes)

VARIABLES disc,
          folder,   \* the rip: [Names -> File]
          past,     \* [Names -> SUBSET File]: all it has had since the start
          changes,  \* how often it was changed
          ft,       \* the sorted table
          sums,     \* cur_rec->hash of each record
          state,    \* cur->state of each record
          index,    \* loop counter, from 1
          allOk,    \* all_ok
          printed,  \* indices the report named
          pc, ret

vars == <<disc, folder, past, changes, ft, sums, state, index, allOk, printed, pc, ret>>

Fail(e) == pc' = "failed" /\ ret' = e

(* sort_file_list: records of one block may come in any order.             *)
SortedTables(recs) ==
    {t \in {[i \in DOMAIN recs |-> recs[p[i]]] :
                p \in Bijection(DOMAIN recs, DOMAIN recs)} :
        \A j, k \in DOMAIN recs : j < k => t[j].block <= t[k].block}

Init ==
    /\ disc \in Discs
    /\ folder \in [Names -> File]
    /\ past = [n \in Names |-> {folder[n]}] /\ changes = 0
    /\ ft \in SortedTables(disc.recs)
    /\ sums = <<>> /\ state = <<>>
    /\ index = 1 /\ allOk = TRUE /\ printed = {}
    /\ pc = "attach" /\ ret = "EXIT_OK"

(* attach_checksums: the i-th record gets the i-th hash, if the sectors    *)
(* agree.                                                                  *)
FirstHash(i) == disc.hashes[1]                                    \* mutant
HashOf(i) == disc.hashes[i]

Attach ==
    /\ pc = "attach"
    /\ \/ /\ \A i \in DOMAIN ft : ft[i].block = HashOf(i).sector
          /\ sums' = [i \in DOMAIN ft |-> HashOf(i).sum]
          /\ state' = [i \in DOMAIN ft |-> "unknown"]
          /\ pc' = "stat" /\ UNCHANGED ret
       \/ /\ \E i \in DOMAIN ft : ft[i].block # HashOf(i).sector
          /\ Fail("RECORD_ECMA_ERROR")
          /\ UNCHANGED <<sums, state>>
    /\ UNCHANGED <<disc, folder, past, changes, ft, index, allOk, printed>>

SkipsOne(s) ==                                                    \* mutant
    /\ state' = [state EXCEPT ![index] = s]
    /\ allOk' = (allOk /\ s = "VERIFIED")
    /\ index' = index + 2
    /\ pc' = "stat"

(* A file was compared: its state, and on to the next record.              *)
Judge(s) ==
    /\ state' = [state EXCEPT ![index] = s]
    /\ allOk' = (allOk /\ s = "VERIFIED")
    /\ index' = index + 1
    /\ pc' = "stat"

(* The path is built and stat'ed.                                          *)
AnySize(f, r) == f.len >= r.len                                   \* mutant
SizeOK(f, r) == f.len = r.len

Stat ==
    /\ pc = "stat" /\ index \in DOMAIN ft
    /\ LET r == ft[index]
           f == folder[r.name] IN
       \/ ~f.is /\ Judge("MISSING") /\ UNCHANGED ret
       \/ f.is /\ ~SizeOK(f, r) /\ Judge("SZ_MISMATCH") /\ UNCHANGED ret
       \/ /\ f.is /\ SizeOK(f, r)
          /\ pc' = "sum"
          /\ UNCHANGED <<state, allOk, index, ret>>
       \/ \E e \in {"ALLOC_ERROR", "PATH_BUFFER_ERROR", "RECORD_ECMA_ERROR"} :
             Fail(e) /\ UNCHANGED <<state, allOk, index>>
    /\ UNCHANGED <<disc, folder, past, changes, ft, sums, printed>>

(* calc_checksum; the file may be gone by now, or be another.              *)
Checksum ==
    /\ pc = "sum"
    /\ LET f == folder[ft[index].name] IN
       \/ f.is /\ f.sum = sums[index] /\ Judge("VERIFIED") /\ UNCHANGED ret
       \/ f.is /\ f.sum # sums[index] /\ Judge("MD5_MISMATCH") /\ UNCHANGED ret
       \/ ~f.is /\ Fail("F_OPEN_ERROR") /\ UNCHANGED <<state, allOk, index>>
       \/ \E e \in {"ALLOC_ERROR", "MD5_START_ERROR", "MD5_UPDT_ERROR",
                    "MD5_END_ERROR"} :
             Fail(e) /\ UNCHANGED <<state, allOk, index>>
    /\ UNCHANGED <<disc, folder, past, changes, ft, sums, printed>>

(* Either "No issues to report" or the report, which may break off.        *)
Finish ==
    /\ pc = "stat" /\ index \notin DOMAIN ft
    /\ LET differing == {i \in DOMAIN ft : state[i] # "VERIFIED"} IN
       \/ allOk /\ pc' = "ok" /\ UNCHANGED <<printed, ret>>
       \/ ~allOk /\ printed' = differing /\ pc' = "reported" /\ UNCHANGED ret
       \/ /\ ~allOk
          /\ \E i \in differing : printed' = {j \in differing : j < i}
          /\ \E e \in {"ALLOC_ERROR", "PATH_BUFFER_ERROR", "RECORD_ECMA_ERROR"} :
                Fail(e)
    /\ UNCHANGED <<disc, folder, past, changes, ft, sums, state, index, allOk>>

(* The environment: a file of the rip appears, disappears or changes.      *)
Change ==
    /\ pc \in {"attach", "stat", "sum"} /\ changes < MaxChanges
    /\ \E n \in Names : \E f \in File \ {folder[n]} :
          /\ folder' = [folder EXCEPT ![n] = f]
          /\ past' = [past EXCEPT ![n] = @ \cup {f}]
    /\ changes' = changes + 1
    /\ UNCHANGED <<disc, ft, sums, state, index, allOk, printed, pc, ret>>

Terminated == pc \in {"ok", "reported", "failed"} /\ UNCHANGED vars

Next == Attach \/ Stat \/ Checksum \/ Finish \/ Change \/ Terminated

Spec == Init /\ [][Next]_vars

-----------------------------------------------------------------------------
TypeOK ==
    /\ disc \in Discs /\ folder \in [Names -> File]
    /\ past \in [Names -> SUBSET File] /\ changes \in 0 .. MaxChanges
    /\ allOk \in BOOLEAN
    /\ ft \in Seq(Record)
    /\ index \in 1 .. (Len(ft) + 1)
    /\ pc = "sum" => index \in DOMAIN ft
    /\ printed \subseteq DOMAIN ft
    /\ pc \in {"attach", "stat", "sum", "ok", "reported", "failed"}
    /\ pc \notin {"attach", "failed"} =>
          /\ sums \in [DOMAIN ft -> Sums]
          /\ state \in [DOMAIN ft -> {"unknown", "MISSING", "SZ_MISMATCH",
                                      "MD5_MISMATCH", "VERIFIED"}]

(* The IRD is of this disc, and no two files share a block.                *)
Distinct == \A i, j \in DOMAIN ft : i # j => ft[i].block # ft[j].block
OwnIrd ==
    /\ Len(disc.hashes) = Len(ft)
    /\ \E p \in Bijection(DOMAIN ft, DOMAIN ft) : \A i \in DOMAIN ft :
          disc.hashes[p[i]] = [sector |-> ft[i].block, sum |-> ft[i].sum]
SortedIrd ==
    \A i, j \in DOMAIN disc.hashes :
       i < j => disc.hashes[i].sector <= disc.hashes[j].sector

(* What the file of a record was, at any time of the verification.         *)
Was(i) == past[ft[i].name]
SizeOf(f, r) == f.is /\ f.len = r.len
SumOf(f, r) == f.is /\ f.sum = r.sum
Passable(i) == \E f, g \in Was(i) : SizeOf(f, ft[i]) /\ SumOf(g, ft[i])
Faulty(i) == \E f \in Was(i) : ~(SizeOf(f, ft[i]) /\ SumOf(f, ft[i]))

(* With the IRD of its disc and no two files at one block (qsort may swap  *)
(* those, ird.c:355 only compares sectors), the verdict on a file that     *)
(* nobody touches is exact: it is named if and only if it differs.  One    *)
(* that changes between stat and open may pass with the size of what it    *)
(* was and the sum of what it is, but not without having had both; it is   *)
(* named only if it differed at some time; and only one that was there and *)
(* is gone ends the verification.                                          *)
VerdictExact ==
    (Distinct /\ OwnIrd /\ SortedIrd) =>
        /\ pc = "ok" => \A i \in DOMAIN ft : Passable(i)
        /\ pc = "reported" =>
              /\ printed # {}
              /\ \A i \in DOMAIN ft : IF i \in printed THEN Faulty(i) ELSE Passable(i)
        /\ (pc = "failed" /\ ret = "F_OPEN_ERROR") =>
              \E i \in DOMAIN ft : \E f, g \in Was(i) : SizeOf(f, ft[i]) /\ ~g.is

(* With the IRD of the disc, its hashes in the order of their sectors, no  *)
(* verification fails for a sector: however qsort orders the files of one  *)
(* block, and whatever happens to the rip.                                 *)
SectorsAgree ==
    (OwnIrd /\ SortedIrd /\ pc = "failed" /\ ret = "RECORD_ECMA_ERROR") =>
        sums # <<>>
=============================================================================
