------------------------------ MODULE FileScan ------------------------------
(***************************************************************************)
(* build_file_list and what it calls (src/src/iso.c:211-298, 450-627,      *)
(* 692-735): the directories of the disc, found in the header of the IRD,  *)
(* are scanned one after the other into a table of bounded size.           *)
(*                                                                         *)
(* The header is a function: `at' has an entry wherever a read finds a     *)
(* length other than zero and decodes a record, and that is not only where *)
(* a record starts.  After a file of several extents the scan may read in  *)
(* the middle of one (iso.c:480), where the name of the file or its date   *)
(* passes for a record: such an entry overlaps with others.                *)
(***************************************************************************)
EXTENDS Integers, Sequences

CONSTANTS BlockSize,  \* bytes of a logical block
          RecHdr,     \* sizeof(ecma119_dir_record_t): the fixed part
          Discs,      \* headers, see DiscsAssumption
          MaxCounts   \* values of max_file_count

(* A directory record: len_dr, the length of its extent, the two flags.    *)
DirRecord == [name: Nat, isDir: BOOLEAN, more: BOOLEAN, rlen: Nat, elen: Nat]

ASSUME ScanAssumption ==
    /\ BlockSize \in Nat \ {0} /\ RecHdr \in 1 .. BlockSize
    /\ MaxCounts \subseteq Nat
    /\ \A d \in Discs :
          /\ d.len \in Nat                        \* size of the header file
          /\ DOMAIN d.at \subseteq Nat
          /\ \A p \in DOMAIN d.at :
                d.at[p] \in DirRecord /\ d.at[p].rlen >= RecHdr
          /\ d.dirs \in Seq(Nat)                  \* blocks of the directories
          /\ d.files \in Seq(DOMAIN d.at)         \* what they list, in order

VARIABLES disc, max,
          table,    \* [0 .. max-1 -> entry]: the malloc'ed table
          ti,       \* index of the directory, from 1
          tpos,     \* table_position
          pos,      \* current_offset of build_single_dir
          target,   \* target_offset
          li,       \* list_index of build_single_dir
          cur,      \* cur_offset of handle_extent_record
          xi,       \* list_index of handle_extent_record
          pc, ret,
          badFree   \* a table entry was freed twice or before it was set

vars == <<disc, max, table, ti, tpos, pos, target, li, cur, xi, pc, ret, badFree>>

Unset == [name |-> 0, cont |-> FALSE, set |-> FALSE]
Entry(r, cont) == [name |-> r.name, cont |-> cont, set |-> TRUE]

-----------------------------------------------------------------------------
(* retrieve_dir_record: what reading a record at offset p comes to.        *)
NeverStraddles(p) == FALSE                                        \* mutant
Straddles(p) == p \div BlockSize # (p + RecHdr - 1) \div BlockSize

Outcome(p) ==
    IF Straddles(p) THEN "RECORD_FIT_ERROR"
    ELSE IF p + RecHdr > disc.len THEN "F_READ_ERROR"
    ELSE IF p \notin DOMAIN disc.at THEN "RECORD_FIT_ERROR"   \* len_dr = 0
    ELSE IF p + disc.at[p].rlen > disc.len THEN "F_READ_ERROR"
    ELSE "EXIT_OK"

AlignUp(p) == p + ((BlockSize - (p % BlockSize)) % BlockSize)     \* mutant
NextBlock(p) == p + (BlockSize - (p % BlockSize))

(* The error exits: handle_extent_record frees its n entries, then         *)
(* build_single_dir its own, then build_file_list those before them.       *)
FreeAllTwice(n) ==                                                \* mutant
    << (tpos + li) .. (tpos + li + n - 1), tpos .. (tpos + li - 1),
       0 .. (tpos + li - 1) >>
FreedSlots(n) ==
    << (tpos + li) .. (tpos + li + n - 1), tpos .. (tpos + li - 1),
       0 .. (tpos - 1) >>

Exit(n, e) ==
    /\ LET f == FreedSlots(n) IN
       badFree' = (\/ \E i, j \in 1 .. 3 : i < j /\ f[i] \cap f[j] # {}
                   \/ \E i \in 1 .. 3 : \E s \in f[i] : ~table[s].set)
    /\ ret' = e
    /\ pc' = "done"
    /\ UNCHANGED <<disc, max, table, ti, tpos, pos, target, li, cur, xi>>

FullAfter(n) == n > max                                           \* mutant
Full(n) == n >= max

(* iso.c:721: the scan stops when the table is full.                       *)
StopsEarly(n) == n + 1 >= max                                     \* mutant
Stops(n) == n >= max

SkipAfterEmpty == IF li = 0 THEN ti + 2 ELSE ti + 1               \* mutant
NextDir == ti + 1

FixedRecord(r) == pos + RecHdr + 1                                \* mutant
NextRecord(r) == pos + r.rlen

-----------------------------------------------------------------------------
Init ==
    /\ disc \in Discs
    /\ max \in MaxCounts
    /\ table = [s \in 0 .. (max - 1) |-> Unset]
    /\ ti = 1 /\ tpos = 0
    /\ pos = 0 /\ target = 0 /\ li = 0
    /\ cur = 0 /\ xi = 0
    /\ pc = "dir" /\ ret = "EXIT_OK"
    /\ badFree = FALSE

(* build_single_dir up to its loop: the record of the directory itself     *)
(* gives its extent.  An unreadable one is an error, also a RECORD_FIT.    *)
EnterDir ==
    /\ pc = "dir" /\ ti \in DOMAIN disc.dirs
    /\ LET p == disc.dirs[ti] * BlockSize IN
       \/ Exit(0, "ALLOC_ERROR")
       \/ Outcome(p) # "EXIT_OK" /\ Exit(0, Outcome(p))
       \/ /\ Outcome(p) = "EXIT_OK"
          /\ pos' = p
          /\ target' = p + disc.at[p].elen
          /\ pc' = "scan"
          /\ UNCHANGED <<disc, max, table, ti, tpos, li, cur, xi, ret, badFree>>

Scanning == pc = "scan" /\ pos < target

SkipBlock ==
    /\ Scanning /\ Outcome(pos) = "RECORD_FIT_ERROR"
    /\ pos' = NextBlock(pos)
    /\ UNCHANGED <<disc, max, table, ti, tpos, target, li, cur, xi, pc, ret,
                   badFree>>

SkipDir ==
    /\ Scanning /\ Outcome(pos) = "EXIT_OK" /\ disc.at[pos].isDir
    /\ pos' = NextRecord(disc.at[pos])
    /\ UNCHANGED <<disc, max, table, ti, tpos, target, li, cur, xi, pc, ret,
                   badFree>>

(* A file with one extent is followed by the next record; for one with     *)
(* more handle_extent_record starts, not at the next record, but as far    *)
(* behind this one as its extent is long (iso.c:480).                      *)
AddFile ==
    /\ Scanning /\ Outcome(pos) = "EXIT_OK" /\ ~disc.at[pos].isDir
    /\ ~Full(tpos + li)
    /\ LET r == disc.at[pos] IN
       /\ table' = [table EXCEPT ![tpos + li] = Entry(r, FALSE)]
       /\ li' = li + 1
       /\ \/ /\ ~r.more
             /\ pos' = NextRecord(r)
             /\ UNCHANGED <<cur, xi, pc>>
          \/ /\ r.more
             /\ cur' = pos + r.elen /\ xi' = 0
             /\ pc' = "extent"
             /\ UNCHANGED pos
    /\ UNCHANGED <<disc, max, ti, tpos, target, ret, badFree>>

ScanFails ==
    /\ Scanning
    /\ \/ Exit(0, "ALLOC_ERROR")
       \/ Outcome(pos) = "F_READ_ERROR" /\ Exit(0, "F_READ_ERROR")
       \/ /\ Outcome(pos) = "EXIT_OK" /\ ~disc.at[pos].isDir /\ Full(tpos + li)
          /\ Exit(0, "FILE_LIST_BUFFER_ERROR")

(* The loop of handle_extent_record ends: the scan goes on at the sum of   *)
(* the two offsets (iso.c:517).  The entries made are not counted, here or *)
(* in LeaveDir: num_extents is not read again, and the file that follows   *)
(* overwrites them (iso.c:618).                                            *)
EndExtents(c) ==
    /\ pos' = pos + c /\ cur' = c
    /\ pc' = "scan"

ReadExtent ==
    /\ pc = "extent" /\ ~Full(tpos + li + xi)
    /\ \/ /\ Outcome(cur) = "RECORD_FIT_ERROR"
          \* `continue' tests the flags of a record that was never filled
          /\ \/ EndExtents(NextBlock(cur))
             \/ cur' = NextBlock(cur) /\ UNCHANGED <<pos, pc>>
          /\ UNCHANGED <<table, xi>>
       \/ /\ Outcome(cur) = "EXIT_OK"
          /\ LET r == disc.at[cur] IN
             /\ table' = [table EXCEPT ![tpos + li + xi] = Entry(r, TRUE)]
             /\ xi' = xi + 1
             /\ \/ ~r.more /\ EndExtents(cur + r.rlen)
                \/ r.more /\ cur' = cur + r.rlen /\ UNCHANGED <<pos, pc>>
    /\ UNCHANGED <<disc, max, ti, tpos, target, li, ret, badFree>>

ExtentFails ==
    /\ pc = "extent"
    /\ \/ Full(tpos + li + xi) /\ Exit(xi, "FILE_LIST_BUFFER_ERROR")
       \/ ~Full(tpos + li + xi) /\ Exit(xi, "ALLOC_ERROR")
       \/ /\ ~Full(tpos + li + xi) /\ Outcome(cur) = "F_READ_ERROR"
          /\ Exit(xi, "F_READ_ERROR")

(* The end of a directory; a full table ends the scan without an error     *)
(* (iso.c:721), whatever the directories that follow hold.                 *)
LeaveDir ==
    /\ pc = "scan" /\ pos >= target
    /\ tpos' = tpos + li
    /\ li' = 0
    /\ ti' = NextDir
    /\ pc' = IF Stops(tpos + li) THEN "done" ELSE "dir"
    /\ UNCHANGED <<disc, max, table, pos, target, cur, xi, ret, badFree>>

LastDir ==
    /\ pc = "dir" /\ ti \notin DOMAIN disc.dirs
    /\ pc' = "done"
    /\ UNCHANGED <<disc, max, table, ti, tpos, pos, target, li, cur, xi, ret,
                   badFree>>

Terminated == pc = "done" /\ UNCHANGED vars

Next ==
    \/ EnterDir \/ SkipBlock \/ SkipDir \/ AddFile \/ ScanFails
    \/ ReadExtent \/ ExtentFails \/ LeaveDir \/ LastDir \/ Terminated

Spec == Init /\ [][Next]_vars

(* A sequential function that is called runs; it is never owed a failing   *)
(* malloc, which would end a scan that does not get on.                    *)
FairSpec == Spec /\ WF_vars(Next /\ ret' # "ALLOC_ERROR")

-----------------------------------------------------------------------------
TypeOK ==
    /\ disc \in Discs /\ max \in MaxCounts
    /\ table \in [0 .. (max - 1) ->
                     [name: Nat, cont: BOOLEAN, set: BOOLEAN]]
    /\ ti \in Nat \ {0} /\ ti <= Len(disc.dirs) + 1
    /\ tpos \in Nat /\ li \in Nat /\ xi \in Nat
    /\ pos \in Nat /\ target \in Nat /\ cur \in Nat
    /\ pc \in {"dir", "scan", "extent", "done"}
    /\ ret \in {"EXIT_OK", "ALLOC_ERROR", "RECORD_FIT_ERROR", "F_READ_ERROR",
                "FILE_LIST_BUFFER_ERROR"}
    /\ badFree \in BOOLEAN

(* The table never grows past its allocation, counting the entries of the  *)
(* previous directories, of this one and of the file being read, and every *)
(* counted entry has been filled.                                          *)
WithinTable ==
    /\ tpos + li <= max
    /\ pc = "extent" => tpos + li + xi <= max
    /\ \A s \in 0 .. (tpos + li - 1) : table[s].set

(* A failing scan frees each entry of the table once, and no unset one.    *)
FreesOnce == ~badFree

Multi == \E p \in DOMAIN disc.at : disc.at[p].more

Start(d, i) == d.dirs[i] * BlockSize
(* The record at p is one of the directory i.                              *)
Lists(d, i, p) ==
    /\ Start(d, i) \in DOMAIN d.at
    /\ Start(d, i) <= p /\ p < Start(d, i) + d.at[Start(d, i)].elen

(* A disc as it is mastered (ECMA-119 6.8.1.1): a record lies within one   *)
(* block, and in front of it in this block are records without a gap or an *)
(* overlap; a directory has an extent of whole blocks; and files are the   *)
(* files of the directories, in their order.                               *)
Packed(d) ==
    \A p \in DOMAIN d.at :
       /\ (p % BlockSize) + d.at[p].rlen <= BlockSize
       /\ \A x \in (p - (p % BlockSize)) .. (p - 1) :
             \E q \in DOMAIN d.at : q <= x /\ x < q + d.at[q].rlen
       /\ \A q \in DOMAIN d.at : q < p => q + d.at[q].rlen <= p

WholeBlocks(d) ==
    \A i \in DOMAIN d.dirs :
       Start(d, i) \in DOMAIN d.at =>
          LET e == d.at[Start(d, i)].elen IN e > 0 /\ e % BlockSize = 0

InOrder(d) ==
    /\ \A k \in DOMAIN d.files :
          /\ ~d.at[d.files[k]].isDir
          /\ \E i \in DOMAIN d.dirs : Lists(d, i, d.files[k])
    /\ \A i \in DOMAIN d.dirs : \A p \in DOMAIN d.at :
          (Lists(d, i, p) /\ ~d.at[p].isDir) =>
              \E k \in DOMAIN d.files : d.files[k] = p
    /\ \A i, j \in DOMAIN d.dirs : \A k, m \in DOMAIN d.files :
          (Lists(d, i, d.files[k]) /\ Lists(d, j, d.files[m])) =>
              /\ k = m => i = j
              /\ k < m => i < j \/ (i = j /\ d.files[k] < d.files[m])

Mastered(d) == Packed(d) /\ WholeBlocks(d) /\ InOrder(d)

(* Every directory starts with its own record and lies in the header with  *)
(* the padding of its last block.                                          *)
Intact ==
    \A i \in DOMAIN disc.dirs :
       LET p == Start(disc, i) IN
       p \in DOMAIN disc.at /\ p + disc.at[p].elen <= disc.len

(* Without multi-extent files, EXIT_OK means the table holds the files of  *)
(* the disc in the order of the directories, all of them if the table was  *)
(* large enough.  When it was not, the list is cut without an error, and   *)
(* only when the table is exactly full at the end of a directory.          *)
ScanIsExact ==
    (pc = "done" /\ ret = "EXIT_OK" /\ Mastered(disc) /\ ~Multi) =>
        /\ tpos <= Len(disc.files)
        /\ \A s \in 0 .. (tpos - 1) :
              table[s].name = disc.at[disc.files[s + 1]].name
        /\ tpos < Len(disc.files) => tpos = max

(* On a mastered disc without multi-extent files the scan never decodes    *)
(* the middle of a record.  With such a file it may: where the extents of  *)
(* the file are looked for depends on how long the first one is.           *)
NeverTorn ==
    (Mastered(disc) /\ ~Multi /\ Scanning) =>
        \A p \in DOMAIN disc.at : ~(p < pos /\ pos < p + disc.at[p].rlen)

(* An intact header without multi-extent files is scanned unless memory    *)
(* runs out or the table is too small: no padding at the end of a block    *)
(* and no exact fit of one is taken for an error.                          *)
IntactScans ==
    (pc = "done" /\ Intact /\ Mastered(disc) /\ ~Multi) =>
        ret \in {"EXIT_OK", "ALLOC_ERROR", "FILE_LIST_BUFFER_ERROR"}

(* Every scan ends, also when it goes on by the flags of an unfilled       *)
(* record.                                                                 *)
ScanEnds == <>(pc = "done")

(* README.md:7, "Appropriate handling of non-contiguous multi-extent       *)
(* files": an intact disc with such files is scanned too.                  *)
MultiExtentScans ==
    (pc = "done" /\ Intact) =>
        ret \in {"EXIT_OK", "ALLOC_ERROR", "FILE_LIST_BUFFER_ERROR"}
=============================================================================
