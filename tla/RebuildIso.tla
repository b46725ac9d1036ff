----------------------------- MODULE RebuildIso -----------------------------
(***************************************************************************)
(* rebuild_iso (src/src/ird.c:603-744): the image is assembled from the    *)
(* IRD header, the files of the rip in block order with zeroed gaps        *)
(* between them, and the IRD footer.  The table comes from build_file_list *)
(* (module FileScan); here it is an input, as are the files on disk, the   *)
(* room on the output device and the calls that fail.  A failing fread is  *)
(* not one that the code can see: write_file_to_file takes it for the end  *)
(* of its input (util.c:182-192).  The caller compares the count for a     *)
(* body, but not for header.bin and footer.bin (ird.c:652, 728).           *)
(*                                                                         *)
(* The output stream is modelled by what stdio does: ftell() counts the    *)
(* bytes handed to fwrite, up to StdioBuf of which may not have reached    *)
(* the device.  The stream is never closed by the program, so the rest is  *)
(* written by exit(), whose result nobody sees.                            *)
(***************************************************************************)
EXTENDS Integers, Sequences, Functions

CONSTANTS BlockSize,  \* bytes of a logical block (2048)
          UMod,       \* 2^32: uint32_t arithmetic is modulo UMod
          StdioBuf,   \* capacity of the stdio buffer of the output stream
          JunkMax,    \* bytes an out-of-range fwrite may emit before it ends
          Discs,      \* the discs: [hdr, ftr: Nat, recs: Seq(Record)]
          FileLens,   \* sizes a file of the rip may have when it is copied
          Caps        \* bytes the output device may accept

(* A record of the file table: dir_record_t reduced to what is placed.     *)
Record == [name: Nat, block: Nat, off: Nat, len: Nat]

ASSUME SizesAssumption ==
    /\ BlockSize \in Nat /\ BlockSize >= 4    \* ECMA-119 has 512 and more
    /\ UMod \in Nat \ {0}
    /\ StdioBuf \in Nat
    /\ JunkMax \in Nat
    /\ FileLens \subseteq Nat
    /\ Caps \subseteq Nat

(* extent_length is a uint32_t.                                            *)
ASSUME DiscsAssumption ==
    /\ Discs \subseteq [hdr: Nat, ftr: Nat, recs: Seq(Record)]
    /\ \A d \in Discs : \A i \in DOMAIN d.recs : d.recs[i].len < UMod

VARIABLES disc,    \* the disc being rebuilt
          bins,    \* bytes that header.bin and footer.bin deliver before
                   \* they end or a read of them fails
          cap,     \* bytes the output device accepts
          ft,      \* file_table_t after sort_file_list
          index,   \* loop counter, from 1
          iso,     \* [0 .. pos-1 -> Cell]: the bytes handed to iso_file
          pos,     \* ftell(iso_file)
          pc,      \* where rebuild_iso is
          ret,     \* ret_val
          heap,    \* what rel_path and full_path point at
          badFree, \* free() was given a pointer that is not a live block
          onDisk   \* bytes that reached the device when the process ended

vars == <<disc, bins, cap, ft, index, iso, pos, pc, ret, heap, badFree, onDisk>>

Cell == {"header", "body", "zero", "junk", "footer"} \X Nat \X Nat

Labels == {"sort", "open", "header", "place", "assert", "path", "copy",
           "returned", "aborted", "exited"}

Errors == {"ALLOC_ERROR", "F_OPEN_ERROR", "F_SEEK_ERROR", "F_WRITE_ERROR",
           "F_SIZE_ERROR", "PATH_BUFFER_ERROR", "RECORD_ECMA_ERROR",
           "ENCODING_ERROR"}

Pointers == {"unset", "null", "live", "dangling"}

-----------------------------------------------------------------------------
(* Data: addresses, order and the output stream.                           *)

Min2(a, b) == IF a < b THEN a ELSE b

(* Where the disc has the record, and where the code computes that it is:  *)
(* block_offset is a uint32_t, so the product is taken modulo UMod.        *)
Addr(r) == r.block * BlockSize
End(r) == Addr(r) + r.len
Place(r) == Addr(r) % UMod

CompareNames(r, s) == r.name - s.name                             \* mutant

(* compare_dir_records: the uint32_t difference, returned as an int.       *)
Compare(r, s) ==
    LET d == (r.block - s.block) % UMod
    IN  IF 2 * d >= UMod THEN d - UMod ELSE d

(* The differences order the records: not if blocks lie 2^31 apart.        *)
IsOrder(recs) ==
    \A i, j, k \in DOMAIN recs :
       /\ Compare(recs[i], recs[j]) < 0 => Compare(recs[j], recs[i]) > 0
       /\ (Compare(recs[i], recs[j]) <= 0 /\ Compare(recs[j], recs[k]) <= 0)
             => Compare(recs[i], recs[k]) <= 0

(* The tables qsort may leave: the order of equal keys is unspecified, and *)
(* every order if the comparison is none.                                  *)
SortedTables(recs) ==
    {t \in {[i \in DOMAIN recs |-> recs[p[i]]] :
                p \in Bijection(DOMAIN recs, DOMAIN recs)} :
        IsOrder(recs) =>
            \A j, k \in DOMAIN recs : j < k => Compare(t[j], t[k]) <= 0}

EmitOneMore(src, name, from, n) ==                                \* mutant
    /\ iso' = [a \in 0 .. (pos + n) |->
                  IF a < pos THEN iso[a] ELSE <<src, name, from + (a - pos)>>]
    /\ pos' = pos + n

(* n bytes of a source, from offset from on, are added to the stream.      *)
Emit(src, name, from, n) ==
    /\ iso' = [a \in 0 .. (pos + n - 1) |->
                  IF a < pos THEN iso[a] ELSE <<src, name, from + (a - pos)>>]
    /\ pos' = pos + n

IgnoreWriteErrors(n) == TRUE                                      \* mutant

(* fwrite accepts n bytes while the device and the buffer have room, and   *)
(* may come back short, after m bytes, only when the device is too small.  *)
Accepts(n) == pos + n <= cap + StdioBuf
Short(n, m) == m < n /\ pos + n > cap /\ Accepts(m)

Return(e) == ret' = e /\ pc' = "returned"

-----------------------------------------------------------------------------
Init ==
    /\ disc \in Discs
    /\ bins \in [hdr: 0 .. disc.hdr, ftr: 0 .. disc.ftr]
    /\ cap \in Caps
    /\ ft = <<>>
    /\ index = 1
    /\ iso = [a \in {} |-> 0]
    /\ pos = 0
    /\ pc = "sort"
    /\ ret = "EXIT_OK"
    /\ heap = [rel |-> "unset", full |-> "unset"]
    /\ badFree = FALSE
    /\ onDisk = 0

SortFiles ==
    /\ pc = "sort"
    /\ ft' \in SortedTables(disc.recs)
    /\ pc' = "open"
    /\ UNCHANGED <<disc, bins, cap, index, iso, pos, ret, heap, badFree, onDisk>>

OpenIso ==
    /\ pc = "open"
    /\ \/ pc' = "header" /\ UNCHANGED ret
       \/ Return("F_OPEN_ERROR")
       \/ Return("F_SEEK_ERROR")
    /\ UNCHANGED <<disc, bins, cap, ft, index, iso, pos, heap, badFree, onDisk>>

(* write_file_to_file(header, iso, INT64_MAX): what header.bin delivers,   *)
(* also if a read of it fails; the count is not looked at.                 *)
WriteHeader ==
    /\ pc = "header"
    /\ \/ /\ Accepts(bins.hdr)
          /\ Emit("header", 0, 0, bins.hdr)
          /\ pc' = "place" /\ UNCHANGED ret
       \/ \E m \in 0 .. bins.hdr :
             /\ Short(bins.hdr, m)
             /\ Emit("header", 0, 0, m)
             /\ Return("F_WRITE_ERROR")
       \/ Return("ALLOC_ERROR") /\ UNCHANGED <<iso, pos>>
    /\ UNCHANGED <<disc, bins, cap, ft, index, heap, badFree, onDisk>>

InTable == index \in DOMAIN ft
Gap == Place(ft[index]) - pos

(* zero_out_file(iso, Gap): a short fwrite ends the loop with EXIT_OK.     *)
ZeroGap ==
    /\ pc = "place" /\ InTable /\ Gap >= 0
    /\ \/ /\ Accepts(Gap)
          /\ Emit("zero", 0, 0, Gap)
          /\ pc' = "assert" /\ UNCHANGED ret
       \/ \E m \in 0 .. Gap :
             /\ Short(Gap, m)
             /\ Emit("zero", 0, 0, m)
             /\ pc' = "assert" /\ UNCHANGED ret
       \/ Gap > 0 /\ Return("ALLOC_ERROR") /\ UNCHANGED <<iso, pos>>
    /\ UNCHANGED <<disc, bins, cap, ft, index, heap, badFree, onDisk>>

(* A negative size: min() keeps it, and fwrite is asked for about 2^64     *)
(* bytes of a 4096-byte buffer.  It faults, or some memory is written and  *)
(* the short count ends the loop.                                          *)
ZeroNegativeGap ==
    /\ pc = "place" /\ InTable /\ Gap < 0
    /\ \/ \E m \in 0 .. JunkMax :
             /\ Accepts(m)
             /\ Emit("junk", 0, 0, m)
             /\ pc' = "assert" /\ UNCHANGED ret
       \/ pc' = "aborted" /\ UNCHANGED <<ret, iso, pos>>
       \/ Return("ALLOC_ERROR") /\ UNCHANGED <<iso, pos>>
    /\ UNCHANGED <<disc, bins, cap, ft, index, heap, badFree, onDisk>>

(* The assert of ird.c:666 (the Makefile does not define NDEBUG).          *)
NoAssert(r) == TRUE                                               \* mutant
Placed(r) == Place(r) = pos

AssertPlaced ==
    /\ pc = "assert"
    /\ pc' = IF Placed(ft[index]) THEN "path" ELSE "aborted"
    /\ UNCHANGED <<disc, bins, cap, ft, index, iso, pos, ret, heap, badFree, onDisk>>

(* free(): a dead or never assigned pointer is undefined behaviour; the    *)
(* process is killed or goes on.                                           *)
FreeOne(p) == IF p = "live" THEN "dangling" ELSE p
BadPointer(p) == p \in {"unset", "dangling"}

ExitRelTwice(rel, full, e) ==                                     \* mutant
    /\ heap' = [rel |-> "dangling", full |-> "dangling"]
    /\ badFree' = TRUE
    /\ Return(e)

(* The exits of the loop: exit_rel frees both paths, exit_full the second. *)
ExitRel(rel, full, e) ==
    /\ heap' = [rel |-> FreeOne(rel), full |-> FreeOne(full)]
    /\ badFree' = (badFree \/ BadPointer(rel) \/ BadPointer(full))
    /\ ret' = e
    /\ pc' \in IF BadPointer(rel) \/ BadPointer(full)
               THEN {"returned", "aborted"} ELSE {"returned"}

ExitFull(rel, full, e) ==
    /\ heap' = [rel |-> rel, full |-> FreeOne(full)]
    /\ badFree' = (badFree \/ BadPointer(full))
    /\ ret' = e
    /\ pc' \in IF BadPointer(full) THEN {"returned", "aborted"}
               ELSE {"returned"}

(* The two paths are built and the source file is opened.                  *)
BuildPaths ==
    /\ pc = "path"
    /\ \/ /\ heap' = [heap EXCEPT !.rel = "null"]      \* malloc(rel_path)
          /\ Return("ALLOC_ERROR") /\ UNCHANGED badFree
       \/ \E e \in {"PATH_BUFFER_ERROR", "RECORD_ECMA_ERROR", "ALLOC_ERROR"} :
             ExitRel("live", heap.full, e)             \* build_path
       \/ ExitRel("live", "null", "ALLOC_ERROR")       \* malloc(full_path)
       \/ \E e \in {"ENCODING_ERROR", "PATH_BUFFER_ERROR", "F_OPEN_ERROR"} :
             ExitFull("live", "live", e)               \* snprintf, fopen
       \/ /\ heap' = [rel |-> "live", full |-> "live"]
          /\ pc' = "copy" /\ UNCHANGED <<ret, badFree>>
    /\ UNCHANGED <<disc, bins, cap, ft, index, iso, pos, onDisk>>

(* write_file_to_file(cur_file, iso, extent_length): what a file that is n *)
(* bytes long now has from file_offset on, at most extent_length of it.    *)
Got(r, n) == IF n <= r.off THEN 0 ELSE Min2(r.len, n - r.off)

CopyBody ==
    /\ pc = "copy"
    /\ LET r == ft[index] IN
       \/ \E n \in FileLens :
             /\ Got(r, n) = r.len /\ Accepts(r.len)
             /\ Emit("body", r.name, r.off, r.len)
             /\ heap' = [rel |-> "dangling", full |-> "dangling"]
             /\ index' = index + 1
             /\ pc' = "place" /\ UNCHANGED <<ret, badFree>>
       \/ \E n \in FileLens :
             /\ Got(r, n) # r.len /\ Accepts(Got(r, n))
             /\ Emit("body", r.name, r.off, Got(r, n))
             /\ ExitRel(heap.rel, heap.full, "F_SIZE_ERROR")
             /\ UNCHANGED index
       \/ \E n \in FileLens : \E m \in 0 .. Got(r, n) :
             /\ Short(Got(r, n), m)
             /\ Emit("body", r.name, r.off, m)
             /\ ExitRel(heap.rel, heap.full, "F_WRITE_ERROR")
             /\ UNCHANGED index
       \/ \E e \in {"F_SEEK_ERROR", "ALLOC_ERROR"} :
             /\ ExitRel(heap.rel, heap.full, e)
             /\ UNCHANGED <<iso, pos, index>>
    /\ UNCHANGED <<disc, bins, cap, ft, onDisk>>

(* The same for footer.bin.                                                *)
WriteFooter ==
    /\ pc = "place" /\ ~InTable
    /\ \/ /\ Accepts(bins.ftr)
          /\ Emit("footer", 0, 0, bins.ftr)
          /\ Return("EXIT_OK")
       \/ \E m \in 0 .. bins.ftr :
             /\ Short(bins.ftr, m)
             /\ Emit("footer", 0, 0, m)
             /\ Return("F_WRITE_ERROR")
       \/ \E e \in {"F_SEEK_ERROR", "ALLOC_ERROR"} :
             Return(e) /\ UNCHANGED <<iso, pos>>
    /\ UNCHANGED <<disc, bins, cap, ft, index, heap, badFree, onDisk>>

(* main returns or exits: exit() flushes iso_file, and ignores a failure.  *)
ProcessExit ==
    /\ pc = "returned"
    /\ onDisk' = Min2(pos, cap)
    /\ pc' = "exited"
    /\ UNCHANGED <<disc, bins, cap, ft, index, iso, pos, ret, heap, badFree>>

Terminated ==
    /\ pc \in {"exited", "aborted"}
    /\ UNCHANGED vars

Next ==
    \/ SortFiles \/ OpenIso \/ WriteHeader \/ ZeroGap \/ ZeroNegativeGap
    \/ AssertPlaced \/ BuildPaths \/ CopyBody \/ WriteFooter
    \/ ProcessExit \/ Terminated

Spec == Init /\ [][Next]_vars

-----------------------------------------------------------------------------
(* Properties.                                                             *)

(* Every variable stays in its type; a body is only copied for an index of *)
(* the table (ft.table[index] is never read past ft.length).               *)
TypeOK ==
    /\ disc \in Discs /\ cap \in Caps
    /\ bins \in [hdr: 0 .. disc.hdr, ftr: 0 .. disc.ftr]
    /\ ft \in Seq(Record)
    /\ index \in Nat \ {0}
    /\ pos \in Nat /\ onDisk \in Nat
    /\ iso \in [0 .. (pos - 1) -> Cell]
    /\ pc \in Labels
    /\ ret \in Errors \cup {"EXIT_OK"}
    /\ heap \in [rel: Pointers, full: Pointers]
    /\ badFree \in BOOLEAN
    /\ pc \in {"assert", "path", "copy"} => index \in DOMAIN ft

(* End of what precedes the k-th file: what there is of the header, or a   *)
(* file.                                                                   *)
TailBefore(k) == IF k = 1 THEN bins.hdr ELSE End(ft[k - 1])

(* No gap is as wide as the 32-bit arithmetic: true of every disc whose    *)
(* files follow each other with less than 4 GiB in between.                *)
SmallGaps == \A k \in DOMAIN ft : Addr(ft[k]) - TailBefore(k) < UMod

InBody(r, a) == Addr(r) <= a /\ a < End(r)

(* The image of the disc, from what header.bin and footer.bin deliver: the *)
(* header first, every file whole at the address the disc has it at, zeros *)
(* wherever nothing lies, the footer after the last file and nothing more. *)
ImageOfBins ==
    LET tail == TailBefore(Len(ft) + 1) IN
    /\ pos = tail + bins.ftr
    /\ \A a \in 0 .. (bins.hdr - 1) : iso[a] = <<"header", 0, a>>
    /\ \A k \in DOMAIN ft : \A a \in 0 .. (pos - 1) :
          InBody(ft[k], a) =>
             iso[a] = <<"body", ft[k].name, ft[k].off + (a - Addr(ft[k]))>>
    /\ \A a \in bins.hdr .. (tail - 1) :
          (\A k \in DOMAIN ft : ~InBody(ft[k], a)) => iso[a][1] = "zero"
    /\ \A a \in tail .. (pos - 1) : iso[a] = <<"footer", 0, a - tail>>

(* A run that reports EXIT_OK produced the image of the disc, except for   *)
(* what header.bin and footer.bin did not deliver.  In particular the      *)
(* 32-bit product of ird.c:661, which wraps at 4 GiB, never leads to a     *)
(* misplaced file that goes unreported, and a read of header.bin that      *)
(* fails costs zeros where its bytes belong, but moves no file.            *)
SuccessImage ==
    (pc \in {"returned", "exited"} /\ ret = "EXIT_OK" /\ SmallGaps)
        => ImageOfBins

(* A disc the code can lay out: files below the wrap, after the header and *)
(* apart from each other, no two of them at one block.                     *)
WellLaid(d) ==
    /\ \A i \in DOMAIN d.recs :
          d.hdr <= Addr(d.recs[i]) /\ Addr(d.recs[i]) < UMod
    /\ \A i, j \in DOMAIN d.recs :
          d.recs[i].block < d.recs[j].block => End(d.recs[i]) <= Addr(d.recs[j])
    /\ \A i, j \in DOMAIN d.recs :
          i # j => d.recs[i].block # d.recs[j].block

(* On such a disc the assert at ird.c:666 only stops a run whose device is *)
(* too small for the gap (zero_out_file reports EXIT_OK for a short        *)
(* write), and the process is otherwise only killed by a bad free.         *)
AbortsOnlyWhenFull ==
    (pc = "aborted" /\ WellLaid(disc)) =>
        badFree \/ Addr(ft[index]) > cap

(* The cleanup ladder of ird.c:736-743 gives free() a pointer that is not  *)
(* a live block only in a run that reports one of the three errors of      *)
(* build_path: a missing, short or unreadable file and a full device never *)
(* lead to that.                                                           *)
BadFreeOnlyOnPathError ==
    badFree => ret \in {"PATH_BUFFER_ERROR", "RECORD_ECMA_ERROR", "ALLOC_ERROR"}

(* How the output of the rebuild looks to its user.                        *)
Outcome ==
    CASE pc = "assert" /\ ~Placed(ft[index])                  -> "doomed"
      [] pc = "aborted"                                       -> "killed"
      [] pc \in {"returned", "exited"} /\ ret = "EXIT_OK"     -> "ok"
      [] pc \in {"returned", "exited"} /\ ret # "EXIT_OK"     -> "failed"
      [] OTHER                                                -> "writing"

Kept == IF pc = "exited" THEN onDisk ELSE -1

Image == INSTANCE ImageContract WITH out <- iso, st <- Outcome, kept <- Kept

(* At every moment, also when it fails or is killed, the output is a       *)
(* beginning of the image that the disc, header.bin and footer.bin make;   *)
(* EXIT_OK comes only with the whole of it, and at most the stdio buffer   *)
(* of that is lost by the stream that is never closed.  Bytes of memory    *)
(* (the fwrite of a negative size) get into the output only if the files   *)
(* of the disc overlap or lie beyond the wrap, and then the process does   *)
(* not live to write another byte.                                         *)
KeepsImageContract == Image!Spec

(* The assert of ird.c:666, "cur_record->block_offset*block_size ==        *)
(* ftell(iso_file)", on a disc without overlaps and a device with room.    *)
AssertHolds ==
    (pc = "assert" /\ Addr(ft[index]) <= cap) => Placed(ft[index])
=============================================================================
