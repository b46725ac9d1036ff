------------------------- MODULE RebuildIso_proofs --------------------------
(***************************************************************************)
(* Proofs about RebuildIso, for every block size, word size, disc, file    *)
(* length and device: type correctness, the bound on what an unclosed      *)
(* stream can lose, the frees of the cleanup ladder, that a run which      *)
(* reports EXIT_OK has produced the image of the disc as far as header.bin *)
(* and footer.bin deliver it, and that rebuild_iso implements its contract *)
(***************************************************************************)
EXTENDS RebuildIso, TLAPS

-----------------------------------------------------------------------------
(* Arithmetic and the table.                                               *)

(* A residue that is not below t, of a number less than one modulus above  *)
(* t, is the number itself: nothing wrapped.                               *)
LEMMA NoWrap ==
    ASSUME NEW a \in Nat, NEW t \in Nat, NEW m \in Nat \ {0},
           a % m >= t, a - t < m
    PROVE  a % m = a
<1>. DEFINE q == a \div m
<1>1. a = q * m + (a % m) /\ q \in Nat /\ (a % m) \in Nat
  OBVIOUS
<1>2. q * m < m
  BY <1>1
<1>3. q = 0
  BY <1>1, <1>2
<1>. QED BY <1>1, <1>3

(* What qsort leaves is a table of the records of the disc.                *)
LEMMA SortedIsTable ==
    ASSUME NEW recs \in Seq(Record), NEW t \in SortedTables(recs)
    PROVE  t \in Seq(Record) /\ DOMAIN t = DOMAIN recs /\ Len(t) = Len(recs)
<1>1. PICK p \in Bijection(DOMAIN recs, DOMAIN recs) :
         t = [i \in DOMAIN recs |-> recs[p[i]]]
  BY DEF SortedTables
<1>2. p \in [DOMAIN recs -> DOMAIN recs]
  BY DEF Bijection, Injection
<1>3. DOMAIN recs = 1 .. Len(recs) /\ Len(recs) \in Nat
  OBVIOUS
<1>4. t \in [1 .. Len(recs) -> Record]
  <2>. SUFFICES ASSUME NEW i \in 1 .. Len(recs)
                PROVE  recs[p[i]] \in Record
    BY <1>1, <1>3
  <2>. QED BY <1>2, <1>3
<1>. QED BY <1>3, <1>4

-----------------------------------------------------------------------------
(* What one call that adds bytes to the stream does.                       *)

LEMMA EmitCells ==
    ASSUME pos \in Nat, iso \in [0 .. (pos - 1) -> Cell],
           NEW src \in {"header", "body", "zero", "junk", "footer"},
           NEW name \in Nat, NEW from \in Nat, NEW n \in Nat,
           Emit(src, name, from, n)
    PROVE  /\ pos' = pos + n /\ pos' \in Nat
           /\ iso' \in [0 .. (pos' - 1) -> Cell]
           /\ \A a \in 0 .. (pos - 1) : iso'[a] = iso[a]
           /\ \A a \in pos .. (pos' - 1) : iso'[a] = <<src, name, from + (a - pos)>>
<1>1. pos' = pos + n /\ pos' \in Nat
  BY DEF Emit
<1>2. iso' = [a \in 0 .. (pos' - 1) |->
                 IF a < pos THEN iso[a] ELSE <<src, name, from + (a - pos)>>]
  BY <1>1 DEF Emit
<1>3. ASSUME NEW a \in 0 .. (pos' - 1)
      PROVE  (IF a < pos THEN iso[a] ELSE <<src, name, from + (a - pos)>>) \in Cell
  <2>1. CASE a < pos
    <3>1. a \in 0 .. (pos - 1)
      BY <2>1
    <3>. QED BY <2>1, <3>1
  <2>2. CASE ~(a < pos)
    <3>1. from + (a - pos) \in Nat
      BY <2>2
    <3>. QED BY <2>2, <3>1 DEF Cell
  <2>. QED BY <2>1, <2>2
<1>4. iso' \in [0 .. (pos' - 1) -> Cell]
  BY <1>2, <1>3
<1>5. \A a \in 0 .. (pos - 1) : iso'[a] = iso[a]
  BY <1>1, <1>2
<1>6. \A a \in pos .. (pos' - 1) : iso'[a] = <<src, name, from + (a - pos)>>
  BY <1>1, <1>2
<1>. QED BY <1>1, <1>4, <1>5, <1>6

(* The length of the bytes copied from a file.                             *)
LEMMA GotType ==
    ASSUME NEW r \in Record, NEW n \in Nat
    PROVE  Got(r, n) \in Nat /\ Got(r, n) <= r.len
BY DEF Got, Min2, Record

LEMMA AddrType ==
    ASSUME NEW r \in Record
    PROVE  Addr(r) \in Nat /\ End(r) \in Nat /\ Place(r) \in Nat /\ r.len \in Nat
           /\ r.off \in Nat /\ r.name \in Nat
<1>1. Addr(r) \in Nat /\ r.len \in Nat /\ r.off \in Nat /\ r.name \in Nat
  BY SizesAssumption DEF Addr, Record
<1>2. Addr(r) % UMod \in Nat
  BY <1>1, SizesAssumption
<1>. QED BY <1>1, <1>2 DEF End, Place

(* The parts of the state that the exits of the loop change.               *)
LEMMA ExitType ==
    ASSUME NEW rel \in Pointers, NEW full \in Pointers, NEW e \in Errors,
           badFree \in BOOLEAN,
           ExitRel(rel, full, e) \/ ExitFull(rel, full, e)
    PROVE  /\ heap' \in [rel: Pointers, full: Pointers]
           /\ badFree' \in BOOLEAN
           /\ ret' = e
           /\ pc' \in {"returned", "aborted"}
<1>1. FreeOne(rel) \in Pointers /\ FreeOne(full) \in Pointers
  BY DEF FreeOne, Pointers
<1>2. BadPointer(rel) \in BOOLEAN /\ BadPointer(full) \in BOOLEAN
  BY DEF BadPointer
<1>. QED BY <1>1, <1>2 DEF ExitRel, ExitFull

-----------------------------------------------------------------------------
(* Type correctness.                                                       *)

LEMMA TypeInit == Init => TypeOK
<1>. SUFFICES ASSUME Init PROVE TypeOK
  OBVIOUS
<1>1. iso \in [0 .. (pos - 1) -> Cell]
  <2>1. 0 .. (pos - 1) = {}
    BY DEF Init
  <2>. QED BY <2>1 DEF Init
<1>2. ft \in Seq(Record)
  BY DEF Init
<1>3. heap \in [rel: Pointers, full: Pointers]
  BY DEF Init, Pointers
<1>4. pc \in Labels /\ pc \notin {"assert", "path", "copy"}
  BY DEF Init, Labels
<1>5. badFree \in BOOLEAN /\ ret \in Errors \cup {"EXIT_OK"}
  BY DEF Init
<1>6. index \in Nat \ {0} /\ pos \in Nat /\ onDisk \in Nat
  BY DEF Init
<1>7. /\ disc \in Discs /\ cap \in Caps
      /\ bins \in [hdr: 0 .. disc.hdr, ftr: 0 .. disc.ftr]
  BY DEF Init
<1>. QED BY <1>1, <1>2, <1>3, <1>4, <1>5, <1>6, <1>7 DEF TypeOK

(* What header.bin and footer.bin deliver is a beginning of them.          *)
LEMMA BinsType ==
    ASSUME TypeOK
    PROVE  /\ bins.hdr \in Nat /\ bins.ftr \in Nat
           /\ disc.hdr \in Nat /\ disc.ftr \in Nat
           /\ bins.hdr <= disc.hdr /\ bins.ftr <= disc.ftr
<1>1. disc.hdr \in Nat /\ disc.ftr \in Nat
  BY DiscsAssumption DEF TypeOK
<1>. QED BY <1>1 DEF TypeOK

LEMMA TypeStep == TypeOK /\ [Next]_vars => TypeOK'
<1>. SUFFICES ASSUME TypeOK, [Next]_vars PROVE TypeOK'
  OBVIOUS
<1>. USE DEF TypeOK
<1>0. bins.hdr \in Nat /\ bins.ftr \in Nat /\ disc.recs \in Seq(Record)
  BY BinsType, DiscsAssumption
<1>1. CASE SortFiles
  <2>1. ft' \in Seq(Record)
    BY <1>0, <1>1, SortedIsTable DEF SortFiles
  <2>. QED BY <1>1, <2>1 DEF SortFiles, Labels
<1>2. CASE OpenIso
  BY <1>2 DEF OpenIso, Return, Labels, Errors
<1>3. CASE WriteHeader
  <2>1. CASE Accepts(bins.hdr) /\ Emit("header", 0, 0, bins.hdr)
             /\ pc' = "place" /\ UNCHANGED ret
    BY <1>0, <1>3, <2>1, EmitCells DEF WriteHeader, Labels
  <2>2. CASE \E m \in 0 .. bins.hdr : /\ Short(bins.hdr, m)
                                      /\ Emit("header", 0, 0, m)
                                      /\ Return("F_WRITE_ERROR")
    BY <1>0, <1>3, <2>2, EmitCells DEF WriteHeader, Return, Labels, Errors
  <2>3. CASE Return("ALLOC_ERROR") /\ UNCHANGED <<iso, pos>>
    BY <1>3, <2>3 DEF WriteHeader, Return, Labels, Errors
  <2>. QED BY <1>3, <2>1, <2>2, <2>3 DEF WriteHeader
<1>4. CASE ZeroGap
  <2>0. Gap \in Nat
    BY <1>4, AddrType DEF ZeroGap, Gap, InTable
  <2>1. CASE Accepts(Gap) /\ Emit("zero", 0, 0, Gap)
             /\ pc' = "assert" /\ UNCHANGED ret
    BY <1>4, <2>0, <2>1, EmitCells DEF ZeroGap, InTable, Labels
  <2>2. CASE \E m \in 0 .. Gap : /\ Short(Gap, m)
                                 /\ Emit("zero", 0, 0, m)
                                 /\ pc' = "assert" /\ UNCHANGED ret
    BY <1>4, <2>0, <2>2, EmitCells DEF ZeroGap, InTable, Labels
  <2>3. CASE Return("ALLOC_ERROR") /\ UNCHANGED <<iso, pos>>
    BY <1>4, <2>3 DEF ZeroGap, Return, Labels, Errors
  <2>. QED BY <1>4, <2>1, <2>2, <2>3 DEF ZeroGap
<1>5. CASE ZeroNegativeGap
  <2>1. CASE \E m \in 0 .. JunkMax : /\ Accepts(m)
                                     /\ Emit("junk", 0, 0, m)
                                     /\ pc' = "assert" /\ UNCHANGED ret
    BY <1>5, <2>1, EmitCells, SizesAssumption
       DEF ZeroNegativeGap, InTable, Labels
  <2>2. CASE pc' = "aborted" /\ UNCHANGED <<ret, iso, pos>>
    BY <1>5, <2>2 DEF ZeroNegativeGap, Labels
  <2>3. CASE Return("ALLOC_ERROR") /\ UNCHANGED <<iso, pos>>
    BY <1>5, <2>3 DEF ZeroNegativeGap, Return, Labels, Errors
  <2>. QED BY <1>5, <2>1, <2>2, <2>3 DEF ZeroNegativeGap
<1>6. CASE AssertPlaced
  BY <1>6 DEF AssertPlaced, Labels
<1>7. CASE BuildPaths
  <2>. USE DEF Pointers, Errors, Labels
  <2>0. heap.full \in Pointers /\ heap.rel \in Pointers
    OBVIOUS
  <2>1. CASE /\ heap' = [heap EXCEPT !.rel = "null"]
             /\ Return("ALLOC_ERROR") /\ UNCHANGED badFree
    BY <1>7, <2>1 DEF BuildPaths, Return
  <2>2. CASE \E e \in {"PATH_BUFFER_ERROR", "RECORD_ECMA_ERROR", "ALLOC_ERROR"} :
                ExitRel("live", heap.full, e)
    <3>1. PICK e \in Errors : ExitRel("live", heap.full, e)
      BY <2>2
    <3>. QED BY <1>7, <2>0, <3>1, ExitType DEF BuildPaths
  <2>3. CASE ExitRel("live", "null", "ALLOC_ERROR")
    BY <1>7, <2>3, ExitType DEF BuildPaths
  <2>4. CASE \E e \in {"ENCODING_ERROR", "PATH_BUFFER_ERROR", "F_OPEN_ERROR"} :
                ExitFull("live", "live", e)
    <3>1. PICK e \in Errors : ExitFull("live", "live", e)
      BY <2>4
    <3>. QED BY <1>7, <3>1, ExitType DEF BuildPaths
  <2>5. CASE /\ heap' = [rel |-> "live", full |-> "live"]
             /\ pc' = "copy" /\ UNCHANGED <<ret, badFree>>
    BY <1>7, <2>5 DEF BuildPaths
  <2>. QED BY <1>7, <2>1, <2>2, <2>3, <2>4, <2>5 DEF BuildPaths
<1>8. CASE CopyBody
  <2>. DEFINE r == ft[index]
  <2>0. /\ r \in Record /\ r.off \in Nat /\ r.name \in Nat /\ r.len \in Nat
        /\ heap.rel \in Pointers /\ heap.full \in Pointers
        /\ "F_SIZE_ERROR" \in Errors /\ "F_WRITE_ERROR" \in Errors
        /\ {"F_SEEK_ERROR", "ALLOC_ERROR"} \subseteq Errors
    <3>1. r \in Record
      BY <1>8 DEF CopyBody
    <3>2. r.off \in Nat /\ r.name \in Nat /\ r.len \in Nat
      BY <3>1, AddrType
    <3>. QED BY <3>1, <3>2 DEF Errors
  <2>1. CASE \E n \in FileLens :
                /\ Got(r, n) = r.len /\ Accepts(r.len)
                /\ Emit("body", r.name, r.off, r.len)
                /\ heap' = [rel |-> "dangling", full |-> "dangling"]
                /\ index' = index + 1
                /\ pc' = "place" /\ UNCHANGED <<ret, badFree>>
    BY <1>8, <2>0, <2>1, EmitCells DEF CopyBody, Labels, Pointers
  <2>2. CASE \E n \in FileLens :
                /\ Got(r, n) # r.len /\ Accepts(Got(r, n))
                /\ Emit("body", r.name, r.off, Got(r, n))
                /\ ExitRel(heap.rel, heap.full, "F_SIZE_ERROR")
                /\ UNCHANGED index
    <3>1. PICK n \in Nat : Emit("body", r.name, r.off, Got(r, n))
      BY <2>2, SizesAssumption
    <3>2. pos' \in Nat /\ iso' \in [0 .. (pos' - 1) -> Cell]
      BY <2>0, <3>1, GotType, EmitCells
    <3>3. /\ heap' \in [rel: Pointers, full: Pointers]
          /\ badFree' \in BOOLEAN /\ ret' = "F_SIZE_ERROR"
          /\ pc' \in {"returned", "aborted"}
      BY <2>0, <2>2, ExitType
    <3>. QED BY <1>8, <2>0, <2>2, <3>2, <3>3 DEF CopyBody, Labels
  <2>3. CASE \E n \in FileLens : \E m \in 0 .. Got(r, n) :
                /\ Short(Got(r, n), m)
                /\ Emit("body", r.name, r.off, m)
                /\ ExitRel(heap.rel, heap.full, "F_WRITE_ERROR")
                /\ UNCHANGED index
    <3>1. PICK n \in Nat : \E m \in 0 .. Got(r, n) : Emit("body", r.name, r.off, m)
      BY <2>3, SizesAssumption
    <3>0. PICK m \in 0 .. Got(r, n) : Emit("body", r.name, r.off, m)
      BY <3>1
    <3>. HIDE DEF r
    <3>4. m \in Nat
      BY <2>0, GotType
    <3>2. pos' \in Nat /\ iso' \in [0 .. (pos' - 1) -> Cell]
      BY <2>0, <3>0, <3>4, EmitCells
    <3>3. /\ heap' \in [rel: Pointers, full: Pointers]
          /\ badFree' \in BOOLEAN /\ ret' = "F_WRITE_ERROR"
          /\ pc' \in {"returned", "aborted"}
      BY <2>0, <2>3, ExitType
    <3>. QED BY <1>8, <2>0, <2>3, <3>2, <3>3 DEF CopyBody, Labels
  <2>4. CASE \E e \in {"F_SEEK_ERROR", "ALLOC_ERROR"} :
                /\ ExitRel(heap.rel, heap.full, e)
                /\ UNCHANGED <<iso, pos, index>>
    <3>1. PICK e \in Errors : ExitRel(heap.rel, heap.full, e)
      BY <2>0, <2>4
    <3>. QED BY <1>8, <2>0, <2>4, <3>1, ExitType DEF CopyBody, Labels
  <2>. QED BY <1>8, <2>1, <2>2, <2>3, <2>4 DEF CopyBody
<1>9. CASE WriteFooter
  <2>. USE DEF Return, Labels, Errors
  <2>1. CASE Accepts(bins.ftr) /\ Emit("footer", 0, 0, bins.ftr) /\ Return("EXIT_OK")
    BY <1>0, <1>9, <2>1, EmitCells DEF WriteFooter
  <2>2. CASE \E m \in 0 .. bins.ftr : /\ Short(bins.ftr, m)
                                      /\ Emit("footer", 0, 0, m)
                                      /\ Return("F_WRITE_ERROR")
    BY <1>0, <1>9, <2>2, EmitCells DEF WriteFooter
  <2>3. CASE \E e \in {"F_SEEK_ERROR", "ALLOC_ERROR"} :
                Return(e) /\ UNCHANGED <<iso, pos>>
    BY <1>9, <2>3 DEF WriteFooter
  <2>. QED BY <1>9, <2>1, <2>2, <2>3 DEF WriteFooter
<1>10. CASE ProcessExit
  BY <1>10, SizesAssumption DEF ProcessExit, Min2, Labels
<1>11. CASE Terminated
  BY <1>11 DEF Terminated, vars
<1>12. CASE UNCHANGED vars
  BY <1>12 DEF vars
<1>. QED BY <1>1, <1>2, <1>3, <1>4, <1>5, <1>6, <1>7, <1>8, <1>9, <1>10,
            <1>11, <1>12 DEF Next

(* Every variable keeps its type, and a body is only written for an index  *)
(* of the file table.                                                      *)
THEOREM TypeCorrect == Spec => []TypeOK
<1>. QED BY TypeInit, TypeStep, PTL DEF Spec

-----------------------------------------------------------------------------
(* What holds at each label besides the types: the loop counter, the state *)
(* of the two path buffers, and the room the accepted bytes had.           *)
Control ==
    /\ index \in 1 .. (Len(ft) + 1)
    /\ pc \in {"sort", "open", "header"} => index = 1 /\ pos = 0
    /\ pc \notin {"returned", "aborted", "exited"} => ~badFree /\ ret = "EXIT_OK"
    /\ pc = "copy" => heap = [rel |-> "live", full |-> "live"]
    /\ BadFreeOnlyOnPathError
    /\ pos <= cap + StdioBuf
    /\ pc = "exited" => onDisk = Min2(pos, cap)

LEMMA ControlInit == TypeOK /\ Init => Control
BY SizesAssumption DEF TypeOK, Init, Control, BadFreeOnlyOnPathError

(* A call that adds bytes adds no more than the device and buffer accept.  *)
LEMMA EmitRoom ==
    ASSUME NEW src, NEW name, NEW from, NEW n,
           Emit(src, name, from, n), Accepts(n)
    PROVE  pos' <= cap + StdioBuf
BY DEF Emit, Accepts

LEMMA ControlStep == TypeOK /\ Control /\ [Next]_vars => Control'
<1>. SUFFICES ASSUME TypeOK, Control, [Next]_vars PROVE Control'
  OBVIOUS
<1>. USE DEF Control, BadFreeOnlyOnPathError
<1>0. /\ index \in Nat /\ pos \in Nat /\ cap \in Nat /\ ft \in Seq(Record)
      /\ DOMAIN ft = 1 .. Len(ft) /\ Len(ft) \in Nat /\ disc.recs \in Seq(Record)
      /\ bins.hdr \in Nat /\ bins.ftr \in Nat /\ StdioBuf \in Nat
  BY SizesAssumption, DiscsAssumption, BinsType DEF TypeOK
<1>1. CASE SortFiles
  <2>1. Len(ft') \in Nat
    BY <1>0, <1>1, SortedIsTable DEF SortFiles
  <2>. QED BY <1>0, <1>1, <2>1 DEF SortFiles
<1>2. CASE OpenIso
  BY <1>0, <1>2 DEF OpenIso, Return
<1>3. CASE WriteHeader
  <2>1. pos' <= cap' + StdioBuf
    BY <1>0, <1>3, EmitRoom DEF WriteHeader, Short
  <2>. QED BY <1>0, <1>3, <2>1 DEF WriteHeader, Return
<1>4. CASE ZeroGap
  <2>1. pos' <= cap' + StdioBuf
    BY <1>0, <1>4, EmitRoom DEF ZeroGap, Short
  <2>. QED BY <1>0, <1>4, <2>1 DEF ZeroGap, Return
<1>5. CASE ZeroNegativeGap
  <2>1. pos' <= cap' + StdioBuf
    BY <1>0, <1>5, EmitRoom DEF ZeroNegativeGap
  <2>2. pc' \in {"assert", "aborted", "returned"} /\ pc = "place"
    BY <1>5 DEF ZeroNegativeGap, Return
  <2>3. pc' = "assert" => ret' = ret
    BY <1>5 DEF ZeroNegativeGap, Return
  <2>4. UNCHANGED <<cap, ft, index, badFree>>
    BY <1>5 DEF ZeroNegativeGap
  <2>5. ~badFree' /\ BadFreeOnlyOnPathError'
    BY <2>2, <2>4
  <2>. QED BY <2>1, <2>2, <2>3, <2>4, <2>5
<1>6. CASE AssertPlaced
  BY <1>0, <1>6 DEF AssertPlaced
<1>7. CASE BuildPaths
  <2>1. /\ pc = "path" /\ ~badFree
        /\ UNCHANGED <<cap, ft, index, pos>>
    BY <1>7 DEF BuildPaths
  <2>2. /\ pc' \in {"copy", "returned", "aborted"}
        /\ pc' = "copy" => /\ heap' = [rel |-> "live", full |-> "live"]
                           /\ ret' = ret /\ badFree' = badFree
    BY <1>7 DEF BuildPaths, ExitRel, ExitFull, Return
  <2>3. BadFreeOnlyOnPathError'
    <3>1. CASE \E e \in {"PATH_BUFFER_ERROR", "RECORD_ECMA_ERROR", "ALLOC_ERROR"} :
                  ExitRel("live", heap.full, e)
      BY <3>1 DEF ExitRel
    <3>2. CASE \/ ExitRel("live", "null", "ALLOC_ERROR")
               \/ \E e \in {"ENCODING_ERROR", "PATH_BUFFER_ERROR", "F_OPEN_ERROR"} :
                    ExitFull("live", "live", e)
      BY <2>1, <3>2 DEF ExitRel, ExitFull, BadPointer
    <3>3. CASE UNCHANGED badFree
      BY <2>1, <3>3
    <3>. QED BY <1>7, <3>1, <3>2, <3>3 DEF BuildPaths
  <2>. QED BY <2>1, <2>2, <2>3
<1>8. CASE CopyBody
  <2>. DEFINE r == ft[index]
  <2>1. heap.rel = "live" /\ heap.full = "live" /\ ~badFree
    BY <1>8 DEF CopyBody
  <2>2. pos' <= cap' + StdioBuf
    BY <1>0, <1>8, EmitRoom DEF CopyBody, Short
  <2>3. index' \in 1 .. (Len(ft') + 1)
    BY <1>0, <1>8 DEF CopyBody, TypeOK
  <2>4. ~badFree'
    BY <1>8, <2>1 DEF CopyBody, ExitRel, BadPointer
  <2>5. (pc' = "place" /\ ret' = ret) \/ pc' = "returned"
    BY <1>8, <2>1 DEF CopyBody, ExitRel, BadPointer
  <2>. QED BY <1>0, <1>8, <2>2, <2>3, <2>4, <2>5 DEF CopyBody
<1>9. CASE WriteFooter
  <2>1. pos' <= cap' + StdioBuf
    BY <1>0, <1>9, EmitRoom DEF WriteFooter, Short
  <2>. QED BY <1>0, <1>9, <2>1 DEF WriteFooter, Return
<1>10. CASE ProcessExit
  BY <1>0, <1>10 DEF ProcessExit, Min2
<1>11. CASE Terminated
  BY <1>11 DEF Terminated, vars
<1>12. CASE UNCHANGED vars
  BY <1>12 DEF vars
<1>. QED BY <1>1, <1>2, <1>3, <1>4, <1>5, <1>6, <1>7, <1>8, <1>9, <1>10,
            <1>11, <1>12 DEF Next

LEMMA ControlCorrect == Spec => [](TypeOK /\ Control)
<1>. QED BY TypeInit, TypeStep, ControlInit, ControlStep, PTL DEF Spec

(* The cleanup ladder frees a pointer that is not a live block only after  *)
(* build_path or an allocation failed, whatever the files and the device.  *)
THEOREM BadFreeCorrect == Spec => []BadFreeOnlyOnPathError
<1>1. Control => BadFreeOnlyOnPathError
  BY DEF Control
<1>. QED BY <1>1, ControlCorrect, PTL

(* When the process ends having reported EXIT_OK, at most the content of   *)
(* the stdio buffer is missing from the file: the stream is never closed,  *)
(* so a failed last flush is not seen, but no earlier failure is missed.   *)
LostTailIsBuffered ==
    (pc = "exited" /\ ret = "EXIT_OK") => pos - onDisk <= StdioBuf

LEMMA LostTail == TypeOK /\ Control => LostTailIsBuffered
BY SizesAssumption DEF TypeOK, Control, LostTailIsBuffered, Min2

-----------------------------------------------------------------------------
(* The image.  HeaderIn, BodiesIn and ZerosIn say what the bytes written   *)
(* so far are, for the files already copied; Placement says where the      *)
(* stream stands at each label, which needs the gaps to be small: only     *)
(* then does a product equal to ftell() mean that it did not wrap.         *)
HeaderIn ==
    /\ bins.hdr <= pos
    /\ \A a \in 0 .. (bins.hdr - 1) : iso[a] = <<"header", 0, a>>

BodyIn(k) ==
    /\ End(ft[k]) <= pos
    /\ \A a \in 0 .. (pos - 1) :
          InBody(ft[k], a) =>
             iso[a] = <<"body", ft[k].name, ft[k].off + (a - Addr(ft[k]))>>

BodiesIn == \A k \in 1 .. (index - 1) : BodyIn(k)

Covered(a) == \E k \in 1 .. (index - 1) : InBody(ft[k], a)

ZerosIn == \A a \in bins.hdr .. (pos - 1) : Covered(a) \/ iso[a][1] = "zero"

Img == HeaderIn /\ BodiesIn /\ ZerosIn

Placement ==
    /\ pc = "place" => pos = TailBefore(index) /\ Img
    /\ pc = "assert" /\ Placed(ft[index]) => pos = Addr(ft[index]) /\ Img
    /\ pc \in {"path", "copy"} => pos = Addr(ft[index]) /\ Img
    /\ pc \in {"returned", "exited"} /\ ret = "EXIT_OK" => ImageOfBins

ImageInv == SmallGaps => Placement

(* The context every step of the argument works in.                        *)
LEMMA Context ==
    ASSUME TypeOK, Control
    PROVE  /\ pos \in Nat /\ index \in Nat \ {0} /\ index \in 1 .. (Len(ft) + 1)
           /\ ft \in Seq(Record) /\ Len(ft) \in Nat /\ DOMAIN ft = 1 .. Len(ft)
           /\ bins.hdr \in Nat /\ bins.ftr \in Nat
           /\ disc.hdr \in Nat /\ bins.hdr <= disc.hdr
           /\ iso \in [0 .. (pos - 1) -> Cell]
           /\ \A k \in 1 .. Len(ft) :
                 /\ ft[k] \in Record
                 /\ Addr(ft[k]) \in Nat /\ End(ft[k]) \in Nat
                 /\ Place(ft[k]) \in Nat /\ ft[k].len \in Nat
                 /\ End(ft[k]) = Addr(ft[k]) + ft[k].len
<1>1. \A k \in 1 .. Len(ft) : ft[k] \in Record
  BY DEF TypeOK
<1>2. \A k \in 1 .. Len(ft) : End(ft[k]) = Addr(ft[k]) + ft[k].len
  BY DEF End
<1>. QED BY <1>1, <1>2, AddrType, BinsType DEF TypeOK, Control

(* Adding bytes leaves what was written, and the files written, in place.  *)
LEMMA ImgKept ==
    ASSUME TypeOK, Control, HeaderIn, BodiesIn, UNCHANGED <<disc, bins, ft>>,
           NEW src \in {"header", "body", "zero", "junk", "footer"},
           NEW name \in Nat, NEW from \in Nat, NEW n \in Nat,
           Emit(src, name, from, n)
    PROVE  HeaderIn' /\ \A k \in 1 .. (index - 1) : BodyIn(k)'
<1>p. pos \in Nat /\ iso \in [0 .. (pos - 1) -> Cell]
  BY DEF TypeOK
<1>0. /\ pos' = pos + n /\ pos' \in Nat
      /\ \A a \in 0 .. (pos - 1) : iso'[a] = iso[a]
  BY <1>p, EmitCells
<1>. USE Context
<1>1. HeaderIn'
  <2>1. bins'.hdr <= pos'
    BY <1>0 DEF HeaderIn
  <2>2. ASSUME NEW a \in 0 .. (bins'.hdr - 1) PROVE iso'[a] = <<"header", 0, a>>
    <3>1. a \in 0 .. (pos - 1)
      BY DEF HeaderIn
    <3>. QED BY <1>0, <3>1 DEF HeaderIn
  <2>. QED BY <2>1, <2>2 DEF HeaderIn
<1>2. ASSUME NEW k \in 1 .. (index - 1) PROVE BodyIn(k)'
  <2>0. k \in 1 .. Len(ft) /\ BodyIn(k) /\ ft'[k] = ft[k]
    BY DEF BodiesIn
  <2>1. End(ft'[k]) <= pos'
    BY <1>0, <2>0 DEF BodyIn
  <2>2. ASSUME NEW a \in 0 .. (pos' - 1), InBody(ft'[k], a)
        PROVE  iso'[a] = <<"body", ft'[k].name, ft'[k].off + (a - Addr(ft'[k]))>>
    <3>1. a < End(ft[k]) /\ End(ft[k]) <= pos
      BY <2>0, <2>2 DEF InBody, BodyIn
    <3>2. a \in 0 .. (pos - 1)
      BY <2>0, <3>1
    <3>. QED BY <1>0, <2>0, <2>2, <3>2 DEF BodyIn
  <2>. QED BY <2>1, <2>2 DEF BodyIn
<1>. QED BY <1>1, <1>2

(* Zeroing a gap keeps the image correct.                                  *)
LEMMA ImgZero ==
    ASSUME TypeOK, Control, Img, UNCHANGED <<disc, bins, ft, index>>,
           NEW n \in Nat, Emit("zero", 0, 0, n)
    PROVE  Img'
<1>p. pos \in Nat /\ iso \in [0 .. (pos - 1) -> Cell]
  BY DEF TypeOK
<1>0. /\ pos' = pos + n /\ pos' \in Nat
      /\ \A a \in 0 .. (pos - 1) : iso'[a] = iso[a]
      /\ \A a \in pos .. (pos' - 1) : iso'[a] = <<"zero", 0, 0 + (a - pos)>>
  <2>1. "zero" \in {"header", "body", "zero", "junk", "footer"} /\ 0 \in Nat
    OBVIOUS
  <2>. QED BY <1>p, <2>1, EmitCells, Zenon
<1>. USE Context
<1>1. HeaderIn' /\ \A k \in 1 .. (index - 1) : BodyIn(k)'
  BY ImgKept DEF Img
<1>2. BodiesIn'
  BY <1>1 DEF BodiesIn
<1>3. ZerosIn'
  <2>. SUFFICES ASSUME NEW a \in bins.hdr .. (pos' - 1)
                PROVE  Covered(a)' \/ iso'[a][1] = "zero"
    BY DEF ZerosIn
  <2>1. CASE a < pos
    <3>1. a \in bins.hdr .. (pos - 1) /\ a \in 0 .. (pos - 1)
      BY <2>1
    <3>2. Covered(a) => Covered(a)'
      BY DEF Covered
    <3>. QED BY <1>0, <3>1, <3>2 DEF Img, ZerosIn
  <2>2. CASE a >= pos
    <3>1. a \in pos .. (pos' - 1)
      BY <1>0, <2>2
    <3>. QED BY <1>0, <3>1
  <2>. QED BY <1>0, <2>1, <2>2
<1>. QED BY <1>1, <1>2, <1>3 DEF Img

LEMMA BodyCells ==
    ASSUME pos \in Nat, iso \in [0 .. (pos - 1) -> Cell], NEW r \in Record,
           Emit("body", r.name, r.off, r.len)
    PROVE  /\ pos' = pos + r.len /\ pos' \in Nat
           /\ \A a \in 0 .. (pos - 1) : iso'[a] = iso[a]
           /\ \A a \in pos .. (pos' - 1) : iso'[a] = <<"body", r.name, r.off + (a - pos)>>
<1>1. r.name \in Nat /\ r.off \in Nat /\ r.len \in Nat
  BY AddrType
<1>. QED BY <1>1, EmitCells

(* Copying a whole file at its address makes it one of the bodies.         *)
LEMMA ImgBody ==
    ASSUME TypeOK, Control, Img, UNCHANGED <<disc, bins, ft>>,
           index \in DOMAIN ft, index' = index + 1, pos = Addr(ft[index]),
           Emit("body", ft[index].name, ft[index].off, ft[index].len)
    PROVE  Img' /\ pos' = End(ft[index])
<1>. USE Context
<1>. DEFINE r == ft[index]
<1>r. r \in Record /\ r.name \in Nat /\ r.off \in Nat /\ r.len \in Nat
      /\ Addr(r) \in Nat /\ End(r) = Addr(r) + r.len
  BY AddrType
<1>e. Emit("body", r.name, r.off, r.len)
  OBVIOUS
<1>p. pos \in Nat /\ iso \in [0 .. (pos - 1) -> Cell]
  OBVIOUS
<1>. HIDE DEF r
<1>0. /\ pos' = pos + r.len /\ pos' \in Nat
      /\ \A a \in 0 .. (pos - 1) : iso'[a] = iso[a]
      /\ \A a \in pos .. (pos' - 1) : iso'[a] = <<"body", r.name, r.off + (a - pos)>>
  BY <1>r, <1>e, <1>p, BodyCells
<1>1. HeaderIn' /\ \A k \in 1 .. (index - 1) : BodyIn(k)'
  BY <1>r, <1>e, ImgKept DEF Img
<1>2. pos' = End(r) /\ pos = Addr(r)
  BY <1>r, <1>0 DEF r
<1>3. ASSUME NEW k \in Nat, k = index PROVE BodyIn(k)'
  <2>1. ft'[k] = r
    BY <1>3 DEF r
  <2>2. ASSUME NEW a \in 0 .. (pos' - 1), InBody(r, a)
        PROVE  iso'[a] = <<"body", r.name, r.off + (a - Addr(r))>>
    <3>1. a \in pos .. (pos' - 1)
      BY <1>2, <2>2 DEF InBody
    <3>. QED BY <1>0, <1>2, <3>1
  <2>3. End(r) <= pos'
    BY <1>2, <1>0
  <2>. QED BY <2>1, <2>2, <2>3 DEF BodyIn
<1>4. BodiesIn'
  <2>. SUFFICES ASSUME NEW k \in 1 .. (index' - 1) PROVE BodyIn(k)'
    BY DEF BodiesIn
  <2>1. CASE k = index
    BY <1>3, <2>1
  <2>2. CASE k # index
    <3>1. k \in 1 .. (index - 1)
      BY <2>2
    <3>. QED BY <1>1, <3>1
  <2>. QED BY <2>1, <2>2
<1>5. ZerosIn'
  <2>. SUFFICES ASSUME NEW a \in bins.hdr .. (pos' - 1)
                PROVE  Covered(a)' \/ iso'[a][1] = "zero"
    BY DEF ZerosIn
  <2>1. CASE a < pos
    <3>1. a \in bins.hdr .. (pos - 1) /\ a \in 0 .. (pos - 1)
      BY <2>1
    <3>2. ASSUME Covered(a) PROVE Covered(a)'
      <4>1. PICK k \in 1 .. (index - 1) : InBody(ft[k], a)
        BY <3>2 DEF Covered
      <4>2. k \in 1 .. (index' - 1) /\ InBody(ft'[k], a)
        BY <4>1
      <4>. QED BY <4>2 DEF Covered
    <3>. QED BY <1>0, <3>1, <3>2 DEF Img, ZerosIn
  <2>2. CASE a >= pos
    <3>1. InBody(r, a)
      BY <1>0, <1>2, <2>2 DEF InBody
    <3>2. index \in 1 .. (index' - 1) /\ ft'[index] = r
      BY DEF r
    <3>. QED BY <3>1, <3>2 DEF Covered
  <2>. QED BY <1>0, <2>1, <2>2
<1>. QED BY <1>1, <1>2, <1>4, <1>5 DEF Img, r

LEMMA FooterCells ==
    ASSUME pos \in Nat, iso \in [0 .. (pos - 1) -> Cell], NEW n \in Nat,
           Emit("footer", 0, 0, n)
    PROVE  /\ pos' = pos + n /\ pos' \in Nat
           /\ \A a \in 0 .. (pos - 1) : iso'[a] = iso[a]
           /\ \A a \in pos .. (pos' - 1) : iso'[a] = <<"footer", 0, a - pos>>
<1>1. /\ pos' = pos + n /\ pos' \in Nat
      /\ \A a \in 0 .. (pos - 1) : iso'[a] = iso[a]
      /\ \A a \in pos .. (pos' - 1) : iso'[a] = <<"footer", 0, 0 + (a - pos)>>
  BY EmitCells
<1>2. ASSUME NEW a \in pos .. (pos' - 1) PROVE 0 + (a - pos) = a - pos
  BY <1>1
<1>. QED BY <1>1, <1>2

(* With the footer behind the last file the image is complete.             *)
LEMMA ImgFooter ==
    ASSUME TypeOK, Control, Img, UNCHANGED <<disc, bins, ft, index>>,
           index = Len(ft) + 1, pos = TailBefore(index),
           Emit("footer", 0, 0, bins.ftr)
    PROVE  ImageOfBins'
<1>. USE Context
<1>p. pos \in Nat /\ iso \in [0 .. (pos - 1) -> Cell]
  OBVIOUS
<1>f. bins.ftr \in Nat
  OBVIOUS
<1>e. Emit("footer", 0, 0, bins.ftr)
  OBVIOUS
<1>0. /\ pos' = pos + bins.ftr /\ pos' \in Nat
      /\ \A a \in 0 .. (pos - 1) : iso'[a] = iso[a]
      /\ \A a \in pos .. (pos' - 1) : iso'[a] = <<"footer", 0, a - pos>>
  BY <1>p, <1>f, <1>e, FooterCells
<1>1. HeaderIn' /\ \A k \in 1 .. (index - 1) : BodyIn(k)'
  BY ImgKept DEF Img
<1>2. TailBefore(Len(ft) + 1)' = pos
  BY DEF TailBefore
<1>3. \A a \in 0 .. (bins'.hdr - 1) : iso'[a] = <<"header", 0, a>>
  BY <1>1 DEF HeaderIn
<1>4. ASSUME NEW k \in DOMAIN ft', NEW a \in 0 .. (pos' - 1), InBody(ft'[k], a)
      PROVE  iso'[a] = <<"body", ft'[k].name, ft'[k].off + (a - Addr(ft'[k]))>>
  <2>1. k \in 1 .. (index - 1)
    OBVIOUS
  <2>. QED BY <1>1, <1>4, <2>1 DEF BodyIn
<1>5. ASSUME NEW a \in bins'.hdr .. (pos - 1), \A k \in DOMAIN ft' : ~InBody(ft'[k], a)
      PROVE  iso'[a][1] = "zero"
  <2>1. a \in bins.hdr .. (pos - 1) /\ a \in 0 .. (pos - 1)
    OBVIOUS
  <2>2. ~Covered(a)
    <3>1. 1 .. (index - 1) = DOMAIN ft'
      OBVIOUS
    <3>. QED BY <1>5, <3>1 DEF Covered
  <2>. QED BY <1>0, <2>1, <2>2 DEF Img, ZerosIn
<1>. QED BY <1>0, <1>2, <1>3, <1>4, <1>5 DEF ImageOfBins

-----------------------------------------------------------------------------
(* A successful run has written the image of the disc.                     *)

LEMMA ImageInit == Init => ImageInv
BY DEF Init, ImageInv, Placement

(* Only the sort changes the table, and nothing the disc.                  *)
LEMMA DiscAndTable ==
    [Next]_vars => UNCHANGED <<disc, bins, cap>> /\ (~SortFiles => UNCHANGED ft)
BY DEF Next, SortFiles, OpenIso, WriteHeader, ZeroGap, ZeroNegativeGap,
       AssertPlaced, BuildPaths, CopyBody, WriteFooter, ProcessExit,
       Terminated, vars

(* The gap in front of the next file is narrower than the arithmetic.      *)
NextIsNear == pc = "place" /\ InTable => Addr(ft[index]) - pos < UMod

LEMMA PlacementStep ==
    TypeOK /\ Control /\ Placement /\ NextIsNear /\ [Next]_vars => Placement'
<1>. SUFFICES ASSUME TypeOK, Control, Placement, NextIsNear, [Next]_vars
              PROVE  Placement'
  OBVIOUS
<1>. USE Context
<1>1. CASE SortFiles
  BY <1>1 DEF SortFiles, Placement
<1>2. CASE OpenIso
  BY <1>2 DEF OpenIso, Return, Placement
<1>3. CASE WriteHeader
  <2>1. CASE Accepts(bins.hdr) /\ Emit("header", 0, 0, bins.hdr)
             /\ pc' = "place" /\ UNCHANGED ret
    <3>1. pos = 0 /\ index = 1 /\ UNCHANGED <<disc, bins, ft, index>>
      BY <1>3 DEF WriteHeader, Control
    <3>2. /\ pos' = bins.hdr
          /\ iso' = [a \in 0 .. (bins.hdr - 1) |-> <<"header", 0, a>>]
      BY <2>1, <3>1 DEF Emit
    <3>3. HeaderIn'
      BY <3>1, <3>2 DEF HeaderIn
    <3>4. BodiesIn' /\ ZerosIn'
      BY <3>1, <3>2 DEF BodiesIn, ZerosIn
    <3>5. TailBefore(index)' = bins.hdr
      BY <3>1 DEF TailBefore
    <3>. QED BY <2>1, <3>2, <3>3, <3>4, <3>5 DEF Placement, Img
  <2>2. CASE pc' = "returned" /\ ret' # "EXIT_OK"
    BY <2>2 DEF Placement
  <2>. QED BY <1>3, <2>1, <2>2 DEF WriteHeader, Return
<1>4. CASE ZeroGap
  <2>0. /\ UNCHANGED <<disc, bins, ft, index>> /\ index \in 1 .. Len(ft)
        /\ Addr(ft[index]) - pos < UMod /\ pos = TailBefore(index) /\ Img
        /\ Gap = Place(ft[index]) - pos /\ Gap \in Nat
    BY <1>4 DEF ZeroGap, InTable, Gap, Placement, NextIsNear
  <2>1. CASE Accepts(Gap) /\ Emit("zero", 0, 0, Gap)
             /\ pc' = "assert" /\ UNCHANGED ret
    <3>1. Img'
      BY <2>0, <2>1, ImgZero
    <3>2. pos' = Place(ft[index])
      BY <2>0, <2>1 DEF Emit
    <3>3. Addr(ft[index]) - pos < UMod /\ Place(ft[index]) >= pos
      BY <2>0
    <3>4. Place(ft[index]) = Addr(ft[index])
      BY <2>0, <3>3, NoWrap, SizesAssumption DEF Place
    <3>. QED BY <2>0, <2>1, <3>1, <3>2, <3>4 DEF Placement
  <2>2. CASE \E m \in 0 .. Gap : /\ Short(Gap, m)
                                 /\ Emit("zero", 0, 0, m)
                                 /\ pc' = "assert" /\ UNCHANGED ret
    <3>1. pos' < Place(ft[index])
      BY <2>0, <2>2 DEF Emit, Short
    <3>2. ~Placed(ft[index])'
      BY <2>0, <3>1 DEF Placed
    <3>. QED BY <2>0, <2>2, <3>2 DEF Placement
  <2>3. CASE pc' = "returned" /\ ret' # "EXIT_OK"
    BY <2>3 DEF Placement
  <2>. QED BY <1>4, <2>1, <2>2, <2>3 DEF ZeroGap, Return
<1>5. CASE ZeroNegativeGap
  <2>1. CASE \E m \in 0 .. JunkMax : /\ Accepts(m)
                                     /\ Emit("junk", 0, 0, m)
                                     /\ pc' = "assert" /\ UNCHANGED ret
    <3>0. UNCHANGED <<disc, bins, ft, index>> /\ index \in 1 .. Len(ft)
      BY <1>5 DEF ZeroNegativeGap, InTable
    <3>1. pos' > Place(ft[index])
      BY <1>5, <2>1, <3>0, SizesAssumption DEF ZeroNegativeGap, Gap, Emit
    <3>2. ~Placed(ft[index])'
      BY <3>0, <3>1 DEF Placed
    <3>. QED BY <2>1, <3>0, <3>2 DEF Placement
  <2>2. CASE pc' = "aborted" \/ (pc' = "returned" /\ ret' # "EXIT_OK")
    BY <2>2 DEF Placement
  <2>. QED BY <1>5, <2>1, <2>2 DEF ZeroNegativeGap, Return
<1>6. CASE AssertPlaced
  <2>1. UNCHANGED <<disc, bins, ft, index, iso, pos>>
    BY <1>6 DEF AssertPlaced
  <2>2. Img' = Img
    BY <2>1 DEF Img, HeaderIn, BodiesIn, BodyIn, ZerosIn, Covered
  <2>. QED BY <1>6, <2>1, <2>2 DEF AssertPlaced, Placement
<1>7. CASE BuildPaths
  <2>1. UNCHANGED <<disc, bins, ft, index, iso, pos>> /\ pc = "path"
    BY <1>7 DEF BuildPaths
  <2>2. Img' = Img
    BY <2>1 DEF Img, HeaderIn, BodiesIn, BodyIn, ZerosIn, Covered
  <2>3. pc' = "copy" \/ (pc' \in {"returned", "aborted"} /\ ret' # "EXIT_OK")
    BY <1>7 DEF BuildPaths, ExitRel, ExitFull, Return
  <2>. QED BY <2>1, <2>2, <2>3 DEF Placement
<1>8. CASE CopyBody
  <2>1. CASE /\ Emit("body", ft[index].name, ft[index].off, ft[index].len)
             /\ index' = index + 1 /\ pc' = "place"
    <3>1. UNCHANGED <<disc, bins, ft>> /\ index \in DOMAIN ft /\ pos = Addr(ft[index]) /\ Img
      BY <1>8 DEF CopyBody, TypeOK, Placement
    <3>2. Img' /\ pos' = End(ft[index])
      BY <2>1, <3>1, ImgBody
    <3>3. TailBefore(index)' = End(ft[index])
      BY <2>1, <3>1 DEF TailBefore
    <3>. QED BY <2>1, <3>2, <3>3 DEF Placement
  <2>2. CASE pc' \in {"returned", "aborted"} /\ ret' # "EXIT_OK"
    BY <2>2 DEF Placement
  <2>. QED BY <1>8, <2>1, <2>2 DEF CopyBody, ExitRel
<1>9. CASE WriteFooter
  <2>1. CASE Emit("footer", 0, 0, bins.ftr) /\ Return("EXIT_OK")
    <3>1. /\ UNCHANGED <<disc, bins, ft, index>> /\ index = Len(ft) + 1
          /\ pos = TailBefore(index) /\ Img
      BY <1>9 DEF WriteFooter, InTable, Placement
    <3>2. ImageOfBins'
      BY <2>1, <3>1, ImgFooter
    <3>. QED BY <2>1, <3>2 DEF Return, Placement
  <2>2. CASE pc' = "returned" /\ ret' # "EXIT_OK"
    BY <2>2 DEF Placement
  <2>. QED BY <1>9, <2>1, <2>2 DEF WriteFooter, Return
<1>10. CASE ProcessExit
  <2>1. UNCHANGED <<disc, bins, ft, iso, pos, ret>> /\ pc = "returned" /\ pc' = "exited"
    BY <1>10 DEF ProcessExit
  <2>2. ImageOfBins' = ImageOfBins
    BY <2>1 DEF ImageOfBins, TailBefore
  <2>. QED BY <2>1, <2>2 DEF Placement
<1>11. CASE UNCHANGED vars
  <2>1. UNCHANGED <<disc, bins, ft, index, iso, pos, pc, ret>>
    BY <1>11 DEF vars
  <2>2. Img' = Img /\ ImageOfBins' = ImageOfBins /\ TailBefore(index)' = TailBefore(index)
    BY <2>1 DEF Img, HeaderIn, BodiesIn, BodyIn, ZerosIn, Covered, ImageOfBins, TailBefore
  <2>. QED BY <2>1, <2>2 DEF Placement, Placed
<1>. QED BY <1>1, <1>2, <1>3, <1>4, <1>5, <1>6, <1>7, <1>8, <1>9, <1>10,
            <1>11 DEF Next, Terminated

LEMMA ImageStep == TypeOK /\ Control /\ ImageInv /\ [Next]_vars => ImageInv'
<1>. SUFFICES ASSUME TypeOK, Control, ImageInv, [Next]_vars, SmallGaps'
              PROVE  Placement'
  BY DEF ImageInv
<1>1. CASE SortFiles
  BY <1>1 DEF SortFiles, Placement
<1>2. CASE ~SortFiles
  <2>1. UNCHANGED <<disc, bins, ft>>
    BY <1>2, DiscAndTable
  <2>2. SmallGaps /\ Placement
    BY <2>1 DEF SmallGaps, TailBefore, ImageInv
  <2>3. NextIsNear
    BY <2>2 DEF NextIsNear, InTable, SmallGaps, Placement
  <2>. QED BY <2>2, <2>3, PlacementStep
<1>. QED BY <1>1, <1>2

(* A run that reports EXIT_OK has written the image of the disc, except    *)
(* for what header.bin and footer.bin did not deliver: for every disc      *)
(* without a gap as wide as the 32-bit arithmetic, whatever the files are  *)
(* when they are read, in whatever order qsort leaves the table, and       *)
(* wherever a call fails.                                                  *)
THEOREM SuccessCorrect == Spec => []SuccessImage
<1>1. ImageInv => SuccessImage
  BY DEF ImageInv, Placement, SuccessImage
<1>. QED BY <1>1, ControlCorrect, ImageInit, ImageStep, PTL DEF Spec

-----------------------------------------------------------------------------
(* A disc whose files lie apart and below the wrap is laid out without the *)
(* assert failing: the sorted table is in the order of the disc.           *)
LaidTable ==
    /\ \A k \in DOMAIN ft : disc.hdr <= Addr(ft[k]) /\ Addr(ft[k]) < UMod
    /\ \A j, k \in DOMAIN ft : j < k => End(ft[j]) <= Addr(ft[k])

LEMMA PlaceBelowWrap ==
    ASSUME NEW r \in Record, Addr(r) < UMod
    PROVE  Place(r) = Addr(r)
BY AddrType, SizesAssumption DEF Place

(* The difference of two blocks that fits an int is what Compare returns.  *)
LEMMA SmallResidue ==
    ASSUME NEW x \in Int, NEW m \in Nat \ {0}, 0 <= x, x < m
    PROVE  x % m = x
OBVIOUS

LEMMA NegativeResidue ==
    ASSUME NEW x \in Int, NEW m \in Nat \ {0}, x < 0, 0 <= x + m
    PROVE  x % m = x + m
OBVIOUS

LEMMA CompareIsDifference ==
    ASSUME NEW r \in Record, NEW s \in Record,
           2 * (r.block - s.block) < UMod, 2 * (s.block - r.block) < UMod
    PROVE  Compare(r, s) = r.block - s.block
<1>. DEFINE x == r.block - s.block
<1>1. x \in Int /\ UMod \in Nat \ {0}
  BY SizesAssumption DEF Record
<1>2. 2 * x < UMod /\ 2 * (0 - x) < UMod
  BY SizesAssumption DEF Record
<1>3. Compare(r, s) = IF 2 * (x % UMod) >= UMod THEN (x % UMod) - UMod
                                               ELSE x % UMod
  BY DEF Compare
<1>. HIDE DEF x
<1>4. CASE x >= 0
  <2>1. x % UMod = x
    BY <1>1, <1>2, <1>4, SmallResidue
  <2>. QED BY <1>1, <1>2, <1>3, <2>1 DEF x
<1>5. CASE x < 0
  <2>1. x % UMod = x + UMod
    BY <1>1, <1>2, <1>5, NegativeResidue
  <2>. QED BY <1>1, <1>2, <1>3, <2>1 DEF x
<1>. QED BY <1>1, <1>4, <1>5

(* Records whose blocks can be compared end up in the order of the blocks. *)
LEMMA SortedByBlock ==
    ASSUME NEW recs \in Seq(Record),
           \A i, j \in DOMAIN recs : 2 * (recs[i].block - recs[j].block) < UMod,
           NEW t \in SortedTables(recs),
           NEW j \in DOMAIN t, NEW k \in DOMAIN t, j < k
    PROVE  t[j].block <= t[k].block
<1>. DEFINE D == DOMAIN recs
<1>0. \A i \in D : recs[i] \in Record
  OBVIOUS
<1>1. \A i \in D : recs[i].block \in Nat
  BY <1>0 DEF Record
<1>2. \A a, b \in D : Compare(recs[a], recs[b]) = recs[a].block - recs[b].block
  BY <1>0, CompareIsDifference
<1>3. IsOrder(recs)
  <2>1. ASSUME NEW a \in D, NEW b \in D, NEW c \in D
        PROVE  /\ Compare(recs[a], recs[b]) < 0 => Compare(recs[b], recs[a]) > 0
               /\ (Compare(recs[a], recs[b]) <= 0 /\ Compare(recs[b], recs[c]) <= 0)
                     => Compare(recs[a], recs[c]) <= 0
    <3>1. /\ Compare(recs[a], recs[b]) = recs[a].block - recs[b].block
          /\ Compare(recs[b], recs[a]) = recs[b].block - recs[a].block
          /\ Compare(recs[b], recs[c]) = recs[b].block - recs[c].block
          /\ Compare(recs[a], recs[c]) = recs[a].block - recs[c].block
      BY <1>2
    <3>2. recs[a].block \in Nat /\ recs[b].block \in Nat /\ recs[c].block \in Nat
      BY <1>1
    <3>. DEFINE x == recs[a].block  y == recs[b].block  z == recs[c].block
    <3>3. x \in Nat /\ y \in Nat /\ z \in Nat
      BY <3>2
    <3>. HIDE DEF x, y, z
    <3>4. /\ x - y < 0 => y - x > 0
          /\ (x - y <= 0 /\ y - z <= 0) => x - z <= 0
      BY <3>3
    <3>. QED BY <3>1, <3>4, Zenon DEF x, y, z
  <2>. QED BY <2>1 DEF IsOrder
<1>4. PICK p \in Bijection(D, D) : t = [i \in D |-> recs[p[i]]]
  BY DEF SortedTables
<1>5. p \in [D -> D]
  BY <1>4 DEF Bijection, Injection
<1>6. DOMAIN t = D /\ Compare(t[j], t[k]) <= 0
  BY <1>3, <1>4 DEF SortedTables
<1>7. t[j] = recs[p[j]] /\ t[k] = recs[p[k]] /\ p[j] \in D /\ p[k] \in D
  BY <1>4, <1>5, <1>6
<1>. QED BY <1>1, <1>2, <1>6, <1>7

(* Blocks whose addresses lie below the wrap can be compared.              *)
LEMMA LaidIsComparable ==
    ASSUME NEW r \in Record, NEW s \in Record, Addr(r) < UMod
    PROVE  2 * (r.block - s.block) < UMod
<1>1. r.block \in Nat /\ s.block \in Nat
  BY DEF Record
<1>2. r.block * 4 <= r.block * BlockSize
  BY <1>1, SizesAssumption
<1>3. r.block * 4 < UMod
  BY <1>1, <1>2, SizesAssumption DEF Addr
<1>. QED BY <1>1, <1>3, SizesAssumption

LEMMA SortedIsLaid ==
    ASSUME NEW d \in Discs, WellLaid(d), NEW t \in SortedTables(d.recs)
    PROVE  /\ \A k \in DOMAIN t : d.hdr <= Addr(t[k]) /\ Addr(t[k]) < UMod
           /\ \A j, k \in DOMAIN t : j < k => End(t[j]) <= Addr(t[k])
<1>. DEFINE D == DOMAIN d.recs
<1>0. d.recs \in Seq(Record)
  BY DiscsAssumption
<1>1. PICK p \in Bijection(D, D) : t = [i \in D |-> d.recs[p[i]]]
  BY DEF SortedTables
<1>2. p \in [D -> D] /\ \A j, k \in D : p[j] = p[k] => j = k
  BY DEF Bijection, Injection, IsInjective
<1>3. DOMAIN t = D /\ \A j, k \in D : j < k => t[j].block <= t[k].block
  <2>1. \A i, j \in D : 2 * (d.recs[i].block - d.recs[j].block) < UMod
    BY <1>0, LaidIsComparable DEF WellLaid
  <2>. QED BY <1>0, <1>1, <2>1, SortedByBlock
<1>4. \A k \in D : t[k] = d.recs[p[k]] /\ p[k] \in D /\ t[k] \in Record
  BY <1>0, <1>1, <1>2
<1>5. \A k \in D : d.hdr <= Addr(t[k]) /\ Addr(t[k]) < UMod
  BY <1>4 DEF WellLaid
<1>6. ASSUME NEW j \in D, NEW k \in D, j < k PROVE End(t[j]) <= Addr(t[k])
  <2>1. t[j].block <= t[k].block
    BY <1>3, <1>6
  <2>2. D \subseteq Nat
    BY <1>0
  <2>3. p[j] # p[k]
    BY <1>2, <1>6, <2>2
  <2>4. t[j].block # t[k].block
    BY <1>4, <2>3 DEF WellLaid
  <2>5. t[j].block \in Nat /\ t[k].block \in Nat
    BY <1>4 DEF Record
  <2>6. t[j].block < t[k].block
    BY <2>1, <2>4, <2>5
  <2>. QED BY <1>4, <2>6 DEF WellLaid
<1>. QED BY <1>3, <1>5, <1>6

(* Where the stream stands on such a disc, at every label.                 *)
Laying ==
    /\ pc \notin {"sort"} => LaidTable
    /\ pc = "place" => pos = TailBefore(index)
    /\ pc = "assert" => Placed(ft[index]) \/ Addr(ft[index]) > cap
    /\ pc \in {"path", "copy"} => pos = Addr(ft[index])
    /\ pc = "aborted" => badFree \/ Addr(ft[index]) > cap

LayingInv == WellLaid(disc) => Laying

LEMMA LayingInit == Init => LayingInv
BY DEF Init, LayingInv, Laying

LEMMA LayingStep == TypeOK /\ Control /\ LayingInv /\ [Next]_vars => LayingInv'
<1>. SUFFICES ASSUME TypeOK, Control, LayingInv, [Next]_vars, WellLaid(disc')
              PROVE  Laying'
  BY DEF LayingInv
<1>. USE Context
<1>0. UNCHANGED <<disc, bins, cap>> /\ (~SortFiles => UNCHANGED ft)
  BY DiscAndTable
<1>l. Laying
  BY <1>0 DEF LayingInv
<1>t. ASSUME UNCHANGED ft, pc # "sort" PROVE LaidTable /\ LaidTable'
  BY <1>0, <1>l, <1>t DEF Laying, LaidTable
<1>1. CASE SortFiles
  <2>1. LaidTable'
    BY <1>0, <1>1, SortedIsLaid DEF SortFiles, LaidTable, TypeOK
  <2>. QED BY <1>1, <2>1 DEF SortFiles, Laying
<1>2. CASE OpenIso
  BY <1>2, <1>t DEF OpenIso, Return, Laying
<1>3. CASE WriteHeader
  <2>1. pc = "header" /\ index = 1 /\ pos = 0 /\ UNCHANGED <<disc, bins, ft, index>>
    BY <1>3 DEF WriteHeader, Control
  <2>2. CASE Emit("header", 0, 0, bins.hdr) /\ pc' = "place"
    BY <1>t, <2>1, <2>2 DEF Emit, TailBefore, Laying
  <2>3. CASE pc' = "returned"
    BY <1>t, <2>1, <2>3 DEF Laying
  <2>. QED BY <1>3, <2>2, <2>3 DEF WriteHeader, Return
<1>4. CASE ZeroGap \/ ZeroNegativeGap
  <2>0. /\ UNCHANGED <<disc, bins, cap, ft, index>> /\ index \in 1 .. Len(ft)
        /\ LaidTable /\ LaidTable' /\ pos = TailBefore(index)
    BY <1>4, <1>l, <1>t DEF ZeroGap, ZeroNegativeGap, InTable, Laying
  <2>1. Addr(ft[index]) < UMod /\ pos <= Addr(ft[index])
    <3>1. CASE index = 1
      <4>1. pos = bins.hdr /\ disc.hdr <= Addr(ft[index]) /\ Addr(ft[index]) < UMod
        BY <2>0, <3>1 DEF LaidTable, TailBefore
      <4>. QED BY <2>0, <4>1
    <3>2. CASE index # 1
      <4>1. index - 1 \in DOMAIN ft /\ index \in DOMAIN ft /\ index - 1 < index
        BY <2>0, <3>2
      <4>. QED BY <2>0, <3>2, <4>1 DEF LaidTable, TailBefore
    <3>. QED BY <3>1, <3>2
  <2>2. Place(ft[index]) = Addr(ft[index])
    BY <2>0, <2>1, PlaceBelowWrap
  <2>3. Gap >= 0 /\ Gap = Addr(ft[index]) - pos /\ ZeroGap
    BY <1>4, <2>0, <2>1, <2>2 DEF Gap, ZeroNegativeGap
  <2>4. CASE Emit("zero", 0, 0, Gap) /\ pc' = "assert"
    <3>1. Placed(ft[index])'
      BY <2>0, <2>2, <2>3, <2>4 DEF Placed, Emit
    <3>. QED BY <2>0, <2>4, <3>1 DEF Laying
  <2>5. CASE pc' = "assert" /\ \E m \in 0 .. Gap : Short(Gap, m)
    <3>1. Addr(ft[index]) > cap
      BY <2>0, <2>3, <2>5 DEF Short
    <3>. QED BY <2>0, <2>5, <3>1 DEF Laying
  <2>6. CASE pc' = "returned"
    BY <2>0, <2>6 DEF Laying
  <2>. QED BY <2>3, <2>4, <2>5, <2>6 DEF ZeroGap, Return
<1>5. CASE AssertPlaced
  <2>0. UNCHANGED <<disc, bins, cap, ft, index, pos, badFree>> /\ index \in 1 .. Len(ft)
        /\ pc = "assert" /\ LaidTable /\ LaidTable'
    BY <1>5, <1>t DEF AssertPlaced, TypeOK
  <2>1. CASE Placed(ft[index])
    <3>1. Place(ft[index]) = Addr(ft[index])
      BY <2>0, PlaceBelowWrap DEF LaidTable
    <3>2. pc' = "path" /\ pos = Addr(ft[index])
      BY <1>5, <2>1, <3>1 DEF AssertPlaced, Placed
    <3>. QED BY <2>0, <3>2 DEF Laying
  <2>2. CASE ~Placed(ft[index])
    <3>1. pc' = "aborted" /\ Addr(ft[index]) > cap
      BY <1>5, <1>l, <2>0, <2>2 DEF AssertPlaced, Laying
    <3>. QED BY <2>0, <3>1 DEF Laying
  <2>. QED BY <2>1, <2>2
<1>6. CASE BuildPaths
  <2>1. UNCHANGED <<disc, bins, ft, index, iso, pos>> /\ pc = "path"
    BY <1>6 DEF BuildPaths
  <2>2. pc' \in {"copy", "returned"} \/ (pc' = "aborted" /\ badFree')
    BY <1>6 DEF BuildPaths, ExitRel, ExitFull, Return
  <2>. QED BY <1>l, <1>t, <2>1, <2>2 DEF Laying
<1>7. CASE CopyBody
  <2>0. UNCHANGED <<disc, bins, cap, ft>> /\ pc = "copy" /\ index \in 1 .. Len(ft)
        /\ pos = Addr(ft[index]) /\ LaidTable'
    BY <1>7, <1>l, <1>t DEF CopyBody, TypeOK, Laying
  <2>1. CASE /\ Emit("body", ft[index].name, ft[index].off, ft[index].len)
             /\ index' = index + 1 /\ pc' = "place"
    <3>1. pos' = End(ft[index]) /\ TailBefore(index)' = End(ft[index])
      BY <2>0, <2>1 DEF Emit, TailBefore
    <3>. QED BY <2>0, <2>1, <3>1 DEF Laying
  <2>2. CASE pc' = "returned" \/ (pc' = "aborted" /\ badFree')
    BY <2>0, <2>2 DEF Laying
  <2>. QED BY <1>7, <2>1, <2>2 DEF CopyBody, ExitRel
<1>8. CASE WriteFooter \/ ProcessExit
  BY <1>8, <1>t DEF WriteFooter, ProcessExit, Return, Laying
<1>9. CASE UNCHANGED vars
  <2>1. UNCHANGED <<disc, bins, cap, ft, index, pos, pc, badFree>>
    BY <1>9 DEF vars
  <2>. QED BY <1>l, <2>1 DEF Laying, LaidTable, TailBefore, Placed
<1>. QED BY <1>1, <1>2, <1>3, <1>4, <1>5, <1>6, <1>7, <1>8, <1>9
            DEF Next, Terminated

(* On a disc whose files lie apart and below 4 GiB, the process is only    *)
(* killed by the assert when the device cannot hold the gap, or by a bad   *)
(* free.                                                                   *)
THEOREM AbortsCorrect == Spec => []AbortsOnlyWhenFull
<1>1. LayingInv => AbortsOnlyWhenFull
  BY DEF LayingInv, Laying, AbortsOnlyWhenFull
<1>. QED BY <1>1, ControlCorrect, LayingInit, LayingStep, PTL DEF Spec
-----------------------------------------------------------------------------
(* The contract.  On a disc whose blocks can be compared the table is in   *)
(* the order of the disc, so no gap is met that is wider than the disc's   *)
(* own (NearNext), Placement holds on every disc whose gaps are narrow,    *)
(* and each step adds bytes that belong where they go.                     *)
Ordered == pc # "sort" => ft \in SortedTables(disc.recs)

LEMMA OrderedInit == Init => Ordered
BY DEF Init, Ordered

LEMMA OrderedStep == Ordered /\ [Next]_vars => Ordered'
<1>. SUFFICES ASSUME Ordered, [Next]_vars PROVE Ordered'
  OBVIOUS
<1>1. CASE SortFiles
  BY <1>1 DEF SortFiles, Ordered
<1>2. CASE ~SortFiles
  <2>1. UNCHANGED <<disc, bins, ft>>
    BY <1>2, DiscAndTable
  <2>2. pc = "sort" => pc' = "sort"
    BY <1>2 DEF Next, OpenIso, WriteHeader, ZeroGap, ZeroNegativeGap,
                AssertPlaced, BuildPaths, CopyBody, WriteFooter, ProcessExit,
                Terminated, vars
  <2>. QED BY <2>1, <2>2 DEF Ordered
<1>. QED BY <1>1, <1>2

(* The table holds the records of the disc, all of them and no other.      *)
LEMMA RecsOfTable ==
    ASSUME TypeOK, Ordered, pc # "sort"
    PROVE  Image!Recs(disc) = {ft[k] : k \in DOMAIN ft}
<1>. DEFINE D == DOMAIN disc.recs
<1>1. PICK p \in Bijection(D, D) : ft = [i \in D |-> disc.recs[p[i]]]
  BY DEF Ordered, SortedTables
<1>2. p \in [D -> D] /\ \A i \in D : \E j \in D : p[j] = i
  BY DEF Bijection, Surjection
<1>3. DOMAIN ft = D /\ \A k \in D : ft[k] = disc.recs[p[k]]
  BY <1>1
<1>. QED BY <1>2, <1>3 DEF Image!Recs

LEMMA ScaledOrder ==
    ASSUME NEW a \in Nat, NEW b \in Nat, NEW n \in Nat, a < b, n > 0
    PROVE  a * n < b * n
<1>1. (b - a) * n >= n /\ (b - a) * n = b * n - a * n
  OBVIOUS
<1>2. a * n \in Nat /\ b * n \in Nat
  OBVIOUS
<1>. QED BY <1>1, <1>2

LEMMA AddrOrder ==
    ASSUME NEW r \in Record, NEW s \in Record, r.block < s.block
    PROVE  Addr(r) < Addr(s)
<1>1. r.block \in Nat /\ s.block \in Nat
  BY DEF Record
<1>. QED BY <1>1, ScaledOrder, SizesAssumption DEF Addr

(* If all blocks can be compared, the table is in the order of the disc.   *)
LEMMA TableOrder ==
    ASSUME TypeOK, Ordered, pc # "sort", Image!Comparable(disc),
           NEW j \in DOMAIN ft, NEW k \in DOMAIN ft, j < k
    PROVE  Addr(ft[j]) <= Addr(ft[k])
<1>1. disc.recs \in Seq(Record) /\ ft \in SortedTables(disc.recs)
  BY DiscsAssumption DEF TypeOK, Ordered
<1>2. \A a, b \in DOMAIN disc.recs :
         2 * (disc.recs[a].block - disc.recs[b].block) < UMod
  BY DEF Image!Comparable, Image!Recs
<1>3. ft[j].block <= ft[k].block
  BY <1>1, <1>2, SortedByBlock
<1>r. ft[j] \in Record /\ ft[k] \in Record
  BY DEF TypeOK
<1>4. ft[j].block \in Nat /\ ft[k].block \in Nat
  BY <1>r DEF Record
<1>5. CASE ft[j].block = ft[k].block
  <2>1. Addr(ft[k]) \in Nat
    BY AddrType DEF TypeOK
  <2>. QED BY <1>5, <2>1 DEF Addr
<1>6. CASE ft[j].block < ft[k].block
  BY <1>4, <1>6, AddrOrder, AddrType DEF TypeOK
<1>. QED BY <1>3, <1>4, <1>5, <1>6

(* Addresses in the contract and in the code are the same numbers.         *)
LEMMA SameAddresses ==
    \A r, a : /\ Image!Addr(r) = Addr(r) /\ Image!End(r) = End(r)
              /\ Image!InBody(r, a) <=> InBody(r, a)
BY DEF Image!Addr, Image!End, Image!InBody, Addr, End, InBody

LEMMA NearNext ==
    ASSUME TypeOK, Control, Ordered, Image!Near(disc, bins),
           Image!Comparable(disc), Placement
    PROVE  NextIsNear
<1>. SUFFICES ASSUME pc = "place", InTable PROVE Addr(ft[index]) - pos < UMod
  BY DEF NextIsNear
<1>. USE Context
<1>. DEFINE r == ft[index]
<1>1. Img /\ index \in 1 .. Len(ft)
  BY DEF Placement, InTable
<1>2. r \in Image!Recs(disc)
  BY <1>1, RecsOfTable
<1>3. CASE Addr(r) - bins.hdr < UMod
  BY <1>1, <1>3, SizesAssumption DEF Img, HeaderIn
<1>4. CASE \E s \in Image!Recs(disc) : s.block < r.block /\ Addr(r) - End(s) < UMod
  <2>1. PICK j \in 1 .. Len(ft) : ft[j].block < r.block /\ Addr(r) - End(ft[j]) < UMod
    BY <1>4, RecsOfTable
  <2>2. CASE j < index
    <3>1. End(ft[j]) <= pos
      BY <1>1, <2>2 DEF Img, BodiesIn, BodyIn
    <3>. QED BY <1>1, <2>1, <3>1, SizesAssumption
  <2>3. CASE j = index
    <3>1. ft[j].block \in Nat
      BY DEF Record
    <3>. QED BY <2>1, <2>3, <3>1
  <2>4. CASE index < j
    <3>0. /\ index \in DOMAIN ft /\ j \in DOMAIN ft
          /\ Addr(r) \in Nat /\ Addr(ft[j]) \in Nat /\ End(ft[j]) \in Nat
          /\ r \in Record /\ ft[j] \in Record
      BY <1>1
    <3>1. Addr(r) <= Addr(ft[j])
      BY <2>4, <3>0, TableOrder
    <3>2. Addr(ft[j]) < Addr(r)
      BY <2>1, <3>0, AddrOrder
    <3>. QED BY <2>1, <3>0, <3>1, <3>2, SizesAssumption
  <2>. QED BY <1>1, <2>2, <2>3, <2>4
<1>. QED BY <1>2, <1>3, <1>4, SameAddresses DEF Image!Near

-----------------------------------------------------------------------------
(* Bytes that belong.                                                      *)

(* What a call that adds bytes means to the contract.                      *)
LEMMA Growing ==
    ASSUME TypeOK, Control,
           NEW src \in {"header", "body", "zero", "junk", "footer"},
           NEW name \in Nat, NEW from \in Nat, NEW n \in Nat,
           Emit(src, name, from, n)
    PROVE  /\ Image!Grows
           /\ pos' = pos + n
           /\ DOMAIN iso' = 0 .. (pos + n - 1)
           /\ (\A a \in pos .. (pos + n - 1) :
                  Image!IsByteOf(disc, bins, a, <<src, name, from + (a - pos)>>))
              => Image!BytesBelong
<1>0. pos \in Nat /\ iso \in [0 .. (pos - 1) -> Cell]
  BY DEF TypeOK
<1>1. /\ pos' = pos + n
      /\ iso' = [a \in 0 .. (pos + n - 1) |->
                   IF a < pos THEN iso[a] ELSE <<src, name, from + (a - pos)>>]
  BY DEF Emit
<1>2. DOMAIN iso = 0 .. (pos - 1) /\ DOMAIN iso' = 0 .. (pos + n - 1)
  BY <1>0, <1>1
<1>3. Image!Grows
  BY <1>0, <1>1, <1>2 DEF Image!Grows
<1>4. DOMAIN iso' \ DOMAIN iso \subseteq pos .. (pos + n - 1)
  BY <1>0, <1>2
<1>5. ASSUME \A a \in pos .. (pos + n - 1) :
                Image!IsByteOf(disc, bins, a, <<src, name, from + (a - pos)>>),
             NEW a \in pos .. (pos + n - 1)
      PROVE  Image!IsByteOf(disc, bins, a, iso'[a])
  <2>1. a \in 0 .. (pos + n - 1) /\ ~(a < pos)
    BY <1>0
  <2>2. iso'[a] = <<src, name, from + (a - pos)>>
    BY <1>1, <2>1
  <2>. QED BY <1>5, <2>2
<1>. QED BY <1>1, <1>2, <1>3, <1>4, <1>5 DEF Image!BytesBelong

LEMMA NotGrowing ==
    UNCHANGED iso => Image!Grows /\ Image!BytesBelong
BY DEF Image!Grows, Image!BytesBelong

(* In front of the next file, on a disc with narrow gaps: nothing wraps,   *)
(* and no file of the disc lies between ftell() and its address.           *)
LEMMA GapIsFree ==
    ASSUME TypeOK, Control, Ordered, Image!Comparable(disc), Placement,
           NextIsNear, pc = "place", InTable, Gap >= 0,
           NEW a \in Nat, pos <= a, a < Place(ft[index])
    PROVE  Image!IsByteOf(disc, bins, a, <<"zero", 0, a - pos>>)
<1>. USE Context
<1>0. Img /\ index \in 1 .. Len(ft) /\ UMod \in Nat \ {0}
  BY SizesAssumption DEF Placement, InTable
<1>1. Place(ft[index]) = Addr(ft[index]) /\ Addr(ft[index]) < UMod
  <2>1. Place(ft[index]) >= pos /\ Addr(ft[index]) - pos < UMod
    BY <1>0 DEF Gap, NextIsNear
  <2>2. Addr(ft[index]) % UMod = Addr(ft[index])
    BY <1>0, <2>1, NoWrap DEF Place
  <2>3. Addr(ft[index]) % UMod < UMod
    BY <1>0
  <2>. QED BY <2>2, <2>3 DEF Place
<1>2. a < Addr(ft[index])
  BY <1>1
<1>3. ASSUME NEW k \in 1 .. Len(ft) PROVE ~InBody(ft[k], a)
  <2>1. CASE k < index
    <3>1. End(ft[k]) <= pos
      BY <1>0, <2>1 DEF Img, BodiesIn, BodyIn
    <3>. QED BY <3>1 DEF InBody
  <2>2. CASE k = index
    BY <1>2, <2>2 DEF InBody
  <2>3. CASE index < k
    <3>1. Addr(ft[index]) <= Addr(ft[k])
      BY <1>0, <2>3, TableOrder
    <3>. QED BY <1>0, <1>2, <3>1 DEF InBody
  <2>. QED BY <1>0, <2>1, <2>2, <2>3
<1>4. a >= bins.hdr
  BY <1>0 DEF Img, HeaderIn
<1>5. Image!Recs(disc) = {ft[k] : k \in 1 .. Len(ft)}
  BY RecsOfTable
<1>6. \A r \in Image!Recs(disc) : ~Image!InBody(r, a)
  BY <1>3, <1>5, SameAddresses
<1>7. \E r \in Image!Recs(disc) : a < Image!Addr(r)
  BY <1>0, <1>2, <1>5, SameAddresses
<1>. QED BY <1>4, <1>6, <1>7 DEF Image!IsByteOf

(* The bytes of a file that is copied to its address.                      *)
LEMMA BodyBelongs ==
    ASSUME TypeOK, Control, Ordered, Placement, pc = "copy",
           NEW m \in Nat, m <= ft[index].len,
           Emit("body", ft[index].name, ft[index].off, m)
    PROVE  Image!Grows /\ Image!BytesBelong
<1>. USE Context
<1>. DEFINE r == ft[index]
<1>1. /\ index \in 1 .. Len(ft) /\ pos = Addr(r) /\ bins.hdr <= pos
  BY DEF TypeOK, Placement, Img, HeaderIn
<1>2. r \in Image!Recs(disc) /\ r \in Record
  BY <1>1, RecsOfTable
<1>3. r.name \in Nat /\ r.off \in Nat /\ r.len \in Nat /\ End(r) = Addr(r) + r.len
  BY <1>2, AddrType DEF End
<1>4. Emit("body", r.name, r.off, m)
  OBVIOUS
<1>. HIDE DEF r
<1>5. ASSUME NEW a \in pos .. (pos + m - 1)
      PROVE  Image!IsByteOf(disc, bins, a, <<"body", r.name, r.off + (a - pos)>>)
  <2>1. m <= r.len /\ pos \in Nat /\ bins.hdr \in Nat
    BY <1>3 DEF r
  <2>2. a \in Int /\ pos <= a /\ a < pos + r.len
    BY <1>3, <2>1
  <2>3. InBody(r, a) /\ a >= bins.hdr
    BY <1>1, <1>3, <2>1, <2>2 DEF InBody
  <2>. QED BY <1>1, <1>2, <2>3, SameAddresses DEF Image!IsByteOf
<1>. QED BY <1>3, <1>4, <1>5, Growing

(* Behind the last file, the stream is at the end of the disc's files.     *)
LEMMA TailIs ==
    ASSUME TypeOK, Control, Ordered, Placement, pc = "place", ~InTable
    PROVE  Image!Tail(disc, bins) = pos
<1>. USE Context
<1>. DEFINE S == {bins.hdr} \cup {Image!End(r) : r \in Image!Recs(disc)}
<1>1. index = Len(ft) + 1 /\ pos = TailBefore(index) /\ Img
  BY DEF InTable, Placement
<1>2. S = {bins.hdr} \cup {End(ft[k]) : k \in 1 .. Len(ft)}
  BY RecsOfTable, SameAddresses
<1>3. S \subseteq Nat
  BY <1>2
<1>4. pos \in S
  <2>1. CASE index = 1
    BY <1>1, <1>2, <2>1 DEF TailBefore
  <2>2. CASE index # 1
    <3>1. index - 1 \in 1 .. Len(ft)
      BY <1>1, <2>2
    <3>. QED BY <1>1, <1>2, <2>2, <3>1 DEF TailBefore
  <2>. QED BY <2>1, <2>2
<1>5. \A y \in S : pos >= y
  <2>1. pos >= bins.hdr
    BY <1>1 DEF Img, HeaderIn
  <2>2. \A k \in 1 .. Len(ft) : pos >= End(ft[k])
    BY <1>1 DEF Img, BodiesIn, BodyIn
  <2>. QED BY <1>2, <2>1, <2>2
<1>. HIDE DEF S
<1>6. \A x \in S : (\A y \in S : x >= y) => x = pos
  BY <1>3, <1>4, <1>5
<1>7. Image!Max(S) = pos
  BY <1>4, <1>5, <1>6 DEF Image!Max
<1>. QED BY <1>7 DEF Image!Tail, S

-----------------------------------------------------------------------------
(* The contract, step by step.                                             *)

Sized == (pc \in {"returned", "exited"} /\ ret = "EXIT_OK")
            => pos = Image!ImageSize(disc, bins)

NearInv == Image!Near(disc, bins) /\ Image!Comparable(disc) => Placement /\ Sized

Inv == TypeOK /\ Control /\ Ordered /\ LayingInv /\ NearInv

LEMMA NearInit == Init => NearInv
BY DEF Init, NearInv, Placement, Sized

LEMMA NearStep ==
    TypeOK /\ Control /\ Ordered /\ NearInv /\ [Next]_vars => NearInv'
<1>. SUFFICES ASSUME TypeOK, Control, Ordered, NearInv, [Next]_vars,
                     Image!Near(disc', bins'), Image!Comparable(disc')
              PROVE  Placement' /\ Sized'
  BY DEF NearInv
<1>0. UNCHANGED <<disc, bins>>
  BY DiscAndTable
<1>1. Placement /\ Sized /\ Image!Near(disc, bins) /\ Image!Comparable(disc)
  BY <1>0 DEF NearInv
<1>2. Placement'
  BY <1>1, NearNext, PlacementStep
<1>. SUFFICES Sized'
  BY <1>2
<1>3. CASE WriteFooter
  <2>1. CASE Emit("footer", 0, 0, bins.ftr) /\ Return("EXIT_OK")
    <3>1. Image!Tail(disc, bins) = pos
      BY <1>1, <1>3, TailIs DEF WriteFooter
    <3>. QED BY <1>0, <2>1, <3>1 DEF Emit, Sized, Image!ImageSize
  <2>2. CASE ret' # "EXIT_OK"
    BY <2>2 DEF Sized
  <2>. QED BY <1>3, <2>1, <2>2 DEF WriteFooter, Return
<1>4. CASE ProcessExit \/ UNCHANGED vars \/ Terminated
  BY <1>0, <1>1, <1>4 DEF ProcessExit, Terminated, vars, Sized
<1>5. CASE SortFiles \/ OpenIso \/ WriteHeader \/ ZeroGap \/ ZeroNegativeGap
           \/ AssertPlaced \/ BuildPaths \/ CopyBody
  <2>1. pc' \notin {"returned", "exited"} \/ ret' # "EXIT_OK"
    BY <1>5 DEF SortFiles, OpenIso, WriteHeader, ZeroGap, ZeroNegativeGap,
                AssertPlaced, BuildPaths, CopyBody, Return, ExitRel, ExitFull
  <2>. QED BY <2>1 DEF Sized
<1>. QED BY <1>3, <1>4, <1>5 DEF Next

LEMMA InvCorrect == Spec => []Inv
<1>1. Init => Inv
  BY TypeInit, ControlInit, OrderedInit, LayingInit, NearInit DEF Inv
<1>2. Inv /\ [Next]_vars => Inv'
  BY TypeStep, ControlStep, OrderedStep, LayingStep, NearStep DEF Inv
<1>. QED BY <1>1, <1>2, PTL DEF Spec

(* How the state looks to the contract.                                    *)
LEMMA Looks ==
    /\ pc \in {"sort", "open", "header", "place", "path", "copy"}
          => Outcome = "writing"
    /\ pc = "assert" => Outcome = IF Placed(ft[index]) THEN "writing" ELSE "doomed"
    /\ pc = "aborted" => Outcome = "killed"
    /\ pc \in {"returned", "exited"}
          => Outcome = IF ret = "EXIT_OK" THEN "ok" ELSE "failed"
    /\ Kept = IF pc = "exited" THEN onDisk ELSE -1
BY DEF Outcome, Kept

(* No file of a well laid disc is behind ftell() when its turn comes.      *)
LEMMA GapOnLaid ==
    ASSUME TypeOK, Control, LayingInv, Image!WellLaid(disc),
           pc = "place", InTable
    PROVE  Gap >= 0
<1>. USE Context
<1>1. WellLaid(disc)
  <2>. SUFFICES ASSUME NEW i \in DOMAIN disc.recs, NEW j \in DOMAIN disc.recs,
                       disc.recs[i].block < disc.recs[j].block
                PROVE  End(disc.recs[i]) <= Addr(disc.recs[j])
    BY SameAddresses DEF WellLaid, Image!WellLaid, Image!Recs
  <2>1. disc.recs[i] \in Record /\ disc.recs[j] \in Record
    BY DiscsAssumption DEF TypeOK
  <2>2. i # j
    BY <2>1 DEF Record
  <2>3. \/ End(disc.recs[i]) <= Addr(disc.recs[j])
        \/ End(disc.recs[j]) <= Addr(disc.recs[i])
    BY <2>2, SameAddresses DEF Image!WellLaid
  <2>4. Addr(disc.recs[i]) < Addr(disc.recs[j])
    BY <2>1, AddrOrder
  <2>5. Addr(disc.recs[j]) <= End(disc.recs[j])
    BY <2>1, AddrType DEF End
  <2>. QED BY <2>1, <2>3, <2>4, <2>5, AddrType
<1>2. LaidTable /\ pos = TailBefore(index) /\ index \in 1 .. Len(ft)
  BY <1>1 DEF LayingInv, Laying, InTable
<1>3. Addr(ft[index]) < UMod /\ pos <= Addr(ft[index])
  <2>1. CASE index = 1
    BY <1>2, <2>1 DEF LaidTable, TailBefore
  <2>2. CASE index # 1
    <3>1. index - 1 \in DOMAIN ft /\ index \in DOMAIN ft /\ index - 1 < index
      BY <1>2, <2>2
    <3>. QED BY <1>2, <3>1 DEF LaidTable, TailBefore
  <2>. QED BY <2>1, <2>2
<1>4. Place(ft[index]) = Addr(ft[index])
  BY <1>2, <1>3, PlaceBelowWrap
<1>. QED BY <1>2, <1>3, <1>4 DEF Gap

LEMMA ImageContractInit == Init => Image!Init
BY Looks DEF Init, Image!Init

(* A step that returns or ends the process with an error.                  *)
LEMMA Failing ==
    ASSUME Outcome = "writing", Image!Grows, Image!BytesBelong,
           UNCHANGED <<disc, bins>>, pc # "exited",
           pc' = "aborted" \/ (pc' = "returned" /\ ret' # "EXIT_OK")
    PROVE  Image!Fail
<1>1. Outcome' \in {"failed", "killed"} /\ Kept' = Kept
  BY Looks DEF Outcome, Kept
<1>. QED BY <1>1 DEF Image!Fail

(* A step that goes on.                                                    *)
LEMMA Writing ==
    ASSUME Outcome = "writing", Outcome' = "writing", Image!Grows,
           Image!BytesBelong, UNCHANGED <<disc, bins>>, pc # "exited", pc' # "exited"
    PROVE  Image!Write
BY Looks DEF Image!Write, Kept

LEMMA ImageContractStep == Inv /\ [Next]_vars => [Image!Next]_(Image!vars)
<1>. SUFFICES ASSUME Inv, [Next]_vars PROVE [Image!Next]_(Image!vars)
  OBVIOUS
<1>0. UNCHANGED <<disc, bins>>
  BY DiscAndTable
<1>far. CASE ~(Image!Near(disc, bins) /\ Image!Comparable(disc))
  BY <1>0, <1>far DEF Image!Next, Image!TooFar
<1>. SUFFICES ASSUME Image!Near(disc, bins), Image!Comparable(disc)
              PROVE  [Image!Next]_(Image!vars)
  BY <1>far
<1>i. /\ TypeOK /\ Control /\ Ordered /\ LayingInv /\ Placement /\ Sized
      /\ NextIsNear
  BY NearNext DEF Inv, NearInv
<1>. USE <1>i, Context
<1>w. pc \in {"sort", "open", "header", "place", "path", "copy"}
         => Outcome = "writing" /\ pc # "exited"
  BY Looks
<1>1. CASE SortFiles
  <2>1. /\ UNCHANGED <<disc, bins, iso>> /\ pc = "sort" /\ pc' = "open"
    BY <1>1 DEF SortFiles
  <2>2. Outcome = "writing" /\ Outcome' = "writing"
    BY <2>1 DEF Outcome
  <2>. QED BY <2>1, <2>2, NotGrowing, Writing DEF Image!Next
<1>2. CASE OpenIso
  <2>1. /\ UNCHANGED <<disc, bins, iso>> /\ pc = "open"
        /\ pc' = "header" \/ (pc' = "returned" /\ ret' # "EXIT_OK")
    BY <1>2 DEF OpenIso, Return
  <2>2. pc' = "header" => Outcome' = "writing" /\ pc' # "exited"
    BY DEF Outcome
  <2>. QED BY <1>w, <2>1, <2>2, NotGrowing, Writing, Failing DEF Image!Next
<1>3. CASE WriteHeader
  <2>1. PICK m \in 0 .. bins.hdr :
           Emit("header", 0, 0, m) \/ (m = 0 /\ UNCHANGED iso)
    BY <1>3 DEF WriteHeader
  <2>2. pc = "header" /\ pos = 0 /\ (pc' = "place" \/ (pc' = "returned" /\ ret' # "EXIT_OK"))
    BY <1>3 DEF WriteHeader, Return, Control
  <2>3. Image!Grows /\ Image!BytesBelong
    <3>1. CASE Emit("header", 0, 0, m)
      <4>1. ASSUME NEW a \in pos .. (pos + m - 1)
            PROVE  Image!IsByteOf(disc, bins, a, <<"header", 0, 0 + (a - pos)>>)
        <5>1. a < bins.hdr /\ 0 + (a - pos) = a
          BY <2>2
        <5>. QED BY <5>1 DEF Image!IsByteOf
      <4>2. m \in Nat
        OBVIOUS
      <4>. QED BY <3>1, <4>1, <4>2, Growing
    <3>. QED BY <2>1, <3>1, NotGrowing
  <2>4. pc' = "place" => Outcome' = "writing" /\ pc' # "exited"
    BY DEF Outcome
  <2>. QED BY <1>0, <1>w, <2>2, <2>3, <2>4, Writing, Failing DEF Image!Next
<1>4. CASE ZeroGap
  <2>1. /\ UNCHANGED <<disc, bins, ft, index>> /\ pc = "place" /\ InTable /\ Gap >= 0
        /\ index \in 1 .. Len(ft) /\ Gap = Place(ft[index]) - pos /\ Gap \in Nat
    BY <1>4 DEF ZeroGap, InTable, Gap
  <2>2. ASSUME NEW m \in 0 .. Gap, Emit("zero", 0, 0, m)
        PROVE  Image!Grows /\ Image!BytesBelong
    <3>1. ASSUME NEW a \in pos .. (pos + m - 1)
          PROVE  Image!IsByteOf(disc, bins, a, <<"zero", 0, 0 + (a - pos)>>)
      <4>1. a \in Nat /\ pos <= a /\ a < Place(ft[index]) /\ 0 + (a - pos) = a - pos
        BY <2>1
      <4>. QED BY <2>1, <4>1, GapIsFree
    <3>2. m \in Nat
      BY <2>1
    <3>. QED BY <2>2, <3>1, <3>2, Growing
  <2>3. CASE Emit("zero", 0, 0, Gap) /\ pc' = "assert"
    <3>1. Placed(ft[index])'
      BY <2>1, <2>3 DEF Emit, Placed
    <3>2. Outcome' = "writing"
      BY <2>3, <3>1 DEF Outcome
    <3>3. Image!Grows /\ Image!BytesBelong
      BY <2>1, <2>2, <2>3
    <3>. QED BY <1>w, <2>1, <2>3, <3>2, <3>3, Writing DEF Image!Next
  <2>4. CASE \E m \in 0 .. Gap : /\ Short(Gap, m)
                                 /\ Emit("zero", 0, 0, m)
                                 /\ pc' = "assert"
    <3>1. ~Placed(ft[index])'
      BY <2>1, <2>4 DEF Emit, Short, Placed
    <3>2. Outcome' = "doomed" /\ Kept' = Kept
      BY <2>1, <2>4, <3>1 DEF Outcome, Kept
    <3>3. Image!Grows /\ Image!BytesBelong
      BY <2>2, <2>4
    <3>4. Image!Doom
      BY <1>w, <2>1, <3>2, <3>3 DEF Image!Doom
    <3>. QED BY <3>4 DEF Image!Next
  <2>5. CASE pc' = "returned" /\ ret' # "EXIT_OK" /\ UNCHANGED iso
    BY <1>w, <2>1, <2>5, NotGrowing, Failing DEF Image!Next
  <2>. QED BY <1>4, <2>3, <2>4, <2>5 DEF ZeroGap, Return
<1>5. CASE ZeroNegativeGap
  <2>1. /\ UNCHANGED <<disc, bins, ft, index>> /\ pc = "place" /\ InTable /\ Gap < 0
        /\ index \in 1 .. Len(ft) /\ Gap = Place(ft[index]) - pos
    BY <1>5 DEF ZeroNegativeGap, InTable, Gap
  <2>2. CASE \E m \in 0 .. JunkMax : Emit("junk", 0, 0, m) /\ pc' = "assert"
    <3>1. PICK m \in 0 .. JunkMax : Emit("junk", 0, 0, m)
      BY <2>2
    <3>2. m \in Nat
      BY SizesAssumption
    <3>3. Image!Grows /\ pos' = pos + m
      BY <3>1, <3>2, Growing
    <3>4. ~Placed(ft[index])'
      BY <2>1, <3>2, <3>3 DEF Placed
    <3>5. Outcome' = "doomed" /\ Kept' = Kept
      BY <2>1, <2>2, <3>4 DEF Outcome, Kept
    <3>6. ~Image!WellLaid(disc)
      BY <2>1, GapOnLaid
    <3>7. Image!Doom
      BY <1>w, <2>1, <3>3, <3>5, <3>6 DEF Image!Doom
    <3>. QED BY <3>7 DEF Image!Next
  <2>3. CASE /\ UNCHANGED iso
             /\ pc' = "aborted" \/ (pc' = "returned" /\ ret' # "EXIT_OK")
    BY <1>w, <2>1, <2>3, NotGrowing, Failing DEF Image!Next
  <2>. QED BY <1>5, <2>2, <2>3 DEF ZeroNegativeGap, Return
<1>6. CASE AssertPlaced
  <2>1. UNCHANGED <<disc, bins, ft, index, iso, pos>> /\ pc = "assert"
        /\ pc' = IF Placed(ft[index]) THEN "path" ELSE "aborted"
    BY <1>6 DEF AssertPlaced
  <2>2. Kept' = Kept
    BY <2>1 DEF Kept
  <2>3. CASE Placed(ft[index])
    <3>1. Outcome = "writing" /\ Outcome' = "writing"
      BY <2>1, <2>3, Looks DEF Outcome
    <3>. QED BY <2>1, <2>2, <3>1 DEF Image!vars
  <2>4. CASE ~Placed(ft[index])
    <3>1. Outcome = "doomed" /\ Outcome' = "killed"
      BY <2>1, <2>4, Looks DEF Outcome
    <3>. QED BY <2>1, <2>2, <3>1 DEF Image!Next, Image!Abort
  <2>. QED BY <2>3, <2>4
<1>7. CASE BuildPaths
  <2>1. /\ UNCHANGED <<disc, bins, iso>> /\ pc = "path"
        /\ \/ pc' = "copy"
           \/ pc' \in {"returned", "aborted"} /\ ret' # "EXIT_OK"
    BY <1>7 DEF BuildPaths, ExitRel, ExitFull, Return
  <2>2. pc' = "copy" => Outcome' = "writing" /\ pc' # "exited"
    BY DEF Outcome
  <2>. QED BY <1>w, <2>1, <2>2, NotGrowing, Writing, Failing DEF Image!Next
<1>8. CASE CopyBody
  <2>. DEFINE r == ft[index]
  <2>1. pc = "copy" /\ r \in Record /\ r.len \in Nat
    BY <1>8 DEF CopyBody, TypeOK
  <2>2. \/ UNCHANGED iso
        \/ \E m \in Nat : m <= r.len /\ Emit("body", r.name, r.off, m)
    <3>1. \A n \in FileLens : Got(r, n) \in Nat /\ Got(r, n) <= r.len
      BY <2>1, GotType, SizesAssumption
    <3>2. CASE Emit("body", r.name, r.off, r.len)
      BY <2>1, <3>2
    <3>3. CASE \E n \in FileLens : Emit("body", r.name, r.off, Got(r, n))
      BY <3>1, <3>3
    <3>4. CASE \E n \in FileLens : \E m \in 0 .. Got(r, n) : Emit("body", r.name, r.off, m)
      <4>1. PICK n \in FileLens : \E m \in 0 .. Got(r, n) : Emit("body", r.name, r.off, m)
        BY <3>4
      <4>2. PICK m \in 0 .. Got(r, n) : Emit("body", r.name, r.off, m)
        BY <4>1
      <4>3. m \in Nat /\ m <= r.len
        BY <2>1, <3>1, <4>1
      <4>. QED BY <4>2, <4>3
    <3>. QED BY <1>8, <3>2, <3>3, <3>4 DEF CopyBody
  <2>3. Image!Grows /\ Image!BytesBelong
    BY <2>1, <2>2, NotGrowing, BodyBelongs
  <2>4. \/ pc' = "place"
        \/ pc' \in {"returned", "aborted"} /\ ret' # "EXIT_OK"
    BY <1>8 DEF CopyBody, ExitRel
  <2>5. pc' = "place" => Outcome' = "writing" /\ pc' # "exited"
    BY DEF Outcome
  <2>. QED BY <1>0, <1>w, <2>1, <2>3, <2>4, <2>5, Writing, Failing DEF Image!Next
<1>9. CASE WriteFooter
  <2>1. /\ pc = "place" /\ ~InTable /\ bins.ftr \in Nat /\ Image!Tail(disc, bins) = pos
        /\ pc' = "returned"
    BY <1>9, TailIs DEF WriteFooter, Return
  <2>2. ASSUME NEW m \in 0 .. bins.ftr, Emit("footer", 0, 0, m)
        PROVE  /\ Image!Grows /\ Image!BytesBelong
               /\ DOMAIN iso' = 0 .. (pos + m - 1)
    <3>1. ASSUME NEW a \in pos .. (pos + m - 1)
          PROVE  Image!IsByteOf(disc, bins, a, <<"footer", 0, 0 + (a - pos)>>)
      <4>1. a >= Image!Tail(disc, bins) /\ 0 + (a - pos) = a - Image!Tail(disc, bins)
        BY <2>1
      <4>. QED BY <4>1 DEF Image!IsByteOf
    <3>. QED BY <2>1, <2>2, <3>1, Growing
  <2>3. CASE Emit("footer", 0, 0, bins.ftr) /\ Return("EXIT_OK")
    <3>1. Image!Grows /\ Image!BytesBelong /\ DOMAIN iso' = 0 .. (pos + bins.ftr - 1)
      BY <2>1, <2>2, <2>3
    <3>2. Image!Complete
      BY <2>1, <3>1 DEF Image!Complete, Image!ImageSize
    <3>3. Outcome' = "ok" /\ Kept' = Kept
      BY <2>1, <2>3 DEF Return, Outcome, Kept
    <3>. QED BY <1>0, <1>w, <2>1, <3>1, <3>2, <3>3 DEF Image!Next, Image!Succeed
  <2>4. CASE \E m \in 0 .. bins.ftr : Emit("footer", 0, 0, m) /\ ret' # "EXIT_OK"
    BY <1>0, <1>w, <2>1, <2>2, <2>4, Failing DEF Image!Next
  <2>5. CASE UNCHANGED iso /\ ret' # "EXIT_OK"
    BY <1>0, <1>w, <2>1, <2>5, NotGrowing, Failing DEF Image!Next
  <2>. QED BY <1>9, <2>3, <2>4, <2>5 DEF WriteFooter, Return
<1>10. CASE ProcessExit
  <2>1. /\ UNCHANGED <<disc, bins, iso, pos, ret>> /\ pc = "returned" /\ pc' = "exited"
        /\ onDisk' = Min2(pos, cap) /\ cap \in Nat /\ StdioBuf \in Nat
        /\ pos <= cap + StdioBuf /\ DOMAIN iso = 0 .. (pos - 1)
    BY <1>10, SizesAssumption DEF ProcessExit, TypeOK, Control
  <2>2. /\ Outcome = IF ret = "EXIT_OK" THEN "ok" ELSE "failed"
        /\ Outcome' = Outcome /\ Kept = -1 /\ Kept' = Min2(pos, cap)
    BY <2>1, Looks DEF Outcome, Kept
  <2>3. Min2(pos, cap) \in Nat
        /\ (Min2(pos, cap) = 0 \/ Min2(pos, cap) - 1 \in DOMAIN iso)
        /\ pos - Min2(pos, cap) <= StdioBuf
    BY <2>1 DEF Min2
  <2>4. Outcome = "ok" => Image!ImageSize(disc, bins) - Kept' <= StdioBuf
    BY <2>1, <2>2, <2>3 DEF Sized
  <2>. QED BY <2>1, <2>2, <2>3, <2>4 DEF Image!Next, Image!Exit
<1>11. CASE UNCHANGED vars
  BY <1>11 DEF vars, Image!vars, Outcome, Kept, Placed
<1>. QED BY <1>1, <1>2, <1>3, <1>4, <1>5, <1>6, <1>7, <1>8, <1>9, <1>10,
            <1>11 DEF Next, Terminated

(* rebuild_iso implements its contract, for every disc, device and source  *)
(* of errors: whatever happens, every byte the output gets belongs where   *)
(* it goes, EXIT_OK comes with the last one, and the exit loses at most    *)
(* the stdio buffer.                                                       *)
THEOREM ImageContractCorrect == Spec => KeepsImageContract
<1>. QED BY ImageContractInit, ImageContractStep, InvCorrect, PTL
         DEF Spec, KeepsImageContract, Image!Spec
=============================================================================
