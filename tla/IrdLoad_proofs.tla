--------------------------- MODULE IrdLoad_proofs ---------------------------
(***************************************************************************)
(* Proofs about IrdLoad, for IRDs with sections of every size and streams  *)
(* that end or fail anywhere: a loaded IRD was read whole and its images   *)
(* are not made up, and what a failed load allocated is freed.             *)
(***************************************************************************)
EXTENDS IrdLoad, TLAPS

Sections == {"head", "title", "body", "skip", "header", "footer", "regions",
             "files", "foot"}
Running == pc \in Sections \cup {"open"}

(* The pointers set when a section is reached.                             *)
SetBy(s) ==
    CASE s \in {"open", "head", "title"} -> {}
      [] s \in {"body", "skip", "header"} -> {"title"}
      [] s = "footer" -> {"title", "header"}
      [] s = "regions" -> {"title", "header", "footer"}
      [] s = "files" -> {"title", "header", "footer", "regions"}
      [] s = "foot" -> Pointers

(* The units read when a section is reached.                               *)
ReadTo(s) ==
    CASE s \in {"open", "head"} -> 0
      [] s = "title" -> 1
      [] s = "body" -> 2 + ird.title
      [] s \in {"skip", "header"} -> 3 + ird.title
      [] s = "footer" -> 4 + ird.title + ird.header
      [] s = "regions" -> 5 + ird.title + ird.header + ird.footer
      [] s = "files" -> 6 + ird.title + ird.header + ird.footer + ird.regions
      [] s = "foot" -> 7 + ird.title + ird.header + ird.footer + ird.regions
                         + ReadSize("files")

(* What a file unpacked from an image that was read whole may hold.        *)
Genuine(p, o) ==
    o = "exact" \/ (o = "part" /\ (full \/ ird.inner[p] = "cut"))

(* Either everything was read and unpacked as it should be, or a section   *)
(* of junk was just accepted and the stream has nothing more to give.      *)
Clean ==
    /\ pos = ReadTo(pc)
    /\ pc \in {"footer", "regions", "files", "foot"}
          => Genuine("header", out["header"])
    /\ pc \in {"regions", "files", "foot"} => Genuine("footer", out["footer"])
Spent == pos = avail /\ pc \in {"footer", "regions"}

ReadInv ==
    /\ Running => Clean \/ Spent
    /\ pc \in {"open", "head", "title"} => out["header"] = "none"

PtrInv ==
    Running => /\ \A p \in Pointers :
                     ptr[p] = IF p \in SetBy(pc) THEN "live" ELSE "unset"
               /\ ret = "EXIT_OK" /\ badFree = FALSE

Inv == TypeOK /\ ReadInv /\ PtrInv /\ LoadedHasNoJunk /\ AllOrNothing
       /\ BadFreeOnlyOnTitle

-----------------------------------------------------------------------------
LEMMA IrdTypes ==
    ASSUME ird \in Irds
    PROVE  /\ ird.title \in Nat /\ ird.header \in Nat /\ ird.footer \in Nat
           /\ ird.regions \in Nat /\ ird.files \in Nat
           /\ \A s \in {"title", "regions", "files", "header", "footer"} :
                 ird[s] \in Nat
BY IrdAssumption

(* The product that handle_ird_var computes is the true one below 2^31, and *)
(* another above.                                                          *)
LEMMA Wraps ==
    ASSUME NEW x \in Nat
    PROVE  /\ ToInt(x) \in Int
           /\ ToInt(x) = x <=> x < IntMod \div 2
<1>1. /\ IntMod \in Nat /\ IntMod > 0 /\ IntMod % 2 = 0
      /\ x % IntMod \in 0 .. (IntMod - 1)
  BY IrdAssumption
<1>2. IntMod \div 2 \in Nat /\ IntMod \div 2 <= IntMod
  BY <1>1
<1>3. x < IntMod => x % IntMod = x
  BY <1>1
<1>. QED BY <1>1, <1>2, <1>3 DEF ToInt

LEMMA SizeTypes ==
    ASSUME ird \in Irds
    PROVE  /\ \A s \in {"title", "regions", "header", "footer"} :
                 ReadSize(s) = ird[s]
           /\ ReadSize("files") \in Int
           /\ ReadSize("files") = ird.files * HashSize <=> HashesFit
<1>1. ird.files * HashSize \in Nat
  BY IrdTypes, IrdAssumption
<1>2. ReadSize("files") = ToInt(ird.files * HashSize)
  BY DEF ReadSize
<1>3. /\ ReadSize("files") \in Int
      /\ ReadSize("files") = ird.files * HashSize <=> HashesFit
  BY <1>1, <1>2, Wraps DEF HashesFit
<1>. QED BY <1>3 DEF ReadSize

LEMMA LoadInit == Init => Inv
<1>. SUFFICES ASSUME Init PROVE Inv
  OBVIOUS
<1>1. TypeOK
  <2>1. pos \in 0 .. avail
    BY IrdAssumption DEF Init
  <2>2. /\ ptr \in [Pointers -> {"unset", "live", "freed"}]
        /\ out \in [Images -> {"none", "part", "junk", "exact"}]
    BY DEF Init
  <2>3. ird \in Irds /\ avail \in 0 .. MaxAvail /\ pc = "open" /\ ret = "EXIT_OK"
    BY DEF Init
  <2>4. /\ bad \in BOOLEAN /\ failed \in BOOLEAN /\ badFree \in BOOLEAN
        /\ full \in BOOLEAN
    BY DEF Init
  <2>. QED BY <2>1, <2>2, <2>3, <2>4 DEF TypeOK
<1>2. ReadInv
  BY DEF Init, ReadInv, Clean, ReadTo, Images, Genuine
<1>3. PtrInv
  BY DEF Init, PtrInv, SetBy
<1>4. LoadedHasNoJunk /\ AllOrNothing /\ BadFreeOnlyOnTitle
  BY DEF Init, LoadedHasNoJunk, Loaded, AllOrNothing, BadFreeOnlyOnTitle
<1>. QED BY <1>1, <1>2, <1>3, <1>4 DEF Inv

(* The labels free what was set, but for the title that could not be read. *)
LEMMA FreesSet ==
    ASSUME NEW s \in Sections
    PROVE  Frees(s) = IF s = "title" THEN {"title"} ELSE SetBy(s)
BY DEF Sections, Frees, ExitFrees, SetBy, Pointers

(* A failing section: nothing stays allocated.                             *)
LEMMA FailStep ==
    ASSUME Inv, pc \in Sections, NEW e \in Errors, Fail(e),
           pc = "title" => /\ e \in {"FG_READ_ERROR", "ALLOC_ERROR"}
                           /\ UNCHANGED out
    PROVE  /\ pc' \in {"done", "aborted"} /\ ret' = e
           /\ ptr' \in [Pointers -> {"unset", "freed"}]
           /\ badFree' \in BOOLEAN
           /\ ReadInv' /\ PtrInv' /\ LoadedHasNoJunk' /\ AllOrNothing'
           /\ BadFreeOnlyOnTitle'
<1>. DEFINE unset == {p \in Frees(pc) : ptr[p] # "live"}
<1>p. \A p \in Pointers : ptr[p] = IF p \in SetBy(pc) THEN "live" ELSE "unset"
  BY DEF Inv, PtrInv, Running
<1>f. Frees(pc) = IF pc = "title" THEN {"title"} ELSE SetBy(pc)
  BY FreesSet
<1>s. SetBy(pc) \subseteq Pointers /\ "title" \in Pointers
      /\ (pc = "title" => SetBy(pc) = {})
  BY DEF SetBy, Sections, Pointers
<1>1. /\ pc' \in {"done", "aborted"} /\ ret' = e
      /\ ptr' = [p \in Pointers |->
                    IF p \in Frees(pc) \ unset THEN "freed" ELSE ptr[p]]
      /\ badFree' = (unset # {})
  BY DEF Fail
<1>2. unset = IF pc = "title" THEN {"title"} ELSE {}
  BY <1>p, <1>f, <1>s
<1>. HIDE DEF unset
<1>3. \A p \in Pointers : ptr'[p] = IF p \in SetBy(pc) THEN "freed" ELSE "unset"
  BY <1>p, <1>f, <1>s, <1>1, <1>2
<1>4. ptr' \in [Pointers -> {"unset", "freed"}]
  BY <1>1, <1>3
<1>5. badFree' \in BOOLEAN
  BY <1>1
<1>6. e # "EXIT_OK"
  BY DEF Errors
<1>7. ReadInv' /\ PtrInv'
  BY <1>1 DEF ReadInv, PtrInv, Running, Sections
<1>8. LoadedHasNoJunk' /\ AllOrNothing'
  BY <1>1, <1>3, <1>6 DEF LoadedHasNoJunk, Loaded, AllOrNothing
<1>9. BadFreeOnlyOnTitle'
  <2>1. SUFFICES ASSUME badFree' PROVE BadFreeOnlyOnTitle'
    BY DEF BadFreeOnlyOnTitle
  <2>2. pc = "title"
    BY <1>1, <1>2, <2>1
  <2>3. out["header"] = "none"
    BY <2>2 DEF Inv, ReadInv
  <2>. QED BY <1>1, <1>3, <1>s, <2>2, <2>3 DEF BadFreeOnlyOnTitle
<1>. QED BY <1>1, <1>4, <1>5, <1>7, <1>8, <1>9

(* Each section, read whole, is what the next one starts with.             *)
Units(s) == CASE s \in {"head", "body", "foot"} -> 1
              [] s = "skip" -> 0
              [] OTHER -> 1 + ReadSize(s)

LEMMA Following ==
    ASSUME ird \in Irds, NEW s \in Sections, s # "foot"
    PROVE  /\ \A p \in Pointers :
                 p \in SetBy(After[s]) <=> p \in SetBy(s) \/ p = s
           /\ ReadTo(After[s]) = ReadTo(s) + Units(s)
<1>t. /\ ird.title \in Nat /\ ird.header \in Nat /\ ird.footer \in Nat
      /\ ird.regions \in Nat /\ ReadSize("files") \in Int
      /\ \A k \in {"title", "regions", "header", "footer"} : ReadSize(k) = ird[k]
  BY IrdTypes, SizeTypes
<1>1. CASE s = "head"
  BY <1>t, <1>1 DEF After, SetBy, Pointers, ReadTo, Units
<1>2. CASE s = "title"
  BY <1>t, <1>2 DEF After, SetBy, Pointers, ReadTo, Units
<1>3. CASE s = "body"
  BY <1>t, <1>3 DEF After, SetBy, Pointers, ReadTo, Units
<1>4. CASE s = "skip"
  BY <1>t, <1>4 DEF After, SetBy, Pointers, ReadTo, Units
<1>5. CASE s = "header"
  BY <1>t, <1>5 DEF After, SetBy, Pointers, ReadTo, Units
<1>6. CASE s = "footer"
  BY <1>t, <1>6 DEF After, SetBy, Pointers, ReadTo, Units
<1>7. CASE s = "regions"
  BY <1>t, <1>7 DEF After, SetBy, Pointers, ReadTo, Units
<1>8. CASE s = "files"
  BY <1>t, <1>8 DEF After, SetBy, Pointers, ReadTo, Units
<1>. QED BY <1>1, <1>2, <1>3, <1>4, <1>5, <1>6, <1>7, <1>8 DEF Sections

Unpacks == \E o : Genuine(pc, o) /\ out' = [out EXCEPT ![pc] = o]

(* A section that was read: the next one starts where this one ends.       *)
LEMMA NextStep ==
    ASSUME Inv, pc \in Sections, pc' = After[pc], UNCHANGED <<ird, full, ret, badFree>>,
           \A p \in Pointers : ptr'[p] = IF p = pc THEN "live" ELSE ptr[p],
           \/ /\ Clean
              /\ pos' = ReadTo(pc) + Units(pc)
              /\ pc \in {"header", "footer"} => Unpacks
              /\ pc \notin {"header", "footer"} => UNCHANGED out
           \/ pc \in {"header", "footer"} /\ pos' = avail'
    PROVE  /\ pc' \in (Sections \ {"head"}) \cup {"done"}
           /\ ReadInv' /\ PtrInv' /\ LoadedHasNoJunk' /\ AllOrNothing'
           /\ BadFreeOnlyOnTitle'
<1>p. /\ \A p \in Pointers : ptr[p] = IF p \in SetBy(pc) THEN "live" ELSE "unset"
      /\ ret = "EXIT_OK" /\ badFree = FALSE
  BY DEF Inv, PtrInv, Running
<1>1. pc' \in (Sections \ {"head"}) \cup {"done"}
  BY DEF After, Sections
<1>2. pc = "foot" <=> pc' = "done"
  BY DEF After, Sections
<1>3. pc # "foot" =>
         \A p \in Pointers : p \in SetBy(pc') <=> p \in SetBy(pc) \/ p = pc
  BY Following DEF Inv, TypeOK
<1>4. PtrInv'
  <2>1. SUFFICES ASSUME pc' # "done" PROVE PtrInv'
    BY DEF PtrInv, Running, Sections
  <2>. QED BY <1>p, <1>2, <1>3, <2>1 DEF PtrInv
<1>5. AllOrNothing'
  <2>1. SUFFICES ASSUME pc' = "done" PROVE AllOrNothing'
    BY DEF AllOrNothing
  <2>2. \A p \in Pointers : p \in SetBy(pc)
    BY <1>2, <2>1 DEF SetBy
  <2>. QED BY <1>p, <2>2 DEF AllOrNothing
<1>6. BadFreeOnlyOnTitle'
  BY <1>p DEF BadFreeOnlyOnTitle
<1>t. /\ out \in [Images -> {"none", "part", "junk", "exact"}]
      /\ ird \in Irds
  BY DEF Inv, TypeOK
<1>7. ReadInv'
  <2>1. pc' \notin {"open", "head", "title"} \/ out'["header"] = "none"
    BY <1>1 DEF After, Sections, Inv, ReadInv
  <2>2. CASE pc' = "done"
    BY <2>2 DEF ReadInv, Running, Sections
  <2>3. CASE pc \in {"header", "footer"} /\ pos' = avail'
    <3>1. pc' \in {"footer", "regions"}
      BY <2>3 DEF After
    <3>. QED BY <2>3, <3>1 DEF ReadInv, Spent
  <2>4. CASE /\ pc' # "done" /\ Clean
             /\ pos' = ReadTo(pc) + Units(pc)
             /\ pc \in {"header", "footer"} => Unpacks
             /\ pc \notin {"header", "footer"} => UNCHANGED out
    <3>1. pos' = ReadTo(pc)'
      <4>1. ReadTo(pc') = ReadTo(pc) + Units(pc)
        BY <1>2, <1>t, <2>4, Following
      <4>2. ReadTo(pc)' = ReadTo(pc')
        BY DEF ReadTo
      <4>. QED BY <2>4, <4>1, <4>2
    <3>2. /\ pc' \in {"footer", "regions", "files", "foot"}
                => Genuine("header", out'["header"])
          /\ pc' \in {"regions", "files", "foot"} => Genuine("footer", out'["footer"])
      <4>1. CASE pc = "header"
        <5>1. pc' = "footer" /\ Genuine("header", out'["header"])
          BY <1>t, <2>4, <4>1 DEF Unpacks, After, Images
        <5>. QED BY <5>1
      <4>2. CASE pc = "footer"
        <5>1. /\ pc' = "regions" /\ Genuine("footer", out'["footer"])
              /\ Genuine("header", out["header"]) /\ out'["header"] = out["header"]
          BY <1>t, <2>4, <4>2 DEF Unpacks, After, Images, Clean
        <5>. QED BY <5>1
      <4>3. CASE pc \notin {"header", "footer"}
        BY <2>4, <4>3 DEF Clean, After, Sections
      <4>. QED BY <4>1, <4>2, <4>3
    <3>. QED BY <2>1, <3>1, <3>2 DEF ReadInv, Clean, Genuine
  <2>. QED BY <2>2, <2>3, <2>4
<1>8. LoadedHasNoJunk'
  <2>1. SUFFICES ASSUME pc' = "done" PROVE LoadedHasNoJunk'
    BY DEF LoadedHasNoJunk, Loaded
  <2>2. pc = "foot" /\ Clean /\ pos' = ReadTo("foot") + 1 /\ UNCHANGED out
    BY <1>2, <2>1 DEF Units
  <2>3. pos' = Total <=> HashesFit
    <3>1. pos' = 8 + ird.title + ird.header + ird.footer + ird.regions
                   + ReadSize("files")
      BY <1>t, <2>2, IrdTypes, SizeTypes DEF ReadTo
    <3>2. ird.files * HashSize \in Nat
      BY <1>t, IrdTypes, IrdAssumption
    <3>3. pos' = Total <=> ReadSize("files") = ird.files * HashSize
      BY <1>t, <3>1, <3>2, IrdTypes, SizeTypes DEF Total
    <3>. QED BY <1>t, <3>3, SizeTypes
  <2>4. \A p \in Images : Genuine(p, out[p])
    BY <2>2 DEF Clean, Images
  <2>. QED BY <2>2, <2>3, <2>4 DEF LoadedHasNoJunk, Genuine, Total, HashesFit
<1>. QED BY <1>1, <1>4, <1>5, <1>6, <1>7, <1>8

LEMMA ReadPos ==
    ASSUME TypeOK, NEW n \in Nat, (Delivers(n) /\ Take(n)) \/ Exhaust
    PROVE  pos' \in 0 .. avail /\ failed' \in BOOLEAN
<1>1. avail \in Nat /\ pos \in 0 .. avail
  BY IrdAssumption DEF TypeOK
<1>2. pos' \in 0 .. avail
  BY <1>1 DEF Delivers, Take, Exhaust
<1>3. failed' \in BOOLEAN
  BY DEF TypeOK, Take, Exhaust
<1>. QED BY <1>2, <1>3

(* A section that could be read was not preceded by junk.                  *)
LEMMA ReadClean ==
    ASSUME Inv, pc \in Sections, NEW n \in Nat \ {0}, Delivers(n)
    PROVE  Clean
<1>1. avail \in Nat /\ pos \in 0 .. avail
  BY IrdAssumption DEF Inv, TypeOK
<1>2. pos # avail
  BY <1>1 DEF Delivers
<1>. QED BY <1>2 DEF Inv, ReadInv, Running, Spent

LEMMA TypesNext ==
    ASSUME TypeOK, UNCHANGED <<ird, full, avail, bad>>,
           pos' \in 0 .. avail, failed' \in BOOLEAN, badFree' \in BOOLEAN,
           ptr' \in [Pointers -> {"unset", "live", "freed"}],
           out' \in [Images -> {"none", "part", "junk", "exact"}],
           pc' \in Sections \cup {"done", "aborted"},
           ret' \in Errors \cup {"EXIT_OK"}
    PROVE  TypeOK'
BY DEF TypeOK, Sections

(* Both ways a section may go keep the invariant.                          *)
LEMMA Failed ==
    ASSUME Inv, pc \in Sections, NEW e \in Errors, Fail(e),
           pc = "title" => /\ e \in {"FG_READ_ERROR", "ALLOC_ERROR"}
                           /\ UNCHANGED out,
           UNCHANGED <<ird, full, avail, bad>>,
           pos' \in 0 .. avail, failed' \in BOOLEAN,
           out' \in [Images -> {"none", "part", "junk", "exact"}]
    PROVE  Inv'
<1>1. TypeOK'
  <2>1. ptr' \in [Pointers -> {"unset", "live", "freed"}]
    BY FailStep
  <2>. QED BY <2>1, FailStep, TypesNext DEF Inv
<1>. QED BY <1>1, FailStep DEF Inv

LEMMA WasRead ==
    ASSUME Inv, pc \in Sections, pc' = After[pc],
           UNCHANGED <<ird, full, avail, bad, ret, badFree>>,
           pos' \in 0 .. avail, failed' \in BOOLEAN,
           ptr' = IF pc \in Pointers THEN [ptr EXCEPT ![pc] = "live"] ELSE ptr,
           \/ /\ Clean /\ pos' = ReadTo(pc) + Units(pc)
              /\ pc \in {"header", "footer"} => Unpacks
              /\ pc \notin {"header", "footer"} => UNCHANGED out
           \/ /\ pc \in {"header", "footer"} /\ pos' = avail'
              /\ out' = [out EXCEPT ![pc] = "junk"]
    PROVE  Inv'
<1>t. /\ out \in [Images -> {"none", "part", "junk", "exact"}]
      /\ ptr \in [Pointers -> {"unset", "live", "freed"}]
      /\ badFree \in BOOLEAN /\ ret \in Errors \cup {"EXIT_OK"}
  BY DEF Inv, TypeOK
<1>1. \A p \in Pointers : ptr'[p] = IF p = pc THEN "live" ELSE ptr[p]
  BY <1>t
<1>2. /\ pc' \in (Sections \ {"head"}) \cup {"done"}
      /\ ReadInv' /\ PtrInv' /\ LoadedHasNoJunk' /\ AllOrNothing'
      /\ BadFreeOnlyOnTitle'
  BY <1>1, NextStep
<1>3. TypeOK'
  <2>1. ptr' \in [Pointers -> {"unset", "live", "freed"}]
    BY <1>t
  <2>2. out' \in [Images -> {"none", "part", "junk", "exact"}]
    <3>1. \A o : Genuine(pc, o) => o \in {"none", "part", "junk", "exact"}
      BY DEF Genuine
    <3>2. pc \in {"header", "footer"} /\ Unpacks => \E o \in {"none", "part", "junk", "exact"} :
                                        out' = [out EXCEPT ![pc] = o]
      BY <3>1 DEF Unpacks
    <3>. QED BY <1>t, <3>2
  <2>3. badFree' \in BOOLEAN
    BY <1>t
  <2>4. pc' \in Sections \cup {"done", "aborted"}
    BY <1>2
  <2>5. ret' \in Errors \cup {"EXIT_OK"}
    BY <1>t
  <2>. QED BY <2>1, <2>2, <2>3, <2>4, <2>5, TypesNext DEF Inv
<1>. QED BY <1>2, <1>3 DEF Inv

LEMMA LoadStep == Inv /\ [Next]_vars => Inv'
<1>. SUFFICES ASSUME Inv, [Next]_vars PROVE Inv'
  OBVIOUS
<1>o. /\ TypeOK
      /\ out \in [Images -> {"none", "part", "junk", "exact"}]
      /\ failed \in BOOLEAN /\ pos \in 0 .. avail
  BY DEF Inv, TypeOK
<1>n. \A s \in {"title", "regions", "files", "header", "footer"} :
         1 + ird[s] \in Nat \ {0}
  <2>1. ird \in Irds
    BY <1>o DEF TypeOK
  <2>. QED BY <2>1, IrdTypes
<1>e. "FG_READ_ERROR" \in Errors /\ "FG_SEEK_ERROR" \in Errors
      /\ "F_SIZE_ERROR" \in Errors /\ "ALLOC_ERROR" \in Errors
  BY DEF Errors
<1>1. CASE Open
  <2>1. /\ (pc = "open" /\ pc' = "head") \/ (pc = "open" /\ pc' = "done")
        /\ pc' = "head" => UNCHANGED ret
        /\ pc' = "done" => ret' = "FG_OPEN_ERROR"
        /\ UNCHANGED <<ird, full, avail, bad, pos, failed, ptr, out, badFree>>
    BY <1>1 DEF Open
  <2>2. TypeOK'
    <3>1. /\ pc' \in Sections \cup {"done", "aborted"}
          /\ ret' \in Errors \cup {"EXIT_OK"}
      BY <2>1 DEF Inv, TypeOK, Errors, Sections
    <3>2. ptr' \in [Pointers -> {"unset", "live", "freed"}]
      BY <2>1 DEF Inv, TypeOK
    <3>3. failed' \in BOOLEAN /\ badFree' \in BOOLEAN
      BY <2>1 DEF Inv, TypeOK
    <3>4. /\ UNCHANGED <<ird, full, avail, bad>> /\ pos' \in 0 .. avail
          /\ out' \in [Images -> {"none", "part", "junk", "exact"}]
      BY <1>o, <2>1
    <3>. QED BY <1>o, <3>1, <3>2, <3>3, <3>4, TypesNext
  <2>3. ReadInv' /\ PtrInv'
    <3>1. pos = 0 /\ pos' = 0 /\ out["header"] = "none" /\ pc' \in {"head", "done"}
      BY <2>1 DEF Inv, ReadInv, Running, Clean, ReadTo, Spent
    <3>2. ReadInv'
      BY <2>1, <3>1 DEF ReadInv, Running, Sections, Clean, ReadTo
    <3>3. PtrInv'
      BY <2>1, <3>1 DEF Inv, PtrInv, Running, Sections, SetBy
    <3>. QED BY <3>2, <3>3
  <2>4. LoadedHasNoJunk' /\ BadFreeOnlyOnTitle'
    BY <2>1 DEF Inv, PtrInv, Running, LoadedHasNoJunk, Loaded, BadFreeOnlyOnTitle
  <2>5. AllOrNothing'
    BY <2>1 DEF Inv, PtrInv, Running, AllOrNothing, SetBy
  <2>. QED BY <2>2, <2>3, <2>4, <2>5 DEF Inv
<1>2. CASE ReadFixed
  <2>0. /\ pc \in {"head", "body", "foot"} /\ UNCHANGED <<ird, full, avail, bad, out>>
        /\ pc \in Sections
    BY <1>2 DEF ReadFixed, Sections
  <2>1. CASE /\ Delivers(1) /\ Take(1)
             /\ pc' = After[pc]
             /\ UNCHANGED <<ptr, ret, badFree>>
    <3>1. Clean
      BY <2>0, <2>1, ReadClean
    <3>2. pos' = ReadTo(pc) + Units(pc)
      BY <2>0, <2>1, <3>1 DEF Take, Clean, Units
    <3>3. pos' \in 0 .. avail /\ failed' \in BOOLEAN
      BY <1>o, <2>1, ReadPos
    <3>4. pc \notin Pointers /\ pc \notin {"header", "footer"}
      BY <2>0 DEF Pointers
    <3>. QED BY <2>0, <2>1, <3>1, <3>2, <3>3, <3>4, WasRead
  <2>2. CASE Exhaust /\ Fail("FG_READ_ERROR")
    <3>1. pos' \in 0 .. avail /\ failed' \in BOOLEAN
      BY <1>o, <2>2, ReadPos
    <3>. QED BY <1>e, <1>o, <2>0, <2>2, <3>1, Failed
  <2>. QED BY <1>2, <2>1, <2>2 DEF ReadFixed
<1>3. CASE Skip
  <2>0. pc = "skip" /\ pc \in Sections
        /\ UNCHANGED <<ird, full, avail, bad, pos, failed, out>>
    BY <1>3 DEF Skip, Sections
  <2>1. CASE pc' = After[pc] /\ UNCHANGED <<ptr, ret, badFree>>
    <3>1. Clean /\ pos' = ReadTo(pc) + Units(pc)
      <4>1. Clean
        BY <2>0 DEF Inv, ReadInv, Running, Spent
      <4>2. pos \in Nat
        BY <1>o
      <4>. QED BY <2>0, <4>1, <4>2 DEF Clean, Units
    <3>2. pc \notin Pointers /\ pc \notin {"header", "footer"}
      BY <2>0 DEF Pointers
    <3>3. pos' \in 0 .. avail /\ failed' \in BOOLEAN
      BY <1>o, <2>0
    <3>. QED BY <2>0, <2>1, <3>1, <3>2, <3>3, WasRead
  <2>2. CASE Fail("FG_SEEK_ERROR")
    <3>3. pos' \in 0 .. avail /\ failed' \in BOOLEAN
      BY <1>o, <2>0
    <3>. QED BY <1>e, <1>o, <2>0, <2>2, <3>3, Failed
  <2>. QED BY <1>3, <2>1, <2>2 DEF Skip
<1>4. CASE ReadVar
  <2>0. /\ pc \in {"title", "regions", "files"} /\ UNCHANGED <<ird, full, avail, bad, out>>
        /\ pc \in Sections /\ ReadSize(pc) \in Int /\ pc \in Pointers
        /\ pc \notin {"header", "footer"}
    <3>1. pc \in {"title", "regions", "files"} /\ UNCHANGED <<ird, full, avail, bad, out>>
      BY <1>4 DEF ReadVar
    <3>2. ReadSize(pc) \in Int
      BY <1>o, <3>1, IrdTypes, SizeTypes DEF TypeOK
    <3>. QED BY <3>1, <3>2 DEF Sections, Pointers
  <2>1. CASE /\ ReadSize(pc) >= 0
             /\ Delivers(1 + ReadSize(pc)) /\ Take(1 + ReadSize(pc))
             /\ ptr' = [ptr EXCEPT ![pc] = "live"]
             /\ pc' = After[pc]
             /\ UNCHANGED <<ret, badFree>>
    <3>0. 1 + ReadSize(pc) \in Nat \ {0}
      BY <2>0, <2>1
    <3>1. Clean
      BY <2>0, <2>1, <3>0, ReadClean
    <3>2. pos' = ReadTo(pc) + Units(pc)
      BY <2>0, <2>1, <3>1 DEF Take, Clean, Units
    <3>3. pos' \in 0 .. avail /\ failed' \in BOOLEAN
      BY <1>o, <2>1, <3>0, ReadPos
    <3>. QED BY <2>0, <2>1, <3>1, <3>2, <3>3, WasRead
  <2>2. ASSUME NEW e \in {"FG_READ_ERROR", "ALLOC_ERROR"},
               Exhaust \/ (Delivers(1) /\ Take(1)), Fail(e)
        PROVE  Inv'
    <3>1. pos' \in 0 .. avail /\ failed' \in BOOLEAN
      BY <1>o, <2>2, ReadPos
    <3>. QED BY <1>e, <1>o, <2>0, <2>2, <3>1, Failed
  <2>. DEFINE wanted == IF ReadSize(pc) < 0 THEN 1 ELSE 1 + ReadSize(pc)
  <2>3. ReadSize(pc) >= 0 => wanted = 1 + ReadSize(pc)
    BY <2>0
  <2>4. \/ /\ ReadSize(pc) >= 0 /\ Delivers(wanted) /\ Take(wanted)
           /\ ptr' = [ptr EXCEPT ![pc] = "live"]
           /\ pc' = After[pc]
           /\ UNCHANGED <<ret, badFree>>
        \/ Exhaust /\ Fail("FG_READ_ERROR")
        \/ Delivers(1) /\ Take(1) /\ Fail("ALLOC_ERROR")
    BY <1>4 DEF ReadVar
  <2>. HIDE DEF wanted
  <2>. QED BY <2>1, <2>2, <2>3, <2>4
<1>5. CASE ReadCompressed
  <2>. DEFINE n == ird[pc]
  <2>0. /\ pc \in {"header", "footer"} /\ UNCHANGED <<ird, full, avail, bad>>
        /\ pc \in Sections /\ 1 + n \in Nat \ {0} /\ pc \in Pointers
        /\ pc # "title"
    BY <1>5, <1>n DEF ReadCompressed, Sections, Pointers
  <2>1. ASSUME NEW e \in Errors, Fail(e), pos' \in 0 .. avail, failed' \in BOOLEAN,
               UNCHANGED out \/ out' = [out EXCEPT ![pc] = "part"]
        PROVE  Inv'
    <3>1. out' \in [Images -> {"none", "part", "junk", "exact"}]
      BY <1>o, <2>1
    <3>. QED BY <2>0, <2>1, <3>1, Failed
  <2>2. ASSUME UnpackFails, pos' \in 0 .. avail, failed' \in BOOLEAN
        PROVE  Inv'
    BY <2>1, <2>2 DEF UnpackFails, Errors
  <2>3. CASE /\ Exhaust
             /\ \/ \E e \in Errors : Fail(e) /\ UNCHANGED out
                \/ Unpacked("junk")
                \/ UnpackFails
    <3>1. pos' = avail' /\ pos' \in 0 .. avail /\ failed' \in BOOLEAN
      BY <1>o, <2>0, <2>3, ReadPos DEF Exhaust
    <3>2. CASE \E e \in Errors : Fail(e) /\ UNCHANGED out
      BY <2>1, <3>1, <3>2
    <3>3. CASE Unpacked("junk")
      BY <2>0, <3>1, <3>3, WasRead DEF Unpacked
    <3>4. CASE UnpackFails
      BY <2>2, <3>1, <3>4
    <3>. QED BY <2>3, <3>2, <3>3, <3>4
  <2>4. CASE /\ Delivers(1) /\ Take(1) /\ UNCHANGED out
             /\ \E e \in {"ALLOC_ERROR", "ENCODING_ERROR", "PATH_BUFFER_ERROR",
                          "F_OPEN_ERROR", "F_WRITE_ERROR"} : Fail(e)
    <3>1. pos' \in 0 .. avail /\ failed' \in BOOLEAN
      BY <1>o, <2>4, ReadPos
    <3>. QED BY <2>1, <2>4, <3>1 DEF Errors
  <2>5. CASE /\ Delivers(1 + n) /\ Take(1 + n)
             /\ (\E o \in Yields(pc) : Unpacked(o)) \/ UnpackFails
    <3>1. pos' \in 0 .. avail /\ failed' \in BOOLEAN
      BY <1>o, <2>0, <2>5, ReadPos
    <3>2. CASE UnpackFails
      BY <2>2, <3>1, <3>2
    <3>3. CASE \E o \in Yields(pc) : Unpacked(o)
      <4>0. PICK o \in Yields(pc) : Unpacked(o)
        BY <3>3
      <4>u. /\ Genuine(pc, o) /\ out' = [out EXCEPT ![pc] = o]
            /\ ptr' = [ptr EXCEPT ![pc] = "live"] /\ pc' = After[pc]
            /\ UNCHANGED <<ret, badFree>>
        BY <4>0 DEF Unpacked, Yields, Genuine
      <4>e. Unpacks
        BY <4>u DEF Unpacks
      <4>1. Clean
        BY <2>0, <2>5, ReadClean
      <4>2. pos' = ReadTo(pc) + Units(pc)
        <5>1. Units(pc) = 1 + n
          BY <2>0, <1>o, SizeTypes DEF Units, TypeOK
        <5>. QED BY <2>5, <4>1, <5>1 DEF Take, Clean
      <4>. QED BY <2>0, <3>1, <4>u, <4>e, <4>1, <4>2, WasRead
    <3>. QED BY <2>5, <3>2, <3>3
  <2>. QED BY <1>5, <1>e, <2>3, <2>4, <2>5 DEF ReadCompressed
<1>6. CASE UNCHANGED vars
  <2>0. Inv
    OBVIOUS
  <2>1. TypeOK'
    BY <1>6, <2>0 DEF vars, Inv, TypeOK
  <2>2. Clean => Clean'
    BY <1>6 DEF vars, Clean, ReadTo, ReadSize, Genuine
  <2>3. ReadInv'
    BY <1>6, <2>0, <2>2 DEF vars, Inv, ReadInv, Spent, Running
  <2>4. PtrInv'
    BY <1>6, <2>0 DEF vars, Inv, PtrInv, Running
  <2>5. LoadedHasNoJunk'
    BY <1>6, <2>0 DEF vars, Inv, LoadedHasNoJunk, Loaded, Total, HashesFit
  <2>6. AllOrNothing' /\ BadFreeOnlyOnTitle'
    BY <1>6, <2>0 DEF vars, Inv, AllOrNothing, BadFreeOnlyOnTitle
  <2>. QED BY <2>1, <2>3, <2>4, <2>5, <2>6 DEF Inv
<1>. QED BY <1>1, <1>2, <1>3, <1>4, <1>5, <1>6 DEF Next, Terminated

LEMMA LoadInv == Spec => []Inv
<1>. QED BY LoadInit, LoadStep, PTL DEF Spec

-----------------------------------------------------------------------------
(* Every variable keeps its type; no more is read than the stream has.     *)
THEOREM LoadTypeCorrect == Spec => []TypeOK
<1>1. Inv => TypeOK
  BY DEF Inv
<1>. QED BY <1>1, LoadInv, PTL

(* load_ird reports EXIT_OK only for an IRD read to its end, and never     *)
(* with a header or footer that is made up, wherever the stream fails: at  *)
(* most a tail of it is missing, which a full device did not take or which *)
(* the image's own stream did not have.                                    *)
THEOREM LoadedHasNoJunkCorrect == Spec => []LoadedHasNoJunk
<1>1. Inv => LoadedHasNoJunk
  BY DEF Inv
<1>. QED BY <1>1, LoadInv, PTL

(* A failed load leaves nothing allocated, a successful one everything.    *)
THEOREM AllOrNothingCorrect == Spec => []AllOrNothing
<1>1. Inv => AllOrNothing
  BY DEF Inv
<1>. QED BY <1>1, LoadInv, PTL

(* Only an unreadable title leads to a bad free.                           *)
THEOREM BadFreeOnlyOnTitleCorrect == Spec => []BadFreeOnlyOnTitle
<1>1. Inv => BadFreeOnlyOnTitle
  BY DEF Inv
<1>. QED BY <1>1, LoadInv, PTL

-----------------------------------------------------------------------------
(* A load of a complete IRD: the stream has what each section asks for, and *)
(* no section behind the seek is reached by version 7.                     *)
Good == avail >= Total

Behind == {"header", "footer", "regions", "files", "foot"}
SeeksNone == (pc \in Behind \/ Loaded) => ird.version # 7

StreamErrors == {"FG_READ_ERROR", "FG_SEEK_ERROR", "F_SIZE_ERROR"}
Smooth ==
    Good => /\ Running => pos = ReadTo(pc) /\ ~failed
            /\ (pc = "done" /\ ird.version # 7) => ret \notin StreamErrors

IntactInv == SeeksNone /\ Smooth

(* What an int makes of a size is never more than the size.                *)
LEMMA IntIsLess ==
    ASSUME NEW x \in Nat
    PROVE  ToInt(x) <= x
<1>1. /\ IntMod \in Nat \ {0} /\ x % IntMod \in 0 .. (IntMod - 1)
      /\ IntMod \div 2 \in Nat
  BY IrdAssumption
<1>2. x % IntMod <= x
  <2>1. CASE x < IntMod
    BY <1>1, <2>1
  <2>2. CASE x >= IntMod
    BY <1>1, <2>2
  <2>. QED BY <1>1, <2>1, <2>2
<1>. QED BY <1>1, <1>2 DEF ToInt

(* At no section does the stream have to have more than the whole IRD.     *)
LEMMA WithinTotal ==
    ASSUME ird \in Irds, NEW s \in Sections
    PROVE  /\ ReadTo(s) \in Int /\ Units(s) \in Int /\ Total \in Nat
           /\ s # "skip" => ReadTo(s) + 1 <= Total
           /\ ReadTo(s) + Units(s) <= Total
<1>. DEFINE h == ird.files * HashSize
            z == ReadSize("files")
<1>1. /\ ird.title \in Nat /\ ird.header \in Nat /\ ird.footer \in Nat
      /\ ird.regions \in Nat /\ h \in Nat
  BY IrdTypes, IrdAssumption
<1>2. z \in Int /\ z <= h
  BY <1>1, SizeTypes, IntIsLess DEF ReadSize
<1>3. /\ ReadSize("title") = ird.title /\ ReadSize("header") = ird.header
      /\ ReadSize("footer") = ird.footer /\ ReadSize("regions") = ird.regions
  BY SizeTypes
<1>4. Total = 8 + ird.title + ird.header + ird.footer + ird.regions + h
  BY DEF Total
<1>. HIDE DEF h
<1>5. CASE s \in {"head", "title", "body", "skip"}
  BY <1>1, <1>3, <1>4, <1>5 DEF ReadTo, Units
<1>6. CASE s \in {"header", "footer", "regions"}
  BY <1>1, <1>3, <1>4, <1>6 DEF ReadTo, Units
<1>7. CASE s = "files"
  BY <1>1, <1>2, <1>4, <1>7 DEF ReadTo, Units
<1>8. CASE s = "foot"
  BY <1>1, <1>2, <1>4, <1>8 DEF ReadTo, Units
<1>. QED BY <1>5, <1>6, <1>7, <1>8 DEF Sections

LEMMA Enough ==
    ASSUME Inv, Smooth, Good, pc \in Sections
    PROVE  /\ pc # "skip" => Delivers(1)
           /\ Units(pc) >= 0 => Delivers(Units(pc))
           /\ pos = ReadTo(pc)
<1>1. ird \in Irds /\ avail \in Nat
  BY IrdAssumption DEF Inv, TypeOK
<1>2. pos = ReadTo(pc) /\ ~failed
  BY DEF Smooth, Running
<1>3. avail >= Total
  BY DEF Good
<1>4. /\ ReadTo(pc) \in Int /\ Units(pc) \in Int /\ Total \in Nat
      /\ pc # "skip" => ReadTo(pc) + 1 <= Total
      /\ ReadTo(pc) + Units(pc) <= Total
  BY <1>1, WithinTotal
<1>. QED BY <1>1, <1>2, <1>3, <1>4 DEF Delivers

LEMMA IntactFails ==
    ASSUME pc \in Sections, NEW e, Fail(e), e # "EXIT_OK", UNCHANGED <<ird, full, avail>>,
           (Good /\ ird.version # 7) => e \notin StreamErrors
    PROVE  IntactInv'
<1>1. pc' \in {"done", "aborted"} /\ ret' = e
  BY DEF Fail
<1>2. SeeksNone'
  BY <1>1 DEF SeeksNone, Behind, Loaded
<1>3. Good' = Good
  BY DEF Good, Total
<1>4. Smooth'
  BY <1>1, <1>3 DEF Smooth, Running, Sections
<1>. QED BY <1>2, <1>4 DEF IntactInv

LEMMA IntactGoesOn ==
    ASSUME Inv, IntactInv, pc \in Sections, pc' = After[pc],
           UNCHANGED <<ird, full, avail, ret>>,
           pc = "skip" => ird.version # 7,
           Good => pos' = pos + Units(pc) /\ failed' = failed
    PROVE  IntactInv'
<1>1. ret = "EXIT_OK" /\ ird \in Irds
  BY DEF Inv, TypeOK, PtrInv, Running
<1>2. SeeksNone'
  BY <1>1 DEF IntactInv, SeeksNone, Behind, Loaded, After, Sections
<1>3. Good' = Good
  BY DEF Good, Total
<1>4. Smooth'
  <2>. SUFFICES ASSUME Good
                PROVE  /\ Running' => pos' = ReadTo(pc') /\ ~failed'
                       /\ (pc' = "done" /\ ird.version # 7) =>
                              ret' \notin StreamErrors
    <3>1. ReadTo(pc)' = ReadTo(pc')
      BY DEF ReadTo
    <3>. QED BY <1>3, <3>1 DEF Smooth
  <2>1. pc # "foot" <=> Running'
    BY DEF After, Running, Sections
  <2>2. pos = ReadTo(pc) /\ ~failed
    BY DEF IntactInv, Smooth, Running
  <2>3. pc # "foot" => ReadTo(After[pc]) = ReadTo(pc) + Units(pc)
    BY <1>1, Following
  <2>4. ret' \notin StreamErrors
    BY <1>1 DEF StreamErrors
  <2>. QED BY <2>1, <2>2, <2>3, <2>4
<1>. QED BY <1>2, <1>4 DEF IntactInv

LEMMA IntactStep == Inv /\ IntactInv /\ [Next]_vars => IntactInv'
<1>. SUFFICES ASSUME Inv, IntactInv, [Next]_vars PROVE IntactInv'
  OBVIOUS
<1>0. ird \in Irds /\ Smooth /\ pos \in Nat
  <2>1. pos \in 0 .. avail /\ avail \in Nat
    BY IrdAssumption DEF Inv, TypeOK
  <2>. QED BY <2>1 DEF Inv, TypeOK, IntactInv
<1>1. CASE Open
  <2>1. /\ pc = "open" /\ pc' \in {"head", "done"}
        /\ pc' = "done" => ret' = "FG_OPEN_ERROR"
        /\ UNCHANGED <<ird, full, avail, bad, pos, failed, ptr, out, badFree>>
    BY <1>1 DEF Open
  <2>2. SeeksNone'
    BY <2>1 DEF SeeksNone, Behind, Loaded
  <2>3. Good' = Good
    BY <2>1 DEF Good, Total
  <2>4. Good => pos = 0 /\ ~failed
    BY <1>0, <2>1 DEF Smooth, Running, ReadTo
  <2>5. Smooth'
    BY <2>1, <2>3, <2>4 DEF Smooth, Running, ReadTo, StreamErrors, Sections
  <2>. QED BY <2>2, <2>5 DEF IntactInv
<1>2. CASE ReadFixed
  <2>0. /\ pc \in {"head", "body", "foot"} /\ pc \in Sections /\ Units(pc) = 1
        /\ UNCHANGED <<ird, full, avail>>
    BY <1>2 DEF ReadFixed, Sections, Units
  <2>1. CASE Delivers(1) /\ Take(1) /\ pc' = After[pc] /\ UNCHANGED ret
    BY <2>0, <2>1, IntactGoesOn DEF Take
  <2>2. CASE ~Delivers(1) /\ Fail("FG_READ_ERROR")
    <3>1. ~Good
      BY <1>0, <2>0, <2>2, Enough
    <3>. QED BY <2>0, <2>2, <3>1, IntactFails
  <2>. QED BY <1>2, <2>1, <2>2 DEF ReadFixed
<1>3. CASE Skip
  <2>0. pc = "skip" /\ pc \in Sections /\ UNCHANGED <<ird, full, avail, pos, failed>>
    BY <1>3 DEF Skip, Sections
  <2>1. CASE ird.version # 7 /\ pc' = After[pc] /\ UNCHANGED ret
    <3>1. pos' = pos + Units(pc) /\ failed' = failed
      BY <1>0, <2>0 DEF Units
    <3>. QED BY <2>0, <2>1, <3>1, IntactGoesOn
  <2>2. CASE ird.version = 7 /\ Fail("FG_SEEK_ERROR")
    BY <2>0, <2>2, IntactFails
  <2>. QED BY <1>3, <2>1, <2>2 DEF Skip
<1>4. CASE ReadVar
  <2>. DEFINE z == ReadSize(pc)
              wanted == IF z < 0 THEN 1 ELSE 1 + z
  <2>0. /\ pc \in {"title", "regions", "files"} /\ pc \in Sections
        /\ UNCHANGED <<ird, full, avail>> /\ z \in Int /\ Units(pc) = 1 + z
    <3>1. pc \in {"title", "regions", "files"} /\ UNCHANGED <<ird, full, avail>>
      BY <1>4 DEF ReadVar
    <3>2. z \in Int
      BY <1>0, <3>1, IrdTypes, SizeTypes
    <3>. QED BY <3>1, <3>2 DEF Sections, Units
  <2>1. \/ /\ z >= 0 /\ Delivers(wanted) /\ Take(wanted)
           /\ pc' = After[pc] /\ UNCHANGED ret
        \/ ~Delivers(wanted) /\ Fail("FG_READ_ERROR")
        \/ Fail("ALLOC_ERROR")
    BY <1>4 DEF ReadVar
  <2>. HIDE DEF z
  <2>2. CASE z >= 0 /\ Take(wanted) /\ pc' = After[pc] /\ UNCHANGED ret
    <3>1. wanted = Units(pc)
      BY <2>0, <2>2
    <3>. QED BY <2>0, <2>2, <3>1, IntactGoesOn DEF Take
  <2>3. CASE ~Delivers(wanted) /\ Fail("FG_READ_ERROR")
    <3>1. wanted = 1 \/ (wanted = Units(pc) /\ Units(pc) >= 0)
      BY <2>0
    <3>2. ~Good
      BY <1>0, <2>0, <2>3, <3>1, Enough
    <3>. QED BY <2>0, <2>3, <3>2, IntactFails
  <2>4. CASE Fail("ALLOC_ERROR")
    BY <2>0, <2>4, IntactFails DEF StreamErrors
  <2>. QED BY <2>1, <2>2, <2>3, <2>4
<1>5. CASE ReadCompressed
  <2>. DEFINE n == ird[pc]
  <2>0. /\ pc \in {"header", "footer"} /\ pc \in Sections
        /\ UNCHANGED <<ird, full, avail>> /\ n \in Nat /\ Units(pc) = 1 + n
    <3>1. pc \in {"header", "footer"} /\ UNCHANGED <<ird, full, avail>>
      BY <1>5 DEF ReadCompressed
    <3>2. n \in Nat /\ ReadSize(pc) = n
      BY <1>0, <3>1, IrdTypes, SizeTypes
    <3>. QED BY <3>1, <3>2 DEF Sections, Units
  <2>1. Good => Delivers(1) /\ Delivers(1 + n)
    BY <1>0, <2>0, Enough DEF Good
  <2>2. ASSUME NEW e, Fail(e), e # "EXIT_OK", e \notin StreamErrors \/ ~Good
        PROVE  IntactInv'
    BY <2>0, <2>2, IntactFails
  <2>3. ASSUME UnpackFails PROVE IntactInv'
    BY <2>2, <2>3 DEF UnpackFails, StreamErrors
  <2>4. CASE ~Delivers(1) /\ Fail("FG_READ_ERROR")
    BY <2>1, <2>2, <2>4
  <2>5. CASE \E e \in {"ALLOC_ERROR", "ENCODING_ERROR", "PATH_BUFFER_ERROR",
                       "F_OPEN_ERROR", "F_WRITE_ERROR"} : Fail(e)
    BY <2>2, <2>5 DEF StreamErrors
  <2>6. CASE Delivers(1 + n) /\ Take(1 + n) /\ \E o \in Yields(pc) : Unpacked(o)
    BY <2>0, <2>6, IntactGoesOn DEF Take, Unpacked
  <2>7. CASE ~Delivers(1 + n) /\ Unpacked("junk")
    BY <2>0, <2>1, <2>7, IntactGoesOn DEF Unpacked
  <2>8. CASE ~Delivers(1 + n) /\ Fail("F_SIZE_ERROR")
    BY <2>1, <2>2, <2>8
  <2>. QED BY <1>5, <2>3, <2>4, <2>5, <2>6, <2>7, <2>8 DEF ReadCompressed
<1>6. CASE UNCHANGED vars
  <2>1. UNCHANGED <<ird, full, avail, pos, failed, pc, ret>>
    BY <1>6 DEF vars
  <2>2. Good' = Good /\ Running' = Running
    BY <2>1 DEF Good, Total, Running
  <2>3. ReadTo(pc)' = ReadTo(pc)
    BY <2>1 DEF ReadTo, ReadSize
  <2>. QED BY <2>1, <2>2, <2>3 DEF IntactInv, SeeksNone, Smooth, Loaded
<1>. QED BY <1>1, <1>2, <1>3, <1>4, <1>5, <1>6 DEF Next, Terminated

LEMMA IntactInit == Init => IntactInv
BY DEF Init, IntactInv, SeeksNone, Behind, Loaded, Smooth, Running, ReadTo

(* A complete IRD loads unless memory, files or the device fail or an      *)
(* image cannot be unpacked; one of version 7 never does.                  *)
THEOREM IntactLoadsCorrect == Spec => []IntactLoads
<1>1. Inv /\ IntactInv => IntactLoads
  BY DEF IntactInv, SeeksNone, Smooth, Good, Loaded, StreamErrors, IntactLoads
<1>2. Spec => [](Inv /\ IntactInv)
  BY LoadInit, LoadStep, IntactInit, IntactStep, PTL DEF Spec
<1>. QED BY <1>1, <1>2, PTL
=============================================================================
