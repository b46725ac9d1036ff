--------------------------- MODULE Pipeline_proofs ---------------------------
(***************************************************************************)
(* Proofs about Pipeline, for any number of runs with any options: type    *)
(* correctness, and what success means for a run that never overlapped one *)
(* it shares a file with.                                                  *)
(***************************************************************************)
EXTENDS Pipeline, TLAPS

-----------------------------------------------------------------------------
(* The labels in the order a run passes them.                              *)
FromHeader == {"unpackHeader", "footer", "unpackFooter", "foot", "verify",
               "isoHeader", "isoFiles", "isoFooter", "exit"}
FromPup == {"fetchPup", "load", "header"} \cup FromHeader
Opened == {"isoFiles", "isoFooter", "exit"}

(* Two runs that are under way and share a file have been seen to.         *)
Lonely ==
    \A p, q \in Runs :
       (p # q /\ pc[p] \in Running /\ pc[q] \in Running /\ Share(p, q)) => p \in met

(* A run whose image is open is the last to have opened it, or it and the  *)
(* one that was last have overlapped.                                      *)
OpenedApart ==
    \A p, q \in Runs :
       (p # q /\ pc[q] \in Opened /\ opt[p].out = opt[q].out
          /\ iso[opt[q].out].by = p) => p \in met

(* What a run that met no other finds in the files it has opened.          *)
ImagesAreOwn(p) ==
    /\ pc[p] \in FromHeader => file[Own(p, "header")].by = p
    /\ pc[p] \in FromHeader \ {"unpackHeader"} /\ sound => Has(p, "header") = "whole"
    /\ pc[p] \in FromHeader \ {"unpackHeader", "footer"} => file[Own(p, "footer")].by = p
    /\ pc[p] \in FromHeader \ {"unpackHeader", "footer", "unpackFooter"} /\ sound
          => Has(p, "footer") = "whole"

PupIsOwn(p) ==
    /\ opt[p].pup /\ pc[p] \in FromPup => file[Own(p, "pup")].by = p
    /\ opt[p].pup /\ pc[p] \in FromPup \ {"fetchPup"} /\ sound => Has(p, "pup") = "whole"
    /\ pc[p] \in {"isoHeader", "isoFiles"} => Has(p, "pup") = "whole" \/ p \in named

IsoIsOwn(p) ==
    LET i == iso[opt[p].out] IN
    /\ pc[p] \in Opened => i.by = p
    /\ pc[p] \in Opened \/ Made(p) => (sound => i.hdr = "whole")
    /\ pc[p] \in Opened \ {"isoFiles"} \/ Made(p) =>
          /\ i.pup = "whole" \/ (i.pup = "other" /\ p \in named)
          /\ sound /\ opt[p].pup => i.pup = "whole"
    /\ pc[p] = "exit" \/ Made(p) => (sound => i.ftr = "whole")

Undisturbed(p) == ImagesAreOwn(p) /\ PupIsOwn(p) /\ IsoIsOwn(p)

Apart == \A p \in Runs : p \notin met => Undisturbed(p)

Inv == TypeOK /\ Lonely /\ OpenedApart /\ Apart

-----------------------------------------------------------------------------
(* Files and options.                                                      *)
Names == Scratch \cup {"pup"}

LEMMA OwnFile ==
    ASSUME TypeOK, NEW p \in Runs
    PROVE  /\ opt[p] \in Option
           /\ opt[p].out \in Outs
           /\ \A name \in Names : Own(p, name) \in Files
<1>1. opt[p] \in Option
  BY PipelineAssumption DEF TypeOK
<1>2. opt[p].out \in Outs /\ opt[p].sig \in Sigs /\ opt[p].rip \in Rips
  BY <1>1 DEF Option
<1>. QED BY <1>1, <1>2 DEF Own, Files, Names, Scratch

(* The files of one run are different, and so are those of two runs that   *)
(* share none.                                                             *)
LEMMA OwnDiffers ==
    ASSUME NEW p \in Runs, NEW q \in Runs, NEW m \in Names, NEW n \in Names,
           m # n \/ ~Share(p, q)
    PROVE  Own(p, m) # Own(q, n)
BY DEF Own, Share, Names, Scratch

(* The calls on a file, by what they leave.                                *)
LEMMA Truncated ==
    ASSUME TypeOK, NEW p \in Runs, NEW name \in Names, Truncate(p, name)
    PROVE  /\ file'[Own(p, name)] = [st |-> "part", by |-> p]
           /\ \A f \in Files : f # Own(p, name) => file'[f] = file[f]
           /\ file' \in [Files -> [st: Contents, by: Runs \cup {None}]]
<1>1. Own(p, name) \in Files
  BY OwnFile
<1>2. [st |-> "part", by |-> p] \in [st: Contents, by: Runs \cup {None}]
  BY DEF Contents
<1>. QED BY <1>1, <1>2 DEF Truncate, TypeOK

LEMMA Closed ==
    ASSUME TypeOK, NEW p \in Runs, NEW name \in Names, Close(p, name)
    PROVE  /\ file'[Own(p, name)].by = file[Own(p, name)].by
           /\ file[Own(p, name)].by = p /\ sound => file'[Own(p, name)].st = "whole"
           /\ \A f \in Files : f # Own(p, name) => file'[f] = file[f]
           /\ file' \in [Files -> [st: Contents, by: Runs \cup {None}]]
<1>1. Own(p, name) \in Files
  BY OwnFile
<1>2. PICK st \in {"part", "whole"} :
         /\ st = "part" => ~sound \/ file[Own(p, name)].by # p
         /\ file' = [file EXCEPT ![Own(p, name)].st = st]
  BY DEF Close
<1>3. st \in Contents
  BY DEF Contents
<1>4. file \in [Files -> [st: Contents, by: Runs \cup {None}]]
  BY DEF TypeOK
<1>5. file'[Own(p, name)] = [file[Own(p, name)] EXCEPT !.st = st]
  BY <1>1, <1>2, <1>4
<1>6. file'[Own(p, name)].st = st /\ file'[Own(p, name)].by = file[Own(p, name)].by
  BY <1>1, <1>4, <1>5
<1>7. file' \in [Files -> [st: Contents, by: Runs \cup {None}]]
  BY <1>1, <1>2, <1>3, <1>4
<1>. QED BY <1>1, <1>2, <1>4, <1>6, <1>7

LEMMA Removed ==
    ASSUME TypeOK, NEW p \in Runs, NEW name \in Names,
           file' = [file EXCEPT ![Own(p, name)].st = "none"]
    PROVE  /\ \A f \in Files : f # Own(p, name) => file'[f] = file[f]
           /\ file' \in [Files -> [st: Contents, by: Runs \cup {None}]]
<1>1. Own(p, name) \in Files /\ "none" \in Contents
  BY OwnFile DEF Contents
<1>. QED BY <1>1 DEF TypeOK

(* What a copy of a scratch file gets.                                     *)
LEMMA CopiedTypes ==
    ASSUME TypeOK, NEW p \in Runs, NEW name \in Names
    PROVE  Copied(p, name) \subseteq Contents
<1>1. Own(p, name) \in Files
  BY OwnFile
<1>2. Has(p, name) \in Contents
  BY <1>1 DEF Has, TypeOK
<1>. QED BY <1>2 DEF Copied, Contents

LEMMA PutPart ==
    ASSUME TypeOK, NEW p \in Runs, NEW part \in {"hdr", "pup", "ftr"},
           NEW st \in Contents, Put(p, part, st)
    PROVE  /\ iso' \in [Outs -> [hdr: Contents, pup: Contents, ftr: Contents,
                                by: Runs \cup {None}]]
           /\ \A o \in Outs : o # opt[p].out => iso'[o] = iso[o]
           /\ iso'[opt[p].out].by = iso[opt[p].out].by
           /\ iso[opt[p].out].by = p => iso'[opt[p].out][part] = st
           /\ \A x \in {"hdr", "pup", "ftr"} :
                 x # part => iso'[opt[p].out][x] = iso[opt[p].out][x]
<1>. DEFINE o == opt[p].out
            v == IF iso[o].by = p THEN st ELSE "part"
            R == [hdr: Contents, pup: Contents, ftr: Contents, by: Runs \cup {None}]
<1>1. o \in Outs /\ iso \in [Outs -> R] /\ iso[o] \in R
  BY OwnFile DEF TypeOK
<1>2. iso' = [iso EXCEPT ![o] = [iso[o] EXCEPT ![part] = v]]
  BY <1>1 DEF Put
<1>3. v \in Contents
  BY DEF Contents
<1>4. iso'[o] = [iso[o] EXCEPT ![part] = v]
  BY <1>1, <1>2
<1>. HIDE DEF v, o
<1>5. /\ [iso[o] EXCEPT ![part] = v] \in R
      /\ [iso[o] EXCEPT ![part] = v].by = iso[o].by
      /\ [iso[o] EXCEPT ![part] = v][part] = v
      /\ \A x \in {"hdr", "pup", "ftr"} :
            x # part => [iso[o] EXCEPT ![part] = v][x] = iso[o][x]
  BY <1>1, <1>3
<1>6. iso' \in [Outs -> R] /\ \A x \in Outs : x # o => iso'[x] = iso[x]
  BY <1>1, <1>2, <1>5
<1>7. iso[o].by = p => v = st
  BY DEF v
<1>. QED BY <1>4, <1>5, <1>6, <1>7 DEF o

LEMMA Went ==
    ASSUME TypeOK, NEW p \in Runs, NEW l \in Running \cup Ended, Go(p, l),
           UNCHANGED opt, l \in {"pup", "fetchPup"} => opt[p].pup
    PROVE  /\ pc' \in [Runs -> {"idle"} \cup Running \cup Ended]
           /\ \A q \in Runs : pc'[q] \in {"pup", "fetchPup"} => opt'[q].pup
           /\ pc'[p] = l
           /\ \A q \in Runs : q # p => pc'[q] = pc[q]
BY DEF TypeOK, Go

-----------------------------------------------------------------------------
(* Type correctness.                                                       *)
LEMMA TypeInit == Init => TypeOK
<1>. SUFFICES ASSUME Init PROVE TypeOK
  OBVIOUS
<1>1. file \in [Files -> [st: Contents, by: Runs \cup {None}]]
  BY DEF Init, Contents
<1>2. iso \in [Outs -> [hdr: Contents, pup: Contents, ftr: Contents,
                       by: Runs \cup {None}]]
  BY DEF Init, Contents
<1>. QED BY <1>1, <1>2 DEF Init, TypeOK

LEMMA TypeStep == TypeOK /\ [Next]_vars => TypeOK'
<1>. SUFFICES ASSUME TypeOK, [Next]_vars PROVE TypeOK'
  OBVIOUS
<1>1. CASE UNCHANGED vars
  BY <1>1 DEF vars, TypeOK
<1>2. ASSUME NEW p \in Runs, Step(p) PROVE TypeOK'
  <2>. USE DEF Running, Ended
  <2>o. /\ opt \in OptSets /\ sound \in BOOLEAN /\ named \subseteq Runs
        /\ met \subseteq Runs /\ opt[p] \in Option
        /\ opt[p].given \in {"no", "file", "dir"}
    BY OwnFile DEF TypeOK, Option
  <2>a. AfterIrd(p) \in {"pup", "load"} /\ (AfterIrd(p) = "pup" => opt[p].pup)
    BY DEF AfterIrd
  <2>n. {"ird", "header", "footer", "pup"} = Names
    BY DEF Names, Scratch
  <2>1. CASE Start(p)
    <3>1. PICK l \in {"usage", "sfo"} : Go(p, l)
      BY <2>1 DEF Start
    <3>2. met' \subseteq Runs
      BY <2>o, <2>1 DEF Start
    <3>. QED BY <2>1, <2>o, <3>1, <3>2, Went DEF Start, TypeOK
  <2>2. CASE Stop(p) \/ ReadFoot(p) \/ LoadIrd(p)
    <3>1. PICK l \in {"stopped", "verify", "header"} : Go(p, l)
      BY <2>2 DEF Stop, ReadFoot, LoadIrd
    <3>2. UNCHANGED <<opt, sound, file, iso, named, met>>
      BY <2>2 DEF Stop, ReadFoot, LoadIrd
    <3>3. /\ pc' \in [Runs -> {"idle"} \cup Running \cup Ended]
          /\ \A q \in Runs : pc'[q] \in {"pup", "fetchPup"} => opt'[q].pup
      BY <3>1, <3>2, Went
    <3>. QED BY <3>2, <3>3 DEF TypeOK
  <2>3. CASE LoadSfo(p)
    <3>1. PICK l \in {"ird", AfterIrd(p)} : Go(p, l)
      BY <2>3 DEF LoadSfo
    <3>2. UNCHANGED <<opt, sound, file, iso, named, met>>
      BY <2>3 DEF LoadSfo
    <3>3. /\ pc' \in [Runs -> {"idle"} \cup Running \cup Ended]
          /\ \A q \in Runs : pc'[q] \in {"pup", "fetchPup"} => opt'[q].pup
      BY <2>a, <3>1, <3>2, Went
    <3>. QED BY <3>2, <3>3 DEF TypeOK
  <2>4. CASE DownloadIrd(p) \/ DownloadPup(p) \/ UnpackImage(p)
    <3>1. UNCHANGED <<opt, sound, iso, named, met>>
      BY <2>4 DEF DownloadIrd, DownloadPup, UnpackImage, Download, Downloaded
    <3>2. PICK l \in {"fetchIrd", "fetchPup", "load", "stopped", "unpackHeader",
                     "footer", "unpackFooter", "foot", AfterIrd(p)} :
             Go(p, l) /\ (l = "fetchPup" => opt[p].pup)
      <4>1. CASE DownloadIrd(p)
        BY <2>a, <4>1 DEF DownloadIrd, Download, Downloaded
      <4>2. CASE DownloadPup(p)
        <5>1. opt[p].pup
          BY <4>2 DEF DownloadPup, TypeOK
        <5>. QED BY <4>2, <5>1 DEF DownloadPup, Download, Downloaded
      <4>3. CASE UnpackImage(p)
        BY <4>3 DEF UnpackImage
      <4>. QED BY <2>4, <4>1, <4>2, <4>3
    <3>3. /\ pc' \in [Runs -> {"idle"} \cup Running \cup Ended]
          /\ \A q \in Runs : pc'[q] \in {"pup", "fetchPup"} => opt'[q].pup
      BY <2>a, <3>1, <3>2, Went
    <3>4. PICK name \in Names :
             \/ Truncate(p, name) \/ Close(p, name)
             \/ file' = [file EXCEPT ![Own(p, name)].st = "none"]
      BY <2>4, <2>n DEF DownloadIrd, DownloadPup, UnpackImage, Download, Downloaded
    <3>5. file' \in [Files -> [st: Contents, by: Runs \cup {None}]]
      BY <3>4, Truncated, Closed, Removed
    <3>. QED BY <3>1, <3>3, <3>5 DEF TypeOK
  <2>5. CASE Verify(p)
    <3>1. Go(p, "isoHeader") /\ UNCHANGED <<opt, sound, file, iso, met>>
          /\ named' \subseteq Runs
      BY <2>5, <2>o DEF Verify
    <3>2. /\ pc' \in [Runs -> {"idle"} \cup Running \cup Ended]
          /\ \A q \in Runs : pc'[q] \in {"pup", "fetchPup"} => opt'[q].pup
      BY <3>1, Went
    <3>. QED BY <3>1, <3>2 DEF TypeOK
  <2>6. CASE CopyHeader(p) \/ CopyFiles(p) \/ CopyFooter(p) \/ ExitRun(p)
    <3>1. UNCHANGED <<opt, sound, file, named, met>>
      BY <2>6 DEF CopyHeader, CopyFiles, CopyFooter, ExitRun
    <3>2. PICK l \in {"isoFiles", "isoFooter", "exit", "ok"} : Go(p, l)
      BY <2>6 DEF CopyHeader, CopyFiles, CopyFooter, ExitRun
    <3>3. /\ pc' \in [Runs -> {"idle"} \cup Running \cup Ended]
          /\ \A q \in Runs : pc'[q] \in {"pup", "fetchPup"} => opt'[q].pup
      BY <3>1, <3>2, Went
    <3>4. \A name \in Names : Has(p, name) \in Contents
      BY OwnFile DEF Has, TypeOK
    <3>5. iso' \in [Outs -> [hdr: Contents, pup: Contents, ftr: Contents,
                           by: Runs \cup {None}]]
      <4>0. {"none", "part"} \subseteq Contents
        BY DEF Contents
      <4>1. CASE CopyHeader(p)
        <5>1. PICK st \in Copied(p, "header") :
                 iso' = [iso EXCEPT ![opt[p].out] =
                            [hdr |-> st, pup |-> "none", ftr |-> "none", by |-> p]]
          BY <4>1 DEF CopyHeader
        <5>2. st \in Contents
          BY <2>n, <5>1, CopiedTypes
        <5>. QED BY <4>0, <5>1, <5>2, OwnFile DEF TypeOK
      <4>2. CASE UNCHANGED iso
        BY <4>2 DEF TypeOK
      <4>3. CASE \E part \in {"pup", "ftr"}, st \in Contents : Put(p, part, st)
        BY <4>3, PutPart
      <4>4. CASE CopyFiles(p) \/ CopyFooter(p) \/ ExitRun(p)
        <5>1. \/ UNCHANGED iso \/ Put(p, "pup", Has(p, "pup"))
              \/ Put(p, "ftr", "part")
              \/ \E st \in Copied(p, "footer") : Put(p, "ftr", st)
          BY <4>4 DEF CopyFiles, CopyFooter, ExitRun
        <5>2. Has(p, "pup") \in Contents /\ Copied(p, "footer") \subseteq Contents
          BY <2>n, <3>4, CopiedTypes
        <5>. QED BY <4>0, <4>2, <4>3, <5>1, <5>2
      <4>. QED BY <2>6, <4>1, <4>4
    <3>. QED BY <3>1, <3>3, <3>5 DEF TypeOK
  <2>. QED BY <1>2, <2>1, <2>2, <2>3, <2>4, <2>5, <2>6 DEF Step
<1>. QED BY <1>1, <1>2 DEF Next, Terminated

(* Every variable keeps its type, and only a run with -p fetches a PUP.    *)
THEOREM PipelineTypeCorrect == Spec => []TypeOK
<1>. QED BY TypeInit, TypeStep, PTL DEF Spec

-----------------------------------------------------------------------------
(* What a step of a run that is under way can change for the others: its   *)
(* own files and image, and nothing of the rest.                           *)
Acts(p) ==
    /\ pc[p] \in Running
    /\ UNCHANGED <<opt, sound, met>>
    /\ named \subseteq named'
    /\ pc'[p] \in Running \cup Ended
    /\ \A q \in Runs : q # p => pc'[q] = pc[q]
    /\ \A f \in Files : (\A name \in Names : f # Own(p, name)) => file'[f] = file[f]
    /\ \A o \in Outs : o # opt[p].out => iso'[o] = iso[o]
    /\ \/ UNCHANGED iso
       \/ iso'[opt[p].out].by = p
       \/ pc[p] \in Opened /\ iso'[opt[p].out].by = iso[opt[p].out].by
    /\ pc'[p] \in Opened => pc[p] \in Opened \/ iso'[opt[p].out].by = p

LEMMA StepActs ==
    ASSUME TypeOK, NEW p \in Runs, Step(p), ~Start(p)
    PROVE  Acts(p)
<1>. USE DEF Running, Ended, Opened
<1>t. /\ pc \in [Runs -> {"idle"} \cup Running \cup Ended]
      /\ opt[p].out \in Outs
      /\ \A q \in Runs : opt[q] \in Option
      /\ \A name \in Names : Has(p, name) \in Contents
  BY OwnFile DEF TypeOK, Has
<1>n. {"ird", "header", "footer", "pup"} = Names
  BY DEF Names, Scratch
<1>c. {"none", "part"} \subseteq Contents
  BY DEF Contents
<1>1. CASE Stop(p) \/ ReadFoot(p) \/ LoadIrd(p) \/ LoadSfo(p)
  BY <1>1, <1>t DEF Stop, ReadFoot, LoadIrd, LoadSfo, AfterIrd, Go, Acts
<1>2. CASE DownloadIrd(p) \/ DownloadPup(p) \/ UnpackImage(p)
  <2>1. /\ UNCHANGED <<opt, sound, iso, named, met>>
        /\ pc[p] \in Running
        /\ \E l \in (Running \cup Ended) \ Opened : Go(p, l)
    BY <1>2 DEF DownloadIrd, DownloadPup, UnpackImage, Download, Downloaded, AfterIrd
  <2>2. PICK name \in Names :
           \/ Truncate(p, name) \/ Close(p, name)
           \/ file' = [file EXCEPT ![Own(p, name)].st = "none"]
    BY <1>2, <1>n DEF DownloadIrd, DownloadPup, UnpackImage, Download, Downloaded
  <2>3. \A f \in Files : f # Own(p, name) => file'[f] = file[f]
    BY <2>2, Truncated, Closed, Removed
  <2>. QED BY <1>t, <2>1, <2>3 DEF Go, Acts
<1>3. CASE Verify(p)
  BY <1>3, <1>t DEF Verify, Go, Acts
<1>4. CASE CopyHeader(p)
  BY <1>4, <1>t DEF CopyHeader, Go, Acts, TypeOK
<1>5. CASE CopyFiles(p) \/ CopyFooter(p) \/ ExitRun(p)
  <2>1. /\ UNCHANGED <<opt, sound, file, named, met>>
        /\ pc[p] \in Opened
        /\ \E l \in Running \cup Ended : Go(p, l)
    BY <1>5 DEF CopyFiles, CopyFooter, ExitRun
  <2>2. \/ UNCHANGED iso
        \/ \E part \in {"pup", "ftr"}, st \in Contents : Put(p, part, st)
    <3>1. \/ UNCHANGED iso \/ Put(p, "pup", Has(p, "pup"))
          \/ Put(p, "ftr", "part")
          \/ \E st \in Copied(p, "footer") : Put(p, "ftr", st)
      BY <1>5 DEF CopyFiles, CopyFooter, ExitRun
    <3>2. Copied(p, "footer") \subseteq Contents
      BY <1>n, CopiedTypes
    <3>. QED BY <1>c, <1>n, <1>t, <3>1, <3>2
  <2>3. /\ \A o \in Outs : o # opt[p].out => iso'[o] = iso[o]
        /\ iso'[opt[p].out].by = iso[opt[p].out].by
    BY <2>2, PutPart
  <2>. QED BY <1>t, <2>1, <2>3 DEF Go, Acts
<1>. QED BY <1>1, <1>2, <1>3, <1>4, <1>5 DEF Step

(* The others are left as they were.                                       *)
LEMMA OthersKeep ==
    ASSUME Inv, NEW p \in Runs, Acts(p)
    PROVE  /\ Lonely' /\ OpenedApart'
           /\ \A q \in Runs : q # p /\ q \notin met' => Undisturbed(q)'
<1>. USE DEF Inv
<1>0. /\ pc[p] \in Running /\ UNCHANGED <<opt, sound, met>>
      /\ \A q \in Runs : q # p => pc'[q] = pc[q]
      /\ \A o \in Outs : o # opt[p].out => iso'[o] = iso[o]
  BY DEF Acts
<1>s. \A q, r \in Runs : Share(q, r)' <=> Share(q, r)
  BY <1>0 DEF Share
<1>r. Ended \cap Running = {} /\ Opened \subseteq Running
  BY DEF Running, Ended, Opened
<1>1. Lonely'
  BY <1>0, <1>s DEF Lonely
<1>2. OpenedApart'
  <2>. SUFFICES ASSUME NEW q \in Runs, NEW r \in Runs, q # r, pc'[r] \in Opened,
                       opt[q].out = opt[r].out, iso'[opt[r].out].by = q,
                       q \notin met
                PROVE  FALSE
    BY <1>0 DEF OpenedApart
  <2>1. CASE p = r
    <3>1. pc[p] \in Opened
      BY <2>1 DEF Acts
    <3>2. iso[opt[r].out].by = q
      BY <2>1, <3>1 DEF Acts
    <3>. QED BY <2>1, <3>1, <3>2 DEF OpenedApart
  <2>2. CASE p # r
    <3>1. pc[r] \in Opened
      BY <1>0, <2>2
    <3>2. CASE iso[opt[r].out].by = q
      BY <3>1, <3>2 DEF OpenedApart
    <3>3. CASE iso[opt[r].out].by # q
      <4>1. opt[r].out = opt[p].out /\ p = q
        BY <1>0, <3>3, OwnFile DEF Acts
      <4>2. Share(p, r)
        BY <4>1 DEF Share
      <4>. QED BY <1>0, <1>r, <2>2, <3>1, <4>1, <4>2 DEF Lonely
    <3>. QED BY <3>2, <3>3
  <2>. QED BY <2>1, <2>2
<1>3. ASSUME NEW q \in Runs, q # p, q \notin met PROVE Undisturbed(q)'
  <2>0. Undisturbed(q) /\ pc'[q] = pc[q] /\ opt' = opt /\ sound' = sound
        /\ named \subseteq named'
    BY <1>0, <1>3 DEF Apart, Acts
  <2>1. CASE pc[q] \in Running
    <3>1. ~Share(p, q) /\ ~Share(q, p)
      BY <1>0, <1>3, <2>1 DEF Lonely, Share
    <3>2. \A n \in Names : file'[Own(q, n)] = file[Own(q, n)]
      BY <3>1, OwnFile, OwnDiffers DEF Acts
    <3>3. iso'[opt[q].out] = iso[opt[q].out]
      BY <1>0, <3>1, OwnFile DEF Share
    <3>4. {"header", "footer", "pup"} \subseteq Names
      BY DEF Names, Scratch
    <3>5. \A n \in Names : Own(q, n)' = Own(q, n)
      BY <2>0 DEF Own
    <3>6. /\ Has(q, "header")' = Has(q, "header")
          /\ Has(q, "footer")' = Has(q, "footer")
          /\ Has(q, "pup")' = Has(q, "pup")
      BY <3>2, <3>4, <3>5 DEF Has
    <3>7. Made(q)' = Made(q)
      BY <2>0, <3>3 DEF Made
    <3>8. ImagesAreOwn(q)'
      BY <2>0, <3>2, <3>4, <3>5, <3>6 DEF Undisturbed, ImagesAreOwn
    <3>9. PupIsOwn(q)'
      BY <2>0, <3>2, <3>4, <3>5, <3>6 DEF Undisturbed, PupIsOwn
    <3>10. IsoIsOwn(q)'
      BY <2>0, <3>3, <3>7 DEF Undisturbed, IsoIsOwn
    <3>. QED BY <3>8, <3>9, <3>10 DEF Undisturbed
  <2>2. CASE pc[q] \notin Running
    <3>1. pc'[q] \notin FromHeader \cup FromPup \cup Opened
          /\ pc'[q] \notin {"isoHeader", "isoFiles", "exit"}
      BY <2>0, <2>2 DEF FromHeader, FromPup, Opened, Running
    <3>2. ImagesAreOwn(q)' /\ PupIsOwn(q)'
      BY <3>1 DEF ImagesAreOwn, PupIsOwn, FromHeader, FromPup
    <3>. SUFFICES IsoIsOwn(q)'
      BY <3>2 DEF Undisturbed
    <3>3. CASE ~Made(q)'
      BY <3>1, <3>3 DEF IsoIsOwn, Opened
    <3>4. CASE Made(q)'
      <4>1. iso'[opt[q].out] = iso[opt[q].out]
        <5>1. CASE opt[q].out # opt[p].out
          BY <1>0, <5>1, OwnFile
        <5>2. CASE opt[q].out = opt[p].out /\ ~UNCHANGED iso
          <6>1. iso'[opt[p].out].by = q
            BY <2>0, <3>4, <5>2 DEF Made
          <6>2. pc[p] \in Opened /\ iso[opt[p].out].by = q
            BY <1>3, <5>2, <6>1 DEF Acts
          <6>. QED BY <1>3, <5>2, <6>2 DEF OpenedApart
        <5>. QED BY <5>1, <5>2
      <4>2. Made(q)
        BY <2>0, <3>4, <4>1 DEF Made
      <4>3. IsoIsOwn(q)
        BY <2>0 DEF Undisturbed
      <4>. QED BY <2>0, <3>1, <3>4, <4>1, <4>2, <4>3 DEF IsoIsOwn
    <3>. QED BY <3>3, <3>4
  <2>. QED BY <2>1, <2>2
<1>. QED BY <1>0, <1>1, <1>2, <1>3

(* A run that starts has opened nothing; if another one that it shares a   *)
(* file with is under way, both have met.                                  *)
LEMMA StartKeeps ==
    ASSUME Inv, NEW p \in Runs, Start(p)
    PROVE  Lonely' /\ OpenedApart' /\ Apart'
<1>. USE DEF Inv
<1>. DEFINE others == {q \in Runs \ {p} : pc[q] \in Running /\ Share(p, q)}
<1>0. /\ UNCHANGED <<opt, sound, file, iso, named>> /\ pc[p] = "idle"
      /\ pc'[p] \in {"usage", "sfo"}
      /\ \A q \in Runs : q # p => pc'[q] = pc[q]
      /\ met \subseteq met'
      /\ \A q \in others : q \in met' /\ p \in met'
  BY DEF Start, Go, TypeOK
<1>s. \A q, r \in Runs : (Share(q, r)' <=> Share(q, r)) /\ (Share(q, r) <=> Share(r, q))
  BY <1>0 DEF Share
<1>1. Lonely'
  <2>. SUFFICES ASSUME NEW q \in Runs, NEW r \in Runs, q # r, pc'[q] \in Running,
                       pc'[r] \in Running, Share(q, r)
                PROVE  q \in met'
    BY <1>s DEF Lonely
  <2>1. CASE q = p
    <3>1. r \in others
      BY <1>0, <2>1
    <3>. QED BY <1>0, <2>1, <3>1
  <2>2. CASE r = p
    <3>1. q \in others
      BY <1>0, <1>s, <2>2
    <3>. QED BY <1>0, <3>1
  <2>3. CASE q # p /\ r # p
    BY <1>0, <2>3 DEF Lonely
  <2>. QED BY <2>1, <2>2, <2>3
<1>. HIDE DEF others
<1>2. OpenedApart'
  <2>1. \A q \in Runs : pc'[q] \in Opened => pc[q] \in Opened
    BY <1>0 DEF Opened
  <2>. QED BY <1>0, <2>1 DEF OpenedApart
<1>3. ASSUME NEW q \in Runs, q \notin met' PROVE Undisturbed(q)'
  <2>1. CASE q # p
    <3>1. Undisturbed(q) /\ pc'[q] = pc[q]
      BY <1>0, <1>3, <2>1 DEF Apart
    <3>. QED BY <1>0, <3>1 DEF Undisturbed, ImagesAreOwn, PupIsOwn, IsoIsOwn,
                               Has, Own, Made
  <2>2. CASE q = p
    <3>1. pc'[p] \notin FromHeader \cup FromPup \cup Opened
          /\ pc'[p] \notin {"isoHeader", "isoFiles", "exit", "ok"}
      BY <1>0 DEF FromHeader, FromPup, Opened
    <3>. QED BY <2>2, <3>1 DEF Undisturbed, ImagesAreOwn, PupIsOwn, IsoIsOwn,
                               FromHeader, FromPup, Opened, Made
  <2>. QED BY <2>1, <2>2
<1>. QED BY <1>1, <1>2, <1>3 DEF Apart

-----------------------------------------------------------------------------
(* What a run that met no other does to its own files.                     *)

(* A step that leaves the files and the image alone.                       *)
LEMMA OwnStays ==
    ASSUME TypeOK, NEW p \in Runs, Undisturbed(p),
           UNCHANGED <<opt, sound, file, iso, named>>,
           pc'[p] \in {"stopped", "ird", "pup", "header", "verify"}
                    \cup (IF opt[p].pup THEN {} ELSE {"load"}),
           pc'[p] = "header" => pc[p] = "load",
           pc'[p] = "verify" => pc[p] = "foot"
    PROVE  Undisturbed(p)'
<1>1. /\ Has(p, "header")' = Has(p, "header") /\ Own(p, "header")' = Own(p, "header")
      /\ Has(p, "footer")' = Has(p, "footer") /\ Own(p, "footer")' = Own(p, "footer")
      /\ Has(p, "pup")' = Has(p, "pup") /\ Own(p, "pup")' = Own(p, "pup")
  BY DEF Has, Own
<1>2. ImagesAreOwn(p)'
  BY <1>1 DEF Undisturbed, ImagesAreOwn, FromHeader
<1>3. PupIsOwn(p)'
  BY <1>1 DEF Undisturbed, PupIsOwn, FromPup, FromHeader
<1>4. IsoIsOwn(p)'
  BY DEF IsoIsOwn, Opened, Made
<1>. QED BY <1>2, <1>3, <1>4 DEF Undisturbed

(* A step that works on one of the files.                                  *)
LEMMA OwnFileStep ==
    ASSUME TypeOK, NEW p \in Runs, Undisturbed(p), NEW name \in Names,
           UNCHANGED <<opt, sound, iso, named>>,
           pc'[p] \notin Opened \cup {"ok", "isoHeader"},
           Truncate(p, name) \/ Close(p, name)
    PROVE  /\ IsoIsOwn(p)'
           /\ \A n \in Names : Own(p, n)' = Own(p, n)
           /\ \A n \in Names : n # name =>
                 Has(p, n)' = Has(p, n) /\ file'[Own(p, n)] = file[Own(p, n)]
           /\ Truncate(p, name) => file'[Own(p, name)].by = p
           /\ Close(p, name) =>
                 /\ file'[Own(p, name)].by = file[Own(p, name)].by
                 /\ file[Own(p, name)].by = p /\ sound => Has(p, name)' = "whole"
<1>1. IsoIsOwn(p)'
  BY DEF IsoIsOwn, Opened, Made
<1>2. \A n \in Names : Own(p, n)' = Own(p, n)
  BY DEF Own
<1>3. \A n \in Names : n # name => file'[Own(p, n)] = file[Own(p, n)]
  <2>1. \A f \in Files : f # Own(p, name) => file'[f] = file[f]
    BY Truncated, Closed
  <2>2. \A n \in Names : Own(p, n) \in Files
    BY OwnFile
  <2>3. \A n \in Names : n # name => Own(p, n) # Own(p, name)
    BY OwnDiffers
  <2>. QED BY <2>1, <2>2, <2>3
<1>4. ASSUME Truncate(p, name) PROVE file'[Own(p, name)].by = p
  <2>1. file'[Own(p, name)] = [st |-> "part", by |-> p]
    BY <1>4, Truncated
  <2>. QED BY <2>1
<1>5. Close(p, name) =>
         /\ file'[Own(p, name)].by = file[Own(p, name)].by
         /\ file[Own(p, name)].by = p /\ sound => file'[Own(p, name)].st = "whole"
  BY Closed
<1>. QED BY <1>1, <1>2, <1>3, <1>4, <1>5 DEF Has

LEMMA OwnStep ==
    ASSUME TypeOK, NEW p \in Runs, Undisturbed(p), Step(p), ~Start(p)
    PROVE  Undisturbed(p)'
<1>. USE DEF Undisturbed
<1>n. /\ {"ird", "header", "footer", "pup"} = Names
      /\ pc \in [Runs -> {"idle"} \cup Running \cup Ended]
  BY DEF Names, Scratch, TypeOK
<1>1. CASE Stop(p) \/ ReadFoot(p) \/ LoadIrd(p) \/ LoadSfo(p)
  <2>1. /\ UNCHANGED <<opt, sound, file, iso, named>>
        /\ pc'[p] \in {"stopped", "ird", "pup", "header", "verify"}
                    \cup (IF opt[p].pup THEN {} ELSE {"load"})
        /\ pc'[p] = "header" => pc[p] = "load"
        /\ pc'[p] = "verify" => pc[p] = "foot"
    BY <1>1, <1>n DEF Stop, ReadFoot, LoadIrd, LoadSfo, Go, AfterIrd
  <2>. QED BY <2>1, OwnStays
<1>2. ASSUME NEW name \in Names, pc'[p] = "stopped",
             UNCHANGED <<opt, sound, iso, named>>
      PROVE  Undisturbed(p)'
  BY <1>2 DEF ImagesAreOwn, PupIsOwn, IsoIsOwn, FromHeader, FromPup, Opened, Made
<1>3. CASE DownloadIrd(p)
  <2>1. UNCHANGED <<opt, sound, iso, named>> /\ "ird" \in Names
    BY <1>3, <1>n DEF DownloadIrd, Download, Downloaded
  <2>2. CASE /\ Truncate(p, "ird") \/ Close(p, "ird")
             /\ pc'[p] \in {"fetchIrd", AfterIrd(p)} /\ pc[p] \in {"ird", "fetchIrd"}
    <3>1. pc'[p] \in {"fetchIrd", "pup"} \/ (pc'[p] = "load" /\ ~opt[p].pup)
      BY <2>2 DEF AfterIrd
    <3>2. IsoIsOwn(p)'
      BY <2>1, <2>2, <3>1, OwnFileStep DEF Opened
    <3>. QED BY <2>1, <3>1, <3>2 DEF ImagesAreOwn, PupIsOwn, FromHeader, FromPup
  <2>. QED BY <1>2, <1>3, <1>n, <2>1, <2>2 DEF DownloadIrd, Download, Downloaded, Go
<1>4. CASE DownloadPup(p)
  <2>1. UNCHANGED <<opt, sound, iso, named>> /\ "pup" \in Names
    BY <1>4, <1>n DEF DownloadPup, Download, Downloaded
  <2>2. CASE Truncate(p, "pup") /\ pc'[p] = "fetchPup"
    <3>1. IsoIsOwn(p)' /\ file'[Own(p, "pup")'].by = p
      BY <2>1, <2>2, OwnFileStep DEF Opened
    <3>. QED BY <2>2, <3>1 DEF ImagesAreOwn, PupIsOwn, FromHeader, FromPup
  <2>3. CASE Close(p, "pup") /\ pc'[p] = "load" /\ pc[p] = "fetchPup"
    <3>1. opt[p].pup => file[Own(p, "pup")].by = p
      BY <2>3 DEF PupIsOwn, FromPup
    <3>2. /\ IsoIsOwn(p)' /\ file'[Own(p, "pup")'].by = file[Own(p, "pup")].by
          /\ file[Own(p, "pup")].by = p /\ sound => Has(p, "pup")' = "whole"
      BY <2>1, <2>3, OwnFileStep DEF Opened
    <3>. QED BY <2>1, <2>3, <3>1, <3>2 DEF ImagesAreOwn, PupIsOwn, FromHeader, FromPup
  <2>. QED BY <1>2, <1>4, <1>n, <2>1, <2>2, <2>3 DEF DownloadPup, Download, Downloaded, Go
<1>5. CASE UnpackImage(p)
  <2>1. UNCHANGED <<opt, sound, iso, named>> /\ {"header", "footer", "pup"} \subseteq Names
    BY <1>5, <1>n DEF UnpackImage
  <2>2. PICK name \in {"header", "footer"} :
           /\ Truncate(p, name) \/ Close(p, name)
           /\ pc'[p] \in {"unpackHeader", "footer", "unpackFooter", "foot"}
    BY <1>5, <1>n DEF UnpackImage, Go
  <2>3. /\ IsoIsOwn(p)'
        /\ \A n \in Names : Own(p, n)' = Own(p, n)
        /\ \A n \in Names : n # name =>
              Has(p, n)' = Has(p, n) /\ file'[Own(p, n)] = file[Own(p, n)]
    BY <2>1, <2>2, OwnFileStep DEF Opened
  <2>4. PupIsOwn(p)'
    <3>1. /\ Has(p, "pup")' = Has(p, "pup") /\ Own(p, "pup")' = Own(p, "pup")
          /\ file'[Own(p, "pup")] = file[Own(p, "pup")]
      BY <2>1, <2>2, <2>3
    <3>2. pc[p] \in {"header", "unpackHeader", "footer", "unpackFooter"}
      BY <1>5 DEF UnpackImage
    <3>. QED BY <2>1, <2>2, <3>1, <3>2 DEF PupIsOwn, FromPup, FromHeader
  <2>. USE DEF ImagesAreOwn, FromHeader
  <2>5. CASE pc[p] = "header"
    <3>1. Truncate(p, "header") /\ pc'[p] = "unpackHeader"
      BY <1>5, <1>n, <2>5 DEF UnpackImage, Go
    <3>2. file'[Own(p, "header")'].by = p
      BY <2>1, <3>1, OwnFileStep DEF Opened
    <3>. QED BY <2>3, <2>4, <3>1, <3>2
  <2>6. CASE pc[p] = "unpackHeader"
    <3>1. Close(p, "header") /\ pc'[p] = "footer"
      BY <1>5, <1>n, <2>6 DEF UnpackImage, Go
    <3>2. file[Own(p, "header")].by = p
      BY <2>6
    <3>3. file'[Own(p, "header")'].by = p /\ (sound => Has(p, "header")' = "whole")
      BY <2>1, <3>1, <3>2, OwnFileStep DEF Opened
    <3>. QED BY <2>1, <2>3, <2>4, <3>1, <3>3
  <2>7. CASE pc[p] = "footer"
    <3>1. Truncate(p, "footer") /\ pc'[p] = "unpackFooter"
      BY <1>5, <1>n, <2>7 DEF UnpackImage, Go
    <3>2. /\ file'[Own(p, "footer")'].by = p /\ Has(p, "header")' = Has(p, "header")
          /\ file'[Own(p, "header")'] = file[Own(p, "header")]
      BY <2>1, <3>1, OwnFileStep DEF Opened
    <3>. QED BY <2>1, <2>3, <2>4, <2>7, <3>1, <3>2
  <2>8. CASE pc[p] = "unpackFooter"
    <3>1. Close(p, "footer") /\ pc'[p] = "foot"
      BY <1>5, <1>n, <2>8 DEF UnpackImage, Go
    <3>2. file[Own(p, "footer")].by = p
      BY <2>8
    <3>3. /\ file'[Own(p, "footer")'].by = p /\ (sound => Has(p, "footer")' = "whole")
          /\ Has(p, "header")' = Has(p, "header")
          /\ file'[Own(p, "header")'] = file[Own(p, "header")]
      BY <2>1, <3>1, <3>2, OwnFileStep DEF Opened
    <3>. QED BY <2>1, <2>3, <2>4, <2>8, <3>1, <3>3
  <2>. QED BY <1>5, <2>5, <2>6, <2>7, <2>8 DEF UnpackImage
<1>6. CASE Verify(p) \/ CopyHeader(p) \/ CopyFiles(p) \/ CopyFooter(p) \/ ExitRun(p)
  <2>1. /\ UNCHANGED <<opt, sound, file>> /\ named \subseteq named'
        /\ \/ pc[p] = "verify" /\ pc'[p] = "isoHeader"
           \/ pc[p] = "isoHeader" /\ pc'[p] = "isoFiles"
           \/ pc[p] = "isoFiles" /\ pc'[p] = "isoFooter"
           \/ pc[p] = "isoFooter" /\ pc'[p] = "exit"
           \/ pc[p] = "exit" /\ pc'[p] = "ok"
    BY <1>6, <1>n DEF Verify, CopyHeader, CopyFiles, CopyFooter, ExitRun, Go
  <2>2. \A n \in Names : Own(p, n)' = Own(p, n) /\ Has(p, n)' = Has(p, n)
    BY <2>1 DEF Own, Has
  <2>3. ImagesAreOwn(p)'
    BY <1>n, <2>1, <2>2 DEF ImagesAreOwn, FromHeader
  <2>4. PupIsOwn(p)'
    <3>1. pc[p] = "verify" => Has(p, "pup") = "whole" \/ p \in named'
      BY <1>6 DEF Verify, CopyHeader, CopyFiles, CopyFooter, ExitRun, Differs
    <3>. QED BY <1>n, <2>1, <2>2, <3>1 DEF PupIsOwn, FromPup, FromHeader
  <2>5. IsoIsOwn(p)'
    <3>. USE DEF IsoIsOwn, Opened, Made
    <3>1. CASE Verify(p)
      BY <2>1, <3>1 DEF Verify
    <3>2. CASE CopyHeader(p)
      <4>0. PICK st \in Copied(p, "header") :
               iso' = [iso EXCEPT ![opt[p].out] =
                          [hdr |-> st, pup |-> "none", ftr |-> "none", by |-> p]]
        BY <3>2 DEF CopyHeader
      <4>1. /\ iso'[opt[p].out] = [hdr |-> st, pup |-> "none",
                                  ftr |-> "none", by |-> p]
            /\ pc'[p] = "isoFiles" /\ pc[p] = "isoHeader"
        BY <2>1, <3>2, <4>0, OwnFile DEF CopyHeader, TypeOK
      <4>2. sound => st = "whole"
        BY <4>0, <4>1 DEF ImagesAreOwn, FromHeader, Copied
      <4>. QED BY <2>1, <4>1, <4>2
    <3>3. CASE CopyFiles(p)
      <4>1. /\ Put(p, "pup", Has(p, "pup")) /\ pc[p] = "isoFiles" /\ pc'[p] = "isoFooter"
            /\ Has(p, "pup") \in {"other", "whole"}
        BY <2>1, <3>3 DEF CopyFiles, HasItsLength
      <4>2. /\ Has(p, "pup") = "whole" \/ p \in named
            /\ opt[p].pup /\ sound => Has(p, "pup") = "whole"
        BY <4>1 DEF PupIsOwn, FromPup, FromHeader
      <4>3. iso[opt[p].out].by = p
        BY <4>1
      <4>4. Has(p, "pup") \in Contents
        BY <4>1 DEF Contents
      <4>5. /\ iso'[opt[p].out].by = p /\ iso'[opt[p].out].pup = Has(p, "pup")
            /\ iso'[opt[p].out].hdr = iso[opt[p].out].hdr
        BY <4>1, <4>3, <4>4, PutPart
      <4>. QED BY <2>1, <4>1, <4>2, <4>5
    <3>4. CASE CopyFooter(p)
      <4>1. PICK st \in Copied(p, "footer") :
               Put(p, "ftr", st) /\ pc[p] = "isoFooter" /\ pc'[p] = "exit"
        BY <2>1, <3>4 DEF CopyFooter
      <4>2. sound => st = "whole"
        BY <4>1 DEF ImagesAreOwn, FromHeader, Copied
      <4>3. iso[opt[p].out].by = p
        BY <4>1
      <4>4. st \in Contents
        BY <1>n, <4>1, CopiedTypes
      <4>5. /\ iso'[opt[p].out].by = p /\ iso'[opt[p].out].ftr = st
            /\ iso'[opt[p].out].hdr = iso[opt[p].out].hdr
            /\ iso'[opt[p].out].pup = iso[opt[p].out].pup
        BY <4>1, <4>3, <4>4, PutPart
      <4>. QED BY <2>1, <4>1, <4>2, <4>5
    <3>5. CASE ExitRun(p)
      <4>1. pc[p] = "exit" /\ pc'[p] = "ok" /\ iso[opt[p].out].by = p
            /\ (UNCHANGED iso \/ (~sound /\ Put(p, "ftr", "part")))
        BY <2>1, <3>5 DEF ExitRun
      <4>2. CASE UNCHANGED iso
        BY <2>1, <4>1, <4>2
      <4>3. CASE ~sound /\ Put(p, "ftr", "part")
        <5>1. "part" \in Contents
          BY DEF Contents
        <5>2. iso'[opt[p].out].pup = iso[opt[p].out].pup
          BY <4>3, <5>1, PutPart
        <5>. QED BY <2>1, <4>1, <4>3, <5>2
      <4>. QED BY <4>1, <4>2, <4>3
    <3>. QED BY <1>6, <3>1, <3>2, <3>3, <3>4, <3>5
  <2>. QED BY <2>3, <2>4, <2>5
<1>. QED BY <1>1, <1>3, <1>4, <1>5, <1>6 DEF Step

-----------------------------------------------------------------------------
LEMMA InvInit == Init => Inv
<1>. SUFFICES ASSUME Init PROVE Lonely /\ OpenedApart /\ Apart
  BY TypeInit DEF Inv
<1>1. \A p \in Runs : pc[p] \notin Running \cup Ended
  <2>1. \A p \in Runs : pc[p] = "idle"
    BY DEF Init
  <2>. QED BY <2>1 DEF Running, Ended
<1>. QED BY <1>1 DEF Lonely, OpenedApart, Apart, Undisturbed, ImagesAreOwn,
                     PupIsOwn, IsoIsOwn, FromPup, FromHeader, Opened, Made,
                     Running, Ended

LEMMA InvStep == Inv /\ [Next]_vars => Inv'
<1>. SUFFICES ASSUME Inv, [Next]_vars PROVE Inv'
  OBVIOUS
<1>t. TypeOK /\ TypeOK'
  BY TypeStep DEF Inv
<1>1. CASE UNCHANGED vars
  BY <1>1, <1>t DEF vars, Inv, Lonely, OpenedApart, Apart, Undisturbed, ImagesAreOwn,
              PupIsOwn, IsoIsOwn, Made, Has, Own, Share
<1>2. ASSUME NEW p \in Runs, Step(p) PROVE Inv'
  <2>1. CASE Start(p)
    BY <1>t, <2>1, StartKeeps DEF Inv
  <2>2. CASE ~Start(p)
    <3>1. Acts(p)
      BY <1>2, <1>t, <2>2, StepActs
    <3>2. /\ Lonely' /\ OpenedApart'
          /\ \A q \in Runs : q # p /\ q \notin met' => Undisturbed(q)'
      BY <3>1, OthersKeep
    <3>3. p \notin met' => Undisturbed(p)'
      <4>1. met' = met
        BY <3>1 DEF Acts
      <4>. QED BY <1>2, <1>t, <2>2, <4>1, OwnStep DEF Inv, Apart
    <3>. QED BY <1>t, <3>2, <3>3 DEF Inv, Apart
  <2>. QED BY <2>1, <2>2
<1>. QED BY <1>1, <1>2 DEF Next, Terminated

LEMMA InvCorrect == Spec => []Inv
<1>. QED BY InvInit, InvStep, PTL DEF Spec

(* Whatever runs before left behind and whatever the others do elsewhere:  *)
(* with sound devices the success of a run that met no other means an      *)
(* image with the whole header and footer, a file of the right length from *)
(* the rip, and with -p the PUP of the disc.                               *)
THEOREM AloneIsWholeCorrect == Spec => []AloneIsWhole
<1>1. Inv => AloneIsWhole
  BY DEF Inv, Apart, Undisturbed, IsoIsOwn, AloneIsWhole
<1>. QED BY <1>1, InvCorrect, PTL

(* A file that is not the disc's never gets into the image of such a run   *)
(* without having been reported, whatever the devices do.                  *)
THEOREM NoSilentMismatchCorrect == Spec => []NoSilentMismatch
<1>1. Inv => NoSilentMismatch
  BY DEF Inv, Apart, Undisturbed, IsoIsOwn, NoSilentMismatch
<1>. QED BY <1>1, InvCorrect, PTL
=============================================================================
