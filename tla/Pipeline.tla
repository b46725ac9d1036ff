------------------------------- MODULE Pipeline -----------------------------
(***************************************************************************)
(* main (src/main.c:78-206) with the downloads of src/src/net.c: runs of   *)
(* the program that follow each other, overlap, fail or are killed, and    *)
(* the files they leave to each other.  ird.bin, header.bin and footer.bin *)
(* lie in a directory named by the signature of the disc, the PUP lies in  *)
(* the rip, and the image is named by the title: each is opened with "w",  *)
(* by every run that uses it, and never locked or renamed into place.      *)
(*                                                                         *)
(* What the stages do by themselves is in IrdLoad, VerifyFiles and         *)
(* RebuildIso.  Of the files of the rip only the PUP is kept, the one that *)
(* the program itself writes.                                              *)
(***************************************************************************)
EXTENDS Integers

CONSTANTS Runs,       \* invocations of the program
          Sigs, Rips, Outs,
          OptSets,    \* assignments of options to runs, see PipelineAssumption
          None

(* `given' is what -r names, `pup' whether there is a -p.                  *)
Option == [sig: Sigs, rip: Rips, out: Outs, pup: BOOLEAN,
           given: {"no", "file", "dir"}]

ASSUME PipelineAssumption ==
    /\ OptSets \subseteq [Runs -> Option]
    /\ None \notin Runs

Scratch == {"ird", "header", "footer"}
Files == (Scratch \X Sigs) \cup ({"pup"} \X Rips)

VARIABLES opt,
          sound,   \* no device is full, and no read of one fails
          file,    \* [Files -> [st, by]]: content, and who opened it last
          iso,     \* [Outs -> [hdr, pup, ftr, by]]: what went into the image
          pc,
          named,   \* runs whose report names the PUP
          met      \* runs that overlapped one they share a file with

vars == <<opt, sound, file, iso, pc, named, met>>

(* "part" stands for any content of a wrong length, "other" for a PUP that *)
(* has the right length and is not that of the disc.                       *)
Contents == {"none", "part", "other", "whole"}

Running == {"sfo", "ird", "fetchIrd", "pup", "fetchPup", "load", "header",
            "unpackHeader", "footer", "unpackFooter", "foot", "verify",
            "isoHeader", "isoFiles", "isoFooter", "exit"}
Ended == {"usage", "stopped", "ok"}

Own(p, name) == IF name = "pup" THEN <<name, opt[p].rip>>
                ELSE <<name, opt[p].sig>>
Has(p, name) == file[Own(p, name)].st

(* Two runs write a file in common.                                        *)
Share(p, q) == \/ opt[p].sig = opt[q].sig
               \/ opt[p].rip = opt[q].rip
               \/ opt[p].out = opt[q].out

Go(p, l) == pc' = [pc EXCEPT ![p] = l]

-----------------------------------------------------------------------------
(* fopen(.., "w").                                                         *)
KeepsOld(p, name) == UNCHANGED file                              \* mutant
Truncate(p, name) ==
    file' = [file EXCEPT ![Own(p, name)] = [st |-> "part", by |-> p]]

(* The writer is done and closes the file; the result of fclose is not     *)
(* looked at, so a full device may take the tail unseen.  If another run   *)
(* has opened the file meanwhile, it may be left in any state.             *)
Close(p, name) ==
    \E st \in {"part", "whole"} :
       /\ st = "part" => ~sound \/ file[Own(p, name)].by # p
       /\ file' = [file EXCEPT ![Own(p, name)].st = st]

(* What comes of reading a file of one's own: a run that wrote it itself,  *)
(* and alone, gets no more than it wrote.                                  *)
Reads(p, name) == Has(p, name) = "whole" \/ file[Own(p, name)].by # p

-----------------------------------------------------------------------------
Init ==
    /\ opt \in OptSets
    /\ sound \in BOOLEAN
    /\ \E left \in {"none", "part", "whole"}, pup \in Contents :
          file = [f \in Files |-> [st |-> IF f[1] = "pup" THEN pup ELSE left,
                                   by |-> None]]
    /\ iso = [o \in Outs |-> [hdr |-> "none", pup |-> "none", ftr |-> "none",
                              by |-> None]]
    /\ pc = [p \in Runs |-> "idle"]
    /\ named = {} /\ met = {}

(* argp_parse: -r must name a directory (main.c:53), as -o does.           *)
Start(p) ==
    /\ pc[p] = "idle"
    /\ Go(p, IF opt[p].given = "file" THEN "usage" ELSE "sfo")
    /\ LET others == {q \in Runs \ {p} : pc[q] \in Running /\ Share(p, q)} IN
       met' = IF others = {} THEN met ELSE met \cup others \cup {p}
    /\ UNCHANGED <<opt, sound, file, iso, named>>

(* Every stage may fail, and main then exits with what the stage left      *)
(* behind; or the process is killed.                                       *)
Stop(p) ==
    /\ pc[p] \in Running
    /\ Go(p, "stopped")
    /\ UNCHANGED <<opt, sound, file, iso, named, met>>

(* load_sfo; the mkdirs that follow are not looked at.                     *)
AlwaysPup(p) == "pup"                                             \* mutant
AfterIrd(p) == IF opt[p].pup THEN "pup" ELSE "load"

LoadSfo(p) ==
    /\ pc[p] = "sfo"
    /\ Go(p, IF opt[p].given = "no" THEN "ird" ELSE AfterIrd(p))
    /\ UNCHANGED <<opt, sound, file, iso, named, met>>

(* url_to_file: the file is truncated, written while the download runs,    *)
(* and removed when it fails.                                              *)
Download(p, name, fetching) ==
    /\ Truncate(p, name)
    /\ Go(p, fetching)
    /\ UNCHANGED <<opt, sound, iso, named, met>>

Downloaded(p, name, next) ==
    /\ \/ Close(p, name) /\ Go(p, next)
       \/ /\ file' = [file EXCEPT ![Own(p, name)].st = "none"]
          /\ Go(p, "stopped")
    /\ UNCHANGED <<opt, sound, iso, named, met>>

DownloadIrd(p) ==
    \/ pc[p] = "ird" /\ Download(p, "ird", "fetchIrd")
    \/ pc[p] = "fetchIrd" /\ Downloaded(p, "ird", AfterIrd(p))

DownloadPup(p) ==
    \/ pc[p] = "pup" /\ Download(p, "pup", "fetchPup")
    \/ pc[p] = "fetchPup" /\ Downloaded(p, "pup", "load")

(* load_ird: the IRD is opened (a directory given with -r opens, and no    *)
(* read of it succeeds), its two images are unpacked, its end is read.     *)
LoadIrd(p) ==
    /\ pc[p] = "load"
    /\ opt[p].given = "no" /\ Has(p, "ird") # "none"
    /\ Go(p, "header")
    /\ UNCHANGED <<opt, sound, file, iso, named, met>>

UnpackImage(p) ==
    /\ \/ pc[p] = "header" /\ Truncate(p, "header") /\ Go(p, "unpackHeader")
       \/ pc[p] = "unpackHeader" /\ Close(p, "header") /\ Go(p, "footer")
       \/ pc[p] = "footer" /\ Truncate(p, "footer") /\ Go(p, "unpackFooter")
       \/ pc[p] = "unpackFooter" /\ Close(p, "footer") /\ Go(p, "foot")
    /\ UNCHANGED <<opt, sound, iso, named, met>>

ReadFoot(p) ==
    /\ pc[p] = "foot" /\ Reads(p, "ird")
    /\ Go(p, "verify")
    /\ UNCHANGED <<opt, sound, file, iso, named, met>>

(* print_verification: what differs is reported, and the rebuild goes on.  *)
(* A header or footer that is short is only an error when a record of the  *)
(* tables is in the part that is missing.                                  *)
NamesMissing(p) == Has(p, "pup") \in {"none", "part"}             \* mutant
Differs(p) == Has(p, "pup") # "whole"

Verify(p) ==
    /\ pc[p] = "verify"
    /\ Has(p, "header") # "none" /\ Has(p, "footer") # "none"
    /\ named' = IF Differs(p) THEN named \cup {p} ELSE named
    /\ Go(p, "isoHeader")
    /\ UNCHANGED <<opt, sound, file, iso, met>>

(* rebuild_iso: the image is opened, and the header, the files and the     *)
(* footer are copied as they are now.                                      *)
Put(p, part, st) ==
    LET o == opt[p].out IN
    iso' = [iso EXCEPT ![o][part] = IF iso[o].by = p THEN st ELSE "part"]

(* A read of header.bin or footer.bin that fails is taken for its end.     *)
Copied(p, name) == {Has(p, name)} \cup (IF sound THEN {} ELSE {"part"})

CopyHeader(p) ==
    /\ pc[p] = "isoHeader"
    /\ Has(p, "header") # "none" /\ Has(p, "footer") # "none"
    /\ \E st \in Copied(p, "header") :
          iso' = [iso EXCEPT ![opt[p].out] =
                     [hdr |-> st, pup |-> "none", ftr |-> "none", by |-> p]]
    /\ Go(p, "isoFiles")
    /\ UNCHANGED <<opt, sound, file, named, met>>

AnyFile(st) == TRUE                                               \* mutant
HasItsLength(st) == st \in {"other", "whole"}

CopyFiles(p) ==
    /\ pc[p] = "isoFiles"
    /\ HasItsLength(Has(p, "pup"))
    /\ Put(p, "pup", Has(p, "pup"))
    /\ Go(p, "isoFooter")
    /\ UNCHANGED <<opt, sound, file, named, met>>

CopyFooter(p) ==
    /\ pc[p] = "isoFooter"
    /\ \E st \in Copied(p, "footer") : Put(p, "ftr", st)
    /\ Go(p, "exit")
    /\ UNCHANGED <<opt, sound, file, named, met>>

(* exit() flushes the image; a full device may take the tail unseen.       *)
ExitRun(p) ==
    /\ pc[p] = "exit"
    /\ \/ UNCHANGED iso
       \/ ~sound /\ Put(p, "ftr", "part")
    /\ Go(p, "ok")
    /\ UNCHANGED <<opt, sound, file, named, met>>

Terminated == (\A p \in Runs : pc[p] \in Ended) /\ UNCHANGED vars

Step(p) ==
    \/ Start(p) \/ Stop(p) \/ LoadSfo(p) \/ DownloadIrd(p)
    \/ DownloadPup(p) \/ LoadIrd(p) \/ UnpackImage(p) \/ ReadFoot(p)
    \/ Verify(p) \/ CopyHeader(p) \/ CopyFiles(p) \/ CopyFooter(p)
    \/ ExitRun(p)

Next == Terminated \/ \E p \in Runs : Step(p)

Spec == Init /\ [][Next]_vars

-----------------------------------------------------------------------------
TypeOK ==
    /\ opt \in OptSets /\ sound \in BOOLEAN
    /\ file \in [Files -> [st: Contents, by: Runs \cup {None}]]
    /\ iso \in [Outs -> [hdr: Contents, pup: Contents, ftr: Contents,
                         by: Runs \cup {None}]]
    /\ pc \in [Runs -> {"idle"} \cup Running \cup Ended]
    /\ named \subseteq Runs /\ met \subseteq Runs
    /\ \A p \in Runs : pc[p] \in {"pup", "fetchPup"} => opt[p].pup

(* A run that succeeded, and whose image no other has opened since.        *)
Made(p) == pc[p] = "ok" /\ iso[opt[p].out].by = p

(* Whatever earlier runs left behind when they failed or were killed, and  *)
(* whatever other runs do meanwhile that use another signature, rip and    *)
(* output: with devices that take and deliver what they should, success    *)
(* means an image with the whole header and the whole footer, and with a   *)
(* file of the right length from the rip; with -p, with the PUP of the     *)
(* disc.                                                                   *)
AloneIsWhole ==
    \A p \in Runs :
       (Made(p) /\ sound /\ p \notin met) =>
          LET i == iso[opt[p].out] IN
          /\ i.hdr = "whole" /\ i.ftr = "whole"
          /\ i.pup \in {"other", "whole"}
          /\ opt[p].pup => i.pup = "whole"

(* A run that was alone never puts a file that is not the disc's into an   *)
(* image without having reported it, whatever the devices do: the tail of  *)
(* a PUP that was lost unseen while it was downloaded is found missing.    *)
NoSilentMismatch ==
    \A p \in Runs :
       (Made(p) /\ p \notin met) =>
          LET i == iso[opt[p].out] IN
          i.pup = "whole" \/ (i.pup = "other" /\ p \in named)

(* main.c:89, "Manually supply IRD file": an IRD file may be given.        *)
SuppliedIrdIsRead ==
    \A p \in Runs : opt[p].given = "file" => pc[p] # "usage"
=============================================================================
