------------------------------- MODULE IrdLoad ------------------------------
(***************************************************************************)
(* load_ird (src/src/ird.c:212-327) and the sections it reads one after    *)
(* the other from one gzip stream (handle_ird_var, ird.c:22-73, and        *)
(* handle_ird_compressed, ird.c:75-151).                                   *)
(*                                                                         *)
(* Lengths are counted in units; a field of fixed size is one unit.  What  *)
(* decompress_to_path does on a failing stream is module CopyLoop: a       *)
(* bounded call reports EXIT_OK with junk in the output, and leaves the    *)
(* stream at its error (JunkLeavesStreamFailed); an unbounded one succeeds *)
(* only if it unpacked everything, and the file lacks at most a tail that  *)
(* a full device did not take (UnboundedLosesOnlyTail).  A stream that was *)
(* cut off is one that ends there: gzread has no error for it.             *)
(***************************************************************************)
EXTENDS Integers, Sequences

CONSTANTS Irds,     \* [version, title, header, footer, regions, files: Nat,
                    \*  inner]: see IrdAssumption
          HashSize, \* sizeof(file_hash_t), in units
          IntMod,   \* 2^32, the range of the product in handle_ird_var
          MaxAvail  \* bound on the units the stream can deliver

Pointers == {"title", "header", "footer", "regions", "files"}
Images == {"header", "footer"}

ASSUME IrdAssumption ==
    /\ MaxAvail \in Nat
    /\ HashSize \in Nat /\ IntMod \in Nat
    /\ HashSize > 0 /\ HashSize % 2 = 0
    /\ IntMod > 0 /\ IntMod % 2 = 0
    /\ Irds \subseteq [version: Nat, title: Nat, header: Nat, footer: Nat,
                       regions: Nat, files: Nat,
                       inner: [Images -> {"whole", "cut", "bad"}]]

VARIABLES ird,     \* the IRD as it was made: its sections, and whether the
                   \* gzip stream within an image is whole, cut off or bad
          full,    \* the device of tmp_path takes less than is written
          avail,   \* units the stream delivers before it ends or fails
          bad,     \* it fails there, and does not just end
          pos,     \* units read
          failed,  \* the stream is at its error: every gzread gives -1
          ptr,     \* what each pointer of load_ird points at
          out,     \* what header.bin and footer.bin hold
          pc, ret,
          badFree  \* free() got a pointer that was never assigned

vars == <<ird, full, avail, bad, pos, failed, ptr, out, pc, ret, badFree>>

(* The sections, in the order of the code.                                 *)
FooterLast ==                                                     \* mutant
    [head |-> "title", title |-> "body", body |-> "skip", skip |-> "header",
     header |-> "regions", regions |-> "files", files |-> "foot",
     foot |-> "footer", footer |-> "done"]
After ==
    [head |-> "title", title |-> "body", body |-> "skip", skip |-> "header",
     header |-> "footer", footer |-> "regions", regions |-> "files",
     files |-> "foot", foot |-> "done"]

(* What the exit label of each section frees (ird.c:240-297, 314-322).     *)
ExitFrees ==
    LET exit_title == {"title"}
        exit_header == {"header"} \cup exit_title
        exit_footer == {"footer"} \cup exit_header
        exit_reg == {"regions"} \cup exit_footer
        exit_hash == {"files"} \cup exit_reg
    IN  [head |-> {}, title |-> exit_title, body |-> exit_title,
         skip |-> exit_title, header |-> exit_title, footer |-> exit_header,
         regions |-> exit_footer, files |-> exit_reg, foot |-> exit_hash]

ForgetsRegions(s) == ExitFrees[s] \ {"regions"}                   \* mutant
FreesFooter(s) == IF s = "footer" THEN ExitFrees["regions"]       \* mutant
                  ELSE ExitFrees[s]
Frees(s) == ExitFrees[s]

Init ==
    /\ ird \in Irds
    /\ full \in BOOLEAN
    /\ avail \in 0 .. MaxAvail
    /\ bad \in BOOLEAN
    /\ pos = 0 /\ failed = FALSE
    /\ ptr = [p \in Pointers |-> "unset"]
    /\ out = [p \in Images |-> "none"]
    /\ pc = "open" /\ ret = "EXIT_OK"
    /\ badFree = FALSE

(* The exit of the current section.  Giving free() an unset pointer is     *)
(* undefined: the process is killed or goes on.                            *)
Fail(e) ==
    LET unset == {p \in Frees(pc) : ptr[p] # "live"} IN
    /\ ptr' = [p \in Pointers |->
                  IF p \in Frees(pc) \ unset THEN "freed" ELSE ptr[p]]
    /\ badFree' = (unset # {})
    /\ ret' = e
    /\ pc' \in IF unset = {} THEN {"done"} ELSE {"done", "aborted"}

Open ==
    /\ pc = "open"
    /\ \/ pc' = "head" /\ UNCHANGED ret
       \/ pc' = "done" /\ ret' = "FG_OPEN_ERROR"
    /\ UNCHANGED <<ird, full, avail, bad, pos, failed, ptr, out, badFree>>

(* gzread of n units: whole, or short or -1 at the end of the stream.      *)
Unchecked(n) == TRUE                                              \* mutant
WantsMore(n) == ~failed /\ pos + n < avail                        \* mutant
Delivers(n) == ~failed /\ pos + n <= avail

Take(n) == pos' = pos + n /\ UNCHANGED failed
Exhaust == pos' = avail /\ failed' = bad

(* Sections of fixed size: ird_header, ird_body, ird_footer.               *)
ReadFixed ==
    /\ pc \in {"head", "body", "foot"}
    /\ \/ /\ Delivers(1) /\ Take(1)
          /\ pc' = After[pc]
          /\ UNCHANGED <<ptr, ret, badFree>>
       \/ ~Delivers(1) /\ Exhaust /\ Fail("FG_READ_ERROR")
    /\ UNCHANGED <<ird, full, avail, bad, out>>

(* Only a version 7 IRD has the four bytes to skip; gzseek returns the     *)
(* offset it reached, and the test is for 0 (ird.c:261): it always fails.  *)
Skip ==
    /\ pc = "skip"
    /\ \/ /\ ird.version # 7
          /\ pc' = After[pc]
          /\ UNCHANGED <<ptr, ret, badFree>>
       \/ ird.version = 7 /\ Fail("FG_SEEK_ERROR")
    /\ UNCHANGED <<ird, full, avail, bad, pos, failed, out>>

(* read_size, an int.  Only the count of files has more than 8 bits, and   *)
(* its product with the even HashSize is never -1.                         *)
ToInt(x) == IF x % IntMod < IntMod \div 2 THEN x % IntMod
            ELSE (x % IntMod) - IntMod
ReadSize(s) == IF s = "files" THEN ToInt(ird.files * HashSize) ELSE ird[s]

(* handle_ird_var: a count, then that many items into a malloc'ed buffer.  *)
(* There is none of a negative size.                                       *)
ReadVar ==
    /\ pc \in {"title", "regions", "files"}
    /\ LET wanted == IF ReadSize(pc) < 0 THEN 1 ELSE 1 + ReadSize(pc) IN
       \/ /\ ReadSize(pc) >= 0 /\ Delivers(wanted) /\ Take(wanted)
          /\ ptr' = [ptr EXCEPT ![pc] = "live"]
          /\ pc' = After[pc]
          /\ UNCHANGED <<ret, badFree>>
       \/ ~Delivers(wanted) /\ Exhaust /\ Fail("FG_READ_ERROR")
       \/ Delivers(1) /\ Take(1) /\ Fail("ALLOC_ERROR")
    /\ UNCHANGED <<ird, full, avail, bad, out>>

(* The inner stream, from the .binu file just written.  The tails of that  *)
(* file and of the unpacked one are lost, without a word, when a full      *)
(* device does not take them at fclose.  From junk anything may come out.  *)
Yields(p) ==
    {o \in {"exact", "part"} :
        /\ o = "exact" => ird.inner[p] = "whole"
        /\ o = "part" => full \/ ird.inner[p] = "cut"}

Unpacked(content) ==
    /\ out' = [out EXCEPT ![pc] = content]
    /\ ptr' = [ptr EXCEPT ![pc] = "live"]
    /\ pc' = After[pc]
    /\ UNCHANGED <<ret, badFree>>

UnpackFails ==
    /\ out' = [out EXCEPT ![pc] = "part"]
    /\ \E e \in {"FG_OPEN_ERROR", "F_OPEN_ERROR", "ALLOC_ERROR",
                 "F_WRITE_ERROR"} : Fail(e)

(* handle_ird_compressed: a length, then that much of the stream copied to *)
(* a file, and the file unpacked.                                          *)
ReadCompressed ==
    /\ pc \in {"header", "footer"}
    /\ LET n == ird[pc] IN
       \/ ~Delivers(1) /\ Exhaust /\ Fail("FG_READ_ERROR") /\ UNCHANGED out
       \/ /\ Delivers(1) /\ Take(1)
          /\ \E e \in {"ALLOC_ERROR", "ENCODING_ERROR", "PATH_BUFFER_ERROR",
                       "F_OPEN_ERROR", "F_WRITE_ERROR"} : Fail(e)
          /\ UNCHANGED out
       \/ /\ Delivers(1 + n) /\ Take(1 + n)
          /\ (\E o \in Yields(pc) : Unpacked(o)) \/ UnpackFails
       \/ /\ Delivers(1) /\ ~Delivers(1 + n) /\ Exhaust
          /\ \/ bad /\ (Unpacked("junk") \/ UnpackFails)
             \/ ~bad /\ Fail("F_SIZE_ERROR") /\ UNCHANGED out
    /\ UNCHANGED <<ird, full, avail, bad>>

Terminated == pc \in {"done", "aborted"} /\ UNCHANGED vars

Next == Open \/ ReadFixed \/ Skip \/ ReadVar \/ ReadCompressed \/ Terminated

Spec == Init /\ [][Next]_vars

-----------------------------------------------------------------------------
Errors == {"ALLOC_ERROR", "ENCODING_ERROR", "PATH_BUFFER_ERROR",
           "F_OPEN_ERROR", "F_WRITE_ERROR", "F_SIZE_ERROR", "FG_OPEN_ERROR",
           "FG_READ_ERROR", "FG_SEEK_ERROR"}

TypeOK ==
    /\ ird \in Irds /\ avail \in 0 .. MaxAvail /\ full \in BOOLEAN
    /\ pos \in 0 .. avail
    /\ bad \in BOOLEAN /\ failed \in BOOLEAN /\ badFree \in BOOLEAN
    /\ ptr \in [Pointers -> {"unset", "live", "freed"}]
    /\ out \in [Images -> {"none", "part", "junk", "exact"}]
    /\ pc \in {"open", "head", "title", "body", "skip", "header", "footer",
               "regions", "files", "foot", "done", "aborted"}
    /\ ret \in Errors \cup {"EXIT_OK"}

Total == 8 + ird.title + ird.header + ird.footer + ird.regions
           + ird.files * HashSize
HashesFit == ird.files * HashSize < IntMod \div 2

Loaded == pc = "done" /\ ret = "EXIT_OK"

(* A loaded IRD was read whole and its images are unpacked, though a       *)
(* failing gzread inside decompress_to_path is never reported: the stream  *)
(* stays at its error, and a section that checks its read follows every    *)
(* compressed one, so no image is made up.  It may be a part of what it    *)
(* should be only if its own stream was cut off when the IRD was made, or  *)
(* if a full device lost the tail.  Hashes of 2 GiB or more, whose size    *)
(* wraps (ird.c:51), are the other exception: a part of them may be taken  *)
(* for all.                                                                *)
LoadedHasNoJunk ==
    Loaded => /\ pos = Total <=> HashesFit
              /\ \A p \in Images :
                    \/ out[p] = "exact"
                    \/ out[p] = "part" /\ (full \/ ird.inner[p] = "cut")

(* The caller of load_ird gets five live blocks, or none: the exits of a   *)
(* failed load free whatever was allocated before.                         *)
AllOrNothing ==
    pc = "done" =>
        \A p \in Pointers : ptr[p] = "live" <=> ret = "EXIT_OK"

(* free() gets a pointer that is not live only when the title cannot be    *)
(* read: its exit frees the variable it failed to set (ird.c:248-251).     *)
BadFreeOnlyOnTitle ==
    badFree => /\ ret \in {"FG_READ_ERROR", "ALLOC_ERROR"}
               /\ out["header"] = "none"
               /\ \A p \in Pointers : ptr[p] = "unset"

(* A complete IRD loads unless memory, files or the device fail or one of  *)
(* its images cannot be unpacked: except one of version 7, none of which   *)
(* loads.                                                                  *)
IntactLoads ==
    (pc = "done" /\ avail >= Total) =>
        /\ ird.version # 7 => ret \notin {"FG_READ_ERROR", "FG_SEEK_ERROR",
                                          "F_SIZE_ERROR"}
        /\ ird.version = 7 => ret # "EXIT_OK"
=============================================================================
