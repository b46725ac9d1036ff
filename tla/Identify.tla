------------------------------ MODULE Identify ------------------------------
(***************************************************************************)
(* The first half of main (src/main.c:78-174): the disc is identified from *)
(* its PARAM.SFO (SfoLoad), the output and the scratch directory are named *)
(* after it, and its IRD and, with -p, its PUP are fetched (NetFetch).     *)
(* Module Pipeline takes it from there.                                    *)
(*                                                                         *)
(* The directory in /tmp has the signature for its name, so `sig' stands   *)
(* for it; that a mkdir failed is seen when a file there cannot be opened. *)
(***************************************************************************)
EXTENDS SfoLoad, NetFetch

VARIABLES opt,      \* struct values, as far as it matters here
          outName,  \* vals.file_name, if it is made of the title
          pc, ret

ownVars == <<opt, outName, pc, ret>>
vars == <<sfoVars, netVars, ownVars>>

Options == [named: BOOLEAN, given: BOOLEAN, getPup: BOOLEAN]

(* %s of a field: up to its first 0.                                       *)
Text(field) ==
    {k \in DOMAIN field : \A j \in 0 .. k : field[j] # Nul}
PrintOf(field) == [k \in Text(field) |-> field[k]]

(* main.c:134-140, without the constant characters.                        *)
NameOf(title) == <<[k \in 0 .. 3 |-> title[k]], [k \in 0 .. 4 |-> title[4 + k]]>>

-----------------------------------------------------------------------------
Init ==
    /\ SfoInit /\ NetInit
    /\ opt \in Options
    /\ outName = <<>>
    /\ pc = "sfo" /\ ret = "EXIT_OK"

(* goto exec_error.                                                        *)
Exit(e) == ret' = e /\ pc' = "failed" /\ UNCHANGED <<opt, outName>>
Go(l) == pc' = l /\ UNCHANGED <<opt, outName, ret>>

AfterIrd == IF opt.getPup THEN "pup" ELSE "load"

LoadSfo == pc = "sfo" /\ SfoNext /\ UNCHANGED <<netVars, ownVars>>

TakeSfo ==
    /\ pc = "sfo" /\ spc = "done"
    /\ \/ sret # "EXIT_OK" /\ Exit(sret)
       \/ sret = "EXIT_OK" /\ Exit("ALLOC_ERROR")
       \/ /\ sret = "EXIT_OK"
          /\ outName' = IF opt.named THEN outName ELSE NameOf(sfo.title_id)
          /\ pc' = IF opt.given THEN AfterIrd ELSE "ird"
          /\ UNCHANGED <<opt, ret>>
    /\ UNCHANGED <<sfoVars, netVars>>

DownloadIrd ==
    /\ pc = "ird"
    /\ \/ Exit("ALLOC_ERROR") /\ UNCHANGED netVars
       \/ AskName(sig) /\ Go("fetchIrd")
    /\ UNCHANGED sfoVars

DownloadPup ==
    /\ pc = "pup"
    /\ \/ Exit("ALLOC_ERROR") /\ UNCHANGED netVars
       \/ AskPup(PrintOf(sfo.sys_ver)) /\ Go("fetchPup")
    /\ UNCHANGED sfoVars

Fetch ==
    /\ pc \in {"fetchIrd", "fetchPup"} /\ NetNext
    /\ UNCHANGED <<sfoVars, ownVars>>

Fetched ==
    /\ pc \in {"fetchIrd", "fetchPup"}
    /\ \/ /\ npc = "done"
          /\ NetReset
          /\ IF nret # "EXIT_OK" THEN Exit(nret)
             ELSE Go(IF pc = "fetchIrd" THEN AfterIrd ELSE "load")
       \/ npc = "aborted" /\ Go("killed") /\ UNCHANGED netVars
    /\ UNCHANGED sfoVars

Terminated == pc \in {"load", "failed", "killed"} /\ UNCHANGED vars

Next ==
    \/ LoadSfo \/ TakeSfo \/ DownloadIrd \/ DownloadPup \/ Fetch \/ Fetched
    \/ Terminated

Spec == Init /\ [][Next]_vars

-----------------------------------------------------------------------------
TypeOK ==
    /\ SfoTypeOK /\ NetTypeOK
    /\ opt \in Options
    /\ pc \in {"sfo", "ird", "fetchIrd", "pup", "fetchPup", "load", "failed",
               "killed"}
    /\ pc \notin {"sfo", "failed"} => SfoLoaded
    /\ outName # <<>> => ~opt.named
    /\ ret # "EXIT_OK" <=> pc = "failed"

(* sfo.c:96-143 takes the entries as they come, into memory nobody cleared. *)
(* The signature, and with it the scratch directory and the question to    *)
(* the archive, is that of the disc if the file has the four entries, long *)
(* enough, and APP_VER before TITLE_ID; otherwise it sums a byte that is   *)
(* not the disc's, although load_sfo succeeds.  The image is then named    *)
(* after the disc.                                                         *)
SignatureExact ==
    SfoLoaded =>
       /\ IF Sound(file) THEN sig = TrueSig(file)
          ELSE \E i \in 1 .. 4 : \E k \in DOMAIN sig[i] : sig[i][k] \in {Junk, Nul}
       /\ Sound(file) /\ outName # <<>> => outName = NameOf(Says(file, "TITLE_ID", 0, 9))

(* net.c:26-33, 159-165: in whatever pieces the answer arrives, what lies  *)
(* at ird.bin once the stage succeeded is the file that the first line of  *)
(* the answer for this disc names, and the PUP is the one of the disc's    *)
(* version.  The assert dies only of an answer that the buffer cannot hold.*)
FetchesWhatWasNamed ==
    Sound(file) =>
       /\ pc \in {"pup", "fetchPup", "load"} /\ ~opt.given =>
             /\ body \in Answers(TrueSig(file)) /\ HasLine(body)
             /\ disk["ird"] = <<"ird", FirstLine(body)>>
       /\ pc = "load" /\ opt.getPup =>
             disk["pup"] = <<"pup", Says(file, "PS3_SYSTEM_VER", 1, 4)>>
       /\ pc = "killed" => Len(body) >= BufSize
=============================================================================
