------------------------------ MODULE NetFetch ------------------------------
(***************************************************************************)
(* download_ird and download_pup (src/src/net.c): the archive is asked for *)
(* the name of the IRD, which arrives in pieces in a buffer of fixed size; *)
(* the first line of the answer is the name of the file that is fetched.   *)
(* The PUP is fetched at once.                                             *)
(*                                                                         *)
(* An answer is a sequence of characters.  A file is known by the address  *)
(* it was fetched from; the device has room for it (module Pipeline says   *)
(* what happens when it has not).  snprintf does not fail.                 *)
(***************************************************************************)
EXTENDS Integers, Sequences, FiniteSetsExt

CONSTANTS BufSize,      \* BUFF_SIFE
          Replies,      \* what the archive may answer: text
          Answers(_),   \* which of that, for a signature
          Served        \* addresses of the files that it has

VARIABLES query,        \* what is looked for: a signature or a version
          body,         \* the answer of the archive
          sent,         \* how much of it arrived
          mem, size,    \* memory_wrapper_t
          address,      \* url
          dst,          \* file_path
          disk,         \* the files at the two paths
          npc, nret

netVars == <<query, body, sent, mem, size, address, dst, disk, npc, nret>>

NL == "newline"
Zero == "nul"
Garbage == "garbage"    \* memory that nobody wrote

NetInit ==
    /\ query = <<>> /\ body = <<>> /\ sent = 0
    /\ mem = [k \in 0 .. (BufSize - 1) |-> Garbage] /\ size = 0
    /\ address = <<>> /\ dst = "ird"
    /\ disk \in [{"ird", "pup"} -> {<<"none">>, <<"old">>}]
    /\ npc = "idle" /\ nret = "EXIT_OK"

NetReturn(e) == nret' = e /\ npc' = "done"

(* download_ird up to url_to_memory: four allocations, curl, the query.    *)
AskName(s) ==
    /\ npc = "idle"
    /\ query' = s /\ dst' = "ird"
    /\ \/ \E e \in {"ALLOC_ERROR", "CURL_INIT_ERROR"} : NetReturn(e) /\ UNCHANGED body
       \/ body' \in Answers(s) \cap Replies /\ npc' = "answer" /\ UNCHANGED nret
    /\ UNCHANGED <<sent, mem, size, address, disk>>

(* memory_callback: n characters more.  The assert leaves room for the 0.  *)
FitsExactly(n) == size + n <= BufSize                             \* mutant
Fits(n) == size + n < BufSize

Restarts == 0                                                     \* mutant
AppendsAt == size

Deliver ==
    /\ npc = "answer"
    /\ \E n \in 0 .. (Len(body) - sent) :
          /\ n = 0 => body = <<>>
          /\ \/ /\ Fits(n)
                /\ mem' = [k \in DOMAIN mem |->
                              IF AppendsAt <= k /\ k < AppendsAt + n
                              THEN body[sent + 1 + k - AppendsAt]
                              ELSE IF k = AppendsAt + n THEN Zero ELSE mem[k]]
                /\ size' = size + n
                /\ sent' = sent + n
                /\ UNCHANGED npc
             \/ /\ ~Fits(n)
                /\ npc' = "aborted" /\ UNCHANGED <<mem, size, sent>>
    /\ UNCHANGED <<query, body, address, dst, disk, nret>>

AnswerFails ==
    /\ npc = "answer" /\ NetReturn("CURL_PERF_ERROR")
    /\ UNCHANGED <<query, body, sent, mem, size, address, dst, disk>>

(* strtok(memory, "\n"): the first line that is not empty.  Without one it *)
(* is a null pointer, which the C library prints; without an answer it is  *)
(* whatever the buffer holds.                                              *)
NoName == <<"(null)">>

ASSUME NetAssumption ==
    /\ BufSize \in Nat \ {0}
    /\ Replies \subseteq Seq(STRING)
    /\ \A b \in Replies : \A k \in DOMAIN b : b[k] \notin {Zero, Garbage}
    /\ \A name \in {NoName, <<Garbage>>} : <<"ird", name>> \notin Served

Line(m) ==
    LET from == Min({k \in DOMAIN m : m[k] # NL})
        to   == Min({k \in DOMAIN m : k >= from /\ m[k] \in {NL, Zero}})
    IN  IF m[from] = Zero THEN NoName ELSE [k \in 1 .. (to - from) |-> m[from + k - 1]]

TakeName ==
    /\ npc = "answer" /\ sent = Len(body)
    /\ \E name \in IF mem[0] = Garbage THEN {NoName, <<Garbage>>} ELSE {Line(mem)} :
          address' = <<"ird", name>>
    /\ npc' = "get"
    /\ UNCHANGED <<query, body, sent, mem, size, dst, disk, nret>>

(* download_pup.                                                           *)
AskPup(version) ==
    /\ npc = "idle"
    /\ query' = version /\ dst' = "pup"
    /\ \/ NetReturn("ALLOC_ERROR") /\ UNCHANGED address
       \/ address' = <<"pup", version>> /\ npc' = "get" /\ UNCHANGED nret
    /\ UNCHANGED <<body, sent, mem, size, disk>>

(* url_to_file: the file is truncated, filled, and removed if that fails.  *)
Get ==
    /\ npc = "get"
    /\ \/ \E e \in {"CURL_INIT_ERROR", "F_OPEN_ERROR"} :
             NetReturn(e) /\ UNCHANGED disk
       \/ /\ disk' = [disk EXCEPT ![dst] = <<"none">>]
          /\ NetReturn("CURL_PERF_ERROR")
       \/ /\ address \in Served
          /\ disk' = [disk EXCEPT ![dst] = address]
          /\ NetReturn("EXIT_OK")
    /\ UNCHANGED <<query, body, sent, mem, size, address, dst>>

NetNext == Deliver \/ AnswerFails \/ TakeName \/ Get

(* The caller takes the result; nothing of a call but its file remains.    *)
NetReset ==
    /\ npc' = "idle" /\ nret' = "EXIT_OK"
    /\ UNCHANGED <<query, body, sent, mem, size, address, dst, disk>>

-----------------------------------------------------------------------------
NetTypeOK ==
    /\ sent \in 0 .. Len(body) /\ size = sent
    /\ DOMAIN mem = 0 .. (BufSize - 1)
    /\ size > 0 => size \in DOMAIN mem /\ mem[size] = Zero
    /\ npc \in {"idle", "answer", "get", "done", "aborted"}
    /\ nret \in {"EXIT_OK", "ALLOC_ERROR", "CURL_INIT_ERROR", "CURL_PERF_ERROR",
                 "F_OPEN_ERROR"}

(* The first line of an answer that is not empty.                          *)
HasLine(b) == \E k \in DOMAIN b : b[k] # NL
FirstLine(b) ==
    LET from == Min({k \in DOMAIN b : b[k] # NL})
        to   == Max({k \in from .. Len(b) : \A j \in from .. k : b[j] # NL})
    IN  SubSeq(b, from, to)
=============================================================================
