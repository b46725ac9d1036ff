---------------------------- MODULE CopyContract ----------------------------
(***************************************************************************)
(* What the copy functions of src/src/util.c promise their callers: in one *)
(* step, either an error, or EXIT_OK with the bytes of the source from its *)
(* beginning, all that were asked for unless the source ends before.       *)
(* Another process may truncate the source meanwhile (a rip being moved).  *)
(* Two things EXIT_OK does not say of a gzip source: if its error lies     *)
(* within the size asked for, the rest of the size may be made up; and of  *)
(* what was unpacked the file, closed without a look at the result, has    *)
(* only what the device took, short by at most the stdio buffer.           *)
(***************************************************************************)
EXTENDS Integers

CONSTANTS Jobs, Caps, StdioBuf  \* see CopyLoop

VARIABLES job,     \* the call
          cap,     \* bytes the output device accepts
          srcLen,  \* length of the source now
          res      \* [st, good, junk]: outcome, and what the output holds

vars == <<job, cap, srcLen, res>>

Init ==
    /\ job \in Jobs
    /\ cap \in Caps
    /\ srcLen = job.len
    /\ res = [st |-> "running", good |-> 0, junk |-> 0]

Truncate ==
    /\ srcLen' \in 0 .. srcLen
    /\ UNCHANGED <<job, cap, res>>

(* Of n bytes handed to the stream, the file of a gzip call has the        *)
(* beginning that the device took; the stream of a copy stays open.        *)
Held(n) == IF job.kind = "gz" /\ n > cap THEN cap ELSE n

Ended(st, n, m) ==
    /\ n + m <= cap + StdioBuf
    /\ res' = [st |-> st, good |-> Held(n), junk |-> Held(n + m) - Held(n)]

(* The stream fails before it has delivered what was asked for.            *)
ErrorWithin == job.kind = "gz" /\ job.bad /\ job.len < job.size

Succeed ==
    /\ res.st = "running"
    /\ \E n \in 0 .. job.len :
          /\ n <= job.size
          /\ n < job.size => srcLen <= n /\ ~ErrorWithin
          /\ Ended("ok", n, 0)
    /\ UNCHANGED <<job, cap, srcLen>>

SucceedWithJunk ==
    /\ res.st = "running" /\ ErrorWithin
    /\ \E n \in 0 .. job.len : Ended("ok", n, job.size - n)
    /\ UNCHANGED <<job, cap, srcLen>>

Fail ==
    /\ res.st = "running"
    /\ \E n \in 0 .. job.len, m \in 0 .. job.size :
          /\ n + m <= job.size
          /\ m > 0 => ErrorWithin
          /\ Ended("failed", n, m)
    /\ UNCHANGED <<job, cap, srcLen>>

Next == Truncate \/ Succeed \/ SucceedWithJunk \/ Fail

Spec == Init /\ [][Next]_vars
=============================================================================
