------------------------------ MODULE CopyLoop ------------------------------
(***************************************************************************)
(* write_file_to_file and decompress_to_path (src/src/util.c:159-270): the *)
(* same loop over a BufSize buffer, one reading with fread and one with    *)
(* gzread.  fread reports an error as a short count, like the end of the   *)
(* file.  gzread reports it as -1, which the loop keeps in a size_t: the   *)
(* test for a negative count never fires, the count looks full, and what   *)
(* the buffer happens to hold is written.  A gzip error is sticky.         *)
(*                                                                         *)
(* The output is counted, not stored: `good' bytes of the source in order, *)
(* then `junk' bytes that are not what the source has there.  The stream   *)
(* takes up to StdioBuf bytes more than the device.  decompress_to_path    *)
(* closes it and does not look at the result (util.c:265): what the device *)
(* does not take is lost there, without a word.  write_file_to_file leaves *)
(* its stream open to the caller.                                          *)
(***************************************************************************)
EXTENDS Integers

CONSTANTS BufSize,    \* BUFF_SIFE
          StdioBuf,   \* capacity of the stdio buffer of the output
          Unbounded,  \* INT64_MAX, the size of "copy to the end"
          Jobs,       \* the calls: kind of source, size asked for, bytes the
                      \* source can deliver, and whether an error follows them
                      \* (a gzip stream that was cut off just ends there)
          Caps        \* bytes the output device may accept

ASSUME CopyAssumption ==
    /\ BufSize \in Nat \ {0}
    /\ StdioBuf \in Nat
    /\ Unbounded \in Nat
    /\ Caps \subseteq Nat
    /\ Jobs \subseteq [kind: {"file", "gz"}, size: Nat, len: Nat, bad: BOOLEAN]
    /\ \A c \in Caps : c + StdioBuf < Unbounded

VARIABLES job, cap,
          srcLen,   \* bytes the source can deliver now
          pc, ret,
          size,     \* the parameter, lowered when the source ends
          rwTotal,  \* rw_total
          rwSize,   \* rw_size
          inBuf,    \* bytes at the front of the buffer that this read delivered
          rpos,     \* how far the source was read
          good, junk

vars == <<job, cap, srcLen, pc, ret, size, rwTotal, rwSize, inBuf, rpos,
          good, junk>>

Max2(a, b) == IF a < b THEN b ELSE a                              \* mutant
Min2(a, b) == IF a < b THEN a ELSE b

Init ==
    /\ job \in Jobs
    /\ cap \in Caps
    /\ srcLen = job.len
    /\ pc = "start" /\ ret = "EXIT_OK"
    /\ size = job.size
    /\ rwTotal = 0 /\ rwSize = 0 /\ inBuf = 0 /\ rpos = 0
    /\ good = 0 /\ junk = 0

Return(e) == ret' = e /\ pc' = "returned"

(* From inside the loop: exit_normal, where decompress_to_path closes.     *)
Leave(e) == ret' = e /\ pc' = IF job.kind = "gz" THEN "close" ELSE "returned"

(* malloc of the buffer; for a gzip source the output is opened here.      *)
Start ==
    /\ pc = "start"
    /\ \/ pc' = "loop" /\ UNCHANGED ret
       \/ Return("ALLOC_ERROR")
       \/ job.kind = "gz" /\ Return("F_OPEN_ERROR")
    /\ UNCHANGED <<job, cap, srcLen, size, rwTotal, rwSize, inBuf, rpos, good,
                   junk>>

(* What the next read can deliver, and whether it is a gzread that fails.  *)
Left == IF rpos < srcLen THEN srcLen - rpos ELSE 0
GzFails(req) == job.kind = "gz" /\ job.bad /\ Left < req

(* After a short read of n bytes, rw_size and size are lowered             *)
(* (util.c:189-192, 248-251).                                              *)
WholeBuffer(n) == BufSize                                         \* mutant
Chunk(n) == n
KeepSize(n) == size                                               \* mutant
EndAt(n) == rwTotal + n

Read ==
    /\ pc = "loop" /\ rwTotal < size
    /\ LET req == Min2(BufSize, size - rwTotal) IN
       \/ /\ GzFails(req)
          /\ inBuf' \in 0 .. Left
          /\ rwSize' = req /\ UNCHANGED size
       \/ /\ ~GzFails(req) /\ Left >= req
          /\ inBuf' = req
          /\ rwSize' = req /\ UNCHANGED size
       \/ /\ ~GzFails(req) /\ Left < req
          /\ inBuf' = Left
          /\ rwSize' = Chunk(Left) /\ size' = EndAt(Left)
    /\ rpos' = rpos + Min2(Left, Min2(BufSize, size - rwTotal))
    /\ pc' = "write"
    /\ UNCHANGED <<job, cap, srcLen, ret, rwTotal, good, junk>>

(* m bytes of the buffer reach the stream.                                 *)
Put(m) ==
    /\ good' = good + Min2(m, inBuf)
    /\ junk' = junk + (m - Min2(m, inBuf))

NoCapacity(n) == TRUE                                             \* mutant
Accepts(n) == rwTotal + n <= cap + StdioBuf

Write ==
    /\ pc = "write"
    /\ \/ /\ Accepts(rwSize)
          /\ Put(rwSize)
          /\ rwTotal' = rwTotal + rwSize
          /\ pc' = "loop" /\ UNCHANGED ret
       \/ \E m \in 0 .. rwSize :
             /\ m < rwSize /\ rwTotal + rwSize > cap /\ Accepts(m)
             /\ Put(m)
             /\ Leave("F_WRITE_ERROR") /\ UNCHANGED rwTotal
    /\ UNCHANGED <<job, cap, srcLen, size, rwSize, inBuf, rpos>>

Finish ==
    /\ pc = "loop" /\ rwTotal >= size
    /\ Leave("EXIT_OK")
    /\ UNCHANGED <<job, cap, srcLen, size, rwTotal, rwSize, inBuf, rpos, good,
                   junk>>

(* What the file holds of the first n bytes when the stream is closed.     *)
Kept(n) == Min2(n, cap)

(* fclose(out_file): ret_val stays what it is.                             *)
Close ==
    /\ pc = "close" /\ pc' = "returned"
    /\ good' = Kept(good)
    /\ junk' = Kept(good + junk) - Kept(good)
    /\ UNCHANGED <<job, cap, srcLen, ret, size, rwTotal, rwSize, inBuf, rpos>>

(* The environment: a file of the rip is truncated while it is copied.     *)
Truncate ==
    /\ job.kind = "file" /\ srcLen > 0 /\ pc # "returned"
    /\ srcLen' \in 0 .. (srcLen - 1)
    /\ UNCHANGED <<job, cap, pc, ret, size, rwTotal, rwSize, inBuf, rpos, good,
                   junk>>

Terminated == pc = "returned" /\ UNCHANGED vars

Next == Start \/ Read \/ Write \/ Finish \/ Close \/ Truncate \/ Terminated

Spec == Init /\ [][Next]_vars

(* The process keeps running the loop: its own steps are taken.            *)
FairSpec == Spec /\ WF_vars(Start \/ Read \/ Write \/ Finish \/ Close)

-----------------------------------------------------------------------------
TypeOK ==
    /\ job \in Jobs /\ cap \in Caps
    /\ srcLen \in 0 .. job.len
    /\ pc \in {"start", "loop", "write", "close", "returned"}
    /\ ret \in {"EXIT_OK", "ALLOC_ERROR", "F_OPEN_ERROR", "F_WRITE_ERROR"}
    /\ {size, rwTotal, rwSize, inBuf, rpos, good, junk} \subseteq Nat
    /\ inBuf <= rwSize /\ rwSize <= BufSize

Succeeded == pc = "returned" /\ ret = "EXIT_OK"

(* decompress_to_path(.., INT64_MAX, ..), which unpacks the IRD and its    *)
(* footer: EXIT_OK means that the whole stream was unpacked, and counted,  *)
(* and nothing else written, although a failing gzread goes unnoticed (the *)
(* loop then only ends by filling the device, which is reported).  What    *)
(* may be missing from the file is a tail no longer than the stdio buffer, *)
(* and only on a device that was too small for it.                         *)
UnboundedLosesOnlyTail ==
    (Succeeded /\ job.kind = "gz" /\ job.size = Unbounded) =>
        /\ junk = 0 /\ ~job.bad
        /\ rwTotal = job.len
        /\ good = Min2(job.len, cap) /\ job.len - good <= StdioBuf

(* A call that reports EXIT_OK with bytes that are not the source's (a     *)
(* gzread failed within a bounded size) has written exactly the size asked *)
(* for, so the caller's test of the count, ird.c:122, cannot see it, and   *)
(* the stream is at its error: every later gzread of it fails.             *)
JunkLeavesStreamFailed ==
    (Succeeded /\ junk > 0) =>
        rwTotal = job.size /\ job.kind = "gz" /\ job.bad /\ rpos = job.len

(* Every call returns: the end of the source, the size or a full device    *)
(* stops the loop even when gzread fails for ever.                         *)
Returns == <>(pc = "returned")

Outcome ==
    IF pc # "returned" THEN [st |-> "running", good |-> 0, junk |-> 0]
    ELSE [st |-> IF ret = "EXIT_OK" THEN "ok" ELSE "failed",
          good |-> good, junk |-> junk]

Contract == INSTANCE CopyContract WITH res <- Outcome

(* The loop does what CopyContract promises, one step for all of its       *)
(* iterations, also when the file shrinks under it and when the close      *)
(* loses the tail: EXIT_OK is worth the bytes of the source, or, of a gzip *)
(* stream that fails within the size, the size and nothing more; what was  *)
(* unpacked is cut to what the device takes.                               *)
KeepsContract == Contract!Spec
=============================================================================
