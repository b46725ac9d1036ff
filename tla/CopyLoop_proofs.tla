-------------------------- MODULE CopyLoop_proofs ---------------------------
(***************************************************************************)
(* Proofs about CopyLoop, for every buffer size, call, source and device:  *)
(* the copy to the end of a gzip stream that reports EXIT_OK unpacked the  *)
(* whole of it and loses no more than the tail that a full device did not  *)
(* take from the stdio buffer, a bounded one that wrote junk left the      *)
(* stream in error, and the loop refines the one-step contract.            *)
(***************************************************************************)
EXTENDS CopyLoop, TLAPS

(* The bookkeeping of the loop.  `At' is what the output will hold when    *)
(* the buffer is written.                                                  *)
Pending == IF pc = "write" THEN rwSize ELSE 0
PendingGood == IF pc = "write" THEN inBuf ELSE 0

Counts ==
    /\ rwTotal = good + junk
    /\ rwTotal + Pending <= size
    /\ size <= job.size
    /\ rwTotal <= cap + StdioBuf
    /\ rpos <= job.len
    /\ good + PendingGood <= rpos
    /\ job.kind = "gz" => srcLen = job.len

(* Junk in the output or the buffer means a gzip stream at its error.      *)
JunkSource ==
    junk > 0 \/ Pending > PendingGood =>
        job.kind = "gz" /\ job.bad /\ rpos = job.len /\ size = job.size
        /\ job.len < job.size

(* Without junk the output is the source as far as it was read.            *)
GoodIsRead ==
    junk = 0 /\ Pending = PendingGood => good + PendingGood = rpos

(* The size was lowered only at the end of the source.                     *)
EndSeen ==
    size # job.size =>
        /\ rwTotal + Pending = size
        /\ srcLen <= rpos
        /\ job.kind = "gz" => ~job.bad

LoopInv ==
    pc # "returned" /\ ret = "EXIT_OK" =>
        Counts /\ JunkSource /\ GoodIsRead /\ EndSeen

(* What the stream of a gzip call was given, also if the last write failed.*)
Given ==
    /\ job.kind = "gz"
    /\ good <= job.len /\ good + junk <= job.size
    /\ good + junk <= cap + StdioBuf
    /\ junk > 0 => job.bad /\ job.len < job.size

AtReturn ==
    /\ pc = "close" => Given /\ (ret = "EXIT_OK" => rwTotal = size)
    /\ UnboundedLosesOnlyTail /\ JunkLeavesStreamFailed
    /\ pc = "start" => good = 0 /\ junk = 0 /\ rwTotal = 0 /\ rpos = 0
    /\ pc \notin {"close", "returned"} => ret = "EXIT_OK"

Inv == TypeOK /\ LoopInv /\ AtReturn

-----------------------------------------------------------------------------
LEMMA InitInv == Init => Inv
<1>. SUFFICES ASSUME Init PROVE Inv
  OBVIOUS
<1>. USE CopyAssumption DEF Init
<1>1. job.size \in Nat /\ job.len \in Nat /\ cap \in Nat
  OBVIOUS
<1>2. TypeOK
  BY <1>1 DEF TypeOK
<1>3. LoopInv
  BY <1>1 DEF LoopInv, Counts, JunkSource, GoodIsRead, EndSeen, Pending,
              PendingGood
<1>4. AtReturn
  BY DEF AtReturn, Succeeded, UnboundedLosesOnlyTail, JunkLeavesStreamFailed
<1>. QED BY <1>2, <1>3, <1>4 DEF Inv

(* The types as separate facts.                                            *)
LEMMA Types ==
    ASSUME TypeOK
    PROVE  /\ size \in Nat /\ rwTotal \in Nat /\ rwSize \in Nat /\ inBuf \in Nat
           /\ rpos \in Nat /\ good \in Nat /\ junk \in Nat
           /\ srcLen \in Nat /\ srcLen <= job.len
           /\ job.size \in Nat /\ job.len \in Nat /\ job.bad \in BOOLEAN
           /\ job.kind \in {"file", "gz"} /\ cap \in Nat
           /\ BufSize \in Nat \ {0} /\ StdioBuf \in Nat
           /\ inBuf <= rwSize /\ rwSize <= BufSize
BY CopyAssumption DEF TypeOK

LEMMA ReadStep == Inv /\ Read => Inv'
<1>. SUFFICES ASSUME Inv, Read PROVE Inv'
  OBVIOUS
<1>. DEFINE req == Min2(BufSize, size - rwTotal)
<1>t. TypeOK
  BY DEF Inv
<1>. USE <1>t, Types
<1>r. pc' = "write" /\ ret' = "EXIT_OK" => AtReturn'
  BY DEF AtReturn, Succeeded, UnboundedLosesOnlyTail, JunkLeavesStreamFailed
<1>0. /\ pc = "loop" /\ pc' = "write" /\ rwTotal < size /\ ret = "EXIT_OK"
      /\ UNCHANGED <<job, cap, srcLen, ret, rwTotal, good, junk>>
  BY DEF Read, Inv, AtReturn
<1>1. Counts /\ JunkSource /\ GoodIsRead /\ EndSeen
  BY <1>0 DEF Inv, LoopInv
<1>2. req \in Nat /\ req > 0 /\ req <= BufSize /\ req <= size - rwTotal
  BY <1>0 DEF Min2
<1>3. Left \in Nat /\ rpos + Left >= srcLen /\ (Left > 0 => rpos + Left = srcLen)
  BY DEF Left
<1>4. size = job.size
  BY <1>0, <1>1 DEF EndSeen, Pending
<1>5. rpos' = rpos + Min2(Left, req) /\ rpos' \in Nat
  BY <1>2, <1>3 DEF Read, Min2
<1>6. /\ inBuf' \in Nat /\ rwSize' \in Nat /\ size' \in Nat
      /\ inBuf' <= rwSize' /\ rwSize' <= req
      /\ rpos' <= job.len
  <2>1. /\ inBuf' \in Nat /\ rwSize' \in Nat /\ size' \in Nat
        /\ inBuf' <= rwSize' /\ rwSize' <= req
    <3>. HIDE DEF req
    <3>1. \/ GzFails(req) /\ inBuf' \in 0 .. Left /\ rwSize' = req /\ size' = size
          \/ Left >= req /\ inBuf' = req /\ rwSize' = req /\ size' = size
          \/ Left < req /\ inBuf' = Left /\ rwSize' = Left /\ size' = rwTotal + Left
      BY DEF Read, req, Chunk, EndAt
    <3>2. GzFails(req) => Left < req
      BY DEF GzFails
    <3>. QED BY <1>2, <1>3, <3>1, <3>2
  <2>2. Min2(Left, req) <= Left
    BY <1>2, <1>3 DEF Min2
  <2>3. rpos' <= job.len
    <3>. HIDE DEF req
    <3>1. Left = 0 => rpos' = rpos
      BY <1>2, <1>5 DEF Min2
    <3>2. Min2(Left, req) \in Nat
      BY <1>2, <1>3 DEF Min2
    <3>. QED BY <1>1, <1>3, <1>5, <2>2, <3>1, <3>2 DEF Counts
  <2>. QED BY <2>1, <2>3
<1>7. TypeOK'
  BY <1>0, <1>2, <1>5, <1>6 DEF TypeOK
<1>. HIDE DEF req
<1>8. CASE GzFails(req) /\ inBuf' \in 0 .. Left /\ rwSize' = req /\ UNCHANGED size
  <2>1. job.kind = "gz" /\ job.bad /\ Left < req /\ srcLen = job.len
    BY <1>1, <1>8 DEF GzFails, Counts
  <2>2. rpos' = job.len /\ rpos' = rpos + Left
    BY <1>1, <1>2, <1>3, <1>5, <2>1 DEF Min2, Counts
  <2>3. Counts'
    BY <1>0, <1>1, <1>2, <1>3, <1>8, <2>1, <2>2 DEF Counts, Pending, PendingGood
  <2>l. job.len < job.size
    <3>1. Pending = 0 /\ PendingGood = 0
      BY <1>0 DEF Pending, PendingGood
    <3>2. CASE junk > 0
      BY <1>1, <3>2 DEF JunkSource
    <3>3. CASE junk = 0
      <4>1. rwTotal = rpos
        BY <1>1, <3>1, <3>3 DEF GoodIsRead, Counts
      <4>. QED BY <1>2, <1>3, <1>4, <2>1, <2>2, <4>1
    <3>. QED BY <3>2, <3>3
  <2>4. JunkSource' /\ EndSeen'
    BY <1>0, <1>4, <1>8, <2>1, <2>2, <2>l DEF JunkSource, EndSeen
  <2>5. GoodIsRead'
    BY <1>0, <1>1, <1>2, <1>3, <1>8, <2>1, <2>2
       DEF GoodIsRead, Pending, PendingGood, Counts
  <2>. QED BY <1>r, <1>0, <1>7, <2>3, <2>4, <2>5 DEF Inv, LoopInv
<1>9. CASE ~GzFails(req) /\ Left >= req /\ inBuf' = req /\ rwSize' = req
           /\ UNCHANGED size
  <2>1. rpos' = rpos + req
    BY <1>2, <1>3, <1>5, <1>9 DEF Min2
  <2>2. Counts' /\ JunkSource' /\ GoodIsRead' /\ EndSeen'
    BY <1>0, <1>1, <1>2, <1>4, <1>6, <1>9, <2>1
       DEF Counts, JunkSource, GoodIsRead, EndSeen, Pending, PendingGood
  <2>. QED BY <1>r, <1>0, <1>7, <2>2 DEF Inv, LoopInv
<1>10. CASE ~GzFails(req) /\ Left < req /\ inBuf' = Left
            /\ rwSize' = Chunk(Left) /\ size' = EndAt(Left)
  <2>1. rpos' = rpos + Left /\ rwSize' = Left /\ size' = rwTotal + Left
    BY <1>2, <1>3, <1>5, <1>10 DEF Min2, Chunk, EndAt
  <2>2. job.kind = "gz" => ~job.bad
    BY <1>10 DEF GzFails
  <2>3. junk = 0
    BY <1>1, <2>2 DEF JunkSource
  <2>4. Counts'
    BY <1>0, <1>1, <1>2, <1>3, <1>6, <1>10, <2>1
       DEF Counts, Pending, PendingGood
  <2>p. Pending' = Left /\ PendingGood' = Left /\ PendingGood = 0 /\ Pending = 0
    BY <1>0, <1>10, <2>1 DEF Pending, PendingGood
  <2>5. JunkSource' /\ GoodIsRead'
    <3>1. JunkSource'
      BY <1>0, <1>3, <2>3, <2>p DEF JunkSource
    <3>2. good = rpos
      BY <1>1, <2>3, <2>p DEF GoodIsRead
    <3>. QED BY <1>0, <2>1, <2>p, <3>1, <3>2 DEF GoodIsRead
  <2>6. EndSeen'
    BY <1>0, <1>3, <2>1, <2>2 DEF EndSeen, Pending
  <2>. QED BY <1>r, <1>0, <1>7, <2>4, <2>5, <2>6 DEF Inv, LoopInv
<1>. QED BY <1>8, <1>9, <1>10 DEF Read, req

LEMMA WriteStep == Inv /\ Write => Inv'
<1>. SUFFICES ASSUME Inv, Write PROVE Inv'
  OBVIOUS
<1>t. TypeOK
  BY DEF Inv
<1>. USE <1>t, Types
<1>0. /\ pc = "write" /\ ret = "EXIT_OK"
      /\ UNCHANGED <<job, cap, srcLen, size, rwSize, inBuf, rpos>>
  BY DEF Write, Inv, AtReturn
<1>1. Counts /\ JunkSource /\ GoodIsRead /\ EndSeen
  BY <1>0 DEF Inv, LoopInv
<1>2. CASE /\ Accepts(rwSize) /\ Put(rwSize)
           /\ rwTotal' = rwTotal + rwSize
           /\ pc' = "loop" /\ UNCHANGED ret
  <2>1. good' = good + inBuf /\ junk' = junk + (rwSize - inBuf)
    BY <1>2 DEF Put, Min2
  <2>2. TypeOK'
    BY <1>0, <1>2, <2>1 DEF TypeOK
  <2>3. Counts'
    BY <1>0, <1>1, <1>2, <2>1 DEF Counts, Pending, PendingGood, Accepts
  <2>4. JunkSource' /\ GoodIsRead' /\ EndSeen'
    BY <1>0, <1>1, <1>2, <2>1
       DEF JunkSource, GoodIsRead, EndSeen, Pending, PendingGood
  <2>5. AtReturn'
    BY <1>0, <1>2
       DEF AtReturn, Succeeded, UnboundedLosesOnlyTail, JunkLeavesStreamFailed
  <2>. QED BY <1>0, <1>2, <2>2, <2>3, <2>4, <2>5 DEF Inv, LoopInv
<1>3. CASE \E m \in 0 .. rwSize :
             /\ m < rwSize /\ rwTotal + rwSize > cap /\ Accepts(m)
             /\ Put(m)
             /\ Leave("F_WRITE_ERROR") /\ UNCHANGED rwTotal
  <2>1. good' \in Nat /\ junk' \in Nat
    BY <1>3 DEF Put, Min2
  <2>2. TypeOK'
    BY <1>0, <1>3, <2>1 DEF TypeOK, Leave
  <2>3. ret' = "F_WRITE_ERROR" /\ pc' \in {"close", "returned"}
        /\ (pc' = "close" => job.kind = "gz")
    BY <1>3 DEF Leave
  <2>4. job.kind = "gz" => Given'
    <3>1. PICK m \in 0 .. rwSize : m < rwSize /\ Accepts(m) /\ Put(m)
      BY <1>3
    <3>2. /\ good' = good + Min2(m, inBuf) /\ junk' = junk + (m - Min2(m, inBuf))
          /\ Min2(m, inBuf) \in Nat /\ Min2(m, inBuf) <= inBuf
          /\ Min2(m, inBuf) <= m /\ (Min2(m, inBuf) < m => inBuf < rwSize)
      BY <3>1 DEF Put, Min2
    <3>3. Pending = rwSize /\ PendingGood = inBuf
      BY <1>0 DEF Pending, PendingGood
    <3>. QED BY <1>0, <1>1, <3>1, <3>2, <3>3 DEF Given, Counts, JunkSource, Accepts
  <2>5. AtReturn'
    BY <2>3, <2>4
       DEF AtReturn, Succeeded, UnboundedLosesOnlyTail, JunkLeavesStreamFailed
  <2>. QED BY <2>2, <2>3, <2>5 DEF Inv, LoopInv
<1>. QED BY <1>2, <1>3 DEF Write

(* What the return of a call that reports EXIT_OK is worth, from what the  *)
(* loop left at its end.                                                   *)
LEMMA EndOfLoop ==
    ASSUME TypeOK, Counts, JunkSource, GoodIsRead, EndSeen, pc # "write",
           rwTotal = size
    PROVE  /\ job.kind = "gz" /\ job.size = Unbounded =>
                /\ junk = 0 /\ ~job.bad
                /\ good = job.len /\ rwTotal = job.len
                /\ job.len <= cap + StdioBuf
           /\ junk > 0 => /\ rwTotal = job.size /\ job.kind = "gz"
                          /\ job.bad /\ rpos = job.len
<1>. USE Types
<1>p. Pending = 0 /\ PendingGood = 0
  BY DEF Pending, PendingGood
<1>1. ASSUME job.kind = "gz", job.size = Unbounded
      PROVE  /\ junk = 0 /\ ~job.bad /\ good = job.len /\ rwTotal = job.len
             /\ job.len <= cap + StdioBuf
  <2>2. rwTotal < Unbounded
    <3>1. cap + StdioBuf < Unbounded /\ Unbounded \in Nat
      BY CopyAssumption DEF TypeOK
    <3>. QED BY <3>1 DEF Counts
  <2>3. size # job.size
    BY <1>1, <2>2
  <2>4. ~job.bad /\ srcLen <= rpos
    BY <1>1, <2>3 DEF EndSeen
  <2>5. junk = 0
    BY <2>3 DEF JunkSource
  <2>. QED BY <1>1, <1>p, <2>4, <2>5 DEF GoodIsRead, Counts
<1>2. junk > 0 => /\ rwTotal = job.size /\ job.kind = "gz"
                  /\ job.bad /\ rpos = job.len
  BY DEF JunkSource
<1>. QED BY <1>1, <1>2

LEMMA FinishStep == Inv /\ Finish => Inv'
<1>. SUFFICES ASSUME Inv, Finish PROVE Inv'
  OBVIOUS
<1>t. TypeOK
  BY DEF Inv
<1>. USE <1>t, Types
<1>1. TypeOK'
  BY DEF Finish, Leave, TypeOK
<1>2. /\ pc = "loop" /\ ret' = "EXIT_OK" /\ rwTotal >= size /\ ret = "EXIT_OK"
      /\ pc' = IF job.kind = "gz" THEN "close" ELSE "returned"
      /\ UNCHANGED <<job, cap, srcLen, size, rwTotal, rwSize, inBuf, rpos,
                     good, junk>>
  BY DEF Finish, Leave, Inv, AtReturn
<1>3. Counts /\ JunkSource /\ GoodIsRead /\ EndSeen /\ Pending = 0
      /\ PendingGood = 0
  BY <1>2 DEF Inv, LoopInv, Pending, PendingGood
<1>4. rwTotal = size
  BY <1>2, <1>3 DEF Counts
<1>5. CASE job.kind = "gz"
  <2>1. pc' = "close" /\ Pending' = 0 /\ PendingGood' = 0
    BY <1>2, <1>5 DEF Pending, PendingGood
  <2>2. LoopInv'
    BY <1>2, <1>3, <2>1 DEF LoopInv, Counts, JunkSource, GoodIsRead, EndSeen
  <2>3. Given'
    BY <1>2, <1>3, <1>5 DEF Given, Counts, JunkSource
  <2>4. AtReturn'
    BY <1>2, <1>4, <2>1, <2>3
       DEF AtReturn, Succeeded, UnboundedLosesOnlyTail, JunkLeavesStreamFailed
  <2>. QED BY <1>1, <2>2, <2>4 DEF Inv
<1>6. CASE job.kind # "gz"
  <2>1. pc' = "returned" /\ LoopInv'
    BY <1>2, <1>6 DEF LoopInv
  <2>2. junk = 0
    BY <1>3, <1>6 DEF JunkSource
  <2>3. AtReturn'
    BY <1>2, <1>6, <2>1, <2>2
       DEF AtReturn, UnboundedLosesOnlyTail, JunkLeavesStreamFailed
  <2>. QED BY <1>1, <2>1, <2>3 DEF Inv
<1>. QED BY <1>5, <1>6

(* The file keeps a beginning of what the stream was given.                *)
LEMMA KeptBytes ==
    ASSUME TypeOK
    PROVE  /\ Kept(good) \in Nat /\ Kept(good + junk) \in Nat
           /\ Kept(good) <= good /\ Kept(good) <= Kept(good + junk)
           /\ Kept(good + junk) <= good + junk
           /\ junk = 0 => Kept(good + junk) = Kept(good)
           /\ good + junk <= cap + StdioBuf => good - Kept(good) <= StdioBuf
BY Types DEF Kept, Min2

LEMMA CloseStep == Inv /\ Close => Inv'
<1>. SUFFICES ASSUME Inv, Close PROVE Inv'
  OBVIOUS
<1>t. TypeOK
  BY DEF Inv
<1>. USE <1>t, Types
<1>1. /\ pc = "close" /\ pc' = "returned"
      /\ good' = Kept(good) /\ junk' = Kept(good + junk) - Kept(good)
      /\ UNCHANGED <<job, cap, srcLen, ret, size, rwTotal, rwSize, inBuf, rpos>>
  BY DEF Close
<1>2. good' \in Nat /\ junk' \in Nat
  BY <1>1, KeptBytes
<1>3. TypeOK' /\ LoopInv'
  BY <1>1, <1>2 DEF TypeOK, LoopInv
<1>4. AtReturn'
  <2>1. CASE ret # "EXIT_OK"
    BY <1>1, <2>1
       DEF AtReturn, Succeeded, UnboundedLosesOnlyTail, JunkLeavesStreamFailed
  <2>2. CASE ret = "EXIT_OK"
    <3>1. Counts /\ JunkSource /\ GoodIsRead /\ EndSeen /\ rwTotal = size
      BY <1>1, <2>2 DEF Inv, LoopInv, AtReturn
    <3>2. /\ job.kind = "gz" /\ job.size = Unbounded =>
                /\ junk = 0 /\ ~job.bad
                /\ good = job.len /\ rwTotal = job.len
                /\ job.len <= cap + StdioBuf
          /\ junk > 0 => /\ rwTotal = job.size /\ job.kind = "gz"
                         /\ job.bad /\ rpos = job.len
      BY <1>1, <3>1, EndOfLoop
    <3>3. junk' > 0 => junk > 0
      BY <1>1, KeptBytes
    <3>4. UnboundedLosesOnlyTail'
      <4>. SUFFICES ASSUME job.kind = "gz", job.size = Unbounded
                    PROVE  /\ junk' = 0 /\ ~job.bad /\ rwTotal = job.len
                           /\ good' = Min2(job.len, cap)
                           /\ job.len - good' <= StdioBuf
        BY <1>1 DEF UnboundedLosesOnlyTail
      <4>. QED BY <1>1, <3>2, KeptBytes DEF Kept
    <3>5. JunkLeavesStreamFailed'
      BY <1>1, <3>2, <3>3 DEF JunkLeavesStreamFailed
    <3>. QED BY <1>1, <3>4, <3>5 DEF AtReturn
  <2>. QED BY <2>1, <2>2
<1>. QED BY <1>3, <1>4 DEF Inv

LEMMA OtherSteps ==
    Inv /\ (Start \/ Truncate \/ UNCHANGED vars) => Inv'
<1>. SUFFICES ASSUME Inv, Start \/ Truncate \/ UNCHANGED vars PROVE Inv'
  OBVIOUS
<1>t. TypeOK
  BY DEF Inv
<1>. USE <1>t, Types
<1>1. CASE Start
  <2>1. TypeOK'
    BY <1>1 DEF Start, Return, TypeOK
  <2>2. /\ pc = "start" /\ pc' \in {"loop", "returned"}
        /\ pc' = "returned" <=> ret' # "EXIT_OK"
        /\ UNCHANGED <<job, cap, srcLen, size, rwTotal, rwSize, inBuf, rpos,
                       good, junk>>
    BY <1>1 DEF Start, Return, Inv, AtReturn
  <2>3. LoopInv'
    BY <2>2 DEF Inv, LoopInv, AtReturn, Counts, JunkSource, GoodIsRead, EndSeen,
                Pending, PendingGood
  <2>4. AtReturn'
    BY <2>2
       DEF AtReturn, Succeeded, UnboundedLosesOnlyTail, JunkLeavesStreamFailed
  <2>. QED BY <2>1, <2>3, <2>4 DEF Inv
<1>3. CASE Truncate
  <2>1. /\ job.kind = "file" /\ srcLen' \in Nat /\ srcLen' < srcLen
        /\ pc # "returned"
        /\ UNCHANGED <<job, cap, pc, ret, size, rwTotal, rwSize, inBuf, rpos,
                       good, junk>>
    BY <1>3 DEF Truncate
  <2>2. TypeOK'
    BY <2>1 DEF TypeOK
  <2>3. LoopInv'
    BY <2>1 DEF Inv, LoopInv, Counts, JunkSource, GoodIsRead, EndSeen, Pending,
                PendingGood
  <2>4. AtReturn'
    BY <2>1 DEF Inv, AtReturn, Given, Succeeded, UnboundedLosesOnlyTail,
                JunkLeavesStreamFailed
  <2>. QED BY <2>2, <2>3, <2>4 DEF Inv
<1>4. CASE UNCHANGED vars
  BY <1>4 DEF vars, Inv, TypeOK, LoopInv, Counts, JunkSource, GoodIsRead,
              EndSeen, Pending, PendingGood, AtReturn, Given, Succeeded,
              UnboundedLosesOnlyTail, JunkLeavesStreamFailed
<1>. QED BY <1>1, <1>3, <1>4

LEMMA NextInv == Inv /\ [Next]_vars => Inv'
BY ReadStep, WriteStep, FinishStep, CloseStep, OtherSteps DEF Next, Terminated

LEMMA InvCorrect == Spec => []Inv
<1>. QED BY InitInv, NextInv, PTL DEF Spec

-----------------------------------------------------------------------------
(* Every variable keeps its type, and a read never asks for more than the  *)
(* buffer holds.                                                           *)
THEOREM CopyTypeCorrect == Spec => []TypeOK
<1>1. Inv => TypeOK
  BY DEF Inv
<1>. QED BY <1>1, InvCorrect, PTL

(* EXIT_OK from the copy to the end of a gzip stream means that the whole  *)
(* stream and nothing else was unpacked; the file lacks at most the tail   *)
(* in the stdio buffer, and only if the device was too small.              *)
THEOREM UnboundedCorrect == Spec => []UnboundedLosesOnlyTail
<1>1. Inv => UnboundedLosesOnlyTail
  BY DEF Inv, AtReturn
<1>. QED BY <1>1, InvCorrect, PTL

(* EXIT_OK with junk in the output leaves the gzip stream in error and the *)
(* count as the caller expects it.                                         *)
THEOREM JunkCorrect == Spec => []JunkLeavesStreamFailed
<1>1. Inv => JunkLeavesStreamFailed
  BY DEF Inv, AtReturn
<1>. QED BY <1>1, InvCorrect, PTL

-----------------------------------------------------------------------------
(* The refinement: every step is a step of the contract or leaves the      *)
(* contract's variables alone.                                             *)
LEMMA ContractInit == Init => Contract!Init
BY DEF Init, Contract!Init, Outcome

LEMMA ContractStep == Inv /\ [Next]_vars => [Contract!Next]_(Contract!vars)
<1>. SUFFICES ASSUME Inv, [Next]_vars PROVE [Contract!Next]_(Contract!vars)
  OBVIOUS
<1>t. TypeOK
  BY DEF Inv
<1>. USE <1>t, Types
<1>o. pc # "returned" => Outcome = [st |-> "running", good |-> 0, junk |-> 0]
  BY DEF Outcome
<1>f. pc' = "returned" =>
        Outcome' = [st |-> IF ret' = "EXIT_OK" THEN "ok" ELSE "failed",
                    good |-> good', junk |-> junk']
  BY DEF Outcome
<1>1. CASE Read \/ (Start /\ pc' = "loop")
           \/ (Write /\ pc' # "returned") \/ (Finish /\ pc' # "returned")
  <2>1. UNCHANGED <<job, cap, srcLen>> /\ pc # "returned" /\ pc' # "returned"
    BY <1>1 DEF Read, Start, Write, Finish
  <2>. QED BY <1>o, <2>1 DEF Contract!vars, Outcome
<1>2. CASE Start /\ pc' # "loop"
  <2>1. /\ UNCHANGED <<job, cap, srcLen, good, junk>> /\ pc = "start" /\ pc' = "returned"
        /\ ret' # "EXIT_OK" /\ good = 0 /\ junk = 0
    BY <1>2 DEF Start, Return, Inv, AtReturn
  <2>2. Outcome' = [st |-> "failed", good |-> 0, junk |-> 0]
    BY <2>1 DEF Outcome
  <2>3. /\ 0 \in 0 .. job.len /\ 0 \in 0 .. job.size /\ 0 + 0 <= job.size
        /\ 0 + 0 <= cap + StdioBuf
        /\ Contract!Held(0) = 0 /\ Contract!Held(0 + 0) - Contract!Held(0) = 0
    BY DEF Contract!Held
  <2>e. Contract!Ended("failed", 0, 0)
    BY <2>2, <2>3 DEF Contract!Ended
  <2>4. Contract!Fail
    BY <1>o, <2>1, <2>3, <2>e DEF Contract!Fail
  <2>. QED BY <2>4 DEF Contract!Next
<1>3. CASE Write /\ pc' = "returned"
  <2>1. PICK m \in 0 .. rwSize : m < rwSize /\ Accepts(m) /\ Put(m)
    BY <1>3 DEF Write
  <2>2. /\ UNCHANGED <<job, cap, srcLen>> /\ pc = "write" /\ ret = "EXIT_OK"
        /\ ret' = "F_WRITE_ERROR" /\ job.kind = "file"
    BY <1>3 DEF Write, Leave, Inv, AtReturn
  <2>3. Counts /\ JunkSource /\ Pending = rwSize /\ PendingGood = inBuf
    BY <2>2 DEF Inv, LoopInv, Pending, PendingGood
  <2>4. inBuf = rwSize /\ junk = 0
    BY <2>2, <2>3 DEF JunkSource
  <2>5. good' = good + m /\ junk' = 0
    BY <2>1, <2>4 DEF Put, Min2
  <2>6. /\ good' \in 0 .. job.len /\ 0 \in 0 .. job.size
        /\ good' + 0 <= job.size /\ good' + 0 <= cap + StdioBuf
    BY <2>1, <2>2, <2>3, <2>4, <2>5 DEF Counts, Accepts
  <2>h. \A n \in Nat : Contract!Held(n) = n
    BY <2>2 DEF Contract!Held
  <2>7. Contract!Held(good') = good' /\ Contract!Held(good' + 0) = good'
    <3>1. \A n \in 0 .. job.len : n \in Nat /\ n + 0 = n
      OBVIOUS
    <3>. QED BY <2>6, <2>h, <3>1, Zenon
  <2>e. Contract!Ended("failed", good', 0)
    BY <1>3, <1>f, <2>2, <2>5, <2>6, <2>7 DEF Contract!Ended
  <2>8. Contract!Fail
    BY <1>o, <2>2, <2>6, <2>e DEF Contract!Fail
  <2>. QED BY <2>8 DEF Contract!Next
<1>4. CASE Finish /\ pc' = "returned"
  <2>1. /\ UNCHANGED <<job, cap, srcLen, good, junk, size, rwTotal>>
        /\ pc = "loop" /\ ret' = "EXIT_OK" /\ rwTotal >= size
        /\ ret = "EXIT_OK" /\ job.kind = "file"
    BY <1>4 DEF Finish, Leave, Inv, AtReturn
  <2>2. Counts /\ JunkSource /\ GoodIsRead /\ EndSeen /\ Pending = 0 /\ PendingGood = 0
    BY <2>1 DEF Inv, LoopInv, Pending, PendingGood
  <2>3. junk = 0 /\ good = size /\ good \in 0 .. job.len /\ good <= job.size
        /\ good + 0 <= cap + StdioBuf
    BY <2>1, <2>2 DEF Counts, JunkSource
  <2>4. good < job.size => srcLen <= good
    BY <2>2, <2>3 DEF GoodIsRead, EndSeen
  <2>5. Contract!Held(good) = good /\ Contract!Held(good + 0) = good
    BY <2>1, <2>3 DEF Contract!Held
  <2>e. Contract!Ended("ok", good, 0)
    BY <1>4, <1>f, <2>1, <2>3, <2>5 DEF Contract!Ended
  <2>6. Contract!Succeed
    BY <1>o, <2>1, <2>3, <2>4, <2>e DEF Contract!Succeed, Contract!ErrorWithin
  <2>. QED BY <2>6 DEF Contract!Next
<1>c. CASE Close
  <2>1. /\ UNCHANGED <<job, cap, srcLen, ret>> /\ pc = "close" /\ pc' = "returned"
        /\ good' = Kept(good) /\ junk' = Kept(good + junk) - Kept(good)
    BY <1>c DEF Close
  <2>2. Given
    BY <2>1 DEF Inv, AtReturn
  <2>3. Kept(good) = Contract!Held(good) /\ Kept(good + junk) = Contract!Held(good + junk)
    BY <2>2 DEF Given, Kept, Min2, Contract!Held
  <2>4. \A st : Outcome' = [st |-> st, good |-> good', junk |-> junk']
                 => Contract!Ended(st, good, junk)
    BY <2>1, <2>2, <2>3 DEF Given, Contract!Ended
  <2>5. CASE ret # "EXIT_OK"
    <3>1. Contract!Ended("failed", good, junk)
      BY <1>f, <2>1, <2>4, <2>5
    <3>2. good \in 0 .. job.len /\ junk \in 0 .. job.size /\ good + junk <= job.size
          /\ (junk > 0 => Contract!ErrorWithin)
      BY <2>2 DEF Given, Contract!ErrorWithin
    <3>3. Contract!Fail
      BY <1>o, <2>1, <3>1, <3>2 DEF Contract!Fail
    <3>. QED BY <3>3 DEF Contract!Next
  <2>6. CASE ret = "EXIT_OK"
    <3>1. /\ Counts /\ JunkSource /\ GoodIsRead /\ EndSeen
          /\ Pending = 0 /\ PendingGood = 0 /\ rwTotal = size
      BY <2>1, <2>6 DEF Inv, LoopInv, AtReturn, Pending, PendingGood
    <3>2. Contract!Ended("ok", good, junk)
      BY <1>f, <2>1, <2>4, <2>6
    <3>3. good + junk = size /\ good \in 0 .. job.len /\ good <= job.size
      BY <3>1 DEF Counts
    <3>4. CASE junk > 0
      <4>1. Contract!ErrorWithin /\ junk = job.size - good
        BY <3>1, <3>3, <3>4 DEF JunkSource, Contract!ErrorWithin
      <4>2. \E n \in 0 .. job.len : Contract!Ended("ok", n, job.size - n)
        BY <3>2, <3>3, <4>1
      <4>3. Contract!SucceedWithJunk
        BY <1>o, <2>1, <4>1, <4>2 DEF Contract!SucceedWithJunk
      <4>. QED BY <4>3 DEF Contract!Next
    <3>5. CASE junk = 0
      <4>1. good < job.size => srcLen <= good /\ ~Contract!ErrorWithin
        BY <3>1, <3>3, <3>5 DEF GoodIsRead, EndSeen, Contract!ErrorWithin
      <4>2. Contract!Ended("ok", good, 0)
        BY <3>2, <3>5
      <4>3. Contract!Succeed
        BY <1>o, <2>1, <3>3, <4>1, <4>2 DEF Contract!Succeed
      <4>. QED BY <4>3 DEF Contract!Next
    <3>. QED BY <3>4, <3>5
  <2>. QED BY <2>5, <2>6
<1>5. CASE Truncate
  <2>1. /\ srcLen' \in 0 .. srcLen
        /\ UNCHANGED <<job, cap, pc, ret, good, junk>>
    BY <1>5 DEF Truncate
  <2>. QED BY <2>1 DEF Contract!Next, Contract!Truncate, Outcome
<1>6. CASE UNCHANGED vars
  BY <1>6 DEF vars, Contract!vars, Outcome
<1>. QED BY <1>1, <1>2, <1>3, <1>4, <1>c, <1>5, <1>6
         DEF Next, Terminated

(* The loop implements the contract for every source and device, also a    *)
(* source that fails or that another process truncates between two reads,  *)
(* and an output that the unchecked close cuts: what EXIT_OK is worth.     *)
THEOREM ContractCorrect == Spec => KeepsContract
<1>. QED BY ContractInit, ContractStep, InvCorrect, PTL
         DEF Spec, KeepsContract, Contract!Spec
=============================================================================
