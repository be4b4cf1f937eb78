--------------------------- MODULE HttpOutboundProofs ---------------------------
(***************************************************************************)
(* Theorems about the network side of fetch, for any number of processes,  *)
(* hosts and addresses, any pacing interval, timeout, size cap and         *)
(* redirect limit.                                                         *)
(***************************************************************************)
EXTENDS HttpOutbound, TLAPS

LEMMA OlderType == \A a \in Ages : Older(a) \in Ages
  BY OutboundAssumption DEF Ages, Older

LEMMA UptoType == \A cap \in Nat : \A n \in 0..cap : Upto(cap, n) \in 0..cap
  BY DEF Upto

LEMMA HopOpsType == HopOps \in Nat
  BY OutboundAssumption DEF HopOps

LEMMA JobType ==
  ASSUME NEW pc \in {"idle", "limit"}, NEW h \in Hosts, NEW r \in Results
  PROVE  NewJob(pc, h, r) \in Job
  BY OutboundAssumption, HopOpsType DEF NewJob, Job

LEMMA FieldTypes ==
  ASSUME NEW j \in Job
  PROVE  /\ j.host \in Hosts /\ j.hops \in 0..MaxHops /\ j.ops \in 0..HopOps
         /\ j.got \in 0..MaxBytes /\ j.idle \in 0..IdleCap
         /\ j.silent \in 0..Timeout /\ j.elapsed \in 0..Horizon
  BY DEF Job

------------------------------------------------------------------------------
(***************************************************************************)
(* What a step does to the fetch of its process.  The operations of a hop  *)
(* come one after the other, so there are no more than HopOps: InOrder     *)
(* says how many may be completed in each phase.                           *)
(***************************************************************************)
InOrder(j) ==
  /\ j.pc \in {"idle", "limit", "lookup"} => j.ops = 0
  /\ j.pc = "connect" => j.ops + 1 <= Addresses
  /\ j.pc = "tls" => j.ops <= Addresses
  /\ j.pc = "write" => j.ops <= Addresses + 1
  /\ j.pc = "head" => j.ops <= Addresses + 2
  /\ j.pc \in {"redirect", "body"} => j.ops <= Addresses + 3

OrderInv == \A p \in Procs : InOrder(job[p])

\* A fetch begins or is over.
Anew(j, k) ==
  /\ k.pc \in {"idle", "limit"}
  /\ k.hops = 0 /\ k.got = 0 /\ k.idle = 0 /\ k.silent = 0 /\ k.elapsed = 0

SameCounts(j, k) == k.hops = j.hops /\ k.ops = j.ops /\ k.got = j.got

\* A pause or a lookup is over: not a socket operation.
Free(j, k) ==
  /\ \/ j.pc = "limit" /\ k.pc = "lookup"
     \/ j.pc = "lookup" /\ k.pc = "connect"
  /\ SameCounts(j, k) /\ k.host = j.host
  /\ k.idle = j.idle /\ k.silent = j.silent /\ k.elapsed = j.elapsed

\* A socket operation is completed: one that is counted, the last of a hop,
\* or one nobody counts.
Counted(j, k) ==
  /\ k.hops = j.hops /\ k.host = j.host /\ k.idle = j.idle
  /\ k.ops + k.got > j.ops + j.got
  /\ k.pc \in Outgoing => j.pc \in Outgoing
Followed(j, k) ==
  /\ j.pc = "redirect" /\ k.hops = j.hops + 1
  /\ k.ops = 0 /\ k.got = j.got /\ k.idle = j.idle
Idled(j, k) ==
  /\ SameCounts(j, k) /\ k.idle = Upto(IdleCap, j.idle)
  /\ k.pc \notin Outgoing

Paid(j, k) ==
  /\ k.silent = 0 /\ k.elapsed = j.elapsed
  /\ Counted(j, k) \/ Followed(j, k) \/ Idled(j, k)

After(j, k) == Anew(j, k) \/ Free(j, k) \/ Paid(j, k)

Becomes(p, k) ==
  /\ k \in Job /\ InOrder(k) /\ After(job[p], k)
  /\ job' = [job EXCEPT ![p] = k]

LEMMA NewJobFresh ==
  ASSUME NEW pc \in {"idle", "limit"}, NEW h \in Hosts, NEW r \in Results, NEW j
  PROVE  NewJob(pc, h, r) \in Job /\ InOrder(NewJob(pc, h, r)) /\ After(j, NewJob(pc, h, r))
<1>1. Anew(j, NewJob(pc, h, r))
  BY DEF Anew, NewJob
<1>2. InOrder(NewJob(pc, h, r))
  BY DEF InOrder, NewJob
<1> QED
  BY <1>1, <1>2, JobType DEF After

LEMMA FinishBecomes ==
  ASSUME TypeOK, NEW p \in Procs, NEW r \in Results, Finish(p, r)
  PROVE  \E k : Becomes(p, k)
<1>1. job[p].host \in Hosts
  BY DEF TypeOK, Job
<1> QED
  BY <1>1, NewJobFresh DEF Finish, Becomes

\* The next operation of the hop.
LEMMA CompletedBecomes ==
  ASSUME TypeOK, NEW p \in Procs, NEW pc \in Waits, Completed(p, pc),
         job[p].ops + 1 <= HopOps, pc \in Outgoing => job[p].pc \in Outgoing,
         \A k \in Job : k.pc = pc /\ k.ops = job[p].ops + 1 => InOrder(k)
  PROVE  \E k : Becomes(p, k)
<1> DEFINE j == job[p]
           k == [j EXCEPT !.pc = pc, !.ops = @ + 1, !.silent = 0]
<1>0. j \in Job
  BY DEF TypeOK
<1>1. /\ k.pc = pc /\ k.ops = j.ops + 1 /\ k.silent = 0 /\ k.hops = j.hops
      /\ k.host = j.host /\ k.got = j.got /\ k.idle = j.idle /\ k.elapsed = j.elapsed
  BY <1>0 DEF Job
<1>2. j.ops + 1 \in 0..HopOps /\ 0 \in 0..Timeout
  BY <1>0, FieldTypes, HopOpsType, OutboundAssumption
<1>3. k \in Job
  BY <1>0, <1>2 DEF Job
<1>4. job' = [job EXCEPT ![p] = k]
  BY DEF Completed
<1> HIDE DEF k
<1>5. Counted(j, k)
  <2>1. j.ops + 1 + j.got > j.ops + j.got
    BY <1>0, FieldTypes, HopOpsType, OutboundAssumption
  <2> QED
    BY <1>1, <2>1 DEF Counted
<1> QED
  BY <1>1, <1>3, <1>4, <1>5 DEF Becomes, After, Paid

\* The pause or the lookup is over.
MovesTo(p, pc) == job' = [job EXCEPT ![p].pc = pc]

LEMMA FreeBecomes ==
  ASSUME TypeOK, OrderInv, NEW p \in Procs, NEW pc,
         \/ At(p, "limit") /\ pc = "lookup"
         \/ At(p, "lookup") /\ pc = "connect",
         MovesTo(p, pc)
  PROVE  \E k : Becomes(p, k)
<1>0. job[p] \in Job /\ InOrder(job[p]) /\ Addresses \in Nat /\ Addresses > 0
  BY OutboundAssumption DEF TypeOK, OrderInv
<1>1. \/ job[p].pc = "limit" /\ pc = "lookup"
      \/ job[p].pc = "lookup" /\ pc = "connect"
  BY DEF At
<1> DEFINE j == job[p]
           k == [j EXCEPT !.pc = pc]
<1>2. /\ k.pc = pc /\ k.hops = j.hops /\ k.ops = j.ops /\ k.silent = j.silent
      /\ k.host = j.host /\ k.got = j.got /\ k.idle = j.idle /\ k.elapsed = j.elapsed
  BY <1>0 DEF Job
<1>3. k \in Job
  BY <1>0, <1>1 DEF Job, Outgoing
<1>4. job' = [job EXCEPT ![p] = k]
  BY DEF MovesTo
<1> HIDE DEF k
<1>5. Free(j, k)
  BY <1>1, <1>2 DEF Free, SameCounts
<1>6. InOrder(k)
  <2>1. j.ops = 0
    BY <1>0, <1>1 DEF InOrder
  <2> QED
    BY <1>1, <1>0, <1>2, <2>1 DEF InOrder
<1> QED
  BY <1>3, <1>4, <1>5, <1>6 DEF Becomes, After

LEMMA StepBecomes ==
  ASSUME TypeOK, OrderInv, NEW p \in Procs, Step(p)
  PROVE  \E k : Becomes(p, k)
<1> DEFINE j == job[p]
<1>0. j \in Job /\ InOrder(j)
  BY DEF TypeOK, OrderInv
<1>f. /\ j.ops \in Nat /\ j.got \in Nat /\ j.hops \in Nat
      /\ Addresses \in Nat /\ Addresses > 0 /\ HopOps = Addresses + 4
  BY <1>0, FieldTypes, HopOpsType, OutboundAssumption DEF HopOps
<1>z. 0 \in 0..Timeout /\ 0 \in 0..HopOps /\ MaxHops \in Nat
  BY OutboundAssumption, HopOpsType
<1>1. ASSUME NEW h \in Hosts, Fetch(p, h) PROVE \E k : Becomes(p, k)
  BY <1>1, NewJobFresh DEF Fetch, Becomes, Results
<1>2. ASSUME NEW h \in Hosts, Follow(p, h) PROVE \E k : Becomes(p, k)
  <2>1. CASE MayFollow(p)
    <3> DEFINE k == [j EXCEPT !.pc = "lookup", !.host = h, !.hops = @ + 1,
                              !.ops = 0, !.silent = 0]
    <3>1. /\ k.pc = "lookup" /\ k.hops = j.hops + 1 /\ k.ops = 0 /\ k.silent = 0
          /\ k.got = j.got /\ k.idle = j.idle /\ k.elapsed = j.elapsed
      BY <1>0 DEF Job
    <3>2. k \in Job
      <4>1. j.hops + 1 \in 0..MaxHops
        BY <1>f, <1>z, <2>1 DEF MayFollow
      <4> QED
        BY <1>0, <1>z, <4>1 DEF Job, Outgoing
    <3>3. job' = [job EXCEPT ![p] = k] /\ j.pc = "redirect"
      BY <1>2, <2>1 DEF Follow, At
    <3> HIDE DEF k
    <3> QED
      BY <3>1, <3>2, <3>3 DEF Becomes, After, Paid, Followed, InOrder
  <2>2. CASE ~MayFollow(p)
    BY <1>2, <2>2, FinishBecomes DEF Follow, Results
  <2> QED BY <2>1, <2>2
<1>4. ASSUME Pace(p) \/ Resolve(p) PROVE \E k : Becomes(p, k)
  BY <1>4, FreeBecomes DEF Pace, Resolve, MovesTo
<1>6. ASSUME NextAddress(p) PROVE \E k : Becomes(p, k)
  <2>1. j.ops + 1 < Addresses /\ j.pc = "connect" /\ Completed(p, "connect")
    BY <1>6 DEF NextAddress, At
  <2>2. j.ops + 1 <= HopOps /\ j.ops + 1 + 1 <= Addresses
    BY <1>f, <2>1
  <2>3. \A k \in Job : k.pc = "connect" /\ k.ops = j.ops + 1 => InOrder(k)
    BY <2>2 DEF InOrder
  <2> QED
    BY <2>1, <2>2, <2>3, CompletedBecomes DEF Waits, Outgoing
<1>7. ASSUME Connected(p) PROVE \E k : Becomes(p, k)
  <2>1. CASE At(p, "connect") /\ Completed(p, "tls")
    BY <1>0, <1>f, <2>1, CompletedBecomes DEF At, Waits, Outgoing, InOrder
  <2>2. CASE At(p, "tls") /\ Completed(p, "write")
    BY <1>0, <1>f, <2>2, CompletedBecomes DEF At, Waits, Outgoing, InOrder
  <2> QED BY <1>7, <2>1, <2>2 DEF Connected
<1>8. ASSUME Send(p) PROVE \E k : Becomes(p, k)
  BY <1>0, <1>f, <1>8, CompletedBecomes DEF Send, At, Waits, Outgoing, InOrder
<1>9. ASSUME NEW next \in {"body", "redirect"}, HeadDone(p, next) PROVE \E k : Becomes(p, k)
  BY <1>0, <1>f, <1>9, CompletedBecomes DEF HeadDone, At, Waits, Outgoing, InOrder
<1>10. ASSUME Uncounted(p) PROVE \E k : Becomes(p, k)
  <2> DEFINE k == [j EXCEPT !.idle = Upto(IdleCap, @), !.silent = 0]
  <2>1. /\ k.pc = j.pc /\ k.hops = j.hops /\ k.ops = j.ops /\ k.silent = 0
        /\ k.got = j.got /\ k.idle = Upto(IdleCap, j.idle) /\ k.elapsed = j.elapsed
    BY <1>0 DEF Job
  <2>2. k \in Job
    <3>1. Upto(IdleCap, j.idle) \in 0..IdleCap
      BY <1>0, FieldTypes, UptoType, OutboundAssumption
    <3> QED
      BY <1>0, <1>z, <3>1 DEF Job
  <2>3. job' = [job EXCEPT ![p] = k]
    BY <1>10 DEF Uncounted
  <2> HIDE DEF k
  <2>4. Idled(j, k)
    BY <1>10, <2>1 DEF Idled, SameCounts, Uncounted, Outgoing
  <2>5. InOrder(k)
    BY <1>0, <2>1 DEF InOrder
  <2> QED
    BY <2>1, <2>2, <2>3, <2>4, <2>5 DEF Becomes, After, Paid
<1>11. ASSUME NEW n \in ChunkSizes, Chunk(p, n) PROVE \E k : Becomes(p, k)
  <2>1. CASE j.got + n > MaxBytes
    BY <1>11, <2>1, FinishBecomes DEF Chunk, Add, Results
  <2>2. CASE ~(j.got + n > MaxBytes)
    <3> DEFINE k == [j EXCEPT !.got = j.got + n, !.silent = 0]
    <3>1. /\ k.pc = j.pc /\ k.hops = j.hops /\ k.ops = j.ops /\ k.silent = 0
          /\ k.got = j.got + n /\ k.idle = j.idle /\ k.elapsed = j.elapsed
          /\ k.host = j.host
      BY <1>0 DEF Job
    <3>n. n \in Nat /\ n > 0 /\ MaxBytes \in Nat
      BY OutboundAssumption
    <3>2. k \in Job
      <4>1. j.got + n \in 0..MaxBytes
        BY <1>f, <2>2, <3>n
      <4> QED
        BY <1>0, <1>z, <4>1 DEF Job
    <3>3. job' = [job EXCEPT ![p] = k]
      BY <1>11, <2>2 DEF Chunk, Add
    <3> HIDE DEF k
    <3>4. Counted(j, k)
      <4>1. j.ops + (j.got + n) > j.ops + j.got
        BY <1>f, <3>n
      <4> QED
        BY <3>1, <4>1 DEF Counted
    <3>5. InOrder(k)
      BY <1>0, <3>1 DEF InOrder
    <3> QED
      BY <3>1, <3>2, <3>3, <3>4, <3>5 DEF Becomes, After, Paid
  <2> QED BY <2>1, <2>2
<1>12. ASSUME BodyDone(p) \/ TimeOut(p) \/ Fail(p) PROVE \E k : Becomes(p, k)
  BY <1>12, FinishBecomes DEF BodyDone, TimeOut, Fail, Results
<1>13. ASSUME Restart(p) PROVE \E k : Becomes(p, k)
  BY <1>0, <1>13, NewJobFresh, FieldTypes DEF Restart, Becomes, Results
<1> QED
  BY <1>1, <1>2, <1>4, <1>6, <1>7, <1>8, <1>9, <1>10, <1>11, <1>12, <1>13 DEF Step

LEMMA TypeInit == Init => TypeOK /\ OrderInv
<1> SUFFICES ASSUME Init PROVE TypeOK /\ OrderInv
  OBVIOUS
<1>1. \A p \in Procs : \E h \in Hosts : job[p] = NewJob("idle", h, "none")
  BY DEF Init
<1>2. \A p \in Procs : job[p] \in Job /\ InOrder(job[p])
  BY <1>1, NewJobFresh DEF Results
<1>3. AgeCap \in Ages
  BY OutboundAssumption DEF Ages
<1>4. job \in [Procs -> Job]
  BY <1>2 DEF Init
<1> QED
  BY <1>2, <1>3, <1>4 DEF Init, TypeOK, OrderInv, NeverSent

\* Time leaves everything of a fetch alone but silent and elapsed.
LEMMA WaitedFields ==
  ASSUME NEW j \in Job, j.pc \in Waits => j.silent < Timeout
  PROVE  LET k == Waited(j) IN
         /\ k \in Job /\ k.pc = j.pc /\ k.host = j.host /\ SameCounts(j, k) /\ k.idle = j.idle
         /\ \/ j.pc \notin Waits /\ k = j
            \/ /\ k.silent = j.silent + 1
               /\ k.elapsed <= j.elapsed + 1
<1>1. CASE j.pc \in Waits
  <2> DEFINE e == Upto(Horizon, j.elapsed)
             k == [j EXCEPT !.silent = @ + 1, !.elapsed = e]
  <2>1. Waited(j) = k
    BY <1>1 DEF Waited
  <2>2. e \in 0..Horizon
    BY FieldTypes, UptoType, OutboundAssumption
  <2>3. j.silent + 1 \in 0..Timeout
    BY <1>1, FieldTypes, OutboundAssumption
  <2>4. e <= j.elapsed + 1
    BY FieldTypes, OutboundAssumption DEF Upto
  <2> HIDE DEF e
  <2>5. /\ k.pc = j.pc /\ k.host = j.host /\ SameCounts(j, k) /\ k.idle = j.idle
        /\ k.silent = j.silent + 1 /\ k.elapsed = e
    BY DEF Job, SameCounts
  <2>6. k \in Job
    BY <2>2, <2>3 DEF Job
  <2> QED
    BY <2>1, <2>4, <2>5, <2>6
<1>2. CASE j.pc \notin Waits
  BY <1>2 DEF Waited, SameCounts
<1> QED BY <1>1, <1>2

LEMMA TickFields ==
  ASSUME TypeOK, Tick, NEW p \in Procs
  PROVE  LET j == job[p]  k == job'[p] IN
         /\ k \in Job /\ k.pc = j.pc /\ k.host = j.host /\ SameCounts(j, k) /\ k.idle = j.idle
         /\ \/ j.pc \notin Waits /\ k = j
            \/ /\ k.silent = j.silent + 1
               /\ k.elapsed <= j.elapsed + 1
<1>1. job'[p] = Waited(job[p]) /\ job[p] \in Job /\ (job[p].pc \in Waits => job[p].silent < Timeout)
  BY DEF Tick, TypeOK
<1> QED
  BY <1>1, WaitedFields

\* A step of p changes nobody else's fetch.
LEMMA OthersStay ==
  ASSUME TypeOK, NEW p \in Procs, NEW k, Becomes(p, k)
  PROVE  /\ job' \in [Procs -> Job] /\ job'[p] = k
         /\ \A q \in Procs \ {p} : job'[q] = job[q]
  BY DEF Becomes, TypeOK

HistoryOK ==
  /\ lastReq \in [Procs -> [Hosts -> Ages]]
  /\ sent \in [Procs -> [Hosts -> [last : Ages, before : Ages]]]
  /\ since \in [Hosts -> Ages]

LEMMA TypeStep == TypeOK /\ OrderInv /\ [Next]_vars => (TypeOK /\ OrderInv)'
<1> SUFFICES ASSUME TypeOK, OrderInv, [Next]_vars PROVE TypeOK' /\ OrderInv'
  OBVIOUS
<1>0. /\ \A p \in Procs : job[p] \in Job /\ InOrder(job[p]) /\ job[p].host \in Hosts
      /\ 0 \in Ages /\ AgeCap \in Ages
  BY OutboundAssumption, FieldTypes DEF TypeOK, OrderInv, Ages
<1>1. CASE Tick
  <2>1. \A p \in Procs : job'[p] \in Job /\ InOrder(job'[p])
    BY <1>0, <1>1, TickFields DEF InOrder, SameCounts
  <2>2. job' \in [Procs -> Job]
    BY <1>1, <2>1 DEF Tick
  <2>3. HistoryOK'
    BY <1>1, OlderType DEF Tick, TypeOK, HistoryOK
  <2> QED
    BY <2>1, <2>2, <2>3 DEF TypeOK, OrderInv, HistoryOK
<1>2. ASSUME NEW p \in Procs, Step(p) PROVE TypeOK' /\ OrderInv'
  <2>1. PICK k : Becomes(p, k)
    BY <1>2, StepBecomes
  <2>2. OrderInv' /\ job' \in [Procs -> Job]
    BY <1>0, <2>1, OthersStay DEF OrderInv, Becomes
  <2>3. HistoryOK'
    <3>1. CASE UNCHANGED <<lastReq, sent, since>>
      BY <3>1 DEF TypeOK, HistoryOK
    <3>2. CASE Pace(p)
      BY <1>0, <3>2 DEF Pace, Stamped, TypeOK, HistoryOK
    <3>3. CASE Send(p)
      BY <1>0, <3>3 DEF Send, TypeOK, HistoryOK
    <3>4. CASE Restart(p)
      BY <1>0, <3>4 DEF Restart, NeverSent, TypeOK, HistoryOK
    <3> QED
      BY <1>2, <3>1, <3>2, <3>3, <3>4
         DEF Step, Fetch, Follow, Resolve, NextAddress, Connected, HeadDone, Uncounted,
             Chunk, BodyDone, TimeOut, Fail
  <2> QED
    BY <2>2, <2>3 DEF TypeOK, HistoryOK
<1>3. CASE UNCHANGED vars
  BY <1>3 DEF vars, TypeOK, OrderInv
<1> QED
  BY <1>1, <1>2, <1>3 DEF Next

(* Counters, ages and outcomes keep their types: in particular no more       *)
(* redirects than MaxHops are followed, and the size of a body held in       *)
(* memory stays within MaxBytes.                                             *)
THEOREM TypeCorrect == Spec => []TypeOK
  BY TypeInit, TypeStep, PTL DEF Spec

------------------------------------------------------------------------------
(***************************************************************************)
(* Pacing.  Between two stamps of a host at most one paced request goes    *)
(* out, so the last but one is never later than the last stamp; while a    *)
(* request is on its way out, that stamp is at least Interval behind it.   *)
(***************************************************************************)
Pacing(p, h) == job[p].pc \in Outgoing /\ job[p].hops = 0 /\ job[p].host = h

BurstInv == \A p \in Procs, h \in Hosts :
  /\ sent[p][h].before >= sent[p][h].last
  /\ Interval > 0 => sent[p][h].before >= lastReq[p][h]
  /\ Pacing(p, h) => /\ Interval > 0 => sent[p][h].last >= lastReq[p][h]
                     /\ sent[p][h].before >= Interval

LEMMA OlderMonotone ==
  \A a, b \in Ages : /\ a >= b => Older(a) >= Older(b)
                     /\ a >= Interval => Older(a) >= Interval
  BY OutboundAssumption DEF Ages, Older

\* A request is on its way out since the pause before it.
LEMMA PacingBegins ==
  ASSUME TypeOK, NEW p \in Procs, NEW k, Becomes(p, k), NEW h, Pacing(p, h)'
  PROVE  Pacing(p, h) \/ (At(p, "limit") /\ job[p].host = h)
<1> DEFINE j == job[p]
<1>0. j \in Job /\ job'[p] = k /\ j.hops \in Nat
  BY OthersStay, FieldTypes DEF TypeOK
<1>1. k.pc \in Outgoing /\ k.hops = 0 /\ k.host = h
  BY <1>0 DEF Pacing
<1>2. Free(j, k) \/ Counted(j, k)
  <2>1. ~Anew(j, k)
    BY <1>1 DEF Anew, Outgoing
  <2>2. ~Followed(j, k)
    BY <1>0, <1>1 DEF Followed
  <2>3. ~Idled(j, k)
    BY <1>1 DEF Idled
  <2> QED
    BY <2>1, <2>2, <2>3 DEF Becomes, After, Paid
<1>3. CASE Free(j, k)
  BY <1>1, <1>3 DEF Free, SameCounts, Pacing, At, Outgoing
<1>4. CASE Counted(j, k)
  BY <1>1, <1>4 DEF Counted, Pacing
<1> QED BY <1>2, <1>3, <1>4

LEMMA BurstStep == TypeOK /\ OrderInv /\ BurstInv /\ [Next]_vars => BurstInv'
<1> SUFFICES ASSUME TypeOK, OrderInv, BurstInv, [Next]_vars PROVE BurstInv'
  OBVIOUS
<1>0. \A p \in Procs, h \in Hosts :
        /\ job[p] \in Job /\ lastReq[p][h] \in Ages
        /\ sent[p][h].last \in Ages /\ sent[p][h].before \in Ages
  BY DEF TypeOK
<1>h. \A p \in Procs : job[p].host \in Hosts /\ job[p].hops \in 0..MaxHops
  BY DEF TypeOK, Job
<1>1. CASE Tick
  <2>1. \A p \in Procs, h \in Hosts : Pacing(p, h)' <=> Pacing(p, h)
    BY <1>1, TickFields DEF Pacing, SameCounts
  <2>2. \A p \in Procs, h \in Hosts :
          /\ lastReq'[p][h] = Older(lastReq[p][h])
          /\ sent'[p][h].last = Older(sent[p][h].last)
          /\ sent'[p][h].before = Older(sent[p][h].before)
    BY <1>1 DEF Tick
  <2> QED
    BY <1>0, <2>1, <2>2, OlderMonotone DEF BurstInv
<1>2. ASSUME NEW p \in Procs, Pace(p) PROVE BurstInv'
  <2> DEFINE h == job[p].host
  <2>0. h \in Hosts /\ Step(p)
    BY <1>h, <1>2 DEF Step
  <2>1. sent' = sent /\ lastReq[p][h] >= Interval
    BY <1>2 DEF Pace
  <2>2. \A q \in Procs, g \in Hosts : Pacing(q, g)' => Pacing(q, g) \/ (q = p /\ g = h)
    <3>1. PICK k : Becomes(p, k)
      BY <2>0, StepBecomes
    <3> QED
      BY <3>1, OthersStay, PacingBegins DEF Pacing
  <2>3. \A q \in Procs, g \in Hosts : lastReq'[q][g] = lastReq[q][g] \/ lastReq'[q][g] = 0
    BY <1>2 DEF Pace, Stamped, TypeOK
  <2>4. Interval > 0 => lastReq'[p][h] = 0
    BY <1>2, <2>0 DEF Pace, Stamped, TypeOK
  <2>5. ASSUME NEW q \in Procs, NEW g \in Hosts
        PROVE  /\ sent[q][g].before >= sent[q][g].last
               /\ Interval > 0 => sent[q][g].before >= lastReq'[q][g]
    BY <1>0, <2>3 DEF BurstInv, Ages
  <2>6. ASSUME NEW q \in Procs, NEW g \in Hosts, Pacing(q, g)
        PROVE  /\ Interval > 0 => sent[q][g].last >= lastReq'[q][g]
               /\ sent[q][g].before >= Interval
    <3>1. /\ Interval > 0 => sent[q][g].last >= lastReq[q][g]
          /\ sent[q][g].before >= Interval
      BY <2>6 DEF BurstInv
    <3> QED
      BY <1>0, <2>3, <3>1 DEF Ages
  <2>7. sent[p][h].before >= Interval
    <3>1. Interval > 0 => sent[p][h].before >= lastReq[p][h]
      BY <2>0 DEF BurstInv
    <3> QED
      BY <1>0, <2>0, <2>1, <3>1, OutboundAssumption DEF Ages
  <2>8. Interval > 0 => sent[p][h].last >= lastReq'[p][h]
    BY <1>0, <2>0, <2>4 DEF Ages
  <2> QED
    BY <2>1, <2>2, <2>5, <2>6, <2>7, <2>8 DEF BurstInv
<1>3. ASSUME NEW p \in Procs, Send(p) PROVE BurstInv'
  <2> DEFINE h == job[p].host
  <2>0. h \in Hosts /\ UNCHANGED lastReq
    BY <1>h, <1>3 DEF Send
  <2>1. \A q \in Procs, g \in Hosts : Pacing(q, g)' => Pacing(q, g) /\ q # p
    BY <1>0, <1>3 DEF Send, Completed, Pacing, Outgoing, TypeOK, Job
  <2>2. CASE job[p].hops > 0
    BY <1>3, <2>0, <2>1, <2>2 DEF Send, BurstInv
  <2>3. CASE ~(job[p].hops > 0)
    <3>1. Pacing(p, h)
      <4>1. job[p].hops \in Nat /\ job[p].pc = "write"
        BY <1>h, <1>3 DEF Send, At
      <4> QED
        BY <2>3, <4>1 DEF Pacing, Outgoing
    <3>2. sent' = [sent EXCEPT ![p][h] = [last |-> 0, before |-> @.last]]
      BY <1>3, <2>3 DEF Send
    <3>3. sent'[p][h].last = 0 /\ sent'[p][h].before = sent[p][h].last
      BY <2>0, <3>2 DEF TypeOK
    <3>4. \A q \in Procs, g \in Hosts : q # p \/ g # h => sent'[q][g] = sent[q][g]
      BY <3>2 DEF TypeOK
    <3>5. Interval > 0 => sent[p][h].last >= lastReq[p][h]
      BY <2>0, <3>1 DEF BurstInv
    <3>6. ASSUME NEW q \in Procs, NEW g \in Hosts
          PROVE  /\ sent'[q][g].before >= sent'[q][g].last
                 /\ Interval > 0 => sent'[q][g].before >= lastReq[q][g]
      BY <1>0, <2>0, <3>3, <3>4, <3>5 DEF BurstInv, Ages
    <3>7. ASSUME NEW q \in Procs, NEW g \in Hosts, q # p, Pacing(q, g)
          PROVE  /\ Interval > 0 => sent'[q][g].last >= lastReq[q][g]
                 /\ sent'[q][g].before >= Interval
      <4>1. /\ Interval > 0 => sent[q][g].last >= lastReq[q][g]
            /\ sent[q][g].before >= Interval
        BY <3>7 DEF BurstInv
      <4>2. sent'[q][g] = sent[q][g]
        BY <3>4, <3>7
      <4> QED
        BY <4>1, <4>2
    <3> QED
      BY <2>0, <2>1, <3>6, <3>7 DEF BurstInv
  <2> QED BY <2>2, <2>3
<1>4. ASSUME NEW p \in Procs, Restart(p) PROVE BurstInv'
  <2>1. \A q \in Procs, g \in Hosts : Pacing(q, g)' => Pacing(q, g) /\ q # p
    BY <1>0, <1>4 DEF Restart, Pacing, Outgoing, TypeOK, NewJob
  <2>2. \A g \in Hosts : /\ lastReq'[p][g] = AgeCap /\ sent'[p][g].last = AgeCap
                         /\ sent'[p][g].before = AgeCap
    BY <1>4 DEF Restart, TypeOK, NeverSent
  <2>3. \A q \in Procs \ {p} : lastReq'[q] = lastReq[q] /\ sent'[q] = sent[q]
    BY <1>4 DEF Restart, TypeOK
  <2> QED
    BY <2>1, <2>2, <2>3, OutboundAssumption DEF BurstInv
\* The rest leave stamps and history alone and come after no pause.
<1>5. ASSUME NEW p \in Procs, Step(p), ~At(p, "limit"), UNCHANGED <<lastReq, sent>>
      PROVE  BurstInv'
  <2>1. PICK k : Becomes(p, k)
    BY <1>5, StepBecomes
  <2>2. \A q \in Procs, h \in Hosts : Pacing(q, h)' => Pacing(q, h)
    BY <1>5, <2>1, OthersStay, PacingBegins DEF Pacing
  <2> QED
    BY <1>5, <2>2 DEF BurstInv
<1>6. ASSUME NEW p \in Procs, Step(p) PROVE BurstInv'
  <2>1. CASE Fail(p) \/ TimeOut(p)
    BY <1>5, <1>6, <2>1 DEF Fail, TimeOut, At, Waits, Outgoing
  <2>2. CASE Uncounted(p)
    BY <1>5, <1>6, <2>2 DEF Uncounted, At
  <2> QED
    BY <1>2, <1>3, <1>4, <1>5, <1>6, <2>1, <2>2
       DEF Step, Fetch, Follow, Resolve, NextAddress, Connected, HeadDone, Chunk, BodyDone, At
<1>7. CASE UNCHANGED vars
  BY <1>7 DEF vars, BurstInv, Pacing
<1> QED
  BY <1>1, <1>6, <1>7 DEF Next

(* Of three paced requests of one process to one host, the first and the     *)
(* third are at least Interval apart (http_client.py:54-64).                 *)
THEOREM NoBurstHolds == Spec => []NoBurst
<1>1. Init => BurstInv
  BY OutboundAssumption DEF Init, BurstInv, Pacing, Outgoing, NewJob, NeverSent
<1>2. TypeOK /\ BurstInv => NoBurst
  <2> SUFFICES ASSUME TypeOK, BurstInv, NEW p \in Procs, job[p].pc \in Outgoing,
                      job[p].hops = 0
               PROVE  sent[p][job[p].host].before >= Interval
    BY DEF NoBurst
  <2>1. job[p].host \in Hosts /\ Pacing(p, job[p].host)
    BY DEF TypeOK, Job, Pacing
  <2> QED
    BY <2>1 DEF BurstInv
<1> QED
  BY <1>1, <1>2, TypeInit, TypeStep, BurstStep, PTL DEF Spec

------------------------------------------------------------------------------
(***************************************************************************)
(* Duration.  Every socket operation completed pays for Timeout ticks, and *)
(* the one under way has taken silent ticks; from IdleCap on, the reads    *)
(* that nobody counts are no longer counted here either.                   *)
(***************************************************************************)
Ops(j) == j.hops * HopOps + j.ops + j.got + j.idle

InTime(j) == j.idle < IdleCap => j.elapsed <= Timeout * Ops(j) + j.silent

TimeInv == \A p \in Procs : InTime(job[p])

\* One more operation pays for the time of the last.
LEMMA OneMore ==
  ASSUME NEW t \in Nat, NEW a \in Nat, NEW b \in Nat, a < b
  PROVE  t * a + t <= t * b
<1>1. PICK d \in Nat : b = a + 1 + d
  <2>1. b - a - 1 \in Nat
    OBVIOUS
  <2> QED
    BY <2>1
<1>2. t * b = t * a + t + t * d /\ t * d \in Nat
  BY <1>1
<1>3. t * a \in Nat
  OBVIOUS
<1> QED
  BY <1>2, <1>3

LEMMA JobFields ==
  ASSUME NEW j \in Job
  PROVE  /\ j.hops \in Nat /\ j.ops \in Nat /\ j.got \in Nat /\ j.idle \in Nat
         /\ j.silent \in Nat /\ j.silent <= Timeout /\ j.elapsed \in Nat
         /\ j.hops * HopOps \in Nat /\ Ops(j) \in Nat /\ Timeout * Ops(j) \in Nat
<1>1. /\ j.hops \in Nat /\ j.ops \in Nat /\ j.got \in Nat /\ j.idle \in Nat
      /\ j.silent \in Nat /\ j.silent <= Timeout /\ j.elapsed \in Nat
  BY FieldTypes, HopOpsType, OutboundAssumption
<1>2. j.hops * HopOps \in Nat
  BY <1>1, HopOpsType
<1>3. Ops(j) \in Nat
  BY <1>1, <1>2 DEF Ops
<1>4. Timeout * Ops(j) \in Nat
  BY <1>3, OutboundAssumption
<1> QED
  BY <1>1, <1>2, <1>3, <1>4

\* A socket operation completed is one more, unless it is one of the reads
\* that are no longer counted.
LEMMA PaidMore ==
  ASSUME NEW j \in Job, NEW k \in Job, InOrder(j), Paid(j, k), k.idle < IdleCap
  PROVE  Ops(j) < Ops(k) /\ j.idle < IdleCap
<1> DEFINE m == j.hops * HopOps
           n == k.hops * HopOps
<1>1. /\ j.ops \in Nat /\ j.got \in Nat /\ j.idle \in Nat /\ m \in Nat /\ j.hops \in Nat
      /\ k.ops \in Nat /\ k.got \in Nat /\ k.idle \in Nat /\ n \in Nat
      /\ IdleCap \in Nat /\ HopOps \in Nat /\ Addresses \in Nat
  BY JobFields, HopOpsType, OutboundAssumption
<1>2. Ops(j) = m + j.ops + j.got + j.idle /\ Ops(k) = n + k.ops + k.got + k.idle
  BY DEF Ops
<1>3. CASE Counted(j, k)
  <2>1. n = m /\ k.idle = j.idle /\ k.ops + k.got > j.ops + j.got
    BY <1>3 DEF Counted
  <2> HIDE DEF m, n
  <2> QED
    BY <1>1, <1>2, <2>1
<1>4. CASE Followed(j, k)
  <2>1. n = m + HopOps
    BY <1>1, <1>4 DEF Followed
  <2>2. /\ k.ops = 0 /\ k.got = j.got /\ k.idle = j.idle
        /\ j.ops <= Addresses + 3 /\ HopOps = Addresses + 4
    BY <1>4 DEF Followed, InOrder, HopOps
  <2> HIDE DEF m, n
  <2> QED
    BY <1>1, <1>2, <2>1, <2>2
<1>5. CASE Idled(j, k)
  <2>1. n = m /\ k.ops = j.ops /\ k.got = j.got /\ k.idle = Upto(IdleCap, j.idle)
    BY <1>5 DEF Idled, SameCounts
  <2>2. k.idle = j.idle + 1
    BY <1>1, <2>1 DEF Upto
  <2> HIDE DEF m, n
  <2> QED
    BY <1>1, <1>2, <2>1, <2>2
<1> QED
  BY <1>3, <1>4, <1>5 DEF Paid

\* It keeps the time within its bound.
LEMMA PaidInTime ==
  ASSUME NEW j \in Job, NEW k \in Job, InOrder(j), InTime(j), Paid(j, k)
  PROVE  InTime(k)
<1> SUFFICES ASSUME k.idle < IdleCap PROVE k.elapsed <= Timeout * Ops(k) + k.silent
  BY DEF InTime
<1> DEFINE a == Ops(j)
           b == Ops(k)
<1>1. a \in Nat /\ b \in Nat /\ a < b /\ Timeout \in Nat
      /\ Timeout * a \in Nat /\ Timeout * b \in Nat
  BY PaidMore, JobFields, OutboundAssumption
<1>2. j.elapsed <= Timeout * a + j.silent
  BY PaidMore DEF InTime
<1>3. k.silent = 0 /\ k.elapsed = j.elapsed
  BY DEF Paid
<1> HIDE DEF a, b
<1>4. Timeout * a + Timeout <= Timeout * b
  BY <1>1, OneMore
<1>5. k.elapsed <= Timeout * b
  BY <1>1, <1>2, <1>3, <1>4, JobFields
<1> QED
  BY <1>1, <1>3, <1>5 DEF b

LEMMA AfterInTime ==
  ASSUME NEW j \in Job, NEW k \in Job, InOrder(j), InTime(j), After(j, k)
  PROVE  InTime(k)
<1>1. CASE Anew(j, k)
  <2>1. k.elapsed = 0 /\ k.silent = 0 /\ Timeout * Ops(k) \in Nat
    BY <1>1, JobFields DEF Anew
  <2> QED
    BY <2>1 DEF InTime
<1>2. CASE Free(j, k)
  BY <1>2 DEF Free, SameCounts, InTime, Ops
<1>3. CASE Paid(j, k)
  BY <1>3, PaidInTime
<1> QED BY <1>1, <1>2, <1>3 DEF After

\* So does the time that passes: what it adds is under way.
LEMMA TickInTime ==
  ASSUME NEW j \in Job, NEW k \in Job, InTime(j), SameCounts(j, k), k.idle = j.idle,
         k = j \/ (k.silent = j.silent + 1 /\ k.elapsed <= j.elapsed + 1)
  PROVE  InTime(k)
<1> SUFFICES ASSUME k.idle < IdleCap, k # j PROVE k.elapsed <= Timeout * Ops(k) + k.silent
  BY DEF InTime
<1> DEFINE b == Timeout * Ops(j)
<1>1. Ops(k) = Ops(j)
  BY DEF Ops, SameCounts
<1>2. b \in Nat /\ j.elapsed <= b + j.silent
  BY JobFields DEF InTime
<1> HIDE DEF b
<1>3. k.elapsed <= b + k.silent
  BY <1>2, JobFields
<1> QED
  BY <1>1, <1>3 DEF b

LEMMA TimeStep == TypeOK /\ OrderInv /\ TimeInv /\ [Next]_vars => TimeInv'
<1> SUFFICES ASSUME TypeOK, OrderInv, TimeInv, [Next]_vars PROVE TimeInv'
  OBVIOUS
<1>0. \A p \in Procs : job[p] \in Job /\ InOrder(job[p]) /\ InTime(job[p])
  BY DEF TypeOK, OrderInv, TimeInv
<1>1. CASE Tick
  <2> SUFFICES ASSUME NEW p \in Procs PROVE InTime(job'[p])
    BY DEF TimeInv
  <2> QED
    BY <1>0, <1>1, TickFields, TickInTime
<1>2. ASSUME NEW p \in Procs, Step(p) PROVE TimeInv'
  <2>1. PICK k : Becomes(p, k)
    BY <1>2, StepBecomes
  <2>2. InTime(k)
    BY <1>0, <2>1, AfterInTime DEF Becomes
  <2> QED
    BY <1>0, <2>1, <2>2, OthersStay DEF TimeInv
<1>3. CASE UNCHANGED vars
  BY <1>3 DEF vars, TimeInv
<1> QED
  BY <1>1, <1>2, <1>3 DEF Next

(* However an origin stalls, redirects or dribbles, the time of a fetch on   *)
(* its sockets is paid for by the operations it completed, plus one; the     *)
(* only ones without a bound are the reads that nobody counts                *)
(* (http_client.py:35-37, 172-182).                                          *)
THEOREM DurationBounded == Spec => []DurationBound
<1>1. Init => TimeInv
  <2> SUFFICES ASSUME Init, NEW p \in Procs PROVE InTime(job[p])
    BY DEF TimeInv
  <2>1. TypeOK
    BY TypeInit
  <2>2. job[p] \in Job /\ job[p].elapsed = 0 /\ job[p].silent = 0
    BY <2>1 DEF Init, NewJob, TypeOK
  <2>3. Timeout * Ops(job[p]) \in Nat
    BY <2>2, JobFields
  <2> QED
    BY <2>2, <2>3 DEF InTime
<1>2. TypeOK /\ TimeInv => DurationBound
  <2> SUFFICES ASSUME TypeOK, TimeInv, NEW p \in Procs, job[p].idle < IdleCap
               PROVE  job[p].elapsed <= Timeout * (Ops(job[p]) + 1)
    BY DEF DurationBound, Ops
  <2> DEFINE j == job[p]
             b == Ops(j)
  <2>1. /\ j \in Job /\ b \in Nat /\ Timeout \in Nat /\ j.silent <= Timeout
        /\ j.silent \in Nat /\ j.elapsed \in Nat
    BY JobFields, OutboundAssumption DEF TypeOK
  <2>2. j.elapsed <= Timeout * b + j.silent
    BY DEF TimeInv, InTime
  <2> HIDE DEF b
  <2>3. Timeout * (b + 1) = Timeout * b + Timeout /\ Timeout * b \in Nat
    BY <2>1
  <2> QED
    BY <2>1, <2>2, <2>3 DEF b
<1> QED
  BY <1>1, <1>2, TypeInit, TypeStep, TimeStep, PTL DEF Spec
==============================================================================
