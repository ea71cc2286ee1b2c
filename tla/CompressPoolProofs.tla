------------------------- MODULE CompressPoolProofs -------------------------
(***************************************************************************)
(* The compression pool, for every number of workers, async jobs and       *)
(* batches and every batch size.                                           *)
(*                                                                         *)
(* The types and the ownership of async jobs hold for the pool as it is.   *)
(* That every job of a batch runs once holds as long as no worker is still *)
(* in the claim loop of the previous batch when a batch is filled in:      *)
(* batch_data is reused, and a straggler would claim with the old counters *)
(* from the new batch (TLC shows both consequences).  A single batch never *)
(* meets a straggler.                                                      *)
(***************************************************************************)
EXTENDS CompressPool, FiniteSetTheorems, TLAPS

(* The batch the pool holds is the last one submitted. *)
BatchKnown ==
    /\ batch_data.batch = batchNo
    /\ batch_data.total = IF batchNo = 0 THEN 0 ELSE BatchTotals[batchNo]

(* A claimed index below the total names a job. *)
LEMMA SlotsKnown ==
  \A b \in Batches : \A i \in 0 .. BatchTotals[b] - 1 : [batch |-> b, index |-> i] \in JobSlots
<1> SUFFICES ASSUME NEW b \in Batches, NEW i \in 0 .. BatchTotals[b] - 1
             PROVE  [batch |-> b, index |-> i] \in JobSlots
  OBVIOUS
<1>1. [batch |-> b, index |-> i] \in [batch : {b}, index : 0 .. BatchTotals[b] - 1]
  OBVIOUS
<1> QED
  BY <1>1 DEF JobSlots

(* The batches are numbered from 1. *)
LEMMA BatchNumbers ==
  /\ Len(BatchTotals) \in Nat /\ Batches = 1 .. Len(BatchTotals)
  /\ \A b \in Batches : BatchTotals[b] \in Nat \ {0}
BY PoolAssumption DEF Batches

(* Updating a counter keeps the counters natural numbers. *)
LEMMA CounterUpdate ==
  ASSUME NEW S, NEW f \in [S -> Nat], NEW a \in S, NEW n \in Nat
  PROVE  [f EXCEPT ![a] = n] \in [S -> Nat]
OBVIOUS

(* The woken threads are where they may be. *)
LEMMA WakeTyped ==
  ASSUME NEW S, "top" \in S, "await" \in S, NEW p \in [Runners -> S]
  PROVE  WakeWorkers(p) \in [Runners -> S] /\ WakeSubmitter(p) \in [Runners -> S]
BY DEF WakeWorkers, WakeSubmitter

PcStates == {"idle", "top", "waitWork", "waitDone", "exited", "runAsync", "endAsync", "claim",
             "test", "compress", "count", "signal", "resetNext", "resetDone", "publish", "await"}
AjStates == {"new", "queued", "running", "done", "freed"}
JobValues == JobSlots \cup {NoJob}
BatchStates == [batch : Nat, total : Nat, next : Nat, done : Nat]

(* TypeOK in terms of these sets. *)
Typed ==
    /\ batch_data \in BatchStates
    /\ batch_active \in BOOLEAN /\ shutdown \in BOOLEAN
    /\ generation \in Nat /\ batchNo \in 0 .. Len(BatchTotals)
    /\ async_queue \in Seq(AsyncJobs)
    /\ pc \in [Runners -> PcStates]
    /\ my_gen \in [Workers -> Nat]
    /\ idx \in [Runners -> Nat] /\ processed \in [Runners -> Nat]
    /\ job \in [Runners -> JobValues]
    /\ aj \in [Workers -> AsyncJobs \cup {"none"}]
    /\ runs \in [JobSlots -> Nat]
    /\ ajState \in [AsyncJobs -> AjStates]

(* The two are the same. *)
LEMMA TypedIsTypeOK == Typed <=> TypeOK
BY DEF Typed, TypeOK, PcStates, AjStates, JobValues, BatchStates

(* Every step of the pool keeps the types. *)
LEMMA StepTyped == Typed /\ BatchKnown /\ [Next]_vars => Typed' /\ BatchKnown'
<1> SUFFICES ASSUME Typed, BatchKnown, Next \/ UNCHANGED vars PROVE Typed' /\ BatchKnown'
  OBVIOUS
<1>r. Submitter \in Runners /\ \A w \in Workers : w \in Runners
  BY DEF Runners
<1>pc. pc \in [Runners -> PcStates]
  BY DEF Typed
<1>b. batch_data \in BatchStates /\ batchNo \in 0 .. Len(BatchTotals)
  BY DEF Typed
<1>n. /\ idx \in [Runners -> Nat] /\ processed \in [Runners -> Nat] /\ my_gen \in [Workers -> Nat]
      /\ generation \in Nat
  BY DEF Typed
<1>j. job \in [Runners -> JobValues] /\ runs \in [JobSlots -> Nat]
  BY DEF Typed
<1>a. /\ aj \in [Workers -> AsyncJobs \cup {"none"}] /\ ajState \in [AsyncJobs -> AjStates]
      /\ async_queue \in Seq(AsyncJobs)
  BY DEF Typed
<1>1. ASSUME NEW w \in Workers, WorkerTop(w) PROVE Typed' /\ BatchKnown'
  <2>2. async_queue # <<>> => /\ Head(async_queue) \in AsyncJobs
                              /\ Tail(async_queue) \in Seq(AsyncJobs)
    BY <1>a
  <2>3. UNCHANGED <<batch_data, batch_active, generation, shutdown, idx, job, batchNo, runs>>
    BY <1>1 DEF WorkerTop
  <2>4. pc' \in [Runners -> PcStates]
    BY <1>1, <1>pc, <1>r DEF WorkerTop, PcStates
  <2>5. processed' \in [Runners -> Nat] /\ my_gen' \in [Workers -> Nat]
    <3>1. \/ processed' = processed /\ my_gen' = my_gen
          \/ /\ processed' = [processed EXCEPT ![w] = 0]
             /\ my_gen' = [my_gen EXCEPT ![w] = generation]
      BY <1>1 DEF WorkerTop
    <3> QED
      BY <1>n, <1>r, <3>1, CounterUpdate
  <2>6. async_queue' \in Seq(AsyncJobs)
    BY <1>1, <1>a, <2>2 DEF WorkerTop
  <2>7. aj' \in [Workers -> AsyncJobs \cup {"none"}] /\ ajState' \in [AsyncJobs -> AjStates]
    BY <1>1, <1>a, <2>2 DEF WorkerTop, AjStates
  <2> QED
    BY <2>3, <2>4, <2>5, <2>6, <2>7 DEF BatchKnown, Typed
<1>2. ASSUME NEW w \in Workers, WorkerRunAsync(w) \/ WorkerEndAsync(w) PROVE Typed' /\ BatchKnown'
  <2>1. pc' \in [Runners -> PcStates]
    BY <1>2, <1>pc, <1>r DEF WorkerRunAsync, WorkerEndAsync, PcStates
  <2>2. aj' \in [Workers -> AsyncJobs \cup {"none"}] /\ ajState' \in [AsyncJobs -> AjStates]
    BY <1>2, <1>a DEF WorkerRunAsync, WorkerEndAsync, AjStates
  <2>3. UNCHANGED <<poolVars, my_gen, idx, processed, job, batchNo, runs>>
    BY <1>2 DEF WorkerRunAsync, WorkerEndAsync
  <2> QED
    BY <2>1, <2>2, <2>3 DEF poolVars, BatchKnown, Typed
<1>3. ASSUME NEW r \in Runners, ClaimJob(r) PROVE Typed' /\ BatchKnown'
  <2>1. batch_data.next \in Nat /\ batch_data' = [batch_data EXCEPT !.next = batch_data.next + 1]
    BY <1>3, <1>b DEF ClaimJob, NextClaim, BatchStates
  <2>2. /\ batch_data' \in BatchStates /\ batch_data'.batch = batch_data.batch
        /\ batch_data'.total = batch_data.total
    BY <1>b, <2>1 DEF BatchStates
  <2>3. idx' \in [Runners -> Nat]
    BY <1>3, <1>n, <2>1 DEF ClaimJob
  <2>4. pc' \in [Runners -> PcStates]
    BY <1>3, <1>pc DEF ClaimJob, PcStates
  <2>5. UNCHANGED <<batch_active, generation, async_queue, shutdown, my_gen, processed, job, aj,
                    batchNo, runs, ajState>>
    BY <1>3 DEF ClaimJob
  <2> QED
    BY <2>2, <2>3, <2>4, <2>5 DEF BatchKnown, Typed
<1>4. ASSUME NEW r \in Runners, TestClaim(r) PROVE Typed' /\ BatchKnown'
  <2>1. pc' \in [Runners -> PcStates] /\ processed' \in [Runners -> Nat]
    BY <1>4, <1>pc, <1>n DEF TestClaim, PcStates
  <2>2. job' \in [Runners -> JobValues]
    <3>1. CASE JobRemains(idx[r])
      <4>1. batchNo \in Batches /\ idx[r] \in 0 .. BatchTotals[batchNo] - 1
        BY <1>b, <1>n, <3>1, BatchNumbers DEF JobRemains, BatchKnown
      <4>2. [batch |-> batch_data.batch, index |-> idx[r]] \in JobValues
        BY <4>1, SlotsKnown DEF BatchKnown, JobValues
      <4>3. job' = [job EXCEPT ![r] = [batch |-> batch_data.batch, index |-> idx[r]]]
        BY <1>4, <3>1 DEF TestClaim
      <4> QED
        BY <1>j, <4>2, <4>3
    <3>2. CASE ~JobRemains(idx[r])
      BY <1>4, <1>j, <3>2 DEF TestClaim
    <3> QED
      BY <3>1, <3>2
  <2>3. UNCHANGED <<poolVars, my_gen, idx, aj, batchNo, runs, ajState>>
    BY <1>4 DEF TestClaim
  <2> QED
    BY <2>1, <2>2, <2>3 DEF poolVars, BatchKnown, Typed
<1>5. ASSUME NEW r \in Runners, CompressJob(r) PROVE Typed' /\ BatchKnown'
  <2>1. runs' \in [JobSlots -> Nat]
    <3>1. runs' = [runs EXCEPT ![job[r]] = runs[job[r]] + 1]
      BY <1>5 DEF CompressJob
    <3>2. CASE job[r] \in JobSlots
      BY <1>j, <3>1, <3>2, CounterUpdate
    <3>3. CASE job[r] \notin JobSlots
      BY <1>j, <3>1, <3>3
    <3> QED
      BY <3>2, <3>3
  <2>2. job' \in [Runners -> JobValues]
    BY <1>5, <1>j DEF CompressJob, JobValues
  <2>3. pc' \in [Runners -> PcStates]
    BY <1>5, <1>pc DEF CompressJob, PcStates
  <2>4. UNCHANGED <<poolVars, my_gen, idx, processed, aj, batchNo, ajState>>
    BY <1>5 DEF CompressJob
  <2> QED
    BY <2>1, <2>2, <2>3, <2>4 DEF poolVars, BatchKnown, Typed
<1>6. ASSUME NEW r \in Runners, CountDone(r) PROVE Typed' /\ BatchKnown'
  <2>1. batch_data' = [batch_data EXCEPT !.done = batch_data.done + processed[r]]
    BY <1>6 DEF CountDone
  <2>2. /\ batch_data' \in BatchStates /\ batch_data'.batch = batch_data.batch
        /\ batch_data'.total = batch_data.total
    BY <1>b, <1>n, <2>1 DEF BatchStates
  <2>3. pc' \in [Runners -> PcStates]
    BY <1>6, <1>pc DEF CountDone, AfterLoop, PcStates
  <2>4. UNCHANGED <<batch_active, generation, async_queue, shutdown, my_gen, idx, processed, job,
                    aj, batchNo, runs, ajState>>
    BY <1>6 DEF CountDone
  <2> QED
    BY <2>2, <2>3, <2>4 DEF BatchKnown, Typed
<1>7. ASSUME NEW r \in Runners, SignalDone(r) PROVE Typed' /\ BatchKnown'
  <2>1. [pc EXCEPT ![r] = AfterLoop(r)] \in [Runners -> PcStates] /\ {"top", "await"} \subseteq PcStates
    BY <1>pc DEF AfterLoop, PcStates
  <2>2. pc' \in [Runners -> PcStates]
    BY <1>7, <2>1, WakeTyped DEF SignalDone
  <2> QED
    BY <1>7, <2>2 DEF SignalDone, poolVars, BatchKnown, Typed
<1>8. ASSUME NEW r \in Runners, SpuriousWakeup(r) PROVE Typed' /\ BatchKnown'
  <2>1. pc' \in [Runners -> PcStates]
    BY <1>8, <1>pc DEF SpuriousWakeup, PcStates
  <2> QED
    BY <1>8, <2>1 DEF SpuriousWakeup, poolVars, BatchKnown, Typed
<1>9. CASE SubmitFill
  <2>1. /\ batchNo + 1 \in Batches /\ BatchTotals[batchNo + 1] \in Nat
        /\ batchNo' = batchNo + 1 /\ batchNo' \in 0 .. Len(BatchTotals)
    BY <1>9, <1>b, BatchNumbers DEF SubmitFill
  <2>2. batch_data' = [batch_data EXCEPT !.batch = batchNo + 1, !.total = BatchTotals[batchNo + 1]]
    BY <1>9 DEF SubmitFill
  <2>3. batch_data' \in BatchStates /\ BatchKnown'
    <3>1. batchNo + 1 \in Nat /\ batchNo + 1 # 0
      BY <1>b
    <3>2. /\ batch_data' \in BatchStates /\ batch_data'.batch = batchNo + 1
          /\ batch_data'.total = BatchTotals[batchNo + 1]
      BY <1>b, <2>1, <2>2, <3>1 DEF BatchStates
    <3> QED
      BY <2>1, <3>1, <3>2 DEF BatchKnown
  <2>4. pc' \in [Runners -> PcStates]
    BY <1>9, <1>pc DEF SubmitFill, PcStates
  <2>5. UNCHANGED <<batch_active, generation, async_queue, shutdown, my_gen, idx,
                    processed, job, aj, runs, ajState>>
    BY <1>9 DEF SubmitFill
  <2> QED
    BY <2>1, <2>3, <2>4, <2>5 DEF Typed
<1>10. CASE SubmitResetNext \/ SubmitResetDone
  <2>1. /\ batch_data' \in BatchStates /\ batch_data'.batch = batch_data.batch
        /\ batch_data'.total = batch_data.total
    <3>1. \/ batch_data' = [batch_data EXCEPT !.next = 0]
          \/ batch_data' = [batch_data EXCEPT !.done = 0]
      BY <1>10 DEF SubmitResetNext, SubmitResetDone
    <3> QED
      BY <1>b, <3>1 DEF BatchStates
  <2>2. pc' \in [Runners -> PcStates]
    BY <1>10, <1>pc DEF SubmitResetNext, SubmitResetDone, PcStates
  <2>3. UNCHANGED <<batch_active, generation, async_queue, shutdown, my_gen, idx,
                    processed, job, aj, batchNo, runs, ajState>>
    BY <1>10 DEF SubmitResetNext, SubmitResetDone
  <2> QED
    BY <2>1, <2>2, <2>3 DEF BatchKnown, Typed
<1>p. ASSUME NEW p \in [Runners -> PcStates], pc' = WakeWorkers(p)
      PROVE  pc' \in [Runners -> PcStates]
  BY <1>p, WakeTyped DEF PcStates
<1>11. CASE SubmitPublish
  <2>1. [pc EXCEPT ![Submitter] = "claim"] \in [Runners -> PcStates]
    BY <1>pc DEF PcStates
  <2>2. pc' \in [Runners -> PcStates]
    BY <1>11, <2>1, <1>p DEF SubmitPublish
  <2>3. processed' \in [Runners -> Nat] /\ generation' \in Nat /\ batch_active' \in BOOLEAN
    <3>1. /\ processed' = [processed EXCEPT ![Submitter] = 0]
          /\ generation' = generation + 1 /\ batch_active' = TRUE
      BY <1>11 DEF SubmitPublish
    <3> QED
      BY <1>n, <1>r, <3>1, CounterUpdate
  <2>4. UNCHANGED <<batch_data, async_queue, shutdown, my_gen, idx, job, aj, batchNo, runs, ajState>>
    BY <1>11 DEF SubmitPublish
  <2> QED
    BY <2>2, <2>3, <2>4 DEF BatchKnown, Typed
<1>12. CASE SubmitAwait
  <2>1. pc' \in [Runners -> PcStates]
    BY <1>12, <1>pc DEF SubmitAwait, PcStates
  <2>2. batch_active' \in BOOLEAN
    BY <1>12 DEF SubmitAwait, Typed
  <2>3. UNCHANGED <<batch_data, generation, async_queue, shutdown, my_gen, idx,
                    processed, job, aj, batchNo, runs, ajState>>
    BY <1>12 DEF SubmitAwait
  <2> QED
    BY <2>1, <2>2, <2>3 DEF BatchKnown, Typed
<1>13. ASSUME NEW j \in AsyncJobs, SubmitAsync(j) PROVE Typed' /\ BatchKnown'
  <2>1. pc' \in [Runners -> PcStates]
    BY <1>13, <1>p, <1>pc DEF SubmitAsync
  <2>2. async_queue' \in Seq(AsyncJobs) /\ ajState' \in [AsyncJobs -> AjStates]
    BY <1>13, <1>a DEF SubmitAsync, AjStates
  <2>3. UNCHANGED <<batch_data, batch_active, generation, shutdown, my_gen, idx,
                    processed, job, aj, batchNo, runs>>
    BY <1>13 DEF SubmitAsync
  <2> QED
    BY <2>1, <2>2, <2>3 DEF BatchKnown, Typed
<1>14. ASSUME NEW j \in AsyncJobs, WaitAsyncAndFree(j) PROVE Typed' /\ BatchKnown'
  <2>1. ajState' \in [AsyncJobs -> AjStates]
    BY <1>14, <1>a DEF WaitAsyncAndFree, AjStates
  <2> QED
    BY <1>14, <2>1 DEF WaitAsyncAndFree, poolVars, runVars, BatchKnown, Typed
<1>15. CASE PoolDestroy
  <2>1. pc' \in [Runners -> PcStates]
    BY <1>15, <1>p, <1>pc DEF PoolDestroy
  <2> QED
    BY <1>15, <2>1 DEF PoolDestroy, BatchKnown, Typed
<1>16. CASE UNCHANGED vars
  BY <1>16 DEF vars, poolVars, runVars, BatchKnown, Typed
<1> QED
  BY <1>1, <1>2, <1>3, <1>4, <1>5, <1>6, <1>7, <1>8, <1>9, <1>10, <1>11, <1>12, <1>13, <1>14,
     <1>15, <1>16 DEF Next, WorkerStep, RunStep, SubmitStep, Terminated

(* The new pool has its types. *)
LEMMA InitTyped == Init => Typed /\ BatchKnown
<1> SUFFICES ASSUME Init PROVE Typed /\ BatchKnown
  OBVIOUS
<1>1. batch_data \in BatchStates /\ BatchKnown /\ batchNo \in 0 .. Len(BatchTotals)
  BY BatchNumbers DEF Init, BatchKnown, BatchStates
<1>2. pc \in [Runners -> PcStates]
  BY DEF Init, PcStates
<1>3. job \in [Runners -> JobValues] /\ runs \in [JobSlots -> Nat] /\ ajState \in [AsyncJobs -> AjStates]
  BY DEF Init, JobValues, AjStates
<1>4. idx \in [Runners -> Nat] /\ processed \in [Runners -> Nat] /\ my_gen \in [Workers -> Nat]
  BY DEF Init
<1>5. aj \in [Workers -> AsyncJobs \cup {"none"}] /\ async_queue \in Seq(AsyncJobs)
  BY DEF Init
<1>6. batch_active \in BOOLEAN /\ shutdown \in BOOLEAN /\ generation \in Nat
  BY DEF Init
<1> QED
  BY <1>1, <1>2, <1>3, <1>4, <1>5, <1>6 DEF Typed

(* Every field of the pool and every local of its threads keeps its type;   *)
(* in particular no thread ever takes a job that is not in a batch          *)
(* (compress_worker_run).                                                   *)
THEOREM TypeCorrect == Spec => []TypeOK
BY InitTyped, StepTyped, TypedIsTypeOK, PTL DEF Spec
-----------------------------------------------------------------------------
(* Async jobs.  A queued job is in the queue once, and a running job is     *)
(* with one worker: so nobody but that worker can set done.                 *)
Busy(w) == pc[w] \in {"runAsync", "endAsync"}

QueueSound ==
    /\ \A i, k \in 1 .. Len(async_queue) : i # k => async_queue[i] # async_queue[k]
    /\ \A i \in 1 .. Len(async_queue) : ajState[async_queue[i]] = "queued"

OwnersSound ==
    /\ \A w \in Workers : Busy(w) => aj[w] \in AsyncJobs /\ ajState[aj[w]] = "running"
    /\ \A v, w \in Workers : v # w /\ Busy(v) /\ Busy(w) => aj[v] # aj[w]

(* Waking threads neither starts nor stops an async job. *)
LEMMA WakeBusy ==
  ASSUME NEW p \in [Runners -> PcStates], NEW w \in Workers
  PROVE  /\ WakeWorkers(p)[w] = p[w] \/ (p[w] = "waitWork" /\ WakeWorkers(p)[w] = "top")
         /\ WakeSubmitter(p)[w] = p[w]
BY PoolAssumption DEF WakeWorkers, WakeSubmitter, Runners

(* A step that leaves the queue and the jobs alone keeps both. *)
LEMMA AsyncUntouched ==
  ASSUME QueueSound, OwnersSound, UNCHANGED <<async_queue, aj, ajState>>,
         \A w \in Workers : Busy(w)' => Busy(w)
  PROVE  QueueSound' /\ OwnersSound'
BY DEF QueueSound, OwnersSound

(* Every step keeps the ownership of async jobs. *)
LEMMA AsyncStep == Typed /\ QueueSound /\ OwnersSound /\ [Next]_vars => QueueSound' /\ OwnersSound'
<1> SUFFICES ASSUME Typed, QueueSound, OwnersSound, Next \/ UNCHANGED vars
             PROVE  QueueSound' /\ OwnersSound'
  OBVIOUS
<1>r. Submitter \in Runners /\ \A w \in Workers : w \in Runners /\ w # Submitter
  BY PoolAssumption DEF Runners
<1>t. /\ pc \in [Runners -> PcStates] /\ async_queue \in Seq(AsyncJobs)
      /\ aj \in [Workers -> AsyncJobs \cup {"none"}] /\ ajState \in [AsyncJobs -> AjStates]
  BY DEF Typed
<1>q. async_queue # <<>> => Tail(async_queue) # async_queue
  <2>1. async_queue # <<>> => Len(Tail(async_queue)) = Len(async_queue) - 1 /\ Len(async_queue) \in Nat
    BY <1>t
  <2> QED
    BY <2>1
<1>1. ASSUME NEW w \in Workers, WorkerTop(w), async_queue' # async_queue
      PROVE  QueueSound' /\ OwnersSound'
  <2>1. /\ pc[w] = "top" /\ async_queue # <<>> /\ async_queue' = Tail(async_queue)
        /\ aj' = [aj EXCEPT ![w] = Head(async_queue)]
        /\ ajState' = [ajState EXCEPT ![Head(async_queue)] = "running"]
        /\ pc' = [pc EXCEPT ![w] = "runAsync"]
    BY <1>1 DEF WorkerTop
  <2> DEFINE j == Head(async_queue)
  <2>2. /\ Len(async_queue) \in Nat \ {0} /\ j = async_queue[1] /\ j \in AsyncJobs
        /\ Len(async_queue') = Len(async_queue) - 1
        /\ \A i \in 1 .. Len(async_queue') : async_queue'[i] = async_queue[i + 1]
        /\ \A i \in 1 .. Len(async_queue) : async_queue[i] \in AsyncJobs
    BY <1>t, <2>1
  <2>3. ajState[j] = "queued"
    BY <2>2 DEF QueueSound
  <2>4. ajState'[j] = "running" /\ \A k \in AsyncJobs : k # j => ajState'[k] = ajState[k]
    BY <1>t, <2>1, <2>2
  <2> HIDE DEF j
  <2>5. \A i \in 1 .. Len(async_queue') : i + 1 \in 1 .. Len(async_queue) /\ i + 1 # 1
    BY <2>2
  <2>6. 1 \in 1 .. Len(async_queue)
    BY <2>2
  <2>7. QueueSound'
    <3>1. \A i \in 1 .. Len(async_queue') : async_queue'[i] # j /\ async_queue'[i] \in AsyncJobs
      BY <2>2, <2>5, <2>6 DEF QueueSound
    <3>2. \A i \in 1 .. Len(async_queue') : ajState[async_queue'[i]] = "queued"
      BY <2>2, <2>5 DEF QueueSound
    <3>3. \A i, k \in 1 .. Len(async_queue') : i # k => i + 1 # k + 1
      BY <2>2
    <3>4. \A i, k \in 1 .. Len(async_queue') : i # k => async_queue'[i] # async_queue'[k]
      BY <2>2, <2>5, <3>3 DEF QueueSound
    <3> QED
      BY <2>4, <3>1, <3>2, <3>4 DEF QueueSound
  <2>8. OwnersSound'
    <3>1. /\ aj'[w] = j /\ \A v \in Workers : v # w => aj'[v] = aj[v]
          /\ \A v \in Workers : v # w => pc'[v] = pc[v]
      BY <1>r, <1>t, <2>1 DEF j
    <3>2. \A v \in Workers : v # w /\ Busy(v)' => Busy(v) /\ aj[v] # j
      BY <2>3, <3>1 DEF Busy, OwnersSound
    <3> QED
      BY <2>2, <2>4, <3>1, <3>2 DEF OwnersSound
  <2> QED
    BY <2>7, <2>8
<1>2. ASSUME NEW w \in Workers, WorkerTop(w), async_queue' = async_queue
      PROVE  QueueSound' /\ OwnersSound'
  <2>1. UNCHANGED <<async_queue, aj, ajState>>
    BY <1>2, <1>q DEF WorkerTop
  <2>2. \A v \in Workers : Busy(v)' => Busy(v)
    <3>1. pc' \in {[pc EXCEPT ![w] = "waitWork"], [pc EXCEPT ![w] = "exited"],
                   [pc EXCEPT ![w] = "claim"], [pc EXCEPT ![w] = "top"]}
      BY <1>2, <1>q DEF WorkerTop
    <3> QED
      BY <1>r, <1>t, <3>1 DEF Busy
  <2> QED
    BY <2>1, <2>2, AsyncUntouched
<1>3. ASSUME NEW w \in Workers, WorkerRunAsync(w) PROVE QueueSound' /\ OwnersSound'
  <2>1. UNCHANGED <<async_queue, aj, ajState>> /\ \A v \in Workers : Busy(v)' => Busy(v)
    BY <1>3, <1>r, <1>t DEF WorkerRunAsync, poolVars, Busy
  <2> QED
    BY <2>1, AsyncUntouched
<1>4. ASSUME NEW w \in Workers, WorkerEndAsync(w) PROVE QueueSound' /\ OwnersSound'
  <2>1. /\ Busy(w) /\ ajState' = [ajState EXCEPT ![aj[w]] = "done"]
        /\ aj' = [aj EXCEPT ![w] = "none"] /\ pc' = [pc EXCEPT ![w] = "top"]
        /\ async_queue' = async_queue
    BY <1>4 DEF WorkerEndAsync, poolVars, Busy
  <2>2. aj[w] \in AsyncJobs /\ ajState[aj[w]] = "running"
    BY <2>1 DEF OwnersSound
  <2>3. \A k \in AsyncJobs : k # aj[w] => ajState'[k] = ajState[k]
    BY <1>t, <2>1
  <2>4. \A i \in 1 .. Len(async_queue) : async_queue[i] \in AsyncJobs
    BY <1>t
  <2>5. QueueSound'
    BY <2>1, <2>2, <2>3, <2>4 DEF QueueSound
  <2>6. /\ ~Busy(w)' /\ \A v \in Workers : v # w => (Busy(v)' <=> Busy(v)) /\ aj'[v] = aj[v]
    BY <1>r, <1>t, <2>1 DEF Busy
  <2>7. OwnersSound'
    BY <2>1, <2>3, <2>6 DEF OwnersSound
  <2> QED
    BY <2>5, <2>7
<1>5. ASSUME NEW r \in Runners, RunStep(r) \/ SpuriousWakeup(r) PROVE QueueSound' /\ OwnersSound'
  <2>1. UNCHANGED <<async_queue, aj, ajState>>
    BY <1>5 DEF RunStep, ClaimJob, TestClaim, CompressJob, CountDone, SignalDone, SpuriousWakeup,
                poolVars
  <2>2. \A v \in Workers : Busy(v)' => Busy(v)
    <3> TAKE v \in Workers
    <3>1. CASE SignalDone(r)
      <4>1. [pc EXCEPT ![r] = AfterLoop(r)] \in [Runners -> PcStates]
        BY <1>t DEF AfterLoop, PcStates
      <4>2. pc'[v] = [pc EXCEPT ![r] = AfterLoop(r)][v]
        BY <3>1, <4>1, WakeBusy DEF SignalDone
      <4> QED
        BY <1>r, <1>t, <4>2 DEF Busy, AfterLoop
    <3>2. CASE ClaimJob(r) \/ CompressJob(r) \/ SpuriousWakeup(r)
      BY <1>r, <1>t, <3>2 DEF Busy, ClaimJob, CompressJob, SpuriousWakeup
    <3>3. CASE TestClaim(r)
      BY <1>r, <1>t, <3>3 DEF Busy, TestClaim
    <3>4. CASE CountDone(r)
      BY <1>r, <1>t, <3>4 DEF Busy, CountDone, AfterLoop
    <3> QED
      BY <1>5, <3>1, <3>2, <3>3, <3>4 DEF RunStep
  <2> QED
    BY <2>1, <2>2, AsyncUntouched
<1>w. ASSUME NEW p \in [Runners -> PcStates], pc' = WakeWorkers(p),
             \A v \in Workers : p[v] = pc[v]
      PROVE  \A v \in Workers : Busy(v)' <=> Busy(v)
  BY <1>w, WakeBusy DEF Busy
<1>6. CASE SubmitStep
  <2>1. UNCHANGED <<async_queue, aj, ajState>>
    BY <1>6 DEF SubmitStep, SubmitFill, SubmitResetNext, SubmitResetDone, SubmitPublish, SubmitAwait
  <2>2. \A v \in Workers : Busy(v)' => Busy(v)
    <3>1. CASE SubmitPublish
      <4>1. /\ [pc EXCEPT ![Submitter] = "claim"] \in [Runners -> PcStates]
            /\ \A v \in Workers : [pc EXCEPT ![Submitter] = "claim"][v] = pc[v]
        BY <1>r, <1>t DEF PcStates
      <4> QED
        BY <1>w, <3>1, <4>1 DEF SubmitPublish
    <3>2. CASE SubmitFill \/ SubmitResetNext \/ SubmitResetDone \/ SubmitAwait
      BY <1>r, <1>t, <3>2 DEF Busy, SubmitFill, SubmitResetNext, SubmitResetDone, SubmitAwait
    <3> QED
      BY <1>6, <3>1, <3>2 DEF SubmitStep
  <2> QED
    BY <2>1, <2>2, AsyncUntouched
<1>7. ASSUME NEW j \in AsyncJobs, SubmitAsync(j) PROVE QueueSound' /\ OwnersSound'
  <2>1. /\ ajState[j] = "new" /\ ajState' = [ajState EXCEPT ![j] = "queued"]
        /\ async_queue' = Append(async_queue, j) /\ pc' = WakeWorkers(pc) /\ aj' = aj
    BY <1>7 DEF SubmitAsync
  <2>2. ajState'[j] = "queued" /\ \A k \in AsyncJobs : k # j => ajState'[k] = ajState[k]
    BY <1>t, <2>1
  <2>3. /\ Len(async_queue) \in Nat /\ Len(async_queue') = Len(async_queue) + 1
        /\ async_queue'[Len(async_queue) + 1] = j
        /\ \A i \in 1 .. Len(async_queue) : /\ async_queue'[i] = async_queue[i]
                                            /\ async_queue[i] \in AsyncJobs
    BY <1>t, <2>1
  <2>4. \A i \in 1 .. Len(async_queue) : async_queue'[i] # j
    BY <2>1, <2>3 DEF QueueSound
  <2>5. \A i \in 1 .. Len(async_queue') : i \in 1 .. Len(async_queue) \/ i = Len(async_queue) + 1
    BY <2>3
  <2>6. QueueSound'
    BY <2>2, <2>3, <2>4, <2>5 DEF QueueSound
  <2>7. \A v \in Workers : Busy(v)' <=> Busy(v)
    BY <1>t, <1>w, <2>1
  <2>8. OwnersSound'
    BY <2>1, <2>2, <2>7 DEF OwnersSound
  <2> QED
    BY <2>6, <2>8
<1>8. ASSUME NEW j \in AsyncJobs, WaitAsyncAndFree(j) PROVE QueueSound' /\ OwnersSound'
  <2>1. /\ ajState[j] = "done" /\ UNCHANGED <<async_queue, aj, pc>>
        /\ \A k \in AsyncJobs : k # j => ajState'[k] = ajState[k]
    BY <1>8, <1>t DEF WaitAsyncAndFree, poolVars, runVars
  <2>2. \A i \in 1 .. Len(async_queue) : async_queue[i] \in AsyncJobs
    BY <1>t
  <2> QED
    BY <2>1, <2>2 DEF QueueSound, OwnersSound, Busy
<1>9. CASE PoolDestroy
  <2>1. UNCHANGED <<async_queue, aj, ajState>> /\ \A v \in Workers : Busy(v)' <=> Busy(v)
    BY <1>9, <1>t, <1>w DEF PoolDestroy
  <2> QED
    BY <2>1, AsyncUntouched
<1>10. CASE UNCHANGED vars
  <2>1. UNCHANGED <<async_queue, aj, ajState>> /\ \A v \in Workers : Busy(v)' <=> Busy(v)
    BY <1>10 DEF vars, poolVars, runVars, Busy
  <2> QED
    BY <2>1, AsyncUntouched
<1> QED
  BY <1>1, <1>2, <1>3, <1>4, <1>5, <1>6, <1>7, <1>8, <1>9, <1>10 DEF Next, WorkerStep, Terminated

(* A worker that holds an async job holds live memory, however many workers *)
(* and jobs there are and whatever order they are queued, run and waited    *)
(* for in (pool_worker_main, obmafs3_pool_wait_async).                      *)
THEOREM AsyncJobsAlive == Spec => []NoUseOfFreedJob
<1>1. Init => QueueSound /\ OwnersSound
  <2> SUFFICES ASSUME Init PROVE QueueSound /\ OwnersSound
    OBVIOUS
  <2>1. async_queue = <<>> /\ \A w \in Workers : pc[w] \in {"idle", "top"}
    BY DEF Init, Runners
  <2> QED
    BY <2>1 DEF QueueSound, OwnersSound, Busy
<1>2. OwnersSound => NoUseOfFreedJob
  BY DEF OwnersSound, NoUseOfFreedJob, Busy
<1> QED
  BY <1>1, <1>2, InitTyped, StepTyped, AsyncStep, PTL DEF Spec
-----------------------------------------------------------------------------
(* Batches.  A job of the batch is unclaimed, claimed by a thread that has  *)
(* not looked at it yet ("test"), on the account of one thread, or counted. *)
(* The accounts P of the threads and the counted jobs C are not in the      *)
(* state: only their sizes are, in processed and batch_data.done.           *)
Loop    == {"claim", "test", "compress", "count"}
Filling == {"resetNext", "resetDone", "publish"}
Jobs    == 0 .. batch_data.total - 1

(* Accounts are disjoint and have the size the threads keep. *)
AccountsSound(P, C) ==
    /\ P \in [Runners -> SUBSET Jobs] /\ C \in SUBSET Jobs
    /\ \A r, s \in Runners : r # s => P[r] \cap P[s] = {}
    /\ \A r \in Runners : P[r] \cap C = {}
    /\ \A r \in Runners : IF pc[r] \in Loop THEN Cardinality(P[r]) = processed[r] ELSE P[r] = {}
    /\ pc[Submitter] \notin {"resetNext", "resetDone"} => Cardinality(C) = batch_data.done

(* Jobs on an account were handed out, and a job that is claimed and not    *)
(* yet looked at is on nobody's.                                            *)
ClaimsSound(P, C) ==
    /\ \A i \in C : i < batch_data.next
    /\ \A r \in Runners : \A i \in P[r] : i < batch_data.next
    /\ \A r \in Runners : pc[r] = "test" =>
          /\ idx[r] < batch_data.next /\ idx[r] \notin C
          /\ \A s \in Runners : idx[r] \notin P[s]
          /\ \A s \in Runners : s # r /\ pc[s] = "test" => idx[s] # idx[r]
    /\ \A r \in Runners : pc[r] = "compress" =>
          idx[r] \in P[r] /\ job[r] = [batch |-> batchNo, index |-> idx[r]]

(* The jobs on accounts have run, but for the ones being compressed. *)
Compressed(P, C, i) ==
    i \in C \/ \E r \in Runners : i \in P[r] /\ ~(pc[r] = "compress" /\ idx[r] = i)

RunsSound(P, C) ==
    \A b \in Batches : \A i \in 0 .. BatchTotals[b] - 1 :
        runs[[batch |-> b, index |-> i]] =
            CASE b < batchNo -> 1
              [] b > batchNo -> 0
              [] b = batchNo -> IF Compressed(P, C, i) THEN 1 ELSE 0

(* Where the submitter is: between batches everything is counted, and while *)
(* it fills in the next batch nobody works on it.                           *)
SubmitterSound(P, C) ==
    /\ pc[Submitter] \notin {"top", "waitWork", "exited", "runAsync", "endAsync"}
    /\ \A w \in Workers : pc[w] \notin Filling \cup {"idle", "await", "waitDone"}
    /\ batch_active <=> pc[Submitter] \notin Filling \cup {"idle"}
    /\ pc[Submitter] = "idle" => C = Jobs
    /\ pc[Submitter] \in Filling =>
          C = {} /\ \A r \in Runners : P[r] = {} /\ pc[r] \notin {"claim", "test"}
    /\ pc[Submitter] \in {"resetDone", "publish"} => batch_data.next = 0

Ledger(P, C) ==
    AccountsSound(P, C) /\ ClaimsSound(P, C) /\ RunsSound(P, C) /\ SubmitterSound(P, C)

BatchSound == \E P \in [Runners -> SUBSET Jobs], C \in SUBSET Jobs : Ledger(P, C)

(* No worker is in the claim loop of the previous batch. *)
NoStragglers == \A w \in Workers : pc[w] \notin {"claim", "test"}

(* The pool when a batch is filled in only then. *)
QuietNext == Next /\ (SubmitFill => NoStragglers)
QuietSpec == Init /\ [][QuietNext]_vars

(* A step outside the claim loop that leaves the batch alone keeps the      *)
(* accounts.                                                                *)
LEMMA OutsideLoop ==
  ASSUME Typed, BatchKnown, NEW P, NEW C, Ledger(P, C),
         UNCHANGED <<batch_data, batch_active, runs, batchNo>>,
         \A r \in Runners : pc[r] \in Loop \/ pc'[r] \in Loop =>
             /\ pc'[r] = pc[r] /\ idx'[r] = idx[r] /\ processed'[r] = processed[r]
             /\ job'[r] = job[r],
         \/ pc'[Submitter] = pc[Submitter]
         \/ {pc[Submitter], pc'[Submitter]} \subseteq {"await", "waitDone", "signal"},
         \A w \in Workers : pc'[w] \notin Filling \cup {"idle", "await", "waitDone"}
  PROVE  Ledger(P, C)'
<1>j. Jobs' = Jobs
  BY DEF Jobs
<1>1. AccountsSound(P, C)'
  BY <1>j DEF Ledger, AccountsSound
<1>2. ClaimsSound(P, C)'
  BY DEF Ledger, ClaimsSound, Loop
<1>3. RunsSound(P, C)'
  <2>1. \A i : Compressed(P, C, i)' <=> Compressed(P, C, i)
    BY DEF Compressed, Loop
  <2> QED
    BY <2>1 DEF Ledger, RunsSound
<1>4. SubmitterSound(P, C)'
  BY <1>j DEF Ledger, SubmitterSound, Loop, Filling
<1> QED
  BY <1>1, <1>2, <1>3, <1>4 DEF Ledger

(* The jobs of the batch are finitely many, as many as its total. *)
LEMMA JobsFinite ==
  ASSUME Typed
  PROVE  /\ IsFiniteSet(Jobs) /\ Cardinality(Jobs) = batch_data.total
         /\ \A S \in SUBSET Jobs : IsFiniteSet(S) /\ Cardinality(S) \in Nat
<1>1. batch_data.total \in Nat
  BY DEF Typed, BatchStates
<1>2. IsFiniteSet(Jobs) /\ Cardinality(Jobs) = batch_data.total
  <2>1. 0 \in Int /\ batch_data.total - 1 \in Int
    BY <1>1
  <2>2. /\ IsFiniteSet(0 .. batch_data.total - 1)
        /\ Cardinality(0 .. batch_data.total - 1) = IF 0 > batch_data.total - 1 THEN 0
                                                    ELSE batch_data.total - 1 - 0 + 1
    BY <2>1, FS_Interval
  <2> QED
    BY <1>1, <2>2 DEF Jobs
<1> QED
  BY <1>2, FS_Subset, FS_CardinalityType

(* A claim hands out an index nobody has. *)
LEMMA ClaimKeeps ==
  ASSUME Typed, BatchKnown, NEW P, NEW C, Ledger(P, C), NEW r \in Runners, ClaimJob(r)
  PROVE  Ledger(P, C)'
<1>b. /\ batch_data.next \in Nat /\ batch_data'.next = batch_data.next + 1
      /\ batch_data'.total = batch_data.total /\ batch_data'.done = batch_data.done
      /\ UNCHANGED <<batch_active, processed, job, runs, batchNo>> /\ pc[r] = "claim"
  BY DEF ClaimJob, NextClaim, Typed, BatchStates
<1>p. /\ pc'[r] = "test" /\ idx'[r] = batch_data.next
      /\ \A s \in Runners : s # r => pc'[s] = pc[s] /\ idx'[s] = idx[s]
  BY DEF ClaimJob, Typed
<1>j. Jobs' = Jobs /\ Submitter \in Runners /\ \A w \in Workers : w \in Runners
  BY <1>b DEF Jobs, Runners
<1>n. /\ \A i \in Jobs : i \in Nat /\ (i < batch_data.next => i < batch_data'.next)
      /\ \A s \in Runners : idx[s] \in Nat /\ (idx[s] < batch_data.next => idx[s] < batch_data'.next)
  BY <1>b DEF Jobs, Typed, BatchStates
<1>1. AccountsSound(P, C)'
  BY <1>b, <1>p, <1>j DEF Ledger, AccountsSound, Loop
<1>2. ClaimsSound(P, C)'
  <2>0. /\ C \subseteq Jobs /\ \A s \in Runners : P[s] \subseteq Jobs
    BY DEF Ledger, AccountsSound
  <2>1. /\ \A i \in C : i < batch_data'.next
        /\ \A s \in Runners : \A i \in P[s] : i < batch_data'.next
    BY <1>n, <2>0 DEF Ledger, ClaimsSound
  <2>2. /\ batch_data.next < batch_data'.next /\ batch_data.next \notin C
        /\ \A s \in Runners : batch_data.next \notin P[s]
        /\ \A s \in Runners : pc[s] = "test" => idx[s] # batch_data.next
    BY <1>b, <1>n DEF Ledger, ClaimsSound
  <2> QED
    BY <1>b, <1>p, <1>n, <2>1, <2>2 DEF Ledger, ClaimsSound
<1>3. RunsSound(P, C)'
  <2>1. \A i : Compressed(P, C, i)' <=> Compressed(P, C, i)
    BY <1>b, <1>p DEF Compressed
  <2> QED
    BY <1>b, <2>1 DEF Ledger, RunsSound
<1>4. SubmitterSound(P, C)'
  <2>1. pc[Submitter] \notin Filling
    BY <1>b DEF Ledger, SubmitterSound
  <2>2. pc'[Submitter] = pc[Submitter] \/ (pc[Submitter] = "claim" /\ pc'[Submitter] = "test")
    BY <1>b, <1>p, <1>j
  <2> QED
    BY <1>b, <1>p, <1>j, <2>1, <2>2 DEF Ledger, SubmitterSound, Filling
<1> QED
  BY <1>1, <1>2, <1>3, <1>4 DEF Ledger

(* A claim below the total goes on the thread's account. *)
LEMMA TestKeeps ==
  ASSUME Typed, BatchKnown, NEW P, NEW C, Ledger(P, C), NEW r \in Runners, TestClaim(r)
  PROVE  \E Q \in [Runners -> SUBSET Jobs] : Ledger(Q, C)'
<1>b. UNCHANGED <<batch_data, batch_active, idx, runs, batchNo>> /\ pc[r] = "test"
  BY DEF TestClaim, poolVars
<1>j. Jobs' = Jobs /\ Submitter \in Runners /\ \A w \in Workers : w \in Runners
  BY <1>b DEF Jobs, Runners
<1>t. /\ pc \in [Runners -> PcStates] /\ processed \in [Runners -> Nat] /\ idx \in [Runners -> Nat]
      /\ job \in [Runners -> JobValues] /\ batch_data.total \in Nat
  BY DEF Typed, BatchStates
<1>f. pc[Submitter] \notin Filling
  BY <1>b DEF Ledger, SubmitterSound
<1>a. P \in [Runners -> SUBSET Jobs] /\ C \in SUBSET Jobs
  BY DEF Ledger, AccountsSound
<1>1. CASE JobRemains(idx[r])
  <2>i. PICK i \in Nat : i = idx[r]
    BY <1>t
  <2>1. /\ pc' = [pc EXCEPT ![r] = "compress"]
        /\ processed' = [processed EXCEPT ![r] = processed[r] + 1]
        /\ job' = [job EXCEPT ![r] = [batch |-> batch_data.batch, index |-> i]]
    BY <1>1, <2>i DEF TestClaim
  <2>2. i \in Jobs /\ i < batch_data.next /\ i \notin C /\ \A s \in Runners : i \notin P[s]
    BY <1>1, <1>b, <1>t, <2>i DEF Jobs, JobRemains, Ledger, ClaimsSound
  <2>3. /\ pc'[r] = "compress" /\ processed'[r] = processed[r] + 1
        /\ job'[r] = [batch |-> batchNo, index |-> i]
        /\ \A s \in Runners : s # r => pc'[s] = pc[s] /\ processed'[s] = processed[s] /\ job'[s] = job[s]
    BY <1>t, <2>1 DEF BatchKnown
  <2>4. PICK Q \in [Runners -> SUBSET Jobs] : /\ Q[r] = P[r] \cup {i}
                                              /\ \A s \in Runners : s # r => Q[s] = P[s]
    <3>1. [P EXCEPT ![r] = P[r] \cup {i}] \in [Runners -> SUBSET Jobs]
      BY <1>a, <2>2
    <3> QED
      BY <1>a, <3>1
  <2>5. Cardinality(Q[r]) = processed[r] + 1
    <3>1. IsFiniteSet(P[r]) /\ Cardinality(P[r]) = processed[r]
      BY <1>a, <1>b, JobsFinite DEF Ledger, AccountsSound, Loop
    <3>2. Cardinality(P[r] \cup {i}) = IF i \in P[r] THEN Cardinality(P[r]) ELSE Cardinality(P[r]) + 1
      BY <3>1, FS_AddElement
    <3> QED
      BY <2>2, <2>4, <3>1, <3>2
  <2>6. AccountsSound(Q, C)'
    <3>0. /\ \A s, u \in Runners : s # u => P[s] \cap P[u] = {}
          /\ \A s \in Runners : i \notin P[s]
      BY <2>2 DEF Ledger, AccountsSound
    <3>1. \A s, u \in Runners : s # u => Q[s] \cap Q[u] = {}
      BY <2>4, <3>0
    <3>2. \A s \in Runners : Q[s] \cap C = {}
      BY <2>2, <2>4 DEF Ledger, AccountsSound
    <3>3. \A s \in Runners : IF pc'[s] \in Loop THEN Cardinality(Q[s]) = processed'[s] ELSE Q[s] = {}
      BY <2>3, <2>4, <2>5 DEF Ledger, AccountsSound, Loop
    <3>4. pc'[Submitter] \notin {"resetNext", "resetDone"} => Cardinality(C) = batch_data'.done
      BY <1>b, <1>f, <1>j, <2>3 DEF Ledger, AccountsSound, Filling
    <3> QED
      BY <1>a, <1>j, <2>4, <3>1, <3>2, <3>3, <3>4 DEF AccountsSound
  <2>7. ClaimsSound(Q, C)'
    <3>1. \A s \in Runners : \A k \in Q[s] : k < batch_data.next
      BY <2>2, <2>4 DEF Ledger, ClaimsSound
    <3>2. \A s \in Runners : pc'[s] = "test" => s # r /\ pc[s] = "test" /\ idx[s] # i
      BY <1>b, <2>3, <2>i DEF Ledger, ClaimsSound
    <3>3. \A s \in Runners : pc'[s] = "compress" /\ s # r => pc[s] = "compress" /\ job'[s] = job[s]
      BY <2>3
    <3> QED
      BY <1>b, <2>2, <2>3, <2>4, <2>i, <3>1, <3>2, <3>3 DEF Ledger, ClaimsSound
  <2>8. RunsSound(Q, C)'
    <3>1. \A k : Compressed(Q, C, k)' <=> Compressed(P, C, k)
      BY <1>b, <2>2, <2>3, <2>4, <2>i DEF Compressed
    <3> QED
      BY <1>b, <3>1 DEF Ledger, RunsSound
  <2>9. SubmitterSound(Q, C)'
    <3>1. \/ pc'[Submitter] = pc[Submitter]
          \/ pc[Submitter] = "test" /\ pc'[Submitter] = "compress"
      BY <1>b, <1>j, <2>3
    <3>2. \A w \in Workers : pc'[w] = pc[w] \/ pc'[w] = "compress"
      BY <1>j, <2>3
    <3> QED
      BY <1>b, <1>j, <1>f, <3>1, <3>2 DEF Ledger, SubmitterSound, Filling
  <2> QED
    BY <2>4, <2>6, <2>7, <2>8, <2>9 DEF Ledger
<1>2. CASE ~JobRemains(idx[r])
  <2>1. /\ pc'[r] = "count" /\ UNCHANGED <<job, processed>>
        /\ \A s \in Runners : s # r => pc'[s] = pc[s]
    BY <1>2, <1>t DEF TestClaim
  <2>2. AccountsSound(P, C)'
    BY <1>b, <1>f, <1>j, <2>1 DEF Ledger, AccountsSound, Loop, Filling
  <2>3. ClaimsSound(P, C)'
    BY <1>b, <2>1 DEF Ledger, ClaimsSound
  <2>4. RunsSound(P, C)'
    <3>1. \A k : Compressed(P, C, k)' <=> Compressed(P, C, k)
      BY <1>b, <2>1 DEF Compressed
    <3> QED
      BY <1>b, <3>1 DEF Ledger, RunsSound
  <2>5. SubmitterSound(P, C)'
    <3>1. \/ pc'[Submitter] = pc[Submitter]
          \/ pc[Submitter] = "test" /\ pc'[Submitter] = "count"
      BY <1>b, <1>j, <2>1
    <3>2. \A w \in Workers : pc'[w] = pc[w] \/ pc'[w] = "count"
      BY <1>j, <2>1
    <3> QED
      BY <1>b, <1>j, <1>f, <3>1, <3>2 DEF Ledger, SubmitterSound, Filling
  <2> QED
    BY <1>a, <2>2, <2>3, <2>4, <2>5 DEF Ledger
<1> QED
  BY <1>1, <1>2

(* The thread that claimed a job runs it, and it is the only one. *)
LEMMA CompressKeeps ==
  ASSUME Typed, BatchKnown, NEW P, NEW C, Ledger(P, C), NEW r \in Runners, CompressJob(r)
  PROVE  Ledger(P, C)'
<1>b. UNCHANGED <<batch_data, batch_active, idx, processed, batchNo>> /\ pc[r] = "compress"
  BY DEF CompressJob, poolVars
<1>j. Jobs' = Jobs /\ Submitter \in Runners /\ \A w \in Workers : w \in Runners
  BY <1>b DEF Jobs, Runners
<1>t. /\ pc \in [Runners -> PcStates] /\ runs \in [JobSlots -> Nat]
      /\ job \in [Runners -> JobValues] /\ batch_data.total \in Nat /\ batchNo \in 0 .. Len(BatchTotals)
  BY DEF Typed, BatchStates
<1>1. /\ pc'[r] = "claim" /\ \A s \in Runners : s # r => pc'[s] = pc[s] /\ job'[s] = job[s]
  BY <1>t DEF CompressJob
<1>2. idx[r] \in P[r] /\ idx[r] \in Jobs /\ job[r] = [batch |-> batchNo, index |-> idx[r]]
  BY <1>b DEF Ledger, ClaimsSound, AccountsSound
<1>f. pc[Submitter] \notin Filling
  BY <1>2 DEF Ledger, SubmitterSound
<1>3. batchNo \in Batches /\ Jobs = 0 .. BatchTotals[batchNo] - 1
  BY <1>2, <1>t, BatchNumbers DEF BatchKnown, Jobs
<1>4. AccountsSound(P, C)'
  BY <1>b, <1>f, <1>j, <1>1 DEF Ledger, AccountsSound, Loop, Filling
<1>5. ClaimsSound(P, C)'
  BY <1>b, <1>1 DEF Ledger, ClaimsSound
<1>6. RunsSound(P, C)'
  <2>1. /\ idx[r] \notin C
        /\ \A s \in Runners : s # r => idx[r] \notin P[s]
    BY <1>2 DEF Ledger, AccountsSound
  <2>2. \A i : i # idx[r] => (Compressed(P, C, i)' <=> Compressed(P, C, i))
    BY <1>b, <1>1 DEF Compressed
  <2>3. \A i : i = idx[r] => Compressed(P, C, i)' /\ ~Compressed(P, C, i)
    BY <1>b, <1>1, <1>2, <2>1 DEF Compressed
  <2>4. \A s \in JobSlots : runs'[s] = IF s = job[r] THEN runs[s] + 1 ELSE runs[s]
    BY <1>t DEF CompressJob
  <2> SUFFICES ASSUME NEW b \in Batches, NEW i \in 0 .. BatchTotals[b] - 1
               PROVE  runs'[[batch |-> b, index |-> i]] =
                         CASE b < batchNo -> 1
                           [] b > batchNo -> 0
                           [] b = batchNo -> IF Compressed(P, C, i)' THEN 1 ELSE 0
    BY <1>b DEF RunsSound
  <2>5. /\ [batch |-> b, index |-> i] \in JobSlots
        /\ runs[[batch |-> b, index |-> i]] =
              CASE b < batchNo -> 1
                [] b > batchNo -> 0
                [] b = batchNo -> IF Compressed(P, C, i) THEN 1 ELSE 0
    BY SlotsKnown DEF Ledger, RunsSound
  <2>6. CASE b = batchNo /\ i = idx[r]
    <3>1. [batch |-> b, index |-> i] = job[r] /\ ~(b < batchNo) /\ ~(b > batchNo)
      BY <1>2, <1>t, <2>6
    <3>2. runs[[batch |-> b, index |-> i]] = 0
      BY <2>3, <2>5, <2>6, <3>1
    <3>3. runs'[[batch |-> b, index |-> i]] = 1
      BY <2>4, <2>5, <3>1, <3>2
    <3> QED
      BY <2>3, <2>6, <3>1, <3>3
  <2>7. CASE ~(b = batchNo /\ i = idx[r])
    <3>1. [batch |-> b, index |-> i] # job[r]
      BY <1>2, <2>7
    <3>2. runs'[[batch |-> b, index |-> i]] = runs[[batch |-> b, index |-> i]]
      BY <2>4, <2>5, <3>1
    <3>3. b = batchNo => (Compressed(P, C, i)' <=> Compressed(P, C, i))
      BY <2>2, <2>7
    <3>4. b \in Nat /\ batchNo \in Nat
      BY <1>t, BatchNumbers
    <3>5. CASE b = batchNo
      BY <2>5, <3>2, <3>3, <3>4, <3>5
    <3>6. CASE b < batchNo \/ b > batchNo
      BY <2>5, <3>2, <3>4, <3>6
    <3> QED
      BY <3>4, <3>5, <3>6
  <2> QED
    BY <2>6, <2>7
<1>7. SubmitterSound(P, C)'
  <2>1. \/ pc'[Submitter] = pc[Submitter]
        \/ pc[Submitter] = "compress" /\ pc'[Submitter] = "claim"
    BY <1>b, <1>j, <1>1
  <2>2. \A w \in Workers : pc'[w] = pc[w] \/ pc'[w] = "claim"
    BY <1>j, <1>1
  <2> QED
    BY <1>b, <1>j, <1>f, <2>1, <2>2 DEF Ledger, SubmitterSound, Filling
<1> QED
  BY <1>4, <1>5, <1>6, <1>7 DEF Ledger

(* Leaving the loop moves the account to the counted jobs. *)
LEMMA CountKeeps ==
  ASSUME Typed, BatchKnown, NEW P, NEW C, Ledger(P, C), NEW r \in Runners, CountDone(r)
  PROVE  \E Q \in [Runners -> SUBSET Jobs], D \in SUBSET Jobs : Ledger(Q, D)'
<1>b. /\ UNCHANGED <<batch_active, idx, processed, job, runs, batchNo>> /\ pc[r] = "count"
      /\ batch_data'.next = batch_data.next /\ batch_data'.total = batch_data.total
      /\ batch_data'.done = batch_data.done + processed[r]
  BY DEF CountDone, Typed, BatchStates
<1>j. Jobs' = Jobs /\ Submitter \in Runners /\ \A w \in Workers : w \in Runners
  BY <1>b DEF Jobs, Runners
<1>t. pc \in [Runners -> PcStates] /\ processed \in [Runners -> Nat] /\ batch_data.done \in Nat
  BY DEF Typed, BatchStates
<1>1. /\ pc'[r] \in {"signal", AfterLoop(r)} /\ \A s \in Runners : s # r => pc'[s] = pc[s]
  BY <1>t DEF CountDone
<1>2. /\ pc'[r] \in {"signal", "await", "top"} /\ (r = Submitter => pc'[r] \in {"signal", "await"})
      /\ (r # Submitter => pc'[r] \in {"signal", "top"})
  BY <1>1 DEF AfterLoop
<1>a. P \in [Runners -> SUBSET Jobs] /\ C \in SUBSET Jobs
  BY DEF Ledger, AccountsSound
<1>q. PICK Q \in [Runners -> SUBSET Jobs] : Q[r] = {} /\ \A s \in Runners : s # r => Q[s] = P[s]
  <2>1. [P EXCEPT ![r] = {}] \in [Runners -> SUBSET Jobs]
    BY <1>a
  <2> QED
    BY <1>a, <2>1
<1>d. PICK D \in SUBSET Jobs : D = C \cup P[r]
  BY <1>a
<1>f. pc'[Submitter] \in Filling \cup {"idle"} => pc'[Submitter] = pc[Submitter]
  BY <1>1, <1>2, <1>j DEF Filling
<1>g. pc[Submitter] \in Filling \cup {"idle"} => r # Submitter /\ pc'[Submitter] = pc[Submitter]
  BY <1>b, <1>1, <1>j DEF Filling
<1>3. AccountsSound(Q, D)'
  <2>1. \A s, u \in Runners : s # u => Q[s] \cap Q[u] = {}
    BY <1>q DEF Ledger, AccountsSound
  <2>2. \A s \in Runners : Q[s] \cap D = {}
    BY <1>q, <1>d DEF Ledger, AccountsSound
  <2>3. \A s \in Runners : IF pc'[s] \in Loop THEN Cardinality(Q[s]) = processed'[s] ELSE Q[s] = {}
    BY <1>b, <1>1, <1>2, <1>q DEF Ledger, AccountsSound, Loop
  <2>4. ASSUME pc'[Submitter] \notin {"resetNext", "resetDone"}
        PROVE  Cardinality(D) = batch_data'.done
    <3>1. Cardinality(C) = batch_data.done
      BY <1>g, <2>4 DEF Ledger, AccountsSound, Filling
    <3>2. Cardinality(P[r]) = processed[r] /\ C \cap P[r] = {}
      BY <1>b DEF Ledger, AccountsSound, Loop
    <3>3. IsFiniteSet(C) /\ IsFiniteSet(P[r])
      BY <1>a, JobsFinite
    <3>4. Cardinality(C \cup P[r]) = Cardinality(C) + Cardinality(P[r]) - Cardinality(C \cap P[r])
      BY <3>3, FS_Union
    <3>5. Cardinality(C \cap P[r]) = 0
      BY <3>2, FS_EmptySet
    <3> QED
      BY <1>b, <1>d, <1>t, <3>1, <3>2, <3>4, <3>5
  <2> QED
    BY <1>j, <2>1, <2>2, <2>3, <2>4 DEF AccountsSound
<1>4. ClaimsSound(Q, D)'
  <2>1. \A s \in Runners : Q[s] \subseteq P[s]
    BY <1>q
  <2>2. \A s \in Runners : /\ (pc'[s] = "test" => pc[s] = "test")
                           /\ (pc'[s] = "compress" => pc[s] = "compress" /\ Q[s] = P[s])
    BY <1>1, <1>2, <1>q
  <2> QED
    BY <1>b, <1>d, <2>1, <2>2 DEF Ledger, ClaimsSound
<1>5. RunsSound(Q, D)'
  <2>1. \A i : Compressed(Q, D, i)' <=> Compressed(P, C, i)
    BY <1>b, <1>1, <1>2, <1>q, <1>d DEF Compressed
  <2> QED
    BY <1>b, <2>1 DEF Ledger, RunsSound
<1>6. SubmitterSound(Q, D)'
  <2>1. /\ pc'[Submitter] \notin {"top", "waitWork", "exited", "runAsync", "endAsync"}
        /\ \A w \in Workers : pc'[w] \notin Filling \cup {"idle", "await", "waitDone"}
    BY <1>j, <1>1, <1>2, PoolAssumption DEF Ledger, SubmitterSound, Filling
  <2>2. batch_active' <=> pc'[Submitter] \notin Filling \cup {"idle"}
    BY <1>b, <1>f, <1>g DEF Ledger, SubmitterSound
  <2>3. pc'[Submitter] = "idle" => D = Jobs
    BY <1>a, <1>d, <1>f DEF Ledger, SubmitterSound
  <2>4. ASSUME pc'[Submitter] \in Filling
        PROVE  D = {} /\ \A s \in Runners : Q[s] = {} /\ pc'[s] \notin {"claim", "test"}
    <3>1. C = {} /\ \A s \in Runners : P[s] = {} /\ pc[s] \notin {"claim", "test"}
      BY <1>f, <2>4 DEF Ledger, SubmitterSound
    <3> QED
      BY <1>1, <1>2, <1>q, <1>d, <3>1
  <2>5. pc'[Submitter] \in {"resetDone", "publish"} => batch_data'.next = 0
    BY <1>b, <1>f DEF Ledger, SubmitterSound, Filling
  <2> QED
    BY <1>j, <2>1, <2>2, <2>3, <2>4, <2>5 DEF SubmitterSound
<1> QED
  BY <1>3, <1>4, <1>5, <1>6 DEF Ledger

(* Filling in a batch while nobody is in the loop starts new accounts. *)
LEMMA FillKeeps ==
  ASSUME Typed, BatchKnown, BatchKnown', NEW P, NEW C, Ledger(P, C), SubmitFill, NoStragglers
  PROVE  \E Q \in [Runners -> SUBSET Jobs'], D \in SUBSET Jobs' : Ledger(Q, D)'
<1>b. /\ UNCHANGED <<batch_active, idx, processed, job, runs>> /\ pc[Submitter] = "idle"
      /\ batchNo' = batchNo + 1 /\ batchNo < Len(BatchTotals)
  BY DEF SubmitFill
<1>j. Submitter \in Runners /\ \A w \in Workers : w \in Runners
  BY DEF Runners
<1>t. pc \in [Runners -> PcStates] /\ batchNo \in 0 .. Len(BatchTotals) /\ batch_data.total \in Nat
  BY DEF Typed, BatchStates
<1>1. pc'[Submitter] = "resetNext" /\ \A s \in Runners : s # Submitter => pc'[s] = pc[s]
  BY <1>j, <1>t DEF SubmitFill
<1>2. C = Jobs /\ \A s \in Runners : P[s] = {}
  <2>1. C = Jobs
    BY <1>b DEF Ledger, SubmitterSound
  <2> QED
    BY <2>1 DEF Ledger, AccountsSound
<1>3. \A s \in Runners : pc'[s] \notin {"claim", "test", "compress"}
  <2>1. \A s \in Runners : pc[s] # "compress"
    BY <1>2 DEF Ledger, ClaimsSound
  <2>2. \A s \in Runners : s = Submitter \/ s \in Workers
    BY DEF Runners
  <2> QED
    BY <1>1, <2>1, <2>2 DEF NoStragglers
<1>q. PICK Q \in [Runners -> SUBSET Jobs'] : Q = [s \in Runners |-> {}]
  OBVIOUS
<1>d. PICK D \in SUBSET Jobs' : D = {}
  OBVIOUS
<1>4. AccountsSound(Q, D)'
  <2>1. \A s \in Runners : pc'[s] \in Loop => processed'[s] = 0
    <3> SUFFICES ASSUME NEW s \in Runners, pc'[s] \in Loop PROVE processed[s] = 0
      BY <1>b
    <3>1. pc[s] \in Loop
      BY <1>1 DEF Loop
    <3> QED
      BY <1>2, <3>1, FS_EmptySet DEF Ledger, AccountsSound
  <2> QED
    BY <1>1, <1>q, <1>d, <2>1, FS_EmptySet DEF AccountsSound
<1>5. ClaimsSound(Q, D)'
  BY <1>3, <1>q, <1>d DEF ClaimsSound
<1>6. RunsSound(Q, D)'
  <2> SUFFICES ASSUME NEW b \in Batches, NEW i \in 0 .. BatchTotals[b] - 1
               PROVE  runs[[batch |-> b, index |-> i]] =
                         CASE b < batchNo + 1 -> 1
                           [] b > batchNo + 1 -> 0
                           [] b = batchNo + 1 -> IF Compressed(Q, D, i)' THEN 1 ELSE 0
    BY <1>b DEF RunsSound
  <2>1. runs[[batch |-> b, index |-> i]] =
              CASE b < batchNo -> 1
                [] b > batchNo -> 0
                [] b = batchNo -> IF Compressed(P, C, i) THEN 1 ELSE 0
    BY DEF Ledger, RunsSound
  <2>2. b \in Nat /\ batchNo \in Nat
    BY <1>t, BatchNumbers
  <2>3. CASE b < batchNo
    BY <2>1, <2>2, <2>3
  <2>4. CASE b = batchNo
    <3>1. i \in C
      BY <1>2, <2>2, <2>4, BatchNumbers DEF BatchKnown, Jobs
    <3>2. runs[[batch |-> b, index |-> i]] = 1
      BY <2>1, <2>2, <2>4, <3>1 DEF Compressed
    <3> QED
      BY <2>2, <2>4, <3>2
  <2>5. CASE b = batchNo + 1
    <3>1. ~Compressed(Q, D, i)'
      BY <1>q, <1>d DEF Compressed
    <3>2. runs[[batch |-> b, index |-> i]] = 0
      BY <2>1, <2>2, <2>5
    <3> QED
      BY <2>2, <2>5, <3>1, <3>2
  <2>6. CASE b > batchNo + 1
    BY <2>1, <2>2, <2>6
  <2> QED
    BY <2>2, <2>3, <2>4, <2>5, <2>6
<1>7. SubmitterSound(Q, D)'
  <2>1. \A w \in Workers : pc'[w] = pc[w]
    BY <1>j, <1>1, PoolAssumption
  <2> QED
    BY <1>b, <1>j, <1>1, <1>3, <1>q, <1>d, <2>1 DEF Ledger, SubmitterSound, Filling
<1> QED
  BY <1>4, <1>5, <1>6, <1>7 DEF Ledger

(* Resetting the counters and publishing the batch. *)
LEMMA PublishKeeps ==
  ASSUME Typed, BatchKnown, NEW P, NEW C, Ledger(P, C),
         SubmitResetNext \/ SubmitResetDone \/ SubmitPublish
  PROVE  Ledger(P, C)'
<1>j. Submitter \in Runners /\ \A w \in Workers : w \in Runners /\ w # Submitter
  BY PoolAssumption DEF Runners
<1>t. pc \in [Runners -> PcStates] /\ processed \in [Runners -> Nat]
  BY DEF Typed
<1>1. /\ pc[Submitter] \in Filling /\ UNCHANGED <<idx, job, runs, batchNo>>
      /\ batch_data'.total = batch_data.total /\ Jobs' = Jobs
      /\ batch_data'.next \in {batch_data.next, 0} /\ batch_data'.done \in {batch_data.done, 0}
  BY DEF SubmitResetNext, SubmitResetDone, SubmitPublish, Filling, Typed, BatchStates, Jobs
<1>2. /\ P \in [Runners -> SUBSET Jobs] /\ C = {}
      /\ \A r \in Runners : P[r] = {} /\ pc[r] \notin {"claim", "test"}
  BY <1>1 DEF Ledger, AccountsSound, SubmitterSound
<1>3. /\ pc'[Submitter] \in {"resetDone", "publish", "claim"}
      /\ \A w \in Workers : pc'[w] = pc[w] \/ (pc[w] = "waitWork" /\ pc'[w] = "top")
  <2>1. CASE SubmitResetNext \/ SubmitResetDone
    BY <1>j, <1>t, <2>1 DEF SubmitResetNext, SubmitResetDone
  <2>2. CASE SubmitPublish
    BY <1>j, <1>t, <2>2 DEF SubmitPublish, WakeWorkers
  <2> QED
    BY <2>1, <2>2
<1>4. \A r \in Runners : r = Submitter \/ r \in Workers
  BY DEF Runners
<1>5. /\ pc'[Submitter] = "claim" => SubmitPublish
      /\ pc'[Submitter] = "publish" => SubmitResetDone
      /\ pc'[Submitter] = "resetDone" => SubmitResetNext
  <2>1. SubmitResetNext => pc'[Submitter] = "resetDone"
    BY <1>j, <1>t DEF SubmitResetNext
  <2>2. SubmitResetDone => pc'[Submitter] = "publish"
    BY <1>j, <1>t DEF SubmitResetDone
  <2>3. SubmitPublish => pc'[Submitter] = "claim"
    BY <1>j, <1>t DEF SubmitPublish, WakeWorkers
  <2> QED
    BY <2>1, <2>2, <2>3
<1>6. AccountsSound(P, C)'
  <2>1. \A r \in Runners : pc'[r] \in Loop => processed'[r] = 0
    <3> SUFFICES ASSUME NEW r \in Runners, pc'[r] \in Loop PROVE processed'[r] = 0
      OBVIOUS
    <3>1. CASE r = Submitter
      <4>1. SubmitPublish
        BY <1>3, <1>5, <3>1 DEF Loop
      <4> QED
        BY <1>j, <1>t, <3>1, <4>1 DEF SubmitPublish
    <3>2. CASE r # Submitter
      <4>1. pc[r] \in Loop
        BY <1>3, <1>4, <3>2 DEF Loop
      <4>2. processed[r] = 0
        BY <1>2, <4>1, FS_EmptySet DEF Ledger, AccountsSound
      <4> QED
        BY <1>t, <3>2, <4>2 DEF SubmitResetNext, SubmitResetDone, SubmitPublish
    <3> QED
      BY <3>1, <3>2
  <2>2. pc'[Submitter] \notin {"resetNext", "resetDone"} => batch_data'.done = 0
    <3>1. SubmitResetDone => batch_data'.done = 0
      BY DEF SubmitResetDone, Typed, BatchStates
    <3>2. SubmitPublish => batch_data'.done = 0
      BY <1>2, FS_EmptySet DEF SubmitPublish, Ledger, AccountsSound
    <3> QED
      BY <1>3, <1>5, <3>1, <3>2
  <2> QED
    BY <1>1, <1>2, <2>1, <2>2, FS_EmptySet DEF AccountsSound
<1>7. ClaimsSound(P, C)'
  <2>1. \A r \in Runners : pc'[r] \notin {"test", "compress"}
    <3>1. \A r \in Runners : pc[r] # "compress"
      BY <1>2 DEF Ledger, ClaimsSound
    <3> QED
      BY <1>2, <1>3, <1>4, <3>1
  <2> QED
    BY <1>2, <2>1 DEF ClaimsSound
<1>8. RunsSound(P, C)'
  <2>1. \A i : Compressed(P, C, i)' <=> Compressed(P, C, i)
    BY <1>2 DEF Compressed
  <2> QED
    BY <1>1, <2>1 DEF Ledger, RunsSound
<1>9. SubmitterSound(P, C)'
  <2>1. \A w \in Workers : pc'[w] \notin Filling \cup {"idle", "await", "waitDone", "claim", "test"}
    BY <1>j, <1>2, <1>3 DEF Ledger, SubmitterSound, Filling
  <2>2. batch_active' <=> pc'[Submitter] \notin Filling \cup {"idle"}
    <3>1. ~batch_active
      BY <1>1 DEF Ledger, SubmitterSound
    <3>2. /\ SubmitResetNext \/ SubmitResetDone => batch_active' = batch_active
          /\ SubmitPublish => batch_active' = TRUE
      BY DEF SubmitResetNext, SubmitResetDone, SubmitPublish
    <3> QED
      BY <1>3, <1>5, <3>1, <3>2 DEF Filling
  <2>3. pc'[Submitter] \in {"resetDone", "publish"} => batch_data'.next = 0
    <3>1. SubmitResetNext => batch_data'.next = 0
      BY DEF SubmitResetNext, Typed, BatchStates
    <3>2. SubmitResetDone => batch_data'.next = 0
      BY DEF SubmitResetDone, Typed, BatchStates, Ledger, SubmitterSound
    <3> QED
      BY <1>5, <3>1, <3>2
  <2>4. pc'[Submitter] \in Filling => \A r \in Runners : pc'[r] \notin {"claim", "test"}
    BY <1>4, <2>1 DEF Filling
  <2> QED
    BY <1>1, <1>2, <1>3, <2>1, <2>2, <2>3, <2>4 DEF SubmitterSound, Filling
<1> QED
  BY <1>6, <1>7, <1>8, <1>9 DEF Ledger

(* The submitter returns when as many jobs are counted as there are: all.   *)
LEMMA AwaitKeeps ==
  ASSUME Typed, BatchKnown, NEW P, NEW C, Ledger(P, C), SubmitAwait
  PROVE  Ledger(P, C)'
<1>j. Submitter \in Runners /\ \A w \in Workers : w \in Runners /\ w # Submitter
  BY PoolAssumption DEF Runners
<1>t. pc \in [Runners -> PcStates] /\ batch_data.total \in Nat /\ batch_data.done \in Nat
  BY DEF Typed, BatchStates
<1>1. /\ UNCHANGED <<batch_data, idx, processed, job, runs, batchNo>> /\ pc[Submitter] = "await"
      /\ pc'[Submitter] \in {"idle", "waitDone"}
      /\ \A r \in Runners : r # Submitter => pc'[r] = pc[r]
  BY <1>j, <1>t DEF SubmitAwait
<1>2. CASE BatchComplete
  <2>1. pc'[Submitter] = "idle" /\ ~batch_active'
    BY <1>2, <1>j, <1>t DEF SubmitAwait
  <2>2. C = Jobs
    <3>1. Cardinality(C) = batch_data.done /\ C \in SUBSET Jobs
      BY <1>1 DEF Ledger, AccountsSound
    <3>2. IsFiniteSet(Jobs) /\ Cardinality(Jobs) = batch_data.total
      BY JobsFinite
    <3>3. Cardinality(C) <= Cardinality(Jobs) /\ (Cardinality(Jobs) = Cardinality(C) => Jobs = C)
      BY <3>1, <3>2, FS_Subset
    <3> QED
      BY <1>2, <1>t, <3>1, <3>2, <3>3 DEF BatchComplete
  <2>j. Jobs' = Jobs
    BY <1>1 DEF Jobs
  <2>3. AccountsSound(P, C)'
    BY <1>1, <2>1, <2>j DEF Ledger, AccountsSound, Loop
  <2>4. ClaimsSound(P, C)'
    BY <1>1, <2>1 DEF Ledger, ClaimsSound
  <2>5. RunsSound(P, C)'
    <3>1. \A i : Compressed(P, C, i)' <=> Compressed(P, C, i)
      BY <1>1, <2>1 DEF Compressed
    <3>2. UNCHANGED <<runs, batchNo>>
      BY <1>1
    <3> QED
      BY <3>1, <3>2 DEF Ledger, RunsSound
  <2>6. SubmitterSound(P, C)'
    BY <1>1, <1>j, <2>1, <2>2, <2>j DEF Ledger, SubmitterSound, Filling
  <2> QED
    BY <2>3, <2>4, <2>5, <2>6 DEF Ledger
<1>3. CASE ~BatchComplete
  <2>1. pc'[Submitter] = "waitDone" /\ UNCHANGED batch_active
    BY <1>3, <1>j, <1>t DEF SubmitAwait
  <2>2. \A r \in Runners : pc[r] \in Loop \/ pc'[r] \in Loop => pc'[r] = pc[r]
    BY <1>1, <2>1 DEF Loop
  <2>3. \A w \in Workers : pc'[w] \notin Filling \cup {"idle", "await", "waitDone"}
    BY <1>1, <1>j DEF Ledger, SubmitterSound
  <2> QED
    BY <1>1, <2>1, <2>2, <2>3, OutsideLoop
<1> QED
  BY <1>2, <1>3

(* A worker that sees a new generation enters the loop with an empty        *)
(* account, if the batch is still active.                                   *)
LEMMA TopKeeps ==
  ASSUME Typed, BatchKnown, NEW P, NEW C, Ledger(P, C), NEW w \in Workers, WorkerTop(w)
  PROVE  Ledger(P, C)'
<1>j. Submitter \in Runners /\ Submitter # w /\ w \in Runners
      /\ \A v \in Workers : v \in Runners /\ v # Submitter
  BY PoolAssumption DEF Runners
<1>t. pc \in [Runners -> PcStates] /\ processed \in [Runners -> Nat]
  BY DEF Typed
<1>1. /\ UNCHANGED <<batch_data, batch_active, idx, job, runs, batchNo>> /\ pc[w] = "top"
      /\ \A r \in Runners : r # w => pc'[r] = pc[r] /\ processed'[r] = processed[r]
      /\ pc'[w] \in {"waitWork", "exited", "runAsync", "claim", "top"}
      /\ pc'[w] = "claim" => batch_active /\ processed'[w] = 0
  <2>1. UNCHANGED <<batch_data, batch_active, idx, job, runs, batchNo>> /\ pc[w] = "top"
    BY DEF WorkerTop
  <2>2. \/ /\ processed' = processed
           /\ \/ pc' = [pc EXCEPT ![w] = "waitWork"] \/ pc' = [pc EXCEPT ![w] = "exited"]
              \/ pc' = [pc EXCEPT ![w] = "runAsync"]
        \/ /\ processed' = [processed EXCEPT ![w] = 0]
           /\ pc' = [pc EXCEPT ![w] = IF batch_active THEN "claim" ELSE "top"]
    BY DEF WorkerTop
  <2> QED
    BY <1>j, <1>t, <2>1, <2>2
<1>2. CASE pc'[w] # "claim"
  <2>1. \A r \in Runners : pc[r] \in Loop \/ pc'[r] \in Loop => r # w
    BY <1>1, <1>2 DEF Loop
  <2>2. \A v \in Workers : pc'[v] \notin Filling \cup {"idle", "await", "waitDone"}
    BY <1>1, <1>j DEF Ledger, SubmitterSound, Filling
  <2> QED
    BY <1>1, <1>j, <2>1, <2>2, OutsideLoop
<1>3. CASE pc'[w] = "claim"
  <2>1. P[w] = {} /\ batch_active /\ processed'[w] = 0 /\ Jobs' = Jobs
    BY <1>1, <1>3, <1>j DEF Ledger, AccountsSound, Loop, Jobs
  <2>2. pc'[Submitter] = pc[Submitter] /\ pc[Submitter] \notin Filling \cup {"idle"}
    BY <1>1, <1>j, <2>1 DEF Ledger, SubmitterSound
  <2>3. AccountsSound(P, C)'
    <3>1. \A r \in Runners : IF pc'[r] \in Loop THEN Cardinality(P[r]) = processed'[r] ELSE P[r] = {}
      BY <1>1, <1>3, <2>1, FS_EmptySet DEF Ledger, AccountsSound, Loop
    <3> QED
      BY <1>1, <2>1, <2>2, <3>1 DEF Ledger, AccountsSound
  <2>4. ClaimsSound(P, C)'
    <3>1. \A r \in Runners : pc'[r] \in {"test", "compress"} => pc'[r] = pc[r]
      BY <1>1, <1>3
    <3> QED
      BY <1>1, <3>1 DEF Ledger, ClaimsSound
  <2>5. RunsSound(P, C)'
    <3>1. \A i : Compressed(P, C, i)' <=> Compressed(P, C, i)
      BY <1>1, <1>3 DEF Compressed
    <3>2. UNCHANGED <<runs, batchNo>>
      BY <1>1
    <3> QED
      BY <3>1, <3>2 DEF Ledger, RunsSound
  <2>6. SubmitterSound(P, C)'
    BY <1>1, <1>3, <1>j, <2>1, <2>2 DEF Ledger, SubmitterSound, Filling
  <2> QED
    BY <2>3, <2>4, <2>5, <2>6 DEF Ledger
<1> QED
  BY <1>2, <1>3

(* The steps that have nothing to do with the batch. *)
LEMMA OtherStepsKeep ==
  ASSUME Typed, BatchKnown, NEW P, NEW C, Ledger(P, C),
         \/ \E w \in Workers : WorkerRunAsync(w) \/ WorkerEndAsync(w)
         \/ \E r \in Runners : SignalDone(r) \/ SpuriousWakeup(r)
         \/ \E j \in AsyncJobs : SubmitAsync(j) \/ WaitAsyncAndFree(j)
         \/ PoolDestroy \/ UNCHANGED vars
  PROVE  Ledger(P, C)'
<1>j. /\ Submitter \in Runners /\ \A r \in Runners : r = Submitter \/ r \in Workers
      /\ \A v \in Workers : v \in Runners /\ v # Submitter
  BY PoolAssumption DEF Runners
<1>t. pc \in [Runners -> PcStates]
  BY DEF Typed
<1>1. UNCHANGED <<batch_data, batch_active, runs, batchNo, idx, processed, job>>
  BY DEF WorkerRunAsync, WorkerEndAsync, SignalDone, SpuriousWakeup, SubmitAsync, WaitAsyncAndFree,
         PoolDestroy, vars, poolVars, runVars
<1>s. /\ \A w \in Workers : pc[w] \notin Filling \cup {"idle", "await", "waitDone"}
      /\ pc[Submitter] \notin {"top", "waitWork", "exited", "runAsync", "endAsync"}
  BY DEF Ledger, SubmitterSound
<1> DEFINE Outside ==
       /\ \A w \in Workers :
             \/ pc'[w] = pc[w]
             \/ {pc[w], pc'[w]} \subseteq {"runAsync", "endAsync", "top", "signal", "waitWork"}
       /\ \/ pc'[Submitter] = pc[Submitter]
          \/ {pc[Submitter], pc'[Submitter]} \subseteq {"await", "waitDone", "signal"}
<1>2. Outside
  <2>1. ASSUME NEW w \in Workers, WorkerRunAsync(w) \/ WorkerEndAsync(w)
        PROVE  Outside
    BY <2>1, <1>j, <1>t DEF WorkerRunAsync, WorkerEndAsync
  <2>2. ASSUME NEW r \in Runners, SignalDone(r) PROVE Outside
    <3>1. \A s \in Runners : pc'[s] = IF s = Submitter /\ [pc EXCEPT ![r] = AfterLoop(r)][s] = "waitDone"
                                      THEN "await" ELSE [pc EXCEPT ![r] = AfterLoop(r)][s]
      BY <2>2, <1>j, <1>t DEF SignalDone, WakeSubmitter
    <3>2. \A s \in Runners : [pc EXCEPT ![r] = AfterLoop(r)][s] = IF s = r THEN AfterLoop(r) ELSE pc[s]
      BY <1>t
    <3>3. pc[r] = "signal"
      BY <2>2 DEF SignalDone
    <3> QED
      BY <1>j, <3>1, <3>2, <3>3 DEF AfterLoop
  <2>3. ASSUME NEW r \in Runners, SpuriousWakeup(r) PROVE Outside
    BY <2>3, <1>j, <1>s, <1>t DEF SpuriousWakeup
  <2>4. ASSUME pc' = WakeWorkers(pc) PROVE Outside
    BY <2>4, <1>j, <1>s, <1>t DEF WakeWorkers
  <2>5. ASSUME pc' = pc PROVE Outside
    BY <2>5
  <2> QED
    BY <2>1, <2>2, <2>3, <2>4, <2>5 DEF SubmitAsync, WaitAsyncAndFree, PoolDestroy, vars, runVars
<1>3. \A r \in Runners : pc[r] \in Loop \/ pc'[r] \in Loop => pc'[r] = pc[r]
  BY <1>2, <1>j DEF Loop
<1>4. \A w \in Workers : pc'[w] \notin Filling \cup {"idle", "await", "waitDone"}
  BY <1>2, <1>s DEF Filling
<1> QED
  BY <1>1, <1>2, <1>3, <1>4, OutsideLoop

(* Every step that does not fill in a batch under stragglers keeps the      *)
(* accounts.                                                                *)
LEMMA BatchStep ==
  Typed /\ BatchKnown /\ BatchSound /\ [QuietNext]_vars => BatchSound'
<1> SUFFICES ASSUME Typed, BatchKnown, BatchSound, QuietNext \/ UNCHANGED vars PROVE BatchSound'
  OBVIOUS
<1>k. Typed' /\ BatchKnown'
  BY StepTyped DEF QuietNext
<1>1. PICK P \in [Runners -> SUBSET Jobs], C \in SUBSET Jobs : Ledger(P, C)
  BY DEF BatchSound
<1>2. ASSUME NEW Q, NEW D, Ledger(Q, D)' PROVE BatchSound'
  BY <1>2 DEF BatchSound, Ledger, AccountsSound
<1>3. ASSUME NEW w \in Workers, WorkerTop(w) PROVE BatchSound'
  BY <1>1, <1>2, <1>3, TopKeeps
<1>4. ASSUME NEW r \in Runners, ClaimJob(r) \/ CompressJob(r) PROVE BatchSound'
  BY <1>1, <1>2, <1>4, ClaimKeeps, CompressKeeps
<1>5. ASSUME NEW r \in Runners, TestClaim(r) PROVE BatchSound'
  BY <1>1, <1>2, <1>5, TestKeeps
<1>6. ASSUME NEW r \in Runners, CountDone(r) PROVE BatchSound'
  BY <1>1, <1>2, <1>6, CountKeeps
<1>7. ASSUME SubmitFill, NoStragglers PROVE BatchSound'
  BY <1>k, <1>1, <1>2, <1>7, FillKeeps
<1>8. ASSUME SubmitResetNext \/ SubmitResetDone \/ SubmitPublish \/ SubmitAwait PROVE BatchSound'
  BY <1>1, <1>2, <1>8, PublishKeeps, AwaitKeeps
<1>9. ASSUME \/ \E w \in Workers : WorkerRunAsync(w) \/ WorkerEndAsync(w)
             \/ \E r \in Runners : SignalDone(r) \/ SpuriousWakeup(r)
             \/ \E j \in AsyncJobs : SubmitAsync(j) \/ WaitAsyncAndFree(j)
             \/ PoolDestroy \/ UNCHANGED vars
      PROVE  BatchSound'
  BY <1>1, <1>2, <1>9, OtherStepsKeep
<1> QED
  BY <1>3, <1>4, <1>5, <1>6, <1>7, <1>8, <1>9
  DEF QuietNext, Next, WorkerStep, RunStep, SubmitStep, Terminated

(* The accounts of the new pool are empty. *)
LEMMA BatchInit == Init => BatchSound
<1> SUFFICES ASSUME Init PROVE BatchSound
  OBVIOUS
<1>1. /\ batch_data.total = 0 /\ batch_data.done = 0 /\ batch_data.next = 0 /\ batchNo = 0
      /\ pc[Submitter] = "idle" /\ batch_active = FALSE
      /\ \A w \in Workers : pc[w] = "top"
      /\ \A r \in Runners : pc[r] \in {"idle", "top"}
  BY PoolAssumption DEF Init, Runners
<1>2. Jobs = {}
  BY <1>1 DEF Jobs
<1>3. PICK P \in [Runners -> SUBSET Jobs] : \A r \in Runners : P[r] = {}
  <2>1. [r \in Runners |-> {}] \in [Runners -> SUBSET Jobs]
    OBVIOUS
  <2> QED
    BY <2>1
<1>4. AccountsSound(P, {}) /\ ClaimsSound(P, {})
  BY <1>1, <1>2, <1>3, FS_EmptySet DEF AccountsSound, ClaimsSound, Loop
<1>5. RunsSound(P, {})
  <2> SUFFICES ASSUME NEW b \in Batches, NEW i \in 0 .. BatchTotals[b] - 1
               PROVE  runs[[batch |-> b, index |-> i]] = 0 /\ b > 0 /\ ~(b < 0) /\ b # 0
    BY <1>1 DEF RunsSound
  <2>1. runs[[batch |-> b, index |-> i]] = 0
    BY SlotsKnown DEF Init
  <2> QED
    BY <2>1, BatchNumbers
<1>6. SubmitterSound(P, {})
  BY <1>1, <1>2, <1>3 DEF SubmitterSound, Filling
<1> QED
  BY <1>2, <1>4, <1>5, <1>6 DEF BatchSound, Ledger

(* What the accounts are for. *)
LEMMA BatchGivesRunOnce == Typed /\ BatchKnown /\ BatchSound => JobsRunOnce
<1> SUFFICES ASSUME Typed, BatchKnown, BatchSound PROVE JobsRunOnce
  OBVIOUS
<1>1. PICK P \in [Runners -> SUBSET Jobs], C \in SUBSET Jobs : Ledger(P, C)
  BY DEF BatchSound
<1>2. NoJobClaimedTwice
  <2> SUFFICES ASSUME NEW r \in Runners, NEW s \in Runners, r # s, pc[r] = "compress",
                      pc[s] = "compress", job[r] = job[s]
               PROVE  FALSE
    BY DEF NoJobClaimedTwice
  <2>1. /\ idx[r] \in P[r] /\ job[r] = [batch |-> batchNo, index |-> idx[r]]
        /\ idx[s] \in P[s] /\ job[s] = [batch |-> batchNo, index |-> idx[s]]
    BY <1>1 DEF Ledger, ClaimsSound
  <2>2. idx[r] = idx[s]
    <3>1. [batch |-> batchNo, index |-> idx[r]] = [batch |-> batchNo, index |-> idx[s]]
      BY <2>1
    <3>2. \A i, k : [batch |-> batchNo, index |-> i] = [batch |-> batchNo, index |-> k] => i = k
      OBVIOUS
    <3> QED
      BY <3>1, <3>2
  <2> QED
    BY <1>1, <2>1, <2>2 DEF Ledger, AccountsSound
<1>3. ASSUME pc[Submitter] = "idle"
      PROVE  /\ \A b \in 1 .. batchNo : \A i \in 0 .. BatchTotals[b] - 1 :
                    runs[[batch |-> b, index |-> i]] = 1
             /\ \A w \in Workers : pc[w] # "compress"
  <2>1. C = Jobs /\ \A r \in Runners : P[r] = {}
    <3>1. C = Jobs
      BY <1>1, <1>3 DEF Ledger, SubmitterSound
    <3> QED
      BY <1>1, <3>1 DEF Ledger, AccountsSound
  <2>2. \A w \in Workers : pc[w] # "compress"
    BY <1>1, <2>1 DEF Ledger, ClaimsSound, Runners
  <2>3. ASSUME NEW b \in 1 .. batchNo, NEW i \in 0 .. BatchTotals[b] - 1
        PROVE  runs[[batch |-> b, index |-> i]] = 1
    <3>1. b \in Batches /\ b \in Nat /\ batchNo \in Nat /\ (b < batchNo \/ b = batchNo)
      BY BatchNumbers DEF Typed
    <3>2. runs[[batch |-> b, index |-> i]] = CASE b < batchNo -> 1
                                               [] b > batchNo -> 0
                                               [] b = batchNo -> IF Compressed(P, C, i) THEN 1 ELSE 0
      BY <1>1, <3>1 DEF Ledger, RunsSound
    <3>3. CASE b = batchNo
      <4>1. i \in C
        BY <2>1, <3>1, <3>3 DEF BatchKnown, Jobs
      <4> QED
        BY <3>1, <3>2, <3>3, <4>1 DEF Compressed
    <3>4. CASE b < batchNo
      BY <3>1, <3>2, <3>4
    <3> QED
      BY <3>1, <3>3, <3>4
  <2> QED
    BY <2>2, <2>3
<1> QED
  BY <1>2, <1>3 DEF JobsRunOnce, SubmitWaitsForCompletion

(* As long as no worker is still in the claim loop when compress_pool_      *)
(* submit fills in batch_data, every job of every batch is compressed by    *)
(* exactly one thread, and is finished when compress_pool_submit returns.   *)
THEOREM QuietBatchesRunOnce == QuietSpec => []JobsRunOnce
<1>1. Typed /\ BatchKnown /\ [QuietNext]_vars => Typed' /\ BatchKnown'
  BY StepTyped DEF QuietNext
<1> QED
  BY <1>1, InitTyped, BatchInit, BatchStep, BatchGivesRunOnce, PTL DEF QuietSpec

(* Before the first batch no worker can be in the loop. *)
FirstBatch ==
    batchNo = 0 => /\ ~batch_active /\ pc[Submitter] = "idle"
                   /\ \A w \in Workers : pc[w] \notin Loop \cup {"signal"}

(* It stays so until the batch is filled in. *)
LEMMA FirstBatchStep == Typed /\ FirstBatch /\ [Next]_vars => FirstBatch'
<1> SUFFICES ASSUME Typed, FirstBatch, Next \/ UNCHANGED vars, batchNo' = 0
             PROVE  /\ ~batch_active' /\ pc'[Submitter] = "idle"
                    /\ \A w \in Workers : pc'[w] \notin Loop \cup {"signal"}
  BY DEF FirstBatch
<1>j. /\ Submitter \in Runners /\ \A r \in Runners : r = Submitter \/ r \in Workers
      /\ \A v \in Workers : v \in Runners /\ v # Submitter
  BY PoolAssumption DEF Runners
<1>t. pc \in [Runners -> PcStates] /\ batchNo \in Nat
  BY DEF Typed
<1>1. ASSUME NEW w \in Workers, WorkerTop(w), batchNo = 0 PROVE FirstBatch'
  BY <1>1, <1>j, <1>t DEF FirstBatch, WorkerTop, Loop
<1>2. ASSUME NEW w \in Workers, WorkerRunAsync(w) \/ WorkerEndAsync(w), batchNo = 0 PROVE FirstBatch'
  BY <1>2, <1>j, <1>t DEF FirstBatch, WorkerRunAsync, WorkerEndAsync, Loop, poolVars
<1>3. ASSUME NEW r \in Runners, RunStep(r), batchNo = 0 PROVE FALSE
  BY <1>3, <1>j DEF FirstBatch, RunStep, ClaimJob, TestClaim, CompressJob, CountDone, SignalDone, Loop
<1>4. ASSUME NEW r \in Runners, SpuriousWakeup(r), batchNo = 0 PROVE FirstBatch'
  BY <1>4, <1>j, <1>t DEF FirstBatch, SpuriousWakeup, Loop, poolVars
<1>5. ASSUME SubmitStep, batchNo = 0 PROVE FALSE
  BY <1>5, <1>t DEF FirstBatch, SubmitStep, SubmitFill, SubmitResetNext, SubmitResetDone,
                    SubmitPublish, SubmitAwait
<1>w. ASSUME pc' = WakeWorkers(pc), UNCHANGED <<batch_active, batchNo>> PROVE FirstBatch'
  BY <1>w, <1>j, <1>t DEF FirstBatch, WakeWorkers, Loop
<1>6. ASSUME NEW j \in AsyncJobs, SubmitAsync(j) PROVE FirstBatch'
  BY <1>6, <1>w DEF SubmitAsync
<1>7. ASSUME PoolDestroy PROVE FirstBatch'
  BY <1>7, <1>w DEF PoolDestroy
<1>8. ASSUME UNCHANGED vars \/ \E j \in AsyncJobs : WaitAsyncAndFree(j) PROVE FirstBatch'
  BY <1>8 DEF vars, poolVars, runVars, WaitAsyncAndFree, FirstBatch
<1>9. batchNo = 0
  <2>1. batchNo' = batchNo \/ batchNo' = batchNo + 1
    BY DEF Next, WorkerStep, RunStep, SubmitStep, Terminated, WorkerTop, WorkerRunAsync,
           WorkerEndAsync, ClaimJob, TestClaim, CompressJob, CountDone, SignalDone, SubmitFill,
           SubmitResetNext, SubmitResetDone, SubmitPublish, SubmitAwait, SubmitAsync,
           WaitAsyncAndFree, PoolDestroy, SpuriousWakeup, vars
  <2> QED
    BY <1>t, <2>1
<1>10. FirstBatch'
  BY <1>1, <1>2, <1>3, <1>4, <1>5, <1>6, <1>7, <1>8, <1>9
  DEF Next, WorkerStep, Terminated
<1> QED
  BY <1>10 DEF FirstBatch

(* The pool as it is runs every job of its first batch exactly once, for    *)
(* every number of workers and every batch size: the submitter and the      *)
(* workers never claim the same job, and compress_pool_submit returns when  *)
(* all are finished.                                                        *)
THEOREM OneBatchRunsOnce ==
  ASSUME Len(BatchTotals) <= 1
  PROVE  Spec => []JobsRunOnce
<1>1. Init => FirstBatch
  BY PoolAssumption DEF Init, FirstBatch, Loop, Runners
<1>2. Typed /\ FirstBatch /\ [Next]_vars => [QuietNext]_vars
  <2> SUFFICES ASSUME Typed, FirstBatch, Next PROVE QuietNext
    OBVIOUS
  <2>1. SubmitFill => batchNo = 0
    BY BatchNumbers DEF SubmitFill, Typed
  <2> QED
    BY <2>1 DEF QuietNext, FirstBatch, NoStragglers, Loop
<1> QED
  BY <1>1, <1>2, InitTyped, StepTyped, FirstBatchStep, BatchInit, BatchStep, BatchGivesRunOnce, PTL
  DEF Spec
=============================================================================
