---------------------------- MODULE CompressPool ----------------------------
(***************************************************************************)
(* The persistent compression thread pool of src/src/lib/block.c.          *)
(*                                                                         *)
(* Worker threads serve two kinds of work.  A BATCH is an array of jobs    *)
(* that the submitting thread and the workers claim one by one with an     *)
(* atomic fetch-add on batch_data.next; the submitter returns when         *)
(* batch_data.done has reached batch_data.total.  An ASYNC job (a full     *)
(* dedup block to compress and write) is queued by its client, run by one  *)
(* worker, and waited for and freed by the client.                         *)
(*                                                                         *)
(* A section between pthread_mutex_lock and pthread_mutex_unlock contains  *)
(* no other blocking call, so it is one step.  The fields of batch_data    *)
(* are read and written outside the mutex: each access is a step of its    *)
(* own, except that jobs and total are written together (until next is     *)
(* reset, no index a runner can hold is below the old total).              *)
(***************************************************************************)
EXTENDS Naturals, Sequences, FiniteSets

CONSTANTS
    Workers,        \* the pool's threads
    Submitter,      \* the thread inside compress_pool_submit (tree_lock admits one)
    AsyncJobs,      \* the async jobs clients create, each at most once
    BatchTotals     \* BatchTotals[b] is the number of jobs of the b-th batch

ASSUME PoolAssumption ==
    /\ IsFiniteSet(Workers) /\ Workers # {}
    /\ Submitter \notin Workers
    /\ BatchTotals \in Seq(Nat \ {0})

Runners == Workers \cup {Submitter}
Batches == DOMAIN BatchTotals
NoJob   == [batch |-> 0, index |-> 0]

VARIABLES
    batch_data,     \* the pool-owned batch: which jobs array, total, next, done
    batch_active,
    generation,
    async_queue,    \* FIFO of queued async jobs
    shutdown,
    pc,             \* where each runner is
    my_gen,         \* each worker's last seen generation
    idx,            \* result of the runner's last fetch-add on next
    processed,      \* jobs the runner has claimed in this run of the loop
    job,            \* the batch job the runner is compressing
    aj,             \* the async job the worker holds
    batchNo,        \* batches submitted so far
    runs,           \* completed compressions of each batch job
    ajState         \* life of each async job

poolVars == <<batch_data, batch_active, generation, async_queue, shutdown>>
runVars  == <<pc, my_gen, idx, processed, job, aj>>
vars     == <<poolVars, runVars, batchNo, runs, ajState>>

JobSlots == UNION {[batch : {b}, index : 0 .. BatchTotals[b] - 1] : b \in Batches}

Init ==
    /\ batch_data = [batch |-> 0, total |-> 0, next |-> 0, done |-> 0]
    /\ batch_active = FALSE
    /\ generation = 0
    /\ async_queue = <<>>
    /\ shutdown = FALSE
    /\ pc = [r \in Runners |-> IF r = Submitter THEN "idle" ELSE "top"]
    /\ my_gen = [w \in Workers |-> 0]
    /\ idx = [r \in Runners |-> 0]
    /\ processed = [r \in Runners |-> 0]
    /\ job = [r \in Runners |-> NoJob]
    /\ aj = [w \in Workers |-> "none"]
    /\ batchNo = 0
    /\ runs = [s \in JobSlots |-> 0]
    /\ ajState = [j \in AsyncJobs |-> "new"]

-----------------------------------------------------------------------------
(* Condition variables.  A runner that waits is "waitWork" (work_avail) or *)
(* "waitDone" (batch_done); waking sends it back to re-test its condition. *)

(* Mutants: the broadcast or the signal is forgotten. *)
MutNoBroadcast(p) == p
MutNoSignal(p) == p

WakeWorkers(p) == [r \in Runners |-> IF p[r] = "waitWork" THEN "top" ELSE p[r]]
WakeSubmitter(p) == [p EXCEPT ![Submitter] = IF @ = "waitDone" THEN "await" ELSE @]

(* pool_worker_main, the section under pool->mutex. *)
WorkerNothingToDo(w) ==
    generation = my_gen[w] /\ async_queue = <<>> /\ ~shutdown

WorkerTop(w) ==
    /\ pc[w] = "top"
    /\ \/ /\ WorkerNothingToDo(w)
          /\ pc' = [pc EXCEPT ![w] = "waitWork"]
          /\ UNCHANGED <<async_queue, my_gen, aj, processed, ajState>>
       \/ /\ shutdown
          /\ pc' = [pc EXCEPT ![w] = "exited"]
          /\ UNCHANGED <<async_queue, my_gen, aj, processed, ajState>>
       \/ /\ ~shutdown /\ async_queue # <<>>
          /\ aj' = [aj EXCEPT ![w] = Head(async_queue)]
          /\ async_queue' = Tail(async_queue)
          /\ ajState' = [ajState EXCEPT ![Head(async_queue)] = "running"]
          /\ pc' = [pc EXCEPT ![w] = "runAsync"]
          /\ UNCHANGED <<my_gen, processed>>
       \/ /\ ~shutdown /\ async_queue = <<>> /\ generation # my_gen[w]
          /\ my_gen' = [my_gen EXCEPT ![w] = generation]
          /\ processed' = [processed EXCEPT ![w] = 0]
          /\ pc' = [pc EXCEPT ![w] = IF batch_active THEN "claim" ELSE "top"]
          /\ UNCHANGED <<async_queue, aj, ajState>>
    /\ UNCHANGED <<batch_data, batch_active, generation, shutdown, idx, job,
                   batchNo, runs>>

(* Mutant: done is set before the worker's last use of the job. *)
MutWorkerRunAsync(w) ==
    /\ pc[w] = "runAsync"
    /\ pc' = [pc EXCEPT ![w] = "endAsync"]
    /\ ajState' = [ajState EXCEPT ![aj[w]] = "done"]
    /\ UNCHANGED <<poolVars, my_gen, idx, processed, job, aj, batchNo, runs>>

(* aj->result = aj->fn(aj->arg, cctx): the job's memory is used. *)
WorkerRunAsync(w) ==
    /\ pc[w] = "runAsync"
    /\ pc' = [pc EXCEPT ![w] = "endAsync"]
    /\ UNCHANGED <<poolVars, my_gen, idx, processed, job, aj, batchNo, runs, ajState>>

(* done is set and the client signalled, both under the job's mutex. *)
WorkerEndAsync(w) ==
    /\ pc[w] = "endAsync"
    /\ ajState' = [ajState EXCEPT ![aj[w]] = "done"]
    /\ aj' = [aj EXCEPT ![w] = "none"]
    /\ pc' = [pc EXCEPT ![w] = "top"]
    /\ UNCHANGED <<poolVars, my_gen, idx, processed, job, batchNo, runs>>

-----------------------------------------------------------------------------
(* compress_worker_run, shared by the workers and the submitter.           *)

(* Mutants: next is read but not advanced; the bound is off by one; the     *)
(* submitter does not wait.                                                 *)
MutNextClaim == batch_data.next
MutJobRemains(i) == i <= batch_data.total
MutBatchComplete == TRUE

(* atomic_fetch_add(&batch->next, 1), the loop's bound, and the submitter's *)
(* wait condition.                                                          *)
NextClaim == batch_data.next + 1
JobRemains(i) == i < batch_data.total
BatchComplete == batch_data.done >= batch_data.total

ClaimJob(r) ==
    /\ pc[r] = "claim"
    /\ idx' = [idx EXCEPT ![r] = batch_data.next]
    /\ batch_data' = [batch_data EXCEPT !.next = NextClaim]
    /\ pc' = [pc EXCEPT ![r] = "test"]
    /\ UNCHANGED <<batch_active, generation, async_queue, shutdown, my_gen,
                   processed, job, aj, batchNo, runs, ajState>>

TestClaim(r) ==
    /\ pc[r] = "test"
    /\ IF JobRemains(idx[r])
       THEN /\ job' = [job EXCEPT ![r] = [batch |-> batch_data.batch, index |-> idx[r]]]
            /\ processed' = [processed EXCEPT ![r] = @ + 1]
            /\ pc' = [pc EXCEPT ![r] = "compress"]
       ELSE /\ pc' = [pc EXCEPT ![r] = "count"]
            /\ UNCHANGED <<job, processed>>
    /\ UNCHANGED <<poolVars, my_gen, idx, aj, batchNo, runs, ajState>>

CompressJob(r) ==
    /\ pc[r] = "compress"
    /\ runs' = [runs EXCEPT ![job[r]] = @ + 1]
    /\ job' = [job EXCEPT ![r] = NoJob]
    /\ pc' = [pc EXCEPT ![r] = "claim"]
    /\ UNCHANGED <<poolVars, my_gen, idx, processed, aj, batchNo, ajState>>

(* After the loop: add the claimed jobs to done; whoever completes the      *)
(* batch goes on to signal.                                                 *)
AfterLoop(r) == IF r = Submitter THEN "await" ELSE "top"

CountDone(r) ==
    /\ pc[r] = "count"
    /\ batch_data' = [batch_data EXCEPT !.done = @ + processed[r]]
    /\ pc' = [pc EXCEPT ![r] =
                 IF processed[r] > 0 /\ batch_data'.done >= batch_data.total
                 THEN "signal" ELSE AfterLoop(r)]
    /\ UNCHANGED <<batch_active, generation, async_queue, shutdown, my_gen, idx,
                   processed, job, aj, batchNo, runs, ajState>>

SignalDone(r) ==
    /\ pc[r] = "signal"
    /\ pc' = WakeSubmitter([pc EXCEPT ![r] = AfterLoop(r)])
    /\ UNCHANGED <<poolVars, my_gen, idx, processed, job, aj, batchNo, runs, ajState>>

-----------------------------------------------------------------------------
(* compress_pool_submit.                                                   *)

SubmitFill ==
    /\ pc[Submitter] = "idle" /\ ~shutdown
    /\ batchNo < Len(BatchTotals)
    /\ batchNo' = batchNo + 1
    /\ batch_data' = [batch_data EXCEPT !.batch = batchNo + 1,
                                        !.total = BatchTotals[batchNo + 1]]
    /\ pc' = [pc EXCEPT ![Submitter] = "resetNext"]
    /\ UNCHANGED <<batch_active, generation, async_queue, shutdown, my_gen, idx,
                   processed, job, aj, runs, ajState>>

SubmitResetNext ==
    /\ pc[Submitter] = "resetNext"
    /\ batch_data' = [batch_data EXCEPT !.next = 0]
    /\ pc' = [pc EXCEPT ![Submitter] = "resetDone"]
    /\ UNCHANGED <<batch_active, generation, async_queue, shutdown, my_gen, idx,
                   processed, job, aj, batchNo, runs, ajState>>

SubmitResetDone ==
    /\ pc[Submitter] = "resetDone"
    /\ batch_data' = [batch_data EXCEPT !.done = 0]
    /\ pc' = [pc EXCEPT ![Submitter] = "publish"]
    /\ UNCHANGED <<batch_active, generation, async_queue, shutdown, my_gen, idx,
                   processed, job, aj, batchNo, runs, ajState>>

SubmitPublish ==
    /\ pc[Submitter] = "publish"
    /\ batch_active' = TRUE
    /\ generation' = generation + 1
    /\ processed' = [processed EXCEPT ![Submitter] = 0]
    /\ pc' = WakeWorkers([pc EXCEPT ![Submitter] = "claim"])
    /\ UNCHANGED <<batch_data, async_queue, shutdown, my_gen, idx, job, aj,
                   batchNo, runs, ajState>>

SubmitAwait ==
    /\ pc[Submitter] = "await"
    /\ IF BatchComplete
       THEN /\ pc' = [pc EXCEPT ![Submitter] = "idle"]
            /\ batch_active' = FALSE
       ELSE /\ pc' = [pc EXCEPT ![Submitter] = "waitDone"]
            /\ UNCHANGED batch_active
    /\ UNCHANGED <<batch_data, generation, async_queue, shutdown, my_gen, idx,
                   processed, job, aj, batchNo, runs, ajState>>

-----------------------------------------------------------------------------
(* Async jobs, seen from their client, and the pool's destruction.         *)

(* obmafs3_pool_async_job_create and obmafs3_pool_submit_async. *)
SubmitAsync(j) ==
    /\ ajState[j] = "new" /\ ~shutdown
    /\ ajState' = [ajState EXCEPT ![j] = "queued"]
    /\ async_queue' = Append(async_queue, j)
    /\ pc' = WakeWorkers(pc)
    /\ UNCHANGED <<batch_data, batch_active, generation, shutdown, my_gen, idx,
                   processed, job, aj, batchNo, runs>>

(* obmafs3_pool_wait_async returns once done is set; dedup_bg_wait then     *)
(* frees the job.                                                           *)
WaitAsyncAndFree(j) ==
    /\ ajState[j] = "done"
    /\ ajState' = [ajState EXCEPT ![j] = "freed"]
    /\ UNCHANGED <<poolVars, runVars, batchNo, runs>>

(* obmafs3_compress_pool_destroy.  obmafs3_close calls it when every file   *)
(* handle has been released, so no batch and no async job is in flight.     *)
PoolDestroy ==
    /\ ~shutdown
    /\ pc[Submitter] = "idle" /\ batchNo = Len(BatchTotals)
    /\ \A j \in AsyncJobs : ajState[j] = "freed"
    /\ shutdown' = TRUE
    /\ pc' = WakeWorkers(pc)
    /\ UNCHANGED <<batch_data, batch_active, generation, async_queue, my_gen, idx,
                   processed, job, aj, batchNo, runs, ajState>>

(* pthread_cond_wait may return without a signal. *)
SpuriousWakeup(r) ==
    /\ pc[r] \in {"waitWork", "waitDone"}
    /\ pc' = [pc EXCEPT ![r] = IF r = Submitter THEN "await" ELSE "top"]
    /\ UNCHANGED <<poolVars, my_gen, idx, processed, job, aj, batchNo, runs, ajState>>

Joined == shutdown /\ \A w \in Workers : pc[w] = "exited"

(* After the join the pool is freed and nothing more happens. *)
Terminated == Joined /\ UNCHANGED vars

WorkerStep(w) == WorkerTop(w) \/ WorkerRunAsync(w) \/ WorkerEndAsync(w)
RunStep(r) == ClaimJob(r) \/ TestClaim(r) \/ CompressJob(r) \/ CountDone(r) \/ SignalDone(r)
SubmitStep ==
    SubmitFill \/ SubmitResetNext \/ SubmitResetDone \/ SubmitPublish \/ SubmitAwait

Next ==
    \/ \E w \in Workers : WorkerStep(w)
    \/ \E r \in Runners : RunStep(r) \/ SpuriousWakeup(r)
    \/ SubmitStep
    \/ \E j \in AsyncJobs : SubmitAsync(j) \/ WaitAsyncAndFree(j)
    \/ PoolDestroy
    \/ Terminated

Spec == Init /\ [][Next]_vars

(* Every thread that can run is eventually scheduled; nothing is assumed    *)
(* of spurious wake-ups.                                                    *)
Fairness ==
    /\ \A w \in Workers : WF_vars(WorkerStep(w)) /\ WF_vars(RunStep(w))
    /\ WF_vars(SubmitStep) /\ WF_vars(RunStep(Submitter))
    /\ \A j \in AsyncJobs : WF_vars(SubmitAsync(j)) /\ WF_vars(WaitAsyncAndFree(j))
    /\ WF_vars(PoolDestroy)

FairSpec == Spec /\ Fairness
-----------------------------------------------------------------------------
(* Every field of the pool and every local of its threads has its type.    *)
TypeOK ==
    /\ batch_data \in [batch : Nat, total : Nat, next : Nat, done : Nat]
    /\ batch_active \in BOOLEAN /\ shutdown \in BOOLEAN
    /\ generation \in Nat /\ batchNo \in 0 .. Len(BatchTotals)
    /\ async_queue \in Seq(AsyncJobs)
    /\ pc \in [Runners -> {"idle", "top", "waitWork", "waitDone", "exited", "runAsync",
                           "endAsync", "claim", "test", "compress", "count", "signal",
                           "resetNext", "resetDone", "publish", "await"}]
    /\ my_gen \in [Workers -> Nat]
    /\ idx \in [Runners -> Nat] /\ processed \in [Runners -> Nat]
    /\ job \in [Runners -> JobSlots \cup {NoJob}]
    /\ aj \in [Workers -> AsyncJobs \cup {"none"}]
    /\ runs \in [JobSlots -> Nat]
    /\ ajState \in [AsyncJobs -> {"new", "queued", "running", "done", "freed"}]

(* compress_pool_submit "waits for completion": when it has returned, every *)
(* job of every batch submitted so far was compressed exactly once, and no  *)
(* thread still works on one of them (their buffers are freed by the        *)
(* caller).                                                                 *)
SubmitWaitsForCompletion ==
    pc[Submitter] = "idle" =>
        /\ \A b \in 1 .. batchNo : \A i \in 0 .. BatchTotals[b] - 1 :
               runs[[batch |-> b, index |-> i]] = 1
        /\ \A w \in Workers : pc[w] # "compress"

(* No job is ever claimed by two threads: they would write the same         *)
(* output buffer at the same time.                                          *)
NoJobClaimedTwice ==
    \A r, s \in Runners : r # s /\ pc[r] = "compress" /\ pc[s] = "compress" => job[r] # job[s]

(* Every job of a batch is compressed by exactly one thread, and its buffer *)
(* is nobody's by the time compress_pool_submit returns.                    *)
JobsRunOnce == SubmitWaitsForCompletion /\ NoJobClaimedTwice

(* A worker that holds an async job holds live memory: the client cannot    *)
(* have freed it, because done is set as the worker's last touch.           *)
NoUseOfFreedJob ==
    \A w \in Workers : pc[w] \in {"runAsync", "endAsync"} => ajState[aj[w]] = "running"

(* Every submission returns: neither a lost signal on batch_done nor a      *)
(* worker busy with async jobs can leave the submitter waiting.             *)
SubmitReturns == (pc[Submitter] = "claim") ~> (pc[Submitter] = "idle")

(* Every job obmafs3_pool_submit_async queues is run, waited for and freed. *)
AsyncJobsComplete == \A j \in AsyncJobs : (ajState[j] = "queued") ~> (ajState[j] = "freed")

(* Once obmafs3_compress_pool_destroy has asked the workers to stop, its    *)
(* pthread_join calls return.                                               *)
DestroyJoinsWorkers == shutdown ~> Joined

(* Everything handed to the pool, a batch or an async job, is completed and *)
(* waited for, although both queues share the workers and their wake-ups.   *)
SubmissionsComplete == SubmitReturns /\ AsyncJobsComplete
=============================================================================
