----------------------------- MODULE WorkerPool ------------------------------
(***************************************************************************)
(* The thread pool both parallel pipelines are built on: a scheduler thread *)
(* that sends jobs, worker threads that share one receiver behind a mutex,  *)
(* and a bounded channel that carries their results to the collector, which *)
(* is the calling thread.                                                   *)
(*                                                                          *)
(*    scheduler --jobs--> [mutex] workers --results--> collector            *)
(*                                                                          *)
(* A worker that waits for a job waits inside recv with the mutex held, so  *)
(* the others queue on the mutex.  An endpoint lives as long as the threads *)
(* that own it: the job receiver and the result senders as long as some     *)
(* worker, the job sender as long as the scheduler, the result receiver as  *)
(* long as the collector's loop.  A block that is still in a channel when   *)
(* its receiver is dropped is lost.                                         *)
(***************************************************************************)
EXTENDS Cmp2File

CONSTANTS Workers,       \* worker_count
          MaxWorkers,    \* limits::MAX_PARALLEL_WORKERS
          NoBlock,       \* a model value: no block
          Faults         \* the faults of the environment a run allows

ASSUME WorkersAssumption ==
    /\ MaxWorkers \in Nat
    /\ Workers \in 1..MaxWorkers    \* ParallelOptions::validate
    /\ NoBlock \notin Block

ASSUME FaultsAssumption == Faults \subseteq {"write", "spawn", "panic"}

WorkerIds == 1..Workers
Unlocked  == 0
ChannelCapacity == 2 * Workers

VARIABLES
    jobs,       \* the job channel
    results,    \* the result channel
    jobTx,      \* TRUE while the job sender exists
    resultRx,   \* TRUE while the result receiver exists
    lock,       \* the worker that holds the mutex of the job receiver
    wpc,        \* where each worker is
    hand        \* the block each worker holds

poolVars == <<jobs, results, jobTx, resultRx, lock, wpc, hand>>

Result == [ok : BOOLEAN, block : Block]

WorkerStates == {"unspawned", "idle", "receiving", "working", "done",
                 "refused", "exited", "panicked"}
Gone == {"unspawned", "exited", "panicked"}

(* The Arc of the job receiver and the result senders live in the workers. *)
JobRx    == \E w \in WorkerIds : wpc[w] \notin Gone
ResultTx == \E w \in WorkerIds : wpc[w] \notin Gone

PoolTypeOK ==
    /\ jobs \in Seq(Block)
    /\ results \in Seq(Result)
    /\ jobTx \in BOOLEAN
    /\ resultRx \in BOOLEAN
    /\ lock \in WorkerIds \cup {Unlocked}
    /\ wpc \in [WorkerIds -> WorkerStates]
    /\ hand \in [WorkerIds -> Block \cup {NoBlock}]

PoolInit ==
    /\ jobs = << >>
    /\ results = << >>
    /\ jobTx = TRUE
    /\ resultRx = TRUE
    /\ lock = Unlocked
    /\ wpc = [w \in WorkerIds |-> "unspawned"]
    /\ hand = [w \in WorkerIds |-> NoBlock]

Goto(w, state) == wpc' = [wpc EXCEPT ![w] = state]

-----------------------------------------------------------------------------
(* One worker: worker_loop and decode_worker_loop have the same steps. *)

LockReceiver(w) ==
    /\ wpc[w] = "idle"
    /\ lock = Unlocked
    /\ lock' = w
    /\ Goto(w, "receiving")
    /\ UNCHANGED <<jobs, results, jobTx, resultRx, hand>>

(* Bug: the job stays in the channel. *)
ReceiveJobPeeks(w) ==
    /\ wpc[w] = "receiving"
    /\ jobs # << >>
    /\ hand' = [hand EXCEPT ![w] = Head(jobs)]
    /\ lock' = Unlocked
    /\ Goto(w, "working")
    /\ UNCHANGED <<jobs, results, jobTx, resultRx>>

ReceiveJob(w) ==
    /\ wpc[w] = "receiving"
    /\ jobs # << >>
    /\ hand' = [hand EXCEPT ![w] = Head(jobs)]
    /\ jobs' = Tail(jobs)
    /\ lock' = Unlocked
    /\ Goto(w, "working")
    /\ UNCHANGED <<results, jobTx, resultRx>>

(* recv fails only on an empty channel whose sender is gone. *)
ReceiveDisconnected(w) ==
    /\ wpc[w] = "receiving"
    /\ jobs = << >>
    /\ ~jobTx
    /\ lock' = Unlocked
    /\ Goto(w, "exited")
    /\ UNCHANGED <<jobs, results, jobTx, resultRx, hand>>

(* encode_job or decode_job returns; `succeeds` says whether with Ok. *)
ProcessJob(w, succeeds) ==
    /\ wpc[w] = "working"
    /\ Goto(w, IF succeeds THEN "done" ELSE "refused")
    /\ UNCHANGED <<jobs, results, jobTx, resultRx, lock, hand>>

(* The job panics.  The mutex guard was dropped with the `let job` statement*)
(* so the mutex is not poisoned.                                            *)
Panic(w) ==
    /\ "panic" \in Faults
    /\ wpc[w] = "working"
    /\ Goto(w, "panicked")
    /\ hand' = [hand EXCEPT ![w] = NoBlock]
    /\ UNCHANGED <<jobs, results, jobTx, resultRx, lock>>

SendResult(w) ==
    /\ wpc[w] \in {"done", "refused"}
    /\ resultRx
    /\ Len(results) < ChannelCapacity
    /\ results' = Append(results, [ok |-> wpc[w] = "done", block |-> hand[w]])
    /\ hand' = [hand EXCEPT ![w] = NoBlock]
    /\ Goto(w, "idle")
    /\ UNCHANGED <<jobs, jobTx, resultRx, lock>>

SendResultDisconnected(w) ==
    /\ wpc[w] \in {"done", "refused"}
    /\ ~resultRx
    /\ hand' = [hand EXCEPT ![w] = NoBlock]
    /\ Goto(w, "exited")
    /\ UNCHANGED <<jobs, results, jobTx, resultRx, lock>>

(* The steps a worker takes around the processing of a job. *)
WorkerExchange(w) ==
    \/ LockReceiver(w)
    \/ ReceiveJob(w)
    \/ ReceiveDisconnected(w)
    \/ Panic(w)
    \/ SendResult(w)
    \/ SendResultDisconnected(w)

-----------------------------------------------------------------------------
(* Where the blocks are. *)

InHands == {hand[w] : w \in WorkerIds} \ {NoBlock}

(* Only the worker inside recv holds the mutex, and nobody else is there. *)
MutexExclusive ==
    \A w \in WorkerIds : (lock = w) <=> (wpc[w] = "receiving")

ChannelsBounded ==
    /\ Len(jobs) <= ChannelCapacity
    /\ Len(results) <= ChannelCapacity
=============================================================================
