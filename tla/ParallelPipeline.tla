-------------------------- MODULE ParallelPipeline ---------------------------
(***************************************************************************)
(* What encode_jsonl_stream_parallel and decode_jsonl_stream_parallel have  *)
(* in common around the worker pool: a scheduler thread that numbers its    *)
(* jobs and sends them, a collector that puts the results back in order     *)
(* with a BTreeMap, and a calling thread that spawns the threads, collects, *)
(* joins the threads and leaves the thread::scope.                          *)
(*                                                                          *)
(* The two pipelines add where the jobs come from and what is written.      *)
(***************************************************************************)
EXTENDS WorkerPool

VARIABLES
    spc,           \* where the scheduler is
    outbox,        \* the job the scheduler is sending
    nextBlock,     \* its block counter
    nextRow,       \* its row counter
    sent,          \* history: the jobs sent, in order
    pending,       \* the collector's BTreeMap: blocks that came too early
    nextToWrite,   \* the collector's next_to_write
    resultCount,   \* the collector's result_count
    collected,     \* what the collector returned
    mpc,           \* where the calling thread is
    joined,        \* how many workers join_workers has joined
    verdict,       \* what the scope's closure returned
    outcome        \* what the call returned

senderVars    == <<outbox, nextBlock, nextRow, sent>>
schedulerVars == <<spc, senderVars>>
orderVars     == <<pending, nextToWrite, resultCount>>
mainVars      == <<mpc, joined, verdict, outcome>>
pipelineVars  == <<poolVars, schedulerVars, orderVars, collected, mainVars>>

SchedulerErrors == {"inputError", "poolStopped"}
SchedulerEnded  == SchedulerErrors \cup {"ok"}
SchedulerStates == SchedulerEnded \cup {"unspawned", "reading", "sending"}

CollectErrors == {"workerError", "writeError", "rowOrder", "incomplete"}

MainStates == {"start", "spawn", "collect", "drain", "joinScheduler",
               "joinWorkers", "finish", "leaveScope", "returned"}
Verdicts == SchedulerEnded \cup CollectErrors
                \cup {"headerError", "spawnError", "workerPanicked", "footerError"}

PipelineTypeOK ==
    /\ PoolTypeOK
    /\ spc \in SchedulerStates
    /\ outbox \in Block \cup {NoBlock}
    /\ nextBlock \in Nat
    /\ nextRow \in Nat
    /\ sent \in Seq(Block)
    /\ pending \in SUBSET Block
    /\ nextToWrite \in Nat
    /\ resultCount \in Nat
    /\ collected \in CollectErrors \cup {"none", "ok"}
    /\ mpc \in MainStates
    /\ joined \in 0..Workers
    /\ verdict \in Verdicts \cup {"none"}
    /\ outcome \in Verdicts \cup {"none", "scopePanic"}

PipelineInit ==
    /\ PoolInit
    /\ spc = "unspawned"
    /\ outbox = NoBlock
    /\ nextBlock = 0
    /\ nextRow = 0
    /\ sent = << >>
    /\ pending = {}
    /\ nextToWrite = 0
    /\ resultCount = 0
    /\ collected = "none"
    /\ mpc = "start"
    /\ joined = 0
    /\ verdict = "none"
    /\ outcome = "none"

-----------------------------------------------------------------------------
(* The scheduler thread: the ways it sends, and the ways it ends. *)

(* Bug: the row counter counts blocks. *)
SendCountsBlocks ==
    /\ spc = "sending"
    /\ JobRx
    /\ Len(jobs) < ChannelCapacity
    /\ jobs' = Append(jobs, outbox)
    /\ sent' = Append(sent, outbox)
    /\ nextBlock' = nextBlock + 1
    /\ nextRow' = nextRow + 1
    /\ UNCHANGED jobTx

(* send blocks while the channel is full; then the counters advance.  (After *)
(* its last group the encoder's scheduler does not count the rows any more:  *)
(* nobody reads that count.)                                                *)
Send ==
    /\ spc = "sending"
    /\ JobRx
    /\ Len(jobs) < ChannelCapacity
    /\ jobs' = Append(jobs, outbox)
    /\ sent' = Append(sent, outbox)
    /\ nextBlock' = nextBlock + 1
    /\ nextRow' = nextRow + Len(outbox.rows)
    /\ UNCHANGED jobTx

(* Bug: the job sender outlives the scheduler. *)
EndSchedulerKeepsSender(state) ==
    /\ spc' = state
    /\ UNCHANGED <<jobs, jobTx, senderVars>>

(* The thread returns and drops the job sender with its rows. *)
EndScheduler(state) ==
    /\ spc' = state
    /\ jobTx' = FALSE
    /\ UNCHANGED <<jobs, senderVars>>

(* Every worker is gone: "parallel worker pool stopped". *)
SendDisconnected ==
    /\ spc = "sending"
    /\ ~JobRx
    /\ EndScheduler("poolStopped")

(* What the scheduler leaves alone while it prepares the next job, and in   *)
(* all its steps.                                                           *)
PrepareFrame == UNCHANGED <<jobs, jobTx, nextBlock, nextRow, sent>>

SchedulerFrame ==
    UNCHANGED <<results, resultRx, lock, wpc, hand, orderVars, collected, mainVars>>

(* A worker, with the outcome of the job it processes. *)
PoolWorkerStep(w, succeeds) ==
    /\ WorkerExchange(w) \/ ProcessJob(w, succeeds)
    /\ UNCHANGED <<schedulerVars, orderVars, collected, mainVars>>

-----------------------------------------------------------------------------
(* The calling thread starts the others. *)

SpawnedWorkers == {w \in WorkerIds : wpc[w] # "unspawned"}

SpawnWorker ==
    /\ mpc = "spawn"
    /\ \E w \in WorkerIds :
          /\ SpawnedWorkers = 1..(w - 1)
          /\ Goto(w, "idle")
    /\ UNCHANGED <<jobs, results, jobTx, resultRx, lock, hand, schedulerVars,
                   orderVars, collected, mainVars>>

SpawnScheduler ==
    /\ mpc = "spawn"
    /\ SpawnedWorkers = WorkerIds
    /\ spc' = "reading"
    /\ mpc' = "collect"
    /\ UNCHANGED <<poolVars, senderVars, orderVars, collected, joined, verdict, outcome>>

(* The closure returns early and drops both ends it still owns. *)
SpawnFails ==
    /\ "spawn" \in Faults
    /\ mpc = "spawn"
    /\ jobTx' = FALSE
    /\ resultRx' = FALSE
    /\ verdict' = "spawnError"
    /\ mpc' = "leaveScope"
    /\ UNCHANGED <<jobs, results, lock, wpc, hand, schedulerVars, orderVars,
                   collected, joined, outcome>>

-----------------------------------------------------------------------------
(* The calling thread collects the results. *)

(* BTreeMap::insert replaces what the key had. *)
Insert(map, block) == {b \in map : b.index # block.index} \cup {block}

(* Bug: nothing is collected before every job is sent. *)
CollectBlockAfterScheduling ==
    /\ mpc = "collect"
    /\ spc \in SchedulerEnded
    /\ results # << >>
    /\ Head(results).ok
    /\ results' = Tail(results)
    /\ resultCount' = resultCount + 1
    /\ pending' = Insert(pending, Head(results).block)
    /\ mpc' = "drain"
    /\ UNCHANGED <<resultRx, nextToWrite, collected>>

CollectBlock ==
    /\ mpc = "collect"
    /\ results # << >>
    /\ Head(results).ok
    /\ results' = Tail(results)
    /\ resultCount' = resultCount + 1
    /\ pending' = Insert(pending, Head(results).block)
    /\ mpc' = "drain"
    /\ UNCHANGED <<resultRx, nextToWrite, collected>>

(* The collector returns, and with it goes the result receiver. *)
StopCollecting(result) ==
    /\ collected' = result
    /\ resultRx' = FALSE
    /\ results' = << >>
    /\ mpc' = "joinScheduler"

(* Bug: an error is remembered and the loop goes on. *)
CollectErrorGoesOn ==
    /\ mpc = "collect"
    /\ results # << >>
    /\ ~Head(results).ok
    /\ collected' = "workerError"
    /\ results' = Tail(results)
    /\ UNCHANGED <<orderVars, resultRx, mpc>>

CollectError ==
    /\ mpc = "collect"
    /\ results # << >>
    /\ ~Head(results).ok
    /\ StopCollecting("workerError")
    /\ UNCHANGED orderVars

(* Bug: the collector stops once the scheduler is done. *)
CollectUntilScheduled ==
    /\ mpc = "collect"
    /\ results = << >>
    /\ ~jobTx
    /\ StopCollecting(IF nextToWrite = resultCount /\ pending = {}
                      THEN "ok" ELSE "incomplete")
    /\ UNCHANGED orderVars

(* Every worker has dropped its sender: the collector checks its sums. *)
CollectDisconnected ==
    /\ mpc = "collect"
    /\ results = << >>
    /\ ~ResultTx
    /\ StopCollecting(IF nextToWrite = resultCount /\ pending = {}
                      THEN "ok" ELSE "incomplete")
    /\ UNCHANGED orderVars

(* Bug: results are written as they come. *)
ReadyInAnyOrder == pending

Ready == {b \in pending : b.index = nextToWrite}

NothingReady ==
    /\ mpc = "drain"
    /\ Ready = {}
    /\ mpc' = "collect"
    /\ UNCHANGED <<results, resultRx, orderVars, collected>>

(* A block leaves the map to be written. *)
Advance(block) ==
    /\ mpc = "drain"
    /\ pending' = pending \ {block}
    /\ nextToWrite' = nextToWrite + 1
    /\ UNCHANGED <<results, resultRx, resultCount, collected, mpc>>

GiveUp(block, result) ==
    /\ mpc = "drain"
    /\ pending' = pending \ {block}
    /\ StopCollecting(result)
    /\ UNCHANGED <<nextToWrite, resultCount>>

(* What the collector leaves alone in all its steps. *)
CollectorFrame ==
    UNCHANGED <<jobs, jobTx, lock, wpc, hand, schedulerVars, joined, verdict, outcome>>

(* The steps of the collector that write nothing. *)
ReceiveStep ==
    /\ CollectBlock \/ CollectError \/ CollectDisconnected \/ NothingReady
    /\ CollectorFrame

-----------------------------------------------------------------------------
(* The calling thread joins the others and leaves the scope. *)

(* join_scoped(scheduler)? *)
JoinScheduler ==
    /\ mpc = "joinScheduler"
    /\ spc \in SchedulerEnded
    /\ IF spc = "ok"
       THEN mpc' = "joinWorkers" /\ UNCHANGED verdict
       ELSE mpc' = "leaveScope" /\ verdict' = spc
    /\ UNCHANGED <<joined, outcome>>

(* join_workers(workers)?: in spawn order, up to the first that panicked. *)
JoinWorker ==
    /\ mpc = "joinWorkers"
    /\ joined < Workers
    /\ wpc[joined + 1] \in {"exited", "panicked"}
    /\ joined' = joined + 1
    /\ IF wpc[joined + 1] = "exited"
       THEN UNCHANGED <<mpc, verdict>>
       ELSE mpc' = "leaveScope" /\ verdict' = "workerPanicked"
    /\ UNCHANGED outcome

AllJoined ==
    /\ mpc = "joinWorkers"
    /\ joined = Workers
    /\ mpc' = "finish"
    /\ UNCHANGED <<joined, verdict, outcome>>

(* collected?, then the job count: nextBlock is what the scheduler returned.*)
IsComplete == collected = "ok" /\ resultCount = nextBlock

CollectedError ==
    /\ mpc = "finish"
    /\ ~IsComplete
    /\ verdict' = IF collected # "ok" THEN collected ELSE "incomplete"
    /\ mpc' = "leaveScope"
    /\ UNCHANGED <<joined, outcome>>

ThreadsEnded ==
    /\ \A w \in WorkerIds : wpc[w] \in Gone
    /\ spc \in SchedulerEnded \cup {"unspawned"}

(* Bug: nobody asks the workers that were not joined. *)
UnjoinedPanicIgnored == FALSE

(* A worker that panicked and was never joined makes the scope panic. *)
UnjoinedPanic == \E w \in WorkerIds : w > joined /\ wpc[w] = "panicked"

(* thread::scope waits for every thread before it returns. *)
LeaveScope ==
    /\ mpc = "leaveScope"
    /\ ThreadsEnded
    /\ outcome' = IF UnjoinedPanic THEN "scopePanic" ELSE verdict
    /\ mpc' = "returned"
    /\ UNCHANGED <<joined, verdict>>

JoinStep ==
    /\ \/ JoinScheduler \/ JoinWorker \/ AllJoined \/ CollectedError \/ LeaveScope
    /\ UNCHANGED <<poolVars, schedulerVars, orderVars, collected>>

SpawnStep == SpawnWorker \/ SpawnScheduler \/ SpawnFails

-----------------------------------------------------------------------------
(* Where the blocks are. *)

(* Until the collector gives up or a worker panics, every block sent is in  *)
(* exactly one place: a channel, a worker, the map or the output.           *)
Queued   == ToSet(jobs)
Answered == {results[i].block : i \in DOMAIN results}
Written  == {sent[k] : k \in 1..nextToWrite}

BlocksConserved ==
    (collected = "none" /\ \A w \in WorkerIds : wpc[w] # "panicked") =>
        /\ Queued \cup InHands \cup Answered \cup pending \cup Written = ToSet(sent)
        /\ Len(jobs) + Cardinality(InHands) + Len(results)
             + Cardinality(pending) + nextToWrite = Len(sent)

(* A write, a spawn or a thread failed: the environment, not the data. *)
EnvironmentFailed ==
    \/ collected = "writeError"
    \/ outcome \in {"spawnError", "workerPanicked", "scopePanic"}

(* A panic in a worker is never taken for anything else: the caller gets    *)
(* "worker panicked", or a panic of its own when nobody joined the worker.  *)
PanicSurfaces ==
    (mpc = "returned" /\ \E w \in WorkerIds : wpc[w] = "panicked") =>
        outcome \in {"workerPanicked", "scopePanic"}

-----------------------------------------------------------------------------
(* The inductive invariant the two pipelines share. *)

(* A thread holds a block exactly while it works on it or passes it on. *)
Busy == {"working", "done", "refused"}

HandsMatch ==
    /\ \A w \in WorkerIds : (hand[w] # NoBlock) <=> (wpc[w] \in Busy)
    /\ spc \in {"unspawned", "reading", "sending"} =>
           ((outbox # NoBlock) <=> (spc = "sending"))

(* The blocks are numbered, and their first rows counted, without a gap.    *)
JobsAreSequential ==
    \A k \in DOMAIN sent :
        /\ sent[k].index = k - 1
        /\ sent[k].first = IF k = 1 THEN 0
                           ELSE sent[k - 1].first + Len(sent[k - 1].rows)

(* The scheduler's counters are where the jobs it sent leave them.          *)
CountersMatch ==
    /\ nextBlock = Len(sent)
    /\ nextRow = IF sent = << >> THEN 0
                 ELSE sent[Len(sent)].first + Len(sent[Len(sent)].rows)
    /\ spc = "sending" => outbox.index = nextBlock /\ outbox.first = nextRow

(* Whatever travels is one of the jobs that were sent, unchanged. *)
IsIn(block, log) ==
    /\ block.index + 1 \in DOMAIN log
    /\ block = log[block.index + 1]

InFlightWasSent ==
    /\ \A i \in DOMAIN jobs : IsIn(jobs[i], sent)
    /\ \A w \in WorkerIds : wpc[w] \in Busy => IsIn(hand[w], sent)
    /\ \A i \in DOMAIN results : IsIn(results[i].block, sent)
    /\ \A b \in pending : IsIn(b, sent)

(* How far the threads must be when the calling thread is where it is. *)
Progress ==
    /\ mpc \in {"start", "spawn"} => spc = "unspawned"
    /\ mpc \in {"start", "spawn", "collect", "drain"} => collected = "none"
    /\ mpc \in {"joinScheduler", "joinWorkers", "finish"} => collected # "none"
    /\ mpc \notin {"leaveScope", "returned"} => verdict = "none"
    /\ mpc \in {"joinWorkers", "finish"} \/ verdict = "ok" => spc = "ok"
    /\ collected = "ok" => nextToWrite = resultCount
    /\ verdict = "ok" => collected = "ok" /\ resultCount = nextBlock
    /\ outcome # "none" => mpc = "returned"
    /\ outcome = "ok" => verdict = "ok"

(* What is written never runs ahead of what is sent. *)
NotAhead == nextToWrite <= Len(sent)

PipelineInv ==
    /\ PipelineTypeOK
    /\ HandsMatch
    /\ JobsAreSequential
    /\ CountersMatch
    /\ InFlightWasSent
    /\ NotAhead
    /\ Progress
-----------------------------------------------------------------------------
(* Who is there, and who has seen whom end. *)
ThreadsInv ==
    /\ spc # "unspawned" => \A w \in WorkerIds : wpc[w] # "unspawned"
    /\ mpc = "start" => \A w \in WorkerIds : wpc[w] = "unspawned"
    /\ mpc \in {"collect", "drain", "joinScheduler", "joinWorkers", "finish"} =>
           spc # "unspawned"
    /\ mpc \in {"start", "spawn", "collect", "drain"} => resultRx
    /\ collected = "none" => resultRx \/ spc = "unspawned"
    /\ \A w \in 1..joined : wpc[w] \in {"exited", "panicked"}
    /\ \A w \in 1..joined : wpc[w] = "panicked" => verdict = "workerPanicked"
    /\ mpc = "finish" \/ verdict = "ok" => joined = Workers
    /\ mpc = "returned" => ThreadsEnded
    /\ mpc = "returned" => outcome = IF UnjoinedPanic THEN "scopePanic" ELSE verdict

(* Where the blocks sent are: the last of them in the job channel, in order;*)
(* those in front of these and behind the ones written, each in one of the  *)
(* three other places.                                                      *)
Taken    == Len(sent) - Len(jobs)
InTransit(block) == block.index \in nextToWrite..Taken - 1
Different(a, b) == a.index # b.index

JobsAreLast ==
    /\ nextToWrite <= Taken
    /\ \A i \in DOMAIN jobs : jobs[i].index = Taken + i - 1

HandsApart ==
    \A w \in WorkerIds : wpc[w] \in Busy =>
        /\ InTransit(hand[w])
        /\ \A v \in WorkerIds : v # w /\ wpc[v] \in Busy => Different(hand[v], hand[w])
        /\ \A i \in DOMAIN results : Different(results[i].block, hand[w])
        /\ \A b \in pending : Different(b, hand[w])

ResultsApart ==
    \A i \in DOMAIN results :
        /\ InTransit(results[i].block)
        /\ \A j \in DOMAIN results : j # i => Different(results[j].block, results[i].block)
        /\ \A b \in pending : Different(b, results[i].block)

PendingApart == \A b \in pending : InTransit(b)

(* Nothing is lost while nobody gave up. *)
NoneLost == collected = "none" /\ \A w \in WorkerIds : wpc[w] # "panicked"

IsSomewhere(k) ==
    \/ \E w \in WorkerIds : wpc[w] \in Busy /\ hand[w].index = k
    \/ \E i \in DOMAIN results : results[i].block.index = k
    \/ \E b \in pending : b.index = k

BlocksCounted ==
    /\ IsFiniteSet(InHands) /\ IsFiniteSet(pending)
    /\ collected = "none" => resultCount = nextToWrite + Cardinality(pending)
    /\ NoneLost =>
        /\ \A k \in nextToWrite..Taken - 1 : IsSomewhere(k)
        /\ Cardinality(InHands) + Len(results) + Cardinality(pending) + nextToWrite = Taken

(* The collector waits for a result only when it can write none. *)
Drained ==
    /\ spc = "unspawned" => sent = << >>
    /\ mpc = "collect" => Ready = {}

BlocksInv ==
    /\ JobsAreLast
    /\ HandsApart
    /\ ResultsApart
    /\ PendingApart
    /\ BlocksCounted
    /\ Drained

(* Nobody stops before there is nothing left to do: what holds as long as no*)
(* input is refused and nothing in the environment fails.                   *)
NobodyStops ==
    /\ \A w \in WorkerIds : wpc[w] \notin {"refused", "panicked"}
    /\ \A i \in DOMAIN results : results[i].ok
    /\ spc \notin SchedulerErrors
    /\ jobTx <=> spc # "ok"
    /\ resultRx <=> collected = "none"
    /\ collected \in {"none", "ok"}
    /\ collected = "ok" => resultCount = Len(sent) /\ \A w \in WorkerIds : wpc[w] = "exited"
    /\ \A w \in WorkerIds : wpc[w] = "exited" => spc = "ok" /\ jobs = << >>
    /\ verdict \in {"none", "ok"}
    /\ outcome \in {"none", "ok"}
    /\ mpc \in {"leaveScope", "returned"} => verdict = "ok"
    /\ mpc = "returned" => outcome = "ok"
=============================================================================
