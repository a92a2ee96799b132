----------------------- MODULE ParallelPipeline_proofs -----------------------
(***************************************************************************)
(* What the two pipelines share is proved once: every step of a worker, of  *)
(* the collector's receiving half and of the calling thread around it       *)
(* preserves PipelineInv, and so do the scheduler's and the writing steps   *)
(* under what the pipelines add to them.  The same for two invariants that  *)
(* say who is still there and where the blocks are: ThreadsInv, from which  *)
(* it follows that no panic is lost, and BlocksInv, from which it follows   *)
(* that no block is.                                                        *)
(***************************************************************************)
EXTENDS ParallelPipeline, FiniteSetTheorems, TLAPS

USE DEF SchedulerStates, SchedulerErrors, SchedulerEnded, CollectErrors,
        MainStates, Verdicts, WorkerStates

LEMMA Constants ==
    /\ Workers \in Nat \ {0}
    /\ WorkerIds \subseteq Nat \ {0}
    /\ Unlocked \notin WorkerIds
    /\ NoBlock \notin Block
BY WorkersAssumption DEF WorkerIds, Unlocked

LEMMA PipelineInitInv == PipelineInit => PipelineInv
<1> SUFFICES ASSUME PipelineInit
             PROVE  PipelineInv
  OBVIOUS
<1>1. PipelineTypeOK
  BY Constants DEF PipelineInit, PoolInit, PipelineTypeOK, PoolTypeOK
<1>2. HandsMatch /\ InFlightWasSent
  BY Constants DEF PipelineInit, PoolInit, HandsMatch, InFlightWasSent, Busy
<1>3. JobsAreSequential /\ CountersMatch /\ NotAhead /\ Progress
  BY DEF PipelineInit, JobsAreSequential, CountersMatch, NotAhead, Progress
<1> QED
  BY <1>1, <1>2, <1>3 DEF PipelineInv

(* A step that leaves all its variables alone preserves the invariant.      *)
LEMMA PipelineStutter ==
    ASSUME PipelineInv, UNCHANGED pipelineVars
    PROVE  PipelineInv'
BY DEF PipelineInv, PipelineTypeOK, PoolTypeOK, HandsMatch, JobsAreSequential,
       CountersMatch, InFlightWasSent, NotAhead, Progress, pipelineVars,
       poolVars, schedulerVars, senderVars, orderVars, mainVars

-----------------------------------------------------------------------------
(* A worker's steps. *)

LEMMA WorkerFrame ==
    ASSUME NEW w, NEW succeeds, PoolWorkerStep(w, succeeds)
    PROVE  UNCHANGED <<spc, outbox, nextBlock, nextRow, sent, pending, nextToWrite,
                       resultCount, collected, mpc, joined, verdict, outcome>>
BY DEF PoolWorkerStep, schedulerVars, senderVars, orderVars, mainVars

LEMMA AnswerType ==
    ASSUME PipelineTypeOK, HandsMatch, NEW w \in WorkerIds,
           wpc[w] \in {"done", "refused"}
    PROVE  [ok |-> wpc[w] = "done", block |-> hand[w]] \in Result
<1>1. hand[w] \in Block
  BY DEF HandsMatch, Busy, PipelineTypeOK, PoolTypeOK
<1>2. (wpc[w] = "done") \in BOOLEAN
  OBVIOUS
<1> QED
  BY <1>1, <1>2, Zenon DEF Result

LEMMA WorkerTypeOK ==
    ASSUME PipelineTypeOK, HandsMatch, NEW w \in WorkerIds, NEW succeeds,
           PoolWorkerStep(w, succeeds)
    PROVE  PipelineTypeOK'
<1> USE WorkerFrame DEF PipelineTypeOK, PoolTypeOK, Goto
<1>1. CASE LockReceiver(w)
  BY <1>1 DEF LockReceiver
<1>2. CASE ReceiveJob(w)
  BY <1>2 DEF ReceiveJob
<1>3. CASE ReceiveDisconnected(w)
  BY <1>3 DEF ReceiveDisconnected
<1>4. CASE ProcessJob(w, succeeds)
  BY <1>4 DEF ProcessJob
<1>5. CASE Panic(w)
  BY <1>5 DEF Panic
<1>6. CASE SendResult(w)
  <2> DEFINE answer == [ok |-> wpc[w] = "done", block |-> hand[w]]
  <2>1. answer \in Result
    BY <1>6, AnswerType DEF SendResult
  <2>2. results' = Append(results, answer)
    BY <1>6 DEF SendResult
  <2> HIDE DEF answer
  <2> QED
    BY <1>6, <2>1, <2>2 DEF SendResult
<1>7. CASE SendResultDisconnected(w)
  BY <1>7 DEF SendResultDisconnected
<1> QED
  BY <1>1, <1>2, <1>3, <1>4, <1>5, <1>6, <1>7 DEF PoolWorkerStep, WorkerExchange

LEMMA WorkerHandsMatch ==
    ASSUME PipelineTypeOK, HandsMatch, NEW w \in WorkerIds, NEW succeeds,
           PoolWorkerStep(w, succeeds)
    PROVE  HandsMatch'
<1> USE Constants, WorkerFrame DEF PipelineTypeOK, PoolTypeOK, HandsMatch, Busy, Goto
<1>1. CASE LockReceiver(w)
  BY <1>1 DEF LockReceiver
<1>2. CASE ReceiveJob(w)
  BY <1>2 DEF ReceiveJob
<1>3. CASE ReceiveDisconnected(w)
  BY <1>3 DEF ReceiveDisconnected
<1>4. CASE ProcessJob(w, succeeds)
  BY <1>4 DEF ProcessJob
<1>5. CASE Panic(w)
  BY <1>5 DEF Panic
<1>6. CASE SendResult(w)
  BY <1>6 DEF SendResult
<1>7. CASE SendResultDisconnected(w)
  BY <1>7 DEF SendResultDisconnected
<1> QED
  BY <1>1, <1>2, <1>3, <1>4, <1>5, <1>6, <1>7 DEF PoolWorkerStep, WorkerExchange

LEMMA WorkerInFlight ==
    ASSUME PipelineTypeOK, HandsMatch, InFlightWasSent, NEW w \in WorkerIds,
           NEW succeeds, PoolWorkerStep(w, succeeds)
    PROVE  InFlightWasSent'
<1> USE Constants, WorkerFrame DEF PipelineTypeOK, PoolTypeOK, InFlightWasSent, Busy, Goto
<1>1. CASE LockReceiver(w)
  BY <1>1 DEF LockReceiver
<1>2. CASE ReceiveJob(w)
  <2>1. /\ Head(jobs) = jobs[1] /\ 1 \in DOMAIN jobs
        /\ \A i \in DOMAIN Tail(jobs) : /\ i + 1 \in DOMAIN jobs
                                        /\ Tail(jobs)[i] = jobs[i + 1]
    BY <1>2 DEF ReceiveJob
  <2> QED
    BY <1>2, <2>1 DEF ReceiveJob
<1>3. CASE ReceiveDisconnected(w)
  BY <1>3 DEF ReceiveDisconnected
<1>4. CASE ProcessJob(w, succeeds)
  BY <1>4 DEF ProcessJob
<1>5. CASE Panic(w)
  BY <1>5 DEF Panic
<1>6. CASE SendResult(w)
  <2> DEFINE answer == [ok |-> wpc[w] = "done", block |-> hand[w]]
  <2>1. answer.block = hand[w]
    OBVIOUS
  <2>2. results' = Append(results, answer)
    BY <1>6 DEF SendResult
  <2>3. UNCHANGED <<sent, jobs, pending>>
    BY <1>6 DEF SendResult
  <2> HIDE DEF answer
  <2>4. IsIn(answer.block, sent)
    BY <1>6, <2>1 DEF SendResult
  <2>5. \A i \in DOMAIN results' : IsIn(results'[i].block, sent)
    BY <2>2, <2>4
  <2>6. \A v \in WorkerIds : wpc'[v] \in Busy => IsIn(hand'[v], sent)
    BY <1>6 DEF SendResult
  <2> QED
    BY <2>3, <2>5, <2>6
<1>7. CASE SendResultDisconnected(w)
  BY <1>7 DEF SendResultDisconnected
<1> QED
  BY <1>1, <1>2, <1>3, <1>4, <1>5, <1>6, <1>7 DEF PoolWorkerStep, WorkerExchange

LEMMA WorkerInv ==
    ASSUME PipelineInv, NEW w \in WorkerIds, NEW succeeds,
           PoolWorkerStep(w, succeeds)
    PROVE  PipelineInv'
<1> USE DEF PipelineInv
<1>1. JobsAreSequential' /\ CountersMatch' /\ NotAhead' /\ Progress'
  BY WorkerFrame DEF JobsAreSequential, CountersMatch, NotAhead, Progress
<1> QED
  BY <1>1, WorkerTypeOK, WorkerHandsMatch, WorkerInFlight

-----------------------------------------------------------------------------
(* The scheduler's steps. *)

LEMMA SchedulerFrameFacts ==
    ASSUME SchedulerFrame
    PROVE  UNCHANGED <<results, resultRx, lock, wpc, hand, pending, nextToWrite,
                       resultCount, collected, mpc, joined, verdict, outcome>>
BY DEF SchedulerFrame, orderVars, mainVars

(* A scheduler that reads or sends has a calling thread that collects, or   *)
(* has stopped to: nobody has seen it end.                                  *)
LEMMA RunningScheduler ==
    ASSUME Progress, spc \in {"reading", "sending"}
    PROVE  /\ mpc \notin {"start", "spawn", "joinWorkers", "finish"}
           /\ verdict # "ok"
BY DEF Progress

(* It prepares the next job, or reads on. *)
LEMMA PrepareInv ==
    ASSUME PipelineInv, spc = "reading", PrepareFrame, SchedulerFrame,
           spc' \in {"reading", "sending"},
           outbox' \in Block \cup {NoBlock},
           (outbox' # NoBlock) <=> (spc' = "sending"),
           spc' = "sending" => outbox'.index = nextBlock /\ outbox'.first = nextRow
    PROVE  PipelineInv'
<1> USE SchedulerFrameFacts DEF PipelineInv, PrepareFrame
<1>1. PipelineTypeOK'
  BY DEF PipelineTypeOK, PoolTypeOK
<1>2. HandsMatch'
  BY DEF HandsMatch
<1>3. JobsAreSequential' /\ CountersMatch' /\ InFlightWasSent' /\ NotAhead'
  BY DEF JobsAreSequential, CountersMatch, InFlightWasSent, NotAhead
<1>4. Progress'
  BY RunningScheduler DEF Progress
<1> QED
  BY <1>1, <1>2, <1>3, <1>4

(* It ends. *)
LEMMA EndInv ==
    ASSUME PipelineInv, spc \in {"reading", "sending"},
           NEW state \in SchedulerEnded, EndScheduler(state), SchedulerFrame
    PROVE  PipelineInv'
<1> USE SchedulerFrameFacts DEF PipelineInv
<1>1. jobTx' \in BOOLEAN
  BY Zenon DEF EndScheduler
<1>2. /\ spc' = state
      /\ UNCHANGED <<jobs, outbox, nextBlock, nextRow, sent>>
  BY DEF EndScheduler, senderVars
<1>3. PipelineTypeOK'
  BY <1>1, <1>2 DEF PipelineTypeOK, PoolTypeOK
<1>4. HandsMatch'
  BY <1>2 DEF HandsMatch
<1>5. JobsAreSequential' /\ CountersMatch' /\ InFlightWasSent' /\ NotAhead'
  BY <1>2 DEF JobsAreSequential, CountersMatch, InFlightWasSent, NotAhead
<1>6. Progress'
  BY <1>2, RunningScheduler DEF Progress
<1> QED
  BY <1>3, <1>4, <1>5, <1>6

LEMMA SendFacts ==
    ASSUME PipelineInv, Send
    PROVE  /\ outbox \in Block
           /\ outbox.index = Len(sent)
           /\ outbox.first = nextRow
           /\ Len(outbox.rows) \in Nat
           /\ sent \in Seq(Block)
           /\ sent' = Append(sent, outbox)
           /\ sent' \in Seq(Block)
           /\ Len(sent) \in Nat
           /\ Len(sent') = Len(sent) + 1
           /\ sent'[Len(sent) + 1] = outbox
           /\ \A k \in DOMAIN sent : sent'[k] = sent[k]
           /\ DOMAIN sent = 1..Len(sent)
           /\ DOMAIN sent' = 1..(Len(sent) + 1)
           /\ nextBlock' \in Nat
           /\ nextRow' \in Nat
<1>1. outbox \in Block
  BY DEF PipelineInv, PipelineTypeOK, HandsMatch, Send
<1>2. outbox.rows \in Seq(Row)
  BY <1>1 DEF Block
<1>3. Len(outbox.rows) \in Nat
  BY <1>2
<1>4. sent \in Seq(Block) /\ sent' = Append(sent, outbox)
  BY DEF PipelineInv, PipelineTypeOK, Send
<1>5. nextBlock' \in Nat /\ nextRow' \in Nat
  BY <1>3 DEF PipelineInv, PipelineTypeOK, Send
<1> QED
  BY <1>1, <1>3, <1>4, <1>5 DEF PipelineInv, CountersMatch, Send

LEMMA SendNumbering ==
    ASSUME PipelineInv, Send
    PROVE  JobsAreSequential'
<1> SUFFICES ASSUME NEW k \in DOMAIN sent'
             PROVE  /\ sent'[k].index = k - 1
                    /\ sent'[k].first = IF k = 1 THEN 0
                           ELSE sent'[k - 1].first + Len(sent'[k - 1].rows)
  BY DEF JobsAreSequential
<1>1. k # 1 => k - 1 \in DOMAIN sent
  BY SendFacts
<1>2. CASE k \in DOMAIN sent
  BY <1>1, <1>2, SendFacts DEF PipelineInv, JobsAreSequential
<1>3. CASE k = Len(sent) + 1
  <2>1. sent = << >> <=> Len(sent) = 0
    BY SendFacts
  <2> QED
    BY <1>1, <1>3, <2>1, SendFacts DEF PipelineInv, CountersMatch
<1> QED
  BY <1>2, <1>3, SendFacts

(* It sends, and goes on to prepare the next job or to read. *)
LEMMA SendInv ==
    ASSUME PipelineInv, Send, SchedulerFrame,
           spc' \in {"reading", "sending"},
           outbox' \in Block \cup {NoBlock},
           (outbox' # NoBlock) <=> (spc' = "sending"),
           spc' = "sending" => outbox'.index = nextBlock' /\ outbox'.first = nextRow'
    PROVE  PipelineInv'
<1> USE SchedulerFrameFacts
<1>1. PipelineTypeOK'
  BY SendFacts DEF PipelineInv, PipelineTypeOK, PoolTypeOK, Send
<1>2. HandsMatch'
  BY DEF PipelineInv, HandsMatch
<1>3. JobsAreSequential'
  BY SendNumbering
<1>4. CountersMatch'
  <2>1. nextBlock' = Len(sent')
    BY SendFacts DEF PipelineInv, CountersMatch, Send
  <2>2. /\ nextRow' = sent'[Len(sent')].first + Len(sent'[Len(sent')].rows)
        /\ sent' # << >>
    BY SendFacts DEF Send
  <2> QED
    BY <2>1, <2>2 DEF CountersMatch
<1>5. InFlightWasSent'
  <2>1. ASSUME NEW b, IsIn(b, sent)
        PROVE  IsIn(b, sent')
    BY <2>1, SendFacts DEF IsIn
  <2>2. IsIn(outbox, sent')
    BY SendFacts DEF IsIn
  <2>3. \A i \in DOMAIN jobs' : IsIn(jobs'[i], sent')
    BY <2>1, <2>2 DEF Send, PipelineInv, InFlightWasSent, PipelineTypeOK, PoolTypeOK
  <2> QED
    BY <2>1, <2>3 DEF PipelineInv, InFlightWasSent
<1>6. NotAhead'
  BY SendFacts DEF PipelineInv, NotAhead, PipelineTypeOK
<1>7. Progress'
  BY RunningScheduler DEF PipelineInv, Progress, Send
<1> QED
  BY <1>1, <1>2, <1>3, <1>4, <1>5, <1>6, <1>7 DEF PipelineInv

-----------------------------------------------------------------------------
(* The calling thread's steps. *)

(* A step that only says where the calling thread is.                       *)
LEMMA MainOnlyInv ==
    ASSUME PipelineInv,
           UNCHANGED <<jobs, results, lock, hand, schedulerVars, orderVars>>,
           jobTx' \in BOOLEAN, resultRx' \in BOOLEAN,
           wpc' \in [WorkerIds -> WorkerStates],
           \A w \in WorkerIds : wpc'[w] \in Busy <=> wpc[w] \in Busy,
           mpc' \in MainStates,
           joined' \in 0..Workers,
           collected' \in CollectErrors \cup {"none", "ok"},
           verdict' \in Verdicts \cup {"none"},
           outcome' \in Verdicts \cup {"none", "scopePanic"},
           Progress'
    PROVE  PipelineInv'
<1> USE DEF PipelineInv, schedulerVars, senderVars, orderVars
<1>1. PipelineTypeOK'
  BY DEF PipelineTypeOK, PoolTypeOK
<1>2. HandsMatch' /\ InFlightWasSent'
  BY DEF HandsMatch, InFlightWasSent
<1>3. JobsAreSequential' /\ CountersMatch' /\ NotAhead'
  BY DEF JobsAreSequential, CountersMatch, NotAhead
<1> QED
  BY <1>1, <1>2, <1>3

LEMMA SpawnInv ==
    ASSUME PipelineInv, SpawnStep
    PROVE  PipelineInv'
<1> USE DEF PipelineInv
<1>1. CASE SpawnWorker
  <2>1. PICK w \in WorkerIds : /\ SpawnedWorkers = 1..(w - 1)
                               /\ Goto(w, "idle")
    BY <1>1 DEF SpawnWorker
  <2>2. wpc[w] = "unspawned"
    BY <2>1, Constants DEF SpawnedWorkers
  <2>3. /\ wpc' \in [WorkerIds -> WorkerStates]
        /\ \A v \in WorkerIds : wpc'[v] \in Busy <=> wpc[v] \in Busy
    BY <2>1, <2>2 DEF Goto, Busy, PipelineTypeOK, PoolTypeOK
  <2>4. Progress'
    BY <1>1 DEF SpawnWorker, Progress, schedulerVars, senderVars, orderVars, mainVars
  <2> QED
    BY <1>1, <2>3, <2>4, MainOnlyInv DEF SpawnWorker, mainVars, PipelineTypeOK, PoolTypeOK
<1>2. CASE SpawnScheduler
  <2>1. /\ spc = "unspawned" /\ spc' = "reading"
        /\ mpc = "spawn" /\ mpc' = "collect"
        /\ UNCHANGED <<jobs, results, jobTx, resultRx, lock, wpc, hand, outbox,
                       nextBlock, nextRow, sent, pending, nextToWrite,
                       resultCount, collected, joined, verdict, outcome>>
    BY <1>2 DEF SpawnScheduler, Progress, poolVars, senderVars, orderVars
  <2>2. PipelineTypeOK'
    BY <2>1 DEF PipelineTypeOK, PoolTypeOK
  <2>3. HandsMatch' /\ InFlightWasSent'
    BY <2>1 DEF HandsMatch, InFlightWasSent
  <2>4. JobsAreSequential' /\ CountersMatch' /\ NotAhead'
    BY <2>1 DEF JobsAreSequential, CountersMatch, NotAhead
  <2>5. Progress'
    BY <2>1 DEF Progress
  <2> QED
    BY <2>2, <2>3, <2>4, <2>5
<1>3. CASE SpawnFails
  <2>1. jobTx' \in BOOLEAN /\ resultRx' \in BOOLEAN
    BY <1>3, Zenon DEF SpawnFails
  <2>2. Progress'
    BY <1>3 DEF SpawnFails, Progress, schedulerVars, senderVars, orderVars
  <2> QED
    BY <1>3, <2>1, <2>2, MainOnlyInv DEF SpawnFails, PipelineTypeOK, PoolTypeOK
<1> QED
  BY <1>1, <1>2, <1>3 DEF SpawnStep

LEMMA JoinInv ==
    ASSUME PipelineInv, JoinStep
    PROVE  PipelineInv'
<1> USE DEF PipelineInv
<1>1. UNCHANGED <<jobs, results, jobTx, resultRx, lock, wpc, hand, spc, outbox,
                  nextBlock, nextRow, sent, pending, nextToWrite, resultCount,
                  collected>>
  BY DEF JoinStep, poolVars, schedulerVars, senderVars, orderVars
<1>2. /\ mpc' \in MainStates
      /\ joined' \in 0..Workers
      /\ verdict' \in Verdicts \cup {"none"}
      /\ outcome' \in Verdicts \cup {"none", "scopePanic"}
  <2> USE Constants DEF PipelineTypeOK
  <2>1. CASE JoinScheduler
    BY <2>1 DEF JoinScheduler
  <2>2. CASE JoinWorker
    BY <2>2 DEF JoinWorker
  <2>3. CASE AllJoined
    BY <2>3 DEF AllJoined
  <2>4. CASE CollectedError
    BY <2>4 DEF CollectedError
  <2>5. CASE LeaveScope
    BY <2>5 DEF LeaveScope
  <2> QED
    BY <2>1, <2>2, <2>3, <2>4, <2>5 DEF JoinStep
<1>3. Progress'
  <2> USE <1>1 DEF Progress
  <2>1. CASE JoinScheduler
    BY <2>1 DEF JoinScheduler
  <2>2. CASE JoinWorker
    BY <2>2 DEF JoinWorker
  <2>3. CASE AllJoined
    BY <2>3 DEF AllJoined
  <2>4. CASE CollectedError
    BY <2>4 DEF CollectedError, PipelineTypeOK
  <2>5. CASE LeaveScope
    BY <2>5 DEF LeaveScope
  <2> QED
    BY <2>1, <2>2, <2>3, <2>4, <2>5 DEF JoinStep
<1> QED
  BY <1>1, <1>2, <1>3, MainOnlyInv DEF schedulerVars, senderVars, orderVars,
     PipelineTypeOK, PoolTypeOK
-----------------------------------------------------------------------------
(* The collector's steps. *)

LEMMA CollectorFrameFacts ==
    ASSUME CollectorFrame
    PROVE  UNCHANGED <<jobs, jobTx, lock, wpc, hand, spc, outbox, nextBlock,
                       nextRow, sent, joined, verdict, outcome>>
BY DEF CollectorFrame, schedulerVars, senderVars

(* The collector ends only while nobody has seen it end. *)
LEMMA StopCollectingInv ==
    ASSUME PipelineInv, mpc \in {"collect", "drain"}, CollectorFrame,
           NEW result \in CollectErrors \cup {"ok"}, StopCollecting(result),
           pending' \in SUBSET pending,
           UNCHANGED <<nextToWrite, resultCount>>,
           result = "ok" => nextToWrite = resultCount
    PROVE  PipelineInv'
<1> USE CollectorFrameFacts DEF PipelineInv
<1>1. resultRx' \in BOOLEAN
  BY Zenon DEF StopCollecting
<1>2. /\ collected' = result /\ result # "none"
      /\ results' = << >>
      /\ mpc' = "joinScheduler"
  BY DEF StopCollecting
<1>3. PipelineTypeOK'
  BY <1>1, <1>2 DEF PipelineTypeOK, PoolTypeOK
<1>4. HandsMatch' /\ JobsAreSequential' /\ CountersMatch' /\ NotAhead'
  BY DEF HandsMatch, JobsAreSequential, CountersMatch, NotAhead
<1>5. InFlightWasSent'
  BY <1>2 DEF InFlightWasSent
<1>6. Progress'
  BY <1>2 DEF Progress
<1> QED
  BY <1>3, <1>4, <1>5, <1>6

LEMMA ReceiveInv ==
    ASSUME PipelineInv, ReceiveStep
    PROVE  PipelineInv'
<1> USE CollectorFrameFacts DEF ReceiveStep
<1>1. CASE CollectBlock
  <2> DEFINE answer == Head(results)
  <2>1. /\ results \in Seq(Result)
        /\ results # << >>
        /\ pending \in SUBSET Block
    BY <1>1 DEF PipelineInv, PipelineTypeOK, PoolTypeOK, CollectBlock
  <2>2. /\ answer \in Result
        /\ answer = results[1]
        /\ 1 \in DOMAIN results
        /\ Tail(results) \in Seq(Result)
        /\ \A i \in DOMAIN Tail(results) : /\ i + 1 \in DOMAIN results
                                           /\ Tail(results)[i] = results[i + 1]
    BY <2>1
  <2>3. /\ results' = Tail(results)
        /\ pending' = Insert(pending, answer.block)
        /\ resultCount' = resultCount + 1
        /\ mpc = "collect" /\ mpc' = "drain"
        /\ UNCHANGED <<resultRx, nextToWrite, collected>>
    BY <1>1 DEF CollectBlock
  <2>4. answer.block \in Block
    BY <2>2 DEF Result
  <2>5. IsIn(answer.block, sent)
    BY <2>2 DEF PipelineInv, InFlightWasSent
  <2> HIDE DEF answer
  <2>6. pending' \subseteq pending \cup {answer.block}
    BY <2>3 DEF Insert
  <2>7. PipelineTypeOK'
    BY <2>1, <2>2, <2>3, <2>4, <2>6 DEF PipelineInv, PipelineTypeOK, PoolTypeOK
  <2>8. HandsMatch' /\ JobsAreSequential' /\ CountersMatch' /\ NotAhead'
    BY <2>3 DEF PipelineInv, HandsMatch, JobsAreSequential, CountersMatch, NotAhead
  <2>9. InFlightWasSent'
    BY <2>2, <2>3, <2>5, <2>6 DEF PipelineInv, InFlightWasSent
  <2>10. Progress'
    BY <2>3 DEF PipelineInv, Progress
  <2> QED
    BY <2>7, <2>8, <2>9, <2>10 DEF PipelineInv
<1>2. CASE CollectError
  BY <1>2, StopCollectingInv DEF CollectError, orderVars
<1>3. CASE CollectDisconnected
  BY <1>3, StopCollectingInv DEF CollectDisconnected, orderVars
<1>4. CASE NothingReady
  <2>1. /\ mpc = "drain" /\ mpc' = "collect"
        /\ UNCHANGED <<results, resultRx, pending, nextToWrite, resultCount, collected>>
    BY <1>4 DEF NothingReady, orderVars
  <2>2. Progress'
    BY <2>1 DEF PipelineInv, Progress
  <2> QED
    BY <2>1, <2>2, MainOnlyInv DEF PipelineInv, PipelineTypeOK, PoolTypeOK,
       schedulerVars, senderVars, orderVars
<1> QED
  BY <1>1, <1>2, <1>3, <1>4

(* The block that is ready is the next job that was sent. *)
LEMMA ReadyIsNext ==
    ASSUME PipelineInv, NEW b \in Ready
    PROVE  /\ b \in Block
           /\ b \in pending
           /\ nextToWrite + 1 \in 1..Len(sent)
           /\ b = sent[nextToWrite + 1]
BY DEF Ready, PipelineInv, PipelineTypeOK, InFlightWasSent, IsIn

LEMMA AdvanceInv ==
    ASSUME PipelineInv, NEW b \in Ready, Advance(b), CollectorFrame
    PROVE  PipelineInv'
<1> USE CollectorFrameFacts, ReadyIsNext DEF PipelineInv, Advance
<1>1. PipelineTypeOK'
  BY DEF PipelineTypeOK, PoolTypeOK
<1>2. HandsMatch' /\ JobsAreSequential' /\ CountersMatch'
  BY DEF HandsMatch, JobsAreSequential, CountersMatch
<1>3. InFlightWasSent'
  BY DEF InFlightWasSent
<1>4. NotAhead'
  BY DEF NotAhead, PipelineTypeOK
<1>5. Progress'
  BY DEF Progress
<1> QED
  BY <1>1, <1>2, <1>3, <1>4, <1>5

LEMMA GiveUpInv ==
    ASSUME PipelineInv, NEW b \in Ready, NEW result \in CollectErrors,
           GiveUp(b, result), CollectorFrame
    PROVE  PipelineInv'
BY StopCollectingInv DEF GiveUp

-----------------------------------------------------------------------------
(* Who is there. *)

LEMMA ThreadsInit == PipelineInit => ThreadsInv
BY Constants DEF PipelineInit, PoolInit, ThreadsInv

LEMMA ThreadsStutter ==
    ASSUME ThreadsInv, UNCHANGED pipelineVars
    PROVE  ThreadsInv'
BY DEF ThreadsInv, ThreadsEnded, UnjoinedPanic, pipelineVars, poolVars,
       schedulerVars, mainVars, orderVars, senderVars

(* Only a worker that is there takes a step, and it stays a spawned one.    *)
LEMMA WorkerMoves ==
    ASSUME PipelineTypeOK, NEW w \in WorkerIds, NEW succeeds, PoolWorkerStep(w, succeeds)
    PROVE  /\ wpc[w] \notin Gone
           /\ wpc'[w] # "unspawned"
           /\ \A v \in WorkerIds : v # w => wpc'[v] = wpc[v]
           /\ wpc' \in [WorkerIds -> WorkerStates]
           /\ UNCHANGED resultRx
BY DEF PipelineTypeOK, PoolTypeOK, PoolWorkerStep, WorkerExchange, LockReceiver, ReceiveJob,
       ReceiveDisconnected, ProcessJob, Panic, SendResult, SendResultDisconnected,
       Goto, Gone

LEMMA WorkerThreads ==
    ASSUME PipelineInv, ThreadsInv, NEW w \in WorkerIds, NEW succeeds,
           PoolWorkerStep(w, succeeds)
    PROVE  ThreadsInv'
<1> USE WorkerFrame, Constants
<1>1. /\ wpc[w] \notin Gone
      /\ wpc'[w] # "unspawned"
      /\ \A v \in WorkerIds : v # w => wpc'[v] = wpc[v]
      /\ UNCHANGED resultRx
  BY WorkerMoves DEF PipelineInv
<1>2. mpc \notin {"start", "returned"} /\ outcome = "none"
  BY <1>1 DEF ThreadsInv, ThreadsEnded, PipelineInv, Progress, Gone
<1>3. \A v \in 1..joined : v \in WorkerIds /\ v # w
  BY <1>1 DEF ThreadsInv, Gone, PipelineInv, PipelineTypeOK, WorkerIds
<1> QED
  BY <1>1, <1>2, <1>3 DEF ThreadsInv

LEMMA SchedulerThreads ==
    ASSUME PipelineInv, ThreadsInv, SchedulerFrame,
           spc \in {"reading", "sending"}, spc' # "unspawned"
    PROVE  ThreadsInv'
BY SchedulerFrameFacts DEF ThreadsInv, ThreadsEnded, UnjoinedPanic, PipelineInv, Progress

LEMMA SpawnThreads ==
    ASSUME PipelineInv, ThreadsInv, SpawnStep
    PROVE  ThreadsInv'
<1> USE Constants
<1>1. CASE SpawnWorker
  <2>1. PICK w \in WorkerIds : /\ SpawnedWorkers = 1..(w - 1)
                               /\ Goto(w, "idle")
    BY <1>1 DEF SpawnWorker
  <2>2. /\ mpc = "spawn" /\ outcome = "none" /\ verdict = "none" /\ spc = "unspawned"
        /\ UNCHANGED <<spc, mpc, joined, verdict, outcome, resultRx, collected>>
    BY <1>1 DEF SpawnWorker, PipelineInv, Progress, schedulerVars, mainVars
  <2>3. wpc[w] = "unspawned"
    BY <2>1 DEF SpawnedWorkers
  <2>4. /\ wpc'[w] = "idle"
        /\ \A v \in WorkerIds : v # w => wpc'[v] = wpc[v]
    BY <2>1 DEF Goto, PipelineInv, PipelineTypeOK, PoolTypeOK
  <2>5. \A v \in 1..joined : v \in WorkerIds /\ v # w
    BY <2>3 DEF ThreadsInv, PipelineInv, PipelineTypeOK, WorkerIds
  <2> QED
    BY <2>2, <2>4, <2>5 DEF ThreadsInv
<1>2. CASE SpawnScheduler
  BY <1>2 DEF SpawnScheduler, SpawnedWorkers, ThreadsInv, PipelineInv, Progress, poolVars
<1>3. CASE SpawnFails
  BY <1>3 DEF SpawnFails, ThreadsInv, PipelineInv, Progress, schedulerVars
<1> QED
  BY <1>1, <1>2, <1>3 DEF SpawnStep

LEMMA CollectorThreads ==
    ASSUME PipelineInv, ThreadsInv, CollectorFrame,
           mpc \in {"collect", "drain"},
           \/ mpc' \in {"collect", "drain"} /\ UNCHANGED <<resultRx, collected>>
           \/ mpc' = "joinScheduler" /\ collected' # "none"
    PROVE  ThreadsInv'
BY CollectorFrameFacts DEF ThreadsInv, PipelineInv, Progress

LEMMA ReceiveThreads ==
    ASSUME PipelineInv, ThreadsInv, ReceiveStep
    PROVE  ThreadsInv'
BY CollectorThreads DEF ReceiveStep, CollectBlock, CollectError, CollectDisconnected,
   NothingReady, StopCollecting

LEMMA JoinThreads ==
    ASSUME PipelineInv, ThreadsInv, JoinStep
    PROVE  ThreadsInv'
<1> USE Constants
<1>1. UNCHANGED <<wpc, spc, resultRx, collected>>
  BY DEF JoinStep, poolVars, schedulerVars
<1>2. joined \in 0..Workers /\ WorkerIds = 1..Workers
  BY DEF PipelineInv, PipelineTypeOK, WorkerIds
<1>3. CASE JoinScheduler
  BY <1>1, <1>3 DEF JoinScheduler, ThreadsInv, PipelineInv, Progress
<1>4. CASE JoinWorker
  <2>1. /\ joined' = joined + 1 /\ joined + 1 \in WorkerIds
        /\ mpc = "joinWorkers" /\ verdict = "none" /\ outcome = "none"
        /\ outcome' = "none" /\ mpc' \in {"joinWorkers", "leaveScope"}
        /\ verdict' \in {"none", "workerPanicked"}
        /\ wpc[joined + 1] \in {"exited", "panicked"}
        /\ wpc[joined + 1] = "panicked" => verdict' = "workerPanicked"
    BY <1>2, <1>4 DEF JoinWorker, PipelineInv, Progress
  <2>2. \A v \in 1..joined' : v \in 1..joined \/ v = joined + 1
    BY <1>2, <2>1
  <2> QED
    BY <1>1, <1>2, <2>1, <2>2 DEF ThreadsInv
<1>5. CASE AllJoined
  BY <1>1, <1>5 DEF AllJoined, ThreadsInv, PipelineInv, Progress
<1>6. CASE CollectedError
  BY <1>1, <1>6 DEF CollectedError, ThreadsInv, PipelineInv, Progress, PipelineTypeOK
<1>7. CASE LeaveScope
  BY <1>1, <1>7 DEF LeaveScope, ThreadsInv, ThreadsEnded, UnjoinedPanic, PipelineInv, Progress
<1> QED
  BY <1>3, <1>4, <1>5, <1>6, <1>7 DEF JoinStep

(* The first and the last steps of a call: through the header, out of the   *)
(* call in front of the scope, and from the joined threads to its end.      *)
LEMMA EndsThreads ==
    ASSUME PipelineInv, ThreadsInv, UNCHANGED <<wpc, spc, joined, resultRx, collected>>,
           \/ mpc = "start" /\ mpc' = "spawn" /\ UNCHANGED <<verdict, outcome>>
           \/ mpc = "start" /\ mpc' = "returned"
                 /\ verdict' = "headerError" /\ outcome' = "headerError"
           \/ mpc = "finish" /\ mpc' = "leaveScope"
                 /\ verdict' \in {"ok", "footerError"} /\ UNCHANGED outcome
    PROVE  ThreadsInv'
<1> USE Constants DEF PipelineInv
<1>1. CASE mpc = "start" /\ mpc' = "spawn" /\ UNCHANGED <<verdict, outcome>>
  BY <1>1 DEF ThreadsInv, Progress
<1>2. CASE mpc = "start" /\ mpc' = "returned" /\ verdict' = "headerError"
            /\ outcome' = "headerError"
  BY <1>2 DEF ThreadsInv, ThreadsEnded, UnjoinedPanic, Progress, Gone, PipelineTypeOK,
     WorkerIds
<1>3. CASE mpc = "finish" /\ mpc' = "leaveScope"
            /\ verdict' \in {"ok", "footerError"} /\ UNCHANGED outcome
  BY <1>3 DEF ThreadsInv, Progress, PipelineTypeOK, WorkerIds
<1> QED
  BY <1>1, <1>2, <1>3

(* A panic of a worker reaches the caller. *)
LEMMA PanicIsSeen ==
    ASSUME PipelineInv, ThreadsInv
    PROVE  PanicSurfaces
<1> SUFFICES ASSUME mpc = "returned", NEW w \in WorkerIds, wpc[w] = "panicked"
             PROVE  outcome \in {"workerPanicked", "scopePanic"}
  BY DEF PanicSurfaces
<1>1. w \in 1..joined \/ w > joined
  BY Constants DEF PipelineInv, PipelineTypeOK, WorkerIds
<1>2. CASE UnjoinedPanic
  BY <1>2 DEF ThreadsInv
<1>3. CASE ~UnjoinedPanic
  BY <1>1, <1>3 DEF ThreadsInv, UnjoinedPanic
<1> QED
  BY <1>2, <1>3

-----------------------------------------------------------------------------
(* Where the blocks are. *)

LEMMA BlocksInit == PipelineInit => BlocksInv
<1> SUFFICES ASSUME PipelineInit
             PROVE  BlocksInv
  OBVIOUS
<1>1. /\ jobs = << >> /\ sent = << >> /\ results = << >> /\ pending = {}
      /\ nextToWrite = 0 /\ resultCount = 0 /\ mpc = "start"
      /\ \A w \in WorkerIds : wpc[w] = "unspawned" /\ hand[w] = NoBlock
  BY DEF PipelineInit, PoolInit
<1>2. InHands = {}
  BY <1>1 DEF InHands
<1>3. Taken = 0
  BY <1>1 DEF Taken
<1>4. BlocksCounted
  BY <1>1, <1>2, <1>3, FS_EmptySet DEF BlocksCounted
<1> QED
  BY <1>1, <1>3, <1>4 DEF BlocksInv, JobsAreLast, HandsApart, ResultsApart,
     PendingApart, Drained, Busy

(* A step that moves no block. *)
LEMMA BlocksStay ==
    ASSUME BlocksInv,
           UNCHANGED <<jobs, sent, results, pending, nextToWrite, resultCount, hand>>,
           \A w \in WorkerIds : wpc'[w] \in Busy <=> wpc[w] \in Busy,
           \A w \in WorkerIds : wpc[w] = "panicked" => wpc'[w] = "panicked",
           collected' = "none" => collected = "none",
           Drained'
    PROVE  BlocksInv'
<1>1. Taken' = Taken /\ InHands' = InHands
  BY DEF Taken, InHands
<1>2. JobsAreLast' /\ HandsApart' /\ ResultsApart' /\ PendingApart'
  BY <1>1 DEF BlocksInv, JobsAreLast, HandsApart, ResultsApart, PendingApart, InTransit
<1>3. NoneLost' => NoneLost
  BY DEF NoneLost
<1>4. \A k : IsSomewhere(k) => IsSomewhere(k)'
  BY DEF IsSomewhere
<1>5. BlocksCounted'
  BY <1>1, <1>3, <1>4 DEF BlocksInv, BlocksCounted
<1> QED
  BY <1>2, <1>5 DEF BlocksInv

LEMMA BlocksStutter ==
    ASSUME BlocksInv, UNCHANGED pipelineVars
    PROVE  BlocksInv'
<1>1. UNCHANGED <<jobs, sent, results, pending, nextToWrite, resultCount, hand,
                  wpc, collected, spc, mpc>>
  BY DEF pipelineVars, poolVars, schedulerVars, senderVars, orderVars, mainVars
<1>2. Drained'
  BY <1>1 DEF BlocksInv, Drained, Ready
<1> QED
  BY <1>1, <1>2, BlocksStay

(* The counters the invariant compares are numbers. *)
LEMMA BlockNumbers ==
    ASSUME PipelineInv, BlocksInv
    PROVE  /\ Taken \in Nat /\ nextToWrite \in Nat /\ nextToWrite <= Taken
           /\ Len(sent) = Taken + Len(jobs)
           /\ Len(jobs) \in Nat /\ Len(sent) \in Nat /\ Len(results) \in Nat
           /\ resultCount \in Nat
           /\ IsFiniteSet(InHands) /\ Cardinality(InHands) \in Nat
           /\ IsFiniteSet(pending) /\ Cardinality(pending) \in Nat
<1>1. Len(jobs) \in Nat /\ Len(sent) \in Nat /\ Len(results) \in Nat
      /\ nextToWrite \in Nat /\ resultCount \in Nat
  BY DEF PipelineInv, PipelineTypeOK, PoolTypeOK
<1>2. nextToWrite <= Taken
  BY DEF BlocksInv, JobsAreLast
<1>3. IsFiniteSet(InHands) /\ IsFiniteSet(pending)
  BY DEF BlocksInv, BlocksCounted
<1> QED
  BY <1>1, <1>2, <1>3, FS_CardinalityType DEF Taken

(* A worker has a block in its hand while it is busy, and only then. *)
LEMMA HandFacts ==
    ASSUME PipelineInv, NEW w \in WorkerIds
    PROVE  /\ wpc[w] \in Busy => hand[w] \in Block /\ hand[w] # NoBlock /\ hand[w] \in InHands
           /\ wpc[w] \notin Busy => hand[w] = NoBlock
BY DEF PipelineInv, PipelineTypeOK, PoolTypeOK, HandsMatch, InHands

(* The hands when one of them is filled, and when one is emptied. *)
LEMMA HandFilled ==
    ASSUME PipelineInv, BlocksInv, NEW w \in WorkerIds, wpc[w] \notin Busy,
           NEW b \in Block, b.index = Taken, hand' = [hand EXCEPT ![w] = b]
    PROVE  /\ InHands' = InHands \cup {b}
           /\ b \notin InHands
<1>1. hand \in [WorkerIds -> Block \cup {NoBlock}] /\ b # NoBlock
  BY Constants DEF PipelineInv, PipelineTypeOK, PoolTypeOK
<1>2. hand[w] = NoBlock
  BY HandFacts
<1>3. b \notin InHands
  <2> SUFFICES ASSUME NEW v \in WorkerIds, hand[v] = b
               PROVE  FALSE
    BY DEF InHands
  <2>1. wpc[v] \in Busy
    BY <1>1, HandFacts
  <2>2. hand[v].index \in nextToWrite..Taken - 1
    BY <2>1 DEF BlocksInv, HandsApart, InTransit
  <2> QED
    BY <2>2, BlockNumbers
<1>4. hand'[w] = b /\ \A v \in WorkerIds : v # w => hand'[v] = hand[v]
  BY <1>1
<1>5. InHands' \subseteq InHands \cup {b}
  BY <1>4 DEF InHands
<1>6. InHands \cup {b} \subseteq InHands'
  <2>1. b \in InHands'
    BY <1>1, <1>4 DEF InHands
  <2>2. ASSUME NEW c \in InHands
        PROVE  c \in InHands'
    <3>1. PICK v \in WorkerIds : hand[v] = c /\ c # NoBlock
      BY <2>2 DEF InHands
    <3> QED
      BY <1>2, <1>4, <3>1 DEF InHands
  <2> QED
    BY <2>1, <2>2
<1> QED
  BY <1>3, <1>5, <1>6

LEMMA HandEmptied ==
    ASSUME PipelineInv, BlocksInv, NEW w \in WorkerIds, wpc[w] \in Busy,
           hand' = [hand EXCEPT ![w] = NoBlock]
    PROVE  /\ InHands' = InHands \ {hand[w]}
           /\ hand[w] \in InHands
<1>1. hand \in [WorkerIds -> Block \cup {NoBlock}]
  BY DEF PipelineInv, PipelineTypeOK, PoolTypeOK
<1>2. hand[w] \in InHands /\ hand[w] # NoBlock
  BY HandFacts
<1>3. hand'[w] = NoBlock /\ \A v \in WorkerIds : v # w => hand'[v] = hand[v]
  BY <1>1
<1>4. \A v \in WorkerIds : v # w => hand[v] # hand[w]
  <2> SUFFICES ASSUME NEW v \in WorkerIds, v # w, hand[v] = hand[w]
               PROVE  FALSE
    OBVIOUS
  <2>1. wpc[v] \in Busy
    BY <1>2, HandFacts
  <2> QED
    BY <2>1 DEF BlocksInv, HandsApart, Different
<1>5. InHands' \subseteq InHands \ {hand[w]}
  BY <1>3, <1>4 DEF InHands
<1>6. InHands \ {hand[w]} \subseteq InHands'
  BY <1>3 DEF InHands
<1> QED
  BY <1>2, <1>5, <1>6

(* What no step of a worker touches of the collector's end. *)
LEMMA WorkerDrained ==
    ASSUME BlocksInv, NEW w, NEW succeeds, PoolWorkerStep(w, succeeds)
    PROVE  Drained'
BY WorkerFrame DEF BlocksInv, Drained, Ready

(* A worker takes the first job of the channel: the next one not yet taken. *)
LEMMA ReceiveBlocks ==
    ASSUME PipelineInv, BlocksInv, NEW w \in WorkerIds, NEW succeeds,
           PoolWorkerStep(w, succeeds), ReceiveJob(w)
    PROVE  BlocksInv'
<1> DEFINE b == jobs[1]
<1>1. /\ jobs \in Seq(Block) /\ jobs # << >>
      /\ wpc \in [WorkerIds -> WorkerStates]
      /\ hand \in [WorkerIds -> Block \cup {NoBlock}]
      /\ wpc[w] = "receiving"
      /\ UNCHANGED <<results, sent, pending, nextToWrite, resultCount, collected>>
  BY WorkerFrame DEF ReceiveJob, PipelineInv, PipelineTypeOK, PoolTypeOK
<1>2. /\ b \in Block /\ Head(jobs) = b
      /\ Len(jobs) >= 1
      /\ Len(Tail(jobs)) = Len(jobs) - 1
      /\ DOMAIN Tail(jobs) = 1..Len(jobs) - 1
      /\ DOMAIN jobs = 1..Len(jobs)
      /\ \A i \in 1..Len(jobs) - 1 : Tail(jobs)[i] = jobs[i + 1]
  BY <1>1
<1>3. b.index = Taken
  BY <1>2, BlockNumbers DEF BlocksInv, JobsAreLast
<1>4. /\ jobs' = Tail(jobs)
      /\ hand' = [hand EXCEPT ![w] = b]
      /\ wpc' = [wpc EXCEPT ![w] = "working"]
  BY <1>2 DEF ReceiveJob, Goto
<1> HIDE DEF b
<1>5. /\ hand'[w] = b /\ wpc'[w] = "working"
      /\ \A v \in WorkerIds : v # w => hand'[v] = hand[v] /\ wpc'[v] = wpc[v]
  BY <1>1, <1>4
<1>6. Taken' = Taken + 1
  BY <1>1, <1>2, <1>4, BlockNumbers DEF Taken
<1>7. JobsAreLast'
  <2>1. ASSUME NEW i \in DOMAIN jobs'
        PROVE  jobs'[i].index = Taken' + i - 1
    <3>1. i \in 1..Len(jobs) - 1 /\ i + 1 \in DOMAIN jobs /\ jobs'[i] = jobs[i + 1]
      BY <1>2, <1>4, BlockNumbers
    <3>2. jobs[i + 1].index = Taken + (i + 1) - 1
      BY <3>1 DEF BlocksInv, JobsAreLast
    <3> QED
      BY <1>6, <3>1, <3>2, BlockNumbers
  <2> QED
    BY <1>1, <1>6, <2>1, BlockNumbers DEF JobsAreLast
<1>8. ASSUME NEW c, c.index \in nextToWrite..Taken - 1
      PROVE  /\ c.index \in nextToWrite'..Taken' - 1
             /\ c.index # b.index
  BY <1>1, <1>3, <1>6, <1>8, BlockNumbers
<1>9. b.index \in nextToWrite'..Taken' - 1
  BY <1>1, <1>3, <1>6, BlockNumbers
<1>10. PendingApart' /\ ResultsApart'
  BY <1>1, <1>8 DEF BlocksInv, PendingApart, ResultsApart, InTransit, Different
<1>11. HandsApart'
  <2> SUFFICES ASSUME NEW u \in WorkerIds, wpc'[u] \in Busy
               PROVE  /\ hand'[u].index \in nextToWrite'..Taken' - 1
                      /\ \A v \in WorkerIds : v # u /\ wpc'[v] \in Busy =>
                             hand'[v].index # hand'[u].index
                      /\ \A i \in DOMAIN results : results[i].block.index # hand'[u].index
                      /\ \A c \in pending : c.index # hand'[u].index
    BY <1>1 DEF HandsApart, InTransit, Different
  <2> USE DEF InTransit, Different
  <2>1. CASE u = w
    BY <1>5, <1>8, <1>9, <2>1 DEF BlocksInv, HandsApart, ResultsApart, PendingApart
  <2>2. CASE u # w
    <3>1. hand'[u] = hand[u] /\ wpc[u] \in Busy
      BY <1>5, <2>2
    <3> QED
      BY <1>5, <1>8, <2>2, <3>1 DEF BlocksInv, HandsApart
  <2> QED
    BY <2>1, <2>2
<1>12. BlocksCounted'
  <2>1. InHands' = InHands \cup {b} /\ b \notin InHands
    BY <1>1, <1>2, <1>3, <1>4, HandFilled DEF Busy, b
  <2>2. IsFiniteSet(InHands') /\ Cardinality(InHands') = Cardinality(InHands) + 1
    BY <2>1, BlockNumbers, FS_AddElement
  <2>3. NoneLost' => NoneLost
    BY <1>1, <1>5 DEF NoneLost
  <2>4. ASSUME NoneLost', NEW k \in nextToWrite..Taken
        PROVE  IsSomewhere(k)'
    <3>1. CASE k = Taken
      BY <1>3, <1>5, <3>1 DEF IsSomewhere, Busy
    <3>2. CASE k # Taken
      <4>1. IsSomewhere(k)
        BY <2>3, <2>4, <3>2, BlockNumbers DEF BlocksInv, BlocksCounted
      <4>2. \A v \in WorkerIds : wpc[v] \in Busy => v # w
        BY <1>1 DEF Busy
      <4> QED
        BY <1>1, <1>5, <4>1, <4>2 DEF IsSomewhere
    <3> QED
      BY <3>1, <3>2
  <2>5. nextToWrite'..Taken' - 1 = nextToWrite..Taken
    BY <1>1, <1>6, BlockNumbers
  <2>6. NoneLost' => Cardinality(InHands') + Len(results') + Cardinality(pending')
                        + nextToWrite' = Taken'
    BY <1>1, <1>6, <2>2, <2>3, BlockNumbers DEF BlocksInv, BlocksCounted
  <2> QED
    BY <1>1, <2>2, <2>4, <2>5, <2>6 DEF BlocksInv, BlocksCounted
<1> QED
  BY <1>7, <1>10, <1>11, <1>12, WorkerDrained DEF BlocksInv

(* A worker loses its block: it panics, or nobody takes the answer. *)
LEMMA DropBlocks ==
    ASSUME PipelineInv, BlocksInv, NEW w \in WorkerIds, wpc[w] \in Busy,
           hand' = [hand EXCEPT ![w] = NoBlock],
           NEW state \in WorkerStates \ Busy, wpc' = [wpc EXCEPT ![w] = state],
           UNCHANGED <<jobs, results, sent, pending, nextToWrite, resultCount, collected>>,
           state = "panicked" \/ collected # "none",
           Drained'
    PROVE  BlocksInv'
<1>1. /\ wpc \in [WorkerIds -> WorkerStates]
      /\ hand \in [WorkerIds -> Block \cup {NoBlock}]
  BY DEF PipelineInv, PipelineTypeOK, PoolTypeOK
<1>2. wpc'[w] = state /\ \A v \in WorkerIds : v # w => hand'[v] = hand[v] /\ wpc'[v] = wpc[v]
  BY <1>1
<1>3. Taken' = Taken
  BY DEF Taken
<1>4. \A v \in WorkerIds : wpc'[v] \in Busy => wpc[v] \in Busy /\ hand'[v] = hand[v]
  BY <1>2
<1>5. JobsAreLast' /\ ResultsApart' /\ PendingApart'
  BY <1>3 DEF BlocksInv, JobsAreLast, ResultsApart, PendingApart, InTransit, Different
<1>6. HandsApart'
  BY <1>3, <1>4 DEF BlocksInv, HandsApart, InTransit, Different
<1>7. BlocksCounted'
  <2>1. InHands' = InHands \ {hand[w]}
    BY HandEmptied
  <2>2. IsFiniteSet(InHands')
    BY <2>1, BlockNumbers, FS_RemoveElement
  <2>3. ~NoneLost'
    BY <1>2 DEF NoneLost
  <2> QED
    BY <2>2, <2>3 DEF BlocksInv, BlocksCounted
<1> QED
  BY <1>5, <1>6, <1>7 DEF BlocksInv

(* A worker's answer joins the result channel. *)
LEMMA AnswerBlocks ==
    ASSUME PipelineInv, BlocksInv, NEW w \in WorkerIds, NEW succeeds,
           PoolWorkerStep(w, succeeds), SendResult(w)
    PROVE  BlocksInv'
<1> DEFINE answer == [ok |-> wpc[w] = "done", block |-> hand[w]]
           n == Len(results)
<1>1. /\ results \in Seq(Result) /\ answer \in Result
      /\ wpc \in [WorkerIds -> WorkerStates]
      /\ hand \in [WorkerIds -> Block \cup {NoBlock}]
      /\ wpc[w] \in Busy
      /\ UNCHANGED <<jobs, sent, pending, nextToWrite, resultCount, collected>>
  BY WorkerFrame, AnswerType DEF SendResult, PipelineInv, PipelineTypeOK, PoolTypeOK, Busy
<1>2. /\ results' = Append(results, answer)
      /\ hand' = [hand EXCEPT ![w] = NoBlock]
      /\ wpc' = [wpc EXCEPT ![w] = "idle"]
      /\ answer.block = hand[w]
  BY DEF SendResult, Goto
<1> HIDE DEF answer
<1>3. /\ n \in Nat /\ DOMAIN results = 1..n /\ DOMAIN results' = 1..n + 1
      /\ Len(results') = n + 1
      /\ results'[n + 1] = answer
      /\ \A i \in 1..n : results'[i] = results[i]
  BY <1>1, <1>2
<1>4. /\ wpc'[w] = "idle"
      /\ \A v \in WorkerIds : v # w => hand'[v] = hand[v] /\ wpc'[v] = wpc[v]
  BY <1>1, <1>2
<1> HIDE DEF n
<1>5. Taken' = Taken
  BY <1>1 DEF Taken
<1>6. JobsAreLast' /\ PendingApart'
  BY <1>1, <1>5 DEF BlocksInv, JobsAreLast, PendingApart, InTransit
<1>7. \A v \in WorkerIds : wpc'[v] \in Busy => v # w /\ wpc[v] \in Busy /\ hand'[v] = hand[v]
  BY <1>4 DEF Busy
<1>8. \A i \in DOMAIN results' : i \in 1..n \/ i = n + 1
  BY <1>3
<1>9. HandsApart'
  <2> SUFFICES ASSUME NEW u \in WorkerIds, wpc'[u] \in Busy
               PROVE  /\ hand'[u].index \in nextToWrite'..Taken' - 1
                      /\ \A v \in WorkerIds : v # u /\ wpc'[v] \in Busy =>
                             hand'[v].index # hand'[u].index
                      /\ \A i \in DOMAIN results' : results'[i].block.index # hand'[u].index
                      /\ \A c \in pending : c.index # hand'[u].index
    BY <1>1 DEF HandsApart, InTransit, Different
  <2> USE DEF InTransit, Different
  <2>1. u # w /\ wpc[u] \in Busy /\ hand'[u] = hand[u]
    BY <1>7
  <2>2. /\ hand[u].index \in nextToWrite..Taken - 1
        /\ \A v \in WorkerIds : v # u /\ wpc[v] \in Busy => hand[v].index # hand[u].index
        /\ \A i \in DOMAIN results : results[i].block.index # hand[u].index
        /\ \A c \in pending : c.index # hand[u].index
    BY <2>1 DEF BlocksInv, HandsApart
  <2>3. \A i \in DOMAIN results' : results'[i].block.index # hand[u].index
    BY <1>1, <1>2, <1>3, <1>8, <2>1, <2>2
  <2> QED
    BY <1>1, <1>5, <1>7, <2>1, <2>2, <2>3
<1>10. ResultsApart'
  <2> SUFFICES ASSUME NEW i \in DOMAIN results'
               PROVE  /\ results'[i].block.index \in nextToWrite'..Taken' - 1
                      /\ \A j \in DOMAIN results' : j # i =>
                             results'[j].block.index # results'[i].block.index
                      /\ \A c \in pending : c.index # results'[i].block.index
    BY <1>1 DEF ResultsApart, InTransit, Different
  <2> USE DEF InTransit, Different
  <2>1. /\ hand[w].index \in nextToWrite..Taken - 1
        /\ \A j \in 1..n : results[j].block.index # hand[w].index
        /\ \A c \in pending : c.index # hand[w].index
    BY <1>1, <1>3 DEF BlocksInv, HandsApart
  <2>2. CASE i = n + 1
    <3>1. results'[i].block = hand[w]
      BY <1>2, <1>3, <2>2
    <3>2. \A j \in DOMAIN results' : j # i => j \in 1..n /\ results'[j] = results[j]
      BY <1>3, <1>8, <2>2
    <3> QED
      BY <1>1, <1>5, <2>1, <3>1, <3>2
  <2>3. CASE i \in 1..n
    <3>1. /\ results[i].block.index \in nextToWrite..Taken - 1
          /\ \A j \in 1..n : j # i => results[j].block.index # results[i].block.index
          /\ \A c \in pending : c.index # results[i].block.index
      BY <1>3, <2>3 DEF BlocksInv, ResultsApart
    <3>2. results'[i] = results[i]
      BY <1>3, <2>3
    <3>3. \A j \in DOMAIN results' : \/ j \in 1..n /\ results'[j] = results[j]
                                    \/ results'[j].block = hand[w]
      BY <1>2, <1>3, <1>8
    <3> QED
      BY <1>1, <1>5, <2>1, <2>3, <3>1, <3>2, <3>3
  <2> QED
    BY <1>8, <2>2, <2>3
<1>11. BlocksCounted'
  <2>1. InHands' = InHands \ {hand[w]} /\ hand[w] \in InHands
    BY <1>1, <1>2, HandEmptied
  <2>2. IsFiniteSet(InHands') /\ Cardinality(InHands') = Cardinality(InHands) - 1
    BY <2>1, BlockNumbers, FS_RemoveElement
  <2>3. NoneLost' => NoneLost
    BY <1>1, <1>4 DEF NoneLost, Busy
  <2>4. ASSUME NEW k, IsSomewhere(k)
        PROVE  IsSomewhere(k)'
    <3>1. CASE hand[w].index = k
      BY <1>2, <1>3, <3>1 DEF IsSomewhere
    <3>2. CASE hand[w].index # k
      BY <1>1, <1>3, <1>4, <2>4, <3>2 DEF IsSomewhere
    <3> QED
      BY <3>1, <3>2
  <2>5. NoneLost' => \A k \in nextToWrite'..Taken' - 1 : IsSomewhere(k)'
    BY <1>1, <1>5, <2>3, <2>4 DEF BlocksInv, BlocksCounted
  <2>6. NoneLost' => Cardinality(InHands') + Len(results') + Cardinality(pending')
                        + nextToWrite' = Taken'
    BY <1>1, <1>3, <1>5, <2>2, <2>3, BlockNumbers DEF BlocksInv, BlocksCounted, n
  <2> QED
    BY <1>1, <2>2, <2>5, <2>6 DEF BlocksInv, BlocksCounted
<1> QED
  BY <1>6, <1>9, <1>10, <1>11, WorkerDrained DEF BlocksInv

(* A worker with a block got it from a scheduler, so the pool was started.  *)
LEMMA BusyIsStarted ==
    ASSUME PipelineInv, BlocksInv, NEW w \in WorkerIds, wpc[w] \in Busy
    PROVE  spc # "unspawned"
<1>1. hand[w].index \in nextToWrite..Taken - 1
  BY DEF BlocksInv, HandsApart, InTransit
<1>2. sent # << >>
  BY <1>1, BlockNumbers
<1> QED
  BY <1>2 DEF BlocksInv, Drained

LEMMA WorkerBlocks ==
    ASSUME PipelineInv, ThreadsInv, BlocksInv, NEW w \in WorkerIds, NEW succeeds,
           PoolWorkerStep(w, succeeds)
    PROVE  BlocksInv'
<1>1. /\ wpc \in [WorkerIds -> WorkerStates]
      /\ UNCHANGED <<sent, pending, nextToWrite, resultCount, collected>>
      /\ Drained'
  BY WorkerFrame, WorkerDrained DEF PipelineInv, PipelineTypeOK, PoolTypeOK
<1>2. CASE \/ LockReceiver(w) \/ ReceiveDisconnected(w) \/ ProcessJob(w, succeeds)
  <2>1. /\ UNCHANGED <<jobs, results, hand>>
        /\ \A v \in WorkerIds : wpc'[v] \in Busy <=> wpc[v] \in Busy
        /\ \A v \in WorkerIds : wpc[v] = "panicked" => wpc'[v] = "panicked"
    BY <1>1, <1>2 DEF LockReceiver, ReceiveDisconnected, ProcessJob, Goto, Busy
  <2> QED
    BY <1>1, <2>1, BlocksStay
<1>3. CASE ReceiveJob(w)
  BY <1>3, ReceiveBlocks
<1>4. CASE SendResult(w)
  BY <1>4, AnswerBlocks
<1>5. CASE Panic(w)
  BY <1>1, <1>5, DropBlocks DEF Panic, Goto, Busy
<1>6. CASE SendResultDisconnected(w)
  <2>1. wpc[w] \in Busy /\ ~resultRx
    BY <1>6 DEF SendResultDisconnected, Busy
  <2>2. collected # "none"
    BY <2>1, BusyIsStarted DEF ThreadsInv
  <2> QED
    BY <1>1, <1>6, <2>1, <2>2, DropBlocks DEF SendResultDisconnected, Goto, Busy
<1> QED
  BY <1>2, <1>3, <1>4, <1>5, <1>6 DEF PoolWorkerStep, WorkerExchange

(* The scheduler's steps: the job it sends is the last of the channel. *)
LEMMA SendBlocks ==
    ASSUME PipelineInv, BlocksInv, Send, SchedulerFrame, spc' # "unspawned"
    PROVE  BlocksInv'
<1> DEFINE n == Len(jobs)
<1>1. /\ jobs \in Seq(Block) /\ jobs' = Append(jobs, outbox)
      /\ spc = "sending" /\ Len(sent') = Len(sent) + 1
      /\ UNCHANGED <<results, hand, wpc, pending, nextToWrite, resultCount, collected, mpc>>
  BY SchedulerFrameFacts, SendFacts DEF Send, PipelineInv, PipelineTypeOK, PoolTypeOK
<1>2. /\ n \in Nat /\ Len(jobs') = n + 1 /\ DOMAIN jobs = 1..n /\ DOMAIN jobs' = 1..n + 1
      /\ jobs'[n + 1] = outbox
      /\ \A i \in 1..n : jobs'[i] = jobs[i]
      /\ outbox.index = Len(sent)
  BY <1>1, SendFacts
<1>3. Taken' = Taken
  BY <1>1, <1>2, BlockNumbers DEF Taken
<1>4. JobsAreLast'
  <2>1. \A i \in 1..n : jobs[i].index = Taken + i - 1
    BY <1>2 DEF BlocksInv, JobsAreLast
  <2>2. Len(sent) = Taken + (n + 1) - 1
    BY <1>2, BlockNumbers
  <2>3. \A i \in DOMAIN jobs' : i \in 1..n \/ i = n + 1
    BY <1>2
  <2>4. \A i \in DOMAIN jobs' : jobs'[i].index = Taken + i - 1
    BY <1>2, <2>1, <2>2, <2>3
  <2> QED
    BY <1>1, <1>3, <2>4 DEF BlocksInv, JobsAreLast
<1> HIDE DEF n
<1>5. HandsApart' /\ ResultsApart' /\ PendingApart'
  BY <1>1, <1>3 DEF BlocksInv, HandsApart, ResultsApart, PendingApart, InTransit, Different
<1>6. InHands' = InHands /\ NoneLost' = NoneLost
  BY <1>1 DEF InHands, NoneLost
<1>7. \A k : IsSomewhere(k) => IsSomewhere(k)'
  BY <1>1 DEF IsSomewhere
<1>8. BlocksCounted'
  BY <1>1, <1>3, <1>6, <1>7 DEF BlocksInv, BlocksCounted
<1>9. Drained'
  BY <1>1 DEF BlocksInv, Drained, Ready
<1> QED
  BY <1>4, <1>5, <1>8, <1>9 DEF BlocksInv

(* It prepares a job, or ends. *)
LEMMA SchedulerBlocks ==
    ASSUME BlocksInv, SchedulerFrame, UNCHANGED <<jobs, sent>>, spc' # "unspawned"
    PROVE  BlocksInv'
<1> USE SchedulerFrameFacts
<1>1. Drained'
  BY DEF BlocksInv, Drained, Ready
<1> QED
  BY <1>1, BlocksStay

-----------------------------------------------------------------------------
(* The calling thread's steps. *)

LEMMA SpawnBlocks ==
    ASSUME PipelineInv, BlocksInv, SpawnStep
    PROVE  BlocksInv'
<1>1. /\ wpc \in [WorkerIds -> WorkerStates]
      /\ UNCHANGED <<jobs, sent, results, pending, nextToWrite, resultCount, hand, collected>>
      /\ mpc = "spawn" /\ spc = "unspawned"
      /\ \A w \in WorkerIds : wpc'[w] \in Busy <=> wpc[w] \in Busy
      /\ \A w \in WorkerIds : wpc[w] = "panicked" => wpc'[w] = "panicked"
  <2>1. CASE SpawnWorker
    <3>1. PICK w \in WorkerIds : SpawnedWorkers = 1..(w - 1) /\ Goto(w, "idle")
      BY <2>1 DEF SpawnWorker
    <3>2. wpc[w] = "unspawned"
      BY <3>1, Constants DEF SpawnedWorkers
    <3> QED
      BY <2>1, <3>1, <3>2 DEF SpawnWorker, Goto, PipelineInv, PipelineTypeOK, PoolTypeOK,
         Progress, Busy, schedulerVars, senderVars, orderVars
  <2>2. CASE SpawnScheduler \/ SpawnFails
    BY <2>2 DEF SpawnScheduler, SpawnFails, PipelineInv, PipelineTypeOK, PoolTypeOK,
       Progress, schedulerVars, senderVars, orderVars, poolVars
  <2> QED
    BY <2>1, <2>2 DEF SpawnStep
<1>2. sent = << >> /\ pending = {}
  <2>1. sent = << >>
    BY <1>1 DEF BlocksInv, Drained
  <2>2. ASSUME NEW b \in pending
        PROVE  FALSE
    <3>1. b.index \in nextToWrite..Taken - 1
      BY <2>2 DEF BlocksInv, PendingApart, InTransit
    <3> QED
      BY <2>1, <3>1, BlockNumbers
  <2> QED
    BY <2>1, <2>2
<1>3. Drained'
  BY <1>1, <1>2 DEF Drained, Ready
<1> QED
  BY <1>1, <1>3, BlocksStay

(* The calling thread moves on without touching a block. *)
LEMMA MainBlocks ==
    ASSUME BlocksInv, UNCHANGED <<poolVars, schedulerVars, orderVars, collected>>,
           mpc' # "collect"
    PROVE  BlocksInv'
<1>1. UNCHANGED <<jobs, sent, results, pending, nextToWrite, resultCount, hand,
                  wpc, collected, spc>>
  BY DEF poolVars, schedulerVars, senderVars, orderVars
<1>2. Drained'
  BY <1>1 DEF BlocksInv, Drained
<1> QED
  BY <1>1, <1>2, BlocksStay

LEMMA JoinBlocks ==
    ASSUME BlocksInv, JoinStep
    PROVE  BlocksInv'
<1>1. UNCHANGED <<poolVars, schedulerVars, orderVars, collected>> /\ mpc' # "collect"
  BY DEF JoinStep, JoinScheduler, JoinWorker, AllJoined, CollectedError, LeaveScope
<1> QED
  BY <1>1, MainBlocks

(* The collector stops: the results are dropped, some pending blocks may be.*)
LEMMA StopBlocks ==
    ASSUME PipelineInv, BlocksInv, CollectorFrame,
           NEW result \in CollectErrors \cup {"ok"}, StopCollecting(result),
           pending' \in SUBSET pending,
           UNCHANGED <<nextToWrite, resultCount>>
    PROVE  BlocksInv'
<1>1. /\ results' = << >> /\ collected' # "none" /\ mpc' = "joinScheduler"
      /\ UNCHANGED <<jobs, sent, hand, wpc, spc>>
  BY CollectorFrameFacts DEF StopCollecting
<1>2. Taken' = Taken /\ InHands' = InHands
  BY <1>1 DEF Taken, InHands
<1>3. JobsAreLast' /\ HandsApart' /\ ResultsApart' /\ PendingApart'
  BY <1>1, <1>2 DEF BlocksInv, JobsAreLast, HandsApart, ResultsApart, PendingApart,
     InTransit, Different
<1>4. BlocksCounted'
  <2>1. IsFiniteSet(pending')
    BY BlockNumbers, FS_Subset
  <2> QED
    BY <1>1, <1>2, <2>1, BlockNumbers DEF BlocksCounted, NoneLost
<1>5. Drained'
  BY <1>1 DEF BlocksInv, Drained
<1> QED
  BY <1>3, <1>4, <1>5 DEF BlocksInv

(* The first result goes into the map: no block of its index is there.      *)
LEMMA CollectBlocks ==
    ASSUME PipelineInv, BlocksInv, CollectBlock, CollectorFrame
    PROVE  BlocksInv'
<1> DEFINE b == results[1].block
           n == Len(results)
<1>1. /\ results \in Seq(Result) /\ results # << >> /\ mpc' = "drain"
      /\ UNCHANGED <<jobs, sent, hand, wpc, spc, nextToWrite, collected>>
      /\ resultCount' = resultCount + 1
      /\ mpc = "collect"
  BY CollectorFrameFacts DEF CollectBlock, PipelineInv, PipelineTypeOK, PoolTypeOK
<1>2. /\ n \in Nat /\ n >= 1 /\ Len(Tail(results)) = n - 1
      /\ DOMAIN results = 1..n /\ DOMAIN Tail(results) = 1..n - 1
      /\ \A i \in 1..n - 1 : Tail(results)[i] = results[i + 1]
      /\ Head(results).block = b
  BY <1>1
<1>3. results' = Tail(results) /\ pending' = Insert(pending, b)
  BY <1>2 DEF CollectBlock
<1>4. /\ b.index \in nextToWrite..Taken - 1
      /\ \A j \in 2..n : results[j].block.index # b.index
      /\ \A c \in pending : c.index # b.index
      /\ \A w \in WorkerIds : wpc[w] \in Busy => hand[w].index # b.index
  BY <1>2 DEF BlocksInv, ResultsApart, HandsApart, InTransit, Different
<1> HIDE DEF b, n
<1>5. pending' = pending \cup {b} /\ b \notin pending
  BY <1>3, <1>4 DEF Insert
<1>6. Taken' = Taken /\ InHands' = InHands /\ NoneLost' = NoneLost
  BY <1>1 DEF Taken, InHands, NoneLost
<1>7. JobsAreLast' /\ PendingApart'
  BY <1>1, <1>4, <1>5, <1>6 DEF BlocksInv, JobsAreLast, PendingApart, InTransit
<1>8. \A i \in DOMAIN results' : /\ i + 1 \in DOMAIN results /\ i + 1 \in 2..n
                                 /\ results'[i] = results[i + 1]
  BY <1>2, <1>3
<1>9. HandsApart'
  <2> SUFFICES ASSUME NEW u \in WorkerIds, wpc[u] \in Busy
               PROVE  /\ hand[u].index \in nextToWrite..Taken - 1
                      /\ \A v \in WorkerIds : v # u /\ wpc[v] \in Busy =>
                             hand[v].index # hand[u].index
                      /\ \A i \in DOMAIN results' : results'[i].block.index # hand[u].index
                      /\ \A c \in pending' : c.index # hand[u].index
    BY <1>1, <1>6 DEF HandsApart, InTransit, Different
  <2>1. /\ hand[u].index \in nextToWrite..Taken - 1
        /\ \A v \in WorkerIds : v # u /\ wpc[v] \in Busy => hand[v].index # hand[u].index
        /\ \A i \in DOMAIN results : results[i].block.index # hand[u].index
        /\ \A c \in pending : c.index # hand[u].index
    BY DEF BlocksInv, HandsApart, InTransit, Different
  <2> QED
    BY <1>4, <1>5, <1>8, <2>1
<1>10. ResultsApart'
  <2> SUFFICES ASSUME NEW i \in DOMAIN results'
               PROVE  /\ results'[i].block.index \in nextToWrite..Taken - 1
                      /\ \A j \in DOMAIN results' : j # i =>
                             results'[j].block.index # results'[i].block.index
                      /\ \A c \in pending' : c.index # results'[i].block.index
    BY <1>1, <1>6 DEF ResultsApart, InTransit, Different
  <2>1. i + 1 \in DOMAIN results /\ i + 1 \in 2..n /\ results'[i] = results[i + 1]
    BY <1>8
  <2>2. /\ results[i + 1].block.index \in nextToWrite..Taken - 1
        /\ \A j \in DOMAIN results : j # i + 1 =>
               results[j].block.index # results[i + 1].block.index
        /\ \A c \in pending : c.index # results[i + 1].block.index
    BY <2>1 DEF BlocksInv, ResultsApart, InTransit, Different
  <2>3. \A j \in DOMAIN results' : j # i => j + 1 # i + 1
    BY <1>2, <1>3
  <2> QED
    BY <1>4, <1>5, <1>8, <2>1, <2>2, <2>3
<1>11. BlocksCounted'
  <2>1. IsFiniteSet(pending') /\ Cardinality(pending') = Cardinality(pending) + 1
    BY <1>5, BlockNumbers, FS_AddElement
  <2>2. ASSUME NEW k, IsSomewhere(k)
        PROVE  IsSomewhere(k)'
    <3>1. CASE b.index = k
      BY <1>5, <3>1 DEF IsSomewhere
    <3>2. CASE b.index # k /\ \E i \in DOMAIN results : results[i].block.index = k
      <4>1. PICK i \in DOMAIN results : results[i].block.index = k
        BY <3>2
      <4>2. i # 1
        BY <3>2, <4>1 DEF b
      <4>3. i - 1 \in DOMAIN results' /\ results'[i - 1] = results[i]
        BY <1>2, <1>3, <4>2
      <4> QED
        BY <4>1, <4>3 DEF IsSomewhere
    <3>3. CASE ~\E i \in DOMAIN results : results[i].block.index = k
      BY <1>1, <1>5, <2>2, <3>3 DEF IsSomewhere
    <3> QED
      BY <3>1, <3>2, <3>3
  <2>3. NoneLost' => \A k \in nextToWrite'..Taken' - 1 : IsSomewhere(k)'
    BY <1>1, <1>6, <2>2 DEF BlocksInv, BlocksCounted
  <2>4. NoneLost' => Cardinality(InHands') + Len(results') + Cardinality(pending')
                        + nextToWrite' = Taken'
    BY <1>1, <1>2, <1>3, <1>6, <2>1, BlockNumbers DEF BlocksInv, BlocksCounted, n
  <2>5. collected' = "none" => resultCount' = nextToWrite' + Cardinality(pending')
    BY <1>1, <2>1, BlockNumbers DEF BlocksInv, BlocksCounted
  <2> QED
    BY <1>1, <1>6, <2>1, <2>3, <2>4, <2>5, BlockNumbers DEF BlocksCounted
<1>12. Drained'
  BY <1>1 DEF BlocksInv, Drained
<1> QED
  BY <1>7, <1>9, <1>10, <1>11, <1>12 DEF BlocksInv

LEMMA ReceiveStepBlocks ==
    ASSUME PipelineInv, BlocksInv, ReceiveStep
    PROVE  BlocksInv'
<1> USE DEF ReceiveStep
<1>1. CASE CollectBlock
  BY <1>1, CollectBlocks
<1>2. CASE CollectError
  BY <1>2, StopBlocks DEF CollectError, orderVars
<1>3. CASE CollectDisconnected
  BY <1>3, StopBlocks DEF CollectDisconnected, orderVars
<1>4. CASE NothingReady
  <2>1. /\ UNCHANGED <<jobs, sent, results, pending, nextToWrite, resultCount, hand,
                       wpc, collected, spc>>
        /\ Ready = {}
    BY <1>4, CollectorFrameFacts DEF NothingReady, orderVars
  <2>2. Drained'
    BY <2>1 DEF BlocksInv, Drained, Ready
  <2> QED
    BY <2>1, <2>2, BlocksStay
<1> QED
  BY <1>1, <1>2, <1>3, <1>4

(* The block that is next is written and leaves the map. *)
LEMMA AdvanceBlocks ==
    ASSUME PipelineInv, BlocksInv, NEW b \in Ready, Advance(b), CollectorFrame
    PROVE  BlocksInv'
<1>1. /\ UNCHANGED <<jobs, sent, hand, wpc, spc, results, resultCount, collected, mpc>>
      /\ nextToWrite' = nextToWrite + 1
      /\ pending' = pending \ {b}
      /\ mpc = "drain"
      /\ b \in pending /\ b.index = nextToWrite
  BY CollectorFrameFacts DEF Advance, Ready
<1>2. b.index \in nextToWrite..Taken - 1
  BY <1>1 DEF BlocksInv, PendingApart, InTransit
<1>3. Taken' = Taken /\ InHands' = InHands /\ NoneLost' = NoneLost
  BY <1>1 DEF Taken, InHands, NoneLost
<1>4. JobsAreLast'
  BY <1>1, <1>2, <1>3, BlockNumbers DEF BlocksInv, JobsAreLast
<1>5. ASSUME NEW c, c.index \in nextToWrite..Taken - 1, c.index # b.index
      PROVE  c.index \in nextToWrite'..Taken' - 1
  BY <1>1, <1>3, <1>5, BlockNumbers
<1>6. \A c \in pending' : c \in pending /\ c.index # nextToWrite
  BY <1>1, ReadyIsNext DEF PipelineInv, InFlightWasSent, IsIn
<1>7. PendingApart'
  BY <1>1, <1>5, <1>6 DEF BlocksInv, PendingApart, InTransit
<1>8. HandsApart'
  BY <1>1, <1>5 DEF BlocksInv, HandsApart, InTransit, Different
<1>9. ResultsApart'
  BY <1>1, <1>5 DEF BlocksInv, ResultsApart, InTransit, Different
<1>10. BlocksCounted'
  <2>1. IsFiniteSet(pending') /\ Cardinality(pending') = Cardinality(pending) - 1
    BY <1>1, BlockNumbers, FS_RemoveElement
  <2>2. ASSUME NEW k, IsSomewhere(k), k # nextToWrite
        PROVE  IsSomewhere(k)'
    BY <1>1, <2>2 DEF IsSomewhere
  <2>3. \A k \in nextToWrite'..Taken' - 1 : k \in nextToWrite..Taken - 1 /\ k # nextToWrite
    BY <1>1, <1>3, BlockNumbers
  <2>4. NoneLost' => \A k \in nextToWrite'..Taken' - 1 : IsSomewhere(k)'
    BY <1>3, <2>2, <2>3 DEF BlocksInv, BlocksCounted
  <2>5. NoneLost' => Cardinality(InHands') + Len(results') + Cardinality(pending')
                        + nextToWrite' = Taken'
    BY <1>1, <1>3, <2>1, BlockNumbers DEF BlocksInv, BlocksCounted
  <2>6. collected' = "none" => resultCount' = nextToWrite' + Cardinality(pending')
    BY <1>1, <2>1, BlockNumbers DEF BlocksInv, BlocksCounted
  <2> QED
    BY <1>1, <1>3, <2>1, <2>4, <2>5, <2>6, BlockNumbers DEF BlocksCounted
<1>11. Drained'
  BY <1>1 DEF BlocksInv, Drained
<1> QED
  BY <1>4, <1>7, <1>8, <1>9, <1>10, <1>11 DEF BlocksInv

LEMMA GiveUpBlocks ==
    ASSUME PipelineInv, BlocksInv, NEW b \in Ready, NEW result \in CollectErrors,
           GiveUp(b, result), CollectorFrame
    PROVE  BlocksInv'
BY StopBlocks DEF GiveUp

-----------------------------------------------------------------------------
(* While nobody gave up, every block sent is somewhere, and only once. *)
LEMMA BlocksAreConserved ==
    ASSUME PipelineInv, BlocksInv
    PROVE  BlocksConserved
<1> SUFFICES ASSUME NoneLost
             PROVE  /\ Queued \cup InHands \cup Answered \cup pending \cup Written = ToSet(sent)
                    /\ Len(jobs) + Cardinality(InHands) + Len(results)
                         + Cardinality(pending) + nextToWrite = Len(sent)
  BY DEF BlocksConserved, NoneLost
<1> DEFINE all == Queued \cup InHands \cup Answered \cup pending \cup Written
<1>1. ASSUME NEW c, IsIn(c, sent)
      PROVE  c \in ToSet(sent) /\ c = sent[c.index + 1]
  BY <1>1 DEF IsIn, ToSet
<1>2. /\ jobs \in Seq(Block) /\ sent \in Seq(Block) /\ nextToWrite <= Len(sent)
      /\ DOMAIN jobs = 1..Len(jobs) /\ DOMAIN sent = 1..Len(sent)
  BY DEF PipelineInv, PipelineTypeOK, PoolTypeOK, NotAhead
<1>3. all \subseteq ToSet(sent)
  <2>1. Queued \subseteq ToSet(sent)
    BY <1>1 DEF Queued, ToSet, PipelineInv, InFlightWasSent
  <2>2. InHands \subseteq ToSet(sent)
    <3> SUFFICES ASSUME NEW w \in WorkerIds, hand[w] # NoBlock
                 PROVE  hand[w] \in ToSet(sent)
      BY DEF InHands
    <3>1. wpc[w] \in Busy
      BY HandFacts
    <3> QED
      BY <1>1, <3>1 DEF PipelineInv, InFlightWasSent
  <2>3. Answered \subseteq ToSet(sent)
    BY <1>1 DEF Answered, PipelineInv, InFlightWasSent
  <2>4. pending \subseteq ToSet(sent)
    BY <1>1 DEF PipelineInv, InFlightWasSent
  <2>5. Written \subseteq ToSet(sent)
    BY <1>2, BlockNumbers DEF Written, ToSet
  <2> QED
    BY <2>1, <2>2, <2>3, <2>4, <2>5
<1>4. ASSUME NEW k \in DOMAIN sent
      PROVE  sent[k] \in all
  <2>1. k \in 1..Len(sent)
    BY <1>2
  <2>2. CASE k <= nextToWrite
    BY <2>1, <2>2, BlockNumbers DEF Written
  <2>3. CASE k > Taken
    <3>1. k - Taken \in DOMAIN jobs
      BY <1>2, <2>1, <2>3, BlockNumbers
    <3>2. jobs[k - Taken].index = k - 1
      BY <2>1, <2>3, <3>1, BlockNumbers DEF BlocksInv, JobsAreLast
    <3>3. jobs[k - Taken] = sent[k]
      BY <1>1, <2>1, <3>1, <3>2 DEF PipelineInv, InFlightWasSent
    <3> QED
      BY <3>1, <3>3 DEF Queued, ToSet
  <2>4. CASE k > nextToWrite /\ k <= Taken
    <3>1. \A j \in nextToWrite..Taken - 1 : IsSomewhere(j)
      BY DEF BlocksInv, BlocksCounted
    <3>2. k - 1 \in nextToWrite..Taken - 1 /\ k - 1 + 1 = k
      BY <2>1, <2>4, BlockNumbers
    <3>3. CASE \E w \in WorkerIds : wpc[w] \in Busy /\ hand[w].index = k - 1
      BY <1>1, <3>2, <3>3, HandFacts DEF PipelineInv, InFlightWasSent
    <3>4. CASE \E i \in DOMAIN results : results[i].block.index = k - 1
      BY <1>1, <3>2, <3>4 DEF PipelineInv, InFlightWasSent, Answered
    <3>5. CASE \E b \in pending : b.index = k - 1
      BY <1>1, <3>2, <3>5 DEF PipelineInv, InFlightWasSent
    <3> QED
      BY <3>1, <3>2, <3>3, <3>4, <3>5 DEF IsSomewhere
  <2> QED
    BY <2>1, <2>2, <2>3, <2>4, BlockNumbers
<1>5. ToSet(sent) \subseteq all
  BY <1>4 DEF ToSet
<1>6. Len(jobs) + Cardinality(InHands) + Len(results)
        + Cardinality(pending) + nextToWrite = Len(sent)
  BY BlockNumbers DEF BlocksInv, BlocksCounted
<1> QED
  BY <1>3, <1>5, <1>6

-----------------------------------------------------------------------------
(* Nobody stops, as long as no input is refused and nothing fails.          *)

(* A scheduler that runs has somebody to send to, and somebody collects.    *)
LEMMA SchedulerIsHeard ==
    ASSUME PipelineInv, ThreadsInv, NobodyStops, spc \in {"reading", "sending"}
    PROVE  /\ \A w \in WorkerIds : wpc[w] \notin Gone
           /\ collected = "none" /\ jobTx /\ JobRx
<1>1. \A w \in WorkerIds : wpc[w] \notin Gone
  BY DEF NobodyStops, ThreadsInv, Gone
<1>2. 1 \in WorkerIds
  BY Constants DEF WorkerIds
<1>3. collected = "none" /\ jobTx
  BY <1>1, <1>2 DEF NobodyStops, Gone
<1> QED
  BY <1>1, <1>2, <1>3 DEF JobRx

LEMMA SchedulerGoesOn ==
    ASSUME PipelineInv, ThreadsInv, NobodyStops, SchedulerFrame,
           spc \in {"reading", "sending"},
           \/ spc' \in {"reading", "sending"} /\ UNCHANGED jobTx
           \/ spc' = "ok" /\ jobTx' = FALSE
    PROVE  NobodyStops'
<1>1. UNCHANGED <<results, resultRx, wpc, hand, resultCount, collected, mpc, verdict, outcome>>
  BY SchedulerFrameFacts
<1>2. (\A w \in WorkerIds : wpc[w] \notin Gone) /\ collected = "none" /\ jobTx
  BY SchedulerIsHeard
<1> QED
  BY <1>1, <1>2 DEF NobodyStops, Gone

LEMMA WorkerGoesOn ==
    ASSUME PipelineInv, ThreadsInv, BlocksInv, NobodyStops,
           NEW w \in WorkerIds, NEW succeeds, PoolWorkerStep(w, succeeds),
           wpc[w] = "working" => succeeds, ~Panic(w)
    PROVE  NobodyStops'
<1>3. UNCHANGED <<spc, sent, resultCount, collected, mpc, verdict, outcome>>
  BY WorkerFrame
<1>4. wpc \in [WorkerIds -> WorkerStates] /\ jobs \in Seq(Block) /\ results \in Seq(Result)
  BY DEF PipelineInv, PipelineTypeOK, PoolTypeOK
<1>5. wpc[w] \notin Gone /\ UNCHANGED <<jobTx, resultRx>>
  BY WorkerMoves DEF PipelineInv, PoolWorkerStep, WorkerExchange, LockReceiver, ReceiveJob,
     ReceiveDisconnected, Panic, SendResult, SendResultDisconnected, ProcessJob
<1>6. collected = "none"
  BY <1>5 DEF NobodyStops, Gone
<1>7. CASE LockReceiver(w) \/ ProcessJob(w, succeeds)
  <2>1. /\ wpc' = [wpc EXCEPT ![w] = IF wpc[w] = "idle" THEN "receiving" ELSE "done"]
        /\ UNCHANGED <<jobs, results>>
    BY <1>7 DEF LockReceiver, ProcessJob, Goto
  <2> QED
    BY <1>3, <1>4, <1>5, <1>6, <2>1 DEF NobodyStops
<1>8. CASE ReceiveJob(w)
  <2>1. /\ wpc' = [wpc EXCEPT ![w] = "working"] /\ UNCHANGED results /\ jobs # << >>
    BY <1>8 DEF ReceiveJob, Goto
  <2> QED
    BY <1>3, <1>4, <1>5, <1>6, <2>1 DEF NobodyStops
<1>9. CASE ReceiveDisconnected(w)
  <2>1. /\ wpc' = [wpc EXCEPT ![w] = "exited"] /\ UNCHANGED <<jobs, results>>
        /\ jobs = << >> /\ ~jobTx
    BY <1>9 DEF ReceiveDisconnected, Goto
  <2> QED
    BY <1>3, <1>4, <1>5, <1>6, <2>1 DEF NobodyStops
<1>10. CASE SendResult(w)
  <2> DEFINE answer == [ok |-> wpc[w] = "done", block |-> hand[w]]
  <2>1. /\ wpc' = [wpc EXCEPT ![w] = "idle"] /\ UNCHANGED jobs
        /\ results' = Append(results, answer)
        /\ wpc[w] = "done"
    BY <1>10 DEF SendResult, Goto, NobodyStops
  <2>2. answer.ok
    BY <2>1
  <2>3. answer \in Result
    BY <2>1, AnswerType DEF PipelineInv
  <2> HIDE DEF answer
  <2>4. \A i \in DOMAIN results' : results'[i].ok
    BY <1>4, <2>1, <2>2, <2>3 DEF NobodyStops
  <2> QED
    BY <1>3, <1>4, <1>5, <1>6, <2>1, <2>4 DEF NobodyStops
<1>11. ~SendResultDisconnected(w)
  BY <1>6 DEF SendResultDisconnected, NobodyStops
<1> QED
  BY <1>7, <1>8, <1>9, <1>10, <1>11 DEF PoolWorkerStep, WorkerExchange

(* When every worker has exited there is no block left but the written ones.*)
LEMMA AllWritten ==
    ASSUME PipelineInv, ThreadsInv, BlocksInv, NobodyStops,
           CollectDisconnected
    PROVE  /\ nextToWrite = resultCount /\ pending = {} /\ resultCount = Len(sent)
           /\ \A w \in WorkerIds : wpc[w] = "exited"
<1>1. mpc = "collect" /\ results = << >> /\ collected = "none"
  BY DEF CollectDisconnected, PipelineInv, Progress
<1>2. \A w \in WorkerIds : wpc[w] = "exited"
  BY <1>1 DEF CollectDisconnected, ResultTx, Gone, NobodyStops, ThreadsInv
<1>3. jobs = << >>
  <2>1. 1 \in WorkerIds
    BY Constants DEF WorkerIds
  <2> QED
    BY <1>2, <2>1 DEF NobodyStops
<1>4. Taken = Len(sent)
  BY <1>3, BlockNumbers
<1>5. \A k \in nextToWrite..Taken - 1 : \E b \in pending : b.index = k
  BY <1>1, <1>2 DEF BlocksInv, BlocksCounted, NoneLost, IsSomewhere, Busy
<1>6. \A b \in pending : b.index # nextToWrite
  BY <1>1 DEF BlocksInv, Drained, Ready
<1>7. nextToWrite = Taken
  <2> SUFFICES ASSUME nextToWrite # Taken
               PROVE  FALSE
    OBVIOUS
  <2>1. nextToWrite \in nextToWrite..Taken - 1
    BY BlockNumbers
  <2> QED
    BY <1>5, <1>6, <2>1
<1>8. pending = {}
  <2>1. \A b \in pending : b.index \in nextToWrite..Taken - 1
    BY DEF BlocksInv, PendingApart, InTransit
  <2> QED
    BY <1>7, <2>1, BlockNumbers
<1>9. resultCount = nextToWrite
  BY <1>1, <1>8, BlockNumbers, FS_EmptySet DEF BlocksInv, BlocksCounted
<1> QED
  BY <1>2, <1>4, <1>7, <1>8, <1>9

LEMMA ReceiverGoesOn ==
    ASSUME PipelineInv, ThreadsInv, BlocksInv, NobodyStops, ReceiveStep
    PROVE  NobodyStops'
<1>1. UNCHANGED <<jobs, jobTx, wpc, spc, sent, verdict, outcome>>
  BY CollectorFrameFacts DEF ReceiveStep
<1>2. results \in Seq(Result) /\ (results # << >> => 1 \in DOMAIN results)
  BY DEF PipelineInv, PipelineTypeOK, PoolTypeOK
<1>3. CASE CollectBlock
  <2>1. /\ UNCHANGED <<resultRx, collected>> /\ results' = Tail(results) /\ results # << >>
        /\ mpc' = "drain" /\ collected = "none"
    BY <1>3 DEF CollectBlock, PipelineInv, Progress
  <2>2. \A i \in DOMAIN results' : results'[i].ok
    BY <1>2, <2>1 DEF NobodyStops
  <2> QED
    BY <1>1, <2>1, <2>2 DEF NobodyStops
<1>4. ~CollectError
  BY <1>2 DEF CollectError, NobodyStops
<1>5. CASE CollectDisconnected
  <2>1. /\ nextToWrite = resultCount /\ pending = {} /\ resultCount = Len(sent)
        /\ \A w \in WorkerIds : wpc[w] = "exited"
    BY <1>5, AllWritten
  <2>2. /\ collected' = "ok" /\ resultRx' = FALSE /\ results' = << >> /\ mpc' = "joinScheduler"
        /\ UNCHANGED resultCount
    BY <1>5, <2>1 DEF CollectDisconnected, StopCollecting, orderVars
  <2> QED
    BY <1>1, <2>1, <2>2 DEF NobodyStops
<1>6. CASE NothingReady
  BY <1>1, <1>6 DEF NothingReady, orderVars, NobodyStops
<1> QED
  BY <1>3, <1>4, <1>5, <1>6 DEF ReceiveStep

LEMMA WriterGoesOn ==
    ASSUME NobodyStops, NEW b, Advance(b), CollectorFrame
    PROVE  NobodyStops'
<1>1. UNCHANGED <<jobs, jobTx, wpc, spc, sent, verdict, outcome>>
  BY CollectorFrameFacts
<1>2. UNCHANGED <<results, resultRx, resultCount, collected, mpc>>
  BY DEF Advance
<1> QED
  BY <1>1, <1>2 DEF NobodyStops

LEMMA SpawnerGoesOn ==
    ASSUME PipelineInv, NobodyStops, SpawnStep, ~SpawnFails
    PROVE  NobodyStops'
<1>1. CASE SpawnWorker
  <2>1. /\ UNCHANGED <<jobs, results, jobTx, resultRx, spc, sent, resultCount, collected,
                       mpc, verdict, outcome>>
        /\ collected = "none"
    BY <1>1 DEF SpawnWorker, schedulerVars, senderVars, orderVars, mainVars, PipelineInv,
       Progress
  <2>2. \A v \in WorkerIds : wpc'[v] = wpc[v] \/ wpc'[v] = "idle"
    BY <1>1 DEF SpawnWorker, Goto, PipelineInv, PipelineTypeOK, PoolTypeOK
  <2> QED
    BY <2>1, <2>2 DEF NobodyStops
<1>2. CASE SpawnScheduler
  <2>1. /\ UNCHANGED <<jobs, results, jobTx, resultRx, wpc, sent, resultCount, collected,
                       verdict, outcome>>
        /\ spc = "unspawned" /\ spc' = "reading" /\ mpc' = "collect"
    BY <1>2 DEF SpawnScheduler, poolVars, senderVars, orderVars, PipelineInv, Progress
  <2> QED
    BY <2>1 DEF NobodyStops
<1> QED
  BY <1>1, <1>2 DEF SpawnStep

LEMMA JoinerGoesOn ==
    ASSUME PipelineInv, NobodyStops, JoinStep
    PROVE  NobodyStops'
<1>1. UNCHANGED <<jobs, results, jobTx, resultRx, wpc, spc, sent, resultCount, collected>>
  BY DEF JoinStep, poolVars, schedulerVars, senderVars, orderVars
<1>2. /\ verdict' \in {"none", "ok"} /\ outcome' \in {"none", "ok"}
      /\ mpc' \in {"leaveScope", "returned"} => verdict' = "ok"
      /\ mpc' = "returned" => outcome' = "ok"
  <2>1. CASE JoinScheduler
    BY <2>1 DEF JoinScheduler, NobodyStops
  <2>2. CASE JoinWorker
    <3>1. joined + 1 \in WorkerIds
      BY <2>2, Constants DEF JoinWorker, PipelineInv, PipelineTypeOK, WorkerIds
    <3> QED
      BY <2>2, <3>1 DEF JoinWorker, NobodyStops
  <2>3. CASE AllJoined
    BY <2>3 DEF AllJoined, NobodyStops
  <2>4. ~CollectedError
    BY DEF CollectedError, IsComplete, NobodyStops, PipelineInv, Progress, CountersMatch
  <2>5. CASE LeaveScope
    <3>1. ~UnjoinedPanic
      BY DEF UnjoinedPanic, NobodyStops
    <3> QED
      BY <2>5, <3>1 DEF LeaveScope, NobodyStops
  <2> QED
    BY <2>1, <2>2, <2>3, <2>4, <2>5 DEF JoinStep
<1> QED
  BY <1>1, <1>2 DEF NobodyStops
=============================================================================
