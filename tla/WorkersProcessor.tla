-------------------------- MODULE WorkersProcessor --------------------------
(***************************************************************************)
(* The periodic workers of a node: detail::WorkersProcessor.               *)
(*                                                                         *)
(* An assistant thread scans the workers every Poll.  A worker past its    *)
(* next_deadline_ whose exec_state_ it can move from Idle to InProgress is *)
(* submitted to the pool, whose one thread runs Process until it returns   *)
(* or suspends; a suspended Process is resumed by whichever thread answers *)
(* it.  When Process has returned, the job stores Idle and then a new      *)
(* deadline: two stores, on a thread the assistant does not wait for.      *)
(*                                                                         *)
(* Instants are relative to the current time, as in NetworkProcessor.      *)
(***************************************************************************)
EXTENDS Integers, Sequences, FiniteSets

CONSTANTS
  Worker,    \* the registered workers
  NoWorker,  \* "no worker"
  Period,    \* period_, in clock units
  Poll,      \* the assistant's sleep, 50ms in the code
  Slack,     \* bound: how long the assistant may take to get on with a scan
  Horizon,   \* instants older than this are not told apart
  Suspends   \* the workers whose Process awaits an answer

ASSUME WorkersAssumption ==
  /\ NoWorker \notin Worker
  /\ Period \in Nat \ {0} /\ Poll \in Nat \ {0}
  /\ Slack \in Nat
  /\ Horizon \in Nat /\ Horizon > Period /\ Horizon > Slack
  /\ Suspends \subseteq Worker

VARIABLES
  running,       \* is_running_
  asst,          \* where the assistant is
  asstNow,       \* the `now` of the current scan
  wakeAt,        \* when the assistant's sleep ends
  todo,          \* the workers the current scan has not looked at
  due,           \* the worker whose deadline was seen to be over, CAS next
  execState,     \* exec_state_ of each worker
  nextDeadline,  \* next_deadline_ of each worker
  stopping,      \* SoftStop was called
  poolOpen,      \* the pool accepts jobs
  queue,         \* the jobs waiting for the pool's thread
  onPool,        \* the worker whose job that thread runs
  poolStage,     \* what the job does: "process" or "tail" (storing Idle is done)
  suspended,     \* how many Process of a worker wait for an answer (0 .. 2)
  tails,         \* the workers with a resumed job between its two stores
  dropped,       \* the workers whose job the stopped pool threw away
  startedAt      \* when Process of a worker was last entered

asstVars == <<asst, asstNow, wakeAt, todo, due>>
workerVars == <<execState, nextDeadline>>
poolVars == <<stopping, poolOpen, queue, onPool, poolStage, dropped>>
vars == <<running, asstVars, workerVars, poolVars, suspended, tails, startedAt>>

Instant == -Horizon .. 0

TypeOK ==
  /\ running \in BOOLEAN
  /\ asst \in {"off", "sleep", "scan", "exited", "joined"}
  /\ asstNow \in Instant
  /\ wakeAt \in -Horizon .. Poll
  /\ todo \in SUBSET Worker
  /\ due \in Worker \cup {NoWorker}
  /\ execState \in [Worker -> {"Idle", "InProgress"}]
  /\ nextDeadline \in [Worker -> -Horizon .. Period]
  /\ stopping \in BOOLEAN /\ poolOpen \in BOOLEAN
  /\ queue \in Seq(Worker)
  /\ onPool \in Worker \cup {NoWorker}
  /\ poolStage \in {"process", "tail"}
  /\ suspended \in [Worker -> 0 .. 2]
  /\ tails \in SUBSET Worker
  /\ dropped \in SUBSET Worker
  /\ startedAt \in [Worker -> Instant]

(* startedAt: Process has not been entered for a long time *)
Init ==
  /\ running = FALSE
  /\ asst = "off"
  /\ asstNow = 0
  /\ wakeAt = 0
  /\ todo = {}
  /\ due = NoWorker
  /\ execState = [w \in Worker |-> "Idle"]
  /\ nextDeadline = [w \in Worker |-> 0]
  /\ stopping = FALSE /\ poolOpen = TRUE
  /\ queue = <<>>
  /\ onPool = NoWorker
  /\ poolStage = "process"
  /\ suspended = [w \in Worker |-> 0]
  /\ tails = {}
  /\ dropped = {}
  /\ startedAt = [w \in Worker |-> -Horizon]

-----------------------------------------------------------------------------
(* StartInternal: next_deadline_ *)
FirstDeadline(w) == Period

(* Start: every worker gets its first deadline, then the assistant is      *)
(* created.                                                                *)
Start ==
  /\ asst = "off"
  /\ running' = TRUE
  /\ nextDeadline' = [w \in Worker |-> FirstDeadline(w)]
  /\ asst' = "sleep"
  /\ wakeAt' = 0
  /\ UNCHANGED <<asstNow, todo, due, execState, poolVars, suspended, tails,
                 startedAt>>

(* Faulty variants, like NeverLeaves here, are wrong on purpose: README.md *)
(* says which property notices each of them.                               *)
NeverLeaves == TRUE

LoopCondition == running

(* The loop tests is_running_, then BackgroundProcess reads the clock *)
Wake ==
  /\ asst = "sleep"
  /\ wakeAt <= 0
  /\ asst' = IF LoopCondition THEN "scan" ELSE "exited"
  /\ todo' = IF LoopCondition THEN Worker ELSE {}
  /\ asstNow' = 0
  /\ UNCHANGED <<running, wakeAt, due, workerVars, poolVars, suspended, tails,
                 startedAt>>

(* next_deadline_.load() < now *)
Check(w) ==
  /\ asst = "scan"
  /\ due = NoWorker
  /\ w \in todo
  /\ todo' = todo \ {w}
  /\ due' = IF nextDeadline[w] < asstNow THEN w ELSE NoWorker
  /\ UNCHANGED <<running, asst, asstNow, wakeAt, workerVars, poolVars,
                 suspended, tails, startedAt>>

ClaimedBlindly(w) == TRUE

Claimable(w) == execState[w] = "Idle"

(* compare_exchange_strong fails: the last job is still in progress *)
Skip ==
  /\ due # NoWorker
  /\ ~Claimable(due)
  /\ due' = NoWorker
  /\ UNCHANGED <<running, asst, asstNow, wakeAt, todo, workerVars, poolVars,
                 suspended, tails, startedAt>>

(* compare_exchange_strong succeeds and the job is submitted; a pool that  *)
(* has closed throws it away.                                              *)
Submit ==
  /\ due # NoWorker
  /\ Claimable(due)
  /\ execState' = [execState EXCEPT ![due] = "InProgress"]
  /\ IF poolOpen
     THEN queue' = Append(queue, due) /\ UNCHANGED dropped
     ELSE dropped' = dropped \cup {due} /\ UNCHANGED queue
  /\ due' = NoWorker
  /\ UNCHANGED <<running, asst, asstNow, wakeAt, todo, nextDeadline, stopping,
                 poolOpen, onPool, poolStage, suspended, tails, startedAt>>

(* The end of a scan *)
Sleep ==
  /\ asst = "scan"
  /\ todo = {} /\ due = NoWorker
  /\ asst' = "sleep"
  /\ wakeAt' = Poll
  /\ UNCHANGED <<running, asstNow, todo, due, workerVars, poolVars, suspended,
                 tails, startedAt>>

-----------------------------------------------------------------------------
(* The job: Process, then exec_state_.store(Idle), then a new deadline.    *)

PoolIdle == queue = <<>> /\ onPool = NoWorker

(* The pool's thread is done with a job.  A pool that is to stop closes    *)
(* when it has no other job.                                               *)
JobEnds ==
  /\ onPool' = NoWorker
  /\ poolOpen' = (stopping => queue # <<>>)

Enter ==
  /\ onPool = NoWorker
  /\ queue # <<>>
  /\ onPool' = Head(queue)
  /\ poolStage' = "process"
  /\ queue' = Tail(queue)
  /\ startedAt' = [startedAt EXCEPT ![Head(queue)] = 0]
  /\ UNCHANGED <<running, asstVars, workerVars, stopping, poolOpen, suspended,
                 tails, dropped>>

(* Process awaits an answer; the pool's thread is free again *)
Suspend ==
  /\ onPool \in Suspends
  /\ poolStage = "process"
  /\ suspended[onPool] < 2
  /\ suspended' = [suspended EXCEPT ![onPool] = @ + 1]
  /\ JobEnds
  /\ UNCHANGED <<running, asstVars, workerVars, stopping, queue, poolStage,
                 tails, dropped, startedAt>>

FinishLeavesInProgress ==
  /\ onPool # NoWorker
  /\ poolStage = "process"
  /\ poolStage' = "tail"
  /\ UNCHANGED <<running, asstVars, workerVars, stopping, poolOpen, queue,
                 onPool, suspended, tails, dropped, startedAt>>

(* Process returns, or throws, on the pool's thread *)
FinishOnPool ==
  /\ onPool # NoWorker
  /\ poolStage = "process"
  /\ execState' = [execState EXCEPT ![onPool] = "Idle"]
  /\ poolStage' = "tail"
  /\ UNCHANGED <<running, asstVars, nextDeadline, stopping, poolOpen, queue,
                 onPool, suspended, tails, dropped, startedAt>>

NextPeriodAndPoll == Period + Poll

NextPeriod == Period

(* The new deadline, counted from the store that makes it visible *)
ScheduleOnPool ==
  /\ onPool # NoWorker
  /\ poolStage = "tail"
  /\ nextDeadline' = [nextDeadline EXCEPT ![onPool] = NextPeriod]
  /\ JobEnds
  /\ UNCHANGED <<running, asstVars, execState, stopping, queue, poolStage,
                 suspended, tails, dropped, startedAt>>

(* The same on the thread that resumed a suspended Process; that thread    *)
(* resumes nothing else of w before it is done.                            *)
FinishResumed(w) ==
  /\ suspended[w] > 0
  /\ w \notin tails
  /\ suspended' = [suspended EXCEPT ![w] = @ - 1]
  /\ execState' = [execState EXCEPT ![w] = "Idle"]
  /\ tails' = tails \cup {w}
  /\ UNCHANGED <<running, asstVars, nextDeadline, poolVars, startedAt>>

ScheduleResumed(w) ==
  /\ w \in tails
  /\ nextDeadline' = [nextDeadline EXCEPT ![w] = NextPeriod]
  /\ tails' = tails \ {w}
  /\ UNCHANGED <<running, asstVars, execState, poolVars, suspended, startedAt>>

-----------------------------------------------------------------------------
(* Node::Stop: SoftStop and Wait drain the pool before the workers stop.   *)
(* The assistant still runs, and the pool takes its jobs until it is idle. *)

SoftStop ==
  /\ running /\ ~stopping
  /\ stopping' = TRUE
  /\ poolOpen' = ~PoolIdle
  /\ UNCHANGED <<running, asstVars, workerVars, queue, onPool, poolStage,
                 suspended, tails, dropped, startedAt>>

(* Wait returns when the pool has closed; then the workers are stopped *)
Stop ==
  /\ running /\ ~poolOpen
  /\ running' = FALSE
  /\ UNCHANGED <<asstVars, workerVars, poolVars, suspended, tails, startedAt>>

Join ==
  /\ ~running
  /\ asst = "exited"
  /\ asst' = "joined"
  /\ UNCHANGED <<running, asstNow, wakeAt, todo, due, workerVars, poolVars,
                 suspended, tails, startedAt>>

-----------------------------------------------------------------------------
Older(t) == IF t > -Horizon THEN t - 1 ELSE t

(* The assistant may oversleep, and the threads of jobs be late, by any    *)
(* amount; a scan takes at most Slack.                                     *)
Tick ==
  /\ asst \in {"sleep", "scan"}
  /\ asst = "scan" => asstNow > -Slack
  /\ asstNow' = IF asst = "scan" THEN Older(asstNow) ELSE asstNow
  /\ wakeAt' = IF asst = "sleep" THEN Older(wakeAt) ELSE wakeAt
  /\ nextDeadline' = [w \in Worker |-> Older(nextDeadline[w])]
  /\ startedAt' = [w \in Worker |-> Older(startedAt[w])]
  /\ UNCHANGED <<running, asst, todo, due, execState, poolVars, suspended,
                 tails>>

Terminated ==
  /\ asst = "joined"
  /\ UNCHANGED vars

Assistant == Wake \/ Skip \/ Submit \/ Sleep \/ \E w \in Worker : Check(w)

Pool == Enter \/ Suspend \/ FinishOnPool \/ ScheduleOnPool

Resumed(w) == FinishResumed(w) \/ ScheduleResumed(w)

Next ==
  \/ Start \/ SoftStop \/ Stop \/ Join
  \/ Assistant
  \/ Pool
  \/ \E w \in Worker : Resumed(w)
  \/ Tick
  \/ Terminated

Spec == Init /\ [][Next]_vars

(* Threads that can run do, time passes, and what Process awaits is        *)
(* answered.  Nothing forces the node to stop.                             *)
Fairness ==
  /\ WF_vars(Assistant)
  /\ WF_vars(Pool)
  /\ \A w \in Worker : WF_vars(Resumed(w))
  /\ WF_vars(Tick)
  /\ WF_vars(Stop)
  /\ WF_vars(Join)

FairSpec == Spec /\ Fairness

-----------------------------------------------------------------------------

Queued(w) == Cardinality({i \in DOMAIN queue : queue[i] = w})

Active(w) == suspended[w] + (IF onPool = w /\ poolStage = "process" THEN 1 ELSE 0)

(* Process of a worker is never entered while an earlier Process of the    *)
(* same worker is still running or suspended, so a worker needs no lock of *)
(* its own (workers.hpp:113-115, 128).                                     *)
NoOverlap == \A w \in Worker : Active(w) <= 1

(* InProgress stands for exactly one job that will store Idle again, or    *)
(* for one that the stopped pool threw away (workers.hpp:117).             *)
OneJobPerClaim ==
  \A w \in Worker :
    Queued(w) + Active(w) + (IF w \in dropped THEN 1 ELSE 0)
      = (IF execState[w] = "InProgress" THEN 1 ELSE 0)

(* What makes the two inductive: a claimed worker is in one place only, in *)
(* the queue, on the pool's thread, suspended or thrown away, and a worker *)
(* that is in none of them is not claimed; the pool closes when it is      *)
(* idle.                                                                   *)
InQueue(w) == \E i \in DOMAIN queue : queue[i] = w

Processing(w) == onPool = w /\ poolStage = "process"

QueuedOnce == \A i, j \in DOMAIN queue : queue[i] = queue[j] => i = j

ClaimedInOnePlace ==
  \A w \in Worker :
    /\ execState[w] = "InProgress" <=>
         InQueue(w) \/ Processing(w) \/ suspended[w] # 0 \/ w \in dropped
    /\ suspended[w] <= 1
    /\ InQueue(w) => ~Processing(w) /\ suspended[w] = 0 /\ w \notin dropped
    /\ Processing(w) => suspended[w] = 0 /\ w \notin dropped
    /\ suspended[w] # 0 => w \notin dropped

ClosedWhenIdle == poolOpen = ~(stopping /\ PoolIdle)

ClaimInv == TypeOK /\ QueuedOnce /\ ClaimedInOnePlace /\ ClosedWhenIdle

(* README.md of maelstrom-cpp, line 38: Process of a worker is called once *)
(* in the period it was constructed with.  Between the two stores of a     *)
(* job the old deadline can start the next one at once                     *)
(* (workers.hpp:113-115, 128-129).                                         *)
PeriodRespected ==
  [][\A w \in Worker : startedAt'[w] = 0 /\ startedAt[w] # 0
       => startedAt[w] <= -Period]_vars

(* While the node runs, every worker is run again and again, however long  *)
(* the last Process took (workers.hpp:108-131).                            *)
RunsAgain ==
  \A w \in Worker : running /\ poolOpen ~> startedAt[w] = 0 \/ ~poolOpen

(* Stopping the node drains the pool and joins the assistant, but only if  *)
(* the jobs that the assistant submits in the meantime let the pool be     *)
(* idle at some instant; two workers that take turns can keep it busy for  *)
(* ever (node.hpp:152-156, workers.hpp:117).                               *)
StopJoins ==
  \/ <>[](stopping /\ ~PoolIdle)
  \/ stopping ~> asst = "joined"
=============================================================================
