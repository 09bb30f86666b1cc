----------------------- MODULE WorkersProcessorProofs -----------------------
(***************************************************************************)
(* Theorems about WorkersProcessor, for every set of workers, period, poll *)
(* and lateness of the threads.                                            *)
(***************************************************************************)
EXTENDS WorkersProcessor, FiniteSetTheorems, SequenceTheorems, TLAPS

(* Growing older keeps an instant within the horizon.                      *)
LEMMA OlderFact ==
  ASSUME NEW top \in Int, top >= 0, NEW t \in -Horizon .. top
  PROVE  Older(t) \in -Horizon .. top
BY WorkersAssumption DEF WorkersAssumption, Older

(* Every variable has its type at the start and keeps it.                  *)
LEMMA TypeCorrectInit == Init => TypeOK
<1> USE WorkersAssumption DEF WorkersAssumption
<1>1. 0 \in Instant /\ 0 \in -Horizon .. Poll /\ 0 \in -Horizon .. Period
      /\ -Horizon \in Instant
  BY DEF Instant
<1>2. <<>> \in Seq(Worker)
  BY EmptySeq
<1> SUFFICES ASSUME Init PROVE TypeOK
  OBVIOUS
<1>3. /\ execState \in [Worker -> {"Idle", "InProgress"}]
      /\ nextDeadline \in [Worker -> -Horizon .. Period]
  BY <1>1 DEF Init
<1>4. suspended \in [Worker -> 0 .. 2] /\ startedAt \in [Worker -> Instant]
  BY <1>1 DEF Init
<1> QED
  BY <1>1, <1>2, <1>3, <1>4 DEF Init, TypeOK

LEMMA TypeCorrectStep ==
  ASSUME TypeOK, [Next]_vars
  PROVE  TypeOK'
<1> USE WorkersAssumption DEF WorkersAssumption
<1>1. CASE Start
  BY <1>1 DEF Start, FirstDeadline, TypeOK, Instant, poolVars
<1>2. CASE Wake
  BY <1>2 DEF Wake, TypeOK, Instant, workerVars, poolVars
<1>3. ASSUME NEW w \in Worker, Check(w) PROVE TypeOK'
  BY <1>3 DEF Check, TypeOK, Instant, workerVars, poolVars
<1>4. CASE Skip
  BY <1>4 DEF Skip, TypeOK, Instant, workerVars, poolVars
<1>5. CASE Submit
  <2>1. due \in Worker
    BY <1>5 DEF Submit, TypeOK
  <2>2. Append(queue, due) \in Seq(Worker)
    BY <2>1, AppendProperties DEF TypeOK
  <2> QED
    BY <1>5, <2>1, <2>2 DEF Submit, TypeOK, Instant
<1>6. CASE Sleep
  BY <1>6 DEF Sleep, TypeOK, Instant, workerVars, poolVars
<1>7. CASE Enter
  <2>1. Head(queue) \in Worker /\ Tail(queue) \in Seq(Worker)
    BY <1>7, HeadTailProperties DEF Enter, TypeOK
  <2>2. startedAt' \in [Worker -> Instant]
    BY <1>7, <2>1 DEF Enter, TypeOK, Instant
  <2> QED
    BY <1>7, <2>1, <2>2 DEF Enter, TypeOK, asstVars, workerVars
<1>8. CASE Suspend
  <2>1. onPool \in Worker
    BY <1>8 DEF Suspend
  <2>2. suspended' \in [Worker -> 0 .. 2]
    <3>1. suspended[onPool] \in 0 .. 2
      BY <2>1 DEF TypeOK
    <3>2. suspended[onPool] + 1 \in 0 .. 2
      BY <1>8, <3>1 DEF Suspend
    <3> QED
      BY <1>8, <2>1, <3>2 DEF Suspend, TypeOK
  <2> QED
    BY <1>8, <2>2 DEF Suspend, JobEnds, TypeOK, Instant, asstVars, workerVars
<1>9. CASE FinishOnPool
  BY <1>9 DEF FinishOnPool, TypeOK, Instant, asstVars
<1>10. CASE ScheduleOnPool
  BY <1>10 DEF ScheduleOnPool, JobEnds, NextPeriod, TypeOK, Instant, asstVars
<1>11. ASSUME NEW w \in Worker, FinishResumed(w) PROVE TypeOK'
  <2>1. suspended[w] - 1 \in 0 .. 2
    BY <1>11 DEF FinishResumed, TypeOK
  <2> QED
    BY <1>11, <2>1 DEF FinishResumed, TypeOK, Instant, asstVars, poolVars
<1>12. ASSUME NEW w \in Worker, ScheduleResumed(w) PROVE TypeOK'
  BY <1>12 DEF ScheduleResumed, NextPeriod, TypeOK, Instant, asstVars, poolVars
<1>13. CASE SoftStop \/ Stop \/ Join
  BY <1>13 DEF SoftStop, PoolIdle, Stop, Join, TypeOK, Instant, asstVars,
               workerVars, poolVars
<1>14. CASE Tick
  <2>1. nextDeadline' \in [Worker -> -Horizon .. Period]
    BY <1>14, OlderFact DEF Tick, TypeOK
  <2>2. startedAt' \in [Worker -> Instant]
    BY <1>14, OlderFact DEF Tick, TypeOK, Instant
  <2>3. asstNow' \in Instant /\ wakeAt' \in -Horizon .. Poll
    <3>1. asstNow \in Instant /\ wakeAt \in -Horizon .. Poll
      BY DEF TypeOK
    <3>2. Older(asstNow) \in Instant
      BY <3>1, OlderFact DEF Instant
    <3>3. Poll \in Int /\ Poll >= 0
      OBVIOUS
    <3>4. Older(wakeAt) \in -Horizon .. Poll
      BY <3>1, <3>3, OlderFact
    <3>5. asstNow' \in {asstNow, Older(asstNow)}
          /\ wakeAt' \in {wakeAt, Older(wakeAt)}
      BY <1>14 DEF Tick
    <3> QED
      BY <3>1, <3>2, <3>4, <3>5
  <2>4. UNCHANGED <<running, asst, todo, due, execState, stopping, poolOpen,
                    queue, onPool, poolStage, dropped, suspended, tails>>
    BY <1>14 DEF Tick, poolVars
  <2> QED
    BY <2>1, <2>2, <2>3, <2>4 DEF TypeOK
<1>15. CASE UNCHANGED vars
  BY <1>15 DEF TypeOK, Instant, vars, asstVars, workerVars, poolVars
<1> QED
  BY <1>1, <1>2, <1>3, <1>4, <1>5, <1>6, <1>7, <1>8, <1>9, <1>10, <1>11,
     <1>12, <1>13, <1>14, <1>15
     DEF Next, Assistant, Pool, Resumed, Terminated

(* The types of the variables of the workers processor (workers.hpp).      *)
THEOREM TypeCorrect == Spec => []TypeOK
BY TypeCorrectInit, TypeCorrectStep, PTL DEF Spec

-----------------------------------------------------------------------------

(* Actions that touch neither a claim nor what a claimed worker is in.     *)
LEMMA ClaimsUntouched ==
  ASSUME ClaimInv, TypeOK',
         UNCHANGED <<execState, queue, onPool, poolStage, suspended, dropped>>,
         ClosedWhenIdle'
  PROVE  ClaimInv'
BY DEF ClaimInv, QueuedOnce, ClaimedInOnePlace, InQueue, Processing

(* The pool closes when it is to stop and idle, and is not idle again      *)
(* while it is open (node.hpp:149-153).                                    *)
LEMMA ClosedWhenIdleStep ==
  ASSUME ClaimInv, [Next]_vars
  PROVE  ClosedWhenIdle'
<1> USE DEF ClaimInv, ClosedWhenIdle, PoolIdle
<1>1. CASE Submit
  <2>1. due \in Worker /\ queue \in Seq(Worker)
    BY <1>1 DEF Submit, TypeOK
  <2>2. Append(queue, due) # <<>>
    BY <2>1, AppendProperties, EmptySeq
  <2> QED
    BY <1>1, <2>2 DEF Submit, TypeOK
<1>2. CASE Enter
  <2>1. Head(queue) \in Worker /\ onPool' = Head(queue)
    BY <1>2, HeadTailProperties DEF Enter, TypeOK
  <2> QED
    BY <1>2, <2>1, WorkersAssumption DEF Enter, TypeOK, WorkersAssumption
<1>3. CASE Suspend \/ ScheduleOnPool
  BY <1>3 DEF Suspend, ScheduleOnPool, JobEnds, TypeOK
<1>4. CASE SoftStop
  BY <1>4 DEF SoftStop, TypeOK
<1>5. CASE UNCHANGED <<stopping, poolOpen, queue, onPool>>
  BY <1>5
<1> QED
  BY <1>1, <1>2, <1>3, <1>4, <1>5
     DEF Next, Start, Stop, Join, Assistant, Wake, Skip, Sleep, Check, Pool,
         FinishOnPool, Resumed, FinishResumed, ScheduleResumed, Tick,
         Terminated, vars, poolVars

(* A worker that is claimed goes from nowhere to the queue, or is thrown   *)
(* away (workers.hpp:113-119).                                             *)
LEMMA SubmitKeepsClaims ==
  ASSUME ClaimInv, TypeOK', ClosedWhenIdle', Submit
  PROVE  ClaimInv'
<1> USE DEF ClaimInv
<1>1. /\ due \in Worker /\ execState[due] = "Idle"
      /\ UNCHANGED <<onPool, poolStage, suspended>>
      /\ execState' = [execState EXCEPT ![due] = "InProgress"]
  BY DEF Submit, Claimable, TypeOK
<1>2. ~InQueue(due) /\ ~Processing(due) /\ suspended[due] = 0
      /\ due \notin dropped
  BY <1>1 DEF ClaimedInOnePlace
<1>3. \A w \in Worker : Processing(w)' <=> Processing(w)
  BY <1>1 DEF Processing
<1>4. \A w \in Worker :
        execState'[w] = IF w = due THEN "InProgress" ELSE execState[w]
  BY <1>1 DEF TypeOK
<1>5. CASE poolOpen
  <2>1. queue' = Append(queue, due) /\ dropped' = dropped
    BY <1>5 DEF Submit
  <2>2. /\ queue \in Seq(Worker)
        /\ DOMAIN queue = 1 .. Len(queue) /\ Len(queue) \in Nat
        /\ DOMAIN queue' = 1 .. Len(queue) + 1
    BY <1>1, <2>1, AppendProperties, LenProperties DEF TypeOK
  <2>3. /\ \A i \in DOMAIN queue : queue'[i] = queue[i]
        /\ queue'[Len(queue) + 1] = due
    BY <1>1, <2>1, <2>2, AppendProperties
  <2>4. \A i \in DOMAIN queue' : i \in DOMAIN queue \/ i = Len(queue) + 1
    BY <2>2
  <2>5. QueuedOnce'
    BY <1>2, <2>3, <2>4 DEF QueuedOnce, InQueue
  <2>6. \A w \in Worker : InQueue(w)' <=> InQueue(w) \/ w = due
    <3>1. DOMAIN queue \subseteq DOMAIN queue' /\ Len(queue) + 1 \in DOMAIN queue'
      BY <2>2
    <3> QED
      BY <2>3, <2>4, <3>1 DEF InQueue
  <2>7. ClaimedInOnePlace'
    BY <1>1, <1>2, <1>3, <1>4, <2>1, <2>6 DEF ClaimedInOnePlace
  <2> QED
    BY <2>5, <2>7
<1>6. CASE ~poolOpen
  <2>1. queue' = queue /\ dropped' = dropped \cup {due}
    BY <1>6 DEF Submit
  <2>2. QueuedOnce' /\ \A w \in Worker : InQueue(w)' <=> InQueue(w)
    BY <2>1 DEF QueuedOnce, InQueue
  <2>3. ClaimedInOnePlace'
    BY <1>1, <1>2, <1>3, <1>4, <2>1, <2>2 DEF ClaimedInOnePlace
  <2> QED
    BY <2>2, <2>3
<1> QED
  BY <1>5, <1>6

(* The thread of the pool takes a worker off the queue (workers.hpp:117).  *)
LEMMA EnterKeepsClaims ==
  ASSUME ClaimInv, TypeOK', ClosedWhenIdle', Enter
  PROVE  ClaimInv'
<1> USE DEF ClaimInv
<1>1. /\ onPool = NoWorker /\ queue # <<>> /\ queue \in Seq(Worker)
      /\ onPool' = Head(queue) /\ poolStage' = "process"
      /\ queue' = Tail(queue)
      /\ UNCHANGED <<execState, suspended, dropped>>
  BY DEF Enter, TypeOK, workerVars
<1>2. /\ Head(queue) \in Worker
      /\ Head(queue) = queue[1]
      /\ Len(queue) \in Nat /\ 1 <= Len(queue)
      /\ DOMAIN queue = 1 .. Len(queue)
      /\ DOMAIN queue' = 1 .. Len(queue) - 1
      /\ \A i \in 1 .. Len(queue) - 1 : queue'[i] = queue[i + 1]
  BY <1>1, HeadTailProperties, EmptySeq, LenProperties
<1>3. \A i \in DOMAIN queue' : i + 1 \in DOMAIN queue /\ i + 1 # 1
  BY <1>2
<1>4. \A i \in DOMAIN queue : i = 1 \/ (i - 1 \in DOMAIN queue' /\ queue'[i - 1] = queue[i])
  BY <1>2
<1>5. QueuedOnce'
  <2> SUFFICES ASSUME NEW i \in DOMAIN queue', NEW j \in DOMAIN queue',
                      queue'[i] = queue'[j]
               PROVE  i = j
    BY DEF QueuedOnce
  <2>1. i + 1 = j + 1
    BY <1>2, <1>3 DEF QueuedOnce
  <2> QED
    BY <1>2, <2>1
<1>6. \A w \in Worker : InQueue(w)' <=> InQueue(w) /\ w # Head(queue)
  <2> SUFFICES ASSUME NEW w \in Worker
               PROVE  InQueue(w)' <=> InQueue(w) /\ w # Head(queue)
    OBVIOUS
  <2>1. ASSUME NEW i \in DOMAIN queue', queue'[i] = w
        PROVE  InQueue(w) /\ w # Head(queue)
    BY <1>2, <1>3, <2>1 DEF InQueue, QueuedOnce
  <2>2. ASSUME NEW i \in DOMAIN queue, queue[i] = w, w # Head(queue)
        PROVE  InQueue(w)'
    BY <1>2, <1>4, <2>2 DEF InQueue
  <2> QED
    BY <2>1, <2>2 DEF InQueue
<1>7. InQueue(Head(queue))
  BY <1>2 DEF InQueue
<1>8. \A w \in Worker : ~Processing(w) /\ (Processing(w)' <=> w = Head(queue))
  BY <1>1, WorkersAssumption DEF Processing, WorkersAssumption
<1>9. ClaimedInOnePlace'
  BY <1>1, <1>2, <1>6, <1>7, <1>8 DEF ClaimedInOnePlace
<1> QED
  BY <1>5, <1>9

(* A job that ends, or waits for an answer, and the store of Idle          *)
(* (workers.hpp:121-128).                                                  *)
LEMMA JobKeepsClaims ==
  ASSUME ClaimInv, TypeOK', ClosedWhenIdle',
         \/ Suspend \/ FinishOnPool \/ ScheduleOnPool
         \/ \E w \in Worker : FinishResumed(w)
  PROVE  ClaimInv'
<1> USE DEF ClaimInv
<1>1. queue' = queue /\ dropped' = dropped
  BY DEF Suspend, FinishOnPool, ScheduleOnPool, FinishResumed, poolVars
<1>2. QueuedOnce' /\ \A w \in Worker : InQueue(w)' <=> InQueue(w)
  BY <1>1 DEF QueuedOnce, InQueue
<1> USE WorkersAssumption DEF WorkersAssumption
<1>3. CASE Suspend
  <2>1. /\ onPool \in Worker /\ Processing(onPool) /\ execState' = execState
        /\ \A w \in Worker : ~Processing(w)'
        /\ \A w \in Worker : w # onPool => ~Processing(w)
    BY <1>3 DEF Suspend, JobEnds, Processing, workerVars
  <2>2. suspended[onPool] = 0
    BY <2>1 DEF ClaimedInOnePlace
  <2>3. \A w \in Worker :
          suspended'[w] = IF w = onPool THEN 1 ELSE suspended[w]
    BY <1>3, <2>1, <2>2 DEF Suspend, TypeOK
  <2> QED
    BY <1>1, <1>2, <2>1, <2>2, <2>3 DEF ClaimedInOnePlace
<1>4. CASE FinishOnPool
  <2>1. /\ onPool \in Worker /\ Processing(onPool) /\ suspended' = suspended
        /\ \A w \in Worker : ~Processing(w)'
        /\ \A w \in Worker : w # onPool => ~Processing(w)
    BY <1>4 DEF FinishOnPool, Processing, TypeOK
  <2>2. \A w \in Worker :
          execState'[w] = IF w = onPool THEN "Idle" ELSE execState[w]
    BY <1>4, <2>1 DEF FinishOnPool, TypeOK
  <2> QED
    BY <1>1, <1>2, <2>1, <2>2 DEF ClaimedInOnePlace
<1>5. CASE ScheduleOnPool
  <2>1. /\ execState' = execState /\ suspended' = suspended
        /\ \A w \in Worker : ~Processing(w) /\ ~Processing(w)'
    BY <1>5 DEF ScheduleOnPool, JobEnds, Processing
  <2> QED
    BY <1>1, <1>2, <2>1 DEF ClaimedInOnePlace
<1>6. ASSUME NEW w \in Worker, FinishResumed(w)
      PROVE  ClaimInv'
  <2>1. \A v \in Worker : Processing(v)' <=> Processing(v)
    BY <1>6 DEF FinishResumed, Processing, poolVars
  <2>2. suspended[w] = 1
    BY <1>6 DEF FinishResumed, ClaimedInOnePlace, TypeOK
  <2>3. \A v \in Worker :
          /\ suspended'[v] = IF v = w THEN 0 ELSE suspended[v]
          /\ execState'[v] = IF v = w THEN "Idle" ELSE execState[v]
    BY <1>6, <2>2 DEF FinishResumed, TypeOK
  <2> QED
    BY <1>1, <1>2, <2>1, <2>2, <2>3 DEF ClaimedInOnePlace
<1> QED
  BY <1>3, <1>4, <1>5, <1>6

(* A claimed worker is always in exactly one place, and the pool is closed *)
(* just when it is to stop and was idle: ClaimInv is inductive.            *)
THEOREM ClaimsCorrect == Spec => []ClaimInv
<1>1. Init => ClaimInv
  <2> SUFFICES ASSUME Init PROVE ClaimInv
    OBVIOUS
  <2>1. TypeOK
    BY TypeCorrectInit
  <2>2. DOMAIN queue = {}
    BY DEF Init
  <2>3. QueuedOnce /\ \A w \in Worker : ~InQueue(w)
    BY <2>2 DEF QueuedOnce, InQueue
  <2>4. \A w \in Worker : ~Processing(w)
    BY WorkersAssumption DEF Init, Processing, WorkersAssumption
  <2>5. ClosedWhenIdle
    BY DEF Init, ClosedWhenIdle
  <2> QED
    BY <2>1, <2>3, <2>4, <2>5 DEF Init, ClaimInv, ClaimedInOnePlace
<1>2. ClaimInv /\ [Next]_vars => ClaimInv'
  <2> SUFFICES ASSUME ClaimInv, [Next]_vars PROVE ClaimInv'
    OBVIOUS
  <2>1. TypeOK'
    BY TypeCorrectStep DEF ClaimInv
  <2>0. ClosedWhenIdle'
    BY ClosedWhenIdleStep
  <2>2. CASE Start \/ SoftStop \/ Stop \/ Join \/ Wake \/ Skip \/ Sleep \/ Tick
             \/ \E w \in Worker : Check(w) \/ ScheduleResumed(w)
    BY <2>0, <2>1, <2>2, ClaimsUntouched
       DEF Start, SoftStop, Stop, Join, Wake, Skip, Sleep, Tick, Check,
           ScheduleResumed, workerVars, poolVars
  <2>3. CASE UNCHANGED vars
    BY <2>0, <2>1, <2>3, ClaimsUntouched DEF vars, workerVars, poolVars
  <2> QED
    BY <2>0, <2>1, <2>2, <2>3, SubmitKeepsClaims, EnterKeepsClaims, JobKeepsClaims
       DEF Next, Assistant, Pool, Resumed, Terminated
<1> QED
  BY <1>1, <1>2, PTL DEF Spec

(* Process of a worker is never entered while an earlier one still runs or *)
(* waits for an answer (workers.hpp:113-115, 128).                         *)
THEOREM NoOverlapCorrect == Spec => []NoOverlap
<1>1. ClaimInv => NoOverlap
  <2> SUFFICES ASSUME ClaimInv, NEW w \in Worker PROVE Active(w) <= 1
    BY DEF NoOverlap
  <2>1. suspended[w] \in 0 .. 1 /\ (Processing(w) => suspended[w] = 0)
    BY DEF ClaimInv, TypeOK, ClaimedInOnePlace
  <2> QED
    BY <2>1 DEF Active, Processing
<1> QED
  BY <1>1, ClaimsCorrect, PTL

(* InProgress stands for exactly one job that will store Idle again, or    *)
(* for one that the stopped pool threw away (workers.hpp:117).             *)
THEOREM OneJobPerClaimCorrect == Spec => []OneJobPerClaim
<1>1. ClaimInv => OneJobPerClaim
  <2> SUFFICES ASSUME ClaimInv, NEW w \in Worker
               PROVE  Queued(w) + Active(w) + (IF w \in dropped THEN 1 ELSE 0)
                        = (IF execState[w] = "InProgress" THEN 1 ELSE 0)
    BY DEF OneJobPerClaim
  <2>1. Queued(w) = IF InQueue(w) THEN 1 ELSE 0
    <3>1. CASE InQueue(w)
      <4>1. PICK i \in DOMAIN queue : queue[i] = w
        BY <3>1 DEF InQueue
      <4>2. {j \in DOMAIN queue : queue[j] = w} = {i}
        BY <4>1 DEF ClaimInv, QueuedOnce
      <4> QED
        BY <3>1, <4>2, FS_Singleton DEF Queued
    <3>2. CASE ~InQueue(w)
      <4>1. {j \in DOMAIN queue : queue[j] = w} = {}
        BY <3>2 DEF InQueue
      <4> QED
        BY <3>2, <4>1, FS_EmptySet DEF Queued
    <3> QED
      BY <3>1, <3>2
  <2>2. suspended[w] \in 0 .. 1
    BY DEF ClaimInv, TypeOK, ClaimedInOnePlace
  <2>3. Active(w) = suspended[w] + IF Processing(w) THEN 1 ELSE 0
    BY DEF Active, Processing
  <2> QED
    BY <2>1, <2>2, <2>3 DEF ClaimInv, ClaimedInOnePlace
<1> QED
  BY <1>1, ClaimsCorrect, PTL
=============================================================================
