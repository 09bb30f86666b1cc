----------------------- MODULE NetworkProcessorProofs -----------------------
(***************************************************************************)
(* Theorems about NetworkProcessor, for every set of calls, timeout,       *)
(* period of the assistant and lateness of the threads; and what the       *)
(* module takes for granted about the ids of messages (MessageIds) and     *)
(* their way to the other node and back (Messages).                        *)
(***************************************************************************)
EXTENDS NetworkProcessor, Messages, MessageIds, TLAPS

(* Growing older keeps an instant within the horizon and moves it by at    *)
(* most one unit (the clock of network.cpp:109, 130, 159, 168).            *)
LEMMA OlderFact ==
  ASSUME NEW top \in Int, top >= 0, NEW t \in -Horizon .. top
  PROVE  Older(t) \in -Horizon .. top /\ Older(t) >= t - 1
BY NetworkAssumption DEF NetworkAssumption, Older

(* Waiters are told expired and promises timed out only among the calls.   *)
LEMMA TimeOutType ==
  ASSUME TypeOK, NEW S
  PROVE  TimeOut(S) \in
           [Call -> {"none", "pending", "ok", "timeout", "broken"}]
<1>1. \A c \in Call :
        future[c] \in {"none", "pending", "ok", "timeout", "broken"}
  BY DEF TypeOK
<1> QED
  BY <1>1 DEF TimeOut

(* Whatever operation of a Session a call is issued by, it ends in one of  *)
(* the three ...Internal functions (network.hpp:97-135).                   *)
LEMMA IssueBegins ==
  ASSUME NEW c \in Call, Issue(c)
  PROVE  \E p \in {"detached", "once", "alo"}, t \in BOOLEAN : Begin(c, p, t)
<1>1. PICK op \in Operation, template \in BOOLEAN, given \in BOOLEAN :
        Begin(c, PolicyOf(op), HasTimeout(op, template, given))
  BY DEF Issue
<1>2. PolicyOf(op) \in {"detached", "once", "alo"}
  BY DEF PolicyOf
<1>3. HasTimeout(op, template, given) \in BOOLEAN
  BY DEF HasTimeout
<1> QED
  BY <1>1, <1>2, <1>3

(* Every variable has its type at the start and keeps it.                  *)
LEMMA TypeCorrectInit == Init => TypeOK
<1>1. 0 \in Instant /\ 0 \in -Horizon .. Repeat /\ 0 \in -Horizon .. Timeout
  BY NetworkAssumption DEF NetworkAssumption, Instant
<1> SUFFICES ASSUME Init PROVE TypeOK
  OBVIOUS
<1>2. updatedAt \in [Call -> Instant]
  BY <1>1 DEF Init
<1>3. deadline \in [Call -> -Horizon .. Timeout]
  BY <1>1 DEF Init
<1>4. served \in [Call -> 0 .. 2] /\ asstNow \in Instant
      /\ wakeAt \in -Horizon .. Repeat
  BY <1>1 DEF Init
<1>5. pc \in [Call -> {"idle", "sent", "stamped", "returned"}]
  BY DEF Init
<1>6. policy \in [Call -> {"none", "detached", "once", "alo"}]
  BY DEF Init
<1>7. future \in [Call -> {"none", "pending", "ok", "timeout", "broken"}]
  BY DEF Init
<1> QED
  BY <1>2, <1>3, <1>4, <1>5, <1>6, <1>7 DEF Init, TypeOK

LEMMA TypeCorrectStep ==
  ASSUME TypeOK, [Next]_vars
  PROVE  TypeOK'
<1> USE NetworkAssumption DEF NetworkAssumption
<1>1. CASE Start
  BY <1>1 DEF Start, TypeOK, Instant, callVars, timeVars, waiterVars, networkVars
<1>2. CASE Stop
  BY <1>2 DEF Stop, TypeOK, Instant, assistantVars, callVars, timeVars,
              waiterVars, networkVars
<1>3. CASE Join
  BY <1>3 DEF Join, TypeOK, Instant, callVars, timeVars, waiterVars, networkVars
<1>4. CASE Destroy
  BY <1>4 DEF Destroy, Erase, TypeOK, Instant, callVars, networkVars
<1>5. CASE Wake
  BY <1>5 DEF Wake, LoopCondition, TypeOK, Instant, callVars, timeVars, waiterVars, networkVars
<1>6. CASE UpdateOnce
  BY <1>6, TimeOutType
     DEF UpdateOnce, Erase, Expired, Erasable, TypeOK, Instant, callVars, networkVars
<1>7. CASE UpdateAtLeastOnce
  BY <1>7, TimeOutType
     DEF UpdateAtLeastOnce, Stale, Expired, Erasable, TypeOK, Instant, callVars
<1>8. CASE BlockInContinuation
  BY <1>8, TimeOutType
     DEF BlockInContinuation, TypeOK, Instant, callVars, timeVars,
         waiterVars, networkVars
<1>9. CASE Resolve
  BY <1>9 DEF Resolve, TypeOK, Instant, assistantVars, callVars, timeVars,
              waiterVars, networkVars
<1>10. ASSUME NEW c \in Call, Issue(c) PROVE TypeOK'
  <2>1. PICK p \in {"detached", "once", "alo"}, t \in BOOLEAN : Begin(c, p, t)
    BY <1>10, IssueBegins
  <2> QED
    BY <2>1 DEF Begin, TypeOK, Instant, assistantVars, timeVars, waiterVars
<1>11. ASSUME NEW c \in Call, Stamp(c) PROVE TypeOK'
  BY <1>11 DEF Stamp, DeadlineOf, TypeOK, Instant, assistantVars, waiterVars, networkVars
<1>12. ASSUME NEW c \in Call, Register(c) PROVE TypeOK'
  BY <1>12 DEF Register, TypeOK, Instant, assistantVars, timeVars, networkVars
<1>13. ASSUME NEW c \in Call, Serve(c) PROVE TypeOK'
  BY <1>13 DEF Serve, Delivered, TypeOK, Instant, assistantVars, callVars,
               timeVars, waiterVars
<1>14. ASSUME NEW c \in Call, Lose(c) PROVE TypeOK'
  BY <1>14 DEF Lose, TypeOK, Instant, assistantVars, callVars, timeVars,
               waiterVars
<1>15. ASSUME NEW c \in Call, Receive(c) PROVE TypeOK'
  BY <1>15 DEF Receive, Delivered, Erase, TypeOK, Instant, assistantVars,
               callVars
<1>16. CASE Tick
  <2>1. asstNow' \in Instant /\ wakeAt' \in -Horizon .. Repeat
    BY <1>16, OlderFact DEF Tick, TypeOK, Instant
  <2>2. /\ updatedAt' \in [Call -> Instant]
        /\ deadline' \in [Call -> -Horizon .. Timeout]
    BY <1>16, OlderFact DEF Tick, TypeOK, Instant
  <2> QED
    BY <1>16, <2>1, <2>2 DEF Tick, TypeOK, callVars, waiterVars, networkVars
<1>17. CASE UNCHANGED vars
  BY <1>17 DEF TypeOK, vars, assistantVars, callVars, timeVars, waiterVars,
               networkVars
<1> QED
  BY <1>1, <1>2, <1>3, <1>4, <1>5, <1>6, <1>7, <1>8, <1>9, <1>10, <1>11,
     <1>12, <1>13, <1>14, <1>15, <1>16, <1>17
     DEF Next, Assistant, Caller, Terminated

(* Every variable keeps its type.                                          *)
THEOREM TypeCorrect == Spec => []TypeOK
<1>1. TypeOK /\ [Next]_vars => TypeOK'
  BY TypeCorrectStep
<1> QED
  BY TypeCorrectInit, <1>1, PTL DEF Spec

-----------------------------------------------------------------------------
(* Who owns a pending promise.                                             *)

OwnershipInv == TypeOK /\ CallProgress /\ LifeCycle /\ WaitersBackFutures

(* WaitersBackFutures with the waiters, the progress of the calls and the  *)
(* life cycle it rests on holds in every reachable state.                  *)
THEOREM Ownership == Spec => []OwnershipInv
<1> USE DEF OwnershipInv
<1>1. Init => OwnershipInv
  <2> SUFFICES ASSUME Init PROVE OwnershipInv
    OBVIOUS
  <2>1. TypeOK
    BY TypeCorrectInit
  <2>2. CallProgress /\ LifeCycle
    BY NetworkAssumption DEF NetworkAssumption, Init, CallProgress, LifeCycle
  <2>3. WaitersBackFutures
    BY NetworkAssumption DEF NetworkAssumption, Init, WaitersBackFutures
  <2> QED
    BY <2>1, <2>2, <2>3
<1>2. OwnershipInv /\ [Next]_vars => OwnershipInv'
  <2> SUFFICES ASSUME OwnershipInv, [Next]_vars PROVE OwnershipInv'
    OBVIOUS
  <2> USE NetworkAssumption DEF NetworkAssumption
  <2>0. TypeOK'
    BY TypeCorrectStep
  <2> USE DEF CallProgress, LifeCycle, WaitersBackFutures
  <2>1. CASE Start
    BY <2>0, <2>1 DEF Start, TypeOK, callVars, timeVars, waiterVars
  <2>2. CASE Stop
    BY <2>0, <2>2 DEF Stop, TypeOK, assistantVars, callVars, timeVars, waiterVars
  <2>3. CASE Join
    BY <2>0, <2>3 DEF Join, TypeOK, callVars, timeVars, waiterVars
  <2>4. CASE Destroy
    BY <2>0, <2>4 DEF Destroy, Erase, TypeOK, callVars
  <2>5. CASE Wake
    BY <2>0, <2>5 DEF Wake, LoopCondition, TypeOK, callVars, timeVars, waiterVars
  <2>6. CASE UpdateOnce
    BY <2>0, <2>6 DEF UpdateOnce, Erase, Expired, Erasable, TimeOut, TypeOK, callVars
  <2>7. CASE UpdateAtLeastOnce
    BY <2>0, <2>7
       DEF UpdateAtLeastOnce, Stale, Expired, Erasable, TimeOut, TypeOK, callVars
  <2>8. CASE BlockInContinuation
    <3>1. \A c \in Call : pc[c] # "returned" => future'[c] = future[c]
      BY <2>8 DEF BlockInContinuation, TimeOut, Expired, TypeOK
    <3> QED
      BY <2>0, <2>8, <3>1 DEF BlockInContinuation, TypeOK, callVars, timeVars,
         waiterVars
  <2>9. CASE Resolve
    BY <2>0, <2>9 DEF Resolve, TypeOK, assistantVars, callVars, timeVars,
       waiterVars
  <2>10. ASSUME NEW c \in Call, Issue(c) PROVE OwnershipInv'
    <3>1. PICK p \in {"detached", "once", "alo"}, t \in BOOLEAN : Begin(c, p, t)
      BY <2>10, IssueBegins
    <3> QED
      BY <2>0, <3>1 DEF Begin, TypeOK, assistantVars, timeVars, waiterVars
  <2>11. ASSUME NEW c \in Call, Stamp(c) PROVE OwnershipInv'
    BY <2>0, <2>11 DEF Stamp, DeadlineOf, TypeOK, assistantVars, waiterVars
  <2>12. ASSUME NEW c \in Call, Register(c) PROVE OwnershipInv'
    BY <2>0, <2>12 DEF Register, TypeOK, assistantVars, timeVars
  <2>13. ASSUME NEW c \in Call, Serve(c) \/ Lose(c) PROVE OwnershipInv'
    BY <2>0, <2>13 DEF Serve, Lose, TypeOK, assistantVars, callVars, timeVars,
       waiterVars
  <2>14. ASSUME NEW c \in Call, Receive(c) PROVE OwnershipInv'
    BY <2>0, <2>14 DEF Receive, Erase, TypeOK, assistantVars, callVars
  <2>15. CASE Tick
    BY <2>0, <2>15 DEF Tick, Dated, TypeOK, callVars, waiterVars
  <2>16. CASE UNCHANGED vars
    BY <2>0, <2>16 DEF TypeOK, vars, assistantVars, callVars, timeVars,
       waiterVars
  <2> HIDE DEF OwnershipInv, CallProgress, LifeCycle, WaitersBackFutures
  <2> QED
    BY <2>1, <2>2, <2>3, <2>4, <2>5, <2>6, <2>7, <2>8, <2>9, <2>10, <2>11,
       <2>12, <2>13, <2>14, <2>15, <2>16
       DEF Next, Assistant, Caller, Terminated
<1> QED
  BY <1>1, <1>2, PTL DEF Spec

(* The promises of the two maps and of the Run thread are exactly the      *)
(* pending futures of the callers, for any number of calls.                *)
THEOREM WaitersCorrect == Spec => []WaitersBackFutures
<1>1. OwnershipInv => WaitersBackFutures
  BY DEF OwnershipInv
<1> QED
  BY Ownership, <1>1, PTL

-----------------------------------------------------------------------------
(* How late the assistant can be.                                          *)

(* The distance of every waiter's instants from the assistant's own        *)
(* instants is bounded, in every reachable state.                          *)
THEOREM LatenessBounded == Spec => []Lateness
<1> DEFINE Inv == OwnershipInv /\ Lateness
<1>1. Init => Lateness
  BY DEF Init, Lateness
<1>2. OwnershipInv /\ OwnershipInv' /\ Lateness /\ [Next]_vars => Lateness'
  <2> SUFFICES ASSUME OwnershipInv, OwnershipInv', Lateness, [Next]_vars,
                      running', mtx' = "free"
               PROVE  Lateness'
    BY DEF Lateness
  <2>0. TypeOK /\ TypeOK' /\ LifeCycle /\ LifeCycle'
    BY DEF OwnershipInv
  <2>p. /\ WaitersBackFutures /\ CallProgress
    BY DEF OwnershipInv
  <2> USE NetworkAssumption
      DEF NetworkAssumption, OldestUpdate, OldestOnceDeadline,
          OldestAtLeastOnceDeadline
  <2>1. CASE Start
    BY <2>0, <2>1, <2>p DEF Start, TypeOK, Instant, Lateness, LifeCycle, CallProgress,
       WaitersBackFutures, callVars, timeVars, waiterVars
  <2>2. CASE Stop \/ Join \/ Destroy \/ BlockInContinuation
    BY <2>0, <2>2 DEF Stop, Join, Destroy, BlockInContinuation, LifeCycle
  <2>3. CASE Wake
    BY <2>0, <2>3 DEF Wake, LoopCondition, TypeOK, Instant, Lateness, callVars, timeVars,
       waiterVars
  <2>4. CASE UpdateOnce
    BY <2>0, <2>4, <2>p DEF UpdateOnce, Erase, Expired, Erasable, TypeOK, Instant, Lateness,
       callVars, CallProgress, WaitersBackFutures
  <2>5. CASE UpdateAtLeastOnce
    BY <2>0, <2>5, <2>p DEF UpdateAtLeastOnce, Stale, Expired, Erasable, TypeOK, Instant,
       Lateness, callVars, CallProgress, WaitersBackFutures
  <2>6. CASE Resolve
    BY <2>0, <2>6 DEF Resolve, Lateness, assistantVars, callVars, timeVars,
       waiterVars
  <2>7. ASSUME NEW c \in Call, Issue(c) PROVE Lateness'
    <3>1. PICK p \in {"detached", "once", "alo"}, t \in BOOLEAN : Begin(c, p, t)
      BY <2>7, IssueBegins
    <3> QED
      BY <2>0, <3>1, <2>p DEF Begin, TypeOK, Lateness, CallProgress, assistantVars,
         timeVars, waiterVars
  <2>8. ASSUME NEW c \in Call, Stamp(c) PROVE Lateness'
    BY <2>0, <2>8, <2>p DEF Stamp, DeadlineOf, TypeOK, Instant, Lateness, CallProgress,
       assistantVars, waiterVars
  <2>9. ASSUME NEW c \in Call, Register(c) PROVE Lateness'
    BY <2>0, <2>9, <2>p DEF Register, TypeOK, Instant, Lateness, LifeCycle,
       CallProgress, assistantVars, timeVars
  <2>10. ASSUME NEW c \in Call, Serve(c) \/ Lose(c) PROVE Lateness'
    BY <2>0, <2>10 DEF Serve, Lose, Lateness, assistantVars, callVars,
       timeVars, waiterVars
  <2>11. ASSUME NEW c \in Call, Receive(c) PROVE Lateness'
    BY <2>0, <2>11, <2>p DEF Receive, Erase, TypeOK, Lateness, CallProgress,
       assistantVars, callVars
  <2>12. CASE Tick
    <3> USE DEF Instant
    <3>1. running /\ mtx = "free" /\ asst \in {"sleep", "once", "alo"}
      BY <2>0, <2>12 DEF Tick, LifeCycle, TypeOK
    <3>2. /\ asst = "sleep" => wakeAt' = wakeAt - 1 /\ wakeAt' >= -Slack
          /\ asst \in {"once", "alo"} =>
               asstNow' = asstNow - 1 /\ asstNow' >= -Slack
      BY <2>0, <2>12 DEF Tick, Punctual, Older, TypeOK
    <3>3. \A c \in Call : /\ updatedAt'[c] >= updatedAt[c] - 1
                         /\ deadline'[c] >= deadline[c] - 1
      BY <2>0, <2>12 DEF Tick, Older, TypeOK
    <3>4. \A c \in Call : pc[c] = "stamped" =>
            /\ updatedAt'[c] >= -Slack
            /\ c \in timed => deadline'[c] >= updatedAt'[c]
      <4> SUFFICES ASSUME NEW c \in Call, pc[c] = "stamped"
                   PROVE  /\ updatedAt'[c] >= -Slack
                          /\ c \in timed => deadline'[c] >= updatedAt'[c]
        OBVIOUS
      <4>1. updatedAt[c] > -Slack /\ (c \in timed => deadline[c] >= updatedAt[c])
        BY <2>12, <3>1 DEF Tick, Punctual, Lateness
      <4>2. updatedAt'[c] = updatedAt[c] - 1
        BY <2>0, <2>12, <4>1 DEF Tick, Dated, Older, TypeOK
      <4> QED
        BY <2>0, <3>3, <4>1, <4>2 DEF TypeOK
    <3>5. \A c \in atLeastOnce : updatedAt'[c] >= OldestUpdate'
      <4>1. \A c \in atLeastOnce : updatedAt[c] >= OldestUpdate
        BY <3>1 DEF Lateness
      <4> QED
        BY <2>0, <2>12, <3>1, <3>2, <3>3, <4>1 DEF Tick, TypeOK
    <3>6. \A c \in once \cap timed : deadline'[c] >= OldestOnceDeadline'
      <4>1. \A c \in once \cap timed : deadline[c] >= OldestOnceDeadline
        BY <3>1 DEF Lateness
      <4> QED
        BY <2>0, <2>12, <3>1, <3>2, <3>3, <4>1 DEF Tick, TypeOK
    <3>7. \A c \in atLeastOnce \cap timed :
            deadline'[c] >= OldestAtLeastOnceDeadline'
      <4>1. \A c \in atLeastOnce \cap timed :
              deadline[c] >= OldestAtLeastOnceDeadline
        BY <3>1 DEF Lateness
      <4> QED
        BY <2>0, <2>12, <3>1, <3>2, <3>3, <4>1 DEF Tick, TypeOK
    <3> HIDE DEF OldestUpdate, OldestOnceDeadline, OldestAtLeastOnceDeadline
    <3> QED
      BY <2>12, <3>1, <3>2, <3>4, <3>5, <3>6, <3>7
         DEF Tick, Lateness, callVars, waiterVars
  <2>13. CASE UNCHANGED vars
    BY <2>0, <2>13 DEF vars, Lateness, assistantVars, callVars, timeVars,
       waiterVars
  <2> HIDE DEF OldestUpdate
  <2> QED
    BY <2>1, <2>2, <2>3, <2>4, <2>5, <2>6, <2>7, <2>8, <2>9, <2>10, <2>11,
       <2>12, <2>13
       DEF Next, Assistant, Caller, Terminated
<1> QED
  BY <1>1, <1>2, Ownership, PTL DEF Spec

(* An at-least-once request is sent again within two periods and four      *)
(* times the lateness of a thread, whatever these are.                     *)
THEOREM ResendLatencyCorrect == Spec => []ResendLatency
<1>1. TypeOK /\ LifeCycle /\ Lateness => ResendLatency
  BY NetworkAssumption
     DEF NetworkAssumption, TypeOK, Instant, LifeCycle, Lateness, ResendLatency,
         OldestUpdate
<1> QED
  BY <1>1, Ownership, LatenessBounded, PTL DEF OwnershipInv

(* A waiter outlives its deadline by at most one period and four times the *)
(* lateness of a thread, whatever these are.                               *)
THEOREM TimeoutLatencyCorrect == Spec => []TimeoutLatency
<1>1. TypeOK /\ LifeCycle /\ Lateness => TimeoutLatency
  BY NetworkAssumption
     DEF NetworkAssumption, TypeOK, Instant, LifeCycle, Lateness, TimeoutLatency,
         OldestOnceDeadline, OldestAtLeastOnceDeadline
<1> QED
  BY <1>1, Ownership, LatenessBounded, PTL DEF OwnershipInv

(* No future times out before its deadline: the `now` the assistant        *)
(* compares with is never later than the time the promise is fulfilled.    *)
THEOREM NeverEarlyCorrect == Spec => NeverEarly
<1>1. TypeOK /\ [Next]_vars =>
        [\A c \in Call : future[c] # "timeout" /\ future'[c] = "timeout"
           => c \in timed /\ deadline[c] < 0]_vars
  <2> SUFFICES ASSUME TypeOK, Next, NEW c \in Call, future[c] # "timeout",
                      future'[c] = "timeout"
               PROVE  c \in timed /\ deadline[c] < 0
    OBVIOUS
  <2> USE NetworkAssumption DEF NetworkAssumption
  <2>1. CASE UpdateOnce \/ UpdateAtLeastOnce \/ BlockInContinuation
    <3>1. c \in Expired(once) \cup Expired(atLeastOnce)
      BY <2>1 DEF UpdateOnce, UpdateAtLeastOnce, BlockInContinuation, TimeOut
    <3> QED
      BY <3>1 DEF Expired, TypeOK, Instant
  <2>2. CASE \E d \in Call : Stamp(d)
    BY <2>2 DEF Stamp, TypeOK
  <2>3. CASE Resolve
    BY <2>3 DEF Resolve, TypeOK
  <2>4. CASE Destroy
    BY <2>4 DEF Destroy, TypeOK
  <2>5. CASE UNCHANGED future
    BY <2>5
  <2>6. ASSUME NEW d \in Call,
               Issue(d) \/ Register(d) \/ Serve(d) \/ Lose(d) \/ Receive(d)
        PROVE  UNCHANGED future
    BY <2>6, IssueBegins DEF Begin, Register, Serve, Lose, Receive
  <2>7. Start \/ Stop \/ Join \/ Wake \/ Tick \/ Terminated => UNCHANGED future
    BY DEF Start, Stop, Join, Wake, Tick, Terminated, vars
  <2> QED
    BY <2>1, <2>2, <2>3, <2>4, <2>5, <2>6, <2>7 DEF Next, Assistant, Caller
<1> QED
  BY <1>1, TypeCorrect, PTL DEF Spec, NeverEarly

(* Once a caller has its result its request is not sent again: a pass      *)
(* expires before it resends (network.cpp:173-183).                        *)
THEOREM SilentOnceDoneCorrect == Spec => SilentOnceDone
<1>1. OwnershipInv /\ [Next]_vars =>
        [\A c \in Call : future'[c] \in Done /\ c \in requests'
           => c \in requests]_vars
  <2> SUFFICES ASSUME OwnershipInv, Next, NEW c \in Call, c \in requests',
                      c \notin requests
               PROVE  future'[c] \notin Done
    OBVIOUS
  <2>0. TypeOK /\ CallProgress /\ WaitersBackFutures
    BY DEF OwnershipInv
  <2>1. CASE UpdateAtLeastOnce
    <3>1. c \in atLeastOnce /\ c \notin Expired(atLeastOnce) /\ mtx = "free"
      BY <2>1 DEF UpdateAtLeastOnce, Stale, Erasable, Expired
    <3>2. future[c] = "pending"
      BY <2>0, <3>1 DEF WaitersBackFutures
    <3>3. future'[c] = future[c]
      BY <2>1, <3>1 DEF UpdateAtLeastOnce, TimeOut
    <3> QED
      BY <3>2, <3>3 DEF Done
  <2>2. ASSUME NEW d \in Call, Issue(d)
        PROVE  future'[c] \notin Done
    <3>1. /\ requests' = requests \cup {d} /\ pc[d] = "idle"
          /\ future' = future
      BY <2>2, IssueBegins DEF Begin
    <3> QED
      BY <2>0, <3>1 DEF CallProgress, Done
  <2>3. CASE \/ Start \/ Stop \/ Join \/ Destroy \/ Wake \/ UpdateOnce
             \/ BlockInContinuation \/ Resolve \/ Tick \/ Terminated
    BY <2>3 DEF Start, Stop, Join, Destroy, Wake, UpdateOnce,
       BlockInContinuation, Resolve, Tick, Terminated, networkVars, vars
  <2>4. ASSUME NEW d \in Call, Caller(d) \/ Serve(d) \/ Lose(d) \/ Receive(d)
        PROVE  FALSE
    BY <2>4 DEF Caller, Stamp, Register, Serve, Delivered, Lose, Receive,
       networkVars
  <2> QED
    BY <2>1, <2>2, <2>3, <2>4 DEF Next, Assistant
<1> QED
  BY <1>1, Ownership, PTL DEF Spec, SilentOnceDone

-----------------------------------------------------------------------------
(* The promise to callers.                                                 *)

(* AnswersEarned, with who owns a promise, holds in every reachable state. *)
THEOREM AnswersEarnedCorrect == Spec => []AnswersEarned
<1>1. Init => AnswersEarned
  BY NetworkAssumption DEF NetworkAssumption, Init, AnswersEarned
<1>2. OwnershipInv /\ AnswersEarned /\ [Next]_vars => AnswersEarned'
  <2> SUFFICES ASSUME OwnershipInv, AnswersEarned, [Next]_vars
               PROVE  AnswersEarned'
    OBVIOUS
  <2>0. /\ TypeOK /\ CallProgress /\ LifeCycle /\ WaitersBackFutures
        /\ NoCall \notin Call
    BY NetworkAssumption DEF OwnershipInv, NetworkAssumption
  <2>1. CASE \/ Start \/ Stop \/ Join \/ Wake \/ Tick \/ UNCHANGED vars
    <3>1. UNCHANGED <<callVars, future, resolving, networkVars, atLeastOnce>>
      BY <2>1 DEF Start, Stop, Join, Wake, Tick, vars, waiterVars
    <3> QED
      BY <3>1 DEF AnswersEarned, callVars, networkVars
  <2>2. CASE Destroy
    <3>1. resolving = NoCall
      BY <2>0, <2>2 DEF Destroy, LifeCycle
    <3> QED
      BY <2>0, <2>2, <3>1 DEF Destroy, AnswersEarned, TypeOK, callVars, networkVars
  <2>3. CASE UpdateOnce \/ UpdateAtLeastOnce \/ BlockInContinuation
    <3>1. PICK S \in SUBSET (once \cup atLeastOnce) : future' = TimeOut(S)
      BY <2>3 DEF UpdateOnce, UpdateAtLeastOnce, BlockInContinuation, Expired
    <3>2. mtx = "free" /\ resolving' = resolving /\ resolving \notin S
      BY <2>0, <2>3, <3>1 DEF UpdateOnce, UpdateAtLeastOnce, BlockInContinuation,
         WaitersBackFutures
    <3>3. \A c \in Call : future'[c] = IF c \in S THEN "timeout" ELSE future[c]
      BY <3>1 DEF TimeOut
    <3>4. /\ UNCHANGED <<callVars, responses, served>>
          /\ atLeastOnce' \subseteq atLeastOnce
          /\ requests' \subseteq requests \cup atLeastOnce
          /\ resent' \subseteq resent \cup atLeastOnce
      BY <2>3 DEF UpdateOnce, UpdateAtLeastOnce, BlockInContinuation, Stale,
         networkVars, waiterVars
    <3>5. \A c \in atLeastOnce : c \in Call /\ pc[c] # "idle"
      BY <2>0 DEF TypeOK, CallProgress
    <3> QED
      BY <3>2, <3>3, <3>4, <3>5 DEF AnswersEarned, callVars
  <2>4. CASE Resolve
    <3>1. /\ resolving \in Call /\ served[resolving] > 0
          /\ future' = [future EXCEPT ![resolving] = "ok"]
          /\ resolving' = NoCall
          /\ UNCHANGED <<callVars, waiterVars, networkVars>>
      BY <2>0, <2>4 DEF Resolve, AnswersEarned, TypeOK
    <3> QED
      BY <2>0, <3>1 DEF AnswersEarned, TypeOK, callVars, waiterVars, networkVars
  <2>5. ASSUME NEW d \in Call, Issue(d) PROVE AnswersEarned'
    <3>1. PICK p \in {"detached", "once", "alo"}, t \in BOOLEAN : Begin(d, p, t)
      BY <2>5, IssueBegins
    <3>2. d \notin resent \cup atLeastOnce
      BY <2>0, <3>1 DEF Begin, AnswersEarned, TypeOK
    <3> QED
      BY <2>0, <3>1, <3>2 DEF Begin, AnswersEarned, TypeOK, waiterVars
  <2>6. ASSUME NEW d \in Call, Stamp(d) PROVE AnswersEarned'
    BY <2>0, <2>6 DEF Stamp, AnswersEarned, TypeOK, CallProgress, waiterVars,
       networkVars
  <2>7. ASSUME NEW d \in Call, Register(d) PROVE AnswersEarned'
    BY <2>0, <2>7 DEF Register, AnswersEarned, TypeOK, networkVars
  <2>8. ASSUME NEW d \in Call, Serve(d) PROVE AnswersEarned'
    <3>1. /\ d \in requests /\ requests' \in Delivered(requests, d)
          /\ responses' = responses \cup {d}
          /\ served' = [served EXCEPT ![d] = IF served[d] < 2 THEN served[d] + 1
                                             ELSE 2]
          /\ UNCHANGED <<callVars, waiterVars, future, resolving, resent>>
      BY <2>8 DEF Serve
    <3>2. \A c \in Call : c # d => served'[c] = served[c]
      BY <2>0, <3>1 DEF TypeOK
    <3>3. served'[d] > 0
      BY <2>0, <3>1 DEF TypeOK
    <3>4. /\ requests' \subseteq requests
          /\ d \in requests' => policy[d] = "alo"
      BY <3>1 DEF Delivered, AnswersEarned
    <3> QED
      BY <3>1, <3>2, <3>3, <3>4 DEF AnswersEarned, callVars, waiterVars
  <2>9. ASSUME NEW d \in Call, Lose(d) PROVE AnswersEarned'
    BY <2>9 DEF Lose, AnswersEarned, callVars, waiterVars
  <2>10. ASSUME NEW d \in Call, Receive(d) PROVE AnswersEarned'
    <3>1. d \in once \cup atLeastOnce => future[d] = "pending"
      BY <2>0, <2>10 DEF Receive, WaitersBackFutures
    <3>2. /\ d \in responses /\ responses' \subseteq responses
          /\ resolving' = IF d \in once \cup atLeastOnce THEN d ELSE NoCall
          /\ atLeastOnce' \subseteq atLeastOnce
          /\ UNCHANGED <<callVars, future, requests, resent, served>>
      BY <2>10 DEF Receive, Delivered
    <3> QED
      BY <2>0, <3>1, <3>2 DEF AnswersEarned, callVars
  <2> QED
    BY <2>1, <2>2, <2>3, <2>4, <2>5, <2>6, <2>7, <2>8, <2>9, <2>10
       DEF Next, Assistant, Caller, Terminated
<1> QED
  BY <1>1, <1>2, Ownership, PTL DEF Spec

(* What a caller sees of a call: it is open from when it is issued until   *)
(* its future is done.                                                     *)
Status(c) ==
  CASE pc[c] = "idle"     -> "idle"
    [] future[c] \in Done -> future[c]
    [] OTHER              -> "open"

LEMMA StatusFacts ==
  ASSUME CallProgress, TypeOK, NEW c \in Call
  PROVE  /\ pc[c] = "idle" => Status(c) = "idle"
         /\ pc[c] # "idle" /\ future[c] \in {"none", "pending"}
              => Status(c) = "open"
BY DEF CallProgress, Status, Done, TypeOK

(* The variables of RpcCall, as NetworkProcessor has them.                 *)
StatusNow == [c \in Call |-> Status(c)]
Repeatable == {c \in Call : policy[c] = "alo"}
Closed == asst = "destroyed"

LEMMA RpcVars ==
  /\ Rpc!vars = <<StatusNow, Repeatable, timed, served, Closed>>
  /\ Rpc!vars' = <<StatusNow', Repeatable', timed', served', Closed'>>
BY DEF Rpc!vars, StatusNow, Repeatable, Closed, Status

(* The steps of RpcCall that complete calls, said of them.                 *)
LEMMA CompletionIsStep ==
  ASSUME NEW S \in SUBSET {c \in Call : Status(c) = "open"}, NEW outcome,
         StatusNow' = [c \in Call |-> IF c \in S THEN outcome ELSE Status(c)],
         Repeatable' = Repeatable, timed' = timed, served' = served, ~Closed
  PROVE  /\ outcome = "timeout" /\ S \subseteq timed /\ ~Closed' => Rpc!Expire
         /\ outcome = "broken" /\ Closed' => Rpc!Close
<1>1. /\ Rpc!Complete(S, outcome)
      /\ S \subseteq Rpc!Open
  BY DEF Rpc!Complete, Rpc!Open, StatusNow, Status
<1> QED
  BY <1>1 DEF Rpc!Expire, Rpc!Close, Repeatable, Closed

(* Waiters whose promises are fulfilled are calls that complete.           *)
LEMMA FulfilledComplete ==
  ASSUME OwnershipInv, UNCHANGED callVars, mtx = "free",
         NEW S \in SUBSET (once \cup atLeastOnce), NEW outcome \in Done,
         future' = [c \in Call |-> IF c \in S THEN outcome ELSE future[c]]
  PROVE  /\ S \in SUBSET {c \in Call : Status(c) = "open"}
         /\ StatusNow' = [c \in Call |-> IF c \in S THEN outcome ELSE Status(c)]
         /\ Repeatable' = Repeatable /\ timed' = timed
<1>0. TypeOK /\ CallProgress /\ WaitersBackFutures
  BY DEF OwnershipInv
<1>1. \A c \in S : c \in Call /\ pc[c] = "returned" /\ future[c] = "pending"
  BY <1>0 DEF WaitersBackFutures
<1>2. S \in SUBSET {c \in Call : Status(c) = "open"}
  BY <1>0, <1>1, StatusFacts
<1>3. \A c \in Call : Status(c)' = IF c \in S THEN outcome ELSE Status(c)
  BY <1>1 DEF Status, callVars
<1> QED
  BY <1>2, <1>3 DEF StatusNow, Repeatable, callVars

(* Every step of NetworkProcessor is a step of RpcCall or none.            *)
LEMMA StepImplementsRpc ==
  ASSUME OwnershipInv, AnswersEarned, [Next]_vars
  PROVE  [Rpc!Next]_(Rpc!vars)
<1>0. /\ TypeOK /\ CallProgress /\ LifeCycle /\ WaitersBackFutures
      /\ NoCall \notin Call
  BY NetworkAssumption DEF OwnershipInv, NetworkAssumption
<1>1. ASSUME UNCHANGED <<policy, timed, served>>, Closed' = Closed,
             \A c \in Call : Status(c)' = Status(c)
      PROVE  UNCHANGED Rpc!vars
  BY <1>1, RpcVars DEF StatusNow, Repeatable
<1>2. CASE \/ Start \/ Stop \/ Join \/ Wake \/ Tick \/ UNCHANGED vars
           \/ \E c \in Call : Lose(c) \/ Receive(c)
  <2>1. UNCHANGED <<callVars, future, served>> /\ Closed' = Closed
    BY <1>2 DEF Start, Stop, Join, Wake, Tick, vars, Lose, Receive,
       networkVars, assistantVars, Closed
  <2> QED
    BY <1>1, <2>1 DEF Status, callVars
<1>3. ASSUME NEW d \in Call, Stamp(d) \/ Register(d)
      PROVE  UNCHANGED Rpc!vars
  <2>1. /\ UNCHANGED <<policy, timed, served>> /\ Closed' = Closed
        /\ \A c \in Call : pc'[c] = "idle" <=> pc[c] = "idle"
        /\ \A c \in Call : \/ future'[c] = future[c]
                           \/ future[c] = "none" /\ future'[c] = "pending"
    BY <1>0, <1>3 DEF Stamp, Register, TypeOK, CallProgress, networkVars,
       assistantVars, Closed
  <2> QED
    BY <1>1, <2>1 DEF Status, Done
<1>4. ASSUME NEW d \in Call, Issue(d) PROVE Rpc!Issue(d)
  <2>1. PICK p \in {"detached", "once", "alo"}, t \in BOOLEAN : Begin(d, p, t)
    BY <1>4, IssueBegins
  <2>2. /\ running /\ pc[d] = "idle" /\ future[d] = "none" /\ policy[d] = "none"
        /\ \A c \in Call : c # d => pc'[c] = pc[c] /\ policy'[c] = policy[c]
        /\ pc'[d] # "idle" /\ policy'[d] = p
        /\ timed' = IF t THEN timed \cup {d} ELSE timed
        /\ UNCHANGED <<asst, future, served>>
    BY <1>0, <2>1 DEF Begin, CallProgress, AnswersEarned, TypeOK, assistantVars
  <2>3. ~Closed /\ Closed' = Closed
    BY <1>0, <2>2 DEF Closed, LifeCycle
  <2>4. \A c \in Call : Status(c)' = IF c = d THEN "open" ELSE Status(c)
    BY <2>2 DEF Status, Done
  <2>5. Repeatable' \in {Repeatable, Repeatable \cup {d}}
    <3>1. Repeatable' = IF p = "alo" THEN Repeatable \cup {d} ELSE Repeatable
      BY <2>2 DEF Repeatable
    <3> QED
      BY <3>1
  <2>6. StatusNow' = [StatusNow EXCEPT ![d] = "open"] /\ StatusNow[d] = "idle"
    BY <2>2, <2>4 DEF StatusNow, Status
  <2> QED
    BY <2>2, <2>3, <2>5, <2>6 DEF Rpc!Issue, StatusNow, Status, Repeatable, Closed
<1>5. ASSUME NEW d \in Call, Serve(d) PROVE Rpc!Execute(d)
  <2>1. /\ d \in requests
        /\ served' = [served EXCEPT ![d] = IF served[d] < 2 THEN served[d] + 1
                                           ELSE 2]
        /\ UNCHANGED <<asst, callVars, future>>
    BY <1>5 DEF Serve, assistantVars
  <2>2. pc[d] # "idle" /\ (served[d] = 0 \/ policy[d] = "alo")
    BY <2>1 DEF AnswersEarned
  <2>3. StatusNow' = StatusNow /\ Repeatable' = Repeatable /\ Closed' = Closed
    BY <2>1 DEF StatusNow, Status, Repeatable, Closed, callVars
  <2>4. StatusNow[d] # "idle" /\ (d \in Repeatable \/ served[d] = 0)
    BY <1>0, <2>2 DEF StatusNow, Status, Repeatable, Done
  <2> QED
    BY <2>1, <2>3, <2>4 DEF Rpc!Execute, StatusNow, Status, Repeatable, Closed,
       callVars
<1>6. CASE Resolve
  <2>1. /\ resolving \in Call /\ served[resolving] > 0
        /\ pc[resolving] = "returned" /\ future[resolving] = "pending"
        /\ future' = [future EXCEPT ![resolving] = "ok"]
        /\ UNCHANGED <<asst, callVars, served>>
    BY <1>0, <1>6 DEF Resolve, AnswersEarned, CallProgress, TypeOK,
       assistantVars, networkVars
  <2>2. \A c \in Call : Status(c)' = IF c = resolving THEN "ok" ELSE Status(c)
    BY <1>0, <2>1 DEF Status, Done, TypeOK, callVars
  <2>3. /\ StatusNow' = [StatusNow EXCEPT ![resolving] = "ok"]
        /\ StatusNow[resolving] = "open"
    BY <1>0, <2>1, <2>2, StatusFacts DEF StatusNow
  <2> QED
    BY <2>1, <2>3 DEF Rpc!Next, Rpc!Succeed, StatusNow, Status, Closed, callVars
<1>7. CASE UpdateOnce \/ UpdateAtLeastOnce \/ BlockInContinuation
  <2>1. PICK S \in SUBSET ((once \cup atLeastOnce) \cap timed) :
          future' = [c \in Call |-> IF c \in S THEN "timeout" ELSE future[c]]
    BY <1>7 DEF UpdateOnce, UpdateAtLeastOnce, BlockInContinuation, Expired,
       TimeOut
  <2>2. /\ UNCHANGED <<callVars, served>> /\ mtx = "free"
        /\ ~Closed /\ ~Closed'
    BY <1>7 DEF UpdateOnce, UpdateAtLeastOnce, BlockInContinuation, Closed,
       networkVars
  <2> QED
    BY <2>1, <2>2, FulfilledComplete, CompletionIsStep DEF Done, Rpc!Next
<1>8. CASE Destroy
  <2>1. /\ future' = [c \in Call |-> IF c \in once \cup atLeastOnce THEN "broken"
                                     ELSE future[c]]
        /\ UNCHANGED <<callVars, served>> /\ mtx = "free"
        /\ ~Closed /\ Closed'
    BY <1>0, <1>8 DEF Destroy, Closed, LifeCycle, TypeOK, networkVars
  <2> DEFINE S == once \cup atLeastOnce
  <2>2. /\ S \in SUBSET {c \in Call : Status(c) = "open"}
        /\ StatusNow' = [c \in Call |-> IF c \in S THEN "broken" ELSE Status(c)]
        /\ Repeatable' = Repeatable /\ timed' = timed
    <3>1. S \in SUBSET (once \cup atLeastOnce) /\ "broken" \in Done
      BY DEF Done
    <3>2. future' = [c \in Call |-> IF c \in S THEN "broken" ELSE future[c]]
      BY <2>1
    <3> HIDE DEF S
    <3> QED
      BY <2>1, <3>1, <3>2, FulfilledComplete
  <2> HIDE DEF S
  <2>3. Rpc!Close
    BY <2>1, <2>2, CompletionIsStep
  <2> QED
    BY <2>3 DEF Rpc!Next
<1> QED
  BY <1>2, <1>1, <1>3, <1>4, <1>5, <1>6, <1>7, <1>8
     DEF Next, Assistant, Caller, Terminated, Rpc!Next

(* NetworkProcessor keeps the promise of RpcCall, with any number of calls *)
(* and threads of any lateness (network.cpp:45-63, 98-145, 158-206).       *)
THEOREM ImplementsRpcCorrect == Spec => ImplementsRpc
<1>1. Init => Rpc!Init
  <2> SUFFICES ASSUME Init PROVE Rpc!Init
    OBVIOUS
  <2>1. \A c \in Call : Status(c) = "idle" /\ policy[c] # "alo"
    BY DEF Init, Status, Done
  <2>2. StatusNow = [c \in Call |-> "idle"] /\ Repeatable = {}
    BY <2>1 DEF StatusNow, Repeatable
  <2> QED
    BY <2>2 DEF Init, Rpc!Init, StatusNow, Status, Repeatable
<1>2. OwnershipInv /\ AnswersEarned /\ [Next]_vars => [Rpc!Next]_(Rpc!vars)
  BY StepImplementsRpc
<1> QED
  BY <1>1, <1>2, Ownership, AnswersEarnedCorrect, PTL
     DEF Spec, ImplementsRpc, Rpc!Spec

-----------------------------------------------------------------------------
(* The ids of requests, and the answers of the unique-id task.             *)

(* An id that fits loses nothing in the word. *)
LEMMA NoWrap ==
  ASSUME NEW word \in Nat \ {0}, NEW n \in Nat, NEW jitter \in Nat,
         Fits(n, jitter, word)
  PROVE  GenerateNextId(n, jitter, word) = Id(n, jitter)
<1>1. ASSUME NEW x \in 0 .. word - 1 PROVE x % word = x
  OBVIOUS
<1>2. Id(n, jitter) \in 0 .. word - 1
  BY DEF Id, Fits
<1> QED
  BY <1>1, <1>2 DEF GenerateNextId

(* No id is given twice, by one node or by two, as long as the numbers of  *)
(* the nodes are below 1000 (network.cpp:10-11, 21; unique_id.hpp:16, 23). *)
THEOREM IdsUnique ==
  ASSUME NEW word \in Nat \ {0},
         NEW m \in Nat, NEW n \in Nat,
         NEW i \in 0..999, NEW j \in 0..999,
         Fits(m, i, word), Fits(n, j, word),
         GenerateNextId(m, i, word) = GenerateNextId(n, j, word)
  PROVE  m = n /\ i = j
<1>1. i \in Nat /\ j \in Nat
  OBVIOUS
<1>2. Id(m, i) = Id(n, j)
  BY <1>1, NoWrap
<1> QED
  BY <1>2 DEF Id

(* The same of the answers of the unique-id task, whose counter is already *)
(* incremented when it is multiplied (unique_id.hpp:23).                   *)
THEOREM AnswersUnique ==
  ASSUME NEW word \in Nat \ {0},
         NEW m \in Nat, NEW n \in Nat,
         NEW i \in 0..999, NEW j \in 0..999,
         Fits(m + 1, i, word), Fits(n + 1, j, word),
         Generate(m, i, word) = Generate(n, j, word)
  PROVE  m = n /\ i = j
<1>1. i \in Nat /\ j \in Nat
  OBVIOUS
<1>2. PICK p \in Nat : p = m + 1
  OBVIOUS
<1>3. PICK q \in Nat : q = n + 1
  OBVIOUS
<1>4. /\ Fits(p, i, word) /\ Fits(q, j, word)
      /\ GenerateNextId(p, i, word) = GenerateNextId(q, j, word)
  BY <1>2, <1>3 DEF Generate
<1>5. Id(p, i) = Id(q, j)
  BY <1>1, <1>4, NoWrap
<1>6. p = q /\ i = j
  BY <1>5 DEF Id
<1> QED
  BY <1>2, <1>3, <1>6

(* From 1000 on the numbers of two nodes do collide, so IdsUnique needs    *)
(* its bound.                                                              *)
THEOREM BigNumbersCollide ==
  ASSUME NEW word \in Nat \ {0}, NEW n \in Nat, NEW jitter \in Nat
  PROVE  GenerateNextId(n + 1, jitter, word)
           = GenerateNextId(n, jitter + 1000, word)
<1>1. Id(n + 1, jitter) = Id(n, jitter + 1000)
  BY DEF Id
<1> QED
  BY <1>1 DEF GenerateNextId

-----------------------------------------------------------------------------
(* The way of a message.                                                   *)

(* A message arrives as it was sent (console_transport.cpp:20-26, 45).     *)
LEMMA ArrivesWhole ==
  ASSUME NEW m
  PROVE  Arrived(m) = [source |-> m.source, destination |-> m.destination,
                       body |-> m.body]
<1> DEFINE j1 == With(EmptyBody, "src", m.source)
           j2 == With(j1, "dest", m.destination)
           j3 == With(j2, "body", m.body)
<1>1. DOMAIN j1 = {"src"} /\ j1["src"] = m.source
  BY DEF With, EmptyBody
<1>2. /\ DOMAIN j2 = {"src", "dest"}
      /\ j2["src"] = m.source /\ j2["dest"] = m.destination
  <2> HIDE DEF j1
  <2> QED
    BY <1>1 DEF j2, With
<1>3. /\ DOMAIN j3 = {"src", "dest", "body"}
      /\ j3["src"] = m.source /\ j3["dest"] = m.destination
      /\ j3["body"] = m.body
  <2> HIDE DEF j2
  <2> QED
    BY <1>2 DEF j3, With
<1>4. ToJson(m) = j3
  BY DEF ToJson
<1> HIDE DEF j3
<1> QED
  BY <1>3, <1>4 DEF Arrived, Parse

(* A request arrives as a request, from the same node, with its type and   *)
(* its id, whatever fields its body has (messages.cpp:14-27, 71-78).       *)
THEOREM RequestArrives ==
  ASSUME NEW r, NEW m, m = Arrived(RequestToMessage(r))
  PROVE  /\ TakenAsRequest(m)
         /\ MessageToRequest(m).source = r.source
         /\ MessageToRequest(m).destination = r.destination
         /\ MessageToRequest(m).type = r.type
         /\ MessageToRequest(m).message_id = r.message_id
         /\ \A f \in DOMAIN r.body \ {"type", "msg_id"} :
              MessageToRequest(m).body[f] = r.body[f]
<1> DEFINE b1 == With(r.body, "type", r.type)
           b == With(b1, "msg_id", r.message_id)
<1>1. /\ DOMAIN b = DOMAIN r.body \cup {"type", "msg_id"}
      /\ b["type"] = r.type /\ b["msg_id"] = r.message_id
      /\ \A f \in DOMAIN r.body \ {"type", "msg_id"} : b[f] = r.body[f]
  <2>1. /\ DOMAIN b1 = DOMAIN r.body \cup {"type"}
        /\ b1["type"] = r.type
        /\ \A f \in DOMAIN r.body \ {"type"} : b1[f] = r.body[f]
    BY DEF With
  <2> HIDE DEF b1
  <2> QED
    BY <2>1 DEF b, With
<1>2. m = [source |-> r.source, destination |-> r.destination, body |-> b]
  BY ArrivesWhole DEF RequestToMessage
<1> HIDE DEF b
<1> QED
  BY <1>1, <1>2 DEF MessageToRequest, IsRequest, TakenAsRequest

(* A response arrives as one, with its type and the id it answers, unless  *)
(* its body has a msg_id of its own: Node::Run takes it for a request then *)
(* and no caller ever sees it (messages.cpp:33-46, 101-108,                *)
(* node.hpp:132-138).                                                      *)
THEOREM ResponseArrives ==
  ASSUME NEW r, NEW m, m = Arrived(ResponseToMessage(r))
  PROVE  /\ TakenAsResponse(m) <=> "msg_id" \notin DOMAIN r.body
         /\ MessageToResponse(m).source = r.source
         /\ MessageToResponse(m).destination = r.destination
         /\ MessageToResponse(m).type = r.type
         /\ MessageToResponse(m).in_reply_to = r.in_reply_to
         /\ DOMAIN MessageToResponse(m).body
              = DOMAIN r.body \cup {"type", "in_reply_to"}
         /\ \A f \in DOMAIN r.body \ {"type", "in_reply_to"} :
              MessageToResponse(m).body[f] = r.body[f]
<1> DEFINE b1 == With(r.body, "type", r.type)
           b == With(b1, "in_reply_to", r.in_reply_to)
<1>1. /\ DOMAIN b = DOMAIN r.body \cup {"type", "in_reply_to"}
      /\ b["type"] = r.type /\ b["in_reply_to"] = r.in_reply_to
      /\ \A f \in DOMAIN r.body \ {"type", "in_reply_to"} : b[f] = r.body[f]
  <2>1. /\ DOMAIN b1 = DOMAIN r.body \cup {"type"}
        /\ b1["type"] = r.type
        /\ \A f \in DOMAIN r.body \ {"type"} : b1[f] = r.body[f]
    BY DEF With
  <2> HIDE DEF b1
  <2> QED
    BY <2>1 DEF b, With
<1>2. m = [source |-> r.source, destination |-> r.destination, body |-> b]
  BY ArrivesWhole DEF ResponseToMessage
<1> HIDE DEF b
<1> QED
  BY <1>1, <1>2
  DEF MessageToResponse, IsRequest, IsResponse, TakenAsResponse

(* The answer of a handler comes back to the node that asked, as the       *)
(* response to the id it asked with, and never as an error, whatever body  *)
(* without a msg_id the handler gives it (messages.cpp:80-86).             *)
THEOREM AnswerReachesCaller ==
  ASSUME NEW r, r.type \in Seq(STRING),
         NEW body, "msg_id" \notin DOMAIN body,
         NEW m, m = Arrived(ResponseToMessage(RequestToResponse(r, body)))
  PROVE  /\ TakenAsResponse(m)
         /\ MessageToResponse(m).source = r.destination
         /\ MessageToResponse(m).destination = r.source
         /\ MessageToResponse(m).in_reply_to = r.message_id
         /\ ~IsError(MessageToResponse(m))
<1> DEFINE a == RequestToResponse(r, body)
<1>1. /\ a.source = r.destination /\ a.destination = r.source
      /\ a.type = r.type \o <<"_ok">>
      /\ a.body = body /\ a.in_reply_to = r.message_id
  BY DEF RequestToResponse
<1> HIDE DEF a
<1>2. m = Arrived(ResponseToMessage(a))
  BY DEF a
<1>3. /\ TakenAsResponse(m)
      /\ MessageToResponse(m).source = r.destination
      /\ MessageToResponse(m).destination = r.source
      /\ MessageToResponse(m).in_reply_to = r.message_id
      /\ MessageToResponse(m).type = r.type \o <<"_ok">>
  BY <1>1, <1>2, ResponseArrives
<1>4. r.type \o <<"_ok">> # kErrorType
  <2>1. "_ok" # "error"
    OBVIOUS
  <2>2. (r.type \o <<"_ok">>)[Len(r.type) + 1] = "_ok"
    OBVIOUS
  <2>3. Len(r.type \o <<"_ok">>) = Len(r.type) + 1
    OBVIOUS
  <2>4. CASE Len(r.type) = 0
    <3>1. (r.type \o <<"_ok">>)[1] = "_ok"
      BY <2>2, <2>4
    <3>2. kErrorType[1] = "error"
      BY DEF kErrorType
    <3> QED
      BY <2>1, <3>1, <3>2
  <2>5. CASE Len(r.type) # 0
    BY <2>3, <2>5 DEF kErrorType
  <2> QED
    BY <2>4, <2>5
<1> QED
  BY <1>3, <1>4 DEF IsError

(* An error that a request is answered with arrives as the error it was,   *)
(* code and text included, as the response to that request                 *)
(* (messages.cpp:92-99, 110-136).                                          *)
THEOREM ErrorReachesCaller ==
  ASSUME NEW r, NEW code, NEW what, NEW m,
         m = Arrived(ResponseToMessage(
               ErrorToResponse(RequestToError(r, code, what))))
  PROVE  /\ TakenAsResponse(m)
         /\ IsError(MessageToResponse(m))
         /\ ResponseToError(MessageToResponse(m)).destination = r.source
         /\ ResponseToError(MessageToResponse(m)).code = code
         /\ ResponseToError(MessageToResponse(m)).what = what
         /\ ResponseToError(MessageToResponse(m)).in_reply_to = r.message_id
<1> DEFINE b1 == With(EmptyBody, "code", code)
           b == With(b1, "text", what)
           a == ErrorToResponse(RequestToError(r, code, what))
<1>1. /\ DOMAIN b = {"code", "text"}
      /\ b["code"] = code /\ b["text"] = what
  <2>1. DOMAIN b1 = {"code"} /\ b1["code"] = code
    BY DEF With, EmptyBody
  <2> HIDE DEF b1
  <2> QED
    BY <2>1 DEF b, With
<1>2. /\ a.destination = r.source /\ a.type = kErrorType
      /\ a.body = b /\ a.in_reply_to = r.message_id
  BY DEF ErrorToResponse, RequestToError
<1> HIDE DEF a, b
<1>3. m = Arrived(ResponseToMessage(a))
  BY DEF a
<1>4. /\ TakenAsResponse(m)
      /\ MessageToResponse(m).destination = r.source
      /\ MessageToResponse(m).type = kErrorType
      /\ MessageToResponse(m).in_reply_to = r.message_id
      /\ DOMAIN MessageToResponse(m).body
           = {"code", "text", "type", "in_reply_to"}
      /\ MessageToResponse(m).body["code"] = code
      /\ MessageToResponse(m).body["text"] = what
  BY <1>1, <1>2, <1>3, ResponseArrives
<1> QED
  BY <1>4 DEF IsError, ResponseToError
=============================================================================
