-------------------------- MODULE NetworkProcessor --------------------------
(***************************************************************************)
(* The RPC client of a node: maelstrom::detail::NetworkProcessor.          *)
(*                                                                         *)
(* Any thread may issue a call.  A call hands its request to the transport *)
(* and then registers a waiter (the promise of its future) in one of two   *)
(* maps, both guarded by mtx_: once_ or at_least_once_.  Two threads empty *)
(* the maps: the thread of Node::Run, which takes the waiter a response    *)
(* answers and fulfils its promise, and the assistant, which once per      *)
(* kRepeatThreshold expires the waiters past their deadline and resends    *)
(* the at-least-once requests that got no answer.                          *)
(*                                                                         *)
(* Instants are kept relative to the current time: 0 is now, a negative    *)
(* number the past, and Tick makes every instant one unit older.  Instants *)
(* older than Horizon are not told apart, so the clock needs no bound.     *)
(***************************************************************************)
EXTENDS Integers, FiniteSets

CONSTANTS
  Call,      \* the message ids of the calls this node issues
  NoCall,    \* "no call": what the Run thread is resolving when it is not
  Timeout,   \* the timeout of the calls that have one, in clock units
  Repeat,    \* kRepeatThreshold, in clock units
  Slack,     \* how late a thread may run: oversleep, or delay before a lock
  Horizon,   \* instants older than this are not told apart
  Reentrant, \* calls whose caller issues another call when they complete
  Lossy      \* whether the network may lose messages

ASSUME NetworkAssumption ==
  /\ NoCall \notin Call
  /\ Timeout \in Nat /\ Repeat \in Nat \ {0} /\ Slack \in Nat
  /\ Horizon \in Nat /\ Horizon > 2 * Repeat + 4 * Slack
  /\ Reentrant \subseteq Call /\ Lossy \in BOOLEAN

VARIABLES
  running,      \* is_running_
  mtx,          \* who holds mtx_ between steps: "free" or "assistant"
  asst,         \* where the assistant thread is
  asstNow,      \* the `now` the assistant read before taking mtx_
  wakeAt,       \* when the assistant's sleep_for ends
  pc,           \* where the thread that issues a call is
  policy,       \* the WaitPolicy of a call
  timed,        \* the calls issued with a timeout
  updatedAt,    \* Waiter::updated_at (and the instant any call was stamped)
  deadline,     \* Waiter::deadline of the timed calls
  once,         \* the ids registered in once_
  atLeastOnce,  \* the ids registered in at_least_once_
  future,       \* the future the caller holds
  resolving,    \* the call whose promise the Run thread holds, off the maps
  requests,     \* the ids of the requests on their way to a peer
  responses,    \* the ids a response on its way back answers
  resent,       \* the ids sent more than once: copies may arrive repeatedly
  served        \* how often the peer handled a request (2 means "often")

assistantVars == <<asst, asstNow, wakeAt>>
callVars      == <<pc, policy, timed>>
timeVars      == <<updatedAt, deadline>>
waiterVars    == <<once, atLeastOnce>>
networkVars   == <<requests, responses, resent, served>>
vars == <<running, mtx, assistantVars, callVars, timeVars, waiterVars,
          future, resolving, networkVars>>

Instant == -Horizon .. 0

TypeOK ==
  /\ running \in BOOLEAN
  /\ mtx \in {"free", "assistant"}
  /\ asst \in {"off", "sleep", "once", "alo", "blocked",
               "exited", "joined", "destroyed"}
  /\ asstNow \in Instant
  /\ wakeAt \in -Horizon .. Repeat
  /\ pc \in [Call -> {"idle", "sent", "stamped", "returned"}]
  /\ policy \in [Call -> {"none", "detached", "once", "alo"}]
  /\ timed \in SUBSET Call
  /\ updatedAt \in [Call -> Instant]
  /\ deadline \in [Call -> -Horizon .. Timeout]
  /\ once \in SUBSET Call
  /\ atLeastOnce \in SUBSET Call
  /\ future \in [Call -> {"none", "pending", "ok", "timeout", "broken"}]
  /\ resolving \in Call \cup {NoCall}
  /\ requests \in SUBSET Call
  /\ responses \in SUBSET Call
  /\ resent \in SUBSET Call
  /\ served \in [Call -> 0 .. 2]

Init ==
  /\ running = FALSE
  /\ mtx = "free"
  /\ asst = "off"
  /\ asstNow = 0
  /\ wakeAt = 0
  /\ pc = [c \in Call |-> "idle"]
  /\ policy = [c \in Call |-> "none"]
  /\ timed = {}
  /\ updatedAt = [c \in Call |-> 0]
  /\ deadline = [c \in Call |-> 0]
  /\ once = {}
  /\ atLeastOnce = {}
  /\ future = [c \in Call |-> "none"]
  /\ resolving = NoCall
  /\ requests = {}
  /\ responses = {}
  /\ resent = {}
  /\ served = [c \in Call |-> 0]

-----------------------------------------------------------------------------
(* Issuing a call, through a Session: its templates, which take the type   *)
(* from a handler, forward to its functions, these to the processor, and   *)
(* these to one of the three ...Internal functions.                        *)

Operation == {"SendDetached", "Send", "SendAtLeastOnce", "Call", "CallAtLeastOnce"}

(* The ...Internal function an operation ends in.  A Send is a Call that   *)
(* throws its response away.                                               *)
PolicyOf(op) ==
  IF op = "SendDetached" THEN "detached"
  ELSE IF op \in {"SendAtLeastOnce", "CallAtLeastOnce"} THEN "alo"
  ELSE "once"

(* Whether the timeout of a caller gets there: SendDetached has none, and  *)
(* the template of SendAtLeastOnce does not pass it on.                    *)
HasTimeout(op, template, given) ==
  given /\ op # "SendDetached" /\ ~(op = "SendAtLeastOnce" /\ template)

(* transport_->Send.  Nothing of a detached call is ever registered.  The  *)
(* threads that issue calls run between NetworkProcessor::Start and Stop.  *)
Begin(c, p, withTimeout) ==
  /\ running
  /\ pc[c] = "idle"
  /\ pc' = [pc EXCEPT ![c] = IF p = "detached" THEN "returned" ELSE "sent"]
  /\ policy' = [policy EXCEPT ![c] = p]
  /\ timed' = IF withTimeout THEN timed \cup {c} ELSE timed
  /\ requests' = requests \cup {c}
  /\ UNCHANGED <<running, mtx, assistantVars, timeVars, waiterVars, future,
                 resolving, responses, resent, served>>

Issue(c) ==
  \E op \in Operation, template, given \in BOOLEAN :
    Begin(c, PolicyOf(op), HasTimeout(op, template, given))

(* Faulty variants, like DeadlineAfterPass here, are wrong on purpose:     *)
(* README.md says which property notices each of them.                     *)
DeadlineAfterPass(c) == Timeout + Repeat

DeadlineOf(c) == IF c \in timed THEN Timeout ELSE 0

(* MakeContract and Clock::now(), before the lock is taken *)
Stamp(c) ==
  /\ pc[c] = "sent"
  /\ pc' = [pc EXCEPT ![c] = "stamped"]
  /\ future' = [future EXCEPT ![c] = "pending"]
  /\ deadline' = [deadline EXCEPT ![c] = DeadlineOf(c)]
  /\ UNCHANGED <<running, mtx, assistantVars, policy, timed, updatedAt,
                 waiterVars, resolving, networkVars>>

(* The waiter enters its map under mtx_ and the caller gets its future *)
Register(c) ==
  /\ pc[c] = "stamped"
  /\ mtx = "free"
  /\ pc' = [pc EXCEPT ![c] = "returned"]
  /\ once' = IF policy[c] = "once" THEN once \cup {c} ELSE once
  /\ atLeastOnce' = IF policy[c] = "alo" THEN atLeastOnce \cup {c}
                                         ELSE atLeastOnce
  /\ UNCHANGED <<running, mtx, assistantVars, policy, timed, timeVars, future,
                 resolving, networkVars>>

-----------------------------------------------------------------------------
(* The network and the peer, outside src/ of this component: a request may *)
(* be lost, served late, and, when it was sent again, served repeatedly.   *)

Delivered(channel, c) ==
  IF c \in resent THEN {channel, channel \ {c}} ELSE {channel \ {c}}

Serve(c) ==
  /\ c \in requests
  /\ requests' \in Delivered(requests, c)
  /\ responses' = responses \cup {c}
  /\ served' = [served EXCEPT ![c] = IF @ < 2 THEN @ + 1 ELSE 2]
  /\ UNCHANGED <<running, mtx, assistantVars, callVars, timeVars, waiterVars,
                 future, resolving, resent>>

Lose(c) ==
  /\ Lossy
  /\ \/ c \in requests  /\ requests' = requests \ {c} /\ UNCHANGED responses
     \/ c \in responses /\ responses' = responses \ {c} /\ UNCHANGED requests
  /\ UNCHANGED <<running, mtx, assistantVars, callVars, timeVars, waiterVars,
                 future, resolving, resent, served>>

-----------------------------------------------------------------------------
(* The thread of Node::Run: Process and ProcessInternal.  The waiter is    *)
(* taken off its map under mtx_; its promise is fulfilled after the unlock.*)

(* An erased waiter takes its instants with it *)
Erase(S) ==
  /\ updatedAt' = [c \in Call |-> IF c \in S THEN 0 ELSE updatedAt[c]]
  /\ deadline' = [c \in Call |-> IF c \in S THEN 0 ELSE deadline[c]]

Receive(c) ==
  /\ running
  /\ resolving = NoCall
  /\ mtx = "free"
  /\ c \in responses
  /\ responses' \in Delivered(responses, c)
  /\ once' = once \ {c}
  /\ atLeastOnce' = atLeastOnce \ {c}
  /\ Erase({c} \cap (once \cup atLeastOnce))
  /\ resolving' = IF c \in once \cup atLeastOnce THEN c ELSE NoCall
  /\ UNCHANGED <<running, mtx, assistantVars, callVars, future, requests,
                 resent, served>>

Resolve ==
  /\ resolving # NoCall
  /\ future' = [future EXCEPT ![resolving] = "ok"]
  /\ resolving' = NoCall
  /\ UNCHANGED <<running, mtx, assistantVars, callVars, timeVars, waiterVars,
                 networkVars>>

-----------------------------------------------------------------------------
(* The assistant: BackgroundUpdate, UpdateOnce, UpdateAtLeastOnce.         *)

NeverLeaves == TRUE

LoopCondition == running

(* The loop test, then UpdateOnce's `now`, read before mtx_ is taken *)
Wake ==
  /\ asst = "sleep"
  /\ wakeAt <= 0
  /\ asst' = IF LoopCondition THEN "once" ELSE "exited"
  /\ asstNow' = 0
  /\ UNCHANGED <<running, mtx, wakeAt, callVars, timeVars, waiterVars, future,
                 resolving, networkVars>>

ExpiredUntimed(waiters) == {c \in waiters : deadline[c] <= asstNow}
ExpiredEarly(waiters)   == {c \in waiters \cap timed : deadline[c] <= asstNow}
ExpiredOnlyAtLeastOnce(waiters) ==
  {c \in waiters \cap timed : policy[c] = "alo" /\ deadline[c] < asstNow}

(* The waiters whose promise EraseExpiredDeadlines fulfils ... *)
Expired(waiters) == {c \in waiters \cap timed : deadline[c] < asstNow}

ErasableEarly(waiters) == {c \in waiters \cap timed : deadline[c] <= asstNow}
ErasableNever(waiters) == {}

(* ... and those it then erases: the same condition, written twice *)
Erasable(waiters) == {c \in waiters \cap timed : deadline[c] < asstNow}

TimeOut(S) == [c \in Call |-> IF c \in S THEN "timeout" ELSE future[c]]

(* UpdateOnce under mtx_, then UpdateAtLeastOnce's `now` *)
UpdateOnce ==
  /\ asst = "once"
  /\ mtx = "free"
  /\ Expired(once) \cap Reentrant = {}
  /\ future' = TimeOut(Expired(once))
  /\ once' = once \ Erasable(once)
  /\ Erase(Erasable(once))
  /\ asst' = "alo"
  /\ asstNow' = 0
  /\ UNCHANGED <<running, mtx, wakeAt, callVars, atLeastOnce, resolving,
                 networkVars>>

StaleTwice(waiters) == {c \in waiters : updatedAt[c] + 2 * Repeat < asstNow}

(* The waiters whose request is sent again *)
Stale(waiters) == {c \in waiters : updatedAt[c] + Repeat < asstNow}

UpdateAtLeastOnce ==
  /\ asst = "alo"
  /\ mtx = "free"
  /\ Expired(atLeastOnce) \cap Reentrant = {}
  /\ LET kept  == atLeastOnce \ Erasable(atLeastOnce)
         again == Stale(kept)
     IN /\ atLeastOnce' = kept
        /\ requests' = requests \cup again
        /\ resent' = resent \cup again
        /\ updatedAt' = [c \in Call |-> IF c \in again THEN asstNow
                                       ELSE IF c \in atLeastOnce \ kept THEN 0
                                       ELSE updatedAt[c]]
        /\ deadline' = [c \in Call |-> IF c \in atLeastOnce \ kept
                                       THEN 0 ELSE deadline[c]]
  /\ future' = TimeOut(Expired(atLeastOnce))
  /\ asst' = "sleep"
  /\ wakeAt' = Repeat
  /\ asstNow' = 0
  /\ UNCHANGED <<running, mtx, callVars, once, resolving, responses, served>>

(* EraseExpiredDeadlines fulfils promises while it holds mtx_, and the     *)
(* code awaiting such a future runs inside Set.  When that code issues a   *)
(* call, the assistant takes mtx_ a second time and never gets it; the     *)
(* promises fulfilled before that stay in the map.                         *)
BlockInContinuation ==
  /\ mtx = "free"
  /\ \E due \in {IF asst = "once" THEN Expired(once) ELSE Expired(atLeastOnce)} :
       /\ asst \in {"once", "alo"}
       /\ \E c \in due \cap Reentrant, before \in SUBSET (due \ Reentrant) :
            future' = TimeOut(before \cup {c})
  /\ mtx' = "assistant"
  /\ asst' = "blocked"
  /\ UNCHANGED <<running, asstNow, wakeAt, callVars, timeVars, waiterVars,
                 resolving, networkVars>>

-----------------------------------------------------------------------------
(* Life cycle.                                                             *)

(* NetworkProcessor::Start; the new thread is about to test is_running_ *)
Start ==
  /\ asst = "off"
  /\ running' = TRUE
  /\ asst' = "sleep"
  /\ wakeAt' = 0
  /\ UNCHANGED <<mtx, asstNow, callVars, timeVars, waiterVars, future,
                 resolving, networkVars>>

(* Stop, called by Node::Stop on the Run thread after the pool was drained *)
Stop ==
  /\ running
  /\ resolving = NoCall
  /\ \A c \in Call : pc[c] \in {"idle", "returned"}
  /\ running' = FALSE
  /\ UNCHANGED <<mtx, assistantVars, callVars, timeVars, waiterVars, future,
                 resolving, networkVars>>

(* assistant_.join() returns *)
Join ==
  /\ ~running
  /\ asst = "exited"
  /\ asst' = "joined"
  /\ UNCHANGED <<running, mtx, asstNow, wakeAt, callVars, timeVars,
                 waiterVars, future, resolving, networkVars>>

(* The maps are destroyed with the processor, which breaks the promises    *)
(* still in them.                                                          *)
Destroy ==
  /\ asst = "joined"
  /\ asst' = "destroyed"
  /\ future' = [c \in Call |-> IF c \in once \cup atLeastOnce THEN "broken"
                                                              ELSE future[c]]
  /\ once' = {}
  /\ atLeastOnce' = {}
  /\ Erase(once \cup atLeastOnce)
  /\ UNCHANGED <<running, mtx, asstNow, wakeAt, callVars, resolving,
                 networkVars>>

-----------------------------------------------------------------------------
(* Time.  Threads are at most Slack late: time does not pass while one     *)
(* that could run has waited that long.                                    *)

Older(t) == IF t > -Horizon THEN t - 1 ELSE t

(* The calls whose instants still matter *)
Dated == {c \in Call : pc[c] = "stamped"} \cup once \cup atLeastOnce

Punctual ==
  /\ asst = "sleep" => wakeAt > -Slack
  /\ asst \in {"once", "alo"} => asstNow > -Slack
  /\ mtx = "free" => \A c \in Call : pc[c] = "stamped" => updatedAt[c] > -Slack

Tick ==
  /\ asst \notin {"off", "joined", "destroyed"}
  /\ Punctual
  /\ wakeAt' = IF asst = "sleep" THEN Older(wakeAt) ELSE wakeAt
  /\ asstNow' = IF asst \in {"once", "alo"} THEN Older(asstNow) ELSE asstNow
  /\ updatedAt' = [c \in Call |-> IF c \in Dated THEN Older(updatedAt[c])
                                                 ELSE updatedAt[c]]
  /\ deadline' = [c \in Call |-> IF c \in Dated \cap timed
                                 THEN Older(deadline[c]) ELSE deadline[c]]
  /\ UNCHANGED <<running, mtx, asst, callVars, waiterVars, future, resolving,
                 networkVars>>

-----------------------------------------------------------------------------
Terminated == asst = "destroyed" /\ UNCHANGED vars

Caller(c) == Stamp(c) \/ Register(c)

Assistant == Wake \/ UpdateOnce \/ UpdateAtLeastOnce \/ BlockInContinuation

Next ==
  \/ Start \/ Stop \/ Join \/ Destroy
  \/ Assistant
  \/ Resolve
  \/ \E c \in Call :
       \/ Issue(c)
       \/ Caller(c)
       \/ Serve(c)
       \/ Lose(c)
       \/ Receive(c)
  \/ Tick
  \/ Terminated

Spec == Init /\ [][Next]_vars

(* Every thread that can run does, time passes, and the network is fair    *)
(* but lossy: what is sent again and again gets through again and again.   *)
Fairness ==
  /\ WF_vars(Assistant)
  /\ WF_vars(Resolve)
  /\ WF_vars(Join \/ Destroy)
  /\ WF_vars(Tick)
  /\ \A c \in Call : WF_vars(Caller(c)) /\ SF_vars(Serve(c))
                                        /\ SF_vars(Receive(c))

FairSpec == Spec /\ Fairness

-----------------------------------------------------------------------------
(* The inductive invariants behind the properties below.                   *)

(* Where a call is, what it was issued for and whether it has a future *)
CallProgress ==
  \A c \in Call :
    /\ pc[c] \in {"idle", "sent"} => future[c] = "none" /\ updatedAt[c] = 0
    /\ pc[c] = "stamped" => future[c] = "pending"
    /\ pc[c] \in {"sent", "stamped"} => policy[c] \in {"once", "alo"} /\ running
    /\ c \in once \cup atLeastOnce \cup {resolving} => pc[c] = "returned"

(* A call that is not issued has left no trace, and a response is earned:  *)
(* only a request that is sent again is handled again.                     *)
AnswersEarned ==
  \A c \in Call :
    /\ pc[c] = "idle" => policy[c] = "none" /\ served[c] = 0
    /\ c \in timed \cup requests \cup responses => pc[c] # "idle"
    /\ c \in responses \cup {resolving} \/ future[c] = "ok" => served[c] > 0
    /\ c \in resent \cup atLeastOnce => policy[c] = "alo"
    /\ c \in requests => served[c] = 0 \/ policy[c] = "alo"
    /\ c = resolving => future[c] = "pending"

(* What the life cycle of the processor excludes *)
LifeCycle ==
  /\ mtx = "assistant" <=> asst = "blocked"
  /\ running => asst \in {"sleep", "once", "alo", "blocked"}
  /\ resolving # NoCall => running
  /\ asst = "off" => ~running /\ \A c \in Call : pc[c] = "idle"

(* The oldest a registered call can be, by where the assistant is: two     *)
(* instants grow old together, so their distance bounds both.              *)
OldestUpdate ==
  IF asst = "sleep" THEN wakeAt - 2 * Repeat - Slack
  ELSE IF asst = "once" THEN asstNow - 2 * Repeat - 2 * Slack
  ELSE asstNow - 2 * Repeat - 3 * Slack

OldestOnceDeadline ==
  IF asst = "sleep" THEN wakeAt - Repeat - 2 * Slack
  ELSE IF asst = "once" THEN asstNow - Repeat - 3 * Slack
  ELSE asstNow - Slack

OldestAtLeastOnceDeadline ==
  IF asst = "sleep" THEN wakeAt - Repeat - Slack
  ELSE IF asst = "once" THEN asstNow - Repeat - 2 * Slack
  ELSE asstNow - Repeat - 3 * Slack

Lateness ==
  running /\ mtx = "free" =>
    /\ asst = "sleep" => wakeAt >= -Slack
    /\ asst \in {"once", "alo"} => asstNow >= -Slack
    /\ \A c \in Call : pc[c] = "stamped" =>
         updatedAt[c] >= -Slack /\ (c \in timed => deadline[c] >= updatedAt[c])
    /\ \A c \in atLeastOnce : updatedAt[c] >= OldestUpdate
    /\ \A c \in once \cap timed : deadline[c] >= OldestOnceDeadline
    /\ \A c \in atLeastOnce \cap timed :
         deadline[c] >= OldestAtLeastOnceDeadline

-----------------------------------------------------------------------------
(* What makes the component correct.                                       *)

Done == {"ok", "timeout", "broken"}

(* No call is orphaned and no promise is fulfilled twice: whenever mtx_ is *)
(* free, the pending futures that callers hold are exactly those of the    *)
(* registered waiters and of the one the Run thread took off its map and   *)
(* has not fulfilled yet (network.cpp:45-63, 158-206).                     *)
WaitersBackFutures ==
  mtx = "free" =>
    /\ once \cap atLeastOnce = {}
    /\ resolving \notin once \cup atLeastOnce
    /\ {c \in Call : pc[c] = "returned" /\ future[c] = "pending"}
         = once \cup atLeastOnce \cup ({resolving} \ {NoCall})

(* A request that must be delivered at least once goes out again within    *)
(* two periods of the assistant, although `now` is read before the lock    *)
(* and a waiter just short of the threshold is skipped (network.cpp:168,   *)
(* 176): two sleeps and the lateness of the threads, never more.           *)
ResendLatency ==
  running /\ mtx = "free" =>
    \A c \in atLeastOnce : updatedAt[c] >= -(2 * Repeat + 4 * Slack)

(* A waiter does not outlive its deadline by more than one period of the   *)
(* assistant and the lateness of the threads (network.cpp:149-165).        *)
TimeoutLatency ==
  running /\ mtx = "free" =>
    \A c \in (once \cup atLeastOnce) \cap timed :
      deadline[c] >= -(Repeat + 4 * Slack)

(* A future fails with Timeout only after the deadline its caller gave,    *)
(* whatever the age of the `now` the assistant compares it with            *)
(* (network.cpp:191).                                                      *)
NeverEarly ==
  [][\A c \in Call : future[c] # "timeout" /\ future'[c] = "timeout"
        => c \in timed /\ deadline[c] < 0]_vars

(* Once a caller has its result, its request is not sent again             *)
(* (network.cpp:173-183: a pass expires before it resends).                *)
SilentOnceDone ==
  [][\A c \in Call : future'[c] \in Done /\ c \in requests'
        => c \in requests]_vars

(* README.md of maelstrom-cpp, line 77: "Sends a request, when the         *)
(* response arrives resolves future".  No response is thrown away while    *)
(* the future of its call is still to be resolved.  The code sends before  *)
(* it registers the waiter (network.cpp:103, 115), so a fast answer is.    *)
ResponseResolvesFuture ==
  [][\A c \in Call : Receive(c) /\ policy[c] # "detached"
        => resolving' = c \/ future[c] \in Done]_vars

(* A call with a timeout is resolved, whatever the network does and even   *)
(* when the node stops (tests/processors/network_test.cpp:295); so is an   *)
(* at-least-once call, as the assistant keeps resending it, even when its  *)
(* first response is thrown away before the waiter is registered           *)
(* (network.cpp:175-183).  The exception is an assistant that waits for    *)
(* its own mutex: see TimeoutResolves.                                     *)
CallsResolve ==
  \A c \in Call :
    future[c] = "pending" /\ (c \in timed \/ policy[c] = "alo")
      ~> future[c] \in Done \/ asst = "blocked"

(* The same for calls with a timeout, without the exception.  A caller     *)
(* that calls again when its call times out makes the assistant take mtx_  *)
(* twice, and no later timeout is ever noticed (network.cpp:192).          *)
TimeoutResolves ==
  \A c \in Call :
    future[c] = "pending" /\ c \in timed ~> future[c] \in Done

(* Stop terminates: the assistant sees is_running_ and join returns, but   *)
(* for an assistant that waits for its own mutex.                          *)
StopTerminates == asst # "off" /\ ~running ~> asst \in {"destroyed", "blocked"}

(* The promise to callers, as the abstract specification RpcCall states it *)
Rpc == INSTANCE RpcCall WITH
  status     <- [c \in Call |-> CASE pc[c] = "idle"        -> "idle"
                                 [] future[c] \in Done     -> future[c]
                                 [] OTHER                  -> "open"],
  repeatable <- {c \in Call : policy[c] = "alo"},
  expirable  <- timed,
  executions <- served,
  closed     <- asst = "destroyed"

(* NetworkProcessor implements RpcCall: a call completes once, with a      *)
(* response only if the peer handled it, with a timeout only if it has     *)
(* one, and a request sent once is handled at most once.                   *)
ImplementsRpc == Rpc!Spec
=============================================================================
