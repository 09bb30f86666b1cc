----------------------------- MODULE NodeProofs -----------------------------
(***************************************************************************)
(* Theorems about Node, for every set of requests and messages, both       *)
(* transports, and however many messages come in.                          *)
(***************************************************************************)
EXTENDS Node, TLAPS

-----------------------------------------------------------------------------
(* Sequences.                                                              *)

(* What is put behind a sequence.                                          *)
LEMMA AppendFacts ==
  ASSUME NEW T, NEW s \in Seq(T), NEW x \in T
  PROVE  /\ Append(s, x) \in Seq(T)
         /\ Len(Append(s, x)) = Len(s) + 1 /\ Len(s) \in Nat
         /\ DOMAIN s = 1 .. Len(s) /\ DOMAIN Append(s, x) = 1 .. Len(s) + 1
         /\ \A i \in DOMAIN s : Append(s, x)[i] = s[i]
         /\ Append(s, x)[Len(s) + 1] = x
         /\ ToSet(Append(s, x)) = ToSet(s) \cup {x}
         /\ IsInjective(s) /\ x \notin ToSet(s) => IsInjective(Append(s, x))
<1> DEFINE t == Append(s, x)
<1>1. /\ t \in Seq(T) /\ Len(t) = Len(s) + 1 /\ Len(s) \in Nat
      /\ DOMAIN s = 1 .. Len(s) /\ DOMAIN t = 1 .. Len(s) + 1
      /\ \A i \in 1 .. Len(s) : t[i] = s[i]
      /\ t[Len(s) + 1] = x
  OBVIOUS
<1> HIDE DEF t
<1>2. \A i \in DOMAIN t : i \in DOMAIN s \/ i = Len(s) + 1
  BY <1>1
<1>3. \A i \in DOMAIN s : i \in DOMAIN t /\ i # Len(s) + 1 /\ t[i] = s[i]
  BY <1>1
<1>4. ToSet(t) = ToSet(s) \cup {x}
  BY <1>1, <1>2, <1>3 DEF ToSet
<1>5. IsInjective(s) /\ x \notin ToSet(s) => IsInjective(t)
  BY <1>1, <1>2, <1>3 DEF ToSet, IsInjective
<1> QED
  BY <1>1, <1>4, <1>5 DEF t

(* What is left of a sequence when its first element is taken.             *)
LEMMA TailFacts ==
  ASSUME NEW T, NEW s \in Seq(T), s # <<>>
  PROVE  /\ Head(s) \in T /\ Tail(s) \in Seq(T)
         /\ Len(Tail(s)) = Len(s) - 1 /\ Len(s) \in Nat \ {0}
         /\ DOMAIN s = 1 .. Len(s) /\ DOMAIN Tail(s) = 1 .. Len(s) - 1
         /\ Head(s) = s[1] /\ Head(s) \in ToSet(s)
         /\ \A i \in DOMAIN Tail(s) : Tail(s)[i] = s[i + 1] /\ i + 1 \in DOMAIN s
         /\ ToSet(Tail(s)) \subseteq ToSet(s)
         /\ IsInjective(s) => IsInjective(Tail(s)) /\ Head(s) \notin ToSet(Tail(s))
<1> DEFINE t == Tail(s)
<1>1. /\ Head(s) \in T /\ t \in Seq(T)
      /\ Len(t) = Len(s) - 1 /\ Len(s) \in Nat \ {0}
      /\ DOMAIN s = 1 .. Len(s) /\ DOMAIN t = 1 .. Len(s) - 1
      /\ Head(s) = s[1] /\ 1 \in DOMAIN s
      /\ \A i \in 1 .. Len(s) - 1 : t[i] = s[i + 1]
  OBVIOUS
<1> HIDE DEF t
<1>2. \A i \in DOMAIN t : t[i] = s[i + 1] /\ i + 1 \in DOMAIN s /\ i + 1 # 1
  BY <1>1
<1>3. ToSet(t) \subseteq ToSet(s) /\ Head(s) \in ToSet(s)
  BY <1>1, <1>2 DEF ToSet
<1>4. IsInjective(s) => IsInjective(t) /\ Head(s) \notin ToSet(t)
  <2> SUFFICES ASSUME IsInjective(s)
               PROVE  IsInjective(t) /\ Head(s) \notin ToSet(t)
    OBVIOUS
  <2>1. \A i, j \in DOMAIN t : t[i] = t[j] => i = j
    <3> SUFFICES ASSUME NEW i \in DOMAIN t, NEW j \in DOMAIN t, t[i] = t[j]
                 PROVE  i = j
      OBVIOUS
    <3>1. i + 1 = j + 1
      BY <1>2 DEF IsInjective
    <3>2. i \in Int /\ j \in Int
      BY <1>1
    <3> QED
      BY <3>1, <3>2
  <2>2. \A i \in DOMAIN t : t[i] # s[1]
    BY <1>1, <1>2 DEF IsInjective
  <2> QED
    BY <1>1, <2>1, <2>2 DEF IsInjective, ToSet
<1> QED
  BY <1>1, <1>2, <1>3, <1>4 DEF t

-----------------------------------------------------------------------------
(* Types.                                                                  *)

LEMMA TypeCorrectInit == Init => TypeOK
<1> SUFFICES ASSUME Init PROVE TypeOK
  OBVIOUS
<1>1. /\ <<>> \in Seq(Message) /\ <<>> \in Seq(Request)
      /\ {} \subseteq Request /\ {} \subseteq Relay /\ {} \subseteq Message
  OBVIOUS
<1>2. /\ console \in BOOLEAN /\ transport \in BOOLEAN /\ closed \in BOOLEAN
      /\ endOfStream \in BOOLEAN /\ loaded \in BOOLEAN /\ assistant \in BOOLEAN
  BY DEF Init
<1> QED
  BY <1>1, <1>2 DEF Init, TypeOK

LEMMA TypeCorrectStep ==
  ASSUME TypeOK, InStep, [Next]_vars
  PROVE  TypeOK'
<1> USE NodeAssumption DEF TypeOK
<1>1. ASSUME NEW r \in Request, AddHandler(r) PROVE TypeOK'
  BY <1>1 DEF AddHandler, transportVars, poolVars, answerVars
<1>2. ASSUME NEW msg \in Message, Offer(msg) PROVE TypeOK'
  BY <1>2, AppendFacts DEF Offer, Notified, nodeVars, poolVars, answerVars
<1>3. CASE StopStreaming
  BY <1>3 DEF StopStreaming, Notified, nodeVars, poolVars, answerVars
<1>4. CASE \/ StartTransport \/ Await \/ Test \/ SoftStop \/ Drained \/ Halt
           \/ Terminated \/ UNCHANGED vars
  <2>1. CASE Halt
    BY <2>1 DEF Halt, nodeVars, poolVars, answerVars
  <2>2. CASE StartTransport \/ Await \/ Test \/ SoftStop \/ Drained
    BY <2>2 DEF StartTransport, Await, Test, SoftStop, Drained, transportVars,
       nodeVars, poolVars, answerVars
  <2>3. CASE UNCHANGED vars
    BY <2>3 DEF vars, transportVars, runVars, nodeVars, poolVars, answerVars
  <2> QED
    BY <1>4, <2>1, <2>2, <2>3 DEF Terminated
<1>5. CASE ReceiveNothing \/ Crash \/ Load \/ TakeStray
  <2>1. input' \in Seq(Message)
    <3>1. input # <<>> => Tail(input) \in Seq(Message)
      OBVIOUS
    <3>2. input' = input \/ (input # <<>> /\ input' = Tail(input))
      BY <1>5 DEF ReceiveNothing, Crash, Load, TakeStray
    <3> QED
      BY <3>1, <3>2
  <2>2. EndOfStream \in BOOLEAN
    BY DEF EndOfStream
  <2>3. CASE ReceiveNothing
    BY <2>1, <2>2, <2>3 DEF ReceiveNothing, nodeVars, poolVars, answerVars
  <2>4. CASE Crash \/ Load \/ TakeStray
    BY <2>1, <2>4 DEF Crash, Load, TakeStray, nodeVars, poolVars, answerVars
  <2> QED
    BY <1>5, <2>3, <2>4
<1>6. CASE TakeRequest
  <2>1. Head(input) \in Request /\ input' \in Seq(Message)
    BY <1>6, TailFacts DEF TakeRequest
  <2>2. jobs' \in Seq(Request) /\ taken' \in Seq(Request)
    BY <1>6, <2>1, AppendFacts DEF TakeRequest, Queued
  <2> QED
    BY <1>6, <2>1, <2>2 DEF TakeRequest, nodeVars, answerVars
<1>7. CASE TakeReply
  <2>1. input' \in Seq(Message)
    BY <1>7, TailFacts DEF TakeReply
  <2> QED
    BY <1>7, <2>1 DEF TakeReply, Unregistered, nodeVars, poolVars, answerVars
<1>8. ASSUME NEW r \in Request, Answer(r)
      PROVE  sent' \in Seq(Request) /\ unsent' \subseteq Request
  BY <1>8, AppendFacts DEF Answer
<1>9. CASE Resume
  <2>1. resuming \in Request /\ Answer(resuming)
    BY <1>9 DEF Resume, Request, InStep
  <2>2. sent' \in Seq(Request) /\ unsent' \subseteq Request
    BY <2>1, <1>8
  <2> QED
    BY <1>9, <2>2 DEF Resume, transportVars, nodeVars, poolVars
<1>10. CASE Enter
  <2>1. onPool' \in Request /\ jobs' \in Seq(Request)
    BY <1>10, TailFacts DEF Enter
  <2> QED
    BY <1>10, <2>1 DEF Enter, transportVars, runVars, nodeVars, answerVars
<1>11. CASE Finish
  <2>1. onPool \in Request /\ Answer(onPool)
    BY <1>11 DEF Finish, Request
  <2>2. sent' \in Seq(Request) /\ unsent' \subseteq Request
    BY <2>1, <1>8
  <2> QED
    BY <1>11, <2>2 DEF Finish, transportVars, runVars, nodeVars
<1>12. CASE Throw \/ Call \/ Suspend
  BY <1>12 DEF Throw, Call, Suspend, HandlerWaits, transportVars, runVars,
     nodeVars, answerVars
<1>13. ASSUME NEW r \in Relay, TimeOut(r) PROVE TypeOK'
  <2>1. r \in Request /\ Answer(r)
    BY <1>13 DEF TimeOut, Request
  <2>2. sent' \in Seq(Request) /\ unsent' \subseteq Request
    BY <2>1, <1>8
  <2> QED
    BY <1>13, <2>2 DEF TimeOut, Unregistered, transportVars, runVars, nodeVars,
       poolVars
<1> HIDE DEF TypeOK
<1> QED
  BY <1>1, <1>2, <1>3, <1>4, <1>5, <1>6, <1>7, <1>9, <1>10, <1>11, <1>12, <1>13
     DEF Next, Run, Pool

-----------------------------------------------------------------------------
(* What a step does to the requests on their way.                          *)

(* A message comes in that did not yet, or one is taken.                   *)
LEMMA InputSteps ==
  ASSUME TypeOK, [Next]_vars
  PROVE  \/ /\ \E msg \in Message \ offered :
                 offered' = offered \cup {msg} /\ input' = Append(input, msg)
            /\ UNCHANGED <<jobs, taken, onPool, sent>>
         \/ /\ input # <<>> /\ input' = Tail(input)
            /\ UNCHANGED <<offered, jobs, taken, onPool, sent>>
         \/ TakeRequest
         \/ UNCHANGED <<offered, input, taken>>
<1>1. ASSUME NEW msg \in Message, Offer(msg)
      PROVE  /\ msg \in Message \ offered
             /\ offered' = offered \cup {msg} /\ input' = Append(input, msg)
             /\ UNCHANGED <<jobs, taken, onPool, sent>>
  BY <1>1 DEF Offer, poolVars, answerVars
<1>2. CASE ReceiveNothing \/ Crash \/ Load \/ TakeStray \/ TakeReply
  <2>1. UNCHANGED <<offered, jobs, taken, onPool, sent>>
    BY <1>2 DEF ReceiveNothing, Crash, Load, TakeStray, TakeReply, poolVars, answerVars
  <2>2. input' = input \/ (input # <<>> /\ input' = Tail(input))
    BY <1>2 DEF ReceiveNothing, Crash, Load, TakeStray, TakeReply
  <2> QED
    BY <2>1, <2>2
<1>3. ASSUME \/ \E r \in Request : AddHandler(r)
             \/ StopStreaming \/ StartTransport \/ Await \/ Resume \/ Test
             \/ SoftStop \/ Drained \/ Halt \/ Enter
      PROVE  UNCHANGED <<offered, input, taken>>
  BY <1>3 DEF AddHandler, StopStreaming, StartTransport, Await, Resume, Test,
     SoftStop, Drained, Halt, Enter, transportVars
<1>4. ASSUME \/ Finish \/ Throw \/ Call \/ Suspend
             \/ \E r \in Relay : TimeOut(r)
             \/ UNCHANGED vars
      PROVE  UNCHANGED <<offered, input, taken>>
  BY <1>4 DEF Finish, Throw, Call, Suspend, TimeOut, vars, transportVars
<1> QED
  BY <1>1, <1>2, <1>3, <1>4 DEF Next, Run, Pool, Terminated

LEMMA TakenOnceStep ==
  ASSUME TypeOK, TakenOnce, [Next]_vars
  PROVE  TakenOnce'
<1>1. input \in Seq(Message) /\ taken \in Seq(Request)
  BY DEF TypeOK
<1>2. ASSUME NEW msg \in Message \ offered, offered' = offered \cup {msg},
             input' = Append(input, msg), UNCHANGED taken
      PROVE  TakenOnce'
  <2>1. msg \notin ToSet(input) /\ msg \notin ToSet(taken)
    BY DEF TakenOnce
  <2>2. ToSet(input') = ToSet(input) \cup {msg} /\ IsInjective(input')
    BY <1>1, <1>2, <2>1, AppendFacts DEF TakenOnce
  <2> QED
    BY <1>2, <2>1, <2>2 DEF TakenOnce
<1>3. ASSUME input # <<>>, input' = Tail(input)
      PROVE  /\ IsInjective(input') /\ ToSet(input') \subseteq ToSet(input)
             /\ Head(input) \in ToSet(input) \ ToSet(input')
  BY <1>1, <1>3, TailFacts DEF TakenOnce
<1>4. CASE TakeRequest
  <2>1. /\ input # <<>> /\ input' = Tail(input) /\ offered' = offered
        /\ taken' = Append(taken, Head(input)) /\ Head(input) \in Request
    BY <1>4 DEF TakeRequest, TypeOK
  <2>2. Head(input) \notin ToSet(taken)
    BY <1>3, <2>1 DEF TakenOnce
  <2>3. ToSet(taken') = ToSet(taken) \cup {Head(input)} /\ IsInjective(taken')
    BY <1>1, <2>1, <2>2, AppendFacts DEF TakenOnce
  <2> QED
    BY <1>3, <2>1, <2>2, <2>3 DEF TakenOnce
<1>5. CASE input # <<>> /\ input' = Tail(input) /\ UNCHANGED <<offered, taken>>
  BY <1>3, <1>5 DEF TakenOnce
<1>6. CASE UNCHANGED <<offered, input, taken>>
  BY <1>6 DEF TakenOnce
<1> QED
  BY <1>2, <1>4, <1>5, <1>6, InputSteps

(* The requests that were entered.                                         *)
LEMMA EnteredFacts ==
  ASSUME TypeOK, JobsAreLast
  PROVE  /\ Len(taken) \in Nat /\ Len(jobs) \in Nat
         /\ DOMAIN taken = 1 .. Len(taken) /\ DOMAIN jobs = 1 .. Len(jobs)
         /\ Entered \in Nat /\ Entered <= Len(taken)
         /\ Begun \subseteq ToSet(taken)
         /\ onPool # Nothing => onPool \in Begun
<1>1. taken \in Seq(Request) /\ jobs \in Seq(Request)
  BY DEF TypeOK
<1>2. /\ Len(taken) \in Nat /\ Len(jobs) \in Nat
      /\ DOMAIN taken = 1 .. Len(taken) /\ DOMAIN jobs = 1 .. Len(jobs)
  BY <1>1
<1>3. Entered \in Nat /\ Entered <= Len(taken)
  BY <1>2 DEF JobsAreLast, Entered
<1>4. 1 .. Entered \subseteq DOMAIN taken
  BY <1>2, <1>3
<1>5. Begun \subseteq ToSet(taken)
  BY <1>4 DEF Begun, ToSet
<1>6. onPool # Nothing => Entered \in 1 .. Entered
  BY <1>2, <1>3 DEF JobsAreLast
<1>7. onPool # Nothing => onPool \in Begun
  BY <1>6 DEF JobsAreLast, Begun
<1> QED
  BY <1>2, <1>3, <1>5, <1>7

(* A step that leaves the queue alone leaves the pool's thread alone, or   *)
(* frees it.                                                               *)
LEMMA PoolSteps ==
  ASSUME TypeOK, [Next]_vars
  PROVE  \/ TakeRequest
         \/ Enter
         \/ UNCHANGED <<taken, jobs>> /\ onPool' \in {onPool, Nothing}
<1>1. CASE \/ \E r \in Request : AddHandler(r)
           \/ \E msg \in Message : Offer(msg)
           \/ StopStreaming \/ StartTransport \/ Await \/ Resume \/ Test
           \/ SoftStop \/ Drained \/ Halt
  BY <1>1 DEF AddHandler, Offer, StopStreaming, StartTransport, Await, Resume,
     Test, SoftStop, Drained, Halt, poolVars
<1>2. CASE \/ ReceiveNothing \/ Crash \/ Load \/ TakeStray \/ TakeReply
           \/ \E r \in Relay : TimeOut(r)
           \/ UNCHANGED vars
  BY <1>2 DEF ReceiveNothing, Crash, Load, TakeStray, TakeReply, TimeOut, vars,
     poolVars
<1>3. CASE Finish \/ Throw \/ Call \/ Suspend
  BY <1>3 DEF Finish, Throw, Call, Suspend
<1> QED
  BY <1>1, <1>2, <1>3 DEF Next, Run, Pool, Terminated

LEMMA JobsAreLastStep ==
  ASSUME TypeOK, JobsAreLast, [Next]_vars
  PROVE  JobsAreLast'
<1>1. taken \in Seq(Request) /\ jobs \in Seq(Request)
  BY DEF TypeOK
<1>2. /\ Len(taken) \in Nat /\ Len(jobs) \in Nat
      /\ DOMAIN taken = 1 .. Len(taken) /\ DOMAIN jobs = 1 .. Len(jobs)
      /\ Len(jobs) <= Len(taken)
  BY EnteredFacts DEF JobsAreLast
<1>3. CASE TakeRequest
  <2> DEFINE r == Head(input)
  <2>1. r \in Request /\ jobs' = Append(jobs, r) /\ taken' = Append(taken, r)
    BY <1>3 DEF TakeRequest, Queued, TypeOK
  <2>2. onPool' = onPool
    BY <1>3 DEF TakeRequest
  <2> HIDE DEF r
  <2>3. /\ Len(jobs') = Len(jobs) + 1 /\ DOMAIN jobs' = 1 .. Len(jobs) + 1
        /\ \A i \in DOMAIN jobs : jobs'[i] = jobs[i]
        /\ jobs'[Len(jobs) + 1] = r
    BY <1>1, <2>1, AppendFacts
  <2>4. /\ Len(taken') = Len(taken) + 1 /\ DOMAIN taken' = 1 .. Len(taken) + 1
        /\ \A i \in DOMAIN taken : taken'[i] = taken[i]
        /\ taken'[Len(taken) + 1] = r
    BY <1>1, <2>1, AppendFacts
  <2>5. Entered' = Entered /\ Entered \in Nat
    BY <1>2, <2>3, <2>4 DEF Entered
  <2>6. ASSUME NEW i \in DOMAIN jobs' PROVE jobs'[i] = taken'[Entered + i]
    <3>1. CASE i \in DOMAIN jobs
      <4>1. Entered + i \in DOMAIN taken
        BY <1>2, <3>1 DEF Entered
      <4> QED
        BY <2>3, <2>4, <3>1, <4>1 DEF JobsAreLast
    <3>2. CASE i = Len(jobs) + 1
      <4>1. Entered + i = Len(taken) + 1
        BY <1>2, <3>2 DEF Entered
      <4> QED
        BY <2>3, <2>4, <3>2, <4>1
    <3> QED
      BY <1>2, <2>3, <3>1, <3>2
  <2>7. Len(jobs') <= Len(taken')
    BY <1>2, <2>3, <2>4
  <2>8. onPool' # Nothing => Entered \in DOMAIN taken' /\ onPool' = taken'[Entered]
    BY <1>2, <2>2, <2>4 DEF JobsAreLast
  <2> QED
    BY <2>5, <2>6, <2>7, <2>8 DEF JobsAreLast
<1>4. CASE Enter
  <2>1. /\ jobs # <<>> /\ jobs' = Tail(jobs) /\ onPool' = Head(jobs)
        /\ UNCHANGED taken
    BY <1>4 DEF Enter
  <2>2. /\ Len(jobs') = Len(jobs) - 1 /\ Len(jobs) # 0
        /\ DOMAIN jobs' = 1 .. Len(jobs) - 1 /\ onPool' = jobs[1]
        /\ \A i \in DOMAIN jobs' : jobs'[i] = jobs[i + 1] /\ i + 1 \in DOMAIN jobs
    BY <1>1, <2>1, TailFacts
  <2>3. Entered' = Entered + 1 /\ Entered \in Nat
    BY <1>2, <2>1, <2>2 DEF Entered
  <2>4. ASSUME NEW i \in DOMAIN jobs' PROVE jobs'[i] = taken'[Entered' + i]
    <3>1. Entered + (i + 1) = Entered' + i
      BY <2>2, <2>3
    <3> QED
      BY <2>1, <2>2, <3>1 DEF JobsAreLast
  <2>5. Entered' \in DOMAIN taken /\ onPool' = taken[Entered']
    <3>1. 1 \in DOMAIN jobs /\ Entered + 1 \in DOMAIN taken
      BY <1>2, <2>2 DEF Entered
    <3> QED
      BY <2>2, <2>3, <3>1 DEF JobsAreLast
  <2>6. Len(jobs') <= Len(taken')
    BY <1>2, <2>1, <2>2
  <2> QED
    BY <2>1, <2>4, <2>5, <2>6 DEF JobsAreLast
<1>5. CASE UNCHANGED <<taken, jobs>> /\ onPool' \in {onPool, Nothing}
  BY <1>5 DEF JobsAreLast, Entered
<1> QED
  BY <1>3, <1>4, <1>5, PoolSteps

(* A request is entered when the pool's thread takes it, and stays so.     *)
LEMMA BegunStep ==
  ASSUME TypeOK, IsInjective(taken), JobsAreLast, [Next]_vars
  PROVE  /\ Enter => /\ Begun' = Begun \cup {onPool'}
                     /\ onPool' \in Request \ Begun
         /\ ~Enter => Begun' = Begun /\ onPool' \in {onPool, Nothing}
<1>1. taken \in Seq(Request) /\ jobs \in Seq(Request)
  BY DEF TypeOK
<1>2. /\ Len(taken) \in Nat /\ Len(jobs) \in Nat
      /\ DOMAIN taken = 1 .. Len(taken) /\ DOMAIN jobs = 1 .. Len(jobs)
      /\ Entered \in Nat /\ Entered <= Len(taken)
  BY EnteredFacts
<1>3. ASSUME Enter
      PROVE  Begun' = Begun \cup {onPool'} /\ onPool' \in Request \ Begun
  <2>1. /\ jobs # <<>> /\ jobs' = Tail(jobs) /\ onPool' = Head(jobs)
        /\ UNCHANGED taken
    BY <1>3 DEF Enter
  <2>2. /\ Len(jobs') = Len(jobs) - 1 /\ Len(jobs) # 0 /\ onPool' = jobs[1]
        /\ onPool' \in Request
    BY <1>1, <2>1, TailFacts
  <2>3. Entered' = Entered + 1
    BY <1>2, <2>1, <2>2 DEF Entered
  <2>4. 1 \in DOMAIN jobs /\ Entered + 1 \in DOMAIN taken
    BY <1>2, <2>2 DEF Entered
  <2>5. onPool' = taken[Entered + 1]
    BY <2>2, <2>4 DEF JobsAreLast
  <2>6. 1 .. Entered' = (1 .. Entered) \cup {Entered + 1}
    BY <1>2, <2>3
  <2>7. Begun' = Begun \cup {onPool'}
    BY <2>1, <2>5, <2>6 DEF Begun
  <2>8. onPool' \notin Begun
    <3>1. ASSUME NEW i \in 1 .. Entered PROVE taken[i] # taken[Entered + 1]
      <4>1. i \in DOMAIN taken /\ i # Entered + 1
        BY <1>2
      <4> QED
        BY <2>4, <4>1 DEF IsInjective
    <3> QED
      BY <2>5, <3>1 DEF Begun
  <2> QED
    BY <2>2, <2>7, <2>8
<1>4. ASSUME TakeRequest
      PROVE  Begun' = Begun /\ onPool' = onPool
  <2> DEFINE r == Head(input)
  <2>1. r \in Request /\ jobs' = Append(jobs, r) /\ taken' = Append(taken, r)
    BY <1>4 DEF TakeRequest, Queued, TypeOK
  <2> HIDE DEF r
  <2>2. /\ Len(jobs') = Len(jobs) + 1 /\ Len(taken') = Len(taken) + 1
        /\ \A i \in DOMAIN taken : taken'[i] = taken[i]
    BY <1>1, <2>1, AppendFacts
  <2>3. Entered' = Entered
    BY <1>2, <2>2 DEF Entered
  <2>4. \A i \in 1 .. Entered : taken'[i] = taken[i]
    BY <1>2, <2>2
  <2> QED
    BY <1>4, <2>3, <2>4 DEF Begun, TakeRequest
<1>5. ASSUME UNCHANGED <<taken, jobs>> PROVE Begun' = Begun
  BY <1>5 DEF Begun, Entered
<1> QED
  BY <1>3, <1>4, <1>5, PoolSteps

(* Who answers: the request is entered, nobody has answered it, and the    *)
(* transport runs.                                                         *)
LEMMA AnswerSteps ==
  ASSUME TypeOK, JobsAreLast, Accounted, InStep, [Next]_vars
  PROVE  \/ \E r \in Begun \ (Faulty \cup ToSet(sent)) :
              /\ r \in Request /\ (r \in Relay \/ r = onPool)
              /\ Answer(r) /\ transport
              /\ UNCHANGED <<taken, jobs>>
         \/ UNCHANGED answerVars
<1> USE NodeAssumption
<1>1. onPool # Nothing => onPool \in Begun
  BY EnteredFacts
<1>2. CASE Resume
  <2>1. resuming \in Relay /\ resuming # Nothing
    BY <1>2 DEF Resume, InStep, TypeOK
  <2>2. resuming \in Begun \ (Faulty \cup ToSet(sent))
    BY <2>1 DEF Accounted
  <2>3. transport
    BY <1>2 DEF Resume, InStep
  <2>4. Answer(resuming) /\ UNCHANGED <<taken, jobs>>
    BY <1>2 DEF Resume, poolVars
  <2> QED
    BY <2>1, <2>2, <2>3, <2>4 DEF Request
<1>3. CASE Alive /\ Finish
  <2>1. onPool \in Inquiry /\ onPool # Nothing
    BY <1>3 DEF Finish, Request
  <2>2. onPool \in Begun \ (Faulty \cup ToSet(sent))
    BY <1>1, <2>1 DEF Accounted
  <2>3. transport
    BY <1>3, <2>1 DEF Alive, InStep, PoolIdle
  <2>4. Answer(onPool) /\ UNCHANGED <<taken, jobs>>
    BY <1>3 DEF Finish
  <2> QED
    BY <2>1, <2>2, <2>3, <2>4 DEF Request
<1>4. ASSUME NEW r \in Relay, TimeOut(r)
      PROVE  /\ r \in Begun \ (Faulty \cup ToSet(sent)) /\ r \in Request
             /\ Answer(r) /\ transport /\ UNCHANGED <<taken, jobs>>
  <2>1. r \in Begun \ (Faulty \cup ToSet(sent)) /\ r \in Request
    BY <1>4 DEF TimeOut, Accounted, Request
  <2> QED
    BY <1>4, <2>1 DEF TimeOut, InStep, poolVars
<1>5. CASE \/ \E r \in Request : AddHandler(r)
           \/ \E msg \in Message : Offer(msg)
           \/ StopStreaming \/ StartTransport \/ Await \/ Test
           \/ SoftStop \/ Drained \/ Halt \/ Enter
  BY <1>5 DEF AddHandler, Offer, StopStreaming, StartTransport, Await,
     Test, SoftStop, Drained, Halt, Enter
<1>6. CASE \/ ReceiveNothing \/ Crash \/ Load \/ TakeStray \/ TakeReply
           \/ TakeRequest \/ Throw \/ Call \/ Suspend
           \/ UNCHANGED vars
  BY <1>6 DEF ReceiveNothing, Crash, Load, TakeStray, TakeReply, TakeRequest,
     Throw, Call, Suspend, vars
<1> QED
  BY <1>2, <1>3, <1>4, <1>5, <1>6 DEF Next, Run, Pool, Terminated

LEMMA AccountedStep ==
  ASSUME TypeOK, TypeOK', IsInjective(taken), JobsAreLast, Accounted, InStep,
         [Next]_vars
  PROVE  Accounted'
<1> USE NodeAssumption
<1>1. sent \in Seq(Request) /\ awaiting \subseteq Relay
  BY DEF TypeOK
<1>2. onPool # Nothing => onPool \in Begun
  BY EnteredFacts
<1>3. Nothing \notin ToSet(sent) \cup awaiting \cup Begun
  <2>1. Begun \subseteq ToSet(taken)
    BY EnteredFacts
  <2>2. ToSet(taken) \subseteq Request /\ ToSet(sent) \subseteq Request
    BY DEF ToSet, TypeOK
  <2> QED
    BY <1>1, <2>1, <2>2 DEF Request
<1>4. ASSUME NEW r \in Request, Answer(r), transport
      PROVE  ToSet(sent') = ToSet(sent) \cup {r}
  BY <1>1, <1>4, AppendFacts DEF Answer
<1>5. /\ Enter => Begun' = Begun \cup {onPool'} /\ onPool' \in Request \ Begun
      /\ ~Enter => Begun' = Begun /\ onPool' \in {onPool, Nothing}
  BY BegunStep
<1>6. ASSUME UNCHANGED <<sent, awaiting, resuming, onPool>>, Begun' = Begun
      PROVE  Accounted'
  BY <1>6 DEF Accounted
<1>7. CASE Enter
  <2>1. /\ onPool = Nothing
        /\ UNCHANGED <<sent, awaiting, resuming>>
    BY <1>7 DEF Enter, runVars, answerVars
  <2>2. onPool' \notin ToSet(sent) \cup awaiting \cup ({resuming} \ {Nothing})
    BY <1>5, <1>7 DEF Accounted
  <2> QED
    BY <1>3, <1>5, <1>7, <2>1, <2>2 DEF Accounted, Request
<1>8. CASE Alive /\ Finish
  <2>1. /\ onPool \in Inquiry /\ onPool' = Nothing /\ Answer(onPool)
        /\ onPool \in Request /\ onPool \notin Faulty /\ onPool # Nothing
        /\ UNCHANGED <<awaiting, resuming>>
    BY <1>8 DEF Finish, Request, runVars
  <2>2. transport
    BY <1>8, <2>1 DEF Alive, InStep, PoolIdle
  <2>3. ToSet(sent') = ToSet(sent) \cup {onPool}
    BY <1>4, <2>1, <2>2
  <2>4. Begun' = Begun
    BY <1>5, <2>1 DEF Enter
  <2>5. resuming # onPool /\ onPool \notin ToSet(sent) \cup awaiting
    BY <2>1 DEF Accounted
  <2>6. Begun' \ Faulty \subseteq ToSet(sent') \cup awaiting' \cup {onPool', resuming'}
    BY <2>1, <2>3, <2>4 DEF Accounted
  <2>7. onPool' \notin ToSet(sent') \cup awaiting' \cup ({resuming'} \ {Nothing})
    BY <1>3, <2>1, <2>3
  <2>8. resuming' \notin ToSet(sent') \cup awaiting'
    BY <2>1, <2>3, <2>5 DEF Accounted
  <2>9. ToSet(sent') \cup awaiting' \subseteq Begun' \ Faulty
    BY <1>2, <2>1, <2>3, <2>4 DEF Accounted
  <2> QED
    BY <2>1, <2>3, <2>4, <2>5, <2>6, <2>7, <2>8, <2>9 DEF Accounted
<1>9. CASE Throw
  <2>1. /\ onPool \in Faulty /\ onPool' = Nothing
        /\ UNCHANGED <<sent, awaiting, resuming>>
    BY <1>9 DEF Throw, runVars, answerVars
  <2>2. Begun' = Begun
    BY <1>5, <2>1, NodeAssumption DEF Enter, Request
  <2> QED
    BY <1>3, <2>1, <2>2 DEF Accounted
<1>10. CASE Suspend
  <2>1. /\ onPool \in Relay /\ onPool' = Nothing
        /\ awaiting' = awaiting \cup {onPool}
        /\ UNCHANGED <<sent, resuming>>
    BY <1>10 DEF Suspend, HandlerWaits, runVars, answerVars
  <2>2. onPool # Nothing /\ onPool \notin Faulty
    BY <2>1 DEF Request
  <2>3. Begun' = Begun
    BY <1>5, <2>2, <2>1 DEF Enter
  <2> QED
    BY <1>2, <1>3, <2>1, <2>2, <2>3 DEF Accounted
<1>11. CASE TakeReply
  <2>1. UNCHANGED <<onPool, sent>> /\ run = "receive"
    BY <1>11 DEF TakeReply, poolVars, answerVars
  <2>2. resuming = Nothing
    BY <2>1 DEF InStep
  <2>3. PICK r \in Relay : /\ awaiting' = awaiting \ {r}
                           /\ resuming' = IF r \in awaiting THEN r ELSE Nothing
    BY <1>11 DEF TakeReply, Unregistered
  <2>4. Begun' = Begun
    BY <1>5, <2>1 DEF Enter
  <2>5. CASE r \in awaiting
    <3>1. resuming' = r /\ awaiting' = awaiting \ {r} /\ r # Nothing
      BY <1>3, <2>3, <2>5
    <3>2. r \in Begun /\ r \notin ToSet(sent) /\ r # onPool
      BY <2>5 DEF Accounted
    <3>3. Begun \ Faulty \subseteq ToSet(sent) \cup awaiting \cup {onPool}
      BY <1>3, <2>2 DEF Accounted
    <3>4. ToSet(sent') = ToSet(sent) /\ onPool' = onPool
      BY <2>1
    <3> QED
      BY <2>4, <3>1, <3>2, <3>3, <3>4 DEF Accounted
  <2>6. CASE r \notin awaiting
    <3>1. resuming' = resuming /\ awaiting' = awaiting
      BY <2>2, <2>3, <2>6
    <3>2. UNCHANGED <<sent, awaiting, resuming, onPool>>
      BY <2>1, <3>1
    <3> QED
      BY <1>6, <2>4, <3>2
  <2> QED
    BY <2>5, <2>6
<1>12. CASE Resume
  <2>1. resuming \in Relay /\ resuming # Nothing /\ resuming \in Request
    BY <1>12 DEF Resume, InStep, TypeOK, Request
  <2>2. /\ transport /\ Answer(resuming) /\ resuming' = Nothing
        /\ UNCHANGED <<onPool, awaiting>>
    BY <1>12 DEF Resume, InStep, poolVars
  <2>3. ToSet(sent') = ToSet(sent) \cup {resuming} /\ resuming \notin Faulty
    BY <1>4, <2>1, <2>2 DEF Request
  <2>4. Begun' = Begun
    BY <1>5, <2>1, <2>2, <1>12 DEF Enter, Resume, runVars
  <2> QED
    BY <1>3, <2>1, <2>2, <2>3, <2>4 DEF Accounted
<1>13. ASSUME NEW r \in Relay, TimeOut(r) PROVE Accounted'
  <2>1. /\ r \in awaiting /\ awaiting' = awaiting \ {r} /\ Answer(r)
        /\ transport /\ r \in Request /\ UNCHANGED <<onPool, resuming>>
    BY <1>13 DEF TimeOut, Unregistered, InStep, Request, runVars, poolVars
  <2>2. ToSet(sent') = ToSet(sent) \cup {r}
    BY <1>4, <2>1
  <2>3. Begun' = Begun
    BY <1>5, <1>13, <2>1 DEF Enter, TimeOut
  <2>4. r # onPool /\ r # resuming
    BY <2>1 DEF Accounted
  <2> QED
    BY <1>3, <2>1, <2>2, <2>3, <2>4 DEF Accounted
<1>14. ASSUME \/ \E r \in Request : AddHandler(r)
              \/ \E msg \in Message : Offer(msg)
              \/ StopStreaming \/ StartTransport \/ Await \/ Test
              \/ SoftStop \/ Drained \/ Halt
       PROVE  UNCHANGED <<sent, awaiting, resuming, onPool, jobs>>
  BY <1>14 DEF AddHandler, Offer, StopStreaming, StartTransport, Await,
     Test, SoftStop, Drained, Halt, poolVars, answerVars
<1>15. ASSUME \/ ReceiveNothing \/ Crash \/ Load \/ TakeStray \/ Call
              \/ UNCHANGED vars
       PROVE  UNCHANGED <<sent, awaiting, resuming, onPool, jobs>>
  BY <1>15 DEF ReceiveNothing, Crash, Load, TakeStray, Call, vars, runVars,
     poolVars, answerVars
<1>16. ASSUME TakeRequest
       PROVE  /\ UNCHANGED <<sent, awaiting, resuming, onPool>>
              /\ ~Enter
  <2>1. jobs \in Seq(Request) /\ Head(input) \in Request
    BY <1>16 DEF TypeOK, TakeRequest
  <2>2. Len(jobs') = Len(jobs) + 1 /\ Len(jobs) \in Nat
    BY <1>16, <2>1, AppendFacts DEF TakeRequest, Queued
  <2>3. jobs # <<>> => Len(Tail(jobs)) = Len(jobs) - 1
    BY <2>1
  <2>4. ~Enter
    BY <2>2, <2>3 DEF Enter
  <2> QED
    BY <1>16, <2>4 DEF TakeRequest, answerVars
<1>17. Accounted' \/ ~UNCHANGED <<sent, awaiting, resuming, onPool>> \/ Enter
  BY <1>5, <1>6
<1> QED
  BY <1>7, <1>8, <1>9, <1>10, <1>11, <1>12, <1>13, <1>14, <1>15, <1>16, <1>17
     DEF Next, Run, Pool, Terminated

-----------------------------------------------------------------------------
(* The Run thread.                                                         *)

LEMMA InStepStep ==
  ASSUME TypeOK, InStep, [Next]_vars
  PROVE  InStep'
<1> USE NodeAssumption DEF InStep
<1>1. ASSUME UNCHANGED <<transport, awaiting, assistant, jobs, onPool, resuming>>,
             run' = run \/ (run \notin {"start", "done", "crashed", "resume"}
                            /\ run' \in {"receive", "wait", "test", "stop",
                                         "drain", "crashed"})
      PROVE  InStep'
  BY <1>1 DEF PoolIdle
<1>2. CASE \/ \E r \in Request : AddHandler(r)
           \/ \E msg \in Message : Offer(msg)
           \/ StopStreaming \/ Await \/ Test \/ SoftStop
           \/ UNCHANGED vars
  <2>1. UNCHANGED <<transport, awaiting, assistant, jobs, onPool, resuming>>
    BY <1>2 DEF AddHandler, Offer, StopStreaming, Await, Test, SoftStop, vars,
       transportVars, runVars, poolVars
  <2>2. \/ run' = run
        \/ /\ run \in {"wait", "receive", "test", "stop"}
           /\ run' \in {"receive", "wait", "test", "stop", "drain"}
    BY <1>2 DEF AddHandler, Offer, StopStreaming, Await, Test, SoftStop, vars,
       runVars, Notified
  <2> QED
    BY <1>1, <2>1, <2>2
<1>3. CASE ReceiveNothing \/ Crash \/ TakeStray
  <2>1. UNCHANGED <<transport, awaiting, assistant, jobs, onPool, resuming>>
    BY <1>3 DEF ReceiveNothing, Crash, TakeStray, poolVars
  <2>2. run = "receive" /\ run' \in {"test", "stop", "crashed"}
    BY <1>3 DEF ReceiveNothing, Crash, TakeStray
  <2> QED
    BY <1>1, <2>1, <2>2
<1>4. CASE StartTransport
  BY <1>4 DEF StartTransport, PoolIdle, poolVars
<1>5. CASE Load
  <2>1. run = "receive" /\ run' \in {"test", "stop"}
    BY <1>5 DEF Load
  <2> QED
    BY <1>5, <2>1 DEF Load, poolVars
<1>6. CASE TakeRequest
  BY <1>6 DEF TakeRequest
<1>7. CASE TakeReply
  <2>1. /\ run = "receive" /\ run' \in {"test", "resume"}
        /\ UNCHANGED <<transport, assistant, jobs, onPool>>
    BY <1>7 DEF TakeReply, poolVars
  <2>2. run' = "resume" <=> resuming' # Nothing
    BY <1>7 DEF TakeReply, Request
  <2> QED
    BY <2>1, <2>2
<1>8. CASE Resume
  BY <1>8 DEF Resume, transportVars, poolVars
<1>9. CASE Enter
  BY <1>9 DEF Enter, transportVars, runVars, PoolIdle
<1>10. CASE Finish \/ Throw \/ Call \/ Suspend
  <2>1. onPool # Nothing
    BY <1>10 DEF Finish, Throw, Call, Suspend, HandlerWaits, Request
  <2>2. run \notin {"start", "halt", "done"}
    BY <2>1 DEF PoolIdle
  <2>3. UNCHANGED <<transport, run, assistant, resuming>>
    BY <1>10 DEF Finish, Throw, Call, Suspend, transportVars, runVars
  <2> QED
    BY <2>2, <2>3
<1>11. ASSUME NEW r \in Relay, TimeOut(r) PROVE InStep'
  BY <1>11 DEF TimeOut, Unregistered, transportVars, runVars, poolVars, PoolIdle
<1>12. CASE Drained
  BY <1>12 DEF Drained, transportVars, poolVars, PoolIdle
<1>13. CASE Halt
  BY <1>13 DEF Halt, poolVars, PoolIdle
<1> HIDE DEF InStep
<1> QED
  BY <1>2, <1>3, <1>4, <1>5, <1>6, <1>7, <1>8, <1>9, <1>10, <1>11, <1>12, <1>13
     DEF Next, Run, Pool, Terminated

LEMMA StreamReadStep ==
  ASSUME TypeOK, TakenOnce, StreamRead, [Next]_vars
  PROVE  StreamRead'
<1> USE DEF StreamRead
<1>1. input \in Seq(Message)
  BY DEF TypeOK
<1>2. ASSUME UNCHANGED <<console, closed, input, endOfStream, offered>>,
             \/ UNCHANGED loaded
                /\ (run' = run \/ run' \notin {"stop", "drain", "halt", "done"}
                    \/ run \in {"stop", "drain", "halt", "done"})
             \/ (run' = "stop" => ~loaded' \/ endOfStream) /\ run' \in {"test", "stop"}
      PROVE  StreamRead'
  BY <1>2
<1>3. ASSUME NEW msg \in Message, Offer(msg) PROVE StreamRead'
  BY <1>3 DEF Offer, Notified, nodeVars
<1>4. CASE StopStreaming
  BY <1>4 DEF StopStreaming, Notified, nodeVars
<1>5. CASE ReceiveNothing
  <2>1. UNCHANGED <<console, closed, loaded, offered>>
    BY <1>5 DEF ReceiveNothing, nodeVars
  <2>2. input # <<>> => Head(input) \in offered
    BY <1>1, TailFacts DEF TakenOnce
  <2>3. ASSUME console, endOfStream'
        PROVE  Blank \in offered' \/ (closed' /\ input' = <<>>)
    <3>1. CASE input = <<>>
      BY <1>5, <2>1, <3>1 DEF ReceiveNothing
    <3>2. CASE input # <<>>
      BY <1>5, <2>1, <2>2, <2>3, <3>2 DEF ReceiveNothing, EndOfStream
    <3> QED
      BY <3>1, <3>2
  <2>4. run' \in {"test", "stop"} /\ (run' = "stop" => ~loaded)
    BY <1>5 DEF ReceiveNothing
  <2> QED
    BY <2>1, <2>3, <2>4
<1>6. CASE Crash \/ Load \/ TakeRequest \/ TakeReply \/ TakeStray
  <2>1. UNCHANGED <<console, closed, endOfStream, offered>> /\ input # <<>>
    BY <1>6 DEF Crash, Load, TakeRequest, TakeReply, TakeStray
  <2>2. /\ run' \in {"crashed", "test", "resume", "stop"}
        /\ run' = "stop" => ~loaded'
    BY <1>6 DEF Crash, Load, TakeRequest, TakeReply, TakeStray
  <2> QED
    BY <2>1, <2>2
<1>7. CASE \/ \E r \in Request : AddHandler(r)
           \/ StartTransport \/ Await \/ Resume \/ SoftStop \/ Drained \/ Halt
  <2>1. UNCHANGED <<console, closed, input, endOfStream, offered, loaded>>
    BY <1>7 DEF AddHandler, StartTransport, Await, Resume, SoftStop, Drained,
       Halt, transportVars, nodeVars
  <2>2. \/ run' = run \/ run' \notin {"stop", "drain", "halt", "done"}
        \/ run \in {"stop", "drain", "halt", "done"}
    BY <1>7 DEF AddHandler, StartTransport, Await, Resume, SoftStop, Drained, Halt
  <2> QED
    BY <2>1, <2>2
<1>8. CASE Test
  BY <1>8 DEF Test, IsStreaming, transportVars, nodeVars
<1>9. CASE \/ Enter \/ Finish \/ Throw \/ Call \/ Suspend
           \/ \E r \in Relay : TimeOut(r)
           \/ UNCHANGED vars
  <2>1. UNCHANGED <<transportVars, runVars>>
    BY <1>9 DEF Enter, Finish, Throw, Call, Suspend, TimeOut, vars
  <2> QED
    BY <2>1 DEF transportVars, runVars, nodeVars
<1> HIDE DEF StreamRead
<1> QED
  BY <1>3, <1>4, <1>5, <1>6, <1>7, <1>8, <1>9 DEF Next, Run, Pool, Terminated

-----------------------------------------------------------------------------
(* The answers.                                                            *)

(* A request is answered for the first time, and after the inquiries that  *)
(* came before it.                                                         *)
LEMMA AnsweredStep ==
  ASSUME NodeInv, [Next]_vars
  PROVE  /\ AnsweredInOrder' /\ AnsweredOnce' /\ unsent' = {}
<1>1. /\ TypeOK /\ TakenOnce /\ JobsAreLast /\ Accounted /\ InStep
      /\ AnsweredInOrder /\ AnsweredOnce /\ unsent = {}
  BY DEF NodeInv
<1>2. /\ taken \in Seq(Request) /\ sent \in Seq(Request)
      /\ input \in Seq(Message) /\ IsInjective(taken)
  BY <1>1 DEF TypeOK, TakenOnce
<1>3. /\ DOMAIN taken = 1 .. Len(taken) /\ Len(taken) \in Nat
      /\ DOMAIN sent = 1 .. Len(sent) /\ Len(sent) \in Nat
  BY <1>2
<1>4. CASE TakeRequest
  <2> DEFINE r == Head(input)
  <2>1. /\ input # <<>> /\ r \in Request /\ taken' = Append(taken, r)
        /\ UNCHANGED answerVars
    BY <1>1, <1>4 DEF TakeRequest, TypeOK
  <2>2. r \in ToSet(input)
    BY <1>2, <2>1, TailFacts
  <2> HIDE DEF r
  <2>3. r \notin ToSet(sent)
    BY <1>1, <2>2 DEF TakenOnce, AnsweredInOrder
  <2>4. /\ ToSet(taken') = ToSet(taken) \cup {r}
        /\ DOMAIN taken' = 1 .. Len(taken) + 1
        /\ \A i \in DOMAIN taken : taken'[i] = taken[i]
        /\ taken'[Len(taken) + 1] = r
    BY <1>2, <2>1, AppendFacts
  <2>5. sent' = sent /\ unsent' = unsent
    BY <2>1 DEF answerVars
  <2>6. ASSUME NEW i \in DOMAIN taken', NEW j \in DOMAIN taken', i < j,
               {taken'[i], taken'[j]} \subseteq Inquiry, taken'[j] \in ToSet(sent)
        PROVE  \E k, l \in DOMAIN sent :
                 k < l /\ sent[k] = taken'[i] /\ sent[l] = taken'[j]
    <3>1. j # Len(taken) + 1
      BY <2>3, <2>4, <2>6
    <3>2. i \in DOMAIN taken /\ j \in DOMAIN taken
      BY <1>3, <2>4, <2>6, <3>1
    <3>3. taken'[i] = taken[i] /\ taken'[j] = taken[j]
      BY <2>4, <3>2
    <3> QED
      BY <1>1, <2>6, <3>2, <3>3 DEF AnsweredInOrder
  <2>7. ToSet(sent) \subseteq ToSet(taken')
    BY <1>1, <2>4 DEF AnsweredInOrder
  <2> QED
    BY <1>1, <2>5, <2>6, <2>7 DEF AnsweredInOrder, AnsweredOnce
<1>5. CASE UNCHANGED <<answerVars, taken>>
  BY <1>1, <1>5 DEF answerVars, AnsweredInOrder, AnsweredOnce
<1>6. ASSUME NEW r \in Begun \ (Faulty \cup ToSet(sent)), r \in Request,
             r \in Relay \/ r = onPool, Answer(r), transport, UNCHANGED taken
      PROVE  /\ AnsweredInOrder' /\ AnsweredOnce' /\ unsent' = {}
  <2>1. sent' = Append(sent, r) /\ unsent' = unsent
    BY <1>6 DEF Answer
  <2>2. /\ ToSet(sent') = ToSet(sent) \cup {r} /\ IsInjective(sent')
        /\ DOMAIN sent' = 1 .. Len(sent) + 1
        /\ \A k \in DOMAIN sent : sent'[k] = sent[k]
        /\ sent'[Len(sent) + 1] = r
    BY <1>1, <1>2, <1>6, <2>1, AppendFacts DEF AnsweredOnce
  <2>3. r \in ToSet(taken) /\ Entered \in Nat /\ Entered <= Len(taken)
    BY <1>1, <1>6, EnteredFacts
  <2>4. ToSet(sent') \subseteq ToSet(taken')
    BY <1>1, <1>6, <2>2, <2>3 DEF AnsweredInOrder
  <2>5. ASSUME NEW i \in DOMAIN taken, NEW j \in DOMAIN taken, i < j,
               {taken[i], taken[j]} \subseteq Inquiry, taken[j] \in ToSet(sent')
        PROVE  \E k, l \in DOMAIN sent' :
                 k < l /\ sent'[k] = taken[i] /\ sent'[l] = taken[j]
    <3>1. CASE taken[j] \in ToSet(sent)
      <4>1. PICK k \in DOMAIN sent, l \in DOMAIN sent :
               k < l /\ sent[k] = taken[i] /\ sent[l] = taken[j]
        BY <1>1, <2>5, <3>1 DEF AnsweredInOrder
      <4>2. k \in DOMAIN sent' /\ l \in DOMAIN sent'
        BY <1>3, <2>2
      <4> QED
        BY <2>2, <4>1, <4>2
    <3>2. CASE taken[j] = r
      <4>1. r = onPool /\ r # Nothing
        BY <1>6, <2>5, <3>2, NodeAssumption
      <4>2. Entered \in DOMAIN taken /\ taken[Entered] = taken[j]
        BY <1>1, <3>2, <4>1 DEF JobsAreLast
      <4>3. j = Entered
        BY <1>2, <4>2 DEF IsInjective
      <4>4. i \in 1 .. Entered /\ i # j
        BY <1>3, <2>3, <2>5, <4>3
      <4>5. taken[i] \in Begun /\ taken[i] # r
        BY <1>2, <3>2, <4>4 DEF Begun, IsInjective
      <4>6. taken[i] \notin Faulty \cup Relay \cup {Nothing}
        BY <2>5, NodeAssumption DEF Request
      <4>7. taken[i] \in ToSet(sent)
        <5>1. taken[i] \in ToSet(sent) \cup awaiting \cup {onPool, resuming}
          BY <1>1, <4>5, <4>6 DEF Accounted
        <5>2. taken[i] \notin awaiting \cup {resuming}
          BY <1>1, <4>6 DEF TypeOK
        <5> QED
          BY <4>1, <4>5, <5>1, <5>2
      <4>8. PICK k \in DOMAIN sent : sent[k] = taken[i]
        BY <4>7 DEF ToSet
      <4>9. k \in DOMAIN sent' /\ Len(sent) + 1 \in DOMAIN sent' /\ k < Len(sent) + 1
        BY <1>3, <2>2
      <4> QED
        BY <2>2, <3>2, <4>8, <4>9
    <3> QED
      BY <2>2, <2>5, <3>1, <3>2
  <2> QED
    BY <1>1, <1>6, <2>1, <2>2, <2>4, <2>5 DEF AnsweredInOrder, AnsweredOnce
<1>7. TakeRequest \/ Enter \/ UNCHANGED taken
  BY <1>1, PoolSteps
<1>8. Enter => UNCHANGED taken
  BY DEF Enter
<1>9. \/ \E r \in Begun \ (Faulty \cup ToSet(sent)) :
           /\ r \in Request /\ (r \in Relay \/ r = onPool)
           /\ Answer(r) /\ transport /\ UNCHANGED <<taken, jobs>>
      \/ UNCHANGED answerVars
  BY <1>1, AnswerSteps
<1> QED
  BY <1>4, <1>5, <1>6, <1>7, <1>8, <1>9

-----------------------------------------------------------------------------
(* The theorems.                                                           *)

LEMMA NodeInvInit == Init => NodeInv
<1> SUFFICES ASSUME Init PROVE NodeInv
  OBVIOUS
<1>1. TypeOK
  BY TypeCorrectInit
<1>2. /\ DOMAIN <<>> = {} /\ Len(<<>>) = 0 /\ ToSet(<<>>) = {}
      /\ IsInjective(<<>>)
  BY DEF ToSet, IsInjective
<1>3. Entered = 0 /\ Begun = {}
  BY <1>2 DEF Init, Entered, Begun
<1>4. TakenOnce
  BY <1>2 DEF Init, TakenOnce
<1>5. JobsAreLast
  BY <1>2 DEF Init, JobsAreLast
<1>6. Accounted
  BY <1>2, <1>3 DEF Init, Accounted
<1>7. InStep
  BY DEF Init, InStep, PoolIdle
<1>8. StreamRead
  BY DEF Init, StreamRead
<1>9. AnsweredInOrder /\ AnsweredOnce /\ unsent = {}
  BY <1>2 DEF Init, AnsweredInOrder, AnsweredOnce
<1> QED
  BY <1>1, <1>4, <1>5, <1>6, <1>7, <1>8, <1>9 DEF NodeInv

LEMMA NodeInvStep == NodeInv /\ [Next]_vars => NodeInv'
<1> SUFFICES ASSUME NodeInv, [Next]_vars PROVE NodeInv'
  OBVIOUS
<1>1. /\ TypeOK /\ TakenOnce /\ JobsAreLast /\ Accounted /\ InStep /\ StreamRead
  BY DEF NodeInv
<1>2. IsInjective(taken)
  BY <1>1 DEF TakenOnce
<1>3. TypeOK'
  BY <1>1, TypeCorrectStep
<1>4. TakenOnce' /\ JobsAreLast'
  BY <1>1, TakenOnceStep, JobsAreLastStep
<1>5. Accounted'
  BY <1>1, <1>2, <1>3, AccountedStep
<1>6. InStep' /\ StreamRead'
  BY <1>1, InStepStep, StreamReadStep
<1>7. AnsweredInOrder' /\ AnsweredOnce' /\ unsent' = {}
  BY AnsweredStep
<1> QED
  BY <1>3, <1>4, <1>5, <1>6, <1>7 DEF NodeInv

(* The inductive invariant: where each request that came in is, from the   *)
(* transport to its answer, and what the Run thread may conclude from the  *)
(* state it is in (node.hpp:57-161, handlers.hpp:92-126).                  *)
THEOREM NodeInvCorrect == Spec => []NodeInv
BY NodeInvInit, NodeInvStep, PTL DEF Spec

(* Every variable keeps its type.                                          *)
THEOREM TypeCorrect == Spec => []TypeOK
<1>1. NodeInv => TypeOK
  BY DEF NodeInv
<1> QED
  BY <1>1, NodeInvCorrect, PTL

(* Requests whose handler does not wait are answered in the order in which *)
(* they came: there is one thread, and its queue is first in, first out    *)
(* (node.hpp:57, handlers.hpp:108).                                        *)
THEOREM AnsweredInOrderCorrect == Spec => []AnsweredInOrder
<1>1. NodeInv => AnsweredInOrder
  BY DEF NodeInv
<1> QED
  BY <1>1, NodeInvCorrect, PTL

(* No request is answered twice, by its response and its timeout or        *)
(* otherwise (network.cpp:49-61, 202).                                     *)
THEOREM AnsweredOnceCorrect == Spec => []AnsweredOnce
<1>1. NodeInv => AnsweredOnce
  BY DEF NodeInv
<1> QED
  BY <1>1, NodeInvCorrect, PTL

(* Stop loses no answer (node.hpp:152-161).                                *)
THEOREM StoppedMeansAnsweredCorrect == Spec => []StoppedMeansAnswered
<1>1. NodeInv => StoppedMeansAnswered
  <2> SUFFICES ASSUME NodeInv PROVE StoppedMeansAnswered
    OBVIOUS
  <2>1. /\ TypeOK /\ JobsAreLast /\ Accounted /\ InStep /\ unsent = {}
    BY DEF NodeInv
  <2>2. ASSUME run = "done"
        PROVE  ToSet(taken) \ Faulty = ToSet(sent) \cup awaiting
    <3>1. jobs = <<>> /\ onPool = Nothing /\ resuming = Nothing
      BY <2>1, <2>2 DEF InStep, PoolIdle
    <3>2. DOMAIN taken = 1 .. Len(taken) /\ Len(taken) \in Nat /\ Begun \subseteq ToSet(taken)
      BY <2>1, EnteredFacts
    <3>3. Entered = Len(taken)
      BY <3>1, <3>2 DEF Entered
    <3>4. Begun = ToSet(taken)
      BY <3>2, <3>3 DEF Begun, ToSet
    <3>5. Nothing \notin ToSet(taken)
      BY <2>1, NodeAssumption DEF TypeOK, ToSet
    <3> QED
      BY <2>1, <3>1, <3>4, <3>5 DEF Accounted
  <2> QED
    BY <2>1, <2>2 DEF StoppedMeansAnswered
<1> QED
  BY <1>1, NodeInvCorrect, PTL

(* With stdin the node stops only at its end or at an empty line           *)
(* (console_transport.cpp:36-48, 57-59).                                   *)
THEOREM ReadsToTheEndCorrect == Spec => []ReadsToTheEnd
<1>1. NodeInv => ReadsToTheEnd
  BY DEF NodeInv, StreamRead, ReadsToTheEnd
<1> QED
  BY <1>1, NodeInvCorrect, PTL
=============================================================================
