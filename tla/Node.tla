-------------------------------- MODULE Node --------------------------------
(***************************************************************************)
(* A node from Run to the end of its input: Node::Start, Run and Stop with *)
(* the transport, HandlersProcessor and the pool of one thread.            *)
(*                                                                         *)
(* The Run thread takes messages from the transport.  A request becomes a  *)
(* job of the pool; a response resumes the handler that awaits it, on the  *)
(* Run thread itself.  Stop drains the pool, joins the assistant of        *)
(* NetworkProcessor, and stops the transport last.                         *)
(***************************************************************************)
EXTENDS Naturals, Sequences, FiniteSets, SequencesExt

CONSTANTS
  InitMessage,  \* an init request with the fields LoadEnvironment needs
  Inquiry,      \* requests whose handler answers at once
  Relay,        \* requests whose handler awaits a call of its own
  Faulty,       \* requests whose handler throws
  Stray,        \* messages that are neither a request nor a response
  Blank,        \* an empty line on stdin
  Fragment,     \* a line without "src", "dest" or "body"
  Malformed,    \* not JSON, or a request with a field of a wrong type
  Nothing,      \* "no request"
  MaxOffered    \* bound: so many messages come in

Request == Inquiry \cup Relay \cup Faulty

(* The answer to the call of a handler; its id is the waiter's key *)
Reply(r) == <<"reply", r>>

Message ==
  {InitMessage, Blank, Fragment, Malformed}
    \cup Request \cup Stray \cup {Reply(r) : r \in Relay}

(* The kinds of messages differ *)
ASSUME NodeAssumption ==
  /\ Inquiry \cap Relay = {} /\ (Inquiry \cup Relay) \cap Faulty = {}
  /\ Nothing \notin Request /\ Blank # Fragment
  /\ {Blank, Fragment} \cap (Request \cup {InitMessage, Malformed}) = {}
  /\ \A r \in Relay : Reply(r) \notin Request \cup {Blank}

VARIABLES
  console,    \* ConsoleTransport, otherwise InMemoryTransport
  transport,  \* is_running_ of the transport
  input,      \* in_.buffer_, or the lines of stdin not read yet
  closed,     \* in_.is_closed_, or stdin at its end
  endOfStream,\* ConsoleTransport::end_of_stream_
  run,        \* where the Run thread is
  loaded,     \* env_ has a value
  handlers,   \* handlers_: the requests that a handler was added for
  resuming,   \* the request whose handler the Run thread resumes
  jobs,       \* the pool's queue
  onPool,     \* the request whose handler the pool's thread runs
  stage,      \* how far that handler is
  awaiting,   \* the requests whose handler waits for an answer
  assistant,  \* the assistant of NetworkProcessor runs
  offered,    \* the messages that came in so far
  taken,      \* the requests that were submitted to the pool, in order
  sent,       \* the requests that were answered, in order
  unsent      \* the requests whose answer found the transport stopped

transportVars == <<console, transport, input, closed, endOfStream, offered>>
nodeVars      == <<loaded, handlers>>
runVars       == <<run, nodeVars, resuming>>
poolVars      == <<jobs, onPool, stage>>
answerVars    == <<sent, unsent>>
vars == <<transportVars, runVars, poolVars, awaiting, assistant, taken, answerVars>>

TypeOK ==
  /\ console \in BOOLEAN /\ transport \in BOOLEAN
  /\ closed \in BOOLEAN /\ endOfStream \in BOOLEAN
  /\ input \in Seq(Message)
  /\ run \in {"start", "receive", "wait", "test", "resume",
              "stop", "drain", "halt", "done", "crashed"}
  /\ loaded \in BOOLEAN
  /\ handlers \subseteq Request
  /\ resuming \in Relay \cup {Nothing}
  /\ jobs \in Seq(Request)
  /\ onPool \in Request \cup {Nothing}
  /\ stage \in {"handle", "called"}
  /\ awaiting \subseteq Relay
  /\ assistant \in BOOLEAN
  /\ offered \subseteq Message
  /\ taken \in Seq(Request)
  /\ sent \in Seq(Request)
  /\ unsent \subseteq Request

Init ==
  /\ console \in BOOLEAN
  /\ transport = FALSE /\ closed = FALSE /\ endOfStream = FALSE
  /\ input = <<>>
  /\ run = "start" /\ loaded = FALSE /\ resuming = Nothing
  /\ handlers = {}
  /\ jobs = <<>> /\ onPool = Nothing /\ stage = "handle"
  /\ awaiting = {}
  /\ assistant = FALSE
  /\ offered = {}
  /\ taken = <<>> /\ sent = <<>> /\ unsent = {}

-----------------------------------------------------------------------------
(* The outside: messages come in, and end.                                 *)

(* Faulty variants, here and below, are wrong on purpose: README.md says   *)
(* which property notices each of them.                                    *)
NotifyNobody == run

(* not_empty_.notify_one, notify_all: the Run thread looks again *)
Notified == IF run = "wait" THEN "receive" ELSE run

(* A call of r is out: from then on its answer may come in *)
Called(r) == r \in awaiting \/ (onPool = r /\ stage = "called")

(* InMemoryTransport::Push, or a line on stdin.  The peer of a call may    *)
(* answer as soon as the call is out.                                      *)
Offer(msg) ==
  /\ msg \notin offered
  /\ Cardinality(offered) < MaxOffered
  /\ msg \in {Blank, Fragment} => console
  /\ \A r \in Relay : msg = Reply(r) => Called(r)
  /\ ~closed
  /\ console \/ transport
  /\ offered' = offered \cup {msg}
  /\ input' = Append(input, msg)
  /\ run' = Notified
  /\ UNCHANGED <<console, transport, closed, endOfStream, nodeVars, resuming,
                 poolVars, awaiting, assistant, taken, answerVars>>

(* InMemoryTransport::StopStreaming, or the end of stdin *)
StopStreaming ==
  /\ ~closed
  /\ closed' = TRUE
  /\ run' = Notified
  /\ UNCHANGED <<console, transport, input, endOfStream, nodeVars, resuming,
                 poolVars, awaiting, assistant, offered, taken, answerVars>>

-----------------------------------------------------------------------------
(* The Run thread: Start, LoadEnvironment and the loop of Run.             *)

(* HandlersProcessor::Add; it refuses once the processor runs *)
AddHandler(r) ==
  /\ run = "start"
  /\ handlers' = handlers \cup {r}
  /\ UNCHANGED <<transportVars, run, loaded, resuming, poolVars, awaiting,
                 assistant, taken, answerVars>>

StartTransport ==
  /\ run = "start"
  /\ transport' = TRUE
  /\ run' = "receive"
  /\ UNCHANGED <<console, input, closed, endOfStream, nodeVars, resuming,
                 poolVars, awaiting, assistant, offered, taken, answerVars>>

(* Recieve waits for a message *)
Await ==
  /\ run = "receive"
  /\ input = <<>> /\ ~closed
  /\ run' = "wait"
  /\ UNCHANGED <<transportVars, nodeVars, resuming, poolVars, awaiting,
                 assistant, taken, answerVars>>

AnyNothingEnds == console

(* An empty line counts as the end of stdin, a fragment does not *)
EndOfStream ==
  endOfStream \/ (console /\ (input = <<>> \/ Head(input) = Blank))

(* Recieve returns nothing.  Without an environment the node stops.        *)
ReceiveNothing ==
  /\ run = "receive"
  /\ \/ input = <<>> /\ closed /\ UNCHANGED input
     \/ /\ input # <<>> /\ Head(input) \in {Blank, Fragment}
        /\ input' = Tail(input)
  /\ endOfStream' = EndOfStream
  /\ run' = IF loaded THEN "test" ELSE "stop"
  /\ UNCHANGED <<console, transport, closed, nodeVars, resuming, poolVars,
                 awaiting, assistant, offered, taken, answerVars>>

(* json::parse or get throws, on the thread of Run, and nothing catches it *)
Crash ==
  /\ run = "receive"
  /\ input # <<>> /\ Head(input) = Malformed
  /\ input' = Tail(input)
  /\ run' = "crashed"
  /\ UNCHANGED <<console, transport, closed, endOfStream, nodeVars, resuming,
                 poolVars, awaiting, assistant, offered, taken, answerVars>>

(* LoadEnvironment gets the first message.  After an init request the      *)
(* processors start; after anything else Start fails.                      *)
Load ==
  /\ run = "receive" /\ ~loaded
  /\ input # <<>> /\ Head(input) \notin {Blank, Fragment, Malformed}
  /\ input' = Tail(input)
  /\ loaded' = (Head(input) = InitMessage)
  /\ assistant' = loaded'
  /\ run' = IF loaded' THEN "test" ELSE "stop"
  /\ UNCHANGED <<console, transport, closed, endOfStream, handlers, resuming,
                 poolVars, awaiting, offered, taken, answerVars>>

QueuedFirst(r) == <<r>> \o jobs

Queued(r) == Append(jobs, r)

(* HandlersProcessor::Process submits a request with a handler *)
TakeRequest ==
  /\ run = "receive" /\ loaded
  /\ input # <<>> /\ Head(input) \in handlers
  /\ input' = Tail(input)
  /\ jobs' = Queued(Head(input))
  /\ taken' = Append(taken, Head(input))
  /\ run' = "test"
  /\ UNCHANGED <<console, transport, closed, endOfStream, nodeVars, resuming,
                 onPool, stage, awaiting, assistant, offered, answerVars>>

StillRegistered(r) == awaiting

Unregistered(r) == awaiting \ {r}

(* NetworkProcessor::Process takes the waiter, if it is registered *)
TakeReply ==
  /\ run = "receive" /\ loaded
  /\ input # <<>>
  /\ \E r \in Relay :
       /\ Head(input) = Reply(r)
       /\ awaiting' = Unregistered(r)
       /\ resuming' = IF r \in awaiting THEN r ELSE Nothing
       /\ run' = IF r \in awaiting THEN "resume" ELSE "test"
  /\ input' = Tail(input)
  /\ UNCHANGED <<console, transport, closed, endOfStream, nodeVars, poolVars,
                 assistant, offered, taken, answerVars>>

(* No handler was added for the request, as for a second init request, or  *)
(* the type of the message is unknown                                      *)
TakeStray ==
  /\ run = "receive" /\ loaded
  /\ input # <<>>
  /\ Head(input) \in Stray \cup {InitMessage} \cup (Request \ handlers)
  /\ input' = Tail(input)
  /\ run' = "test"
  /\ UNCHANGED <<console, transport, closed, endOfStream, nodeVars, resuming,
                 poolVars, awaiting, assistant, offered, taken, answerVars>>

(* transport_->Send of the answer to r, whichever thread sends it *)
Answer(r) ==
  /\ sent' = IF transport THEN Append(sent, r) ELSE sent
  /\ unsent' = IF transport THEN unsent ELSE unsent \cup {r}

(* The handler goes on inside Set, on the Run thread *)
Resume ==
  /\ run = "resume"
  /\ Answer(resuming)
  /\ resuming' = Nothing
  /\ run' = "test"
  /\ UNCHANGED <<transportVars, nodeVars, poolVars, awaiting, assistant, taken>>

(* IsStreaming: in memory, messages that were not taken do not count *)
IsStreaming == IF console THEN ~endOfStream ELSE ~closed

Test ==
  /\ run = "test"
  /\ run' = IF IsStreaming THEN "receive" ELSE "stop"
  /\ UNCHANGED <<transportVars, nodeVars, resuming, poolVars, awaiting,
                 assistant, taken, answerVars>>

-----------------------------------------------------------------------------
(* The pool's thread, and a call that times out on the assistant.          *)

Enter ==
  /\ onPool = Nothing
  /\ jobs # <<>>
  /\ onPool' = Head(jobs)
  /\ stage' = "handle"
  /\ jobs' = Tail(jobs)
  /\ UNCHANGED <<transportVars, runVars, awaiting, assistant, taken, answerVars>>

(* Handle returns a ready future and its response is sent *)
Finish ==
  /\ onPool \in Inquiry
  /\ Answer(onPool)
  /\ onPool' = Nothing
  /\ UNCHANGED <<transportVars, runVars, jobs, stage, awaiting, assistant, taken>>

(* Handle throws; the exception is logged and there is no answer *)
Throw ==
  /\ onPool \in Faulty
  /\ onPool' = Nothing
  /\ UNCHANGED <<transportVars, runVars, jobs, stage, awaiting, assistant,
                 taken, answerVars>>

AnyHandlerWaits(r) == r \in Inquiry \cup Relay

HandlerWaits(r) == r \in Relay

(* Handle awaits a call: the request goes out first ... *)
Call ==
  /\ HandlerWaits(onPool) /\ stage = "handle"
  /\ stage' = "called"
  /\ UNCHANGED <<transportVars, runVars, jobs, onPool, awaiting, assistant,
                 taken, answerVars>>

(* ... then its waiter is registered and the thread is free *)
Suspend ==
  /\ HandlerWaits(onPool) /\ stage = "called"
  /\ awaiting' = awaiting \cup {onPool}
  /\ onPool' = Nothing
  /\ UNCHANGED <<transportVars, runVars, jobs, stage, assistant, taken,
                 answerVars>>

(* The assistant resumes a handler whose call timed out *)
TimeOut(r) ==
  /\ assistant
  /\ r \in awaiting
  /\ awaiting' = Unregistered(r)
  /\ Answer(r)
  /\ UNCHANGED <<transportVars, runVars, poolVars, assistant, taken>>

-----------------------------------------------------------------------------
(* Node::Stop.                                                             *)

SoftStop ==
  /\ run = "stop"
  /\ run' = "drain"
  /\ UNCHANGED <<transportVars, nodeVars, resuming, poolVars, awaiting,
                 assistant, taken, answerVars>>

WithoutWaiting == TRUE

PoolIdle == jobs = <<>> /\ onPool = Nothing

(* Wait returns *)
Drained ==
  /\ run = "drain"
  /\ PoolIdle
  /\ run' = "halt"
  /\ UNCHANGED <<transportVars, nodeVars, resuming, poolVars, awaiting,
                 assistant, taken, answerVars>>

(* The processors stop, which joins the assistant, and then the transport *)
Halt ==
  /\ run = "halt"
  /\ IF assistant
     THEN assistant' = FALSE /\ UNCHANGED <<run, transport>>
     ELSE run' = "done" /\ transport' = FALSE /\ UNCHANGED assistant
  /\ UNCHANGED <<console, input, closed, endOfStream, offered, nodeVars,
                 resuming, poolVars, awaiting, taken, answerVars>>

Terminated == run \in {"done", "crashed"} /\ UNCHANGED vars

Run ==
  \/ StartTransport \/ Await \/ ReceiveNothing \/ Load \/ Crash
  \/ TakeRequest \/ TakeReply \/ TakeStray \/ Resume \/ Test
  \/ SoftStop \/ Drained \/ Halt

Pool == Enter \/ Finish \/ Throw \/ Call \/ Suspend

Alive == run # "crashed"

Next ==
  \/ \E r \in Request : AddHandler(r)
  \/ \E msg \in Message : Alive /\ Offer(msg)
  \/ Alive /\ StopStreaming
  \/ Run
  \/ Alive /\ Pool
  \/ \E r \in Relay : Alive /\ TimeOut(r)
  \/ Terminated

Spec == Init /\ [][Next]_vars

(* Threads that can run do.  Nobody has to send anything.                  *)
FairSpec == Spec /\ WF_vars(Run) /\ WF_vars(Alive /\ Pool)

-----------------------------------------------------------------------------

(* Requests whose handler does not wait are answered in the order in which *)
(* they came, whatever other handlers do in between, and nothing else is   *)
(* (node.hpp:57, handlers.hpp:108).                                        *)
AnsweredInOrder ==
  /\ ToSet(sent) \subseteq ToSet(taken)
  /\ \A i, j \in DOMAIN taken :
       i < j /\ {taken[i], taken[j]} \subseteq Inquiry /\ taken[j] \in ToSet(sent)
         => \E k, l \in DOMAIN sent :
              k < l /\ sent[k] = taken[i] /\ sent[l] = taken[j]

(* No request is answered twice: a handler is resumed by a response or by  *)
(* a timeout, on two threads, but never by both (network.cpp:49-61, 202).  *)
AnsweredOnce == IsInjective(sent)

(* Stop loses no answer: when the node has stopped, every request that was *)
(* taken is answered, unless its handler threw or still awaits an answer,  *)
(* and no answer was sent to a stopped transport (node.hpp:152-161).       *)
StoppedMeansAnswered ==
  /\ unsent = {}
  /\ run = "done" =>
       ToSet(taken) \ Faulty = ToSet(sent) \cup awaiting

(* With stdin the node stops only at its end or at an empty line, and not  *)
(* at a line without the fields of a message: nothing before that is left  *)
(* unread (console_transport.cpp:36-48, 57-59).                            *)
ReadsToTheEnd ==
  console /\ run = "done" /\ loaded /\ Blank \notin offered
    => closed /\ input = <<>>

(* What the four rest on.  A request comes in once and is taken once.      *)
TakenOnce ==
  /\ IsInjective(input) /\ IsInjective(taken)
  /\ ToSet(input) \cup ToSet(taken) \subseteq offered
  /\ ToSet(input) \cap ToSet(taken) = {}

(* The jobs are the requests that were taken last, and the one before them *)
(* is on the pool's thread if any is.                                      *)
Entered == Len(taken) - Len(jobs)

JobsAreLast ==
  /\ Len(jobs) <= Len(taken)
  /\ \A i \in DOMAIN jobs : jobs[i] = taken[Entered + i]
  /\ onPool # Nothing => Entered \in DOMAIN taken /\ onPool = taken[Entered]

(* A request that was entered is in one place: on the pool's thread, with  *)
(* a handler that waits or is being resumed, or answered; a faulty one is  *)
(* nowhere after its handler threw.                                        *)
Begun == {taken[i] : i \in 1 .. Entered}

Accounted ==
  /\ ToSet(sent) \cup awaiting \subseteq Begun \ Faulty
  /\ resuming \in Begun \cup {Nothing}
  /\ Begun \ Faulty \subseteq ToSet(sent) \cup awaiting \cup {onPool, resuming}
  /\ onPool \notin ToSet(sent) \cup awaiting \cup ({resuming} \ {Nothing})
  /\ resuming \notin ToSet(sent) \cup awaiting
  /\ ToSet(sent) \cap awaiting = {}

(* No handler runs before the transport does or after it stopped.          *)
InStep ==
  /\ assistant \/ run \notin {"start", "done", "crashed"} => transport
  /\ run = "start" => awaiting = {} /\ ~assistant
  /\ run \in {"start", "halt", "done"} => PoolIdle
  /\ run = "resume" <=> resuming # Nothing

(* End of stream means that: all lines were read, or there was a blank one.*)
StreamRead ==
  console =>
    /\ endOfStream => Blank \in offered \/ (closed /\ input = <<>>)
    /\ loaded /\ run \in {"stop", "drain", "halt", "done"} => endOfStream

NodeInv ==
  /\ TypeOK /\ TakenOnce /\ JobsAreLast /\ Accounted /\ InStep /\ StreamRead
  /\ AnsweredInOrder /\ AnsweredOnce /\ unsent = {}

(* Run returns once the input has ended, also when it was waiting for a    *)
(* message (queue.hpp:20-29, 41-45), unless a malformed line has thrown    *)
(* out of it (messages.cpp:57).                                            *)
RunReturns == closed ~> run \in {"done", "crashed"}
=============================================================================
