-------------------------------- MODULE Kafka --------------------------------
(***************************************************************************)
(* The log service (tasks/kafka): part 1, one node that keeps logs and     *)
(* committed offsets in memory, and part 2, any number of nodes that keep  *)
(* the logs in seq-kv and the committed offsets in lin-kv.                 *)
(*                                                                         *)
(* A handler runs up to its next co_await.  In part 1 it only awaits a     *)
(* mutex that nobody holds, so it keeps the one thread of the pool; in     *)
(* part 2 it awaits a service, and a step is a request being served and    *)
(* the handler going on with the answer.                                   *)
(***************************************************************************)
EXTENDS Naturals, Sequences, FiniteSets, FiniteSetsExt

CONSTANTS
  Node,         \* the nodes
  Key,          \* the keys of the logs
  Send,         \* the send requests, which are also their messages
  Consumer,     \* the clients that poll, each again and again
  Commit,       \* the commit requests
  At,           \* the node a client's requests are sent to
  KeyOf,        \* the key of each send request
  MaxPollSize,  \* max_poll_size
  Part          \* which parts are run, of "one" and "two"

ASSUME KafkaAssumption ==
  /\ At \in [Send \cup Consumer -> Node]
  /\ KeyOf \in [Send -> Key]
  /\ MaxPollSize \in Nat \ {0}
  /\ Part \subseteq {"one", "two"}
  /\ IsFiniteSet(Send)

VARIABLES
  part,        \* the program that runs
  logs,        \* part 1: State::logs
  nextOffset,  \* part 1: State::next_offset
  versions,    \* part 2: the versions of seq-kv
  seen,        \* part 2: the version each node has seen
  committed,   \* State::committed, or the value of lin-kv
  sendPc,      \* what a SendHandler awaits
  offset,      \* the offset it has chosen
  guess,       \* its guess of the log
  commitPc,    \* what a CommitOffsetsHandler awaits
  offsets,     \* the offsets of its request
  old,         \* its guess of the committed offsets
  results,     \* the logs a PollHandler has got, as far as answered
  position,    \* the offsets a consumer asks for with its next poll
  received     \* the messages it has been given

nodeVars == <<part, logs, nextOffset>>
kvVars == <<versions, seen>>
sendVars == <<sendPc, offset, guess>>
commitVars == <<commitPc, offsets, old>>
pollVars == <<results, position, received>>
vars == <<nodeVars, kvVars, committed, sendVars, commitVars, pollVars>>

Offset == 0 .. Cardinality(Send) - 1
Entry == [offset : Offset, msg : Send]
Empty == <<>>

(* The maps from keys to offsets of requests and of the committed offsets  *)
OffsetMap == UNION {[ks -> Offset] : ks \in SUBSET Key}

(* An empty log stands for a key that does not exist: no log in the store  *)
(* is empty.                                                               *)
INSTANCE KeyValueStorage WITH Client <- Node, Missing <- {}

(* The logs of the program that runs *)
Stored == IF part = "one" THEN logs ELSE Last

TypeOK ==
  /\ part \in Part
  /\ logs \in [Key -> SUBSET Entry]
  /\ nextOffset \in 0 .. Cardinality(Send)
  /\ KvTypeOK(SUBSET Entry)
  /\ committed \in OffsetMap
  /\ sendPc \in [Send -> {"idle", "allotted", "cas", "read", "thrown", "done"}]
  /\ offset \in [Send -> Offset]
  /\ guess \in [Send -> SUBSET Entry]
  /\ commitPc \in [Commit -> {"idle", "cas", "read", "done"}]
  /\ offsets \in [Commit -> OffsetMap]
  /\ old \in [Commit -> OffsetMap]
  /\ DOMAIN results = Consumer
  /\ \A c \in Consumer : /\ DOMAIN results[c] \subseteq Key
                         /\ results[c] \in [DOMAIN results[c] -> SUBSET Entry]
  /\ position \in [Consumer -> [Key -> 0 .. Cardinality(Send)]]
  /\ received \in [Consumer -> SUBSET Send]

Init ==
  /\ part \in Part
  /\ logs = [k \in Key |-> {}]
  /\ nextOffset = 0
  /\ KvInit
  /\ committed = Empty
  /\ sendPc = [m \in Send |-> "idle"]
  /\ offset = [m \in Send |-> 0]
  /\ guess = [m \in Send |-> {}]
  /\ commitPc = [t \in Commit |-> "idle"]
  /\ offsets = [t \in Commit |-> Empty]
  /\ old = [t \in Commit |-> Empty]
  /\ results = [c \in Consumer |-> Empty]
  /\ position = [c \in Consumer |-> [k \in Key |-> 0]]
  /\ received = [c \in Consumer |-> {}]

Goes(m, from, to) == sendPc[m] = from /\ sendPc' = [sendPc EXCEPT ![m] = to]

-----------------------------------------------------------------------------
(* What both parts do to maps.                                             *)

With(log, o, m) == log \cup {[offset |-> o, msg |-> m]}

(* `from` updated by what is in `map` *)
Overwritten(from, map) ==
  [k \in DOMAIN from \cup DOMAIN map |->
     IF k \in DOMAIN map THEN map[k] ELSE from[k]]

(* update[key] is 0 if it is not there *)
Merged(from, map) ==
  [k \in DOMAIN from \cup DOMAIN map |->
     Max({x[k] : x \in {y \in {from, map} : k \in DOMAIN y}})]

StrictlyAfter(log, bound) == {e \in log : e.offset > bound}

(* From lower_bound to the end *)
AtOrAfter(log, bound) == {e \in log : e.offset >= bound}

(* std::views::take(max_poll_size) *)
FirstOf(log) ==
  {e \in log : Cardinality({f \in log : f.offset < e.offset}) < MaxPollSize}

(* A consumer gets an answer with these entries and goes on behind them.   *)
Receive(c, msgs) ==
  /\ received' = [received EXCEPT ![c] = @ \cup
                    {e.msg : e \in UNION {msgs[k] : k \in Key}}]
  /\ position' = [position EXCEPT ![c] = [k \in Key |->
                    IF msgs[k] = {} THEN @[k]
                    ELSE Max({e.offset : e \in msgs[k]}) + 1]]

(* A client may commit what it knows to be stored, however old that is.    *)
Known(k) ==
  {offset[m] : m \in {x \in Send : KeyOf[x] = k /\ sendPc[x] = "done"}}

Commits(t, map) ==
  /\ commitPc[t] = "idle"
  /\ DOMAIN map # {} /\ \A k \in DOMAIN map : map[k] \in Known(k)
  /\ offsets' = [offsets EXCEPT ![t] = map]

-----------------------------------------------------------------------------
(* Part 1.  A handler that has started keeps the one thread of the pool.   *)

AnyThread == TRUE

PoolFree == \A m \in Send : sendPc[m] # "allotted"

AllotTwo == nextOffset' = nextOffset + 2

(* next_offset.fetch_add(1) *)
FetchAdd == nextOffset' = nextOffset + 1

Allot(m) ==
  /\ part = "one" /\ PoolFree
  /\ Goes(m, "idle", "allotted")
  /\ offset' = [offset EXCEPT ![m] = nextOffset]
  /\ FetchAdd
  /\ UNCHANGED <<part, logs, kvVars, committed, guess, commitVars, pollVars>>

(* Under the mutex; then the offset is the answer *)
Insert(m) ==
  /\ Goes(m, "allotted", "done")
  /\ logs' = [logs EXCEPT ![KeyOf[m]] = With(@, offset[m], m)]
  /\ UNCHANGED <<part, nextOffset, kvVars, committed, offset, guess,
                 commitVars, pollVars>>

PollOne(c) ==
  /\ part = "one" /\ PoolFree
  /\ Receive(c, [k \in Key |-> FirstOf(AtOrAfter(logs[k], position[c][k]))])
  /\ UNCHANGED <<nodeVars, kvVars, committed, sendVars, commitVars, results>>

CommitOne(t, map) ==
  /\ part = "one" /\ PoolFree
  /\ Commits(t, map)
  /\ commitPc' = [commitPc EXCEPT ![t] = "done"]
  /\ committed' = Overwritten(committed, map)
  /\ UNCHANGED <<nodeVars, kvVars, sendVars, old, pollVars>>

-----------------------------------------------------------------------------
(* Part 2, SendHandler::InsertToLog.                                       *)

(* The first CompareAndSwap is from an empty log to one with the message.  *)
StartSend(m) ==
  /\ part = "two"
  /\ Goes(m, "idle", "cas")
  /\ UNCHANGED <<nodeVars, kvVars, committed, offset, guess, commitVars,
                 pollVars>>

(* The swap succeeds, the loop ends and the offset is the answer.          *)
SendSucceeds(m) ==
  /\ Goes(m, "cas", "done")
  /\ CasSucceeds(At[m], KeyOf[m], guess[m], With(guess[m], offset[m], m))
  /\ UNCHANGED <<nodeVars, committed, offset, guess, commitVars, pollVars>>

(* It fails and the log is read.                                           *)
SendFails(m) ==
  /\ Goes(m, "cas", "read")
  /\ CasFails(At[m], KeyOf[m], guess[m])
  /\ UNCHANGED <<nodeVars, committed, offset, guess, commitVars, pollVars>>

OldGuess(m, log) == guess[m]

NewGuess(m, log) == log

(* .value() of the answer is the new guess; it throws if that is an error. *)
SendReads(m) ==
  \E i \in DOMAIN versions :
    /\ ServedAt(At[m], i)
    /\ LET log == versions[i][KeyOf[m]] IN
         \/ /\ log = {}
            /\ Goes(m, "read", "thrown")
            /\ UNCHANGED <<offset, guess>>
         \/ /\ log # {}
            /\ Goes(m, "read", "cas")
            /\ guess' = [guess EXCEPT ![m] = NewGuess(m, log)]
            /\ offset' = [offset EXCEPT ![m] = Max({e.offset : e \in log}) + 1]
    /\ UNCHANGED <<nodeVars, committed, commitVars, pollVars>>

-----------------------------------------------------------------------------
(* Part 2, PollHandler: the logs are read independently, and WhenAll waits *)
(* for all of them.                                                        *)

ReadLog(c, k) ==
  /\ part = "two"
  /\ k \notin DOMAIN results[c]
  /\ \E i \in DOMAIN versions :
       /\ ServedAt(At[c], i)
       /\ results' = [results EXCEPT ![c] =
                        Overwritten(@, [x \in {k} |-> versions[i][k]])]
  /\ UNCHANGED <<nodeVars, committed, sendVars, commitVars, position, received>>

(* The condition is the opposite of that of part 1: a log with messages    *)
(* for the consumer is passed over.                                        *)
Answered(log, bound) ==
  IF AtOrAfter(log, bound) # {} THEN {} ELSE FirstOf(AtOrAfter(log, bound))

FinishPoll(c) ==
  /\ part = "two"
  /\ DOMAIN results[c] = Key
  /\ Receive(c, [k \in Key |-> Answered(results[c][k], position[c][k])])
  /\ results' = [results EXCEPT ![c] = Empty]
  /\ UNCHANGED <<nodeVars, kvVars, committed, sendVars, commitVars>>

-----------------------------------------------------------------------------
(* Part 2, CommitOffsetsHandler, over the one key of lin-kv.  No offsets   *)
(* at all stand for the key not existing.                                  *)

StartCommit(t, map) ==
  /\ part = "two"
  /\ Commits(t, map)
  /\ commitPc' = [commitPc EXCEPT ![t] = "cas"]
  /\ UNCHANGED <<nodeVars, kvVars, committed, sendVars, old, pollVars>>

CommitSucceeds(t) ==
  /\ commitPc[t] = "cas"
  /\ committed \in {Empty, old[t]}
  /\ committed' = Merged(old[t], offsets[t])
  /\ commitPc' = [commitPc EXCEPT ![t] = "done"]
  /\ UNCHANGED <<nodeVars, kvVars, sendVars, offsets, old, pollVars>>

CommitFails(t) ==
  /\ commitPc[t] = "cas"
  /\ committed \notin {Empty, old[t]}
  /\ commitPc' = [commitPc EXCEPT ![t] = "read"]
  /\ UNCHANGED <<nodeVars, kvVars, committed, sendVars, offsets, old, pollVars>>

CommitReads(t) ==
  /\ commitPc[t] = "read"
  /\ commitPc' = [commitPc EXCEPT ![t] = "cas"]
  /\ old' = [old EXCEPT ![t] = committed]
  /\ UNCHANGED <<nodeVars, kvVars, committed, sendVars, offsets, pollVars>>

(* ListCommittedOffsetsHandler changes nothing; this is its answer.        *)
Listed(keys) == [k \in keys \cap DOMAIN committed |-> committed[k]]

-----------------------------------------------------------------------------
SendStep(m) == Insert(m) \/ SendSucceeds(m) \/ SendFails(m) \/ SendReads(m)

CommitStep(t) == CommitSucceeds(t) \/ CommitFails(t) \/ CommitReads(t)

PollStep(c) == PollOne(c) \/ FinishPoll(c) \/ \E k \in Key : ReadLog(c, k)

Next ==
  \/ \E m \in Send : Allot(m) \/ StartSend(m) \/ SendStep(m)
  \/ \E t \in Commit : \/ CommitStep(t)
                       \/ \E map \in OffsetMap :
                            CommitOne(t, map) \/ StartCommit(t, map)
  \/ \E c \in Consumer : PollStep(c)

Spec == Init /\ [][Next]_vars

(* Requests are served, in the end, and handlers go on when they are;      *)
(* consumers poll again and again.                                         *)
FairSpec ==
  /\ Spec
  /\ \A m \in Send : WF_vars(SendStep(m))
  /\ \A t \in Commit : WF_vars(CommitStep(t))
  /\ \A c \in Consumer : WF_vars(PollStep(c))

-----------------------------------------------------------------------------

(* Both parts keep the promise of KafkaLog: offsets come into a log in     *)
(* order and a consumer that goes on behind what it was given misses       *)
(* nothing.  In part 1 this rests on the pool having one thread, because a *)
(* message is inserted after its offset was allotted (part1/src/           *)
(* handlers.cpp:19-24); in part 2 on the swap being from the very log the  *)
(* offset was computed from (part2/src/handlers.cpp:43-51).                *)
Promise == INSTANCE KafkaLog WITH stored <- Stored, Message <- Send
ImplementsLog == Promise!Spec

(* Every send is answered in the end, however often other sends to its key *)
(* win the swap, and no read in the loop finds the key missing             *)
(* (part2/src/handlers.cpp:43-46).                                         *)
SendsAnswered ==
  \A m \in Send : sendPc[m] \in {"allotted", "cas"} ~> sendPc[m] = "done"

(* In part 2 an acknowledged commit holds: what is listed for a key is     *)
(* never below it, also when commits race and the older one is last        *)
(* (part2/src/handlers.cpp:118-126).                                       *)
CommitsHold ==
  part = "two" =>
    \A t \in Commit : commitPc[t] = "done" =>
      \A k \in DOMAIN offsets[t] : /\ k \in DOMAIN Listed(Key)
                                   /\ Listed(Key)[k] >= offsets[t][k]

(* What the two rest on.  Each program has its own states of a send.       *)
SendPcFits ==
  \A m \in Send : sendPc[m] \in
    IF part = "one" THEN {"idle", "allotted", "done"}
                    ELSE {"idle", "cas", "read", "thrown", "done"}

(* In part 1 the one message that is not inserted yet has the last offset, *)
(* and an offset is allotted for every message that has started.           *)
OffsetsInTurn ==
  part = "one" =>
    /\ nextOffset = Cardinality({m \in Send : sendPc[m] # "idle"})
    /\ \A k \in Key : \A e \in logs[k] : /\ sendPc[e.msg] = "done"
                                        /\ e.offset < nextOffset
    /\ \A m \in Send : sendPc[m] = "allotted" =>
         /\ offset[m] + 1 = nextOffset
         /\ \A k \in Key : \A e \in logs[k] : e.offset < offset[m]
         /\ \A x \in Send : sendPc[x] = "allotted" => x = m

(* In part 2 logs only grow, a log has a message once, and no offset is    *)
(* left out.                                                               *)
LogsGrow ==
  \A i, j \in DOMAIN versions :
    i <= j => \A k \in Key : versions[i][k] \subseteq versions[j][k]

LogsDense ==
  \A i \in DOMAIN versions : \A k \in Key : \A e \in versions[i][k] :
    /\ sendPc[e.msg] = "done"
    /\ e.offset < Cardinality(versions[i][k])
    /\ \A f \in versions[i][k] : e.msg = f.msg => e = f

(* The guess of a send was the log once, and its offset is behind it.      *)
GuessBehind ==
  part = "two" =>
    \A m \in Send : /\ guess[m] \subseteq Last[KeyOf[m]]
                    /\ offset[m] <= Cardinality(guess[m])
                    /\ \A e \in guess[m] : e.offset < offset[m]

StoreInv ==
  TypeOK /\ SendPcFits /\ OffsetsInTurn /\ LogsGrow /\ LogsDense /\ GuessBehind

(* A commit of part 1 awaits nothing, and in part 2 the guess of a commit  *)
(* is behind what is committed by now.                                     *)
CommitPcFits ==
  part = "one" => \A t \in Commit : commitPc[t] \in {"idle", "done"}

OldBehind ==
  part = "two" =>
    \A t \in Commit : \A k \in DOMAIN old[t] : /\ k \in DOMAIN committed
                                             /\ committed[k] >= old[t][k]

KafkaInv == StoreInv /\ CommitPcFits /\ OldBehind /\ CommitsHold

(* In part 1 every stored message reaches every consumer that polls again  *)
(* and again, a bounded number of messages at a time (part1/src/           *)
(* handlers.cpp:51-58).                                                    *)
DeliveredByPartOne ==
  \A m \in Send, c \in Consumer :
    part = "one" /\ sendPc[m] = "done" ~> m \in received[c]

(* A poll that finds messages for its consumer returns some of them.       *)
(* src/README.md, line 14, calls both parts a replicated log service; that *)
(* of part 2 skips every log that has something to return (part2/src/      *)
(* handlers.cpp:92).                                                       *)
PollReturnsMessages ==
  [][\A c \in Consumer :
       FinishPoll(c) =>
         \/ \A k \in Key : AtOrAfter(results[c][k], position[c][k]) = {}
         \/ received[c] # received'[c]]_vars
=============================================================================
