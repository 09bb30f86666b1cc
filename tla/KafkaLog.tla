------------------------------ MODULE KafkaLog ------------------------------
(***************************************************************************)
(* What the log service (tasks/kafka) promises to its clients: a log for   *)
(* each key, which grows at its end only, and consumers that move along    *)
(* the logs and are given all they move past.                              *)
(***************************************************************************)
EXTENDS Naturals

CONSTANTS
  Key,       \* the keys of the logs
  Message,   \* the messages that are sent
  KeyOf,     \* the key each message is sent with
  Offset,    \* the offsets a message may get
  Consumer   \* the clients that poll

KafkaLogAssumption ==
  /\ KeyOf \in [Message -> Key]
  /\ Offset \subseteq Nat

VARIABLES
  stored,    \* the messages of each log, with their offsets
  position,  \* the least offset of each log a consumer has not moved past
  received   \* the messages a consumer has been given

logVars == <<stored, position, received>>

Init ==
  /\ stored = [k \in Key |-> {}]
  /\ position = [c \in Consumer |-> [k \in Key |-> 0]]
  /\ received = [c \in Consumer |-> {}]

(* A message is stored once, after all that is in its log.                 *)
Append(m, o) ==
  /\ \A k \in Key : \A e \in stored[k] : e.msg # m
  /\ \A e \in stored[KeyOf[m]] : e.offset < o
  /\ stored' = [stored EXCEPT ![KeyOf[m]] = @ \cup {[offset |-> o, msg |-> m]}]
  /\ UNCHANGED <<position, received>>

(* A consumer moves past some stored messages, and is given all of them.   *)
Deliver(c, next) ==
  /\ \A k \in Key :
       \/ next[k] = position[c][k]
       \/ /\ next[k] > position[c][k]
          /\ \E e \in stored[k] : next[k] = e.offset + 1
  /\ position' = [position EXCEPT ![c] = next]
  /\ received' = [received EXCEPT ![c] = @ \cup
       UNION {{e.msg : e \in {x \in stored[k] : /\ x.offset >= position[c][k]
                                                /\ x.offset < next[k]}}
              : k \in Key}]
  /\ UNCHANGED stored

Next ==
  \/ \E m \in Message, o \in Offset : Append(m, o)
  \/ \E c \in Consumer :
       \E next \in [Key -> {0} \cup {o + 1 : o \in Offset}] : Deliver(c, next)

Spec == Init /\ [][Next]_logVars

-----------------------------------------------------------------------------

Entry == [offset : Offset, msg : Message]

TypeOK ==
  /\ stored \in [Key -> SUBSET Entry]
  /\ position \in [Consumer -> [Key -> Nat]]
  /\ received \in [Consumer -> SUBSET Message]

(* A consumer stands at the start of a log or right behind a message of    *)
(* it: what comes in later is not behind it.                               *)
StandsBehindMessage ==
  \A c \in Consumer, k \in Key :
    position[c][k] = 0 \/ \E e \in stored[k] : position[c][k] = e.offset + 1

(* What a consumer has moved past it was given: no message is stored       *)
(* behind a consumer's back.                                               *)
NothingMissed ==
  \A c \in Consumer, k \in Key : \A e \in stored[k] :
    e.offset < position[c][k] => e.msg \in received[c]

(* An offset of a log is never given to two messages.                      *)
OffsetsUnique ==
  \A k \in Key : \A e, f \in stored[k] : e.offset = f.offset => e = f

LogInv == TypeOK /\ StandsBehindMessage /\ NothingMissed /\ OffsetsUnique
=============================================================================
