------------------------------ MODULE RpcCall ------------------------------
(***************************************************************************)
(* What a node is promised about the calls it issues, whatever the network *)
(* and the threads of the node do: the abstract specification that         *)
(* NetworkProcessor implements.                                            *)
(*                                                                         *)
(* A call completes at most once.  It completes with a response only if    *)
(* the peer executed the request, and with a timeout only if it was issued *)
(* with one.  Unless the caller asked for at-least-once delivery, the peer *)
(* executes the request at most once.                                      *)
(***************************************************************************)
EXTENDS Naturals

CONSTANTS Call

VARIABLES
  status,      \* what the caller sees of a call
  repeatable,  \* the calls issued for at-least-once delivery
  expirable,   \* the calls issued with a timeout
  executions,  \* how often the peer executed a call (2 means "often")
  closed       \* the node's client no longer exists

vars == <<status, repeatable, expirable, executions, closed>>

Open == {c \in Call : status[c] = "open"}

Init ==
  /\ status = [c \in Call |-> "idle"]
  /\ repeatable = {}
  /\ expirable = {}
  /\ executions = [c \in Call |-> 0]
  /\ closed = FALSE

Issue(c) ==
  /\ ~closed
  /\ status[c] = "idle"
  /\ status' = [status EXCEPT ![c] = "open"]
  /\ repeatable' \in {repeatable, repeatable \cup {c}}
  /\ expirable' \in {expirable, expirable \cup {c}}
  /\ UNCHANGED <<executions, closed>>

(* May happen long after the caller stopped waiting *)
Execute(c) ==
  /\ status[c] # "idle"
  /\ executions[c] = 0 \/ c \in repeatable
  /\ executions' = [executions EXCEPT ![c] = IF @ < 2 THEN @ + 1 ELSE 2]
  /\ UNCHANGED <<status, repeatable, expirable, closed>>

Succeed(c) ==
  /\ status[c] = "open"
  /\ executions[c] > 0
  /\ status' = [status EXCEPT ![c] = "ok"]
  /\ UNCHANGED <<repeatable, expirable, executions, closed>>

Complete(S, outcome) ==
  status' = [c \in Call |-> IF c \in S THEN outcome ELSE status[c]]

Expire ==
  /\ ~closed
  /\ \E S \in SUBSET (Open \cap expirable) : Complete(S, "timeout")
  /\ UNCHANGED <<repeatable, expirable, executions, closed>>

Close ==
  /\ ~closed
  /\ closed' = TRUE
  /\ \E S \in SUBSET Open : Complete(S, "broken")
  /\ UNCHANGED <<repeatable, expirable, executions>>

Next ==
  \/ \E c \in Call : Issue(c) \/ Execute(c) \/ Succeed(c)
  \/ Expire
  \/ Close

Spec == Init /\ [][Next]_vars
=============================================================================
