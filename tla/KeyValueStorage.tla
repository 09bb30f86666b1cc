-------------------------- MODULE KeyValueStorage --------------------------
(***************************************************************************)
(* The client KeyValueStorage over the external service seq-kv: a request  *)
(* being served together with its answer, as an action of the store.       *)
(*                                                                         *)
(* seq-kv is sequentially consistent.  It is a sequence of versions; a     *)
(* request that changes a key is served at the last version, any other may *)
(* be served at an older one, but a client never goes back to before what  *)
(* it has seen.                                                            *)
(***************************************************************************)
EXTENDS Naturals, Sequences

CONSTANTS
  Client,   \* the nodes that call the service
  Key,      \* the keys
  Missing   \* the value of a key that does not exist

VARIABLES
  versions,  \* all the versions of the store, the last is current
  seen       \* the version each client has seen

Last == versions[Len(versions)]

KvInit ==
  /\ versions = <<[k \in Key |-> Missing]>>
  /\ seen = [n \in Client |-> 1]

KvTypeOK(Value) ==
  /\ versions \in Seq([Key -> Value \cup {Missing}]) /\ versions # <<>>
  /\ seen \in [Client -> DOMAIN versions]

(* Faulty variants, here and below, are wrong on purpose: README.md says   *)
(* which property notices each of them.                                    *)
ServedAtAny(n, i) ==
  /\ i \in DOMAIN versions
  /\ seen' = [seen EXCEPT ![n] = i]
  /\ UNCHANGED versions

(* What leaves the store alone may be served at an older version *)
ServedAt(n, i) ==
  /\ i \in seen[n] .. Len(versions)
  /\ seen' = [seen EXCEPT ![n] = i]
  /\ UNCHANGED versions

(* CompareAndSwap with create_if_not_exists set, as all callers have it *)
CasSucceeds(n, key, from, to) ==
  /\ Last[key] \in {Missing, from} \ {to}
  /\ versions' = Append(versions, [Last EXCEPT ![key] = to])
  /\ seen' = [seen EXCEPT ![n] = Len(versions) + 1]

(* A swap of a value for itself leaves the store alone *)
CasKeeps(n, key, from, to) ==
  from = to /\ \E i \in DOMAIN versions : ServedAt(n, i) /\ versions[i][key] = from

CasFailsWithoutCreating(n, key, from) ==
  \E i \in DOMAIN versions : ServedAt(n, i) /\ versions[i][key] # from

CasFails(n, key, from) ==
  \E i \in DOMAIN versions :
    ServedAt(n, i) /\ versions[i][key] \notin {Missing, from}
=============================================================================
