----------------------------- MODULE MessageIds -----------------------------
(***************************************************************************)
(* The ids of requests (Network::GenerateNextId) and the answers of the    *)
(* unique-id task, which are made in the same way: a counter of the node   *)
(* and the number in the node's name share one word of 64 bits.            *)
(*                                                                         *)
(* NetworkProcessor takes it for granted that two calls of a node differ   *)
(* in id; the unique-id task, that no two nodes ever give the same id.     *)
(***************************************************************************)
EXTENDS Integers

(* Number n of the counter, on the node with this jitter *)
Id(n, jitter) == 1000 * n + jitter

(* The same in a word with this many values *)
GenerateNextId(n, jitter, word) == Id(n, jitter) % word

(* GenerateHandler, whose counter is local_counter_ and whose node is n_:  *)
(* ++ comes before the multiplication.                                     *)
Generate(localCounter, n, word) == GenerateNextId(localCounter + 1, n, word)

(* The counter has not gone so far that the word wraps around.  The code   *)
(* does not check this; the theorems assume it.                            *)
Fits(n, jitter, word) == Id(n, jitter) < word
=============================================================================
