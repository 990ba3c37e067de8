--------------------------- MODULE RecoveryService ---------------------------
(***************************************************************************)
(* What merkle::recover (merkle.rs 608-779) promises its caller.  It may   *)
(* refuse a set of shreds; if it does not, there is one block from then    *)
(* on, signed as the caller's shreds are and complete, which the caller's  *)
(* shreds are part of.  The iterator hands out the rest of this block, in  *)
(* its order, each shred once and with a proof that leads to the signed    *)
(* root, until the caller has all of it or wants no more.                  *)
(***************************************************************************)
EXTENDS Naturals, Sequences, FiniteSets, Functions

CONSTANTS
    Inputs,     \* sequences of shreds a caller may pass
    Place(_),   \* the place of a shred in its block, from 0
    Root(_)     \* the root a shred's proof leads to

VARIABLES
    stage,      \* "idle", "asked" or "giving"
    input,      \* the shreds of the caller
    block,      \* the block that is given
    items       \* what the iterator has yielded

vars == <<stage, input, block, items>>

(* b is a block that shreds are part of; the others verify as one coding   *)
(* shred among them does.                                                  *)
Completes(b, shreds) ==
    LET given == Range(shreds)
    IN  /\ \A k \in DOMAIN b : Place(b[k]) = k - 1
        /\ given \subseteq Range(b) /\ Cardinality(given) = Len(shreds)
        /\ \E s \in given :
             /\ s.type = "code"
             /\ DOMAIN b = 1..s.num_data + s.num_coding
             /\ \A k \in DOMAIN b :
                  /\ b[k].signature = s.signature
                  /\ b[k] \in given \/ Root(b[k]) = Root(s)

Missing == {k \in DOMAIN block : block[k] \notin Range(input)}

Init == stage = "idle" /\ input = <<>> /\ block = <<>> /\ items = <<>>

Ask ==
    /\ stage = "idle"
    /\ stage' = "asked"
    /\ input' \in Inputs
    /\ UNCHANGED <<block, items>>

Accept ==
    /\ stage = "asked"
    /\ stage' = "giving"
    /\ Completes(block', input)
    /\ UNCHANGED <<input, items>>

Give ==
    /\ stage = "giving"
    /\ \E k \in Missing :
         /\ Cardinality({j \in Missing : j < k}) = Len(items)
         /\ items' = Append(items, [ok |-> TRUE, value |-> block[k]])
    /\ UNCHANGED <<stage, input, block>>

(* Refused, used up, or dropped. *)
Leave ==
    /\ stage # "idle"
    /\ stage' = "idle" /\ input' = <<>> /\ block' = <<>> /\ items' = <<>>

Next == Ask \/ Accept \/ Give \/ Leave

Spec == Init /\ [][Next]_vars
=============================================================================
