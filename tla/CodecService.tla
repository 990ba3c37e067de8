---------------------------- MODULE CodecService ----------------------------
(***************************************************************************)
(* What ReedSolomonCache::get promises its callers: a thread that asks for *)
(* the codec of a key (the pair of data and parity shard counts) gets the  *)
(* result of ReedSolomon::new for exactly that key, whatever the other     *)
(* threads ask for at the same time.  No cache, lock or cell is visible.   *)
(***************************************************************************)
CONSTANTS
    Thread,     \* threads that call get
    Key,        \* (data_shards, parity_shards) pairs
    New(_),     \* the result of ReedSolomon::new for a key, Ok or Err
    None        \* "no key" and "no answer"

VARIABLES
    asked,      \* asked[t]: the key thread t is waiting for, or None
    answer      \* answer[t]: the result of t's last completed call, or None

serviceVars == <<asked, answer>>

Init ==
    /\ asked = [t \in Thread |-> None]
    /\ answer = [t \in Thread |-> None]

Ask(t, k) ==
    /\ asked[t] = None
    /\ asked' = [asked EXCEPT ![t] = k]
    /\ UNCHANGED answer

Reply(t) ==
    /\ asked[t] # None
    /\ answer' = [answer EXCEPT ![t] = New(asked[t])]
    /\ asked' = [asked EXCEPT ![t] = None]

Next == \E t \in Thread : Reply(t) \/ \E k \in Key : Ask(t, k)

Spec == Init /\ [][Next]_serviceVars
=============================================================================
