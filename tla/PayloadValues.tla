---------------------------- MODULE PayloadValues ----------------------------
(***************************************************************************)
(* What Payload promises its owners (payload.rs): each of them has bytes   *)
(* of its own.  A clone starts as an equal value, and from then on writing *)
(* to one, cutting it off or dropping it changes no other.  Bytes change   *)
(* only while their owner has a guard, and opening or dropping the guard   *)
(* changes none.                                                           *)
(***************************************************************************)
EXTENDS Naturals

CONSTANTS
    Owner,      \* the payloads, by the variables that hold them
    Byte,
    Size,       \* bytes of a payload at most
    None        \* no payload

VARIABLES
    value,      \* value[o]: a function from 0..n-1 to Byte, or None
    writing     \* the owners with a guard

Init == value = [o \in Owner |-> None] /\ writing = {}

Idle(o) == value[o] # None /\ o \notin writing

Create(o) ==
    /\ value[o] = None
    /\ \E n \in 0..Size : \E v \in [0..n - 1 -> Byte] : value' = [value EXCEPT ![o] = v]
    /\ UNCHANGED writing

Clone(o, p) ==
    /\ Idle(o) /\ value[p] = None
    /\ value' = [value EXCEPT ![p] = value[o]]
    /\ UNCHANGED writing

Truncate(o) ==
    /\ Idle(o)
    /\ \E n \in 0..Size :
         /\ 0..n - 1 \subseteq DOMAIN value[o]
         /\ value' = [value EXCEPT ![o] = [i \in 0..n - 1 |-> @[i]]]
    /\ UNCHANGED writing

Open(o) ==
    /\ Idle(o)
    /\ writing' = writing \cup {o}
    /\ UNCHANGED value

Write(o) ==
    /\ o \in writing
    /\ \E i \in DOMAIN value[o], b \in Byte : value' = [value EXCEPT ![o][i] = b]
    /\ UNCHANGED writing

Close(o) ==
    /\ o \in writing
    /\ writing' = writing \ {o}
    /\ UNCHANGED value

Drop(o) ==
    /\ Idle(o)
    /\ value' = [value EXCEPT ![o] = None]
    /\ UNCHANGED writing

Next ==
    \E o \in Owner :
      \/ Create(o) \/ Truncate(o) \/ Open(o) \/ Write(o) \/ Close(o) \/ Drop(o)
      \/ \E p \in Owner : Clone(o, p)

Spec == Init /\ [][Next]_<<value, writing>>
=============================================================================
