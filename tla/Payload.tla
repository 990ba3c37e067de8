------------------------------- MODULE Payload -------------------------------
(***************************************************************************)
(* The payload of a shred: reference-counted bytes that clones share, and  *)
(* a guard through which one owner writes (payload.rs).  The guard takes   *)
(* the bytes out of the payload, makes them writable, in place if nobody   *)
(* shares them and in a copy otherwise, and gives them back when dropped.  *)
(* Owners are on any threads; while a guard lives its owner is borrowed    *)
(* and does nothing else.                                                  *)
(*                                                                         *)
(* Bytes and BytesMut are a library: a view of the first len bytes of a    *)
(* buffer on the heap, which is free again once nothing refers to it.      *)
(***************************************************************************)
EXTENDS Naturals

CONSTANTS
    Owner,      \* the payloads, by the variables that hold them
    Buffer,     \* heap buffers
    Byte,
    Size,       \* bytes of a buffer
    None        \* no buffer, no guard, no payload

ASSUME PayloadAssumption ==
    /\ Size \in Nat
    /\ None \notin Buffer
    /\ \A n \in 0..Size : None \notin [0..n - 1 -> Byte]
    /\ None \notin [phase : {"open", "shared"}, from : 0..Size, to : 0..Size]

VARIABLES
    live,       \* the owners that have a payload
    heap,       \* what the buffers hold
    bytes,      \* bytes[o]: payload.bytes, empty while a guard has taken it
    bytes_mut,  \* bytes_mut[o]: the bytes that o's guard has taken
    guard       \* guard[o]: what the guard is doing and its range, or None

vars == <<live, heap, bytes, bytes_mut, guard>>

Empty == [buf |-> None, len |-> 0]

Init ==
    /\ live = {}
    /\ heap \in [Buffer -> [0..Size - 1 -> Byte]]
    /\ bytes = [o \in Owner |-> Empty]
    /\ bytes_mut = [o \in Owner |-> Empty]
    /\ guard = [o \in Owner |-> None]

-----------------------------------------------------------------------------
Refers(o, b) == bytes[o].buf = b \/ bytes_mut[o].buf = b

Free == {b \in Buffer : \A o \in Owner : ~Refers(o, b)}

(* The only reference to the buffer is o's own.  Slip: always reused.      *)
AlwaysUnique(o) == TRUE
Unique(o) == \A p \in Owner \ {o} : ~Refers(p, bytes[o].buf)

Idle(o) == o \in live /\ guard[o] = None

(* The end of a range, as get_mut looks at it; the bound behind the last   *)
(* byte for `from..`.  Slips: one byte too many; the end of the buffer     *)
(* instead of that of the payload.                                         *)
Bound == [kind : {"included", "excluded"}, end : 0..Size + 1] \cup {[kind |-> "unbounded", end |-> 0]}

EndUpTo(bound, len) == bound.end <= len + 1
EndInBuffer(bound, len) ==
    \/ bound.kind = "included" /\ bound.end < Size
    \/ bound.kind = "excluded" /\ bound.end <= Size
    \/ bound.kind = "unbounded"
EndInBounds(bound, len) ==
    \/ bound.kind = "included" /\ bound.end < len
    \/ bound.kind = "excluded" /\ bound.end <= len
    \/ bound.kind = "unbounded"

Behind(bound, len) ==
    IF bound.kind = "included" THEN bound.end + 1
    ELSE IF bound.kind = "excluded" THEN bound.end
    ELSE len

-----------------------------------------------------------------------------
(* Payload::from(Vec) *)
Create(o) ==
    /\ o \notin live
    /\ \E b \in Free, n \in 0..Size, v \in [0..Size - 1 -> Byte] :
         /\ heap' = [heap EXCEPT ![b] = v]
         /\ bytes' = [bytes EXCEPT ![o] = [buf |-> b, len |-> n]]
    /\ live' = live \cup {o}
    /\ UNCHANGED <<bytes_mut, guard>>

(* The clone refers to the same buffer. *)
Clone(o, p) ==
    /\ Idle(o) /\ p \notin live
    /\ bytes' = [bytes EXCEPT ![p] = bytes[o]]
    /\ live' = live \cup {p}
    /\ UNCHANGED <<heap, bytes_mut, guard>>

(* Only the view gets shorter. *)
Truncate(o, n) ==
    /\ Idle(o)
    /\ n <= bytes[o].len
    /\ bytes' = [bytes EXCEPT ![o].len = n]
    /\ UNCHANGED <<live, heap, bytes_mut, guard>>

(* as_mut and get_mut: take the bytes, and find whether they are shared.   *)
(* Callers give ranges that begin within the payload and not behind their  *)
(* own end, which get_mut does not look at.                                *)
Take(o, from, bound) ==
    /\ Idle(o)
    /\ EndInBounds(bound, bytes[o].len)
    /\ from <= bytes[o].len /\ from <= Behind(bound, bytes[o].len)
    /\ bytes_mut' = [bytes_mut EXCEPT ![o] = bytes[o]]
    /\ bytes' = [bytes EXCEPT ![o] = Empty]
    /\ guard' = [guard EXCEPT ![o] = [phase |-> IF Unique(o) THEN "open" ELSE "shared",
                                      from |-> from, to |-> Behind(bound, bytes[o].len)]]
    /\ UNCHANGED <<live, heap>>

(* Shared bytes are copied, even if the others have gone in the meantime. *)
Copy(o) ==
    /\ guard[o] # None /\ guard[o].phase = "shared"
    /\ \E b \in Free :
         /\ heap' = [heap EXCEPT ![b] = [i \in 0..Size - 1 |->
                       IF i < bytes_mut[o].len THEN heap[bytes_mut[o].buf][i] ELSE @[i]]]
         /\ bytes_mut' = [bytes_mut EXCEPT ![o].buf = b]
    /\ guard' = [guard EXCEPT ![o].phase = "open"]
    /\ UNCHANGED <<live, bytes>>

(* The owner writes a byte in the guard's range. *)
WriteByte(o, i, b) ==
    /\ guard[o] # None /\ guard[o].phase = "open"
    /\ guard[o].from <= i /\ i < guard[o].to
    /\ heap' = [heap EXCEPT ![bytes_mut[o].buf][i] = b]
    /\ UNCHANGED <<live, bytes, bytes_mut, guard>>

(* The guard is dropped: freeze.  Slip: the bytes are not given back.      *)
NothingBack(o) == Empty
GivenBack(o) == bytes_mut[o]

Release(o) ==
    /\ guard[o] # None /\ guard[o].phase = "open"
    /\ bytes' = [bytes EXCEPT ![o] = GivenBack(o)]
    /\ bytes_mut' = [bytes_mut EXCEPT ![o] = Empty]
    /\ guard' = [guard EXCEPT ![o] = None]
    /\ UNCHANGED <<live, heap>>

(* Dropped, or consumed by into_bytes_mut. *)
Drop(o) ==
    /\ Idle(o)
    /\ live' = live \ {o}
    /\ bytes' = [bytes EXCEPT ![o] = Empty]
    /\ UNCHANGED <<heap, bytes_mut, guard>>

Next ==
    \E o \in Owner :
      \/ Create(o) \/ Copy(o) \/ Release(o) \/ Drop(o)
      \/ \E p \in Owner : Clone(o, p)
      \/ \E n \in 0..Size : Truncate(o, n)
      \/ \E from \in 0..Size, bound \in Bound : Take(o, from, bound)
      \/ \E i \in 0..Size - 1, b \in Byte : WriteByte(o, i, b)

Spec == Init /\ [][Next]_vars

-----------------------------------------------------------------------------
(* The bytes of an owner, wherever they are at the moment. *)
Held(o) == IF guard[o] = None THEN bytes[o] ELSE bytes_mut[o]
Contents(o) == [i \in 0..Held(o).len - 1 |-> heap[Held(o).buf][i]]

(* Types of all variables; no guard reaches beyond the buffer.             *)
TypeOK ==
    /\ live \subseteq Owner
    /\ heap \in [Buffer -> [0..Size - 1 -> Byte]]
    /\ bytes \in [Owner -> [buf : Buffer \cup {None}, len : 0..Size]]
    /\ bytes_mut \in [Owner -> [buf : Buffer \cup {None}, len : 0..Size]]
    /\ guard \in [Owner -> {None} \cup [phase : {"open", "shared"}, from : 0..Size, to : 0..Size]]

(* A range that get_mut accepts (payload.rs 33-37) ends within the payload *)
(* as truncate and clones have left it, however much longer its buffer is: *)
(* what a payload was cut off by is never written through its guard.       *)
RangeInBytes == \A o \in Owner : guard[o] # None => guard[o].to <= bytes_mut[o].len

(* A guard that may be written through is alone with its buffer: no clone  *)
(* made before or after the guard refers to it (payload.rs 126-133), even  *)
(* if clones come and go on other threads while the bytes are copied.      *)
WriterIsAlone ==
    \A o \in Owner : guard[o] # None /\ guard[o].phase = "open" =>
      \A p \in Owner \ {o} : ~Refers(p, bytes_mut[o].buf)

(* Sharing is invisible: the owners' payloads behave like independent      *)
(* values, which clones, guards, copies and drops in any order never mix.  *)
Values == INSTANCE PayloadValues WITH
            value <- [o \in Owner |-> IF o \in live THEN Contents(o) ELSE None],
            writing <- {o \in Owner : guard[o] # None}
IndependentValues == Values!Spec
=============================================================================
