---------------------------- MODULE PayloadProofs ----------------------------
(***************************************************************************)
(* A payload's guard writes alone, and payloads behave like independent    *)
(* values, for every set of owners, buffers and bytes and every size.      *)
(***************************************************************************)
EXTENDS Payload, TLAPS

-----------------------------------------------------------------------------
(* Who has bytes, and where they are. *)
Placed ==
    \A o \in Owner :
      /\ o \notin live => guard[o] = None
      /\ guard[o] = None => bytes_mut[o] = Empty
      /\ guard[o] # None \/ o \notin live => bytes[o] = Empty
      /\ o \in live => Held(o).buf \in Buffer

(* The range of a guard lies within its bytes. *)
InRange ==
    \A o \in Owner : guard[o] # None =>
      guard[o].from <= guard[o].to /\ guard[o].to <= bytes_mut[o].len

IInv == TypeOK /\ Placed /\ InRange /\ WriterIsAlone

Bytes == [buf : Buffer \cup {None}, len : 0..Size]
Guards == [phase : {"open", "shared"}, from : 0..Size, to : 0..Size]

LEMMA InitIInv == Init => IInv
<1> SUFFICES ASSUME Init PROVE IInv
  OBVIOUS
<1> USE PayloadAssumption DEF Init, Empty
<1>1. TypeOK
  BY DEF TypeOK
<1>2. Placed /\ InRange /\ WriterIsAlone
  BY DEF Placed, InRange, WriterIsAlone, Held
<1> QED
  BY <1>1, <1>2 DEF IInv

LEMMA CreateIInv == ASSUME IInv, NEW o \in Owner, Create(o) PROVE IInv'
<1> USE PayloadAssumption DEF IInv, Empty
<1>1. PICK b \in Free, n \in 0..Size, v \in [0..Size - 1 -> Byte] :
         /\ heap' = [heap EXCEPT ![b] = v]
         /\ bytes' = [bytes EXCEPT ![o] = [buf |-> b, len |-> n]]
  BY DEF Create
<1>2. b \in Buffer /\ \A p \in Owner : ~Refers(p, b)
  BY DEF Free
<1>3. TypeOK'
  BY <1>1, <1>2 DEF TypeOK, Create
<1>4. Placed'
  BY <1>1, <1>2 DEF TypeOK, Create, Placed, Held
<1>5. InRange'
  BY DEF Create, InRange
<1>6. WriterIsAlone'
  BY <1>1, <1>2 DEF Create, WriterIsAlone, TypeOK, Refers, Placed, Held
<1> QED
  BY <1>3, <1>4, <1>5, <1>6

LEMMA CloneIInv == ASSUME IInv, NEW o \in Owner, NEW p \in Owner, Clone(o, p) PROVE IInv'
<1> USE PayloadAssumption DEF IInv, Empty, Idle, Clone
<1>1. TypeOK'
  BY DEF TypeOK
<1>2. Placed'
  BY DEF TypeOK, Placed, Held
<1>3. InRange'
  BY DEF InRange
<1>4. WriterIsAlone'
  BY DEF WriterIsAlone, TypeOK, Refers, Placed, Held
<1> QED
  BY <1>1, <1>2, <1>3, <1>4

LEMMA TruncateIInv ==
    ASSUME IInv, NEW o \in Owner, NEW n \in 0..Size, Truncate(o, n)
    PROVE  IInv'
<1> USE PayloadAssumption DEF IInv, Idle, Truncate
<1>1. TypeOK'
  BY DEF TypeOK
<1>2. Placed'
  BY DEF TypeOK, Placed, Held
<1>3. InRange'
  BY DEF InRange
<1>4. WriterIsAlone'
  BY DEF WriterIsAlone, TypeOK, Refers, Placed
<1> QED
  BY <1>1, <1>2, <1>3, <1>4

(* A range that get_mut accepts ends within the bytes. *)
LEMMA EndFits ==
    ASSUME NEW len \in 0..Size, NEW bound \in Bound, EndInBounds(bound, len)
    PROVE  Behind(bound, len) \in 0..len
BY PayloadAssumption DEF Bound, EndInBounds, Behind

LEMMA TakeIInv ==
    ASSUME IInv, NEW o \in Owner, NEW from \in 0..Size, NEW bound \in Bound, Take(o, from, bound)
    PROVE  IInv'
<1> USE PayloadAssumption DEF IInv, Idle
<1> DEFINE to == Behind(bound, bytes[o].len)
           g == [phase |-> IF Unique(o) THEN "open" ELSE "shared", from |-> from, to |-> to]
<1>1. bytes[o].len \in 0..Size
  BY DEF TypeOK
<1>2. to \in 0..bytes[o].len /\ to \in 0..Size
  BY <1>1, EndFits DEF Take
<1> HIDE DEF to
<1>3. g \in Guards /\ g # None /\ g.from <= g.to /\ g.to <= bytes[o].len
  BY <1>1, <1>2 DEF Take, Guards, to
<1>4. g.phase = "open" => Unique(o)
  OBVIOUS
<1>5. guard' = [guard EXCEPT ![o] = g]
  BY DEF Take, to
<1> HIDE DEF g
<1>6. TypeOK'
  BY <1>3, <1>5 DEF TypeOK, Take, Guards, Empty
<1>7. Placed'
  BY <1>3, <1>5 DEF Placed, Take, TypeOK, Held
<1>8. InRange'
  BY <1>3, <1>5 DEF InRange, Take, TypeOK
<1>9. WriterIsAlone'
  BY <1>3, <1>4, <1>5 DEF WriterIsAlone, Take, TypeOK, Placed, Held, Refers, Unique, Empty
<1> QED
  BY <1>6, <1>7, <1>8, <1>9

(* What a copy leaves in its new buffer. *)
Copied(o, b) == [i \in 0..Size - 1 |->
                   IF i < bytes_mut[o].len THEN heap[bytes_mut[o].buf][i] ELSE heap[b][i]]

LEMMA CopySteps ==
    ASSUME IInv, NEW o \in Owner, Copy(o)
    PROVE  \E b \in Buffer :
             /\ \A p \in Owner : ~Refers(p, b)
             /\ o \in live
             /\ bytes_mut[o].buf \in Buffer
             /\ heap' = [heap EXCEPT ![b] = Copied(o, b)]
             /\ bytes_mut' = [bytes_mut EXCEPT ![o].buf = b]
<1> USE DEF IInv
<1>1. PICK b \in Free :
        /\ heap' = [heap EXCEPT ![b] = [i \in 0..Size - 1 |->
                      IF i < bytes_mut[o].len THEN heap[bytes_mut[o].buf][i] ELSE @[i]]]
        /\ bytes_mut' = [bytes_mut EXCEPT ![o].buf = b]
  BY DEF Copy
<1>2. b \in Buffer /\ \A p \in Owner : ~Refers(p, b)
  BY DEF Free
<1>3. heap' = [heap EXCEPT ![b] = Copied(o, b)]
  BY <1>1, <1>2 DEF TypeOK, Copied
<1>4. o \in live /\ bytes_mut[o].buf \in Buffer
  BY DEF Copy, Placed, Held
<1> QED
  BY <1>1, <1>2, <1>3, <1>4

LEMMA CopyIInv == ASSUME IInv, NEW o \in Owner, Copy(o) PROVE IInv'
<1> USE PayloadAssumption DEF IInv
<1>1. PICK b \in Buffer :
             /\ \A p \in Owner : ~Refers(p, b)
             /\ o \in live
             /\ bytes_mut[o].buf \in Buffer
             /\ heap' = [heap EXCEPT ![b] = Copied(o, b)]
             /\ bytes_mut' = [bytes_mut EXCEPT ![o].buf = b]
  BY CopySteps
<1>2. Copied(o, b) \in [0..Size - 1 -> Byte]
  <2>1. heap[bytes_mut[o].buf] \in [0..Size - 1 -> Byte] /\ heap[b] \in [0..Size - 1 -> Byte]
    BY <1>1 DEF TypeOK
  <2> QED
    BY <2>1 DEF Copied
<1>3. TypeOK'
  <2>1. heap' \in [Buffer -> [0..Size - 1 -> Byte]]
    BY <1>1, <1>2 DEF TypeOK
  <2>2. bytes_mut' \in [Owner -> [buf : Buffer \cup {None}, len : 0..Size]]
    BY <1>1 DEF TypeOK
  <2>3. guard[o] \in Guards
    BY DEF TypeOK, Copy, Guards
  <2>4. guard' \in [Owner -> {None} \cup Guards]
    BY <2>3 DEF TypeOK, Copy, Guards
  <2> QED
    BY <2>1, <2>2, <2>4 DEF TypeOK, Copy, Guards
<1>4. Placed'
  <2> SUFFICES ASSUME NEW p \in Owner
               PROVE  /\ p \notin live => guard'[p] = None
                      /\ guard'[p] = None => bytes_mut'[p] = Empty
                      /\ guard'[p] # None \/ p \notin live => bytes[p] = Empty
                      /\ p \in live => Held(p)'.buf \in Buffer
    BY DEF Placed, Copy
  <2>1. CASE p = o
    <3>1. guard'[o] # None
      BY DEF TypeOK, Copy
    <3>2. bytes_mut'[o].buf = b
      BY <1>1 DEF TypeOK
    <3>3. bytes[o] = Empty
      BY DEF Placed, Copy
    <3> QED
      BY <1>1, <2>1, <3>1, <3>2, <3>3 DEF Held
  <2>2. CASE p # o
    <3>1. guard'[p] = guard[p] /\ bytes_mut'[p] = bytes_mut[p] /\ bytes'[p] = bytes[p]
      BY <1>1, <2>2 DEF TypeOK, Copy
    <3> QED
      BY <3>1 DEF Placed, Held, Copy
  <2> QED
    BY <2>1, <2>2
<1>5. InRange'
  BY <1>1 DEF TypeOK, Copy, InRange
<1>6. WriterIsAlone'
  BY <1>1 DEF TypeOK, Copy, WriterIsAlone, Refers, Placed
<1> QED
  BY <1>3, <1>4, <1>5, <1>6

LEMMA WriteByteIInv ==
    ASSUME IInv, NEW o \in Owner, NEW i \in 0..Size - 1, NEW b \in Byte, WriteByte(o, i, b)
    PROVE  IInv'
<1> USE PayloadAssumption DEF IInv, WriteByte
<1>1. TypeOK'
  BY DEF TypeOK
<1>2. Placed' /\ InRange'
  BY DEF Placed, Held, InRange
<1>3. WriterIsAlone'
  BY DEF WriterIsAlone, Refers
<1> QED
  BY <1>1, <1>2, <1>3

LEMMA ReleaseIInv == ASSUME IInv, NEW o \in Owner, Release(o) PROVE IInv'
<1> USE PayloadAssumption DEF IInv, Release, GivenBack, Empty
<1>1. TypeOK'
  BY DEF TypeOK
<1>2. Placed'
  BY DEF TypeOK, Placed, Held
<1>3. InRange'
  BY DEF TypeOK, InRange
<1>4. WriterIsAlone'
  BY DEF WriterIsAlone, Refers, TypeOK, Placed, Held
<1> QED
  BY <1>1, <1>2, <1>3, <1>4

LEMMA DropIInv == ASSUME IInv, NEW o \in Owner, Drop(o) PROVE IInv'
<1> USE PayloadAssumption DEF IInv, Drop, Idle, Empty
<1>1. TypeOK'
  BY DEF TypeOK
<1>2. Placed'
  BY DEF TypeOK, Placed, Held
<1>3. InRange'
  BY DEF InRange
<1>4. WriterIsAlone'
  BY DEF WriterIsAlone, Refers, TypeOK, Placed, Held
<1> QED
  BY <1>1, <1>2, <1>3, <1>4

LEMMA NextIInv == IInv /\ [Next]_vars => IInv'
<1> SUFFICES ASSUME IInv, [Next]_vars PROVE IInv'
  OBVIOUS
<1>1. CASE Next
  BY <1>1, CreateIInv, CopyIInv, ReleaseIInv, DropIInv, CloneIInv, TruncateIInv, TakeIInv, WriteByteIInv
     DEF Next
<1>2. CASE UNCHANGED vars
  BY <1>2 DEF vars, IInv, TypeOK, Placed, Held, InRange, WriterIsAlone, Refers
<1> QED
  BY <1>1, <1>2

LEMMA InvAlways == Spec => []IInv
BY InitIInv, NextIInv, PTL DEF Spec

(* Types of the variables (payload.rs). *)
THEOREM Typed == Spec => []TypeOK
BY InvAlways, PTL DEF IInv

(* A range that get_mut accepts ends within the payload, for every size    *)
(* and wherever truncate has cut it (payload.rs 28-43).                    *)
THEOREM RangesFit == Spec => []RangeInBytes
<1>1. IInv => RangeInBytes
  BY DEF IInv, InRange, RangeInBytes
<1> QED
  BY <1>1, InvAlways, PTL

(* A guard that may be written through shares its buffer with nobody       *)
(* (payload.rs 126-133).                                                   *)
THEOREM AloneWhileWriting == Spec => []WriterIsAlone
BY InvAlways, PTL DEF IInv

-----------------------------------------------------------------------------
(* The refinement: each owner's value. *)
Value == [o \in Owner |-> IF o \in live THEN Contents(o) ELSE None]
Writing == {o \in Owner : guard[o] # None}

LEMMA ContentsType ==
    ASSUME IInv, NEW o \in live
    PROVE  /\ o \in Owner
           /\ Held(o).len \in 0..Size
           /\ Held(o).buf \in Buffer
           /\ Contents(o) \in [0..Held(o).len - 1 -> Byte]
           /\ Contents(o) # None
<1> USE PayloadAssumption DEF IInv
<1>1. o \in Owner
  BY DEF TypeOK
<1>2. Held(o).len \in 0..Size
  BY <1>1 DEF Held, TypeOK
<1>3. Held(o).buf \in Buffer
  BY <1>1 DEF Placed
<1>4. heap[Held(o).buf] \in [0..Size - 1 -> Byte]
  BY <1>3 DEF TypeOK
<1>5. Contents(o) \in [0..Held(o).len - 1 -> Byte]
  BY <1>2, <1>4 DEF Contents
<1>6. Contents(o) # None
  BY <1>2, <1>5
<1> QED
  BY <1>1, <1>2, <1>3, <1>5, <1>6

(* Whose view stays and whose bytes stay keeps his contents. *)
LEMMA SameContents ==
    ASSUME IInv, NEW o \in live, Held(o)' = Held(o),
           \A i \in 0..Held(o).len - 1 : heap'[Held(o).buf][i] = heap[Held(o).buf][i]
    PROVE  Contents(o)' = Contents(o)
BY DEF Contents

(* The value of one owner is replaced. *)
LEMMA OneChange ==
    ASSUME NEW o \in Owner, NEW v,
           Value'[o] = v,
           \A p \in Owner \ {o} : Value'[p] = Value[p]
    PROVE  Value' = [Value EXCEPT ![o] = v]
<1>1. Value' = [p \in Owner |-> Value'[p]]
  BY DEF Value
<1>2. Value = [p \in Owner |-> Value[p]]
  BY DEF Value
<1> HIDE DEF Value
<1> QED
  BY <1>1, <1>2

LEMMA NoChange ==
    ASSUME \A p \in Owner : Value'[p] = Value[p]
    PROVE  Value' = Value
<1>1. Value' = [p \in Owner |-> Value'[p]]
  BY DEF Value
<1>2. Value = [p \in Owner |-> Value[p]]
  BY DEF Value
<1> HIDE DEF Value
<1> QED
  BY <1>1, <1>2

(* An owner whose variables stay, and whose buffer is not written, keeps   *)
(* its value.                                                              *)
LEMMA Bystander ==
    ASSUME IInv, NEW p \in Owner,
           p \in live' <=> p \in live,
           p \in live => /\ Held(p)' = Held(p)
                         /\ heap'[Held(p).buf] = heap[Held(p).buf]
    PROVE  Value'[p] = Value[p]
<1>1. CASE p \in live
  BY <1>1, SameContents DEF Value
<1>2. CASE p \notin live
  BY <1>2 DEF Value
<1> QED
  BY <1>1, <1>2

(* An idle owner has a value and no guard. *)
LEMMA IdleValue == ASSUME IInv, NEW o \in Owner, Idle(o) PROVE Values!Idle(o)
BY ContentsType DEF Idle, Values!Idle, Value, Writing

LEMMA CreateValue ==
    ASSUME IInv, IInv', NEW o \in Owner, Create(o)
    PROVE  Values!Create(o)
<1> USE PayloadAssumption
<1>1. PICK b \in Free, n \in 0..Size, v \in [0..Size - 1 -> Byte] :
         /\ heap' = [heap EXCEPT ![b] = v]
         /\ bytes' = [bytes EXCEPT ![o] = [buf |-> b, len |-> n]]
  BY DEF Create
<1>2. b \in Buffer /\ \A p \in Owner : ~Refers(p, b)
  BY DEF Free
<1>3. Value[o] = None
  BY DEF Create, Value
<1>4. Held(o)' = [buf |-> b, len |-> n]
  BY <1>1 DEF Create, IInv, Placed, Held, TypeOK
<1>5. Value'[o] \in [0..n - 1 -> Byte]
  <2>1. heap'[b] = v
    BY <1>1, <1>2 DEF IInv, TypeOK
  <2>2. Contents(o)' = [i \in 0..n - 1 |-> v[i]]
    BY <1>4, <2>1 DEF Contents
  <2> QED
    BY <2>2 DEF Value, Create
<1>6. ASSUME NEW p \in Owner \ {o} PROVE Value'[p] = Value[p]
  <2>1. Held(p)' = Held(p)
    BY <1>1 DEF Create, Held, IInv, TypeOK
  <2>2. p \in live => Held(p).buf # b
    BY <1>2 DEF Held, Refers
  <2> QED
    BY <1>1, <1>2, <2>1, <2>2, Bystander DEF Create, IInv, TypeOK, Placed
<1>7. Value' = [Value EXCEPT ![o] = Value'[o]]
  BY <1>6, OneChange
<1> QED
  BY <1>3, <1>5, <1>7 DEF Values!Create, Value, Writing, Create

LEMMA CloneValue ==
    ASSUME IInv, IInv', NEW o \in Owner, NEW p \in Owner, Clone(o, p)
    PROVE  Values!Clone(o, p)
<1>1. Values!Idle(o)
  BY IdleValue DEF Clone
<1>2. Value[p] = None
  BY DEF Clone, Value
<1>3. Held(p)' = Held(o) /\ guard[p] = None
  BY DEF Clone, Idle, Held, IInv, TypeOK, Placed
<1>4. Value'[p] = Value[o]
  BY <1>3 DEF Clone, Idle, Value, Contents
<1>5. ASSUME NEW q \in Owner \ {p} PROVE Value'[q] = Value[q]
  BY Bystander DEF Clone, Held, IInv, TypeOK
<1>6. Value' = [Value EXCEPT ![p] = Value[o]]
  BY <1>4, <1>5, OneChange
<1> QED
  BY <1>1, <1>2, <1>6 DEF Values!Clone, Value, Writing, Clone

LEMMA TruncateValue ==
    ASSUME IInv, IInv', NEW o \in Owner, NEW n \in 0..Size, Truncate(o, n)
    PROVE  Values!Truncate(o)
<1> USE PayloadAssumption
<1>1. o \in live /\ Value[o] = Contents(o)
  BY DEF Truncate, Idle, Value
<1>2. Value[o] # None /\ Contents(o) \in [0..Held(o).len - 1 -> Byte] /\ Held(o).len \in 0..Size
  BY <1>1, ContentsType
<1>3. Held(o) = bytes[o] /\ Held(o)' = [bytes[o] EXCEPT !.len = n]
  BY DEF Truncate, Idle, Held, IInv, TypeOK
<1>4. Held(o)'.buf = Held(o).buf /\ Held(o)'.len = n /\ n <= Held(o).len
  BY <1>3 DEF Truncate, IInv, TypeOK
<1>5. Value'[o] = [i \in 0..n - 1 |-> Value[o][i]]
  BY <1>1, <1>2, <1>4 DEF Truncate, Value, Contents
<1>6. ASSUME NEW q \in Owner \ {o} PROVE Value'[q] = Value[q]
  BY Bystander DEF Truncate, Held, IInv, TypeOK
<1>7. Value' = [Value EXCEPT ![o] = [i \in 0..n - 1 |-> Value[o][i]]]
  BY <1>5, <1>6, OneChange
<1>8. Value' = [Value EXCEPT ![o] = [i \in 0..n - 1 |-> @[i]]]
  BY <1>7
<1>9. 0..n - 1 \subseteq DOMAIN Value[o]
  BY <1>1, <1>2, <1>4
<1> QED
  BY IdleValue, <1>8, <1>9 DEF Values!Truncate, Value, Writing, Truncate

LEMMA TakeValue ==
    ASSUME IInv, IInv', NEW o \in Owner, NEW from \in 0..Size, NEW bound \in Bound,
           Take(o, from, bound)
    PROVE  Values!Open(o)
<1>1. guard'[o] # None
  <2>1. bytes[o].buf \in Buffer /\ bytes_mut'[o] = bytes[o]
    BY DEF Take, Idle, IInv, TypeOK, Placed, Held
  <2>2. bytes_mut'[o] # Empty
    BY <2>1, PayloadAssumption DEF Empty
  <2> QED
    BY <2>2 DEF IInv, Placed, Empty
<1>2. ASSUME NEW p \in Owner PROVE Held(p)' = Held(p)
  BY <1>1 DEF Take, Idle, Held, IInv, TypeOK
<1>3. Value' = Value
  BY <1>2, Bystander, NoChange DEF Take
<1>4. Writing' = Writing \cup {o}
  BY <1>1 DEF Writing, Take, IInv, TypeOK
<1> QED
  BY <1>3, <1>4, IdleValue DEF Values!Open, Take, Value, Writing

LEMMA CopyValue ==
    ASSUME IInv, IInv', NEW o \in Owner, Copy(o)
    PROVE  Value' = Value /\ Writing' = Writing
<1> USE PayloadAssumption
<1>1. PICK b \in Buffer :
             /\ \A p \in Owner : ~Refers(p, b)
             /\ o \in live
             /\ bytes_mut[o].buf \in Buffer
             /\ heap' = [heap EXCEPT ![b] = Copied(o, b)]
             /\ bytes_mut' = [bytes_mut EXCEPT ![o].buf = b]
  BY CopySteps
<1>2. guard[o] # None /\ guard'[o] # None
  <2>1. guard[o] # None /\ guard[o] \in Guards
    BY DEF Copy, IInv, TypeOK, Guards
  <2>2. guard'[o] \in Guards
    BY <2>1 DEF Copy, IInv, TypeOK, Guards
  <2> QED
    BY <2>1, <2>2 DEF Guards
<1>3. Value'[o] = Value[o]
  <2>2. Held(o) = bytes_mut[o] /\ Held(o)' = bytes_mut'[o]
    BY <1>2 DEF Held
  <2>3. Held(o)'.len = Held(o).len /\ Held(o)'.buf = b
    BY <1>1, <2>2 DEF IInv, TypeOK
  <2>4. Held(o).len \in 0..Size
    BY <1>1, ContentsType
  <2>5. \A i \in 0..Held(o).len - 1 : heap'[b][i] = heap[Held(o).buf][i]
    BY <1>1, <2>2, <2>4 DEF Copied, IInv, TypeOK
  <2>6. Contents(o)' = Contents(o)
    BY <2>3, <2>5 DEF Contents
  <2> QED
    BY <1>1, <2>6 DEF Value, Copy
<1>4. ASSUME NEW p \in Owner \ {o} PROVE Value'[p] = Value[p]
  <2>1. Held(p)' = Held(p)
    BY <1>1 DEF Copy, Held, IInv, TypeOK
  <2>2. Held(p).buf # b
    BY <1>1 DEF Held, Refers
  <2> QED
    BY <1>1, <2>1, <2>2, Bystander DEF Copy, IInv, TypeOK, Placed
<1>5. Writing' = Writing
  BY <1>2 DEF Writing, Copy, IInv, TypeOK
<1> QED
  BY <1>3, <1>4, <1>5, NoChange

LEMMA WriteByteValue ==
    ASSUME IInv, IInv', NEW o \in Owner, NEW i \in 0..Size - 1, NEW b \in Byte,
           WriteByte(o, i, b)
    PROVE  Values!Write(o)
<1> USE PayloadAssumption
<1>1. o \in live /\ Value[o] = Contents(o)
  BY DEF WriteByte, IInv, Placed, Value
<1>2. /\ Value[o] # None
      /\ Contents(o) \in [0..Held(o).len - 1 -> Byte]
      /\ Held(o).len \in 0..Size
      /\ Held(o).buf \in Buffer
  BY <1>1, ContentsType
<1>3. Held(o) = bytes_mut[o] /\ Held(o)' = Held(o)
  BY DEF WriteByte, Held
<1>4. i \in 0..Held(o).len - 1
  <2>1. guard[o].to <= bytes_mut[o].len /\ guard[o].to \in 0..Size
    BY DEF WriteByte, IInv, InRange, TypeOK
  <2> QED
    BY <1>2, <1>3, <2>1 DEF WriteByte
<1>5. heap'[Held(o).buf] = [heap[Held(o).buf] EXCEPT ![i] = b]
  BY <1>2, <1>3 DEF WriteByte, IInv, TypeOK
<1>6. heap[Held(o).buf] \in [0..Size - 1 -> Byte]
  BY <1>2 DEF IInv, TypeOK
<1>7. Contents(o)' = [Contents(o) EXCEPT ![i] = b]
  <2>1. Contents(o)' = [j \in 0..Held(o).len - 1 |-> heap'[Held(o).buf][j]]
    BY <1>3 DEF Contents
  <2>2. \A j \in 0..Held(o).len - 1 :
          heap'[Held(o).buf][j] = IF j = i THEN b ELSE heap[Held(o).buf][j]
    BY <1>2, <1>5, <1>6
  <2>3. Contents(o) = [j \in 0..Held(o).len - 1 |-> heap[Held(o).buf][j]]
    BY DEF Contents
  <2> QED
    BY <1>4, <2>1, <2>2, <2>3
<1>8. Value'[o] = [Value[o] EXCEPT ![i] = b]
  BY <1>1, <1>7 DEF Value, WriteByte
<1>9. ASSUME NEW p \in Owner \ {o} PROVE Value'[p] = Value[p]
  <2>1. Held(p)' = Held(p)
    BY DEF WriteByte, Held
  <2>2. Held(p).buf # bytes_mut[o].buf
    BY DEF WriteByte, IInv, WriterIsAlone, Refers, Held
  <2> QED
    BY <2>1, <2>2, Bystander DEF WriteByte, IInv, TypeOK, Placed
<1>10. Value' = [Value EXCEPT ![o] = [Value[o] EXCEPT ![i] = b]]
  BY <1>8, <1>9, OneChange
<1>11. Value' = [Value EXCEPT ![o][i] = b]
  BY <1>10
<1>12. i \in DOMAIN Value[o]
  BY <1>1, <1>2, <1>4
<1> QED
  BY <1>11, <1>12 DEF Values!Write, Value, Writing, WriteByte

LEMMA ReleaseValue ==
    ASSUME IInv, IInv', NEW o \in Owner, Release(o)
    PROVE  Values!Close(o)
<1>1. ASSUME NEW p \in Owner PROVE Held(p)' = Held(p)
  BY DEF Release, GivenBack, Held, IInv, TypeOK
<1>2. Value' = Value
  BY <1>1, Bystander, NoChange DEF Release
<1>3. o \in Writing /\ Writing' = Writing \ {o}
  BY DEF Writing, Release, IInv, TypeOK
<1> QED
  BY <1>2, <1>3 DEF Values!Close, Value, Writing

LEMMA DropValue ==
    ASSUME IInv, IInv', NEW o \in Owner, Drop(o)
    PROVE  Values!Drop(o)
<1>1. Value'[o] = None
  BY DEF Drop, Value
<1>2. ASSUME NEW p \in Owner \ {o} PROVE Value'[p] = Value[p]
  BY Bystander DEF Drop, Held, IInv, TypeOK
<1> QED
  BY <1>1, <1>2, OneChange, IdleValue DEF Values!Drop, Value, Writing, Drop

(* Sharing is invisible: clones, guards and copies in any order behave     *)
(* like independent values (payload.rs 12, 24-43, 126-141).                *)
THEOREM Refinement == Spec => IndependentValues
<1>1. Init => Values!Init
  BY DEF Init, Values!Init
<1>2. IInv /\ IInv' /\ [Next]_vars => [Values!Next]_<<Value, Writing>>
  <2> SUFFICES ASSUME IInv, IInv', [Next]_vars
               PROVE  Values!Next \/ (Value' = Value /\ Writing' = Writing)
    OBVIOUS
  <2>1. ASSUME UNCHANGED vars PROVE Value' = Value /\ Writing' = Writing
    BY <2>1 DEF vars, Value, Writing, Contents, Held
  <2>2. ASSUME NEW o \in Owner, Create(o) \/ Release(o) \/ Drop(o) PROVE Values!Next
    BY <2>2, CreateValue, ReleaseValue, DropValue DEF Values!Next
  <2>3. ASSUME NEW o \in Owner, Copy(o) PROVE Value' = Value /\ Writing' = Writing
    BY <2>3, CopyValue
  <2>4. ASSUME NEW o \in Owner, NEW p \in Owner, Clone(o, p) PROVE Values!Next
    BY <2>4, CloneValue DEF Values!Next
  <2>5. ASSUME NEW o \in Owner, NEW n \in 0..Size, Truncate(o, n) PROVE Values!Next
    BY <2>5, TruncateValue DEF Values!Next
  <2>6. ASSUME NEW o \in Owner, NEW from \in 0..Size, NEW bound \in Bound, Take(o, from, bound)
        PROVE  Values!Next
    BY <2>6, TakeValue DEF Values!Next
  <2>7. ASSUME NEW o \in Owner, NEW i \in 0..Size - 1, NEW b \in Byte, WriteByte(o, i, b)
        PROVE  Values!Next
    BY <2>7, WriteByteValue DEF Values!Next
  <2> QED
    BY <2>1, <2>2, <2>3, <2>4, <2>5, <2>6, <2>7 DEF Next
<1> QED
  BY <1>1, <1>2, InvAlways, PTL DEF Spec, IndependentValues, Values!Spec, Value, Writing
=============================================================================
