----------------------------- MODULE ProcessStats -----------------------------
(***************************************************************************)
(* ProcessShredsStats (stats.rs 10-35, 63-89, 106-155): workers record the *)
(* batches and shreds they make, add their statistics up with `+=`, and    *)
(* submit the sum, which resets it.  The fields that callers write         *)
(* themselves are all alike in the code; `elapsed` stands for them.        *)
(***************************************************************************)
EXTENDS Naturals, Sequences, FiniteSets, FiniteSetsExt

CONSTANTS
    Worker,
    UsizeBits,  \* usize::BITS
    Sizes,      \* numbers of data shreds that are recorded
    MaxEvents   \* bound: recorded events that are not reset or submitted yet

(* How many bits it takes to write a number down. *)
BitLength[n \in Nat] == IF n = 0 THEN 0 ELSE 1 + BitLength[n \div 2]

ASSUME WidthAssumption ==
    /\ UsizeBits \in Nat /\ Sizes \subseteq Nat
    /\ \A n \in Sizes : BitLength[n] <= UsizeBits

VARIABLES
    recorded,   \* recorded[w]: the statistics of a worker
    total,      \* their sum
    log,        \* history: what was recorded in recorded[w] since its reset
    totalLog    \* history: what was in the statistics added to total, each time

processVars == <<recorded, total, log, totalLog>>

Buckets == 5

Default ==
    [hist |-> [i \in 0..Buckets - 1 |-> 0], data |-> 0, coding |-> 0, elapsed |-> 0]

leading_zeros(n) == UsizeBits - BitLength[n]

saturating_sub(a, b) == IF a < b THEN 0 ELSE a - b
AtMost(a, b) == IF a < b THEN a ELSE b

(* The bucket of record_num_data_shreds.  Slip: without the subtraction. *)
UnshiftedBucket(n) == AtMost(UsizeBits - leading_zeros(n), Buckets - 1)
Bucket(n) == AtMost(saturating_sub(UsizeBits - leading_zeros(n), 3), Buckets - 1)

(* add_assign, field by field.  Slip: the histogram is copied instead.     *)
HistogramCopied(a, b) ==
    [hist |-> b.hist, data |-> a.data + b.data, coding |-> a.coding + b.coding,
     elapsed |-> a.elapsed + b.elapsed]
add_assign(a, b) ==
    [hist |-> [i \in 0..Buckets - 1 |-> a.hist[i] + b.hist[i]],
     data |-> a.data + b.data, coding |-> a.coding + b.coding,
     elapsed |-> a.elapsed + b.elapsed]

-----------------------------------------------------------------------------
ProcessInit ==
    /\ recorded = [w \in Worker |-> Default] /\ total = Default
    /\ log = [w \in Worker |-> <<>>] /\ totalLog = <<>>

Room == Len(totalLog) + MapThenSumSet(LAMBDA v : Len(log[v]), Worker) < MaxEvents

(* An event is a number of data shreds, a type of shred, or "elapsed". *)
Event(n, type) == [size |-> n, type |-> type]

Note(w, event) ==
    /\ Room
    /\ log' = [log EXCEPT ![w] = Append(@, event)]
    /\ UNCHANGED <<total, totalLog>>

record_num_data_shreds(w, n) ==
    /\ recorded' = [recorded EXCEPT ![w].hist[Bucket(n)] = @ + 1]
    /\ Note(w, Event(n, "size"))

record_shred(w, type) ==
    /\ recorded' = IF type = "coding" THEN [recorded EXCEPT ![w].coding = @ + 1]
                   ELSE [recorded EXCEPT ![w].data = @ + 1]
    /\ Note(w, Event(0, type))

Elapse(w) ==
    /\ recorded' = [recorded EXCEPT ![w].elapsed = @ + 1]
    /\ Note(w, Event(0, "elapsed"))

(* total += recorded[w].  The worker's statistics are copied and stay as   *)
(* they are: added once more, they count once more.                        *)
Add(w) ==
    /\ Len(totalLog) + Len(log[w]) <= MaxEvents
    /\ total' = add_assign(total, recorded[w])
    /\ totalLog' = totalLog \o log[w]
    /\ UNCHANGED <<recorded, log>>

(* The caller gives a worker new statistics, after it has added the old    *)
(* ones or instead.                                                        *)
BeginAnew(w) ==
    /\ recorded' = [recorded EXCEPT ![w] = Default]
    /\ log' = [log EXCEPT ![w] = <<>>]
    /\ UNCHANGED <<total, totalLog>>

submit ==
    /\ total' = Default /\ totalLog' = <<>>
    /\ UNCHANGED <<recorded, log>>

ProcessNext ==
    \/ \E w \in Worker :
         \/ \E n \in Sizes : record_num_data_shreds(w, n)
         \/ \E type \in {"data", "coding"} : record_shred(w, type)
         \/ Elapse(w) \/ Add(w) \/ BeginAnew(w)
    \/ submit

ProcessSpec == ProcessInit /\ [][ProcessNext]_processVars

-----------------------------------------------------------------------------
(* The sizes that bucket i is for: below 8, from 8, 16, 32, and from 64.   *)
SizesOf(i) ==
    {n \in Sizes :
       CASE i = 0 -> n < 8
         [] i = 1 -> 8 <= n /\ n < 16
         [] i = 2 -> 16 <= n /\ n < 32
         [] i = 3 -> 32 <= n /\ n < 64
         [] i = 4 -> 64 <= n}

(* How often one of these events is in a log. *)
Count(events, these) == Cardinality({i \in DOMAIN events : events[i] \in these})

AccountFor(s, events) ==
    /\ \A i \in 0..Buckets - 1 : s.hist[i] = Count(events, {Event(n, "size") : n \in SizesOf(i)})
    /\ s.data = Count(events, {Event(0, "data")})
    /\ s.coding = Count(events, {Event(0, "coding")})
    /\ s.elapsed = Count(events, {Event(0, "elapsed")})

(* In whatever order workers record, add their statistics, go on with them *)
(* or begin anew, and submit: an event is in the sum, in its own field, as *)
(* often as statistics that had it were added (stats.rs 106-155).  Adding  *)
(* them only once is up to the caller.                                     *)
TotalAccountsForAll == AccountFor(total, totalLog)

(* The histogram has every batch in the bucket of its size: the bit count, *)
(* the saturating subtraction and the clamp (stats.rs 74-79) put sizes on  *)
(* both sides of a power of two where they belong.                         *)
WorkersAccountForTheirs == \A w \in Worker : AccountFor(recorded[w], log[w])
=============================================================================
