---------------------------- MODULE MCFetchStats ----------------------------
(* Packets on both sides of each limit that the filter has, counted. *)
EXTENDS FetchStats

(* Discarding of unexpected DATA_COMPLETE shreds is switched on at slot 2. *)
MCDiscards(slot) == slot >= 2

Places == [variant : {"data", "code"}, long : {TRUE}, version : {Version}, slot : 0..MaxSlot + 1,
           index : {0, Fec - 1, MaxShreds}, fec_set_index : {0, 1, MaxU32}]

Data(place) ==
    {place @@ [parent_offset |-> offset, complete |-> flags # "none", last |-> flags = "last",
               size_ok |-> TRUE] : offset \in 0..2, flags \in {"none", "complete", "last"}}

Code(place) ==
    {place @@ [num_data |-> n, num_coding |-> Fec, position |-> 0] : n \in {1, Fec}}

Readables == UNION {IF p.variant = "data" THEN Data(p) ELSE Code(p) : p \in Places}

MCPackets ==
    Readables
    \cup {[p EXCEPT !.long = FALSE] : p \in {q \in Readables : q.index = 0 /\ q.slot = 1}}
    \cup {[p EXCEPT !.version = 0] : p \in {q \in Readables : q.index = 0 /\ q.slot = 1}}
=============================================================================
