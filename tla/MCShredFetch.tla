---------------------------- MODULE MCShredFetch ----------------------------
(* Packets with every combination of the header fields that the filter and *)
(* the parser look at, on both sides of each limit.                        *)
EXTENDS ShredFetch

(* Discarding of unexpected DATA_COMPLETE shreds is switched on at slot 2. *)
MCDiscards(slot) == slot >= 2

Slots == 0..MaxSlot + 1
Indices == (0..MaxShreds) \cup {MaxU32}
SetIndices == 0..Fec \cup {MaxU32}

Data ==
    [variant : {"data"}, long : {TRUE}, version : {Version}, slot : Slots, index : Indices,
     fec_set_index : SetIndices, parent_offset : 0..2, complete : BOOLEAN, last : BOOLEAN,
     size_ok : {TRUE}]

Code ==
    [variant : {"code"}, long : {TRUE}, version : {Version}, slot : Slots, index : Indices,
     fec_set_index : SetIndices, num_data : {1, Fec}, num_coding : {Fec},
     position : 0..Fec]

(* Packets that the remaining checks are for. *)
Odd ==
    [variant : {"data"}, long : {TRUE}, version : {Version}, slot : {1}, index : {0, 1},
     fec_set_index : {0}, parent_offset : {1}, complete : {FALSE}, last : {FALSE},
     size_ok : {FALSE}]
    \cup
    [variant : {"code"}, long : {TRUE}, version : {Version}, slot : {1}, index : {0, 1},
     fec_set_index : {0}, num_data : {Fec}, num_coding : {0, 1, 8 * Fec + 1}, position : 0..Fec]
    \cup
    [variant : {"data"}, long : {FALSE}, version : {Version}, slot : {1}, index : {0},
     fec_set_index : {0}, parent_offset : {1}, complete : {FALSE}, last : {FALSE}, size_ok : {TRUE}]
    \cup
    [variant : {"data", "legacy", "unknown"}, long : {TRUE}, version : {Version, Version + 1},
     slot : {1}, index : {0}, fec_set_index : {0}, parent_offset : {1}, complete : {FALSE},
     last : {FALSE}, size_ok : {TRUE}]

MCPackets == Data \cup Code \cup Odd
=============================================================================
