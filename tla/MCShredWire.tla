----------------------------- MODULE MCShredWire -----------------------------
(* Competing blocks for one erasure set: one whose shreds relays sign, one *)
(* they do not, with another proof size and more coding shreds.            *)
EXTENDS ShredWire

MCBlocks ==
    {[signature |-> "a", proof_size |-> 3, resigned |-> TRUE, num_data |-> 1, num_coding |-> 2],
     [signature |-> "b", proof_size |-> 0, resigned |-> FALSE, num_data |-> 2, num_coding |-> 1]}

MCBufferSizes == {64, 80, 1203, 1228, 1232}
=============================================================================
