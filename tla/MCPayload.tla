------------------------------ MODULE MCPayload ------------------------------
(* Payloads of two bytes at most; with as many buffers as owners one is always free for a copy. *)
EXTENDS Payload, TLC

Interchangeable == Permutations(Owner) \cup Permutations(Buffer) \cup Permutations(Byte)
=============================================================================
