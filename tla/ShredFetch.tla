----------------------------- MODULE ShredFetch -----------------------------
(***************************************************************************)
(* The way of a packet to a shred: the filter should_discard_shred         *)
(* (lib.rs 747-912), then the parser Shred::new_from_serialized_shred with *)
(* the sanitize checks (lib.rs 392-407, shred_data.rs, shred_code.rs),     *)
(* while the caller's root moves.  The counters of ShredFetchStats, which  *)
(* are only written, are in module FetchStats.                             *)
(*                                                                         *)
(* Widths and limits are scaled down: Fec stands for the 32 shreds of      *)
(* DATA_SHREDS_PER_FEC_BLOCK, MaxShreds for MAX_DATA_SHREDS_PER_SLOT and   *)
(* MAX_CODE_SHREDS_PER_SLOT, MaxU32 for u32::MAX.                          *)
(***************************************************************************)
EXTENDS Naturals, FiniteSets

CONSTANTS
    Fec, MaxShreds, MaxU32,
    Version,                \* shred_version of the cluster
    MaxSlot,                \* max_slot of every call
    Discards(_),            \* discard_unexpected_data_complete_shreds(slot)
    Packets,                \* what may arrive
    MaxHeld                 \* bound: packets and shreds the caller holds

ASSUME FetchAssumption ==
    /\ Fec \in Nat \ {0}
    /\ MaxShreds \in Nat /\ MaxShreds % Fec = 0
    /\ MaxU32 \in Nat /\ MaxShreds <= MaxU32
    /\ MaxSlot \in Nat \ {0}

(* A packet: variant ("code", "data", "legacy", "unknown"), long (it has   *)
(* the payload size of its variant), version, slot, index, fec_set_index;  *)
(* of a data shred also parent_offset, complete and last (the bit of       *)
(* DATA_COMPLETE_SHRED, and the one that LAST_SHRED_IN_SLOT adds to it),   *)
(* size_ok (its size field lies within the payload); of a coding shred     *)
(* num_data, num_coding and position.                                      *)
ASSUME PacketAssumption ==
    \A p \in Packets :
      /\ {p.slot, p.index, p.fec_set_index} \subseteq Nat
      /\ p.variant = "data" =>
           p.parent_offset \in Nat /\ {p.complete, p.last, p.size_ok} \subseteq BOOLEAN
      /\ p.variant = "code" => {p.num_data, p.num_coding, p.position} \subseteq Nat

VARIABLES
    root,       \* the root the caller passes
    buffer,     \* packets that were not discarded
    shreds,     \* packets that have been parsed into shreds
    refused     \* what the parser refused since a packet was kept last

vars == <<root, buffer, shreds, refused>>

-----------------------------------------------------------------------------
(* ShredVariant::try_from: legacy and unknown variant bytes are errors, so *)
(* get_shred_from_buf has no size for them.                                *)
Readable(p) == p.variant \in {"code", "data"} /\ p.long

(* LAST_SHRED_IN_SLOT has both bits, and contains() wants both. *)
last_in_slot(p) == p.variant = "data" /\ p.complete /\ p.last

(* Slip: the parent may be the slot itself. *)
ParentFromRootOn(slot, parent) == root <= parent /\ parent <= slot
verify_shred_slots(slot, parent) ==
    \/ slot = 0 /\ parent = 0 /\ root = 0
    \/ root <= parent /\ parent < slot

(* Slip: the end of the set is not compared. *)
StartsInSet(index, fec_set_index) == index >= fec_set_index /\ fec_set_index % Fec = 0
check_fixed_fec_set(index, fec_set_index) ==
    /\ fec_set_index + Fec <= MaxU32
    /\ index >= fec_set_index /\ index < fec_set_index + Fec
    /\ fec_set_index % Fec = 0

(* Slip: any index may be the last one. *)
AnyLastIndex(index) == TRUE
check_last_data_shred_index(index) == ((index + 1) % (MaxU32 + 1)) % Fec = 0

is_fixed(p) == p.num_data = Fec /\ p.num_coding = Fec

(* DATA_COMPLETE_SHRED away from the end of the set: counted, and          *)
(* discarded where that is switched on for the slot.                       *)
Unexpected(p) ==
    p.complete /\ ~(p.fec_set_index + Fec <= MaxU32 /\ p.index = p.fec_set_index + Fec - 1)

KeepsCode(p) == p.slot > root /\ is_fixed(p)

KeepsData(p) ==
    /\ p.parent_offset <= p.slot
    /\ verify_shred_slots(p.slot, p.slot - p.parent_offset)
    /\ ~(Unexpected(p) /\ Discards(p.slot))
    /\ last_in_slot(p) => check_last_data_shred_index(p.index)

should_discard_shred(p) ==
    ~ /\ Readable(p)
      /\ p.version = Version
      /\ p.slot <= MaxSlot
      /\ p.index < MaxShreds
      /\ IF p.variant = "code" THEN KeepsCode(p) ELSE KeepsData(p)
      /\ check_fixed_fec_set(p.index, p.fec_set_index)

-----------------------------------------------------------------------------
(* Of a shred that was parsed. *)
erasure_shard_index(p) ==
    IF p.variant = "data" THEN p.index - p.fec_set_index ELSE p.num_data + p.position

(* erasure_shard_index(p)? does not fail. *)
HasShardIndex(p) ==
    IF p.variant = "data" THEN p.index >= p.fec_set_index
    ELSE /\ p.num_data > 0 /\ p.fec_set_index + p.num_data - 1 < MaxShreds
         /\ p.num_coding > 0 /\ p.index >= p.position
         /\ p.index - p.position + p.num_coding - 1 < MaxShreds
         /\ p.position < p.num_coding

SaneData(p) ==
    /\ p.last => p.complete
    /\ p.size_ok
    /\ p.parent_offset = 0 => p.slot = 0
    /\ p.parent_offset <= p.slot

SaneCode(p) == p.num_coding <= 8 * Fec

first_coding_index(p) == p.index - p.position

(* Of two parsed coding shreds with one signature. *)
erasure_mismatch(p, q) ==
    \/ p.num_coding # q.num_coding \/ p.num_data # q.num_data
    \/ first_coding_index(p) # first_coding_index(q)

(* cmp_shred_erasure_shard_index(p, q).is_lt(): the order recover puts the *)
(* shreds of a set into.                                                   *)
is_lt(p, q) ==
    IF p.variant = q.variant THEN p.index < q.index ELSE p.variant = "data"

(* Shred::new_from_serialized_shred gives a shred. *)
Parses(p) ==
    /\ Readable(p)
    /\ p.index < MaxShreds
    /\ IF p.variant = "data" THEN SaneData(p) ELSE SaneCode(p)
    /\ HasShardIndex(p)

-----------------------------------------------------------------------------
Init ==
    /\ root = 0
    /\ buffer = {}
    /\ shreds = {}
    /\ refused = {}

(* A packet arrives, and should_discard_shred lets it through. *)
Keep(p) ==
    /\ ~should_discard_shred(p)
    /\ Cardinality(buffer) + Cardinality(shreds) < MaxHeld
    /\ buffer' = buffer \cup {p}
    /\ refused' = {}
    /\ UNCHANGED <<root, shreds>>

(* new_from_serialized_shred on a packet that was let through. *)
Parse(p) ==
    /\ p \in buffer
    /\ buffer' = buffer \ {p}
    /\ \/ Parses(p) /\ shreds' = shreds \cup {p} /\ UNCHANGED refused
       \/ ~Parses(p) /\ refused' = refused \cup {p} /\ UNCHANGED shreds
    /\ UNCHANGED root

(* new_from_serialized_shred on a buffer the filter has not seen: the two  *)
(* are separate functions of the crate.                                    *)
ParseDirectly(p) ==
    /\ ~Parses(p)
    /\ refused' = {p}
    /\ UNCHANGED <<root, buffer, shreds>>

(* The caller passes the shreds on, to recover for instance. *)
HandOver ==
    /\ shreds # {}
    /\ shreds' = {}
    /\ UNCHANGED <<root, buffer, refused>>

(* The caller's root moves; it stays below max_slot (debug_assert, 764). *)
NewRoot ==
    /\ root + 1 < MaxSlot
    /\ root' = root + 1
    /\ UNCHANGED <<buffer, shreds, refused>>

Next ==
    \/ \E p \in Packets : Keep(p)
    \/ \E p \in buffer : Parse(p)
    \/ HandOver \/ NewRoot

Spec == Init /\ [][Next]_vars

(* With callers who use the parser alone. *)
DirectSpec == Init /\ [][Next \/ \E p \in Packets : ParseDirectly(p)]_vars

-----------------------------------------------------------------------------
SameSet(p, q) == p.slot = q.slot /\ p.fec_set_index = q.fec_set_index

(* Two shreds of one erasure set that came through filter and parser fit   *)
(* together in recover (lib.rs 891-903, blockstore_meta.rs 13-16, against  *)
(* merkle.rs 698-727): data shreds lie in the lower half of the set and    *)
(* coding shreds in the upper one, all coding shreds name the same codec,  *)
(* and in the order of the sort each has a place after the one before,     *)
(* without which the fill loop returns InvalidIndex.  The exception are    *)
(* coding shreds whose first coding indices differ, which erasure_mismatch *)
(* tells: the filter does not look at a coding shred's position, and the   *)
(* parser only refuses one above the index, so index 0 and index 1 may     *)
(* both claim position 0, and recover refuses them (merkle.rs 706-707).    *)
FitTogether(p, q) ==
    /\ p.variant = "code" /\ q.variant = "code" =>
         p.num_data = q.num_data /\ p.num_coding = q.num_coding
    /\ is_lt(p, q) =>
         \/ erasure_shard_index(p) < erasure_shard_index(q)
         \/ p.variant = "code" /\ q.variant = "code" /\ erasure_mismatch(p, q)

RecoverableTogether ==
    \A p \in shreds :
      /\ p.variant = "data" => erasure_shard_index(p) \in 0..Fec - 1
      /\ p.variant = "code" => erasure_shard_index(p) \in Fec..2 * Fec - 1
      /\ \A q \in shreds : SameSet(p, q) => FitTogether(p, q)

(* The last shred of a slot ends its erasure set (lib.rs 905-912): no data *)
(* shred of the set comes after it, and the set is full-sized.             *)
LastShredEndsItsSet ==
    \A p \in shreds : last_in_slot(p) =>
      /\ erasure_shard_index(p) = Fec - 1
      /\ \A q \in shreds : SameSet(p, q) /\ q.variant = "data" => q.index <= p.index

(* What the filter lets through, the parser refuses only for what the      *)
(* filter does not look at: a size field or flags that make no sense, or a *)
(* position that is not the index within the set.  Ranges, parents and     *)
(* batch sizes of the parser are all implied.                              *)
FilterCoversParser ==
    \A p \in refused :
      IF p.variant = "data" THEN ~p.size_ok \/ (p.last /\ ~p.complete)
      ELSE p.position # p.index - p.fec_set_index

(* "Accepts shreds in the slot range [root + 1, max_slot]" (lib.rs 754).   *)
AcceptsAboveRootOnly ==
    [][\A p \in buffer' \ buffer : root + 1 <= p.slot /\ p.slot <= MaxSlot]_vars

(* "parse data and coding shreds (legacy + merkle)" (README.md 9): the     *)
(* parser does not refuse a shred for being a legacy one.                  *)
LegacyShredsParse == \A p \in refused : p.variant # "legacy"
=============================================================================
