------------------------------ MODULE FetchStats ------------------------------
(***************************************************************************)
(* The counters that should_discard_shred keeps of its packets (lib.rs     *)
(* 756-889), and ShredFetchStats::maybe_submit, which resets them from     *)
(* time to time (stats.rs 37-61, 91-103).  The checks are modelled in the  *)
(* order of the code, each with its counter; ShredFetch has them as one    *)
(* condition.  Counters the caller alone writes are left out, and so are   *)
(* those of fields that cannot be read, which a buffer of the full size    *)
(* does not reach.  What is kept is handed on at once.                     *)
(***************************************************************************)
EXTENDS ShredFetch, SequencesExt

CONSTANTS
    Cadence,    \* the interval the caller passes to maybe_submit
    MaxCalls,   \* bound: packets between two submissions
    MaxNow,     \* bound: the clock
    Never       \* since = None

VARIABLES
    stats,      \* stats[c]: the counter c
    since,      \* ShredFetchStats.since
    now,        \* the clock
    seen,       \* history: kept and discarded packets since the last reset
    submitted   \* history: the time of the last reset, or Never

statsVars == <<stats, since, now, seen, submitted>>

-----------------------------------------------------------------------------
KeptCounters == {"num_shreds_merkle_code_chained", "num_shreds_merkle_data_chained"}

DiscardCounters ==
    {"index_overrun", "shred_version_mismatch", "slot_out_of_range", "index_out_of_bounds",
     "misaligned_erasure_config", "bad_parent_offset", "unexpected_data_complete_shred",
     "misaligned_last_data_index", "misaligned_fec_set"}

NoCounts == [c \in KeptCounters \cup DiscardCounters |-> 0]

(* The checks in their order, each with the counter it increments. *)
Check(fails, counter) == [fails |-> fails, counter |-> counter]

CommonChecks(p) ==
    <<Check(p.version # Version, "shred_version_mismatch"),
      Check(p.slot > MaxSlot, "slot_out_of_range"),
      Check(p.index >= MaxShreds, "index_out_of_bounds")>>

CodeChecks(p) ==
    <<Check(p.slot <= root, "slot_out_of_range"),
      Check(~is_fixed(p), "misaligned_erasure_config")>>

DataChecks(p) ==
    <<Check(p.parent_offset > p.slot, "bad_parent_offset"),
      Check(~verify_shred_slots(p.slot, p.slot - p.parent_offset), "slot_out_of_range"),
      Check(Unexpected(p) /\ Discards(p.slot), "unexpected_data_complete_shred"),
      Check(last_in_slot(p) /\ ~check_last_data_shred_index(p.index), "misaligned_last_data_index")>>

Checks(p) ==
    IF ~Readable(p) THEN <<Check(TRUE, "index_overrun")>>
    ELSE CommonChecks(p)
         \o (IF p.variant = "code" THEN CodeChecks(p) ELSE DataChecks(p))
         \o <<Check(~check_fixed_fec_set(p.index, p.fec_set_index), "misaligned_fec_set")>>

(* The check that ends the call, or 0. *)
FirstFailed(p) == SelectInSeq(Checks(p), LAMBDA c : c.fails)

Position(p, counter) == SelectInSeq(Checks(p), LAMBDA c : c.counter = counter)

(* The counter of unexpected shreds is incremented as well where they are  *)
(* not discarded.                                                          *)
CountedUnexpected(p) ==
    /\ Readable(p) /\ p.variant = "data" /\ Unexpected(p)
    /\ FirstFailed(p) = 0 \/ FirstFailed(p) >= Position(p, "unexpected_data_complete_shred")

(* All counters of the packet.  Slip: the call returns without its count.  *)
Uncounted(p) == {}
CountersOf(p) ==
    (IF CountedUnexpected(p) THEN {"unexpected_data_complete_shred"} ELSE {})
    \cup {IF FirstFailed(p) # 0 THEN Checks(p)[FirstFailed(p)].counter
          ELSE IF p.variant = "code" THEN "num_shreds_merkle_code_chained"
          ELSE "num_shreds_merkle_data_chained"}

(* The statistics after a reset.  Slip: the time is reset with the rest.   *)
AllReset == [stats |-> NoCounts, since |-> Never]
Reset == [stats |-> NoCounts, since |-> now]

-----------------------------------------------------------------------------
StatsInit ==
    /\ Init
    /\ stats = NoCounts /\ since = Never /\ now = 0
    /\ seen = [kept |-> 0, discarded |-> 0] /\ submitted = Never

(* should_discard_shred *)
Filter(p) ==
    /\ seen.kept + seen.discarded < MaxCalls
    /\ stats' = [c \in DOMAIN stats |-> stats[c] + (IF c \in CountersOf(p) THEN 1 ELSE 0)]
    /\ seen' = IF should_discard_shred(p) THEN [seen EXCEPT !.discarded = @ + 1]
               ELSE [seen EXCEPT !.kept = @ + 1]
    /\ UNCHANGED <<vars, since, now, submitted>>

(* maybe_submit, with an unset `since` at the first call. *)
MaybeSubmit ==
    /\ since # Never => now - since >= Cadence
    /\ stats' = Reset.stats /\ since' = Reset.since
    /\ seen' = [kept |-> 0, discarded |-> 0] /\ submitted' = now
    /\ UNCHANGED <<vars, now>>

Tick ==
    /\ now < MaxNow
    /\ now' = now + 1
    /\ UNCHANGED <<vars, stats, since, seen, submitted>>

(* ShredFetchStats::default(): the caller begins with new statistics. *)
NewStats ==
    /\ stats' = NoCounts /\ since' = Never /\ now' = 0
    /\ seen' = [kept |-> 0, discarded |-> 0] /\ submitted' = Never
    /\ UNCHANGED vars

StatsNext ==
    \/ \E p \in Packets : Filter(p)
    \/ MaybeSubmit
    \/ NewStats
    \/ Tick
    \/ NewRoot /\ UNCHANGED statsVars

StatsSpec == StatsInit /\ [][StatsNext]_<<vars, statsVars>>

-----------------------------------------------------------------------------
Sum(counters) == FoldSet(LAMBDA c, acc : acc + stats[c], 0, counters)

(* The sums of the counters account for every packet since the last reset: *)
(* the counters of kept shreds add up to the packets kept, those of        *)
(* discards to the packets discarded, whichever checks these fail and      *)
(* whatever the root was.  Only unexpected data-complete shreds may be     *)
(* counted on top, without being discarded or besides another counter      *)
(* (lib.rs 855-861).  Which of the counters it is, the sums do not tell.   *)
EveryPacketIsCounted ==
    LET unexpected == stats["unexpected_data_complete_shred"]
        discards == Sum(DiscardCounters)
    IN  /\ Sum(KeptCounters) = seen.kept
        /\ seen.discarded \in discards - unexpected..discards

(* Two submissions are at least the cadence apart (stats.rs 91-103): the   *)
(* reset of the counters keeps the time of the submission.                 *)
SubmissionsAreSpaced ==
    [][Never \notin {submitted, submitted'} /\ submitted' # submitted =>
         submitted' - submitted >= Cadence]_<<vars, statsVars>>
=============================================================================
