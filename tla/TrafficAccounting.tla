-------------------------- MODULE TrafficAccounting --------------------------
(* Per-device traffic accounting and the firewall's activity counters.      *)
(* Every apply and rollback recreates the nftables table, whose counters    *)
(* start at zero.  The collector takes the canonical revision as the        *)
(* generation of the counters, reads them, and folds the difference to its  *)
(* cursor into the stored totals; the firewall sampler takes the table's    *)
(* own handle as the generation.  One device and one direction stand for    *)
(* all (each has a cursor and a total of its own); bytes and packets are    *)
(* small numbers, months and hours one total each.                          *)
EXTENDS Integers

CONSTANTS
    MaxBytes,    \* bytes the device moves
    MaxTables,   \* times the table is created
    MaxMisses    \* failed writes and daemon restarts

ASSUME TrafficAssumption == MaxBytes \in Nat /\ MaxTables \in Nat \ {0} /\ MaxMisses \in Nat

VARIABLES
    tableNow,   \* [born, revision, counting, bytes]: the live table
    carried,    \* bytes the device really moved since history began
    canonical,  \* [revision, enabled]: the committed configuration
    candidate,  \* [live, enabled]: an applied configuration not yet confirmed
    sampler,    \* [at, generation, raw, matched]: the collector's round
    usage,      \* [month, recent, cursor, cleared]: the accounting store
    raced,      \* a round read a table of another revision than its own
    firewall,   \* [born, seen, stored]: the firewall clock and its minutes
    misses

trafficVars == <<tableNow, carried, canonical, candidate, sampler, usage, raced,
                 firewall, misses>>

NoCursor == [raw |-> 0, generation |-> 0, known |-> FALSE]
NoCandidate == [live |-> FALSE, enabled |-> FALSE]
NoRound == [at |-> "idle", generation |-> 0, raw |-> 0, matched |-> TRUE]

Fresh(revision, enabled) ==
    [born |-> tableNow.born + 1, revision |-> revision, counting |-> enabled, bytes |-> 0]

\* clear_history deletes every record and marks the disable as carried out.
clear_history == [month |-> 0, recent |-> 0, cursor |-> NoCursor, cleared |-> TRUE]

TrafficInit ==
    /\ tableNow = [born |-> 1, revision |-> 1, counting |-> FALSE, bytes |-> 0]
    /\ carried = 0 /\ raced = FALSE /\ misses = 0
    /\ canonical = [revision |-> 1, enabled |-> FALSE]
    /\ candidate = NoCandidate /\ sampler = NoRound
    /\ usage = clear_history
    /\ firewall = [born |-> 0, seen |-> 0, stored |-> 0]

Missed == misses < MaxMisses /\ misses' = misses + 1

-----------------------------------------------------------------------------
(* The table, as the transaction engine drives it.                          *)

DeviceTraffic ==
    /\ carried < MaxBytes
    /\ carried' = carried + 1
    /\ tableNow' = [tableNow EXCEPT !.bytes = @ + 1]
    /\ UNCHANGED <<canonical, candidate, sampler, usage, raced, firewall, misses>>

\* An apply loads the candidate's table; the revision waits for the commit.
ApplyCandidate(enabled) ==
    /\ ~candidate.live /\ tableNow.born < MaxTables
    /\ tableNow' = Fresh(canonical.revision + 1, enabled)
    /\ candidate' = [live |-> TRUE, enabled |-> enabled]
    /\ UNCHANGED <<carried, canonical, sampler, usage, raced, firewall, misses>>

CommitCandidate ==
    /\ candidate.live
    /\ canonical' = [revision |-> canonical.revision + 1, enabled |-> candidate.enabled]
    /\ candidate' = NoCandidate
    /\ UNCHANGED <<tableNow, carried, sampler, usage, raced, firewall, misses>>

\* A rollback, or a boot, loads the canonical table again.
ReloadCanonical ==
    /\ tableNow.born < MaxTables
    /\ tableNow' = Fresh(canonical.revision, canonical.enabled)
    /\ candidate' = NoCandidate
    /\ UNCHANGED <<carried, canonical, sampler, usage, raced, firewall, misses>>

-----------------------------------------------------------------------------
(* The collector.                                                           *)

delta(previous, current) == IF current >= previous THEN current - previous ELSE current

\* Mutant: the counter itself is taken for the difference.
WholeCounter(previous_generation, current_generation, previous, current) == current

delta_across_generations(previous_generation, current_generation, previous, current) ==
    IF previous_generation # current_generation THEN current ELSE delta(previous, current)

\* collect_once reads the canonical settings.  With accounting off it deletes
\* the history unless the store says it did; with accounting on it marks the
\* history live before it reads a counter.
ReadSettings ==
    /\ sampler.at = "idle"
    /\ IF canonical.enabled
       THEN /\ sampler' = [NoRound EXCEPT !.at = "read", !.generation = canonical.revision]
            /\ usage' = [usage EXCEPT !.cleared = FALSE]
       ELSE /\ ~usage.cleared /\ sampler' = sampler
            /\ usage' = clear_history
    /\ UNCHANGED <<tableNow, carried, canonical, candidate, raced, firewall, misses>>

\* A store that cannot be written leaves the round without effect.
StoreFails ==
    /\ sampler.at \in {"idle", "record"} /\ Missed
    /\ sampler' = NoRound
    /\ UNCHANGED <<tableNow, carried, canonical, candidate, usage, raced, firewall>>

\* The device's counter in the set the kernel lists.
parse_counters(set) ==
    [sampler EXCEPT !.at = "record", !.raw = set.bytes,
                    !.matched = (set.revision = sampler.generation)]

\* read_counters: the set may not exist, which leaves a gap.
read_counters ==
    /\ sampler.at = "read"
    /\ sampler' = IF tableNow.counting THEN parse_counters(tableNow) ELSE NoRound
    /\ UNCHANGED <<tableNow, carried, canonical, candidate, usage, raced, firewall, misses>>

\* record_insights adds to the recent hours when the round before is recent.
record_insights(added, recently) == IF recently THEN usage.recent + added ELSE usage.recent

\* record: one transaction adds the difference to the month, adds it to the
\* recent hours when the previous round is recent enough, moves the cursor,
\* and drops the cursor of a device with no month.
record ==
    /\ sampler.at = "record"
    /\ sampler' = NoRound
    /\ LET previous == IF usage.cursor.known THEN usage.cursor
                       ELSE [raw |-> 0, generation |-> sampler.generation, known |-> TRUE]
           added == delta_across_generations(previous.generation, sampler.generation,
                                             previous.raw, sampler.raw)
       IN \E recently \in BOOLEAN :
            usage' = [month |-> usage.month + added,
                      recent |-> record_insights(added, recently),
                      cursor |-> IF usage.month + added = 0 THEN NoCursor
                                 ELSE [raw |-> sampler.raw, generation |-> sampler.generation,
                                       known |-> TRUE],
                      cleared |-> usage.cleared]
    /\ raced' = (raced \/ ~sampler.matched)
    /\ UNCHANGED <<tableNow, carried, canonical, candidate, firewall, misses>>

TrafficDaemonRestarts ==
    /\ Missed
    /\ sampler' = NoRound
    /\ UNCHANGED <<tableNow, carried, canonical, candidate, usage, raced, firewall>>

-----------------------------------------------------------------------------
(* The firewall's counters: every packet the table saw, read with the       *)
(* table's handle.  A sample of another table, after a gap or below the     *)
(* last one only sets the baseline.                                         *)

record_firewall ==
    /\ \E gap \in BOOLEAN :
         firewall' = [born |-> tableNow.born, seen |-> tableNow.bytes,
                      stored |-> IF tableNow.born = firewall.born /\ ~gap
                                    /\ tableNow.bytes >= firewall.seen
                                 THEN firewall.stored + tableNow.bytes - firewall.seen
                                 ELSE firewall.stored]
    /\ UNCHANGED <<tableNow, carried, canonical, candidate, sampler, usage, raced, misses>>

SamplerStep == ReadSettings \/ read_counters \/ record

TrafficNext ==
    \/ DeviceTraffic \/ (\E enabled \in BOOLEAN : ApplyCandidate(enabled))
    \/ CommitCandidate \/ ReloadCanonical
    \/ SamplerStep \/ StoreFails \/ TrafficDaemonRestarts
    \/ record_firewall

\* The collector's thread keeps taking rounds.
TrafficSpec == TrafficInit /\ [][TrafficNext]_trafficVars /\ WF_trafficVars(SamplerStep)

-----------------------------------------------------------------------------
(* Properties.                                                              *)

TrafficTypeOK ==
    /\ tableNow \in [born : 1..MaxTables, revision : 1..MaxTables + 1,
                     counting : BOOLEAN, bytes : 0..MaxBytes]
    /\ carried \in 0..MaxBytes /\ raced \in BOOLEAN /\ misses \in 0..MaxMisses
    /\ canonical \in [revision : 1..MaxTables + 1, enabled : BOOLEAN]
    /\ candidate \in [live : BOOLEAN, enabled : BOOLEAN]
    /\ sampler.at \in {"idle", "read", "record"}
    /\ usage.cleared \in BOOLEAN
    /\ firewall \in [born : 0..MaxTables, seen : 0..MaxBytes, stored : 0..MaxBytes]

\* As long as every round read the table of the revision it took, the stored
\* usage never exceeds what the device moved, through applies, rollbacks,
\* boots, daemon restarts and failed writes.
UsageHonest == ~raced => usage.month <= carried

\* The durable answer that a disable was carried out is true: nothing is
\* stored, whatever interrupted the rounds before; and the recent hours never
\* hold more than the months.
ClearedIsEmpty ==
    /\ usage.cleared => usage.month = 0 /\ ~usage.cursor.known
    /\ usage.recent <= usage.month

\* The firewall's minutes never count a packet twice: their samples belong to
\* one table's handle.
FirewallCountedOnce == firewall.stored <= carried

\* Disabling for good deletes the history.
DisableDeletes == <>[]~canonical.enabled => <>[](usage.month = 0)

\* The stored usage never exceeds what was carried, over recreated counters, failed
\* writes and restarts, and a history recorded as deleted is empty.
TrafficSound ==
  /\ TrafficTypeOK /\ UsageHonest /\ ClearedIsEmpty /\ FirewallCountedOnce
=============================================================================
