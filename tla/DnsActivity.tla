----------------------------- MODULE DnsActivity -----------------------------
(* DNS activity: the helper reads dnsmasq's query log into a bounded table, *)
(* routerd's collector drains that table page by page, keeps daily counts   *)
(* and the recent list in memory, flushes the counts into SQLite every few  *)
(* rounds, and passes each page to the risk service, whose worker matches   *)
(* it and stores alerts.  An operator turns recording on and off and clears *)
(* the history while all of this runs.                                      *)
(*                                                                          *)
(* A lookup is an identity, made once and counted once; a place that holds  *)
(* lookups is the set of them.  Names, clients, days and hours are left     *)
(* out.  A drop-in is a Boolean, dnsmasq the configuration it last loaded.  *)
(* The code compares generation counters only for equality: here a page and *)
(* a queued batch say whether the generation they were made under is still  *)
(* the current one.                                                         *)
EXTENDS Integers, FiniteSets, Sequences

CONSTANTS
    MaxLookups,           \* lookups clients make
    PENDING_MAX_ENTRIES,  \* the helper's table
    BATCH_MAX_ENTRIES,    \* lookups of a drained page
    DNS_MAX_DRAIN_PAGES,  \* pages of a round
    DNS_FLUSH_EVERY,      \* rounds between two flushes
    QueueCapacity,        \* batches the risk service queues
    MAX_ALERTS,
    MaxTroubles           \* failures, losses and process deaths

ASSUME ActivityAssumption ==
    /\ {MaxLookups, PENDING_MAX_ENTRIES, BATCH_MAX_ENTRIES} \subseteq Nat \ {0}
    /\ {DNS_MAX_DRAIN_PAGES, DNS_FLUSH_EVERY} \subseteq Nat \ {0}
    /\ {QueueCapacity, MAX_ALERTS} \subseteq Nat \ {0}
    /\ MaxTroubles \in Nat

Lookups == 1..MaxLookups

VARIABLES
    made,       \* lookups made so far
    recording,  \* the stored setting
    queryLog,   \* [dropIn, dnsmasq, file, again]: what is installed, loaded, logged,
                \* and, as history, read and yet left in the file
    table,      \* the helper's [pending, dropped]
    collector,  \* [at, known, current, page, more, pages, rounds, batch]
    memory,     \* [pending, recent]: Inner of the collector
    history,    \* lookups the accounting store counts
    clearing,   \* [at, cut]: the clear handler
    risk,       \* [queue, worker, alerts, dropped]
    forgotten,  \* lookups a confirmed clear promised to delete
    troubles

activityVars == <<made, recording, queryLog, table, collector, memory, history,
                  clearing, risk, forgotten, troubles>>

\* The run loop at rest; DNSSettings::default() is the setting it knows.
Resting == [at |-> "idle", known |-> FALSE, current |-> TRUE,
            page |-> {}, more |-> FALSE, pages |-> 0, rounds |-> 0, batch |-> {}]
NoClear == [at |-> "idle", cut |-> {}]
NoBatch == [lookups |-> {}, current |-> TRUE]
EmptyMemory == [pending |-> {}, recent |-> {}]

ActivityInit ==
    /\ made = 0 /\ recording = FALSE /\ troubles = 0
    /\ queryLog = [dropIn |-> FALSE, dnsmasq |-> "plain", file |-> {}, again |-> {}]
    /\ table = [pending |-> {}, dropped |-> {}]
    /\ collector = Resting /\ memory = EmptyMemory /\ clearing = NoClear
    /\ history = {} /\ forgotten = {}
    /\ risk = [queue |-> <<>>, worker |-> NoBatch, alerts |-> {}, dropped |-> {}]

\* The n latest lookups of a set.
Newest(s, n) == {l \in s : Cardinality({k \in s : k > l}) < n}

Trouble == troubles < MaxTroubles /\ troubles' = troubles + 1
Fine == troubles' = troubles

-----------------------------------------------------------------------------
(* The helper.                                                              *)

\* The table after the lines of the log were read, up to its bound; a line
\* read before raises a count.  With logging off the table is given up.
read_query_lines(q, t) ==
    IF q.dropIn
    THEN LET new == q.file \ t.pending
             kept == t.pending \cup
                     {l \in new : Cardinality({k \in new : k <= l})
                                  + Cardinality(t.pending) <= PENDING_MAX_ENTRIES}
         IN [pending |-> kept, dropped |-> t.dropped \cup (new \ kept)]
    ELSE [pending |-> {}, dropped |-> {}]

\* What collect_query_log may leave: the lines read and the file emptied, or
\* removed with logging off; a file that could not be opened; lines read from a
\* file that could not be truncated, which are read and counted again; a file
\* that could not be removed.
CollectOutcomes(q, t) ==
    LET read == read_query_lines(q, t)
    IN  {[table |-> read, log |-> [q EXCEPT !.file = {}], ok |-> TRUE],
         [table |-> IF q.dropIn THEN t ELSE read, log |-> q, ok |-> FALSE],
         [table |-> read, ok |-> FALSE,
          log |-> [q EXCEPT !.again = IF q.dropIn THEN @ \cup q.file ELSE @]]}

\* The helper's own timer: collect_query_log.
collect_query_log ==
    /\ \E c \in CollectOutcomes(queryLog, table) :
         /\ table' = c.table /\ queryLog' = c.log
         /\ IF c.ok THEN Fine ELSE Trouble
    /\ UNCHANGED <<made, recording, collector, memory, history, clearing, risk,
                   forgotten>>

\* A client resolves a name; dnsmasq appends the query to its log.
QueryArrives ==
    /\ made < MaxLookups /\ made' = made + 1
    /\ queryLog' = IF queryLog.dnsmasq = "logging"
                   THEN [queryLog EXCEPT !.file = @ \cup {made + 1}] ELSE queryLog
    /\ UNCHANGED <<recording, table, collector, memory, history, clearing, risk,
                   forgotten, troubles>>

\* What ensure_query_logging(enabled) may leave: the setting already
\* installed; the change made; or a failed dnsmasq test or restart, which
\* removes the drop-in again and leaves the old process, a fresh one or none.
ensure_query_logging(enabled) ==
    IF queryLog.dropIn = enabled
    THEN {[log |-> queryLog, ok |-> TRUE]}
    ELSE {[log |-> [queryLog EXCEPT !.dropIn = enabled,
                                    !.dnsmasq = IF enabled THEN "logging" ELSE "plain"],
           ok |-> TRUE]}
         \cup {[log |-> [queryLog EXCEPT !.dropIn = FALSE, !.dnsmasq = d], ok |-> FALSE]
               : d \in {"plain", "down", queryLog.dnsmasq}}

\* A network apply or a boot restarts dnsmasq with what is installed.
ResolverRestarts ==
    /\ queryLog' = [queryLog EXCEPT !.dnsmasq =
                        IF queryLog.dropIn THEN "logging" ELSE "plain"]
    /\ UNCHANGED <<made, recording, table, collector, memory, history, clearing,
                   risk, forgotten, troubles>>

-----------------------------------------------------------------------------
(* The collector's round.                                                   *)

\* run reads the setting, or keeps the last one it knows when the read fails;
\* collect reads the generation its pages belong to.
BeginRound ==
    /\ collector.at = "idle"
    /\ \E fails \in BOOLEAN :
         LET setting == IF fails THEN collector.known ELSE recording
         IN /\ IF fails THEN Trouble ELSE Fine
            /\ collector' = [collector EXCEPT !.at = IF setting THEN "drain" ELSE "off",
                                              !.known = setting,
                                              !.pages = 0, !.current = TRUE]
    /\ UNCHANGED <<made, recording, queryLog, table, memory, history, clearing,
                   risk, forgotten>>

\* The round's end: every DNS_FLUSH_EVERY rounds the counts are flushed.
EndCollect(c) ==
    IF (c.rounds + 1) % DNS_FLUSH_EVERY = 0
    THEN [c EXCEPT !.at = "flush", !.page = {}, !.more = FALSE, !.rounds = 0]
    ELSE [c EXCEPT !.at = "idle", !.page = {}, !.more = FALSE, !.rounds = @ + 1]

\* drain(true): the helper converges the drop-in, reads the log and hands out
\* a page, which leaves its table.  A failed or unanswered call ends the
\* round; the page of an unanswered one is lost.
drain ==
    /\ collector.at = "drain"
    /\ \E e \in ensure_query_logging(TRUE) :
         IF e.ok
         THEN \E c \in CollectOutcomes(e.log, table) :
                LET read == c.table.pending
                    page == read \ Newest(read, Cardinality(read) - BATCH_MAX_ENTRIES)
                IN /\ queryLog' = c.log
                   /\ table' = [pending |-> read \ page, dropped |-> {}]
                   /\ \/ /\ collector' = [collector EXCEPT !.at = "page", !.page = page,
                                                   !.more = read # page]
                         /\ IF c.ok THEN Fine ELSE Trouble
                      \/ /\ collector' = EndCollect(collector)
                         /\ Trouble
         ELSE /\ queryLog' = e.log /\ table' = table
              /\ collector' = EndCollect(collector)
              /\ Trouble
    /\ UNCHANGED <<made, recording, memory, history, clearing, risk, forgotten>>

\* submit: the page joins the risk queue under the current generation, or is
\* counted as dropped when the queue is full.
submit(r, lookups) ==
    IF lookups = {} THEN r
    ELSE IF Len(r.queue) < QueueCapacity
    THEN [r EXCEPT !.queue = Append(@, [lookups |-> lookups, current |-> TRUE])]
    ELSE [r EXCEPT !.dropped = @ \cup lookups]

\* Mutant: a page is added whatever its generation.
AddAnyGeneration ==
    /\ collector.at = "page" /\ Fine
    /\ memory' = [memory EXCEPT !.pending = @ \cup collector.page,
                                !.recent = @ \cup collector.page]
    /\ risk' = submit(risk, collector.page)
    /\ collector' = EndCollect(collector)
    /\ UNCHANGED <<made, recording, queryLog, table, history, clearing, forgotten>>

\* The page enters memory and the risk queue unless a clear came between;
\* another page follows while the helper has more.
add_locked ==
    /\ collector.at = "page"
    /\ Fine
    /\ IF ~collector.current
       THEN /\ collector' = EndCollect(collector)
            /\ UNCHANGED <<memory, risk>>
       ELSE /\ memory' = [memory EXCEPT !.pending = @ \cup collector.page,
                                        !.recent = @ \cup collector.page]
            /\ risk' = submit(risk, collector.page)
            /\ collector' = IF collector.more /\ collector.pages + 1 < DNS_MAX_DRAIN_PAGES
                            THEN [collector EXCEPT !.at = "drain", !.page = {}, !.pages = @ + 1]
                            ELSE EndCollect(collector)
    /\ UNCHANGED <<made, recording, queryLog, table, history, clearing, forgotten>>

\* The write lock, held through a flush, a disable and a clear.
WriteFree == collector.at \notin {"write", "offRisk", "offStore"} /\ clearing.at = "idle"

\* flush takes the pending counts under the write lock...
BeginFlush ==
    /\ collector.at = "flush" /\ WriteFree
    /\ collector' = [collector EXCEPT !.at = "write", !.batch = memory.pending]
    /\ memory' = [memory EXCEPT !.pending = {}]
    /\ UNCHANGED <<made, recording, queryLog, table, history, clearing, risk,
                   forgotten, troubles>>

\* ...and records them in one transaction, or drops them under storage
\* pressure or on a failed write.
record_dns ==
    /\ collector.at = "write"
    /\ collector' = [collector EXCEPT !.at = "idle", !.batch = {}]
    /\ \/ history' = history \cup collector.batch /\ Fine
       \/ history' = history /\ Trouble
    /\ UNCHANGED <<made, recording, queryLog, table, memory, clearing, risk, forgotten>>

\* reset_memory: everything held in memory goes, and a page still under way
\* belongs to an older generation.
reset_memory(c) ==
    /\ memory' = EmptyMemory
    /\ collector' = [c EXCEPT !.current = FALSE]

\* A round with recording off tells the helper so, whatever it answers...
DrainOff ==
    /\ collector.at = "off"
    /\ \E e \in ensure_query_logging(FALSE) :
         IF e.ok
         THEN \E c \in CollectOutcomes(e.log, table) :
                /\ table' = c.table /\ queryLog' = c.log
                /\ IF c.ok THEN Fine ELSE Trouble
         ELSE /\ table' = table /\ Trouble
              /\ queryLog' = e.log
    /\ collector' = [collector EXCEPT !.at = "disable", !.rounds = 0]
    /\ UNCHANGED <<made, recording, memory, history, clearing, risk, forgotten>>

\* ...and disables: memory first, then the alerts, then the stored history.
DisableMemory ==
    /\ collector.at = "disable" /\ WriteFree
    /\ reset_memory([collector EXCEPT !.at = "offRisk"])
    /\ UNCHANGED <<made, recording, queryLog, table, history, clearing, risk,
                   forgotten, troubles>>

\* Service::clear of the risk service waits for the batch being matched.
Outdated == [i \in DOMAIN risk.queue |-> [risk.queue[i] EXCEPT !.current = FALSE]]
ClearedRisk == [risk EXCEPT !.queue = Outdated, !.alerts = {}, !.dropped = {}]
RiskIdle == risk.worker = NoBatch

DisableRisk ==
    /\ collector.at = "offRisk" /\ RiskIdle
    /\ \/ risk' = ClearedRisk /\ Fine
       \/ risk' = [risk EXCEPT !.queue = Outdated] /\ Trouble
    /\ collector' = [collector EXCEPT !.at = "offStore"]
    /\ UNCHANGED <<made, recording, queryLog, table, memory, history, clearing, forgotten>>

\* Mutant: the stored history is left to its retention.
DisableKeepsStore ==
    /\ collector.at = "offStore" /\ collector' = [collector EXCEPT !.at = "idle"] /\ Fine
    /\ UNCHANGED <<made, recording, queryLog, table, memory, history, clearing, risk, forgotten>>

DisableStore ==
    /\ collector.at = "offStore"
    /\ \/ history' = {} /\ Fine
       \/ history' = history /\ Trouble
    /\ collector' = [collector EXCEPT !.at = "idle"]
    /\ UNCHANGED <<made, recording, queryLog, table, memory, clearing, risk, forgotten>>

-----------------------------------------------------------------------------
(* The operator.                                                            *)

handle_put_dns_activity_settings ==
    /\ recording' = ~recording
    /\ UNCHANGED <<made, queryLog, table, collector, memory, history, clearing,
                   risk, forgotten, troubles>>

\* Everything routerd has been handed by the helper so far.
ReceivedPage == memory.pending \cup memory.recent \cup collector.page
            \cup collector.batch \cup history \cup risk.alerts

\* clear, under the write lock: memory...
ClearMemory ==
    /\ clearing.at = "idle" /\ WriteFree
    /\ clearing' = [at |-> "risk", cut |-> ReceivedPage]
    /\ reset_memory(collector)
    /\ UNCHANGED <<made, recording, queryLog, table, history, risk,
                   forgotten, troubles>>

\* ...then the alerts, whose failure ends it...
ClearRisk ==
    /\ clearing.at = "risk" /\ RiskIdle
    /\ \/ /\ risk' = ClearedRisk /\ Fine
          /\ clearing' = [clearing EXCEPT !.at = "store"]
       \/ /\ risk' = [risk EXCEPT !.queue = Outdated] /\ Trouble
          /\ clearing' = NoClear
    /\ UNCHANGED <<made, recording, queryLog, table, collector, memory, history, forgotten>>

\* ...then the stored history; only now is the operator told it is done.
clear_dns ==
    /\ clearing.at = "store"
    /\ clearing' = NoClear
    /\ \/ history' = {} /\ forgotten' = forgotten \cup clearing.cut /\ Fine
       \/ UNCHANGED <<history, forgotten>> /\ Trouble
    /\ UNCHANGED <<made, recording, queryLog, table, collector, memory, risk>>

-----------------------------------------------------------------------------
(* The risk service's worker.                                               *)

\* process, up to the matching: a batch of an older generation, or with
\* recording off, is discarded; storage pressure or no list loaded drops it.
TakeBatch ==
    /\ RiskIdle /\ risk.queue # <<>>
    /\ LET batch == Head(risk.queue)
           rest == [risk EXCEPT !.queue = Tail(@)]
       IN IF ~batch.current \/ ~recording
          THEN risk' = rest /\ Fine
          ELSE \/ risk' = [rest EXCEPT !.worker = batch] /\ Fine
               \/ risk' = [rest EXCEPT !.dropped = @ \cup batch.lookups] /\ Trouble
    /\ UNCHANGED <<made, recording, queryLog, table, collector, memory, history,
                   clearing, forgotten>>

\* process_locked after the matching: the setting is read again, the alerts
\* are inserted and trimmed to the newest MAX_ALERTS in one transaction.
CommitAlerts ==
    /\ ~RiskIdle
    /\ \/ /\ risk' = [risk EXCEPT !.worker = NoBatch,
                          !.alerts = IF recording
                                     THEN Newest(@ \cup risk.worker.lookups, MAX_ALERTS)
                                     ELSE @]
          /\ Fine
       \/ /\ risk' = [risk EXCEPT !.worker = NoBatch,
                          !.dropped = @ \cup risk.worker.lookups]
          /\ Trouble
    /\ UNCHANGED <<made, recording, queryLog, table, collector, memory, history,
                   clearing, forgotten>>

\* The worker's minute tick clears the alerts while recording is off.
RiskMaintenance ==
    /\ RiskIdle /\ ~recording
    /\ risk' = ClearedRisk
    /\ UNCHANGED <<made, recording, queryLog, table, collector, memory, history,
                   clearing, forgotten, troubles>>

-----------------------------------------------------------------------------
(* Process deaths: routerd loses its memory, the helper its table.          *)

RouterdRestarts ==
    /\ Trouble
    /\ collector' = Resting /\ memory' = EmptyMemory /\ clearing' = NoClear
    /\ risk' = [risk EXCEPT !.queue = <<>>, !.worker = NoBatch,
                            !.dropped = {}]
    /\ UNCHANGED <<made, recording, queryLog, table, history, forgotten>>

\* A graceful stop flushes first when recording is on.
FinalFlush ==
    /\ collector.at = "idle" /\ WriteFree /\ RiskIdle
    /\ Trouble
    /\ history' = IF recording THEN history \cup memory.pending ELSE history
    /\ collector' = Resting /\ memory' = EmptyMemory
    /\ risk' = [risk EXCEPT !.queue = <<>>, !.dropped = {}]
    /\ UNCHANGED <<made, recording, queryLog, table, clearing, forgotten>>

ActivityHelperRestarts ==
    /\ Trouble
    /\ table' = [pending |-> {}, dropped |-> {}]
    /\ UNCHANGED <<made, recording, queryLog, collector, memory, history,
                   clearing, risk, forgotten>>

CollectorStep ==
    \/ BeginRound \/ drain \/ add_locked \/ BeginFlush \/ record_dns
    \/ DrainOff \/ DisableMemory \/ DisableRisk \/ DisableStore

RiskStep == TakeBatch \/ CommitAlerts

ActivityNext ==
    \/ CollectorStep \/ RiskStep \/ RiskMaintenance
    \/ QueryArrives \/ collect_query_log \/ ResolverRestarts
    \/ handle_put_dns_activity_settings
    \/ ClearMemory \/ ClearRisk \/ clear_dns
    \/ RouterdRestarts \/ FinalFlush \/ ActivityHelperRestarts

\* routerd's threads run: the collector's loop and the risk worker's keep
\* turning, and a clear request's handler finishes.  The collector's fairness
\* is strong: a lock that clears keep taking and releasing is taken by it at
\* last.
ActivityFairness ==
    /\ SF_activityVars(CollectorStep)
    /\ WF_activityVars(RiskStep)
    /\ WF_activityVars(ClearRisk \/ clear_dns)

ActivitySpec == ActivityInit /\ [][ActivityNext]_activityVars /\ ActivityFairness

-----------------------------------------------------------------------------
(* Properties.                                                              *)

ActivityTypeOK ==
    /\ made \in 0..MaxLookups /\ recording \in BOOLEAN
    /\ queryLog \in [dropIn : BOOLEAN, dnsmasq : {"plain", "logging", "down"},
                     file : SUBSET Lookups, again : SUBSET Lookups]
    /\ table \in [pending : SUBSET Lookups, dropped : SUBSET Lookups]
    /\ Cardinality(table.pending) <= PENDING_MAX_ENTRIES
    /\ memory \in [pending : SUBSET Lookups, recent : SUBSET Lookups]
    /\ collector.page \cup collector.batch \subseteq Lookups
    /\ history \subseteq Lookups /\ forgotten \subseteq Lookups
    /\ Len(risk.queue) <= QueueCapacity /\ Cardinality(risk.alerts) <= MAX_ALERTS

\* A confirmed clear is final: no lookup routerd had been handed before it
\* comes back, through the page being drained, the batch being written, the
\* risk queue or the batch being matched while it ran; only by a line that a
\* failed truncation left in the log.
ClearedStaysCleared ==
    forgotten \cap (memory.pending \cup memory.recent \cup collector.batch
                    \cup history \cup risk.alerts) \subseteq queryLog.again

\* No lookup is counted twice: on its way from dnsmasq's log to the stored
\* history it is at one place at a time, across pages, flushes and restarts.
\* The one exception is the line collect_query_log read and could not truncate.
CountedOnce ==
    LET places == <<queryLog.file, table.pending, table.dropped, collector.page,
                    memory.pending, collector.batch, history>>
    IN \A i, j \in DOMAIN places :
            i # j => places[i] \cap places[j] \subseteq queryLog.again

\* Turning recording off for good deletes everything: the memory, the stored
\* history and the alerts are empty from some moment on, although a round
\* with recording on was under way and deletes failed.
DisabledForgets ==
    <>[]~recording => <>[](ReceivedPage \cup table.pending \cup risk.worker.lookups = {})

\* The DNS history holds every lookup at most once, over failed writes and restarts,
\* and nothing that was recorded before a clearing comes back after it, except what
\* a failed truncation of the query log has read again.
ActivitySound ==
  /\ ActivityTypeOK /\ ClearedStaysCleared /\ CountedOnce
=============================================================================
