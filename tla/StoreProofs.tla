---------------------------- MODULE StoreProofs -----------------------------
(***************************************************************************)
(* Proofs about two parts of routerd that must not mix up what they keep:  *)
(* DnsActivity and ManagementEndpoint. For every value of their bounds.    *)
(* Each part starts with its inductive invariant.                          *)
(***************************************************************************)
EXTENDS DnsActivity, ManagementEndpoint, FiniteSetTheorems, SequenceTheorems, TLAPS

\* Most leaves are first-order reasoning; the others name their prover.
USE Zenon

-----------------------------------------------------------------------------
(***************************************************************************)
(* DnsActivity. That a lookup is counted once, and that a clearing is      *)
(* final, needs every place a lookup can be at: the two are proved         *)
(* together with the places being apart (HandedApart, CountsApart) and     *)
(* with what a clearing under way has already taken (Bygone, BygoneRisk),  *)
(* all but the lines that a failed truncation left in the log (again).     *)
(***************************************************************************)

\* A set whose members are told apart by a number up to n has at most n of them.
LEMMA Numbering ==
  ASSUME NEW S, IsFiniteSet(S), NEW n \in Nat, NEW f \in [S -> 1..n],
         \A x, y \in S : x # y => f[x] # f[y]
  PROVE  Cardinality(S) <= n
<1>1. IsFiniteSet(1..n) /\ Cardinality(1..n) = n
  BY SMT, FS_Interval
<1>2. Cardinality(S) \in Nat BY FS_CardinalityType
<1>3. ~(Cardinality(1..n) < Cardinality(S)) BY SMT, <1>1, FS_PigeonHole
<1> QED BY SMT, <1>1, <1>2, <1>3

LEMMA LookupsFinite ==
  /\ IsFiniteSet(Lookups) /\ Lookups \subseteq Nat
  /\ \A S \in SUBSET Lookups : IsFiniteSet(S) /\ Cardinality(S) \in Nat
<1>1. MaxLookups \in Nat BY ActivityAssumption
<1>2. IsFiniteSet(Lookups) BY SMT, <1>1, FS_Interval DEF Lookups
<1>3. ASSUME NEW S \in SUBSET Lookups PROVE IsFiniteSet(S) /\ Cardinality(S) \in Nat
  BY <1>2, FS_Subset, FS_CardinalityType
<1> QED BY SMT, <1>2, <1>3 DEF Lookups

\* The members of a set that have at most n below them, itself counted.
LEMMA FirstOnes ==
  ASSUME NEW S \in SUBSET Lookups, NEW n \in Nat
  PROVE  Cardinality({l \in S : Cardinality({k \in S : k <= l}) <= n}) <= n
<1> DEFINE upTo(l) == {k \in S : k <= l}
           X == {l \in S : Cardinality(upTo(l)) <= n}
           f == [l \in X |-> Cardinality(upTo(l))]
<1>1. \A l : upTo(l) \in SUBSET S /\ IsFiniteSet(upTo(l)) /\ Cardinality(upTo(l)) \in Nat
  BY LookupsFinite
<1>2. ASSUME NEW x \in S, NEW y \in S, x < y
      PROVE  Cardinality(upTo(x)) < Cardinality(upTo(y))
  <2>0. x \in Nat /\ y \in Nat /\ \A k \in S : k \in Nat BY LookupsFinite
  <2>1. upTo(x) \cup {y} \subseteq upTo(y) /\ y \notin upTo(x)
    <3>1. ASSUME NEW k \in S, k <= x PROVE k <= y BY SMT, <1>2, <2>0, <3>1
    <3>2. y <= y /\ ~(y <= x) BY SMT, <1>2, <2>0
    <3> QED BY <3>1, <3>2
  <2>2. Cardinality(upTo(x) \cup {y}) = Cardinality(upTo(x)) + 1
    BY ZenonT(30), <1>1, <2>1, FS_AddElement
  <2>3. Cardinality(upTo(x) \cup {y}) <= Cardinality(upTo(y))
    BY <1>1, <2>1, FS_Subset
  <2>4. Cardinality(upTo(x)) \in Nat /\ Cardinality(upTo(y)) \in Nat BY <1>1
  <2> HIDE DEF upTo
  <2> QED BY SMT, <2>2, <2>3, <2>4
<1>3. \A l \in S : Cardinality(upTo(l)) # 0
  BY SMT, <1>1, FS_EmptySet, LookupsFinite
<1>4. f \in [X -> 1..n] BY SMT, <1>1, <1>3
<1>5. \A x, y \in X : x # y => f[x] # f[y]
  <2> SUFFICES ASSUME NEW x \in X, NEW y \in X, x # y PROVE f[x] # f[y] OBVIOUS
  <2>1. x < y \/ y < x BY SMT, LookupsFinite
  <2>2. Cardinality(upTo(x)) # Cardinality(upTo(y))
    BY SMT, <1>1, <1>2, <2>1
  <2> QED BY <2>2
<1>6. IsFiniteSet(X) BY LookupsFinite
<1> HIDE DEF f
<1> QED BY <1>4, <1>5, <1>6, Numbering

\* The newest n of a set are at most n.
LEMMA NewestOnes ==
  ASSUME NEW S \in SUBSET Lookups, NEW n \in Nat
  PROVE  Newest(S, n) \subseteq S /\ Cardinality(Newest(S, n)) <= n
<1> DEFINE above(l) == {k \in S : k > l}
           X == {l \in S : Cardinality(above(l)) < n}
           f == [l \in X |-> Cardinality(above(l)) + 1]
<1>1. \A l : above(l) \in SUBSET S /\ IsFiniteSet(above(l)) /\ Cardinality(above(l)) \in Nat
  BY LookupsFinite
<1>2. ASSUME NEW x \in S, NEW y \in S, x < y
      PROVE  Cardinality(above(y)) < Cardinality(above(x))
  <2>0. x \in Nat /\ y \in Nat /\ \A k \in S : k \in Nat BY LookupsFinite
  <2>1. above(y) \cup {y} \subseteq above(x) /\ y \notin above(y)
    <3>1. ASSUME NEW k \in S, k > y PROVE k > x BY SMT, <1>2, <2>0, <3>1
    <3>2. y > x /\ ~(y > y) BY SMT, <1>2, <2>0
    <3> QED BY <3>1, <3>2
  <2>2. Cardinality(above(y) \cup {y}) = Cardinality(above(y)) + 1
    BY ZenonT(30), <1>1, <2>1, FS_AddElement
  <2>3. Cardinality(above(y) \cup {y}) <= Cardinality(above(x))
    BY <1>1, <2>1, FS_Subset
  <2>4. Cardinality(above(x)) \in Nat /\ Cardinality(above(y)) \in Nat BY <1>1
  <2> HIDE DEF above
  <2> QED BY SMT, <2>2, <2>3, <2>4
<1>4. f \in [X -> 1..n] BY SMT, <1>1
<1>5. \A x, y \in X : x # y => f[x] # f[y]
  <2> SUFFICES ASSUME NEW x \in X, NEW y \in X, x # y PROVE f[x] # f[y] OBVIOUS
  <2>1. x < y \/ y < x BY SMT, LookupsFinite
  <2>2. Cardinality(above(x)) # Cardinality(above(y))
    BY SMT, <1>1, <1>2, <2>1
  <2> QED BY SMT, <1>1, <2>2
<1>6. IsFiniteSet(X) BY LookupsFinite
<1>7. Newest(S, n) = X BY DEF Newest
<1> HIDE DEF f
<1>8. Cardinality(X) <= n BY <1>4, <1>5, <1>6, Numbering
<1> QED BY <1>7, <1>8

-----------------------------------------------------------------------------
\* The fields of the records.
Batches == [lookups : SUBSET Lookups, current : BOOLEAN]
Logs == [dropIn : BOOLEAN, dnsmasq : {"plain", "logging", "down"}, file : SUBSET Lookups,
         again : SUBSET Lookups]
Tables == [pending : SUBSET Lookups, dropped : SUBSET Lookups]
Memories == [pending : SUBSET Lookups, recent : SUBSET Lookups]
Collectors == [at : {"idle", "drain", "off", "page", "flush", "write", "disable", "offRisk", "offStore"},
               known : BOOLEAN, current : BOOLEAN, page : SUBSET Lookups, more : BOOLEAN,
               pages : Nat, rounds : Nat, batch : SUBSET Lookups]
Clears == [at : {"idle", "risk", "store"}, cut : SUBSET Lookups]
Risks == [queue : Seq(Batches), worker : Batches, alerts : SUBSET Lookups, dropped : SUBSET Lookups]

ActivityTyped ==
  /\ made \in 0..MaxLookups /\ recording \in BOOLEAN
  /\ queryLog \in Logs /\ table \in Tables /\ collector \in Collectors /\ memory \in Memories
  /\ history \in SUBSET Lookups /\ clearing \in Clears /\ risk \in Risks
  /\ forgotten \in SUBSET Lookups

\* The bounds of the table, the queue and the alerts.
Limited ==
  /\ Cardinality(table.pending) <= PENDING_MAX_ENTRIES
  /\ Len(risk.queue) <= QueueCapacity /\ Cardinality(risk.alerts) <= MAX_ALERTS

\* The lookups in the queue, and those of batches no clearing outdated.
InQueue(q) == UNION {q[i].lookups : i \in DOMAIN q}
CurrentIn(q) == UNION {q[i].lookups : i \in {j \in DOMAIN q : q[j].current}}

\* What routerd has not been handed yet, and what it has.
Unread == queryLog.file \cup table.pending \cup table.dropped
Handed == memory.pending \cup memory.recent \cup collector.page \cup collector.batch
          \cup history \cup risk.alerts \cup risk.worker.lookups
          \cup InQueue(risk.queue) \cup clearing.cut \cup forgotten

\* A new lookup is in neither.
Numbered == Unread \cup Handed \subseteq 1..made

\* On the way to the history the places are apart, but for what is read again.
LogApart ==
  /\ queryLog.file \cap table.pending \subseteq queryLog.again
  /\ queryLog.file \cap table.dropped \subseteq queryLog.again
  /\ table.pending \cap table.dropped \subseteq queryLog.again
HandedApart == Handed \cap Unread \subseteq queryLog.again
CountsApart ==
  /\ collector.page \cap memory.pending \subseteq queryLog.again
  /\ collector.page \cap history \subseteq queryLog.again
  /\ memory.pending \cap collector.batch \subseteq queryLog.again
  /\ memory.pending \cap history \subseteq queryLog.again
  /\ collector.batch \cap history \subseteq queryLog.again
\* What a step of the collector or of a clearing holds is empty outside it.
AtRest ==
  /\ collector.at # "page" => collector.page = {}
  /\ collector.at # "write" => collector.batch = {}
  /\ collector.at \in {"write", "offRisk", "offStore"} => clearing.at = "idle"
  /\ clearing.at = "idle" => clearing.cut = {}
\* What was cleared, or is being cleared, is at no place it could come back
\* from, unless it is read again.
Bygone ==
  /\ forgotten \cap (memory.pending \cup memory.recent \cup collector.batch \cup history)
       \subseteq queryLog.again
  /\ clearing.cut \cap (memory.pending \cup memory.recent \cup collector.batch) \subseteq queryLog.again
  /\ collector.current => collector.page \cap (forgotten \cup clearing.cut) \subseteq queryLog.again
BygoneRisk ==
  /\ forgotten \cap (risk.alerts \cup risk.worker.lookups \cup CurrentIn(risk.queue))
       \subseteq queryLog.again
  /\ clearing.at = "store" =>
       clearing.cut \cap (risk.alerts \cup risk.worker.lookups \cup CurrentIn(risk.queue))
         \subseteq queryLog.again

ActivityInv ==
  /\ ActivityTyped /\ Limited /\ Numbered /\ LogApart /\ HandedApart /\ CountsApart
  /\ AtRest /\ Bygone /\ BygoneRisk

LEMMA QueueAppends ==
  ASSUME NEW q \in Seq(Batches), NEW b \in Batches, b.current
  PROVE  /\ Append(q, b) \in Seq(Batches) /\ Len(Append(q, b)) = Len(q) + 1
         /\ InQueue(Append(q, b)) = InQueue(q) \cup b.lookups
         /\ CurrentIn(Append(q, b)) = CurrentIn(q) \cup b.lookups
<1> DEFINE p == Append(q, b)
<1>1. /\ p \in Seq(Batches) /\ Len(p) = Len(q) + 1 /\ DOMAIN p = DOMAIN q \cup {Len(q) + 1}
      /\ p[Len(q) + 1] = b /\ \A i \in DOMAIN q : p[i] = q[i] /\ i # Len(q) + 1
      /\ Len(q) + 1 \in DOMAIN p
  BY SMT, AppendProperties
<1> HIDE DEF p
<1>2. ASSUME NEW l PROVE l \in InQueue(p) <=> l \in InQueue(q) \cup b.lookups
  BY <1>1 DEF InQueue
<1>3. ASSUME NEW l PROVE l \in CurrentIn(p) <=> l \in CurrentIn(q) \cup b.lookups
  BY <1>1 DEF CurrentIn
<1> QED BY <1>1, <1>2, <1>3 DEF p

LEMMA QueueEmpty == <<>> \in Seq(Batches) /\ Len(<<>>) = 0 /\ InQueue(<<>>) = {} /\ CurrentIn(<<>>) = {}
<1>1. <<>> \in Seq(Batches) /\ Len(<<>>) = 0 /\ DOMAIN <<>> = {} BY SMT, EmptySeq
<1> QED BY <1>1 DEF InQueue, CurrentIn

LEMMA QueueTakes ==
  ASSUME NEW q \in Seq(Batches), q # <<>>
  PROVE  /\ Tail(q) \in Seq(Batches) /\ Len(Tail(q)) <= Len(q) /\ Head(q) \in Batches
         /\ InQueue(Tail(q)) \subseteq InQueue(q) /\ CurrentIn(Tail(q)) \subseteq CurrentIn(q)
         /\ Head(q).lookups \subseteq InQueue(q)
         /\ Head(q).current => Head(q).lookups \subseteq CurrentIn(q)
<1>1. /\ Tail(q) \in Seq(Batches) /\ Head(q) \in Batches /\ Len(q) \in Nat /\ Len(q) # 0
      /\ Len(Tail(q)) = Len(q) - 1 /\ DOMAIN q = 1..Len(q) /\ DOMAIN Tail(q) = 1..Len(Tail(q))
      /\ Head(q) = q[1] /\ 1 \in DOMAIN q
      /\ \A i \in DOMAIN Tail(q) : Tail(q)[i] = q[i + 1] /\ i + 1 \in DOMAIN q
  BY SMT, HeadTailProperties
<1>2. ASSUME NEW l PROVE l \in InQueue(Tail(q)) => l \in InQueue(q)
  BY <1>1 DEF InQueue
<1>3. ASSUME NEW l PROVE l \in CurrentIn(Tail(q)) => l \in CurrentIn(q)
  BY <1>1 DEF CurrentIn
<1>4. Head(q).lookups \subseteq InQueue(q) BY <1>1 DEF InQueue
<1>5. Head(q).current => Head(q).lookups \subseteq CurrentIn(q) BY SMT, <1>1 DEF CurrentIn
<1> QED BY SMT, <1>1, <1>2, <1>3, <1>4, <1>5

LEMMA QueueOutdated ==
  ASSUME risk.queue \in Seq(Batches)
  PROVE  /\ Outdated \in Seq(Batches) /\ Len(Outdated) = Len(risk.queue)
         /\ InQueue(Outdated) = InQueue(risk.queue) /\ CurrentIn(Outdated) = {}
<1> DEFINE q == risk.queue
           p == Outdated
<1>1. p = [i \in DOMAIN q |-> [q[i] EXCEPT !.current = FALSE]] BY DEF Outdated
<1>2. Len(q) \in Nat /\ DOMAIN q = 1..Len(q) /\ \A i \in DOMAIN q : q[i] \in Batches
  BY SMT
<1>3. \A i \in DOMAIN q : /\ [q[i] EXCEPT !.current = FALSE] \in Batches
                          /\ [q[i] EXCEPT !.current = FALSE].current = FALSE
                          /\ [q[i] EXCEPT !.current = FALSE].lookups = q[i].lookups
  BY <1>2 DEF Batches
<1> HIDE DEF p, q
<1>4. p \in Seq(Batches) /\ Len(p) = Len(q)
  <2>1. p \in [1..Len(q) -> Batches] BY <1>1, <1>2, <1>3
  <2> QED BY SMT, <1>2, <2>1, SeqDef
<1>5. DOMAIN p = DOMAIN q /\ \A i \in DOMAIN q : ~p[i].current /\ p[i].lookups = q[i].lookups
  BY <1>1, <1>3
<1>6. ASSUME NEW l PROVE l \in InQueue(p) <=> l \in InQueue(q) BY <1>5 DEF InQueue
<1>7. CurrentIn(p) = {} BY <1>5 DEF CurrentIn
<1> QED BY <1>4, <1>6, <1>7 DEF p, q

-----------------------------------------------------------------------------
LEMMA Limits ==
  /\ PENDING_MAX_ENTRIES \in Nat /\ BATCH_MAX_ENTRIES \in Nat /\ QueueCapacity \in Nat
  /\ MAX_ALERTS \in Nat /\ MaxLookups \in Nat
BY ActivityAssumption

\* What the helper reads of its log stays apart, and its table in its bound.
LEMMA ReadFacts ==
  ASSUME NEW q \in Logs, NEW t \in Tables, Cardinality(t.pending) <= PENDING_MAX_ENTRIES,
         q.file \cap t.dropped \subseteq q.again, t.pending \cap t.dropped \subseteq q.again,
         NEW r, r = read_query_lines(q, t)
  PROVE  /\ r \in Tables /\ Cardinality(r.pending) <= PENDING_MAX_ENTRIES
         /\ r.pending \cup r.dropped \subseteq q.file \cup t.pending \cup t.dropped
         /\ r.pending \cap r.dropped \subseteq q.again
         /\ ~q.dropIn => r.pending = {} /\ r.dropped = {}
<1> DEFINE new == q.file \ t.pending
           first == {l \in new : Cardinality({k \in new : k <= l})
                                  + Cardinality(t.pending) <= PENDING_MAX_ENTRIES}
           kept == t.pending \cup first
<1>1. /\ q.file \in SUBSET Lookups /\ t.pending \in SUBSET Lookups /\ t.dropped \in SUBSET Lookups
      /\ q.dropIn \in BOOLEAN
  BY DEF Logs, Tables
<1>2. CASE ~q.dropIn
  <2>1. r = [pending |-> {}, dropped |-> {}] BY <1>2 DEF read_query_lines
  <2> QED BY SMT, <2>1, Limits, FS_EmptySet DEF Tables
<1>3. CASE q.dropIn
  <2>1. r = [pending |-> kept, dropped |-> t.dropped \cup (new \ kept)]
    BY <1>3 DEF read_query_lines
  <2>2. first \subseteq new /\ new \in SUBSET Lookups /\ new \subseteq q.file /\ new \cap t.pending = {}
    BY <1>1
  <2> HIDE DEF new
  <2>3. Cardinality(kept) <= PENDING_MAX_ENTRIES
    <3> DEFINE c == Cardinality(t.pending)
               n == PENDING_MAX_ENTRIES - c
               low == {l \in new : Cardinality({k \in new : k <= l}) <= n}
    <3>1. c \in Nat /\ n \in Nat BY SMT, <1>1, LookupsFinite, Limits
    <3>2. first = low
      <4>1. ASSUME NEW l \in new
            PROVE  Cardinality({k \in new : k <= l}) + c <= PENDING_MAX_ENTRIES
                   <=> Cardinality({k \in new : k <= l}) <= n
        <5> DEFINE a == Cardinality({k \in new : k <= l})
        <5>1. a \in Nat BY <2>2, LookupsFinite
        <5> HIDE DEF a, c
        <5>2. a + c <= PENDING_MAX_ENTRIES <=> a <= PENDING_MAX_ENTRIES - c BY SMT, <3>1, <5>1, Limits
        <5> QED BY <5>2 DEF a
      <4> QED BY <4>1
    <3>3. Cardinality(low) <= n BY <2>2, <3>1, FirstOnes
    <3>4. IsFiniteSet(first) /\ IsFiniteSet(t.pending) /\ Cardinality(first) \in Nat
      BY <1>1, <2>2, LookupsFinite
    <3>5. t.pending \cap first = {} BY <2>2
    <3> HIDE DEF first, low, n, c
    <3>6. Cardinality(t.pending \cup first) = c + Cardinality(first)
      <4>1. Cardinality(t.pending \cup first)
              = Cardinality(t.pending) + Cardinality(first) - Cardinality(t.pending \cap first)
        BY <3>4, FS_Union
      <4>2. Cardinality(t.pending \cap first) = 0 BY <3>5, FS_EmptySet
      <4> QED BY SMT, <3>1, <3>4, <4>1, <4>2 DEF c
    <3> QED BY SMT, <3>1, <3>2, <3>3, <3>4, <3>6, Limits DEF n
  <2> HIDE DEF first
  <2>4. kept \in SUBSET Lookups /\ t.dropped \cup (new \ kept) \in SUBSET Lookups
    BY <1>1, <2>2
  <2>5. r.pending = kept /\ r.dropped = t.dropped \cup (new \ kept) /\ r \in Tables
    BY SMT, <2>1, <2>4 DEF Tables
  <2>6. r.pending \cap r.dropped \subseteq q.again BY <2>2, <2>5
  <2> QED BY <1>3, <2>2, <2>3, <2>5, <2>6
<1> QED BY <1>1, <1>2, <1>3

\* However collect_query_log ends, the log and the table share only lines that
\* are read again.
LEMMA CollectFacts ==
  ASSUME NEW q \in Logs, NEW t \in Tables, Cardinality(t.pending) <= PENDING_MAX_ENTRIES,
         q.file \cap t.pending \subseteq q.again, q.file \cap t.dropped \subseteq q.again,
         t.pending \cap t.dropped \subseteq q.again, NEW c \in CollectOutcomes(q, t)
  PROVE  /\ c.log \in Logs /\ c.log.file \subseteq q.file /\ q.again \subseteq c.log.again
         /\ c.table \in Tables /\ Cardinality(c.table.pending) <= PENDING_MAX_ENTRIES
         /\ c.table.pending \cup c.table.dropped \subseteq q.file \cup t.pending \cup t.dropped
         /\ c.log.file \cap c.table.pending \subseteq c.log.again
         /\ c.log.file \cap c.table.dropped \subseteq c.log.again
         /\ c.table.pending \cap c.table.dropped \subseteq c.log.again
<1> DEFINE read == read_query_lines(q, t)
           seen == IF q.dropIn THEN q.again \cup q.file ELSE q.again
           emptied == [q EXCEPT !.file = {}]
           left == [q EXCEPT !.again = seen]
<1>1. /\ read \in Tables /\ Cardinality(read.pending) <= PENDING_MAX_ENTRIES
      /\ read.pending \cup read.dropped \subseteq q.file \cup t.pending \cup t.dropped
      /\ read.pending \cap read.dropped \subseteq q.again
      /\ ~q.dropIn => read.pending = {} /\ read.dropped = {}
  BY ReadFacts
<1>2. \/ c = [table |-> read, log |-> emptied, ok |-> TRUE]
      \/ c = [table |-> IF q.dropIn THEN t ELSE read, log |-> q, ok |-> FALSE]
      \/ c = [table |-> read, ok |-> FALSE, log |-> left]
  BY DEF CollectOutcomes
<1> HIDE DEF read
<1>3. CASE c = [table |-> read, log |-> emptied, ok |-> TRUE]
  <2>1. emptied \in Logs /\ emptied.file = {} /\ emptied.again = q.again BY DEF Logs
  <2> HIDE DEF emptied
  <2>2. c.log = emptied /\ c.table = read BY <1>3
  <2> QED BY <1>1, <2>1, <2>2
<1>4. CASE c = [table |-> IF q.dropIn THEN t ELSE read, log |-> q, ok |-> FALSE]
  <2>1. c.log = q /\ c.table = (IF q.dropIn THEN t ELSE read) BY <1>4
  <2>2. CASE q.dropIn
    <3>1. c.table = t BY <2>1, <2>2
    <3> QED BY <2>1, <3>1
  <2>3. CASE ~q.dropIn
    <3>1. c.table = read BY <2>1, <2>3
    <3> QED BY <1>1, <2>1, <2>3, <3>1
  <2> QED BY <2>2, <2>3
<1>5. CASE c = [table |-> read, ok |-> FALSE, log |-> left]
  <2>1. seen \in SUBSET Lookups /\ q.again \subseteq seen /\ (q.dropIn => q.file \subseteq seen)
    BY DEF Logs
  <2> HIDE DEF seen
  <2>2. left \in Logs /\ left.file = q.file /\ left.again = seen BY <2>1 DEF Logs
  <2> HIDE DEF left
  <2>3. c.log = left /\ c.table = read BY <1>5
  <2> QED BY <1>1, <2>1, <2>2, <2>3
<1> QED BY <1>2, <1>3, <1>4, <1>5

LEMMA EnsureFacts ==
  ASSUME queryLog \in Logs, NEW wanted \in BOOLEAN, NEW e \in ensure_query_logging(wanted)
  PROVE  /\ e.log \in Logs /\ e.log.file = queryLog.file
         /\ e.log.again = queryLog.again /\ e.ok \in BOOLEAN
<1>1. CASE queryLog.dropIn = wanted
  <2>1. e = [log |-> queryLog, ok |-> TRUE] BY <1>1 DEF ensure_query_logging
  <2> QED BY <2>1
<1>2. CASE queryLog.dropIn # wanted
  <2> DEFINE on == [queryLog EXCEPT !.dropIn = wanted,
                                    !.dnsmasq = IF wanted THEN "logging" ELSE "plain"]
             off(d) == [queryLog EXCEPT !.dropIn = FALSE, !.dnsmasq = d]
  <2>1. on \in Logs /\ on.file = queryLog.file /\ on.again = queryLog.again BY DEF Logs
  <2>2. ASSUME NEW d \in {"plain", "down", queryLog.dnsmasq}
        PROVE  off(d) \in Logs /\ off(d).file = queryLog.file /\ off(d).again = queryLog.again
    BY DEF Logs
  <2>3. e \in {[log |-> on, ok |-> TRUE]}
             \cup {[log |-> off(d), ok |-> FALSE] : d \in {"plain", "down", queryLog.dnsmasq}}
    BY <1>2 DEF ensure_query_logging
  <2> HIDE DEF on, off
  <2>4. CASE e = [log |-> on, ok |-> TRUE] BY <2>1, <2>4
  <2>5. ASSUME NEW d \in {"plain", "down", queryLog.dnsmasq}, e = [log |-> off(d), ok |-> FALSE]
        PROVE  /\ e.log \in Logs /\ e.log.file = queryLog.file
               /\ e.log.again = queryLog.again /\ e.ok \in BOOLEAN
    BY <2>2, <2>5
  <2> QED BY <2>3, <2>4, <2>5
<1> QED BY <1>1, <1>2

\* Steps of the helper and of dnsmasq: lookups stay among the unread ones.
LEMMA HelperSideKeeps ==
  ASSUME ActivityInv, UNCHANGED <<recording, collector, memory, history, clearing, risk, forgotten>>,
         made' \in 0..MaxLookups, made <= made', queryLog' \in Logs, table' \in Tables,
         Cardinality(table'.pending) <= PENDING_MAX_ENTRIES, LogApart',
         queryLog.again \subseteq queryLog'.again,
         Unread' \subseteq Unread \cup ((1..made') \ (1..made))
  PROVE  ActivityInv'
<1> USE DEF ActivityInv
<1>1. Handed' = Handed BY DEF Handed
<1>2. ActivityTyped' BY DEF ActivityTyped
<1>3. Limited' BY DEF Limited
<1>4. made \in Nat /\ made' \in Nat BY SMT, Limits DEF ActivityTyped
<1>5. Numbered'
  <2>1. 1..made \subseteq 1..made' BY SMT, <1>4
  <2> QED BY <1>1, <2>1 DEF Numbered
<1>6. HandedApart' BY <1>1 DEF HandedApart, Numbered
<1>7. CountsApart' /\ AtRest' BY DEF CountsApart, AtRest
<1>8. Bygone' /\ BygoneRisk' BY DEF Bygone, BygoneRisk
<1> QED BY <1>2, <1>3, <1>5, <1>6, <1>7, <1>8

LEMMA QueryArrivesKeeps == ActivityInv /\ QueryArrives => ActivityInv'
<1> SUFFICES ASSUME ActivityInv, QueryArrives PROVE ActivityInv' OBVIOUS
<1>1. made \in 0..MaxLookups /\ queryLog \in Logs /\ table \in Tables
  BY DEF ActivityInv, ActivityTyped
<1> DEFINE new == made + 1
<1>2. made' \in 0..MaxLookups /\ made <= made' /\ new \in Lookups /\ new \in (1..made') \ (1..made)
  BY SMT, <1>1, Limits DEF QueryArrives, Lookups
<1>3. UNCHANGED <<recording, table, collector, memory, history, clearing, risk, forgotten>>
      /\ queryLog' \in {queryLog, [queryLog EXCEPT !.file = @ \cup {new}]}
  BY DEF QueryArrives
<1> HIDE DEF new
<1>4. /\ queryLog' \in Logs
      /\ queryLog'.file = queryLog.file \/ queryLog'.file = queryLog.file \cup {new}
      /\ queryLog'.again = queryLog.again
  BY SMT, <1>1, <1>2, <1>3 DEF Logs
<1>5. new \notin Unread BY <1>2 DEF ActivityInv, Numbered
<1>6. LogApart' BY <1>3, <1>4, <1>5 DEF ActivityInv, LogApart, Unread
<1>7. Unread' \subseteq Unread \cup {new} BY <1>3, <1>4 DEF Unread
<1>8. table' \in Tables /\ Cardinality(table'.pending) <= PENDING_MAX_ENTRIES
  BY <1>1, <1>3 DEF ActivityInv, Limited
<1> QED BY <1>2, <1>3, <1>4, <1>6, <1>7, <1>8, HelperSideKeeps

LEMMA CollectKeeps == ActivityInv /\ collect_query_log => ActivityInv'
<1> SUFFICES ASSUME ActivityInv, collect_query_log PROVE ActivityInv' OBVIOUS
<1>1. made \in 0..MaxLookups /\ queryLog \in Logs /\ table \in Tables
  BY DEF ActivityInv, ActivityTyped
<1>2. UNCHANGED <<made, recording, collector, memory, history, clearing, risk, forgotten>>
  BY DEF collect_query_log
<1>3. PICK c \in CollectOutcomes(queryLog, table) : table' = c.table /\ queryLog' = c.log
  BY DEF collect_query_log
<1>4. /\ c.log \in Logs /\ c.log.file \subseteq queryLog.file /\ queryLog.again \subseteq c.log.again
      /\ c.table \in Tables /\ Cardinality(c.table.pending) <= PENDING_MAX_ENTRIES
      /\ c.table.pending \cup c.table.dropped \subseteq queryLog.file \cup table.pending \cup table.dropped
      /\ c.log.file \cap c.table.pending \subseteq c.log.again
      /\ c.log.file \cap c.table.dropped \subseteq c.log.again
      /\ c.table.pending \cap c.table.dropped \subseteq c.log.again
  BY <1>1, CollectFacts DEF ActivityInv, Limited, LogApart
<1>5. LogApart' BY <1>3, <1>4 DEF LogApart
<1>6. Unread' \subseteq Unread BY <1>3, <1>4 DEF Unread
<1>7. made <= made' /\ made' \in 0..MaxLookups BY SMT, <1>1, <1>2, Limits
<1> QED BY <1>2, <1>3, <1>4, <1>5, <1>6, <1>7, HelperSideKeeps

LEMMA ResolverKeeps == ActivityInv /\ (ResolverRestarts \/ ActivityHelperRestarts) => ActivityInv'
<1> SUFFICES ASSUME ActivityInv, ResolverRestarts \/ ActivityHelperRestarts PROVE ActivityInv' OBVIOUS
<1>1. made \in 0..MaxLookups /\ queryLog \in Logs /\ table \in Tables /\ LogApart
      /\ Cardinality(table.pending) <= PENDING_MAX_ENTRIES
  BY DEF ActivityInv, ActivityTyped, Limited
<1>2. UNCHANGED <<made, recording, collector, memory, history, clearing, risk, forgotten>>
  BY DEF ResolverRestarts, ActivityHelperRestarts
<1>3. queryLog' \in Logs /\ queryLog'.file = queryLog.file /\ queryLog'.again = queryLog.again
  BY <1>1 DEF ResolverRestarts, ActivityHelperRestarts, Logs
<1>4. table' = table \/ table' = [pending |-> {}, dropped |-> {}]
  BY DEF ResolverRestarts, ActivityHelperRestarts
<1>5. /\ table' \in Tables /\ Cardinality(table'.pending) <= PENDING_MAX_ENTRIES
      /\ table'.pending \subseteq table.pending /\ table'.dropped \subseteq table.dropped
  BY SMT, <1>1, <1>4, FS_EmptySet, Limits DEF Tables
<1>6. LogApart' /\ Unread' \subseteq Unread BY <1>1, <1>3, <1>5 DEF LogApart, Unread
<1>7. made <= made' /\ made' \in 0..MaxLookups BY SMT, <1>1, <1>2, Limits
<1> QED BY <1>2, <1>3, <1>5, <1>6, <1>7, HelperSideKeeps

-----------------------------------------------------------------------------
\* Steps of routerd: what it holds, it held before.
LEMMA RouterdSideKeeps ==
  ASSUME ActivityInv, UNCHANGED <<made, queryLog, table>>, recording' \in BOOLEAN,
         collector' \in Collectors, memory' \in Memories, history' \in SUBSET Lookups,
         clearing' \in Clears, risk' \in Risks, forgotten' \in SUBSET Lookups,
         Len(risk'.queue) <= QueueCapacity, Cardinality(risk'.alerts) <= MAX_ALERTS,
         Handed' \subseteq Handed, CountsApart', AtRest', Bygone', BygoneRisk'
  PROVE  ActivityInv'
<1> USE DEF ActivityInv
<1>1. Unread' = Unread /\ LogApart' BY DEF Unread, LogApart
<1>2. ActivityTyped' /\ Limited' BY DEF ActivityTyped, Limited
<1>3. Numbered' /\ HandedApart' BY <1>1 DEF Numbered, HandedApart
<1> QED BY <1>1, <1>2, <1>3

LEMMA ActivityParts ==
  ASSUME ActivityInv
  PROVE  /\ recording \in BOOLEAN /\ queryLog \in Logs /\ table \in Tables
         /\ collector \in Collectors /\ memory \in Memories /\ history \in SUBSET Lookups
         /\ clearing \in Clears /\ risk \in Risks /\ forgotten \in SUBSET Lookups
         /\ collector.at \in {"idle", "drain", "off", "page", "flush", "write", "disable", "offRisk", "offStore"}
         /\ collector.page \in SUBSET Lookups /\ collector.batch \in SUBSET Lookups
         /\ memory.pending \in SUBSET Lookups /\ memory.recent \in SUBSET Lookups
         /\ clearing.at \in {"idle", "risk", "store"} /\ clearing.cut \in SUBSET Lookups
         /\ risk.queue \in Seq(Batches) /\ risk.worker \in Batches /\ risk.alerts \in SUBSET Lookups
         /\ Len(risk.queue) <= QueueCapacity /\ Cardinality(risk.alerts) <= MAX_ALERTS
<1>1. ActivityTyped /\ Limited BY DEF ActivityInv
<1>2. /\ recording \in BOOLEAN /\ queryLog \in Logs /\ table \in Tables
      /\ collector \in Collectors /\ memory \in Memories /\ history \in SUBSET Lookups
      /\ clearing \in Clears /\ risk \in Risks /\ forgotten \in SUBSET Lookups
  BY <1>1 DEF ActivityTyped
<1>3. /\ collector.at \in {"idle", "drain", "off", "page", "flush", "write", "disable", "offRisk", "offStore"}
      /\ collector.page \in SUBSET Lookups /\ collector.batch \in SUBSET Lookups
  BY <1>2 DEF Collectors
<1>4. /\ memory.pending \in SUBSET Lookups /\ memory.recent \in SUBSET Lookups
      /\ clearing.at \in {"idle", "risk", "store"} /\ clearing.cut \in SUBSET Lookups
  BY <1>2 DEF Memories, Clears
<1>5. risk.queue \in Seq(Batches) /\ risk.worker \in Batches /\ risk.alerts \in SUBSET Lookups
  BY <1>2 DEF Risks
<1> QED BY <1>1, <1>2, <1>3, <1>4, <1>5 DEF Limited

\* The collector goes on without touching what it holds.
LEMMA CollectorMoves ==
  ASSUME NEW c \in Collectors, NEW d,
         NEW at \in {"idle", "drain", "off", "page", "flush", "write", "disable", "offRisk", "offStore"},
         d = [c EXCEPT !.at = at]
  PROVE  d \in Collectors /\ d.at = at /\ d.page = c.page /\ d.batch = c.batch /\ d.current = c.current
BY DEF Collectors

LEMMA EndFacts ==
  ASSUME NEW c \in Collectors, NEW d, d = EndCollect(c)
  PROVE  /\ d \in Collectors /\ d.at \in {"flush", "idle"} /\ d.page = {} /\ d.batch = c.batch
         /\ d.current = c.current
<1> DEFINE yes == [c EXCEPT !.at = "flush", !.page = {}, !.more = FALSE, !.rounds = 0]
           no == [c EXCEPT !.at = "idle", !.page = {}, !.more = FALSE, !.rounds = @ + 1]
<1>1. c.rounds + 1 \in Nat BY SMT DEF Collectors
<1>2. /\ yes \in Collectors /\ yes.at = "flush" /\ yes.page = {} /\ yes.batch = c.batch
      /\ yes.current = c.current
  BY DEF Collectors
<1>3. /\ no \in Collectors /\ no.at = "idle" /\ no.page = {} /\ no.batch = c.batch
      /\ no.current = c.current
  BY <1>1 DEF Collectors
<1>4. d = yes \/ d = no BY DEF EndCollect
<1> HIDE DEF yes, no
<1> QED BY <1>2, <1>3, <1>4

LEMMA BeginRoundKeeps == ActivityInv /\ BeginRound => ActivityInv'
<1> SUFFICES ASSUME ActivityInv, BeginRound PROVE ActivityInv' OBVIOUS
<1>1. UNCHANGED <<made, recording, queryLog, table, memory, history, clearing, risk, forgotten>>
      /\ collector.at = "idle"
  BY DEF BeginRound
<1>2. PICK setting \in BOOLEAN :
        collector' = [collector EXCEPT !.at = IF setting THEN "drain" ELSE "off",
                                       !.known = setting, !.pages = 0, !.current = TRUE]
  <2>1. recording \in BOOLEAN /\ collector.known \in BOOLEAN BY ActivityParts DEF Collectors
  <2> QED BY <2>1 DEF BeginRound
<1>3. /\ collector' \in Collectors /\ collector'.at \in {"drain", "off"}
      /\ collector'.page = collector.page /\ collector'.batch = collector.batch
  BY <1>2, ActivityParts DEF Collectors
<1>4. collector.page = {} BY <1>1 DEF ActivityInv, AtRest
<1>5. Handed' \subseteq Handed /\ CountsApart' /\ AtRest'
  BY <1>1, <1>3 DEF Handed, CountsApart, AtRest, ActivityInv
<1>6. Bygone' /\ BygoneRisk'
  BY <1>1, <1>3, <1>4 DEF Bygone, BygoneRisk, ActivityInv
<1> QED BY <1>1, <1>3, <1>5, <1>6, ActivityParts, RouterdSideKeeps

\* A drained page leaves the table, for routerd or for nobody.
LEMMA DrainKeeps == ActivityInv /\ drain => ActivityInv'
<1> SUFFICES ASSUME ActivityInv, drain PROVE ActivityInv' OBVIOUS
<1> USE DEF ActivityInv
<1>1. UNCHANGED <<made, recording, memory, history, clearing, risk, forgotten>>
      /\ collector.at = "drain" /\ collector.page = {} /\ collector.batch = {}
  BY DEF drain, AtRest
<1>2. PICK e \in ensure_query_logging(TRUE) :
         IF e.ok
         THEN \E c \in CollectOutcomes(e.log, table) :
                LET read == c.table.pending
                    page == read \ Newest(read, Cardinality(read) - BATCH_MAX_ENTRIES)
                IN /\ queryLog' = c.log
                   /\ table' = [pending |-> read \ page, dropped |-> {}]
                   /\ \/ collector' = [collector EXCEPT !.at = "page", !.page = page,
                                                   !.more = read # page]
                      \/ collector' = EndCollect(collector)
         ELSE /\ queryLog' = e.log /\ table' = table
              /\ collector' = EndCollect(collector)
  BY DEF drain
<1>3. e.log \in Logs /\ e.log.file = queryLog.file /\ e.log.again = queryLog.again /\ e.ok \in BOOLEAN
  BY ActivityParts, EnsureFacts
<1> DEFINE Drained(log, read, page, got) ==
      /\ log \in Logs /\ log.file \subseteq queryLog.file /\ queryLog.again \subseteq log.again
      /\ read \in Tables /\ Cardinality(read.pending) <= PENDING_MAX_ENTRIES
      /\ read.pending \cup read.dropped \subseteq Unread
      /\ log.file \cap read.pending \subseteq log.again /\ log.file \cap read.dropped \subseteq log.again
      /\ read.pending \cap read.dropped \subseteq log.again
      /\ page \subseteq read.pending /\ queryLog' = log
      /\ \/ table' = read
         \/ table' = [pending |-> read.pending \ page, dropped |-> {}]
      /\ \/ got = {} /\ collector' = EndCollect(collector)
         \/ /\ got = page /\ table' = [pending |-> read.pending \ page, dropped |-> {}]
            /\ collector' = [collector EXCEPT !.at = "page", !.page = page, !.more = read.pending # page]
<1> HIDE DEF Drained
<1>4. PICK log, read, page, got : Drained(log, read, page, got)
  <2>1. CASE ~e.ok
    <3>1. queryLog' = e.log /\ table' = table /\ collector' = EndCollect(collector) BY <1>2, <2>1
    <3>2. Drained(e.log, table, {}, {})
      BY <1>3, <3>1, ActivityParts DEF Drained, Limited, LogApart, Unread
    <3> QED BY <3>2
  <2>2. CASE e.ok
    <3>1. PICK c \in CollectOutcomes(e.log, table) :
            LET read == c.table.pending
                page == read \ Newest(read, Cardinality(read) - BATCH_MAX_ENTRIES)
            IN /\ queryLog' = c.log /\ table' = [pending |-> read \ page, dropped |-> {}]
               /\ \/ collector' = [collector EXCEPT !.at = "page", !.page = page, !.more = read # page]
                  \/ collector' = EndCollect(collector)
      BY <1>2, <2>2
    <3>2. PICK page \in SUBSET c.table.pending :
            /\ queryLog' = c.log /\ table' = [pending |-> c.table.pending \ page, dropped |-> {}]
            /\ \/ collector' = [collector EXCEPT !.at = "page", !.page = page,
                                            !.more = c.table.pending # page]
               \/ collector' = EndCollect(collector)
      BY <3>1
    <3>3. /\ c.log \in Logs /\ c.log.file \subseteq e.log.file /\ e.log.again \subseteq c.log.again
          /\ c.table \in Tables /\ Cardinality(c.table.pending) <= PENDING_MAX_ENTRIES
          /\ c.table.pending \cup c.table.dropped \subseteq e.log.file \cup table.pending \cup table.dropped
          /\ c.log.file \cap c.table.pending \subseteq c.log.again
          /\ c.log.file \cap c.table.dropped \subseteq c.log.again
          /\ c.table.pending \cap c.table.dropped \subseteq c.log.again
      <4>1. /\ table \in Tables /\ Cardinality(table.pending) <= PENDING_MAX_ENTRIES
            /\ e.log.file \cap table.pending \subseteq e.log.again
            /\ e.log.file \cap table.dropped \subseteq e.log.again
            /\ table.pending \cap table.dropped \subseteq e.log.again
        BY <1>3, ActivityParts DEF Limited, LogApart
      <4> QED BY <1>3, <4>1, CollectFacts
    <3>4. /\ c.log.file \subseteq queryLog.file /\ queryLog.again \subseteq c.log.again
          /\ c.table.pending \cup c.table.dropped \subseteq Unread
      BY <1>3, <3>3 DEF Unread
    <3>5. CASE collector' = EndCollect(collector)
      <4>1. Drained(c.log, c.table, page, {}) BY <3>2, <3>3, <3>4, <3>5 DEF Drained
      <4> QED BY <4>1
    <3>6. CASE collector' = [collector EXCEPT !.at = "page", !.page = page,
                                       !.more = c.table.pending # page]
      <4>1. Drained(c.log, c.table, page, page) BY <3>2, <3>3, <3>4, <3>6 DEF Drained
      <4> QED BY <4>1
    <3> QED BY <3>2, <3>5, <3>6
  <2> QED BY <1>3, <2>1, <2>2
<1> USE DEF Drained
<1>5. read.pending \in SUBSET Lookups /\ got \subseteq read.pending
  BY <1>4 DEF Tables
<1>7. /\ collector' \in Collectors /\ collector'.page = got /\ collector'.batch = {}
      /\ collector'.current = collector.current
      /\ collector'.at \in {"page", "flush", "idle"} /\ (collector'.at # "page" => got = {})
  <2>1. CASE got = {} /\ collector' = EndCollect(collector)
    <3>1. /\ collector' \in Collectors /\ collector'.at \in {"flush", "idle"} /\ collector'.page = {}
          /\ collector'.batch = collector.batch /\ collector'.current = collector.current
      BY <2>1, ActivityParts, EndFacts
    <3> QED BY <1>1, <2>1, <3>1
  <2>2. CASE got = page
             /\ collector' = [collector EXCEPT !.at = "page", !.page = page, !.more = read.pending # page]
    <3>1. (read.pending # page) \in BOOLEAN /\ page \in SUBSET Lookups BY <1>4, <1>5
    <3>2. /\ collector' \in Collectors /\ collector'.at = "page" /\ collector'.page = page
          /\ collector'.batch = collector.batch /\ collector'.current = collector.current
      BY <2>2, <3>1, ActivityParts DEF Collectors
    <3> QED BY <1>1, <2>2, <3>2
  <2> QED BY <1>4, <2>1, <2>2
<1>8. /\ queryLog' \in Logs /\ table' \in Tables
      /\ Cardinality(table'.pending) <= PENDING_MAX_ENTRIES /\ LogApart'
      /\ Unread' \subseteq Unread /\ got \subseteq Unread /\ got \cap Unread' \subseteq queryLog'.again
      /\ queryLog.again \subseteq queryLog'.again
  <2>1. queryLog' \in Logs /\ queryLog'.file \subseteq queryLog.file /\ queryLog.again \subseteq queryLog'.again
    BY <1>4
  <2>2. /\ table' \in Tables /\ table'.pending \subseteq read.pending /\ table'.dropped \subseteq read.dropped
        /\ got # {} => table'.pending \cap got = {} /\ table'.dropped = {}
    <3>1. CASE table' = [pending |-> read.pending \ page, dropped |-> {}]
      <4>1. read.pending \ page \in SUBSET Lookups BY <1>5
      <4>2. table' \in Tables /\ table'.pending = read.pending \ page /\ table'.dropped = {}
        BY <3>1, <4>1 DEF Tables
      <4>3. got = {} \/ got = page BY <1>4
      <4> QED BY <4>2, <4>3
    <3>2. CASE table' = read /\ got = {} BY <1>4, <3>2
    <3> QED BY <1>4, <3>1, <3>2
  <2>3. Cardinality(table'.pending) <= PENDING_MAX_ENTRIES
    <3>1. table'.pending \in SUBSET Lookups BY <2>2 DEF Tables
    <3>2. Cardinality(table'.pending) <= Cardinality(read.pending)
      BY <1>5, <2>2, LookupsFinite, FS_Subset
    <3>3. Cardinality(table'.pending) \in Nat /\ Cardinality(read.pending) \in Nat
      BY <1>5, <3>1, LookupsFinite
    <3> QED BY SMTT(30), <1>4, <3>2, <3>3, Limits
  <2>4. LogApart' BY <1>4, <2>2 DEF LogApart
  <2>5. Unread' \subseteq Unread BY <1>4, <2>1, <2>2 DEF Unread
  <2>6. got \subseteq Unread BY <1>4, <1>5
  <2>7. got \cap Unread' \subseteq queryLog'.again BY <1>4, <1>5, <2>2 DEF Unread
  <2> QED BY <2>1, <2>2, <2>3, <2>4, <2>5, <2>6, <2>7
<1>9. Handed' \subseteq Handed \cup got
  BY <1>1, <1>7 DEF Handed
<1>10. ActivityTyped' BY <1>1, <1>7, <1>8 DEF ActivityTyped
<1>11. Limited' BY <1>1, <1>8 DEF Limited
<1>12. Numbered' /\ HandedApart'
  <2>1. Numbered' BY <1>1, <1>8, <1>9 DEF Numbered
  <2>2. HandedApart' BY <1>8, <1>9 DEF HandedApart
  <2> QED BY <2>1, <2>2
<1>13. got \cap Handed \subseteq queryLog'.again BY <1>8 DEF HandedApart
<1>14. CountsApart' BY <1>1, <1>7, <1>8, <1>13 DEF CountsApart, Handed
<1>15. AtRest' BY <1>1, <1>7 DEF AtRest
<1>16. Bygone' BY <1>1, <1>7, <1>8, <1>13 DEF Bygone, Handed
<1>17. BygoneRisk' BY <1>1, <1>8 DEF BygoneRisk
<1> QED BY <1>8, <1>10, <1>11, <1>12, <1>14, <1>15, <1>16, <1>17

-----------------------------------------------------------------------------
LEMMA SubmitFacts ==
  ASSUME risk \in Risks, Len(risk.queue) <= QueueCapacity, NEW lookups \in SUBSET Lookups,
         NEW r, r = submit(risk, lookups)
  PROVE  /\ r \in Risks /\ r.worker = risk.worker /\ r.alerts = risk.alerts
         /\ Len(r.queue) <= QueueCapacity
         /\ InQueue(r.queue) \subseteq InQueue(risk.queue) \cup lookups
         /\ CurrentIn(r.queue) \subseteq CurrentIn(risk.queue) \cup lookups
<1> DEFINE b == [lookups |-> lookups, current |-> TRUE]
           joined == [risk EXCEPT !.queue = Append(@, b)]
           full == [risk EXCEPT !.dropped = @ \cup lookups]
<1>1. b \in Batches /\ b.current /\ b.lookups = lookups BY DEF Batches
<1>2. risk.queue \in Seq(Batches) /\ risk.dropped \in SUBSET Lookups BY DEF Risks
<1>3. \/ r = risk
      \/ r = full
      \/ r = joined /\ Len(risk.queue) < QueueCapacity
  BY DEF submit
<1> HIDE DEF b
<1>4. CASE r = full
  <2>1. r \in Risks /\ r.worker = risk.worker /\ r.alerts = risk.alerts /\ r.queue = risk.queue
    BY <1>2, <1>4 DEF Risks
  <2> QED BY <2>1
<1>5. CASE r = joined /\ Len(risk.queue) < QueueCapacity
  <2>1. /\ Append(risk.queue, b) \in Seq(Batches) /\ Len(Append(risk.queue, b)) = Len(risk.queue) + 1
        /\ InQueue(Append(risk.queue, b)) = InQueue(risk.queue) \cup lookups
        /\ CurrentIn(Append(risk.queue, b)) = CurrentIn(risk.queue) \cup lookups
    BY <1>1, <1>2, QueueAppends
  <2>2. Len(risk.queue) + 1 <= QueueCapacity
    BY SMT, <1>2, <1>5, Limits, LenProperties
  <2>3. r \in Risks /\ r.worker = risk.worker /\ r.alerts = risk.alerts
        /\ r.queue = Append(risk.queue, b)
    BY <1>5, <2>1, Zenon DEF Risks
  <2> QED BY <2>1, <2>2, <2>3
<1> HIDE DEF joined, full
<1> QED BY <1>3, <1>4, <1>5

\* A page of the current generation was not cleared; one of an older is dropped.
LEMMA AddKeeps == ActivityInv /\ add_locked => ActivityInv'
<1> SUFFICES ASSUME ActivityInv, add_locked PROVE ActivityInv' OBVIOUS
<1> USE DEF ActivityInv
<1>1. UNCHANGED <<made, recording, queryLog, table, history, clearing, forgotten>>
      /\ collector.at = "page" /\ collector.batch = {}
  BY DEF add_locked, AtRest
<1>2. /\ collector' \in Collectors /\ collector'.at \in {"drain", "flush", "idle"}
      /\ collector'.page = {} /\ collector'.batch = {}
  <2>1. CASE collector' = EndCollect(collector)
    BY <1>1, <2>1, ActivityParts, EndFacts
  <2>2. CASE collector' = [collector EXCEPT !.at = "drain", !.page = {}, !.pages = @ + 1]
    <3>1. collector.pages + 1 \in Nat BY SMT, ActivityParts DEF Collectors
    <3>2. /\ collector' \in Collectors /\ collector'.at = "drain"
          /\ collector'.page = {} /\ collector'.batch = collector.batch
      BY <2>2, <3>1, ActivityParts DEF Collectors
    <3> QED BY <1>1, <3>2
  <2> QED BY <2>1, <2>2 DEF add_locked
<1>3. AtRest' BY <1>1, <1>2 DEF AtRest
<1>4. CASE ~collector.current
  <2>1. UNCHANGED <<memory, risk>> BY <1>4 DEF add_locked
  <2>2. Handed' \subseteq Handed /\ CountsApart' BY <1>1, <1>2, <2>1 DEF Handed, CountsApart
  <2>3. Bygone' /\ BygoneRisk' BY <1>1, <1>2, <2>1 DEF Bygone, BygoneRisk
  <2> QED BY <1>1, <1>2, <1>3, <2>1, <2>2, <2>3, ActivityParts, RouterdSideKeeps
<1>5. CASE collector.current
  <2>1. /\ memory' = [memory EXCEPT !.pending = @ \cup collector.page, !.recent = @ \cup collector.page]
        /\ risk' = submit(risk, collector.page)
    BY <1>5 DEF add_locked
  <2>2. /\ memory' \in Memories /\ memory'.pending = memory.pending \cup collector.page
        /\ memory'.recent = memory.recent \cup collector.page
    BY <2>1, ActivityParts DEF Memories
  <2>3. /\ risk' \in Risks /\ risk'.worker = risk.worker /\ risk'.alerts = risk.alerts
        /\ Len(risk'.queue) <= QueueCapacity
        /\ InQueue(risk'.queue) \subseteq InQueue(risk.queue) \cup collector.page
        /\ CurrentIn(risk'.queue) \subseteq CurrentIn(risk.queue) \cup collector.page
    BY <2>1, ActivityParts, SubmitFacts
  <2>4. collector.page \cap (forgotten \cup clearing.cut) \subseteq queryLog.again BY <1>5 DEF Bygone
  <2>5. Handed' \subseteq Handed BY <1>1, <1>2, <2>2, <2>3 DEF Handed
  <2>6. CountsApart' BY <1>1, <1>2, <2>2 DEF CountsApart
  <2>7. Bygone' BY <1>1, <1>2, <2>2, <2>4 DEF Bygone
  <2>8. BygoneRisk' BY <1>1, <2>3, <2>4 DEF BygoneRisk
  <2> QED BY <1>1, <1>2, <1>3, <2>2, <2>3, <2>5, <2>6, <2>7, <2>8, ActivityParts, RouterdSideKeeps
<1> QED BY <1>4, <1>5, ActivityParts DEF Collectors

LEMMA FlushKeeps == ActivityInv /\ BeginFlush => ActivityInv'
<1> SUFFICES ASSUME ActivityInv, BeginFlush PROVE ActivityInv' OBVIOUS
<1> USE DEF ActivityInv
<1>1. UNCHANGED <<made, recording, queryLog, table, history, clearing, risk, forgotten>>
      /\ collector.at = "flush" /\ clearing.at = "idle" /\ collector.page = {} /\ clearing.cut = {}
  BY DEF BeginFlush, WriteFree, AtRest
<1>2. /\ collector' \in Collectors /\ collector'.at = "write" /\ collector'.page = collector.page
      /\ collector'.batch = memory.pending
  BY ActivityParts DEF BeginFlush, Collectors
<1>3. memory' \in Memories /\ memory'.pending = {} /\ memory'.recent = memory.recent
  BY ActivityParts DEF BeginFlush, Memories
<1>4. Handed' \subseteq Handed /\ AtRest' BY <1>1, <1>2, <1>3 DEF Handed, AtRest
<1>5. CountsApart' BY <1>1, <1>2, <1>3 DEF CountsApart
<1>6. Bygone' /\ BygoneRisk' BY <1>1, <1>2, <1>3 DEF Bygone, BygoneRisk
<1> QED BY <1>1, <1>2, <1>3, <1>4, <1>5, <1>6, ActivityParts, RouterdSideKeeps

LEMMA RecordDnsKeeps == ActivityInv /\ record_dns => ActivityInv'
<1> SUFFICES ASSUME ActivityInv, record_dns PROVE ActivityInv' OBVIOUS
<1> USE DEF ActivityInv
<1>1. UNCHANGED <<made, recording, queryLog, table, memory, clearing, risk, forgotten>>
      /\ collector.at = "write" /\ collector.page = {}
  BY DEF record_dns, AtRest
<1>2. /\ collector' \in Collectors /\ collector'.at = "idle" /\ collector'.page = collector.page
      /\ collector'.batch = {}
  BY ActivityParts DEF record_dns, Collectors
<1>3. history' \in SUBSET Lookups /\ history' \subseteq history \cup collector.batch
  BY ActivityParts DEF record_dns
<1>4. Handed' \subseteq Handed /\ AtRest' BY SMTT(30), <1>1, <1>2, <1>3 DEF Handed, AtRest
<1>5. CountsApart' BY <1>1, <1>2, <1>3 DEF CountsApart
<1>6. Bygone' /\ BygoneRisk' BY <1>1, <1>2, <1>3 DEF Bygone, BygoneRisk
<1> QED BY <1>1, <1>2, <1>3, <1>4, <1>5, <1>6, ActivityParts, RouterdSideKeeps

LEMMA DrainOffKeeps == ActivityInv /\ DrainOff => ActivityInv'
<1> SUFFICES ASSUME ActivityInv, DrainOff PROVE ActivityInv' OBVIOUS
<1> USE DEF ActivityInv
<1>1. UNCHANGED <<made, recording, memory, history, clearing, risk, forgotten>>
      /\ collector.at = "off" /\ collector.page = {} /\ collector.batch = {}
  BY DEF DrainOff, AtRest
<1>2. /\ collector' \in Collectors /\ collector'.at = "disable" /\ collector'.page = {}
      /\ collector'.batch = {}
  BY <1>1, ActivityParts DEF DrainOff, Collectors
<1>3. PICK e \in ensure_query_logging(FALSE) :
        \/ \E c \in CollectOutcomes(e.log, table) : table' = c.table /\ queryLog' = c.log
        \/ table' = table /\ queryLog' = e.log
  BY DEF DrainOff
<1>4. e.log \in Logs /\ e.log.file = queryLog.file /\ e.log.again = queryLog.again
  BY ActivityParts, EnsureFacts
<1>5. /\ table \in Tables /\ Cardinality(table.pending) <= PENDING_MAX_ENTRIES
      /\ e.log.file \cap table.pending \subseteq e.log.again
      /\ e.log.file \cap table.dropped \subseteq e.log.again
      /\ table.pending \cap table.dropped \subseteq e.log.again
  BY <1>4, ActivityParts DEF Limited, LogApart
<1>6. /\ queryLog' \in Logs /\ queryLog'.file \subseteq queryLog.file /\ queryLog.again \subseteq queryLog'.again
      /\ table' \in Tables /\ Cardinality(table'.pending) <= PENDING_MAX_ENTRIES
      /\ table'.pending \cup table'.dropped \subseteq Unread /\ LogApart'
  <2>1. CASE table' = table /\ queryLog' = e.log
    BY <1>4, <1>5, <2>1 DEF LogApart, Unread
  <2>2. ASSUME NEW c \in CollectOutcomes(e.log, table), table' = c.table, queryLog' = c.log
        PROVE  /\ queryLog' \in Logs /\ queryLog'.file \subseteq queryLog.file
               /\ queryLog.again \subseteq queryLog'.again
               /\ table' \in Tables /\ Cardinality(table'.pending) <= PENDING_MAX_ENTRIES
               /\ table'.pending \cup table'.dropped \subseteq Unread /\ LogApart'
    <3>1. /\ c.log \in Logs /\ c.log.file \subseteq e.log.file /\ e.log.again \subseteq c.log.again
          /\ c.table \in Tables /\ Cardinality(c.table.pending) <= PENDING_MAX_ENTRIES
          /\ c.table.pending \cup c.table.dropped \subseteq e.log.file \cup table.pending \cup table.dropped
          /\ c.log.file \cap c.table.pending \subseteq c.log.again
          /\ c.log.file \cap c.table.dropped \subseteq c.log.again
          /\ c.table.pending \cap c.table.dropped \subseteq c.log.again
      BY <1>4, <1>5, CollectFacts
    <3> QED BY <1>4, <2>2, <3>1 DEF LogApart, Unread
  <2> QED BY <1>3, <2>1, <2>2
<1>7. ActivityTyped' BY <1>1, <1>2, <1>6 DEF ActivityTyped
<1>8. Limited' BY <1>1, <1>6 DEF Limited
<1>9. Unread' \subseteq Unread BY <1>6 DEF Unread
<1>10. Handed' \subseteq Handed BY <1>1, <1>2 DEF Handed
<1>11. Numbered' /\ HandedApart' BY <1>1, <1>6, <1>9, <1>10 DEF Numbered, HandedApart
<1>12. CountsApart' /\ AtRest' BY <1>1, <1>2, <1>6 DEF CountsApart, AtRest
<1>13. Bygone' /\ BygoneRisk' BY <1>1, <1>2, <1>6 DEF Bygone, BygoneRisk
<1> QED BY <1>6, <1>7, <1>8, <1>11, <1>12, <1>13

LEMMA ResetFacts ==
  ASSUME NEW c \in Collectors, reset_memory(c)
  PROVE  /\ memory' \in Memories /\ memory'.pending = {} /\ memory'.recent = {}
         /\ collector' \in Collectors /\ collector'.at = c.at /\ collector'.page = c.page
         /\ collector'.batch = c.batch /\ ~collector'.current
<1>1. memory' = [pending |-> {}, recent |-> {}] /\ collector' = [c EXCEPT !.current = FALSE]
  BY DEF reset_memory, EmptyMemory
<1>2. memory' \in Memories /\ memory'.pending = {} /\ memory'.recent = {}
  BY <1>1 DEF Memories
<1>3. /\ collector' \in Collectors /\ collector'.at = c.at /\ collector'.page = c.page
      /\ collector'.batch = c.batch /\ ~collector'.current
  BY <1>1 DEF Collectors
<1> QED BY <1>2, <1>3

LEMMA DisableMemoryKeeps == ActivityInv /\ DisableMemory => ActivityInv'
<1> SUFFICES ASSUME ActivityInv, DisableMemory PROVE ActivityInv' OBVIOUS
<1> USE DEF ActivityInv
<1>1. UNCHANGED <<made, recording, queryLog, table, history, clearing, risk, forgotten>>
      /\ collector.at = "disable" /\ clearing.at = "idle" /\ collector.page = {} /\ collector.batch = {}
  BY DEF DisableMemory, WriteFree, AtRest
<1> DEFINE c == [collector EXCEPT !.at = "offRisk"]
<1>2. c \in Collectors /\ c.at = "offRisk" /\ c.page = {} /\ c.batch = {}
  BY SMT, <1>1, ActivityParts, CollectorMoves
<1>3. reset_memory(c) BY DEF DisableMemory
<1> HIDE DEF c
<1>4. /\ memory' \in Memories /\ memory'.pending = {} /\ memory'.recent = {}
      /\ collector' \in Collectors /\ collector'.at = "offRisk" /\ collector'.page = {}
      /\ collector'.batch = {} /\ ~collector'.current
  BY <1>2, <1>3, ResetFacts
<1>5. Handed' \subseteq Handed /\ AtRest' BY <1>1, <1>4 DEF Handed, AtRest
<1>6. CountsApart' BY <1>1, <1>4 DEF CountsApart
<1>7. Bygone' /\ BygoneRisk' BY <1>1, <1>4 DEF Bygone, BygoneRisk
<1> QED BY <1>1, <1>4, <1>5, <1>6, <1>7, ActivityParts, RouterdSideKeeps

-----------------------------------------------------------------------------
\* The risk service alone moves: what it holds is what it held before.
LEMMA RiskKeeps ==
  ASSUME ActivityInv,
         UNCHANGED <<made, recording, queryLog, table, collector, memory, history, clearing, forgotten>>,
         risk' \in Risks, Len(risk'.queue) <= QueueCapacity, Cardinality(risk'.alerts) <= MAX_ALERTS,
         InQueue(risk'.queue) \subseteq InQueue(risk.queue),
         CurrentIn(risk'.queue) \subseteq CurrentIn(risk.queue),
         risk'.alerts \subseteq risk.alerts \cup risk.worker.lookups,
         risk'.worker.lookups \subseteq risk.worker.lookups \cup CurrentIn(risk.queue),
         risk'.worker.lookups \subseteq risk.worker.lookups \cup InQueue(risk.queue)
  PROVE  ActivityInv'
<1> USE DEF ActivityInv
<1>1. Handed' \subseteq Handed /\ CountsApart' /\ AtRest' BY SMTT(30) DEF Handed, CountsApart, AtRest
<1>2. Bygone' BY DEF Bygone
<1>3. BygoneRisk' BY DEF BygoneRisk
<1> QED BY <1>1, <1>2, <1>3, ActivityParts, RouterdSideKeeps

LEMMA OutdatedFacts ==
  ASSUME risk \in Risks, Len(risk.queue) <= QueueCapacity, Cardinality(risk.alerts) <= MAX_ALERTS,
         NEW r, r = ClearedRisk \/ r = [risk EXCEPT !.queue = Outdated]
  PROVE  /\ r \in Risks /\ r.worker = risk.worker /\ r.alerts \subseteq risk.alerts
         /\ r = ClearedRisk => r.alerts = {}
         /\ Len(r.queue) <= QueueCapacity /\ Cardinality(r.alerts) <= MAX_ALERTS
         /\ InQueue(r.queue) = InQueue(risk.queue) /\ CurrentIn(r.queue) = {}
<1>1. risk.queue \in Seq(Batches) /\ risk.alerts \in SUBSET Lookups BY DEF Risks
<1>2. /\ Outdated \in Seq(Batches) /\ Len(Outdated) = Len(risk.queue)
      /\ InQueue(Outdated) = InQueue(risk.queue) /\ CurrentIn(Outdated) = {}
  BY <1>1, QueueOutdated
<1>3. Cardinality({}) <= MAX_ALERTS BY SMT, FS_EmptySet, Limits
<1>4. CASE r = ClearedRisk
  <2>1. r \in Risks /\ r.worker = risk.worker /\ r.alerts = {} /\ r.queue = Outdated
    BY <1>2, <1>4 DEF Risks, ClearedRisk
  <2> QED BY <1>2, <1>3, <2>1
<1>5. CASE r = [risk EXCEPT !.queue = Outdated]
  <2>1. r \in Risks /\ r.worker = risk.worker /\ r.alerts = risk.alerts /\ r.queue = Outdated
    BY <1>2, <1>5 DEF Risks
  <2>2. r = ClearedRisk => r.alerts = {} BY DEF ClearedRisk, Risks
  <2> QED BY <1>2, <2>1, <2>2
<1> QED BY <1>4, <1>5

LEMMA DisableRiskKeeps == ActivityInv /\ DisableRisk => ActivityInv'
<1> SUFFICES ASSUME ActivityInv, DisableRisk PROVE ActivityInv' OBVIOUS
<1> USE DEF ActivityInv
<1>1. UNCHANGED <<made, recording, queryLog, table, memory, history, clearing, forgotten>>
      /\ collector.at = "offRisk" /\ clearing.at = "idle" /\ collector.page = {} /\ collector.batch = {}
  BY DEF DisableRisk, AtRest
<1>2. collector' = [collector EXCEPT !.at = "offStore"] BY DEF DisableRisk
<1>3. /\ collector' \in Collectors /\ collector'.at = "offStore" /\ collector'.page = {}
      /\ collector'.batch = {}
  BY SMT, <1>1, <1>2, ActivityParts, CollectorMoves
<1>4. risk' = ClearedRisk \/ risk' = [risk EXCEPT !.queue = Outdated] BY DEF DisableRisk
<1>5. /\ risk' \in Risks /\ risk'.worker = risk.worker /\ risk'.alerts \subseteq risk.alerts
      /\ Len(risk'.queue) <= QueueCapacity /\ Cardinality(risk'.alerts) <= MAX_ALERTS
      /\ InQueue(risk'.queue) = InQueue(risk.queue) /\ CurrentIn(risk'.queue) = {}
  BY <1>4, ActivityParts, OutdatedFacts
<1>6. Handed' \subseteq Handed /\ AtRest' BY SMTT(30), <1>1, <1>3, <1>5 DEF Handed, AtRest
<1>7. CountsApart' BY <1>1, <1>3 DEF CountsApart
<1>8. Bygone' BY <1>1, <1>3 DEF Bygone
<1>9. BygoneRisk' BY <1>1, <1>5 DEF BygoneRisk
<1> QED BY SMTT(30), <1>1, <1>3, <1>5, <1>6, <1>7, <1>8, <1>9, ActivityParts, RouterdSideKeeps

LEMMA DisableStoreKeeps == ActivityInv /\ DisableStore => ActivityInv'
<1> SUFFICES ASSUME ActivityInv, DisableStore PROVE ActivityInv' OBVIOUS
<1> USE DEF ActivityInv
<1>1. UNCHANGED <<made, recording, queryLog, table, memory, clearing, risk, forgotten>>
      /\ collector.at = "offStore" /\ collector.page = {} /\ collector.batch = {}
  BY DEF DisableStore, AtRest
<1>2. collector' = [collector EXCEPT !.at = "idle"] BY DEF DisableStore
<1>3. /\ collector' \in Collectors /\ collector'.at = "idle" /\ collector'.page = {}
      /\ collector'.batch = {}
  BY SMTT(30), <1>1, <1>2, ActivityParts, CollectorMoves
<1>4. history' \in SUBSET Lookups /\ history' \subseteq history BY ActivityParts DEF DisableStore
<1>5. Handed' \subseteq Handed /\ AtRest' BY SMTT(30), <1>1, <1>3, <1>4 DEF Handed, AtRest
<1>6. CountsApart' BY <1>1, <1>3, <1>4 DEF CountsApart
<1>7. Bygone' /\ BygoneRisk' BY <1>1, <1>3, <1>4 DEF Bygone, BygoneRisk
<1> QED BY <1>1, <1>3, <1>4, <1>5, <1>6, <1>7, ActivityParts, RouterdSideKeeps

LEMMA SettingsKeep == ActivityInv /\ handle_put_dns_activity_settings => ActivityInv'
<1> SUFFICES ASSUME ActivityInv, handle_put_dns_activity_settings PROVE ActivityInv' OBVIOUS
<1> USE DEF ActivityInv
<1>1. UNCHANGED <<made, queryLog, table, collector, memory, history, clearing, risk, forgotten>>
  BY DEF handle_put_dns_activity_settings
<1>2. recording' \in BOOLEAN BY DEF handle_put_dns_activity_settings
<1>3. Handed' \subseteq Handed /\ AtRest' /\ CountsApart' BY <1>1 DEF Handed, AtRest, CountsApart
<1>4. Bygone' /\ BygoneRisk' BY <1>1 DEF Bygone, BygoneRisk
<1> QED BY <1>1, <1>2, <1>3, <1>4, ActivityParts, RouterdSideKeeps

\* The generation turns: the page under way is an older one's from now on.
LEMMA ClearMemoryKeeps == ActivityInv /\ ClearMemory => ActivityInv'
<1> SUFFICES ASSUME ActivityInv, ClearMemory PROVE ActivityInv' OBVIOUS
<1> USE DEF ActivityInv
<1>1. UNCHANGED <<made, recording, queryLog, table, history, risk, forgotten>>
      /\ collector.at \notin {"write", "offRisk", "offStore"} /\ collector.batch = {}
  BY DEF ClearMemory, WriteFree, AtRest
<1>2. reset_memory(collector) BY DEF ClearMemory
<1>3. /\ memory' \in Memories /\ memory'.pending = {} /\ memory'.recent = {}
      /\ collector' \in Collectors /\ collector'.at = collector.at /\ collector'.page = collector.page
      /\ collector'.batch = collector.batch /\ ~collector'.current
  BY <1>2, ActivityParts, ResetFacts
<1>4. ReceivedPage \in SUBSET Lookups /\ ReceivedPage \subseteq Handed
  BY ActivityParts DEF ReceivedPage, Handed
<1>5. clearing' \in Clears /\ clearing'.at = "risk" /\ clearing'.cut = ReceivedPage
  BY <1>4 DEF ClearMemory, Clears
<1>6. Handed' \subseteq Handed BY <1>1, <1>3, <1>4, <1>5 DEF Handed
<1>7. AtRest' BY <1>1, <1>3, <1>5 DEF AtRest
<1>8. CountsApart' BY <1>1, <1>3 DEF CountsApart
<1>9. Bygone' /\ BygoneRisk' BY <1>1, <1>3, <1>5 DEF Bygone, BygoneRisk
<1> QED BY SMTT(30), <1>1, <1>3, <1>5, <1>6, <1>7, <1>8, <1>9, ActivityParts, RouterdSideKeeps

LEMMA NoClearIs == NoClear \in Clears /\ NoClear.at = "idle" /\ NoClear.cut = {}
BY DEF NoClear, Clears
LEMMA NoBatchIs == NoBatch \in Batches /\ NoBatch.lookups = {}
BY DEF NoBatch, Batches

LEMMA ClearRiskKeeps == ActivityInv /\ ClearRisk => ActivityInv'
<1> SUFFICES ASSUME ActivityInv, ClearRisk PROVE ActivityInv' OBVIOUS
<1> USE DEF ActivityInv
<1>1. UNCHANGED <<made, recording, queryLog, table, collector, memory, history, forgotten>>
      /\ clearing.at = "risk" /\ risk.worker.lookups = {}
  BY NoBatchIs DEF ClearRisk, RiskIdle
<1>2. risk' = ClearedRisk \/ risk' = [risk EXCEPT !.queue = Outdated] BY DEF ClearRisk
<1>3. /\ risk' \in Risks /\ risk'.worker = risk.worker /\ risk'.alerts \subseteq risk.alerts
      /\ risk' = ClearedRisk => risk'.alerts = {}
      /\ Len(risk'.queue) <= QueueCapacity /\ Cardinality(risk'.alerts) <= MAX_ALERTS
      /\ InQueue(risk'.queue) = InQueue(risk.queue) /\ CurrentIn(risk'.queue) = {}
  BY <1>2, ActivityParts, OutdatedFacts
<1>4. /\ clearing' \in Clears /\ clearing'.at \in {"idle", "store"}
      /\ clearing'.cut \subseteq clearing.cut /\ (clearing'.at = "idle" => clearing'.cut = {})
      /\ clearing'.at = "store" => risk' = ClearedRisk
  <2>1. CASE clearing' = NoClear BY <2>1, NoClearIs
  <2>2. CASE risk' = ClearedRisk /\ clearing' = [clearing EXCEPT !.at = "store"]
    BY <2>2, ActivityParts DEF Clears
  <2> QED BY <2>1, <2>2 DEF ClearRisk
<1>5. Handed' \subseteq Handed BY SMTT(30), <1>1, <1>3, <1>4 DEF Handed
<1>6. AtRest' BY <1>1, <1>4 DEF AtRest
<1>7. CountsApart' BY <1>1 DEF CountsApart
<1>8. Bygone' BY <1>1, <1>4 DEF Bygone
<1>9. BygoneRisk' BY <1>1, <1>3, <1>4 DEF BygoneRisk
<1> QED BY SMTT(30), <1>1, <1>3, <1>4, <1>5, <1>6, <1>7, <1>8, <1>9, ActivityParts, RouterdSideKeeps

LEMMA ClearDnsKeeps == ActivityInv /\ clear_dns => ActivityInv'
<1> SUFFICES ASSUME ActivityInv, clear_dns PROVE ActivityInv' OBVIOUS
<1> USE DEF ActivityInv
<1>1. UNCHANGED <<made, recording, queryLog, table, collector, memory, risk>>
      /\ clearing.at = "store" /\ clearing' = NoClear
  BY DEF clear_dns
<1>2. clearing' \in Clears /\ clearing'.at = "idle" /\ clearing'.cut = {} BY <1>1, NoClearIs
<1>3. \/ history' = {} /\ forgotten' = forgotten \cup clearing.cut
      \/ UNCHANGED <<history, forgotten>>
  BY DEF clear_dns
<1>4. /\ history' \in SUBSET Lookups /\ history' \subseteq history
      /\ forgotten' \in SUBSET Lookups /\ forgotten' \subseteq forgotten \cup clearing.cut
      /\ forgotten' \cap history' \subseteq queryLog.again
  BY <1>3, ActivityParts DEF Bygone
<1>5. Handed' \subseteq Handed BY SMTT(30), <1>1, <1>2, <1>4 DEF Handed
<1>6. AtRest' BY <1>1, <1>2 DEF AtRest
<1>7. CountsApart' BY <1>1, <1>4 DEF CountsApart
<1>8. Bygone' BY <1>1, <1>2, <1>4 DEF Bygone
<1>9. BygoneRisk' BY <1>1, <1>2, <1>4 DEF BygoneRisk
<1> QED BY SMTT(30), <1>1, <1>2, <1>4, <1>5, <1>6, <1>7, <1>8, <1>9, ActivityParts, RouterdSideKeeps

-----------------------------------------------------------------------------
LEMMA TakeBatchKeeps == ActivityInv /\ TakeBatch => ActivityInv'
<1> SUFFICES ASSUME ActivityInv, TakeBatch PROVE ActivityInv' OBVIOUS
<1>1. UNCHANGED <<made, recording, queryLog, table, collector, memory, history, clearing, forgotten>>
      /\ risk.queue # <<>>
  BY DEF TakeBatch
<1> DEFINE batch == Head(risk.queue)
           tail == Tail(risk.queue)
           rest == [risk EXCEPT !.queue = tail]
<1>2. /\ tail \in Seq(Batches) /\ Len(tail) <= Len(risk.queue) /\ batch \in Batches
      /\ InQueue(tail) \subseteq InQueue(risk.queue) /\ CurrentIn(tail) \subseteq CurrentIn(risk.queue)
      /\ batch.lookups \subseteq InQueue(risk.queue)
      /\ batch.current => batch.lookups \subseteq CurrentIn(risk.queue)
  BY <1>1, ActivityParts, QueueTakes
<1>3. \/ risk' = rest
      \/ batch.current /\ risk' = [rest EXCEPT !.worker = batch]
      \/ risk' = [rest EXCEPT !.dropped = @ \cup batch.lookups]
  BY DEF TakeBatch
<1> HIDE DEF batch, tail
<1>4. rest \in Risks /\ rest.queue = tail /\ rest.worker = risk.worker /\ rest.alerts = risk.alerts
  BY <1>2, ActivityParts, Zenon DEF Risks
<1>5. rest.dropped \in SUBSET Lookups /\ batch.lookups \in SUBSET Lookups
  BY <1>2, <1>4 DEF Risks, Batches
<1> HIDE DEF rest
<1>6. /\ risk' \in Risks /\ risk'.queue = tail /\ risk'.alerts = risk.alerts
      /\ \/ risk'.worker = risk.worker
         \/ batch.current /\ risk'.worker = batch
  <2>1. CASE risk' = rest BY <2>1, <1>4
  <2>2. CASE batch.current /\ risk' = [rest EXCEPT !.worker = batch]
    BY <2>2, <1>2, <1>4 DEF Risks
  <2>3. CASE risk' = [rest EXCEPT !.dropped = @ \cup batch.lookups]
    BY <2>3, <1>4, <1>5 DEF Risks
  <2> QED BY <1>3, <2>1, <2>2, <2>3
<1>7. Len(tail) \in Nat /\ Len(risk.queue) \in Nat BY <1>2, ActivityParts, LenProperties
<1>8. Len(tail) <= QueueCapacity BY SMT, <1>2, <1>7, ActivityParts, Limits
<1> QED BY <1>1, <1>2, <1>6, <1>8, ActivityParts, RiskKeeps

LEMMA CommitAlertsKeeps == ActivityInv /\ CommitAlerts => ActivityInv'
<1> SUFFICES ASSUME ActivityInv, CommitAlerts PROVE ActivityInv' OBVIOUS
<1>1. UNCHANGED <<made, recording, queryLog, table, collector, memory, history, clearing, forgotten>>
  BY DEF CommitAlerts
<1> DEFINE all == risk.alerts \cup risk.worker.lookups
           kept == IF recording THEN Newest(all, MAX_ALERTS) ELSE risk.alerts
<1>2. risk.worker.lookups \in SUBSET Lookups /\ risk.dropped \in SUBSET Lookups
  BY ActivityParts DEF Risks, Batches
<1>3. Newest(all, MAX_ALERTS) \subseteq all /\ Cardinality(Newest(all, MAX_ALERTS)) <= MAX_ALERTS
  BY <1>2, ActivityParts, Limits, NewestOnes
<1>4. kept \in SUBSET Lookups /\ kept \subseteq all /\ Cardinality(kept) <= MAX_ALERTS
  BY <1>2, <1>3, ActivityParts
<1>5. \/ risk' = [risk EXCEPT !.worker = NoBatch, !.alerts = kept]
      \/ risk' = [risk EXCEPT !.worker = NoBatch, !.dropped = @ \cup risk.worker.lookups]
  BY DEF CommitAlerts
<1> HIDE DEF kept
<1>6. /\ risk' \in Risks /\ risk'.queue = risk.queue /\ risk'.worker = NoBatch
      /\ risk'.alerts = kept \/ risk'.alerts = risk.alerts
  BY ZenonT(30), <1>2, <1>4, <1>5, ActivityParts, NoBatchIs DEF Risks
<1>7. risk'.worker.lookups = {} BY <1>6, NoBatchIs
<1> QED BY <1>1, <1>4, <1>6, <1>7, ActivityParts, RiskKeeps

LEMMA RiskMaintenanceKeeps == ActivityInv /\ RiskMaintenance => ActivityInv'
<1> SUFFICES ASSUME ActivityInv, RiskMaintenance PROVE ActivityInv' OBVIOUS
<1>1. UNCHANGED <<made, recording, queryLog, table, collector, memory, history, clearing, forgotten>>
      /\ risk' = ClearedRisk
  BY DEF RiskMaintenance
<1>2. /\ risk' \in Risks /\ risk'.worker = risk.worker /\ risk'.alerts \subseteq risk.alerts
      /\ Len(risk'.queue) <= QueueCapacity /\ Cardinality(risk'.alerts) <= MAX_ALERTS
      /\ InQueue(risk'.queue) = InQueue(risk.queue) /\ CurrentIn(risk'.queue) = {}
  BY <1>1, ActivityParts, OutdatedFacts
<1> QED BY <1>1, <1>2, RiskKeeps

LEMMA RestingFacts ==
  /\ Resting \in Collectors /\ Resting.at = "idle" /\ Resting.page = {} /\ Resting.batch = {}
  /\ EmptyMemory \in Memories /\ EmptyMemory.pending = {} /\ EmptyMemory.recent = {}
<1>1. Resting \in Collectors /\ Resting.at = "idle" /\ Resting.page = {} /\ Resting.batch = {}
  BY DEF Resting, Collectors
<1>2. EmptyMemory \in Memories /\ EmptyMemory.pending = {} /\ EmptyMemory.recent = {}
  BY ZenonT(30) DEF EmptyMemory, Memories
<1> QED BY <1>1, <1>2

LEMMA RestartsKeep == ActivityInv /\ (RouterdRestarts \/ FinalFlush) => ActivityInv'
<1> SUFFICES ASSUME ActivityInv, RouterdRestarts \/ FinalFlush PROVE ActivityInv' OBVIOUS
<1> USE DEF ActivityInv
<1>1. UNCHANGED <<made, recording, queryLog, table, forgotten>>
      /\ collector' = Resting /\ memory' = EmptyMemory
  BY DEF RouterdRestarts, FinalFlush
<1>2. /\ collector' \in Collectors /\ collector'.at = "idle" /\ collector'.page = {} /\ collector'.batch = {}
      /\ memory' \in Memories /\ memory'.pending = {} /\ memory'.recent = {}
  BY <1>1, RestingFacts
<1>3. /\ clearing' \in Clears /\ clearing'.at = "idle" /\ clearing'.cut = {}
  BY NoClearIs, ActivityParts DEF RouterdRestarts, FinalFlush, WriteFree, AtRest
<1>4. history' \in SUBSET Lookups /\ history' \subseteq history \cup memory.pending
  BY ActivityParts DEF RouterdRestarts, FinalFlush
<1>5. /\ risk' \in Risks /\ risk'.queue = <<>> /\ risk'.alerts = risk.alerts /\ risk'.worker.lookups = {}
  <2>1. CASE RouterdRestarts
    <3>1. risk' = [risk EXCEPT !.queue = <<>>, !.worker = NoBatch, !.dropped = {}]
      BY <2>1 DEF RouterdRestarts
    <3>2. risk' \in Risks /\ risk'.queue = <<>> /\ risk'.alerts = risk.alerts /\ risk'.worker = NoBatch
      BY <3>1, QueueEmpty, NoBatchIs, ActivityParts DEF Risks
    <3> QED BY <3>2, NoBatchIs
  <2>2. CASE FinalFlush
    <3>1. risk' = [risk EXCEPT !.queue = <<>>, !.dropped = {}] /\ risk.worker = NoBatch
      BY <2>2 DEF FinalFlush, RiskIdle
    <3>2. risk' \in Risks /\ risk'.queue = <<>> /\ risk'.alerts = risk.alerts /\ risk'.worker = NoBatch
      BY <3>1, QueueEmpty, ActivityParts DEF Risks
    <3> QED BY <3>2, NoBatchIs
  <2> QED BY <2>1, <2>2
<1>6. Len(risk'.queue) <= QueueCapacity /\ InQueue(risk'.queue) = {} /\ CurrentIn(risk'.queue) = {}
  BY SMTT(30), <1>5, QueueEmpty, Limits
<1>7. Handed' \subseteq Handed BY SMTT(30), <1>1, <1>2, <1>3, <1>4, <1>5, <1>6 DEF Handed
<1>8. AtRest' BY <1>2, <1>3 DEF AtRest
<1>9. CountsApart' BY <1>2 DEF CountsApart
<1>10. Bygone' BY <1>1, <1>2, <1>3, <1>4 DEF Bygone
<1>11. BygoneRisk' BY <1>1, <1>3, <1>5, <1>6 DEF BygoneRisk
<1> QED BY SMTT(30), <1>1, <1>2, <1>3, <1>4, <1>5, <1>6, <1>7, <1>8, <1>9, <1>10, <1>11, ActivityParts, RouterdSideKeeps

-----------------------------------------------------------------------------
LEMMA ActivityBegins == ActivityInit => ActivityInv
<1> SUFFICES ASSUME ActivityInit PROVE ActivityInv OBVIOUS
<1>1. /\ made = 0 /\ recording = FALSE /\ troubles = 0 /\ collector = Resting /\ memory = EmptyMemory
      /\ history = {} /\ clearing = NoClear /\ forgotten = {}
      /\ queryLog = [dropIn |-> FALSE, dnsmasq |-> "plain", file |-> {}, again |-> {}]
      /\ table = [pending |-> {}, dropped |-> {}]
      /\ risk = [queue |-> <<>>, worker |-> NoBatch, alerts |-> {}, dropped |-> {}]
  BY DEF ActivityInit
<1>2. queryLog \in Logs /\ queryLog.file = {} BY <1>1 DEF Logs
<1>3. table \in Tables /\ table.pending = {} /\ table.dropped = {} BY <1>1 DEF Tables
<1>4. /\ risk \in Risks /\ risk.queue = <<>> /\ risk.alerts = {} /\ risk.worker = NoBatch
  BY <1>1, QueueEmpty, NoBatchIs DEF Risks
<1>5. /\ collector \in Collectors /\ collector.at = "idle" /\ collector.page = {} /\ collector.batch = {}
      /\ memory \in Memories /\ memory.pending = {} /\ memory.recent = {}
      /\ clearing \in Clears /\ clearing.at = "idle" /\ clearing.cut = {}
  BY <1>1, RestingFacts, NoClearIs
<1>6. ActivityTyped
  <2>0. made = 0 BY <1>1
  <2>1. made \in 0..MaxLookups BY SMT, <2>0, Limits
  <2>3. recording \in BOOLEAN BY <1>1, Zenon
  <2>2. history \in SUBSET Lookups /\ forgotten \in SUBSET Lookups BY <1>1
  <2> QED BY <1>2, <1>3, <1>4, <1>5, <2>1, <2>2, <2>3 DEF ActivityTyped
<1>7. Limited BY SMTT(30), <1>3, <1>4, QueueEmpty, FS_EmptySet, Limits DEF Limited
<1>8. Handed = {} BY <1>1, <1>4, <1>5, NoBatchIs, QueueEmpty DEF Handed
<1>9. Unread = {} BY <1>2, <1>3 DEF Unread
<1>10. Numbered /\ LogApart /\ HandedApart BY <1>2, <1>3, <1>8, <1>9 DEF Numbered, LogApart, HandedApart
<1>11. CountsApart /\ AtRest BY <1>1, <1>5 DEF CountsApart, AtRest
<1>12. Bygone /\ BygoneRisk BY <1>1, <1>5 DEF Bygone, BygoneRisk
<1> QED BY <1>6, <1>7, <1>10, <1>11, <1>12 DEF ActivityInv

LEMMA ActivityStands == ActivityInv /\ UNCHANGED activityVars => ActivityInv'
<1> SUFFICES ASSUME ActivityInv, UNCHANGED activityVars PROVE ActivityInv' OBVIOUS
<1> USE DEF ActivityInv, activityVars
<1>1. ActivityTyped' BY DEF ActivityTyped
<1>2. Limited' BY DEF Limited
<1>3. Handed' = Handed /\ Unread' = Unread BY DEF Handed, Unread
<1>4. Numbered' /\ HandedApart' BY <1>3 DEF Numbered, HandedApart
<1>5. LogApart' /\ CountsApart' /\ AtRest' BY DEF LogApart, CountsApart, AtRest
<1>6. Bygone' /\ BygoneRisk' BY DEF Bygone, BygoneRisk
<1> QED BY <1>1, <1>2, <1>4, <1>5, <1>6

LEMMA ActivityStepKeeps == ActivityInv /\ [ActivityNext]_activityVars => ActivityInv'
BY SMTT(30), BeginRoundKeeps, DrainKeeps, AddKeeps, FlushKeeps, RecordDnsKeeps, DrainOffKeeps,
   DisableMemoryKeeps, DisableRiskKeeps, DisableStoreKeeps, TakeBatchKeeps, CommitAlertsKeeps,
   RiskMaintenanceKeeps, QueryArrivesKeeps, CollectKeeps, ResolverKeeps, SettingsKeep,
   ClearMemoryKeeps, ClearRiskKeeps, ClearDnsKeeps, RestartsKeep, ActivityStands
   DEF ActivityNext, CollectorStep, RiskStep

LEMMA ActivityShows == ActivityInv => ActivitySound
<1> SUFFICES ASSUME ActivityInv PROVE ActivitySound OBVIOUS
<1> USE DEF ActivityInv
<1>1. ActivityTypeOK
  BY ActivityParts DEF ActivityTypeOK, ActivityTyped, Limited, Logs, Tables, Memories
<1>2. ClearedStaysCleared BY DEF ClearedStaysCleared, Bygone, BygoneRisk
<1> DEFINE places == <<queryLog.file, table.pending, table.dropped, collector.page,
                       memory.pending, collector.batch, history>>
<1>3. CountedOnce
  <2>1. collector.page \cap collector.batch = {} BY DEF AtRest
  <2>2. \A S \in {queryLog.file, table.pending, table.dropped} :
          \A T \in {collector.page, memory.pending, collector.batch, history} : S \cap T \subseteq queryLog.again
    BY SMT DEF HandedApart, Handed, Unread
  <2>3. DOMAIN places = 1..7 BY SMT
  <2>4. \A i, j \in 1..7 : i < j => places[i] \cap places[j] \subseteq queryLog.again
    BY SMT, <2>1, <2>2 DEF LogApart, CountsApart
  <2> HIDE DEF places
  <2>5. \A i, j \in 1..7 : i # j => places[i] \cap places[j] \subseteq queryLog.again
    <3> TAKE i, j \in 1..7
    <3> HAVE i # j
    <3>1. CASE i < j BY <2>4, <3>1
    <3>2. CASE j < i
      <4>1. places[j] \cap places[i] \subseteq queryLog.again BY <2>4, <3>2
      <4> QED BY <4>1
    <3> QED BY SMT, <3>1, <3>2
  <2>6. \A i, j \in DOMAIN places : i # j => places[i] \cap places[j] \subseteq queryLog.again BY <2>3, <2>5, Zenon
  <2> QED BY <2>6 DEF CountedOnce, places
<1> QED BY <1>1, <1>2, <1>3 DEF ActivitySound

\* The DNS history (collect_dns_activity, the flush, the risk worker and the
\* clearing) is sound for every size of the table, the queue and the pages:
\* every lookup is stored at most once over failed writes and restarts, and
\* nothing that was recorded before a clearing comes back after it. The one
\* exception of both are lines the helper read and could not truncate away.
THEOREM ActivityIsSound == ActivitySpec => []ActivitySound
<1>1. ActivityInit => ActivityInv BY ActivityBegins
<1>2. ActivityInv /\ [ActivityNext]_activityVars => ActivityInv' BY ActivityStepKeeps
<1>3. ActivityInv => ActivitySound BY ActivityShows
<1> QED BY <1>1, <1>2, <1>3, PTL DEF ActivitySpec

-----------------------------------------------------------------------------
(***************************************************************************)
(* ManagementEndpoint, for every set of addresses and names and any number *)
(* of concurrent handshakes. AloneIsCovered speaks of handshakes that have *)
(* been served; what makes it true is that the key in the cache describes  *)
(* the certificate that is in the resolver, or on its way there.           *)
(* CacheDescribes states it, and Steady carries it through a handshake     *)
(* during which nothing changed.                                           *)
(***************************************************************************)

AllNames == Lans \union Tunnels \union Names

Certs == [names : SUBSET AllNames, epoch : Nat, paired : BOOLEAN]

Shakes == [at : {"idle", "refresh", "store", "read", "served"}, active : EndpointConfigs,
           cert : Certs, steady : BOOLEAN, failed : BOOLEAN]

EndpointTyped ==
    /\ current \in EndpointConfigs /\ epoch \in Nat
    /\ pendingConfig = {} \/ \E c \in EndpointConfigs : pendingConfig = {c}
    /\ disk \in Certs /\ resolver \in Certs
    /\ hs \in [Handshakes -> Shakes]
    /\ certCache.epoch \in Nat

NotPostdated ==
    /\ disk.epoch <= epoch /\ resolver.epoch <= epoch /\ certCache.epoch <= epoch
    /\ \A h \in Handshakes : hs[h].cert.epoch <= epoch

MutexHeld ==
    /\ holder = {h \in Handshakes : hs[h].at = "refresh"}
    /\ \A h, other \in Handshakes : hs[h].at = "refresh" /\ hs[other].at = "refresh" => h = other

(* A certificate lives up to a key of the cache. *)
Describes(kept, cert) ==
    /\ kept.epoch = cert.epoch
    /\ \E c \in EndpointConfigs, extra \in SUBSET AllNames :
         kept.key = certificate_cache_key(c, extra) /\ SansOf(c, extra) \subseteq cert.names

OneAtATime ==
    alone => \A h, other \in Handshakes : hs[h].at # "idle" /\ hs[other].at # "idle" => h = other

CacheDescribes ==
    alone =>
        /\ (\A h \in Handshakes : hs[h].at # "store") => Describes(certCache, resolver)
        /\ \A h \in Handshakes : hs[h].at = "store" => Describes(certCache, hs[h].cert)

Needed == SansOf(current, pending_sans(current, pendingConfig))

Enough(cert) == Needed \subseteq cert.names /\ cert.epoch = epoch

Steady ==
    alone =>
        \A h \in Handshakes : hs[h].steady =>
            /\ hs[h].at = "refresh" => hs[h].active = current
            /\ hs[h].at = "store" => Enough(hs[h].cert)
            /\ hs[h].at = "read" /\ ~hs[h].failed => Enough(resolver)
            /\ hs[h].at = "served" /\ ~hs[h].failed => Enough(hs[h].cert)

EndpointInv ==
    /\ EndpointTyped /\ NotPostdated /\ MutexHeld /\ ServedPairMatches
    /\ OneAtATime /\ CacheDescribes /\ Steady

-----------------------------------------------------------------------------
(* What the operators promise. *)

(* The candidate's addresses are names a certificate may have. *)
LEMMA PendingNames ==
    ASSUME NEW c \in EndpointConfigs, NEW candidates \in SUBSET EndpointConfigs
    PROVE  /\ pending_sans(c, candidates) \in SUBSET AllNames
           /\ SansOf(c, pending_sans(c, candidates)) \in SUBSET AllNames
<1>1. ASSUME NEW p \in candidates
      PROVE  {p.lan, p.name} \union (IF p.enabled THEN {p.wg} ELSE {}) \subseteq AllNames
    BY DEF EndpointConfigs, AllNames
<1>2. UNION {{p.lan, p.name} \union (IF p.enabled THEN {p.wg} ELSE {}) : p \in candidates} \subseteq AllNames
    BY <1>1
<1>3. pending_sans(c, candidates) \in SUBSET AllNames
    BY <1>2 DEF pending_sans
<1> QED
    BY <1>3 DEF SansOf, EndpointConfigs, AllNames

(* Whatever a request may ask for is among the names. *)
LEMMA DestinationsCovered ==
    ASSUME NEW c \in EndpointConfigs, NEW candidates \in SUBSET EndpointConfigs
    PROVE  management_destinations(c, candidates) \subseteq SansOf(c, pending_sans(c, candidates))
<1>1. CASE candidates = {}
    BY <1>1 DEF management_destinations, SansOf
<1>2. CASE candidates # {}
    <2> DEFINE own(p) == {p.lan, p.name} \union (IF p.enabled THEN {p.wg} ELSE {})
               add(d, lan) == {d.name} \union (IF lan THEN {d.lan} ELSE {}) \union (IF d.enabled THEN {d.wg} ELSE {})
               each(p) == IF p.only THEN add(p, FALSE) ELSE add(c, TRUE) \union add(p, TRUE)
    <2>1. management_destinations(c, candidates) = UNION {each(p) : p \in candidates}
        BY <1>2 DEF management_destinations
    <2>2. ASSUME NEW p \in candidates
          PROVE  own(p) \subseteq SansOf(c, pending_sans(c, candidates))
        <3>1. own(p) \subseteq UNION {own(q) : q \in candidates}
            OBVIOUS
        <3> QED
            BY <3>1 DEF pending_sans, SansOf
    <2>3. ASSUME NEW p \in candidates
          PROVE  each(p) \subseteq SansOf(c, pending_sans(c, candidates))
        <3>1. each(p) \subseteq own(p) \union {c.lan, c.wg, c.name}
            OBVIOUS
        <3> QED
            BY SMT, <2>2, <3>1 DEF SansOf
    <2> QED
        BY <2>1, <2>3
<1> QED
    BY <1>1, <1>2

(* A certificate that was ensured is a matching pair, valid now, and names
   what it was ensured for. *)
LEMMA Ensured ==
    ASSUME EndpointTyped, NEW c \in EndpointConfigs, NEW extra \in SUBSET AllNames
    PROVE  LET cert == ensure_certificate(c, extra)
           IN  cert \in Certs /\ cert.paired /\ cert.epoch = epoch /\ SansOf(c, extra) \subseteq cert.names
<1>1. SansOf(c, extra) \in SUBSET AllNames
    BY DEF SansOf, EndpointConfigs, AllNames
<1> QED
    BY <1>1 DEF ensure_certificate, certificate_matches_config, certificate_time_valid,
                generate_self_signed, EndpointTyped, Certs

(* Two keys of the cache are equal only if they ask for the same names. *)
LEMMA KeyTellsNames ==
    ASSUME NEW c, NEW d, NEW extra, NEW more,
           certificate_cache_key(c, extra) = certificate_cache_key(d, more)
    PROVE  SansOf(c, extra) = SansOf(d, more)
<1>1. extra = more /\ <<c.lan, c.wg, c.enabled, c.name>> = <<d.lan, d.wg, d.enabled, d.name>>
    BY DEF certificate_cache_key
<1> QED
    BY <1>1 DEF SansOf

LEMMA EndpointStarts == EndpointInit => EndpointInv
<1> SUFFICES ASSUME EndpointInit PROVE EndpointInv
    OBVIOUS
<1>1. FirstEndpoint \in EndpointConfigs /\ {} \in SUBSET AllNames
    BY EndpointAssumption
<1>2. generate_self_signed(FirstEndpoint, {}) \in Certs /\ generate_self_signed(FirstEndpoint, {}).paired
    <2>1. SansOf(FirstEndpoint, {}) \in SUBSET AllNames
        BY <1>1 DEF SansOf, EndpointConfigs, AllNames
    <2> QED
        BY <2>1 DEF generate_self_signed, Certs, EndpointInit
<1>3. \A h \in Handshakes : hs[h] = NoShake
    BY DEF EndpointInit
<1>4. NoShake \in Shakes
    BY <1>1, <1>2 DEF NoShake, Shakes
<1>5. EndpointTyped
    BY <1>1, <1>2, <1>4 DEF EndpointInit, EndpointTyped
<1>6. NotPostdated /\ ServedPairMatches
    BY SMT, <1>2, <1>3 DEF EndpointInit, NotPostdated, ServedPairMatches, NoShake, generate_self_signed
<1>7. MutexHeld /\ OneAtATime /\ Steady
    BY <1>3 DEF EndpointInit, MutexHeld, OneAtATime, Steady, NoShake
<1>8. Describes(certCache, resolver)
    BY <1>1 DEF EndpointInit, Describes, generate_self_signed
<1> QED
    BY SMT, <1>3, <1>5, <1>6, <1>7, <1>8 DEF EndpointInv, CacheDescribes, NoShake

-----------------------------------------------------------------------------
(* The steps of a handshake. *)

LEMMA HelloKept == ASSUME EndpointInv, NEW h \in Handshakes, ClientHello(h) PROVE EndpointInv'
<1> USE DEF EndpointInv, ClientHello
<1>1. hs' = [hs EXCEPT ![h] = [NoShake EXCEPT !.at = "refresh", !.active = current]]
    OBVIOUS
<1>2. SansOf(FirstEndpoint, {}) \in SUBSET AllNames
    BY EndpointAssumption DEF SansOf, EndpointConfigs, AllNames
<1>3. /\ NoShake \in Shakes /\ NoShake.cert \in Certs /\ NoShake.cert.paired /\ NoShake.cert.epoch = epoch
      /\ [NoShake EXCEPT !.at = "refresh", !.active = current] \in Shakes
    BY <1>2, EndpointAssumption DEF NoShake, generate_self_signed, Certs, Shakes, EndpointTyped
<1>4. EndpointTyped'
    BY <1>1, <1>3 DEF EndpointTyped
<1>5. \A g \in Handshakes : hs'[g] = IF g = h THEN [NoShake EXCEPT !.at = "refresh", !.active = current] ELSE hs[g]
    BY <1>1 DEF EndpointTyped
<1>6. hs'[h].at = "refresh" /\ hs'[h].active = current /\ hs'[h].cert = NoShake.cert
    <2> DEFINE t == [NoShake EXCEPT !.at = "refresh", !.active = current]
    <2>1. t.at = "refresh" /\ t.active = current /\ t.cert = NoShake.cert
        BY <1>3 DEF Shakes
    <2>2. hs'[h] = t
        BY <1>5
    <2> HIDE DEF t
    <2> QED
        BY <2>1, <2>2
<1>7. NotPostdated' /\ ServedPairMatches'
    BY SMT, <1>3, <1>5, <1>6 DEF NotPostdated, ServedPairMatches, EndpointTyped
<1>8. MutexHeld'
    BY SMT, <1>5, <1>6 DEF MutexHeld
<1>9. OneAtATime'
    <2> SUFFICES ASSUME alone', NEW g \in Handshakes, NEW k \in Handshakes,
                        hs'[g].at # "idle", hs'[k].at # "idle"
                 PROVE  g = k
        BY DEF OneAtATime
    <2>1. \A other \in Handshakes \ {h} : hs[other].at = "idle"
        OBVIOUS
    <2> QED
        BY SMT, <1>5, <2>1
<1>10. CacheDescribes'
    BY ZenonT(30), <1>5, <1>6 DEF CacheDescribes, Describes
<1>11. Steady'
    BY ZenonT(30), <1>5, <1>6 DEF Steady, Enough, Needed
<1> QED
    BY <1>4, <1>7, <1>8, <1>9, <1>10, <1>11

LEMMA RefreshKept == ASSUME EndpointInv, NEW h \in Handshakes, Refresh(h) PROVE EndpointInv'
<1> DEFINE extra == pending_sans(hs[h].active, pendingConfig)
           cert == ensure_certificate(hs[h].active, extra)
<1> USE DEF EndpointInv
<1>1. hs[h].at = "refresh" /\ hs[h].active \in EndpointConfigs /\ pendingConfig \in SUBSET EndpointConfigs
    BY DEF Refresh, EndpointTyped, Shakes
<1>2. extra \in SUBSET AllNames
    BY <1>1, PendingNames
<1>3. cert \in Certs /\ cert.paired /\ cert.epoch = epoch /\ SansOf(hs[h].active, extra) \subseteq cert.names
    BY <1>1, <1>2, Ensured
<1>4. alone => \A g \in Handshakes : hs[g].at # "idle" => g = h
    BY <1>1 DEF OneAtATime
<1>5. UNCHANGED <<current, pendingConfig, epoch, resolver, alone>> /\ holder' = {}
    BY DEF Refresh
<1>6. hs[h].steady /\ alone => Needed = SansOf(hs[h].active, extra)
    BY <1>1 DEF Steady, Needed
<1>7. holder' = {g \in Handshakes \ {h} : hs[g].at = "refresh"}
    BY <1>1, <1>5 DEF MutexHeld, Refresh
<1> HIDE DEF extra, cert
<1>8. CASE /\ Hit(h, extra) /\ Move(h, "read") /\ UNCHANGED <<disk, certCache>>
    <2>1. \A g \in Handshakes : hs'[g] = IF g = h THEN [hs[h] EXCEPT !.at = "read"] ELSE hs[g]
        BY <1>8 DEF Move, EndpointTyped
    <2>2. alone => Describes(certCache, resolver)
        BY <1>1, <1>4 DEF CacheDescribes
    <2>0. /\ hs'[h].at = "read" /\ hs'[h].cert = hs[h].cert
          /\ hs'[h].steady = hs[h].steady /\ hs'[h].failed = hs[h].failed
        BY <2>1 DEF EndpointTyped, Shakes
    <2>3. hs[h].steady /\ alone => Enough(resolver)
        <3> SUFFICES ASSUME hs[h].steady, alone PROVE Enough(resolver)
            OBVIOUS
        <3>1. PICK c \in EndpointConfigs, more \in SUBSET AllNames :
                  certCache.key = certificate_cache_key(c, more) /\ SansOf(c, more) \subseteq resolver.names
            BY <2>2 DEF Describes
        <3>2. SansOf(c, more) = SansOf(hs[h].active, extra)
            <4>1. certificate_cache_key(c, more) = certificate_cache_key(hs[h].active, extra)
                BY <1>8, <3>1 DEF Hit
            <4> QED
                BY SMT, <4>1, KeyTellsNames
        <3> QED
            BY <1>6, <1>8, <2>2, <3>1, <3>2 DEF Enough, Describes, Hit
    <2>4. EndpointTyped'
        BY SMT, <1>5, <1>8, <2>1 DEF EndpointTyped, Move, Shakes
    <2>5. NotPostdated' /\ ServedPairMatches'
        BY <1>5, <1>8, <2>1, <2>0 DEF NotPostdated, ServedPairMatches
    <2>6. MutexHeld' /\ OneAtATime'
        BY SMT, <1>1, <1>5, <1>7, <2>1, <2>0 DEF MutexHeld, OneAtATime
    <2>7. CacheDescribes'
        BY <1>1, <1>4, <1>5, <1>8, <2>1, <2>2, <2>0 DEF CacheDescribes, Describes
    <2>8. Steady'
        BY SMT, <1>5, <1>8, <2>1, <2>3, <2>0 DEF Steady, Enough, Needed
    <2> QED
        BY <2>4, <2>5, <2>6, <2>7, <2>8
<1>9. CASE /\ disk' = cert
           /\ certCache' = [key |-> certificate_cache_key(hs[h].active, extra), epoch |-> cert.epoch]
           /\ hs' = [hs EXCEPT ![h].at = "store", ![h].cert = cert]
    <2>1. \A g \in Handshakes : hs'[g] = IF g = h THEN [hs[h] EXCEPT !.at = "store", !.cert = cert] ELSE hs[g]
        BY <1>9 DEF EndpointTyped
    <2>2. hs'[h].at = "store" /\ hs'[h].cert = cert
        BY <2>1 DEF EndpointTyped, Shakes
    <2>3. Describes(certCache', cert)
        BY <1>1, <1>2, <1>3, <1>9 DEF Describes
    <2>4. EndpointTyped'
        <3>1. cert.epoch \in Nat
            BY <1>3 DEF EndpointTyped
        <3>2. hs' \in [Handshakes -> Shakes]
            BY ZenonT(30), <1>3, <1>9 DEF EndpointTyped, Shakes
        <3> QED
            BY <1>3, <1>5, <1>9, <3>1, <3>2 DEF EndpointTyped
    <2>5. NotPostdated' /\ ServedPairMatches'
        BY SMT, <1>3, <1>5, <1>9, <2>1, <2>2 DEF NotPostdated, ServedPairMatches, EndpointTyped
    <2>6. MutexHeld' /\ OneAtATime'
        BY SMT, <1>1, <1>5, <1>7, <2>1, <2>2 DEF MutexHeld, OneAtATime
    <2>7. CacheDescribes'
        BY <1>1, <1>4, <1>5, <2>1, <2>2, <2>3 DEF CacheDescribes, Describes
    <2>8. hs'[h].steady = hs[h].steady
        BY <2>1 DEF EndpointTyped, Shakes
    <2>9. Steady'
        BY SMT, <1>3, <1>5, <1>6, <2>1, <2>2, <2>8 DEF Steady, Enough, Needed
    <2> QED
        BY <2>4, <2>5, <2>6, <2>7, <2>9
<1>10. CASE /\ disk' \in write_outcomes(cert)
            /\ hs' = [hs EXCEPT ![h].at = "read", ![h].failed = TRUE]
            /\ UNCHANGED certCache
    <2>1. \A g \in Handshakes : hs'[g] = IF g = h THEN [hs[h] EXCEPT !.at = "read", !.failed = TRUE] ELSE hs[g]
        BY <1>10 DEF EndpointTyped
    <2>2. hs'[h].at = "read" /\ hs'[h].failed /\ hs'[h].cert = hs[h].cert
        BY <2>1 DEF EndpointTyped, Shakes
    <2>3. disk' \in Certs /\ disk'.epoch <= epoch
        <3>1. [disk EXCEPT !.paired = FALSE] \in Certs /\ [disk EXCEPT !.paired = FALSE].epoch = disk.epoch
            BY DEF EndpointTyped, Certs
        <3>2. epoch <= epoch
            BY SMT DEF EndpointTyped
        <3> QED
            BY <1>3, <1>10, <3>1, <3>2 DEF write_outcomes, EndpointTyped, NotPostdated
    <2>4. EndpointTyped'
        <3>1. hs' \in [Handshakes -> Shakes]
            BY ZenonT(30), <1>10 DEF EndpointTyped, Shakes
        <3> QED
            BY <1>5, <1>10, <2>3, <3>1 DEF EndpointTyped
    <2>5. NotPostdated' /\ ServedPairMatches'
        BY ZenonT(30), <1>5, <1>10, <2>1, <2>2, <2>3 DEF NotPostdated, ServedPairMatches
    <2>6. MutexHeld' /\ OneAtATime'
        BY SMT, <1>1, <1>5, <1>7, <2>1, <2>2 DEF MutexHeld, OneAtATime
    <2>7. CacheDescribes'
        BY <1>1, <1>4, <1>5, <1>10, <2>1, <2>2 DEF CacheDescribes, Describes
    <2>8. Steady'
        BY SMT, <1>5, <2>1, <2>2 DEF Steady, Enough, Needed
    <2> QED
        BY <2>4, <2>5, <2>6, <2>7, <2>8
<1> QED
    BY <1>8, <1>9, <1>10 DEF Refresh, extra, cert

LEMMA StoreKept == ASSUME EndpointInv, NEW h \in Handshakes, Store(h) PROVE EndpointInv'
<1> USE DEF EndpointInv
<1>1. \A g \in Handshakes : hs'[g] = IF g = h THEN [hs[h] EXCEPT !.at = "read"] ELSE hs[g]
    BY DEF Store, Move, EndpointTyped
<1>2. /\ hs[h].at = "store" /\ hs'[h].at = "read" /\ hs'[h].cert = hs[h].cert
      /\ hs'[h].steady = hs[h].steady /\ hs[h].cert \in Certs
    BY <1>1 DEF Store, EndpointTyped, Shakes
<1>3. /\ resolver' = hs[h].cert
      /\ UNCHANGED <<current, pendingConfig, epoch, disk, certCache, holder, alone>>
    BY DEF Store
<1>4. alone => \A g \in Handshakes : hs[g].at # "idle" => g = h
    BY <1>2 DEF OneAtATime
<1>5. EndpointTyped'
    BY <1>2, <1>3 DEF EndpointTyped, Store, Move, Shakes
<1>6. NotPostdated' /\ ServedPairMatches'
    BY <1>1, <1>2, <1>3 DEF NotPostdated, ServedPairMatches
<1>7. MutexHeld' /\ OneAtATime'
    BY SMT, <1>1, <1>2, <1>3 DEF MutexHeld, OneAtATime
<1>8. CacheDescribes'
    BY <1>1, <1>2, <1>3, <1>4 DEF CacheDescribes, Describes
<1>9. Steady'
    BY <1>1, <1>2, <1>3, <1>4 DEF Steady, Enough, Needed
<1> QED
    BY <1>5, <1>6, <1>7, <1>8, <1>9

LEMMA ServeKept == ASSUME EndpointInv, NEW h \in Handshakes, Serve(h) PROVE EndpointInv'
<1> USE DEF EndpointInv
<1>1. \A g \in Handshakes : hs'[g] = IF g = h THEN [hs[h] EXCEPT !.at = "served", !.cert = resolver] ELSE hs[g]
    BY DEF Serve, EndpointTyped
<1>2. /\ hs[h].at = "read" /\ hs'[h].at = "served" /\ hs'[h].cert = resolver
      /\ hs'[h].steady = hs[h].steady /\ hs'[h].failed = hs[h].failed
    BY SMT, <1>1 DEF Serve, EndpointTyped, Shakes
<1>3. UNCHANGED <<current, pendingConfig, epoch, disk, certCache, resolver, holder, alone>>
    BY DEF Serve
<1>4. EndpointTyped'
    BY ZenonT(30), <1>3 DEF EndpointTyped, Serve, Shakes
<1>5. NotPostdated' /\ ServedPairMatches'
    BY <1>1, <1>2, <1>3 DEF NotPostdated, ServedPairMatches
<1>6. MutexHeld' /\ OneAtATime'
    BY SMT, <1>1, <1>2, <1>3 DEF MutexHeld, OneAtATime
<1>7. CacheDescribes'
    BY <1>1, <1>2, <1>3 DEF CacheDescribes, Describes
<1>8. Steady'
    BY SMT, <1>1, <1>2, <1>3 DEF Steady, Enough, Needed
<1> QED
    BY <1>4, <1>5, <1>6, <1>7, <1>8

(* A handshake at rest. *)
LEMMA RestTyped ==
    ASSUME EndpointTyped
    PROVE  /\ NoShake \in Shakes /\ NoShake.at = "idle"
           /\ NoShake.cert.paired /\ NoShake.cert.epoch = epoch
<1>1. SansOf(FirstEndpoint, {}) \in SUBSET AllNames
    BY EndpointAssumption DEF SansOf, EndpointConfigs, AllNames
<1> QED
    BY <1>1, EndpointAssumption DEF NoShake, generate_self_signed, Certs, Shakes, EndpointTyped

LEMMA PartKept == ASSUME EndpointInv, NEW h \in Handshakes, Part(h) PROVE EndpointInv'
<1> USE DEF EndpointInv
<1>1. \A g \in Handshakes : hs'[g] = IF g = h THEN NoShake ELSE hs[g]
    BY DEF Part, EndpointTyped
<1>2. NoShake \in Shakes /\ NoShake.at = "idle" /\ NoShake.cert.paired /\ NoShake.cert.epoch = epoch
    BY RestTyped
<1>3. /\ hs[h].at = "served"
      /\ UNCHANGED <<current, pendingConfig, epoch, disk, certCache, resolver, holder, alone>>
    BY DEF Part
<1>4. EndpointTyped'
    BY <1>2, <1>3 DEF EndpointTyped, Part
<1>5. NotPostdated' /\ ServedPairMatches'
    BY SMT, <1>1, <1>2, <1>3 DEF NotPostdated, ServedPairMatches, EndpointTyped
<1>6. MutexHeld' /\ OneAtATime'
    BY SMT, <1>1, <1>2, <1>3 DEF MutexHeld, OneAtATime
<1>7. CacheDescribes'
    BY <1>1, <1>2, <1>3 DEF CacheDescribes, Describes
<1>8. Steady'
    BY SMT, <1>1, <1>2, <1>3 DEF Steady, Enough, Needed
<1> QED
    BY <1>4, <1>5, <1>6, <1>7, <1>8

-----------------------------------------------------------------------------
(* The engine, the clock and the process. *)

LEMMA DisturbKept ==
    ASSUME EndpointInv, Disturb, current' \in EndpointConfigs, epoch' \in {epoch, epoch + 1},
           pendingConfig' = {} \/ \E c \in EndpointConfigs : pendingConfig' = {c}
    PROVE  EndpointInv'
<1> USE DEF EndpointInv
<1>1. \A g \in Handshakes : hs'[g] = [hs[g] EXCEPT !.steady = FALSE]
    BY DEF Disturb
<1>2. \A g \in Handshakes :
         /\ hs'[g] \in Shakes /\ hs'[g].at = hs[g].at /\ hs'[g].cert = hs[g].cert /\ ~hs'[g].steady
         /\ hs[g].cert.epoch \in Nat
    <2> SUFFICES ASSUME NEW g \in Handshakes
                 PROVE  /\ hs'[g] \in Shakes /\ hs'[g].at = hs[g].at /\ hs'[g].cert = hs[g].cert /\ ~hs'[g].steady
                        /\ hs[g].cert.epoch \in Nat
        OBVIOUS
    <2>1. hs[g] \in Shakes /\ hs'[g] = [hs[g] EXCEPT !.steady = FALSE]
        BY <1>1 DEF EndpointTyped
    <2>2. hs[g].cert \in Certs
        BY <2>1 DEF Shakes
    <2>3. hs[g].cert.epoch \in Nat
        BY <2>2 DEF Certs
    <2> QED
        BY <2>1, <2>3 DEF Shakes
<1>3. UNCHANGED <<disk, certCache, resolver, holder, alone>>
    BY DEF Disturb
<1>4. EndpointTyped'
    BY SMT, <1>2, <1>3 DEF EndpointTyped, Disturb
<1>5. NotPostdated' /\ ServedPairMatches'
    BY SMT, <1>2, <1>3 DEF NotPostdated, ServedPairMatches, EndpointTyped, Certs
<1>6. MutexHeld' /\ OneAtATime'
    BY <1>2, <1>3 DEF MutexHeld, OneAtATime
<1>7. CacheDescribes'
    BY <1>2, <1>3 DEF CacheDescribes, Describes
<1>8. Steady'
    BY <1>2 DEF Steady
<1> QED
    BY <1>4, <1>5, <1>6, <1>7, <1>8

LEMMA RestartKept == ASSUME EndpointInv, RestartProcess PROVE EndpointInv'
<1> USE DEF EndpointInv
<1>1. NoShake \in Shakes /\ NoShake.at = "idle" /\ NoShake.cert.paired /\ NoShake.cert.epoch = epoch
    BY RestTyped
<1>2. /\ current \in EndpointConfigs /\ {} \in SUBSET AllNames
      /\ \A g \in Handshakes : hs'[g] = NoShake
      /\ disk' = ensure_certificate(current, {}) /\ resolver' = disk' /\ pendingConfig' = {}
      /\ UNCHANGED <<current, epoch>> /\ holder' = {}
      /\ certCache' = [key |-> certificate_cache_key(current, {}), epoch |-> disk'.epoch]
    BY DEF RestartProcess, EndpointTyped
<1>3. disk' \in Certs /\ disk'.paired /\ disk'.epoch = epoch /\ SansOf(current, {}) \subseteq disk'.names
    BY <1>2, Ensured
<1>4. EndpointTyped'
    BY SMT, <1>1, <1>2, <1>3 DEF EndpointTyped, RestartProcess
<1>5. NotPostdated' /\ ServedPairMatches'
    BY SMT, <1>1, <1>2, <1>3 DEF NotPostdated, ServedPairMatches, EndpointTyped
<1>6. MutexHeld' /\ OneAtATime' /\ Steady'
    BY <1>1, <1>2 DEF MutexHeld, OneAtATime, Steady
<1>7. CacheDescribes'
    BY <1>1, <1>2, <1>3 DEF CacheDescribes, Describes
<1> QED
    BY <1>4, <1>5, <1>6, <1>7

LEMMA EndpointKept == EndpointInv /\ [EndpointNext]_endpointVars => EndpointInv'
<1> SUFFICES ASSUME EndpointInv, [EndpointNext]_endpointVars PROVE EndpointInv'
    OBVIOUS
<1>1. ASSUME NEW h \in Handshakes, ClientHello(h) \/ Refresh(h) \/ Store(h) \/ Serve(h) \/ Part(h)
      PROVE  EndpointInv'
    BY <1>1, HelloKept, RefreshKept, StoreKept, ServeKept, PartKept
<1>2. ASSUME NEW c \in EndpointConfigs, Submit(c) \/ Conclude(c) PROVE EndpointInv'
    BY <1>2, DisturbKept DEF Submit, Conclude, EndpointInv, EndpointTyped
<1>3. CASE CorrectClock
    BY <1>3, DisturbKept DEF CorrectClock, EndpointInv, EndpointTyped
<1>4. CASE RestartProcess
    BY <1>4, RestartKept
<1>5. CASE UNCHANGED endpointVars
    BY <1>5 DEF endpointVars, EndpointInv, EndpointTyped, NotPostdated, MutexHeld, ServedPairMatches,
                OneAtATime, CacheDescribes, Describes, Steady, Enough, Needed
<1> QED
    BY <1>1, <1>2, <1>3, <1>4, <1>5 DEF EndpointNext

LEMMA EndpointAlways == EndpointSpec => []EndpointInv
BY EndpointStarts, EndpointKept, PTL DEF EndpointSpec

-----------------------------------------------------------------------------
(* Types, certificates that are never dated ahead, and the mutex of the cache,
   held exactly by the handshake between its two reads of the engine. *)
THEOREM EndpointTypeCorrect == EndpointSpec => []EndpointTypeOK
<1>1. EndpointInv => EndpointTypeOK
    <2> SUFFICES ASSUME EndpointInv PROVE EndpointTypeOK
        OBVIOUS
    <2> USE DEF EndpointInv
    <2>1. ASSUME NEW cert \in Certs, cert.epoch <= epoch PROVE cert \in Certificates
        BY SMT, <2>1 DEF Certs, Certificates, AllNames, EndpointTyped
    <2>2. pendingConfig \subseteq EndpointConfigs /\ Cardinality(pendingConfig) <= 1
        <3>1. CASE pendingConfig = {}
            BY SMT, <3>1, FS_EmptySet
        <3>2. ASSUME NEW c \in EndpointConfigs, pendingConfig = {c}
              PROVE  pendingConfig \subseteq EndpointConfigs /\ Cardinality(pendingConfig) <= 1
            BY SMT, <3>2, FS_Singleton
        <3> QED
            BY <3>1, <3>2 DEF EndpointTyped
    <2>3. current \in EndpointConfigs /\ certCache.epoch \in 0 .. epoch
        BY SMT DEF EndpointTyped, NotPostdated
    <2>4. disk \in Certificates /\ resolver \in Certificates
        BY <2>1 DEF EndpointTyped, NotPostdated
    <2>5. ASSUME NEW h \in Handshakes
          PROVE  /\ hs[h].at \in {"idle", "refresh", "store", "read", "served"}
                 /\ hs[h].active \in EndpointConfigs /\ hs[h].cert \in Certificates
        <3>1. hs[h] \in Shakes /\ hs[h].cert.epoch <= epoch
            BY DEF EndpointTyped, NotPostdated
        <3> QED
            BY <2>1, <3>1 DEF Shakes
    <2> QED
        BY <2>2, <2>3, <2>4, <2>5 DEF EndpointTypeOK, MutexHeld
<1> QED
    BY <1>1, EndpointAlways, PTL

(* Every address and name a request may use while a transaction is pending
   is one the certificate is made for. *)
THEOREM EndpointNamesDestinations == EndpointSpec => []AllowedAreCovered
<1>1. EndpointInv => AllowedAreCovered
    BY DestinationsCovered DEF EndpointInv, EndpointTyped, AllowedAreCovered
<1> QED
    BY <1>1, EndpointAlways, PTL

(* No failed write, crash or restart makes a handshake use a key and a
   certificate that do not belong together. *)
THEOREM EndpointServesPairs == EndpointSpec => []ServedPairMatches
<1>1. EndpointInv => ServedPairMatches
    BY DEF EndpointInv
<1> QED
    BY <1>1, EndpointAlways, PTL

(* As long as no two handshakes have overlapped since the start, a handshake
   during which nothing changed and no write failed is served a certificate
   that is valid and names everything the listener admits. *)
THEOREM EndpointCovers == EndpointSpec => []AloneIsCovered
<1>1. EndpointInv => AloneIsCovered
    <2> SUFFICES ASSUME EndpointInv, NEW h \in Handshakes, alone, Finished(h) PROVE Covers(h)
        BY DEF AloneIsCovered
    <2>1. Enough(hs[h].cert)
        BY DEF EndpointInv, Steady, Finished
    <2>2. management_destinations(current, pendingConfig) \subseteq Needed
        BY DestinationsCovered DEF EndpointInv, EndpointTyped, Needed
    <2> QED
        BY <2>1, <2>2 DEF Enough, Covers
<1> QED
    BY <1>1, EndpointAlways, PTL

\* EndpointSound: a handshake that overlapped no other is served a matching key and a
\* certificate that names every destination the listener admits.
THEOREM EndpointsSound == EndpointSpec => []EndpointSound
BY EndpointTypeCorrect, EndpointNamesDestinations, EndpointServesPairs, EndpointCovers,
   PTL DEF EndpointSound
=============================================================================
