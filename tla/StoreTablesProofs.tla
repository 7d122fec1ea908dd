------------------------- MODULE StoreTablesProofs -------------------------
(***************************************************************************)
(* That the stores keep their tables in agreement and implement            *)
(* HeaderStore, for all constants: every number of heights, writers and    *)
(* calls, every database an older version may have left, and crashes       *)
(* between any two transactions.                                           *)
(***************************************************************************)
EXTENDS StoreTables, IntervalLemmas

-----------------------------------------------------------------------------
(* The tables of the current schema                                        *)

\* What Database says when the version is the current one.
Current(t) ==
    /\ t \in Tables
    /\ t.ranges.header = StoredIn(t)
    /\ t.hashes = {x \in [height : Heights, chain : Chains] : t.headers[x.height] = x.chain}
    /\ t.ranges.sampled \subseteq StoredIn(t)
    /\ t.ranges.pruned \cap StoredIn(t) = {}
    /\ \A h \in Heights \ StoredIn(t) : t.metadata[h] = {}
    /\ Linked(t)

\* The backends, and the version each writes.
LEMMA CurrentDatabase ==
    ASSUME NEW b \in {"redb", "memory", "indexedDb"}, NEW t
    PROVE  Database(b, CurrentVersion[b], t) <=> Current(t)
<1>1. CASE b = "redb"
  BY <1>1 DEF Database, Current, CurrentVersion, Consistent, HeaderRangesRecorded, SampledKey
<1>2. CASE b = "memory"
  BY <1>2 DEF Database, Current, CurrentVersion, Consistent, HeaderRangesRecorded, SampledKey
<1>3. CASE b = "indexedDb"
  BY <1>3 DEF Database, Current, CurrentVersion, Consistent, HeaderRangesRecorded, SampledKey
<1> QED
  BY <1>1, <1>2, <1>3

\* The operations have the arguments the store takes.
LEMMA KnownOperations ==
    ASSUME NEW op \in Operations
    PROVE  \/ /\ op.kind = "insert" /\ op.lo \in Heights /\ op.hi \in Heights
              /\ op.chain \in Chains /\ op.lo <= op.hi
           \/ op.kind = "remove" /\ op.height \in Heights
           \/ op.kind = "mark" /\ op.height \in Heights
           \/ op.kind = "metadata" /\ op.height \in Heights /\ op.cids \in SUBSET Cids
  BY StoreAssumption

\* No check for tables that disagree fails: in a consistent store an operation
\* succeeds or is refused for what it asks.
LEMMA NoStoredDataError ==
    ASSUME NEW t, Current(t), NEW op \in Operations
    PROVE  Outcome(t, op) \in {"ok", "ConstraintsNotMet", "NeighborsVerificationFailed",
                               "NotFound"}
<1>1. CASE op.kind = "insert"
  <2>1. ASSUME InsertionConstraintsMet(t, op.lo, op.hi)
        PROVE  /\ \A h \in {op.lo - 1, op.hi + 1} \cap t.ranges.header : t.headers[h] # None
               /\ StoredIn(t) \cap (op.lo..op.hi) = {}
               /\ t.hashes \cap [height : op.lo..op.hi, chain : {op.chain}] = {}
    <3>1. t.ranges.header = StoredIn(t) /\ StoredIn(t) \cap (op.lo..op.hi) = {}
      BY <2>1 DEF Current, InsertionConstraintsMet
    <3>2. ASSUME NEW x \in t.hashes PROVE x.height \in StoredIn(t)
      BY <3>2, StoreAssumption DEF Current, StoredIn
    <3>3. t.hashes \cap [height : op.lo..op.hi, chain : {op.chain}] = {}
      BY <3>1, <3>2
    <3> QED
      BY <3>1, <3>3 DEF StoredIn
  <2> QED
    BY <1>1, <2>1 DEF Outcome
<1>2. CASE op.kind = "remove"
  <2>1. ASSUME op.height \in t.ranges.header
        PROVE  [height |-> op.height, chain |-> t.headers[op.height]] \in t.hashes
    BY <1>2, <2>1 DEF Current, StoredIn, Tables
  <2> QED
    BY <1>2, <2>1 DEF Outcome
<1>3. CASE op.kind \in {"mark", "metadata"}
  BY <1>3 DEF Outcome
<1> QED
  BY <1>1, <1>2, <1>3, KnownOperations

\* Tables whose columns are replaced are tables.
LEMMA ReplacedTables ==
    ASSUME NEW t \in Tables, NEW u,
           DOMAIN u = DOMAIN t, u = [x \in DOMAIN u |-> u[x]],
           u.headers \in [Heights -> Chains \cup {None}],
           u.hashes \in SUBSET [height : Heights, chain : Chains],
           u.ranges \in [RangeKeys -> SUBSET Heights],
           u.metadata \in [Heights -> SUBSET Cids],
           u.identity \in 0..(MaxCrashes + 1)
    PROVE  u \in Tables
  BY DEF Tables

\* insert keeps the tables in agreement; what it does to the four sets.
LEMMA InsertedIsCurrent ==
    ASSUME NEW t, Current(t), NEW lo \in Heights, NEW hi \in Heights, NEW chain \in Chains,
           lo <= hi, InsertionConstraintsMet(t, lo, hi),
           VerifiedAgainstNeighbours(t, lo, hi, chain)
    PROVE  LET u == Inserted(t, lo, hi, chain)
           IN  /\ Current(u)
               /\ StoredIn(u) = StoredIn(t) \cup (lo..hi)
               /\ u.ranges.sampled = t.ranges.sampled \ (lo..hi)
               /\ u.ranges.pruned = t.ranges.pruned \ (lo..hi)
               /\ u.metadata = t.metadata
<1> DEFINE u == Inserted(t, lo, hi, chain)
<1>0. lo..hi \subseteq Heights
  BY StoreAssumption DEF Heights
<1>1. /\ t \in Tables
      /\ t.ranges.header = StoredIn(t)
      /\ t.hashes = {x \in [height : Heights, chain : Chains] : t.headers[x.height] = x.chain}
      /\ t.ranges.sampled \subseteq StoredIn(t)
      /\ t.ranges.pruned \cap StoredIn(t) = {}
      /\ \A h \in Heights \ StoredIn(t) : t.metadata[h] = {}
      /\ Linked(t)
  BY DEF Current
<1>2. /\ u.headers = [h \in Heights |-> IF h \in lo..hi THEN chain ELSE t.headers[h]]
      /\ u.hashes = t.hashes \cup [height : lo..hi, chain : {chain}]
      /\ u.ranges = [t.ranges EXCEPT !.header = @ \cup (lo..hi), !.sampled = @ \ (lo..hi),
                                     !.pruned = @ \ (lo..hi)]
      /\ u.metadata = t.metadata /\ u.identity = t.identity
      /\ DOMAIN u = {"headers", "hashes", "ranges", "metadata", "identity"}
  BY <1>1 DEF Inserted, Tables, RangeKeys
<1>3. u \in Tables
  <2>1. u.headers \in [Heights -> Chains \cup {None}]
    BY <1>1, <1>2 DEF Tables
  <2>2. u.hashes \in SUBSET [height : Heights, chain : Chains]
    BY <1>0, <1>1, <1>2 DEF Tables
  <2>3. u.ranges \in [RangeKeys -> SUBSET Heights]
    <3>1. t.ranges \in [RangeKeys -> SUBSET Heights]
      BY <1>1 DEF Tables
    <3>2. /\ t.ranges.header \cup (lo..hi) \in SUBSET Heights
          /\ t.ranges.sampled \ (lo..hi) \in SUBSET Heights
          /\ t.ranges.pruned \ (lo..hi) \in SUBSET Heights
      BY <1>0, <3>1 DEF RangeKeys
    <3> QED
      BY <1>2, <3>1, <3>2, Zenon
  <2>4. DOMAIN u = DOMAIN t /\ u = [x \in DOMAIN u |-> u[x]]
    BY Zenon DEF Inserted
  <2>5. t.metadata \in [Heights -> SUBSET Cids] /\ t.identity \in 0..(MaxCrashes + 1)
    BY <1>1 DEF Tables
  <2> HIDE DEF u
  <2> QED
    BY <1>1, <1>2, <2>1, <2>2, <2>3, <2>4, <2>5, ReplacedTables, Zenon
<1>4. StoredIn(u) = StoredIn(t) \cup (lo..hi)
  BY <1>0, <1>1, <1>2, StoreAssumption DEF StoredIn, Tables
<1>5. /\ u.ranges.header = t.ranges.header \cup (lo..hi)
      /\ u.ranges.sampled = t.ranges.sampled \ (lo..hi)
      /\ u.ranges.pruned = t.ranges.pruned \ (lo..hi)
  BY <1>1, <1>2 DEF Tables, RangeKeys
<1>6. u.hashes = {x \in [height : Heights, chain : Chains] : u.headers[x.height] = x.chain}
  <2>1. (lo..hi) \cap StoredIn(t) = {}
    BY <1>1 DEF InsertionConstraintsMet
  <2>2. ASSUME NEW x \in [height : Heights, chain : Chains]
        PROVE  x \in u.hashes <=> u.headers[x.height] = x.chain
    <3>1. CASE x.height \in lo..hi
      BY <1>1, <1>2, <2>1, <2>2, <3>1, StoreAssumption DEF StoredIn
    <3>2. CASE x.height \notin lo..hi
      BY <1>1, <1>2, <2>2, <3>2
    <3> QED
      BY <3>1, <3>2
  <2>3. u.hashes \subseteq [height : Heights, chain : Chains]
    BY <1>3 DEF Tables
  <2> QED
    BY <2>2, <2>3
<1>7. Linked(u)
  <2> SUFFICES ASSUME NEW h \in StoredIn(u), h + 1 \in StoredIn(u)
               PROVE  u.headers[h] = u.headers[h + 1]
    BY DEF Linked
  <2>1. h \in Heights /\ h + 1 \in Heights /\ h \in Int /\ lo \in Int /\ hi \in Int
    BY StoreAssumption DEF StoredIn, Heights
  <2>2. CASE h \in lo..hi /\ h + 1 \in lo..hi
    BY <1>2, <2>1, <2>2
  <2>3. CASE h \in lo..hi /\ h + 1 \notin lo..hi
    <3>1. h = hi /\ h + 1 \in t.ranges.header
      BY <1>1, <1>4, <2>1, <2>3
    <3> QED
      BY <1>2, <2>1, <2>3, <3>1 DEF VerifiedAgainstNeighbours
  <2>4. CASE h \notin lo..hi /\ h + 1 \in lo..hi
    <3>1. h = lo - 1 /\ h \in t.ranges.header
      BY <1>1, <1>4, <2>1, <2>4
    <3> QED
      BY <1>2, <2>1, <2>4, <3>1 DEF VerifiedAgainstNeighbours
  <2>5. CASE h \notin lo..hi /\ h + 1 \notin lo..hi
    BY <1>1, <1>2, <1>4, <2>1, <2>5 DEF Linked
  <2> QED
    BY <2>2, <2>3, <2>4, <2>5
<1> HIDE DEF u
<1>8. Current(u)
  BY <1>1, <1>2, <1>3, <1>4, <1>5, <1>6, <1>7 DEF Current
<1> QED
  BY <1>2, <1>4, <1>5, <1>8 DEF u

\* remove_height
LEMMA RemovedIsCurrent ==
    ASSUME NEW t, Current(t), NEW height \in Heights, NEW u, u = Removed(t, height)
    PROVE  /\ Current(u)
           /\ StoredIn(u) = StoredIn(t) \ {height}
           /\ u.ranges.sampled = t.ranges.sampled \ {height}
           /\ u.ranges.pruned = t.ranges.pruned \cup {height}
           /\ u.metadata = [t.metadata EXCEPT ![height] = {}]
<1>1. /\ t \in Tables
      /\ t.ranges.header = StoredIn(t)
      /\ t.hashes = {x \in [height : Heights, chain : Chains] : t.headers[x.height] = x.chain}
      /\ t.ranges.sampled \subseteq StoredIn(t)
      /\ t.ranges.pruned \cap StoredIn(t) = {}
      /\ \A h \in Heights \ StoredIn(t) : t.metadata[h] = {}
      /\ Linked(t)
  BY DEF Current
<1>2. /\ u.headers = [t.headers EXCEPT ![height] = None]
      /\ u.hashes = {x \in t.hashes : x.height # height}
      /\ u.ranges = [t.ranges EXCEPT !.header = @ \ {height}, !.sampled = @ \ {height},
                                     !.pruned = @ \cup {height}]
      /\ u.metadata = [t.metadata EXCEPT ![height] = {}] /\ u.identity = t.identity
  BY <1>1 DEF Removed, Tables, RangeKeys
<1>3. u \in Tables
  <2>1. u.headers \in [Heights -> Chains \cup {None}]
    BY <1>1, <1>2 DEF Tables
  <2>2. u.hashes \in SUBSET [height : Heights, chain : Chains]
    BY <1>1, <1>2 DEF Tables
  <2>3. u.ranges \in [RangeKeys -> SUBSET Heights]
    <3>1. t.ranges \in [RangeKeys -> SUBSET Heights]
      BY <1>1 DEF Tables
    <3>2. /\ t.ranges.header \ {height} \in SUBSET Heights
          /\ t.ranges.sampled \ {height} \in SUBSET Heights
          /\ t.ranges.pruned \cup {height} \in SUBSET Heights
      BY <3>1 DEF RangeKeys
    <3> QED
      BY <1>2, <3>1, <3>2, Zenon
  <2>4. u.metadata \in [Heights -> SUBSET Cids]
    BY <1>1, <1>2 DEF Tables
  <2>5. DOMAIN u = DOMAIN t /\ u = [x \in DOMAIN u |-> u[x]]
    <3>1. LET r == Removed(t, height) IN DOMAIN r = DOMAIN t /\ r = [x \in DOMAIN r |-> r[x]]
      BY Zenon DEF Removed
    <3> QED
      BY <3>1
  <2>6. u.identity \in 0..(MaxCrashes + 1)
    BY <1>1, <1>2 DEF Tables
  <2> QED
    BY <1>1, <2>1, <2>2, <2>3, <2>4, <2>5, <2>6, ReplacedTables
<1>4. StoredIn(u) = StoredIn(t) \ {height}
  BY <1>1, <1>2 DEF StoredIn, Tables
<1>5. /\ u.ranges.header = t.ranges.header \ {height}
      /\ u.ranges.sampled = t.ranges.sampled \ {height}
      /\ u.ranges.pruned = t.ranges.pruned \cup {height}
  BY <1>1, <1>2 DEF Tables, RangeKeys
<1>6. u.hashes = {x \in [height : Heights, chain : Chains] : u.headers[x.height] = x.chain}
  <2>1. ASSUME NEW x \in [height : Heights, chain : Chains]
        PROVE  x \in u.hashes <=> u.headers[x.height] = x.chain
    BY <1>1, <1>2, <2>1, StoreAssumption DEF Tables
  <2>2. u.hashes \subseteq [height : Heights, chain : Chains]
    BY <1>3 DEF Tables
  <2> QED
    BY <2>1, <2>2
<1>7. Linked(u)
  <2> SUFFICES ASSUME NEW h \in StoredIn(u), h + 1 \in StoredIn(u)
               PROVE  u.headers[h] = u.headers[h + 1]
    BY DEF Linked
  <2>1. h \in StoredIn(t) /\ h + 1 \in StoredIn(t) /\ h # height /\ h + 1 # height
    BY <1>4
  <2> QED
    BY <1>1, <1>2, <2>1 DEF Linked, StoredIn, Tables
<1>8. \A h \in Heights \ StoredIn(u) : u.metadata[h] = {}
  BY <1>1, <1>2, <1>4 DEF Tables
<1>9. Current(u)
  BY <1>1, <1>3, <1>4, <1>5, <1>6, <1>7, <1>8 DEF Current
<1> QED
  BY <1>2, <1>4, <1>5, <1>9

\* mark_as_sampled
LEMMA MarkedIsCurrent ==
    ASSUME NEW t, Current(t), NEW height \in StoredIn(t)
    PROVE  LET u == [t EXCEPT !.ranges.sampled = @ \cup {height}]
           IN  /\ Current(u)
               /\ StoredIn(u) = StoredIn(t) /\ u.metadata = t.metadata
               /\ u.ranges.sampled = t.ranges.sampled \cup {height}
               /\ u.ranges.pruned = t.ranges.pruned
<1> DEFINE u == [t EXCEPT !.ranges.sampled = @ \cup {height}]
<1>1. t \in Tables /\ t.ranges \in [RangeKeys -> SUBSET Heights] /\ height \in Heights
  BY DEF Current, Tables, StoredIn
<1>2. /\ u.headers = t.headers /\ u.hashes = t.hashes
      /\ u.ranges = [t.ranges EXCEPT !.sampled = @ \cup {height}]
      /\ u.metadata = t.metadata /\ u.identity = t.identity
      /\ DOMAIN u = DOMAIN t /\ u = [x \in DOMAIN u |-> u[x]]
  BY <1>1, Zenon DEF Tables
<1> HIDE DEF u
<1>3. /\ u.ranges.sampled = t.ranges.sampled \cup {height}
      /\ u.ranges.header = t.ranges.header /\ u.ranges.pruned = t.ranges.pruned
  BY <1>1, <1>2 DEF RangeKeys
<1>4. u.ranges \in [RangeKeys -> SUBSET Heights]
  <2>1. t.ranges.sampled \cup {height} \in SUBSET Heights
    BY <1>1 DEF RangeKeys
  <2> QED
    BY <1>1, <1>2, <2>1
<1>5. u \in Tables
  BY <1>1, <1>2, <1>4, ReplacedTables DEF Tables
<1>6. StoredIn(u) = StoredIn(t)
  BY <1>2 DEF StoredIn
<1>7. Current(u)
  BY <1>2, <1>3, <1>5, <1>6 DEF Current, Linked
<1> QED
  BY <1>2, <1>3, <1>6, <1>7 DEF u

\* update_sampling_metadata
LEMMA RecordedIsCurrent ==
    ASSUME NEW t, Current(t), NEW height \in StoredIn(t), NEW cids \in SUBSET Cids
    PROVE  LET u == [t EXCEPT !.metadata[height] = @ \cup cids]
           IN  /\ Current(u)
               /\ StoredIn(u) = StoredIn(t) /\ u.ranges = t.ranges
               /\ u.metadata = [t.metadata EXCEPT ![height] = @ \cup cids]
<1> DEFINE u == [t EXCEPT !.metadata[height] = @ \cup cids]
<1>1. t \in Tables /\ t.metadata \in [Heights -> SUBSET Cids] /\ height \in Heights
  BY DEF Current, Tables, StoredIn
<1>2. /\ u.headers = t.headers /\ u.hashes = t.hashes /\ u.ranges = t.ranges
      /\ u.metadata = [t.metadata EXCEPT ![height] = @ \cup cids] /\ u.identity = t.identity
      /\ DOMAIN u = DOMAIN t /\ u = [x \in DOMAIN u |-> u[x]]
  BY <1>1, Zenon DEF Tables
<1> HIDE DEF u
<1>3. u.metadata \in [Heights -> SUBSET Cids]
  BY <1>1, <1>2
<1>4. u \in Tables
  BY <1>1, <1>2, <1>3, ReplacedTables DEF Tables
<1>5. StoredIn(u) = StoredIn(t)
  BY <1>2 DEF StoredIn
<1>6. \A h \in Heights \ StoredIn(u) : u.metadata[h] = {}
  BY <1>1, <1>2, <1>5 DEF Current
<1>7. Current(u)
  BY <1>2, <1>4, <1>5, <1>6 DEF Current, Linked
<1> QED
  BY <1>2, <1>5, <1>7 DEF u

\* What HeaderStore allows to happen to the four sets, from the tables t to u.
SetStep(t, u) ==
    \/ \E lo, hi \in Heights :
          /\ lo <= hi /\ (lo..hi) \cap StoredIn(t) = {}
          /\ \/ \A h \in StoredIn(t) : h < lo
             \/ lo - 1 \in StoredIn(t)
             \/ hi + 1 \in StoredIn(t)
          /\ StoredIn(u) = StoredIn(t) \cup (lo..hi)
          /\ u.ranges.sampled = t.ranges.sampled \ (lo..hi)
          /\ u.ranges.pruned = t.ranges.pruned \ (lo..hi)
          /\ u.metadata = t.metadata
    \/ \E h \in StoredIn(t) :
          /\ StoredIn(u) = StoredIn(t) \ {h}
          /\ u.ranges.sampled = t.ranges.sampled \ {h}
          /\ u.ranges.pruned = t.ranges.pruned \cup {h}
          /\ u.metadata = [t.metadata EXCEPT ![h] = {}]
    \/ \E h \in StoredIn(t) :
          /\ StoredIn(u) = StoredIn(t) /\ u.metadata = t.metadata
          /\ u.ranges.sampled = t.ranges.sampled \cup {h}
          /\ u.ranges.pruned = t.ranges.pruned
    \/ \E h \in StoredIn(t), cids \in SUBSET Cids :
          /\ StoredIn(u) = StoredIn(t) /\ u.ranges = t.ranges
          /\ u.metadata = [t.metadata EXCEPT ![h] = @ \cup cids]

\* A transaction that commits keeps the tables in agreement, and does to the four
\* sets what HeaderStore's operation does.
LEMMA AppliedIsCurrent ==
    ASSUME NEW t, Current(t), NEW op \in Operations, Outcome(t, op) = "ok"
    PROVE  Current(Applied(t, op)) /\ SetStep(t, Applied(t, op))
<1>0. t.ranges.header = StoredIn(t)
  BY DEF Current
<1>1. CASE op.kind = "insert"
  <2>1. /\ InsertionConstraintsMet(t, op.lo, op.hi)
        /\ VerifiedAgainstNeighbours(t, op.lo, op.hi, op.chain)
    BY <1>1 DEF Outcome
  <2>2. op.lo \in Heights /\ op.hi \in Heights /\ op.chain \in Chains /\ op.lo <= op.hi
    BY <1>1, KnownOperations
  <2>3. Applied(t, op) = Inserted(t, op.lo, op.hi, op.chain)
    BY <1>1 DEF Applied
  <2> HIDE DEF Inserted
  <2>4. /\ Current(Applied(t, op))
        /\ StoredIn(Applied(t, op)) = StoredIn(t) \cup (op.lo..op.hi)
        /\ Applied(t, op).ranges.sampled = t.ranges.sampled \ (op.lo..op.hi)
        /\ Applied(t, op).ranges.pruned = t.ranges.pruned \ (op.lo..op.hi)
        /\ Applied(t, op).metadata = t.metadata
    BY <2>1, <2>2, <2>3, InsertedIsCurrent
  <2> QED
    BY <1>0, <2>1, <2>2, <2>4 DEF SetStep, InsertionConstraintsMet
<1>2. CASE op.kind = "remove"
  <2>1. op.height \in StoredIn(t) /\ op.height \in Heights
    BY <1>0, <1>2 DEF Outcome, StoredIn
  <2>2. Applied(t, op) = Removed(t, op.height)
    BY <1>2 DEF Applied
  <2>3. /\ Current(Applied(t, op))
        /\ StoredIn(Applied(t, op)) = StoredIn(t) \ {op.height}
        /\ Applied(t, op).ranges.sampled = t.ranges.sampled \ {op.height}
        /\ Applied(t, op).ranges.pruned = t.ranges.pruned \cup {op.height}
        /\ Applied(t, op).metadata = [t.metadata EXCEPT ![op.height] = {}]
    BY <2>1, <2>2, RemovedIsCurrent
  <2> QED
    BY <2>1, <2>3, Zenon DEF SetStep
<1>3. CASE op.kind = "mark"
  <2>1. op.height \in StoredIn(t)
    BY <1>0, <1>3 DEF Outcome
  <2>2. Applied(t, op) = [t EXCEPT !.ranges.sampled = @ \cup {op.height}]
    BY <1>3 DEF Applied
  <2>3. /\ Current(Applied(t, op))
        /\ StoredIn(Applied(t, op)) = StoredIn(t) /\ Applied(t, op).metadata = t.metadata
        /\ Applied(t, op).ranges.sampled = t.ranges.sampled \cup {op.height}
        /\ Applied(t, op).ranges.pruned = t.ranges.pruned
    BY <2>1, <2>2, MarkedIsCurrent
  <2> QED
    BY <2>1, <2>3 DEF SetStep
<1>4. CASE op.kind = "metadata"
  <2>1. op.height \in StoredIn(t) /\ op.cids \in SUBSET Cids
    BY <1>0, <1>4, KnownOperations DEF Outcome
  <2>2. Applied(t, op) = [t EXCEPT !.metadata[op.height] = @ \cup op.cids]
    BY <1>4 DEF Applied
  <2>3. /\ Current(Applied(t, op))
        /\ StoredIn(Applied(t, op)) = StoredIn(t) /\ Applied(t, op).ranges = t.ranges
        /\ Applied(t, op).metadata = [t.metadata EXCEPT ![op.height] = @ \cup op.cids]
    BY <2>1, <2>2, RecordedIsCurrent
  <2> QED
    BY <2>1, <2>3, Zenon DEF SetStep
<1> QED
  BY <1>1, <1>2, <1>3, <1>4, KnownOperations

-----------------------------------------------------------------------------
(* Opening                                                                 *)

\* The same headers and metadata under other names for the ranges.
SameHeaders(t, u) ==
    /\ u.headers = t.headers /\ u.hashes = t.hashes /\ u.metadata = t.metadata

\* The four sets of two databases are equal.
SameSets(t, v, u, w) ==
    /\ StoredIn(u) = StoredIn(t) /\ u.metadata = t.metadata
    /\ u.ranges[SampledKey(w)] = t.ranges[SampledKey(v)]
    /\ u.ranges.pruned = t.ranges.pruned

\* A migration that leaves the headers alone keeps a database, when the header ranges
\* are where the new version looks for them.
LEMMA MigratedDatabase ==
    ASSUME NEW b, NEW v, NEW t, NEW w, NEW u, Database(b, v, t), u \in Tables,
           SameHeaders(t, u), SameSets(t, v, u, w),
           \/ b = "redb" /\ w \in 0..3
           \/ b = "memory" /\ w = 0
           \/ b = "indexedDb" /\ w \in {0, 4, 5},
           HeaderRangesRecorded(b, w, u)
    PROVE  Database(b, w, u)
<1>1. Consistent(u, w)
  BY DEF Database, Consistent, SameHeaders, SameSets
<1>2. Linked(u)
  BY DEF Database, Linked, SameHeaders, SameSets
<1> QED
  BY <1>1, <1>2 DEF Database

\* init_identity
LEMMA IdentityOnly ==
    ASSUME NEW t \in Tables, crashes \in 0..MaxCrashes, NEW u, u = WithIdentity(t)
    PROVE  u \in Tables /\ SameHeaders(t, u) /\ u.ranges = t.ranges
<1>1. CASE t.identity # 0
  BY <1>1 DEF WithIdentity, SameHeaders
<1>2. CASE t.identity = 0
  <2>1. u = [t EXCEPT !.identity = crashes + 1]
    BY <1>2 DEF WithIdentity
  <2>2. crashes + 1 \in 0..(MaxCrashes + 1)
    BY StoreAssumption
  <2> QED
    BY <2>1, <2>2 DEF Tables, SameHeaders
<1> QED
  BY <1>1, <1>2

\* A step that makes the identity keeps the database.
LEMMA IdentityDatabase ==
    ASSUME NEW b, NEW v, NEW t, Database(b, v, t), crashes \in 0..MaxCrashes
    PROVE  Database(b, v, WithIdentity(t)) /\ SameSets(t, v, WithIdentity(t), v)
<1>1. PICK u : u = WithIdentity(t)
  OBVIOUS
<1>2. u \in Tables /\ SameHeaders(t, u) /\ u.ranges = t.ranges
  BY <1>1, IdentityOnly DEF Database
<1>3. SameSets(t, v, u, v) /\ StoredIn(u) = StoredIn(t)
  BY <1>2 DEF SameSets, SameHeaders, StoredIn
<1>4. HeaderRangesRecorded(b, v, u)
  BY <1>2, <1>3 DEF Database, HeaderRangesRecorded
<1> QED
  BY <1>1, <1>2, <1>3, <1>4, MigratedDatabase DEF Database

\* migrate_v1_to_v2
LEMMA RedbV2Database ==
    ASSUME NEW t, Database("redb", 1, t)
    PROVE  Database("redb", 2, RedbV2(t)) /\ SameSets(t, 1, RedbV2(t), 2)
<1>1. PICK u : u = RedbV2(t)
  OBVIOUS
<1>2. t \in Tables /\ t.ranges \in [RangeKeys -> SUBSET Heights]
  BY DEF Database, Tables
<1>3. /\ SameHeaders(t, u)
      /\ u.ranges = [t.ranges EXCEPT !.header = t.ranges.oldHeader, !.oldHeader = {}]
      /\ u.identity = t.identity
      /\ DOMAIN u = DOMAIN t /\ u = [x \in DOMAIN u |-> u[x]]
  BY <1>1, <1>2, Zenon DEF RedbV2, SameHeaders, Tables, RangeKeys
<1>4. u.ranges \in [RangeKeys -> SUBSET Heights]
  <2>1. t.ranges.oldHeader \in SUBSET Heights
    BY <1>2 DEF RangeKeys
  <2> QED
    BY <1>2, <1>3, <2>1, Zenon
<1>5. u \in Tables
  BY <1>2, <1>3, <1>4, ReplacedTables, Zenon DEF Tables, SameHeaders
<1>6. /\ u.ranges.header = t.ranges.oldHeader /\ u.ranges.pruned = t.ranges.pruned
      /\ u.ranges.oldSampled = t.ranges.oldSampled
  BY <1>2, <1>3 DEF RangeKeys
<1>7. SameSets(t, 1, u, 2) /\ HeaderRangesRecorded("redb", 2, u)
  <2>1. StoredIn(u) = StoredIn(t)
    BY <1>3 DEF SameHeaders, StoredIn
  <2>2. t.ranges.oldHeader = StoredIn(t)
    BY DEF Database, HeaderRangesRecorded
  <2>3. SameSets(t, 1, u, 2)
    BY <1>3, <1>6, <2>1, Zenon DEF SameSets, SameHeaders, SampledKey
  <2> QED
    BY <1>6, <2>1, <2>2, <2>3 DEF HeaderRangesRecorded
<1> QED
  BY <1>1, <1>3, <1>5, <1>7, MigratedDatabase

\* migrate_v2_to_v3 and migrate_v4_to_v5
LEMMA SampledDatabase ==
    ASSUME NEW b, NEW v, NEW w, NEW t, Database(b, v, t),
           \/ b = "redb" /\ v = 2 /\ w = 3
           \/ b = "indexedDb" /\ v = 4 /\ w = 5
    PROVE  Database(b, w, MigratedSampled(t)) /\ SameSets(t, v, MigratedSampled(t), w)
<1>1. PICK u : u = MigratedSampled(t)
  OBVIOUS
<1>2. t \in Tables /\ t.ranges \in [RangeKeys -> SUBSET Heights]
  BY DEF Database, Tables
<1>3. /\ SameHeaders(t, u)
      /\ u.ranges = [t.ranges EXCEPT !.sampled = t.ranges.oldSampled, !.oldSampled = {}]
      /\ u.identity = t.identity
      /\ DOMAIN u = DOMAIN t /\ u = [x \in DOMAIN u |-> u[x]]
  BY <1>1, <1>2, Zenon DEF MigratedSampled, SameHeaders, Tables, RangeKeys
<1>4. u.ranges \in [RangeKeys -> SUBSET Heights]
  <2>1. t.ranges.oldSampled \in SUBSET Heights
    BY <1>2 DEF RangeKeys
  <2> QED
    BY <1>2, <1>3, <2>1, Zenon
<1>5. u \in Tables
  BY <1>2, <1>3, <1>4, ReplacedTables, Zenon DEF Tables, SameHeaders
<1>6. /\ u.ranges.header = t.ranges.header /\ u.ranges.pruned = t.ranges.pruned
      /\ u.ranges.sampled = t.ranges.oldSampled
  BY <1>2, <1>3 DEF RangeKeys
<1>7. SameSets(t, v, u, w) /\ HeaderRangesRecorded(b, w, u)
  <2>1. StoredIn(u) = StoredIn(t)
    BY <1>3 DEF SameHeaders, StoredIn
  <2>2. t.ranges.header = StoredIn(t)
    BY DEF Database, HeaderRangesRecorded
  <2>3. SameSets(t, v, u, w)
    <3>1. SampledKey(v) = "oldSampled" /\ SampledKey(w) = "sampled"
      BY DEF SampledKey
    <3> QED
      BY <1>3, <1>6, <2>1, <3>1 DEF SameSets, SameHeaders
  <2> QED
    BY <1>6, <2>1, <2>2, <2>3 DEF HeaderRangesRecorded
<1> QED
  BY <1>1, <1>3, <1>5, <1>7, MigratedDatabase

\* migrate_older_to_v4
LEMMA V4Database ==
    ASSUME NEW t, NEW from \in {2, 3}, Database("indexedDb", 0, t),
           from = 3 <=> t.ranges # EmptyTables.ranges
    PROVE  Database("indexedDb", 4, IndexedDbV4(t, from))
           /\ SameSets(t, 0, IndexedDbV4(t, from), 4)
<1> DEFINE found == IF from <= 2 THEN 1..HeadOf(StoredIn(t)) ELSE t.ranges.oldHeader
<1>1. PICK u : u = IndexedDbV4(t, from)
  OBVIOUS
<1>2. t \in Tables /\ t.ranges \in [RangeKeys -> SUBSET Heights]
  BY DEF Database, Tables
<1>3. /\ SameHeaders(t, u)
      /\ u.ranges = [[k \in RangeKeys |-> {}] EXCEPT !.header = found]
      /\ u.identity = t.identity
      /\ DOMAIN u = DOMAIN t /\ u = [x \in DOMAIN u |-> u[x]]
  BY <1>1, <1>2, Zenon DEF IndexedDbV4, SameHeaders, Tables
<1>4. EmptyTables.ranges = [k \in RangeKeys |-> {}]
  BY DEF EmptyTables
<1>5. found = StoredIn(t)
  <2>1. CASE from = 3
    <3>1. t.ranges = [[k \in RangeKeys |-> {}] EXCEPT !.oldHeader = StoredIn(t)]
      BY <1>4, <2>1 DEF Database, HeaderRangesRecorded
    <3> QED
      BY <2>1, <3>1 DEF RangeKeys
  <2>2. CASE from = 2
    <3>1. \/ StoredIn(t) = 1..HeadOf(StoredIn(t))
          \/ t.ranges = [[k \in RangeKeys |-> {}] EXCEPT !.oldHeader = StoredIn(t)]
      BY <1>4 DEF Database, HeaderRangesRecorded
    <3>2. CASE t.ranges = [[k \in RangeKeys |-> {}] EXCEPT !.oldHeader = StoredIn(t)]
      <4>1. t.ranges = [k \in RangeKeys |-> {}]
        BY <1>4, <2>2
      <4>2. StoredIn(t) = {}
        BY <3>2, <4>1 DEF RangeKeys
      <4> QED
        BY <2>2, <4>2 DEF HeadOf
    <3> QED
      BY <2>2, <3>1, <3>2
  <2> QED
    BY <2>1, <2>2
<1> HIDE DEF found
<1>6. u.ranges \in [RangeKeys -> SUBSET Heights]
  <2>1. found \in SUBSET Heights
    BY <1>5 DEF StoredIn
  <2> QED
    BY <1>3, <2>1
<1>7. u \in Tables
  BY <1>2, <1>3, <1>6, ReplacedTables DEF Tables, SameHeaders
<1>8. /\ u.ranges.header = StoredIn(t) /\ u.ranges.pruned = {} /\ u.ranges.oldSampled = {}
  BY <1>3, <1>5 DEF RangeKeys
<1>9. t.ranges.pruned = {} /\ t.ranges.sampled = {}
  BY <1>4 DEF Database, HeaderRangesRecorded, RangeKeys
<1>10. SameSets(t, 0, u, 4) /\ HeaderRangesRecorded("indexedDb", 4, u)
  <2>1. StoredIn(u) = StoredIn(t)
    BY <1>3 DEF SameHeaders, StoredIn
  <2>2. SameSets(t, 0, u, 4)
    <3>1. SampledKey(0) = "sampled" /\ SampledKey(4) = "oldSampled"
      BY DEF SampledKey
    <3> QED
      BY <1>3, <1>8, <1>9, <2>1, <3>1, Zenon DEF SameSets, SameHeaders
  <2> QED
    BY <1>8, <2>1, <2>2 DEF HeaderRangesRecorded
<1> QED
  BY <1>1, <1>3, <1>7, <1>10, MigratedDatabase

\* BlockRanges::head of heights bounds them.
LEMMA HeadOfStored ==
    ASSUME NEW S \in SUBSET Heights
    PROVE  /\ HeadOf(S) \in 0..MaxHeight
           /\ \A h \in S : h <= HeadOf(S)
           /\ S # {} => HeadOf(S) \in S
<1>1. CASE S = {}
  BY <1>1, StoreAssumption DEF HeadOf
<1>2. CASE S # {}
  <2>1. MaxHeight \in Nat /\ S \in SUBSET (1..MaxHeight)
    BY StoreAssumption DEF Heights
  <2>2. Max(S) \in S /\ \A y \in S : y <= Max(S)
    BY <1>2, <2>1, MaxOfInterval
  <2>3. HeadOf(S) = Max(S)
    BY <1>2 DEF HeadOf
  <2>4. HeadOf(S) \in 1..MaxHeight
    BY <2>1, <2>2, <2>3, Zenon
  <2> QED
    BY <2>1, <2>2, <2>3, <2>4
<1> QED
  BY <1>1, <1>2

\* A database without a version is empty or that of a first start.
LEMMA FreshDatabase ==
    ASSUME NEW b, NEW t, NEW w, Database(b, 0, t),
           \/ b = "redb" /\ w = 3
           \/ b = "indexedDb" /\ w = 5 /\ t.ranges = EmptyTables.ranges /\ t.headers[1] = None
    PROVE  Database(b, w, t) /\ SameSets(t, 0, t, w)
<1>1. SampledKey(0) = "sampled" /\ SampledKey(w) = "sampled"
  BY DEF SampledKey
<1>2. SameSets(t, 0, t, w) /\ SameHeaders(t, t)
  BY <1>1 DEF SameSets, SameHeaders
<1>3. HeaderRangesRecorded(b, w, t)
  <2>1. CASE b = "redb"
    BY <2>1 DEF Database, HeaderRangesRecorded
  <2>2. CASE b = "indexedDb"
    <3>1. EmptyTables.ranges = [k \in RangeKeys |-> {}] /\ t.ranges = [k \in RangeKeys |-> {}]
      BY <2>2 DEF EmptyTables
    <3>2. StoredIn(t) \in SUBSET Heights /\ 1 \notin StoredIn(t)
      BY <2>2 DEF StoredIn
    <3>3. StoredIn(t) = {}
      <4>1. CASE t.ranges = [EmptyTables.ranges EXCEPT !.oldHeader = StoredIn(t)]
        <5>1. t.ranges.oldHeader = StoredIn(t)
          BY <3>1, <4>1 DEF RangeKeys
        <5> QED
          BY <3>1, <5>1 DEF RangeKeys
      <4>2. CASE StoredIn(t) = 1..HeadOf(StoredIn(t))
        BY <3>2, <4>2, HeadOfStored, StoreAssumption
      <4> QED
        BY <2>2, <4>1, <4>2 DEF Database, HeaderRangesRecorded
    <3>4. t.ranges.header = {}
      BY <3>1 DEF RangeKeys
    <3> QED
      BY <2>2, <3>3, <3>4 DEF HeaderRangesRecorded
  <2> QED
    BY <2>1, <2>2
<1>4. t \in Tables
  BY DEF Database
<1> QED
  BY <1>2, <1>3, <1>4, MigratedDatabase

\* SameSets composes.
LEMMA SameSetsTwice ==
    ASSUME NEW t, NEW v, NEW u, NEW w, NEW s, NEW x, SameSets(t, v, u, w), SameSets(u, w, s, x)
    PROVE  SameSets(t, v, s, x)
  BY DEF SameSets

\* Every transaction of an opening leaves a database, with the same four sets; when the
\* store is open it is of the current version.
LEMMA OpenKeepsDatabase ==
    ASSUME Database(backend, version, tables), crashes \in 0..MaxCrashes, Open
    PROVE  /\ Database(backend, version', tables')
           /\ SameSets(tables, version, tables', version')
           /\ phase' \in {"opening", "open"}
           /\ phase' = "open" => version' = CurrentVersion[backend]
<1>1. CASE OpenRedb
  <2>0. backend = "redb" /\ version \in 0..3 /\ version' = 3 /\ phase' = "open"
    BY <1>1 DEF OpenRedb, CurrentVersion, Database
  <2> DEFINE v2 == IF version = 1 THEN RedbV2(tables) ELSE tables
             v3 == IF version \in {1, 2} THEN MigratedSampled(v2) ELSE v2
  <2>1. tables' = WithIdentity(v3)
    BY <1>1 DEF OpenRedb
  <2>2. Database("redb", 3, v3) /\ SameSets(tables, version, v3, 3)
    <3>1. CASE version = 0
      BY <2>0, <3>1, FreshDatabase
    <3>2. CASE version = 1
      <4>1. Database("redb", 2, RedbV2(tables)) /\ SameSets(tables, 1, RedbV2(tables), 2)
        BY <2>0, <3>2, RedbV2Database
      <4>2. v3 = MigratedSampled(RedbV2(tables))
        BY <3>2
      <4> HIDE DEF v3
      <4>3. Database("redb", 3, v3) /\ SameSets(RedbV2(tables), 2, v3, 3)
        BY <4>1, <4>2, SampledDatabase
      <4> QED
        BY <3>2, <4>1, <4>3, SameSetsTwice
    <3>3. CASE version = 2
      <4>1. v3 = MigratedSampled(tables)
        BY <3>3
      <4> HIDE DEF v3
      <4> QED
        BY <2>0, <3>3, <4>1, SampledDatabase
    <3>4. CASE version = 3
      BY <2>0, <3>4 DEF SameSets
    <3> QED
      BY <2>0, <3>1, <3>2, <3>3, <3>4
  <2> HIDE DEF v3
  <2>3. Database("redb", 3, tables') /\ SameSets(v3, 3, tables', 3)
    BY <2>1, <2>2, IdentityDatabase
  <2>4. SameSets(tables, version, tables', 3)
    BY <2>2, <2>3, SameSetsTwice
  <2> QED
    BY <2>0, <2>3, <2>4 DEF CurrentVersion
<1>2. CASE OpenMemory
  <2>1. /\ backend = "memory" /\ version = 0 /\ version' = version /\ phase' = "open"
        /\ tables' = WithIdentity(tables)
    BY <1>2 DEF OpenMemory, Database
  <2>2. Database(backend, version, tables') /\ SameSets(tables, version, tables', version)
    BY <2>1, IdentityDatabase
  <2> QED
    BY <2>1, <2>2 DEF CurrentVersion
<1>3. CASE OpenIndexedDb
  <2>0. backend = "indexedDb" /\ version \in {0, 4, 5}
    BY <1>3 DEF OpenIndexedDb, Database
  <2>1. /\ Detected = 0 => /\ version = 0 /\ tables.ranges = EmptyTables.ranges
                           /\ tables.headers[1] = None
        /\ Detected \in {2, 3} => version = 0 /\ (Detected = 3 <=> tables.ranges # EmptyTables.ranges)
        /\ Detected = 4 => version = 4
        /\ Detected = 5 => version = 5
    <3>1. CASE version = 0 /\ tables.ranges # EmptyTables.ranges
      BY <3>1 DEF Detected
    <3>2. CASE version = 0 /\ tables.ranges = EmptyTables.ranges
      BY <3>2 DEF Detected
    <3>3. CASE version \in {4, 5}
      BY <3>3 DEF Detected
    <3> QED
      BY <2>0, <3>1, <3>2, <3>3
  <2>2. CASE Detected = 0 /\ version' = CurrentVersion.indexedDb /\ tables' = tables
             /\ phase' = "opening"
    <3>1. version' = 5
      BY <2>2 DEF CurrentVersion
    <3> QED
      BY <2>0, <2>1, <2>2, <3>1, FreshDatabase
  <2>3. CASE Detected \in {2, 3} /\ tables' = IndexedDbV4(tables, Detected) /\ version' = 4
             /\ phase' = "opening"
    BY <2>0, <2>1, <2>3, V4Database
  <2>4. CASE Detected = 4 /\ tables' = MigratedSampled(tables) /\ version' = 5
             /\ phase' = "opening"
    BY <2>0, <2>1, <2>4, SampledDatabase
  <2>5. CASE Detected = 5 /\ tables' = WithIdentity(tables) /\ version' = version
             /\ phase' = "opening"
    BY <2>0, <2>1, <2>5, IdentityDatabase
  <2>6. CASE Detected = 5 /\ tables' = tables /\ version' = version /\ phase' = "open"
    BY <2>0, <2>1, <2>6 DEF SameSets, CurrentVersion
  <2> QED
    BY <1>3, <2>2, <2>3, <2>4, <2>5, <2>6 DEF OpenIndexedDb
<1> QED
  BY <1>1, <1>2, <1>3 DEF Open

-----------------------------------------------------------------------------
(* The inductive invariant                                                 *)

\* How far a call may have got: it was not answered with StoredDataError.
Progress == {"queued", "detached", "ok", "ConstraintsNotMet", "NeighborsVerificationFailed",
             "NotFound"}

\* Calls are under way only in an open store, and while it closes only the blocking
\* tasks whose callers are gone.
WriterOK(w) ==
    \/ writer[w] = Idle
    \/ /\ writer[w] \in [op : Operations, at : Progress]
       /\ phase = "open" \/ (phase = "closing" /\ writer[w].at = "detached")

\* At any time, also between two transactions of an opening, there is a database that
\* some version may have written, and the version in memory is the current one.
StoreInv ==
    /\ Database(backend, version, tables)
    /\ crashes \in 0..MaxCrashes
    /\ phase \in {"down", "opening", "open", "closing", "closed"}
    /\ phase \in {"open", "closing", "closed"} => version = CurrentVersion[backend]
    /\ DOMAIN writer = Writers
    /\ \A w \in Writers : WriterOK(w)
    /\ phase = "closed" => \A w \in Writers : writer[w] = Idle

\* The tables of a store that was opened are those of the current schema.
LEMMA OpenIsCurrent ==
    ASSUME StoreInv, phase \in {"open", "closing", "closed"}
    PROVE  /\ backend \in {"redb", "memory", "indexedDb"} /\ version = CurrentVersion[backend]
           /\ Current(tables) /\ SampledKey(version) = "sampled"
<1>1. backend \in {"redb", "memory", "indexedDb"} /\ version = CurrentVersion[backend]
  BY DEF StoreInv, Database
<1>2. Current(tables)
  BY <1>1, CurrentDatabase DEF StoreInv
<1>3. SampledKey(version) = "sampled"
  BY <1>1 DEF SampledKey, CurrentVersion
<1> QED
  BY <1>1, <1>2, <1>3

\* A call under way finds a store that was opened.
LEMMA CallInOpenStore ==
    ASSUME StoreInv, NEW w \in Writers, writer[w].at # "idle"
    PROVE  /\ writer[w] \in [op : Operations, at : Progress]
           /\ phase = "open" \/ (phase = "closing" /\ writer[w].at = "detached")
  BY DEF StoreInv, WriterOK, Idle

\* What a transaction does.
LEMMA TransactTables ==
    ASSUME StoreInv, NEW w \in Writers, Transact(w)
    PROVE  /\ Current(tables) /\ Current(tables')
           /\ tables' = tables \/ SetStep(tables, tables')
           /\ Outcome(tables, writer[w].op) \in Progress
           /\ version' = version /\ SampledKey(version) = "sampled"
           /\ tables' # tables => /\ tables' = Applied(tables, writer[w].op)
                                  /\ Outcome(tables, writer[w].op) = "ok"
<1>1. writer[w].at # "idle"
  BY DEF Transact
<1>2. /\ writer[w] \in [op : Operations, at : Progress]
      /\ phase \in {"open", "closing"}
  BY <1>1, CallInOpenStore
<1>3. Current(tables) /\ SampledKey(version) = "sampled"
  BY <1>2, OpenIsCurrent
<1>4. writer[w].op \in Operations
  BY <1>2
<1>5. Outcome(tables, writer[w].op) \in Progress
  BY <1>3, <1>4, NoStoredDataError DEF Progress
<1>6. CASE Outcome(tables, writer[w].op) = "ok"
  <2>1. tables' = Applied(tables, writer[w].op)
    BY <1>6 DEF Transact
  <2>2. Current(Applied(tables, writer[w].op)) /\ SetStep(tables, Applied(tables, writer[w].op))
    BY <1>3, <1>4, <1>6, AppliedIsCurrent
  <2> QED
    BY <1>3, <1>5, <1>6, <2>1, <2>2 DEF Transact
<1>7. CASE Outcome(tables, writer[w].op) # "ok"
  BY <1>3, <1>5, <1>7 DEF Transact
<1> QED
  BY <1>6, <1>7

\* A step of a writer changes one record of writer.
LEMMA WriterStepKeepsInv ==
    ASSUME StoreInv, NEW w \in Writers, Call(w) \/ Transact(w) \/ Return(w) \/ Drop(w)
    PROVE  StoreInv'
<1>0. DOMAIN writer = Writers /\ \A u \in Writers : WriterOK(u)
  BY DEF StoreInv
<1>1. CASE Call(w)
  <2>1. PICK op \in Operations : writer' = [writer EXCEPT ![w] = [op |-> op, at |-> "queued"]]
    BY <1>1, Zenon DEF Call
  <2>2. phase = "open" /\ UNCHANGED <<backend, version, tables, phase, crashes>>
    BY <1>1 DEF Call
  <2>3. \A u \in Writers : WriterOK(u)'
    BY <1>0, <2>1, <2>2 DEF WriterOK, Progress
  <2> QED
    BY <1>0, <2>1, <2>2, <2>3 DEF StoreInv
<1>2. CASE Transact(w)
  <2>1. UNCHANGED <<backend, version, phase, crashes>>
    BY <1>2 DEF Transact
  <2>2. /\ writer[w] \in [op : Operations, at : Progress]
        /\ phase = "open" \/ (phase = "closing" /\ writer[w].at = "detached")
    BY <1>2, CallInOpenStore DEF Transact
  <2>3. Current(tables') /\ Outcome(tables, writer[w].op) \in Progress
    BY <1>2, TransactTables
  <2>4. Database(backend, version, tables')
    BY <2>2, <2>3, OpenIsCurrent, CurrentDatabase
  <2>5. writer' = [writer EXCEPT ![w] = IF writer[w].at = "queued"
                   THEN [writer[w] EXCEPT !.at = Outcome(tables, writer[w].op)] ELSE Idle]
    BY <1>2 DEF Transact
  <2>6. \A u \in Writers : WriterOK(u)'
    BY <1>0, <2>1, <2>2, <2>3, <2>5 DEF WriterOK
  <2> QED
    BY <1>0, <2>1, <2>2, <2>4, <2>5, <2>6 DEF StoreInv
<1>3. CASE Return(w)
  <2>1. /\ writer' = [writer EXCEPT ![w] = Idle]
        /\ UNCHANGED <<backend, version, tables, phase, crashes>>
    BY <1>3 DEF Return
  <2> QED
    BY <1>0, <2>1 DEF StoreInv, WriterOK
<1>4. CASE Drop(w)
  <2>1. UNCHANGED <<backend, version, tables, phase, crashes>>
    BY <1>4 DEF Drop
  <2>2. /\ writer[w] \in [op : Operations, at : Progress]
        /\ phase = "open" \/ (phase = "closing" /\ writer[w].at = "detached")
    BY <1>4, CallInOpenStore DEF Drop
  <2>3. writer' = [writer EXCEPT ![w] = IF writer[w].at = "queued"
                   THEN [writer[w] EXCEPT !.at = "detached"] ELSE Idle]
    BY <1>4 DEF Drop
  <2>4. \A u \in Writers : WriterOK(u)'
    BY <1>0, <2>1, <2>2, <2>3 DEF WriterOK, Progress
  <2> QED
    BY <1>0, <2>1, <2>2, <2>3, <2>4 DEF StoreInv
<1> QED
  BY <1>1, <1>2, <1>3, <1>4

\* The inductive invariant holds: the tables agree, whatever is interleaved.
THEOREM StoreInvariant == Spec => []StoreInv
<1>1. Init => StoreInv
  <2> SUFFICES ASSUME Init PROVE StoreInv
    OBVIOUS
  <2>1. Database(backend, version, tables)
    BY StoreAssumption DEF Init
  <2> QED
    BY <2>1, StoreAssumption DEF Init, StoreInv, WriterOK
<1>2. StoreInv /\ [Next]_storeVars => StoreInv'
  <2> SUFFICES ASSUME StoreInv, [Next]_storeVars PROVE StoreInv'
    OBVIOUS
  <2>0. DOMAIN writer = Writers /\ \A u \in Writers : WriterOK(u)
    BY DEF StoreInv
  <2>1. CASE Open
    <3>1. UNCHANGED <<backend, writer, crashes>> /\ phase \in {"down", "opening"}
      BY <2>1 DEF Open, OpenRedb, OpenMemory, OpenIndexedDb
    <3>2. \A u \in Writers : writer[u] = Idle
      BY <2>0, <3>1 DEF WriterOK
    <3>3. /\ Database(backend, version', tables') /\ phase' \in {"opening", "open"}
          /\ phase' = "open" => version' = CurrentVersion[backend]
      BY <2>1, OpenKeepsDatabase DEF StoreInv
    <3> QED
      BY <3>1, <3>2, <3>3 DEF StoreInv, WriterOK
  <2>2. CASE Close
    <3>1. /\ UNCHANGED <<backend, version, tables, crashes>> /\ phase = "open" /\ phase' = "closing"
          /\ writer' = [w \in Writers |->
                IF backend = "redb" /\ writer[w].at \in {"queued", "detached"}
                THEN [writer[w] EXCEPT !.at = "detached"] ELSE Idle]
      BY <2>2 DEF Close
    <3>2. ASSUME NEW u \in Writers PROVE WriterOK(u)'
      <4>1. CASE writer[u].at \in {"queued", "detached"}
        <5>1. writer[u] \in [op : Operations, at : Progress]
          BY <4>1, CallInOpenStore
        <5> QED
          BY <3>1, <4>1, <5>1 DEF WriterOK, Progress
      <4>2. CASE writer[u].at \notin {"queued", "detached"}
        BY <3>1, <4>2 DEF WriterOK
      <4> QED
        BY <4>1, <4>2
    <3> QED
      BY <3>1, <3>2 DEF StoreInv
  <2>3. CASE Closed
    <3>1. /\ UNCHANGED <<backend, version, tables, crashes, writer>>
          /\ phase = "closing" /\ phase' = "closed" /\ NoGuard
      BY <2>3 DEF Closed
    <3>2. \A u \in Writers : writer[u] = Idle
      BY <2>0, <3>1 DEF WriterOK, NoGuard
    <3> QED
      BY <3>1, <3>2 DEF StoreInv, WriterOK
  <2>4. CASE Crash
    <3>1. /\ UNCHANGED <<backend, version, tables>> /\ phase' = "down"
          /\ writer' = [w \in Writers |-> Idle]
          /\ crashes < MaxCrashes /\ crashes' = crashes + 1
      BY <2>4 DEF Crash
    <3> QED
      BY <3>1, StoreAssumption DEF StoreInv, WriterOK
  <2>5. ASSUME NEW w \in Writers, Call(w) \/ Transact(w) \/ Return(w) \/ Drop(w)
        PROVE  StoreInv'
    BY <2>5, WriterStepKeepsInv
  <2>6. CASE (\E w \in Waiters : Wait(w) \/ Check(w) \/ Await(w) \/ Wake(w)) \/ UNCHANGED storeVars
    <3>1. UNCHANGED <<backend, version, tables, phase, writer, crashes>>
      BY <2>6, Zenon DEF Wait, Check, Await, Wake, storeVars
    <3> QED
      BY <3>1 DEF StoreInv, WriterOK
  <2> QED
    BY <2>1, <2>2, <2>3, <2>4, <2>5, <2>6 DEF Next
<1> QED
  BY <1>1, <1>2, PTL DEF Spec

-----------------------------------------------------------------------------
(* What follows from it                                                    *)

\* The cached head is behind a header only while the call that inserted it has not
\* returned, or was dropped.
HeadInv ==
    /\ head \in 0..MaxHeight
    /\ backend = "indexedDb" /\ phase = "open" /\ ~silent =>
          \A h \in StoredIn(tables) :
              \/ h <= head
              \/ \E w \in Writers : /\ writer[w].at = "ok" /\ writer[w].op.kind = "insert"
                                    /\ h <= writer[w].op.hi

\* The operators that waiters use stay within the heights.
WaiterInv ==
    waiter \in [Waiters -> [height : 0..MaxHeight, newHead : BOOLEAN,
                            at : {"idle", "check", "checked", "sleep"}, notified : BOOLEAN]]

\* Only insertions add headers, between the two ends of their range.
LEMMA AddedByInsert ==
    ASSUME NEW t, Current(t), NEW op \in Operations, Outcome(t, op) = "ok",
           NEW h \in StoredIn(Applied(t, op)), h \notin StoredIn(t)
    PROVE  op.kind = "insert" /\ h <= op.hi
<1>0. t.ranges.header = StoredIn(t)
  BY DEF Current
<1>1. CASE op.kind = "insert"
  <2>1. /\ InsertionConstraintsMet(t, op.lo, op.hi)
        /\ VerifiedAgainstNeighbours(t, op.lo, op.hi, op.chain)
    BY <1>1 DEF Outcome
  <2>2. op.lo \in Heights /\ op.hi \in Heights /\ op.chain \in Chains /\ op.lo <= op.hi
    BY <1>1, KnownOperations
  <2>3. Applied(t, op) = Inserted(t, op.lo, op.hi, op.chain)
    BY <1>1 DEF Applied
  <2>4. StoredIn(Applied(t, op)) = StoredIn(t) \cup (op.lo..op.hi)
    BY <2>1, <2>2, <2>3, InsertedIsCurrent
  <2>5. h \in op.lo..op.hi
    BY <2>4
  <2> QED
    BY <1>1, <2>5
<1>2. CASE op.kind = "remove"
  <2>1. op.height \in StoredIn(t) /\ op.height \in Heights
    BY <1>0, <1>2 DEF Outcome, StoredIn
  <2>2. Applied(t, op) = Removed(t, op.height)
    BY <1>2 DEF Applied
  <2>3. /\ StoredIn(Applied(t, op)) = StoredIn(t) \ {op.height}
        /\ Applied(t, op).metadata = [t.metadata EXCEPT ![op.height] = {}]
    BY <2>1, <2>2, RemovedIsCurrent
  <2> QED
    BY <2>3
<1>3. CASE op.kind = "mark"
  <2>1. op.height \in StoredIn(t)
    BY <1>0, <1>3 DEF Outcome
  <2>2. Applied(t, op) = [t EXCEPT !.ranges.sampled = @ \cup {op.height}]
    BY <1>3 DEF Applied
  <2>3. StoredIn(Applied(t, op)) = StoredIn(t)
    BY <2>1, <2>2, MarkedIsCurrent, Zenon
  <2> QED
    BY <2>3
<1>4. CASE op.kind = "metadata"
  <2>1. op.height \in StoredIn(t) /\ op.cids \in SUBSET Cids
    BY <1>0, <1>4, KnownOperations DEF Outcome
  <2>2. Applied(t, op) = [t EXCEPT !.metadata[op.height] = @ \cup op.cids]
    BY <1>4 DEF Applied
  <2>3. StoredIn(Applied(t, op)) = StoredIn(t)
    BY <2>1, <2>2, RecordedIsCurrent
  <2> QED
    BY <2>3
<1> QED
  BY <1>1, <1>2, <1>3, <1>4, KnownOperations

\* A transaction and the head.
LEMMA TransactKeepsHead ==
    ASSUME StoreInv, HeadInv, NEW w \in Writers, Transact(w)
    PROVE  HeadInv'
<1>1. UNCHANGED <<backend, phase, head>> /\ (silent => silent')
  BY DEF Transact
<1>2. /\ writer[w] \in [op : Operations, at : Progress] /\ writer[w].at \in {"queued", "detached"}
      /\ DOMAIN writer = Writers
  BY CallInOpenStore DEF Transact, StoreInv
<1>3. writer' = [writer EXCEPT ![w] = IF writer[w].at = "queued"
                 THEN [writer[w] EXCEPT !.at = Outcome(tables, writer[w].op)] ELSE Idle]
  BY DEF Transact
<1> SUFFICES ASSUME backend = "indexedDb", phase = "open", ~silent', NEW h \in StoredIn(tables')
             PROVE  \/ h <= head
                    \/ \E u \in Writers : /\ writer'[u].at = "ok" /\ writer'[u].op.kind = "insert"
                                          /\ h <= writer'[u].op.hi
  BY <1>1 DEF HeadInv
<1>4. CASE h \in StoredIn(tables)
  <2>1. CASE h <= head
    BY <2>1
  <2>2. ASSUME NEW u \in Writers, writer[u].at = "ok", writer[u].op.kind = "insert",
               h <= writer[u].op.hi
        PROVE  writer'[u] = writer[u]
    BY <1>2, <1>3, <2>2
  <2> QED
    BY <1>1, <1>4, <2>1, <2>2 DEF HeadInv
<1>5. CASE h \notin StoredIn(tables)
  <2>1. /\ tables' = Applied(tables, writer[w].op) /\ Outcome(tables, writer[w].op) = "ok"
        /\ Current(tables) /\ tables' # tables
    BY <1>5, TransactTables
  <2>2. writer[w].op.kind = "insert" /\ h <= writer[w].op.hi
    BY <1>2, <1>5, <2>1, AddedByInsert
  <2>3. CASE writer[w].at = "detached"
    BY <2>1, <2>2, <2>3 DEF Transact
  <2>4. CASE writer[w].at = "queued"
    <3>1. writer'[w].at = "ok" /\ writer'[w].op = writer[w].op
      BY <1>2, <1>3, <2>1, <2>4
    <3> QED
      BY <2>2, <3>1
  <2> QED
    BY <1>2, <2>3, <2>4
<1> QED
  BY <1>4, <1>5

\* The return of a call and the head.
LEMMA ReturnKeepsHead ==
    ASSUME StoreInv, HeadInv, NEW w \in Writers, Return(w)
    PROVE  HeadInv'
<1>1. UNCHANGED <<backend, phase, silent, tables>>
  BY DEF Return
<1>2. /\ writer[w] \in [op : Operations, at : Progress] /\ DOMAIN writer = Writers
      /\ writer' = [writer EXCEPT ![w] = Idle]
  BY CallInOpenStore DEF Return, StoreInv
<1>3. ASSUME writer[w].at = "ok", writer[w].op.kind = "insert", backend = "indexedDb"
      PROVE  /\ head' \in 0..MaxHeight /\ head <= head' /\ writer[w].op.hi <= head'
             /\ writer[w].op.hi \in Int
  <2>1. writer[w].op.hi \in Heights
    BY <1>2, <1>3, KnownOperations
  <2>2. head' = IF writer[w].op.hi > head THEN writer[w].op.hi ELSE head
    BY <1>3 DEF Return, NewHead
  <2> QED
    BY <2>1, <2>2, StoreAssumption DEF HeadInv, Heights
<1>4. ASSUME ~(writer[w].at = "ok" /\ writer[w].op.kind = "insert" /\ backend = "indexedDb")
      PROVE  head' = head
  BY <1>4 DEF Return
<1>5. head \in 0..MaxHeight /\ head' \in 0..MaxHeight /\ head <= head'
  BY <1>3, <1>4, StoreAssumption DEF HeadInv
<1> SUFFICES ASSUME backend = "indexedDb", phase = "open", ~silent, NEW h \in StoredIn(tables)
             PROVE  \/ h <= head'
                    \/ \E u \in Writers : /\ writer'[u].at = "ok" /\ writer'[u].op.kind = "insert"
                                          /\ h <= writer'[u].op.hi
  BY <1>1, <1>5 DEF HeadInv
<1>6. h \in Int /\ MaxHeight \in Int
  BY StoreAssumption DEF StoredIn, Heights
<1>7. CASE h <= head
  BY <1>5, <1>6, <1>7
<1>8. ASSUME NEW u \in Writers, writer[u].at = "ok", writer[u].op.kind = "insert",
             h <= writer[u].op.hi
      PROVE  h <= head' \/ writer'[u] = writer[u]
  <2>1. CASE u = w
    BY <1>3, <1>5, <1>6, <1>8, <2>1
  <2>2. CASE u # w
    BY <1>2, <2>2
  <2> QED
    BY <2>1, <2>2
<1> QED
  BY <1>7, <1>8 DEF HeadInv

\* The drop of a call and the head.
LEMMA DropKeepsHead ==
    ASSUME StoreInv, HeadInv, NEW w \in Writers, Call(w) \/ Drop(w)
    PROVE  HeadInv'
<1>1. UNCHANGED <<backend, phase, tables, head>>
  BY DEF Call, Drop
<1>0. silent => silent'
  BY Zenon DEF Call, Drop
<1>2. DOMAIN writer = Writers
  BY DEF StoreInv
<1>3. \A u \in Writers : u # w => writer'[u] = writer[u]
  BY <1>2 DEF Call, Drop
<1>4. writer[w].at = "ok" /\ writer[w].op.kind = "insert" => silent'
  BY Zenon DEF Call, Drop
<1> QED
  BY <1>0, <1>1, <1>3, <1>4 DEF HeadInv

\* The cached head is within the heights, and as high as every insertion that returned.
THEOREM HeadInvariant == Spec => []HeadInv
<1>1. Init => HeadInv
  BY StoreAssumption DEF Init, HeadInv
<1>2. StoreInv /\ HeadInv /\ [Next]_storeVars => HeadInv'
  <2> SUFFICES ASSUME StoreInv, HeadInv, [Next]_storeVars PROVE HeadInv'
    OBVIOUS
  <2>1. CASE Open
    <3>1. CASE backend = "indexedDb" /\ phase' = "open"
      <4>1. /\ head' = HeadOf(tables.ranges.header) /\ tables' = tables /\ version' = version
            /\ version = 5
        <5>1. OpenIndexedDb /\ Detected = 5
          BY <2>1, <3>1 DEF Open, OpenRedb, OpenMemory, OpenIndexedDb
        <5>2. version \in {0, 4, 5}
          BY <3>1 DEF StoreInv, Database
        <5>3. version = 5
          BY <5>1, <5>2 DEF Detected
        <5> QED
          BY <3>1, <5>1, <5>3 DEF OpenIndexedDb
      <4>2. tables.ranges.header = StoredIn(tables)
        BY <3>1, <4>1 DEF StoreInv, Database, HeaderRangesRecorded
      <4>3. StoredIn(tables) \in SUBSET Heights
        BY DEF StoredIn
      <4> QED
        BY <4>1, <4>2, <4>3, HeadOfStored DEF HeadInv
    <3>2. CASE ~(backend = "indexedDb" /\ phase' = "open")
      BY <2>1, <3>2, Zenon DEF Open, OpenRedb, OpenMemory, OpenIndexedDb, HeadInv
    <3> QED
      BY <3>1, <3>2
  <2>2. CASE Close \/ Closed \/ Crash
    BY <2>2, StoreAssumption DEF Close, Closed, Crash, HeadInv
  <2>3. ASSUME NEW w \in Writers, Call(w) \/ Transact(w) \/ Return(w) \/ Drop(w)
        PROVE  HeadInv'
    BY <2>3, TransactKeepsHead, ReturnKeepsHead, DropKeepsHead
  <2>4. CASE (\E w \in Waiters : Wait(w) \/ Check(w) \/ Await(w) \/ Wake(w)) \/ UNCHANGED storeVars
    <3>1. UNCHANGED <<backend, tables, phase, head, writer, silent>>
      BY <2>4, Zenon DEF Wait, Check, Await, Wake, storeVars
    <3> QED
      BY <3>1 DEF HeadInv
  <2> QED
    BY <2>1, <2>2, <2>3, <2>4 DEF Next
<1> QED
  BY <1>1, <1>2, StoreInvariant, PTL DEF Spec

\* What a waiter waits for is a height.
LEMMA WaitersAreTyped == Spec => []WaiterInv
<1>1. Init => WaiterInv
  BY StoreAssumption DEF Init, WaiterInv, NotWaiting
<1>2. StoreInv /\ HeadInv /\ WaiterInv /\ [Next]_storeVars => WaiterInv'
  <2> SUFFICES ASSUME StoreInv, HeadInv, WaiterInv, [Next]_storeVars PROVE WaiterInv'
    OBVIOUS
  <2> DEFINE Records == [height : 0..MaxHeight, newHead : BOOLEAN,
                         at : {"idle", "check", "checked", "sleep"}, notified : BOOLEAN]
  <2>0. waiter \in [Waiters -> Records] /\ NotWaiting \in Records
    BY StoreAssumption DEF WaiterInv, NotWaiting
  <2>1. ASSUME NEW w \in Waiters, Wait(w)
        PROVE  WaiterInv'
    <3>1. PICK a \in [height : AwaitedHeights, newHead : {FALSE}]
                     \cup {[height |-> HeadHeight, newHead |-> TRUE]} :
             waiter' = [waiter EXCEPT ![w] = [height |-> a.height, newHead |-> a.newHead,
                                              at |-> "check", notified |-> FALSE]]
      BY <2>1, Zenon DEF Wait
    <3>2. HeadHeight \in 0..MaxHeight
      <4>1. tables.ranges.header \in SUBSET Heights
        BY DEF StoreInv, Database, Tables, RangeKeys
      <4>2. HeadOf(tables.ranges.header) \in 0..MaxHeight
        BY <4>1, HeadOfStored
      <4> QED
        BY <4>2 DEF HeadHeight, HeadInv
    <3>3. AwaitedHeights \subseteq 0..MaxHeight
      BY StoreAssumption DEF Heights
    <3>4. a.height \in 0..MaxHeight /\ a.newHead \in BOOLEAN
      <4>1. CASE a \in [height : AwaitedHeights, newHead : {FALSE}]
        BY <3>3, <4>1, Zenon
      <4>2. CASE a = [height |-> HeadHeight, newHead |-> TRUE]
        BY <3>2, <4>2
      <4> QED
        BY <4>1, <4>2, Zenon
    <3>5. [height |-> a.height, newHead |-> a.newHead, at |-> "check", notified |-> FALSE] \in Records
      BY <3>4
    <3> QED
      BY <2>0, <3>1, <3>5 DEF WaiterInv
  <2>2. ASSUME NEW w \in Waiters, Check(w) \/ Await(w) \/ Wake(w)
        PROVE  WaiterInv'
    <3>1. waiter[w] \in Records
      BY <2>0
    <3>2. CASE Check(w)
      BY <2>0, <3>1, <3>2 DEF Check, WaiterInv
    <3>3. CASE Await(w)
      BY <2>0, <3>1, <3>3 DEF Await, Asleep, WaiterInv
    <3>4. CASE Wake(w)
      BY <2>0, <3>1, <3>4, Zenon DEF Wake, WaiterInv
    <3> QED
      BY <2>2, <3>2, <3>3, <3>4
  <2>3. ASSUME NEW w \in Writers, Call(w) \/ Transact(w) \/ Return(w) \/ Drop(w)
        PROVE  WaiterInv'
    <3>1. CASE Return(w)
      <4>1. \A u \in Waiters :
               [waiter[u] EXCEPT !.notified = waiter[u].notified \/ waiter[u].at # "idle"] \in Records
        BY <2>0, Zenon
      <4> QED
        BY <2>0, <3>1, <4>1 DEF Return, WaiterInv
    <3> QED
      BY <2>3, <3>1, Zenon DEF Call, Transact, Drop, WaiterInv
  <2>4. CASE Open \/ Close \/ Closed \/ Crash \/ UNCHANGED storeVars
    BY <2>0, <2>4 DEF Open, OpenRedb, OpenMemory, OpenIndexedDb, Close, Closed, Crash, storeVars,
                      WaiterInv
  <2> QED
    BY <2>1, <2>2, <2>3, <2>4 DEF Next
<1> QED
  BY <1>1, <1>2, StoreInvariant, HeadInvariant, PTL DEF Spec

\* A header is found by height, by hash and in the ranges or in none of them, and no
\* operation meets tables that disagree: for every history of calls, drops and crashes.
THEOREM TablesAlwaysAgree == Spec => []TablesAgree
<1>1. StoreInv /\ HeadInv /\ WaiterInv => TablesAgree
  <2> SUFFICES ASSUME StoreInv, HeadInv, WaiterInv PROVE TablesAgree
    OBVIOUS
  <2>1. TypeOK
    BY DEF StoreInv, HeadInv, WaiterInv, TypeOK, Database
  <2>2. ASSUME phase = "open"
        PROVE  tables.ranges.header = StoredIn(tables) /\ Consistent(tables, version)
    BY <2>2, OpenIsCurrent DEF Current, StoreInv, Database
  <2>3. \A w \in Writers : writer[w].at \notin {"StoredDataError", "HashExists"}
    BY DEF StoreInv, WriterOK, Progress, Idle
  <2> QED
    BY <2>1, <2>2, <2>3 DEF TablesAgree
<1> QED
  BY <1>1, StoreInvariant, HeadInvariant, WaitersAreTyped, PTL

\* Whatever the order of insertions and removals, neighbours are of one chain.
THEOREM NeighboursAlwaysVerify == Spec => []NeighboursVerify
<1>1. StoreInv => NeighboursVerify
  BY DEF StoreInv, Database, NeighboursVerify
<1> QED
  BY <1>1, StoreInvariant, PTL

\* The cached head of IndexedDbStore is not behind insertions that returned.
THEOREM HeadDoesNotLag == Spec => []HeadNeverLags
<1>1. HeadInv => HeadNeverLags
  <2> SUFFICES ASSUME HeadInv, backend = "indexedDb", phase = "open", ~silent,
                      \A w \in Writers : writer[w].at = "idle"
               PROVE  head >= HeadOf(StoredIn(tables))
    BY DEF HeadNeverLags
  <2>1. head \in 0..MaxHeight /\ \A h \in StoredIn(tables) : h <= head
    BY DEF HeadInv
  <2>2. StoredIn(tables) \in SUBSET Heights
    BY DEF StoredIn
  <2>3. CASE StoredIn(tables) = {}
    BY <2>1, <2>3, StoreAssumption DEF HeadOf
  <2>4. CASE StoredIn(tables) # {}
    <3>1. HeadOf(StoredIn(tables)) \in StoredIn(tables) /\ HeadOf(StoredIn(tables)) \in 0..MaxHeight
      BY <2>2, <2>4, HeadOfStored
    <3> QED
      BY <2>1, <3>1, StoreAssumption
  <2> QED
    BY <2>3, <2>4
<1> QED
  BY <1>1, HeadInvariant, PTL

\* Once close has returned no blocking task is left to write.
THEOREM NothingWritesWhenClosed == Spec => QuietWhenClosed
<1>1. StoreInv /\ [Next]_storeVars => [phase = "closed" => UNCHANGED tables]_storeVars
  <2> SUFFICES ASSUME StoreInv, Next, phase = "closed" PROVE UNCHANGED tables
    BY DEF storeVars
  <2>1. \A w \in Writers : writer[w].at = "idle"
    BY DEF StoreInv, Idle
  <2> QED
    BY <2>1, Zenon DEF Next, Open, OpenRedb, OpenMemory, OpenIndexedDb, Close, Closed, Crash, Call, Transact,
                Return, Drop, Wait, Check, Await, Wake
<1> QED
  BY <1>1, StoreInvariant, PTL DEF Spec, QuietWhenClosed

-----------------------------------------------------------------------------
(* The refinement                                                          *)

\* What a step does to the four sets: nothing, or one operation of HeaderStore.
LEMMA StepOnSets ==
    ASSUME StoreInv, [Next]_storeVars
    PROVE  \/ SameSets(tables, version, tables', version')
           \/ /\ version' = version /\ SampledKey(version) = "sampled"
              /\ SetStep(tables, tables')
<1>1. CASE Open
  BY <1>1, OpenKeepsDatabase DEF StoreInv
<1>2. ASSUME NEW w \in Writers, Transact(w)
      PROVE  \/ SameSets(tables, version, tables', version')
             \/ /\ version' = version /\ SampledKey(version) = "sampled"
                /\ SetStep(tables, tables')
  BY <1>2, TransactTables DEF SameSets
<1>3. ASSUME UNCHANGED <<tables, version>>
      PROVE  SameSets(tables, version, tables', version')
  BY <1>3 DEF SameSets
<1>4. CASE Close \/ Closed \/ Crash \/ UNCHANGED storeVars
  BY <1>3, <1>4 DEF Close, Closed, Crash, storeVars
<1>5. CASE \E w \in Writers : Call(w) \/ Return(w) \/ Drop(w)
  BY <1>3, <1>5 DEF Call, Return, Drop
<1>6. CASE \E w \in Waiters : Wait(w) \/ Check(w) \/ Await(w) \/ Wake(w)
  BY <1>3, <1>6, Zenon DEF Wait, Check, Await, Wake
<1> QED
  BY <1>1, <1>2, <1>4, <1>5, <1>6 DEF Next

\* Every store implements HeaderStore, on which the models of all other components
\* rest: migrations, crashes, aborted transactions and dropped callers included.
THEOREM StoresImplementHeaderStore == Spec => ImplementsHeaderStore
<1>1. Init /\ StoreInv => Abstract!StoreConsistent
  <2> SUFFICES ASSUME StoreInv PROVE Abstract!StoreConsistent
    OBVIOUS
  <2>1. tables \in Tables /\ Consistent(tables, version)
    BY DEF StoreInv, Database
  <2>2. SampledKey(version) \in RangeKeys /\ "pruned" \in RangeKeys
    BY DEF SampledKey, RangeKeys
  <2>3. /\ StoredIn(tables) \in SUBSET Heights
        /\ tables.ranges[SampledKey(version)] \in SUBSET Heights
        /\ tables.ranges.pruned \in SUBSET Heights
        /\ tables.metadata \in [Heights -> SUBSET Cids]
    BY <2>1, <2>2 DEF Tables, StoredIn
  <2> QED
    BY <2>1, <2>3 DEF Consistent, Abstract!StoreConsistent, Abstract!StoreTypeOK, Abstract!Heights,
                      Heights
<1>2. StoreInv /\ [Next]_storeVars => [Abstract!StoreNext]_(Abstract!storeVars)
  <2> SUFFICES ASSUME StoreInv, [Next]_storeVars,
                      ~SameSets(tables, version, tables', version')
               PROVE  Abstract!StoreNext
    BY DEF SameSets, Abstract!storeVars
  <2>1. version' = version /\ SampledKey(version) = "sampled" /\ SetStep(tables, tables')
    BY StepOnSets
  <2>2. Abstract!Heights = Heights /\ StoredIn(tables) \subseteq Heights
    BY DEF Abstract!Heights, Heights, StoredIn
  <2>3. ASSUME NEW lo \in Heights, NEW hi \in Heights, lo <= hi,
               (lo..hi) \cap StoredIn(tables) = {},
               \/ \A h \in StoredIn(tables) : h < lo
               \/ lo - 1 \in StoredIn(tables)
               \/ hi + 1 \in StoredIn(tables),
               StoredIn(tables') = StoredIn(tables) \cup (lo..hi),
               tables'.ranges.sampled = tables.ranges.sampled \ (lo..hi),
               tables'.ranges.pruned = tables.ranges.pruned \ (lo..hi),
               tables'.metadata = tables.metadata
        PROVE  Abstract!StoreNext
    <3>1. Abstract!StoreInsert(lo, hi)
      BY <2>1, <2>3 DEF Abstract!StoreInsert, Abstract!InsertionConstraintsMet
    <3>2. {} \in SUBSET Cids
      OBVIOUS
    <3> QED
      BY <2>2, <3>1, <3>2 DEF Abstract!StoreNext
  <2>4. ASSUME NEW h \in StoredIn(tables),
               StoredIn(tables') = StoredIn(tables) \ {h},
               tables'.ranges.sampled = tables.ranges.sampled \ {h},
               tables'.ranges.pruned = tables.ranges.pruned \cup {h},
               tables'.metadata = [tables.metadata EXCEPT ![h] = {}]
        PROVE  Abstract!StoreNext
    <3>1. Abstract!StoreRemoveHeight(h)
      BY <2>1, <2>4 DEF Abstract!StoreRemoveHeight
    <3>2. {} \in SUBSET Cids /\ h \in Heights
      BY <2>2
    <3> QED
      BY <2>2, <3>1, <3>2 DEF Abstract!StoreNext
  <2>5. ASSUME NEW h \in StoredIn(tables),
               StoredIn(tables') = StoredIn(tables), tables'.metadata = tables.metadata,
               tables'.ranges.sampled = tables.ranges.sampled \cup {h},
               tables'.ranges.pruned = tables.ranges.pruned
        PROVE  Abstract!StoreNext
    <3>1. Abstract!StoreMarkAsSampled(h)
      BY <2>1, <2>5 DEF Abstract!StoreMarkAsSampled
    <3>2. {} \in SUBSET Cids /\ h \in Heights
      BY <2>2
    <3> QED
      BY <2>2, <3>1, <3>2 DEF Abstract!StoreNext
  <2>6. ASSUME NEW h \in StoredIn(tables), NEW cids \in SUBSET Cids,
               StoredIn(tables') = StoredIn(tables), tables'.ranges = tables.ranges,
               tables'.metadata = [tables.metadata EXCEPT ![h] = @ \cup cids]
        PROVE  Abstract!StoreNext
    <3>1. Abstract!StoreUpdateSamplingMetadata(h, cids)
      BY <2>1, <2>6 DEF Abstract!StoreUpdateSamplingMetadata
    <3>2. h \in Heights
      BY <2>2
    <3> QED
      BY <2>2, <3>1, <3>2 DEF Abstract!StoreNext
  <2> QED
    BY <2>1, <2>3, <2>4, <2>5, <2>6, Zenon DEF SetStep
<1> QED
  BY <1>1, <1>2, StoreInvariant, PTL DEF Spec, ImplementsHeaderStore, Abstract!StoreSpec
=============================================================================
