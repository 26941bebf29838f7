-------------------------- MODULE ProjectionProofs --------------------------
(***************************************************************************)
(* Projection.tla for any runners, persistence ids, batch and scan limits, *)
(* and any number of writes, failures, compactions and crashes: nothing is *)
(* skipped or applied twice, and no history is compacted that a projection *)
(* has not passed.  First the inductive invariant, what the queries of the *)
(* change feed compute for any tables, and the steps of a runner that      *)
(* reads, handles and saves.                                               *)
(***************************************************************************)
EXTENDS Projection, FiniteSetTheorems, TLAPS

Sources == {"at-least-once", "exactly-once"}

PCs == {"none", "register", "registering", "top", "reading", "handle", "saving", "applying"}

Row == [offset : Nat, pid : Pids, revision : Nat, operation : Nat, content : {Null}]

Registration == [source : Sources, offset : Nat]

Tables(offsets, effects) ==
    [state : [Pids -> [revision : Nat, operation : Nat, content : {Null}] \cup {Null}],
     operations : [Pids -> SUBSET [operation : Nat, fingerprint : {Fingerprint(Null)},
                                   revision : Nat]],
     changes : SUBSET Row, sequence : Nat, high : Nat, compacted : Nat,
     offsets : {offsets}, effects : {effects}]

Runner == [pc : PCs, mode : Sources \cup {"none"}, initial : Nat \cup {Null}, stop : BOOLEAN,
           offset : Nat, batch : [rows : SUBSET Row, offset : Nat]]

Call == [kind : {"compact"}, limit : {CompactionLimit}] \cup
        [kind : {"retire"}, projection : Runners]

Operation == [from : Runners \cup {Null}, call : Call, stage : {"waiting", "settled"},
              tag : {"none", "ok", "timeout"}, value : [count : Nat] \cup {Null}]

TablesOk(d) ==
    /\ d \in Tables(d.offsets, d.effects)
    /\ d.offsets \in [Registered(d) -> Registration] /\ Registered(d) \subseteq Runners
    /\ d.effects \in [DOMAIN d.effects -> Seq(Nat)]

\* The types of the tables, the runners and the operations.
TypeOK ==
    /\ TablesOk(db) /\ fed \in Seq(Pids)
    /\ runner \in [Runners -> Runner]
    /\ delivered \in [Runners -> SUBSET Nat] /\ base \in [Runners -> Nat]
    /\ retiring \subseteq Runners /\ pending \subseteq Operation

\* The table of changes is the part of the feed that is not compacted.
FeedInv ==
    /\ db.sequence = Len(fed) /\ db.high = Len(fed) /\ db.compacted <= Len(fed)
    /\ IsFiniteSet(db.changes)
    /\ \A row \in db.changes : /\ db.compacted < row.offset /\ row.offset <= Len(fed)
                               /\ row.pid = fed[row.offset]
    /\ \A n \in DOMAIN fed : n > db.compacted => \E row \in db.changes : row.offset = n
    /\ \A p \in Pids : \A o \in db.operations[p] : o.operation <= Len(fed)

\* The changes a projection wants between two offsets.
Between(r, low, high) == {n \in DOMAIN fed : fed[n] \in Wanted[r] /\ low < n /\ n <= high}

\* A projection's offset, and what was done up to it.
OffsetOk(r) ==
    LET offset == db.offsets[r].offset
    IN  /\ base[r] <= offset /\ offset <= Len(fed) /\ db.compacted <= offset
        /\ db.offsets[r].source = "at-least-once" =>
              Between(r, base[r], offset) \subseteq delivered[r]
        /\ db.offsets[r].source = "exactly-once" =>
              Lists(EffectsOf(db, r), Between(r, base[r], offset))

\* A batch is all a projection wants up to the offset the batch leads to.
BatchOk(r) ==
    LET batch == runner[r].batch
    IN  /\ runner[r].offset <= batch.offset /\ batch.offset <= Len(fed)
        /\ Offsets(batch.rows) = Between(r, runner[r].offset, batch.offset)

\* A runner in its loop is in step with its stored offset, and has had its
\* handler finish a batch whose offset it saves.
RunnerOk(r) ==
    /\ runner[r].pc # "none" => runner[r].mode \in Sources
    /\ runner[r].pc \notin {"none", "register", "registering"} =>
          /\ r \in Registered(db) /\ runner[r].offset = db.offsets[r].offset
          /\ runner[r].mode = db.offsets[r].source
    /\ runner[r].pc \in {"handle", "saving", "applying"} => BatchOk(r)
    /\ runner[r].pc \in {"handle", "saving"} => runner[r].mode = "at-least-once"
    /\ runner[r].pc = "applying" => runner[r].mode = "exactly-once"
    /\ runner[r].pc = "saving" => Offsets(runner[r].batch.rows) \subseteq delivered[r]

\* A projection has no runner while it is retired, by one operation.
RetireInv ==
    /\ \A r \in retiring : runner[r].pc = "none"
    /\ \A o \in pending : IF o.call.kind = "retire"
                          THEN o.from = o.call.projection /\ o.from \in retiring
                          ELSE o.from = Null
    /\ \A o, p \in pending : o.from = p.from /\ o.call.kind = "retire" => o = p

\* The inductive invariant.
IInv ==
    /\ TypeOK /\ FeedInv /\ RetireInv
    /\ \A r \in Registered(db) : OffsetOk(r)
    /\ \A r \in Runners : RunnerOk(r)

-----------------------------------------------------------------------------
(* Numbers and offsets.                                                    *)

\* A set of numbers has a smallest.
LEMMA NatMin ==
    ASSUME NEW S \in SUBSET Nat, S # {}
    PROVE  Min(S) \in S /\ \A y \in S : Min(S) <= y
<1> DEFINE Less == {p \in Nat \X Nat : p[1] < p[2]}
<1>0. IsWellFoundedOn(Less, Nat)
  BY NatLessThanWellFounded, Zenon DEF OpToRel
<1>1. PICK x \in S : \A y \in S : ~(<<y, x>> \in Less)
  BY <1>0, WFMin, Zenon
<1>2. ASSUME NEW y \in S PROVE x =< y
  <2>1. PICK p : p = <<y, x>>
    BY Zenon
  <2>2. p \in Nat \X Nat /\ p[1] = y /\ p[2] = x
    BY <2>1, Zenon
  <2>3. ~(p[1] < p[2])
    BY <1>1, <2>1, <2>2, Zenon
  <2>4. QED BY <2>2, <2>3
<1>3. QED BY <1>2, Zenon DEF Min

\* A bounded set of numbers has a largest.
LEMMA NatMax ==
    ASSUME NEW S \in SUBSET Nat, S # {}, NEW n \in Nat, \A y \in S : y <= n
    PROVE  Max(S) \in S /\ \A y \in S : y <= Max(S)
<1> DEFINE Bounds == {b \in Nat : \A y \in S : y <= b}
<1>1. Bounds \in SUBSET Nat /\ Bounds # {}
  BY Zenon
<1>2. PICK x \in Bounds : \A b \in Bounds : x <= b
  BY <1>1, NatMin, Zenon
<1>3. x \in S
  <2>1. SUFFICES ASSUME x \notin S PROVE FALSE
    BY Zenon
  <2>2. PICK y \in S : TRUE
    BY Zenon
  <2>3. y < x /\ x \in Nat /\ y \in Nat
    BY <2>1
  <2>4. x - 1 \in Bounds
    BY <2>1, <2>3
  <2>5. QED BY <1>2, <2>3, <2>4
<1>4. \A y \in S : x >= y
  BY Zenon
<1>5. QED BY <1>3, <1>4, Zenon DEF Max

\* The highest offset of some rows is the offset of one of them.
LEMMA HighestIs ==
    ASSUME NEW rows, rows # {}, NEW n \in Nat, \A r \in rows : r.offset \in Nat /\ r.offset <= n
    PROVE  /\ \E r \in rows : r.offset = Highest(rows)
           /\ \A r \in rows : r.offset <= Highest(rows)
           /\ Highest(rows) \in Nat /\ Highest(rows) <= n
<1> DEFINE S == Offsets(rows)
<1>1. S \in SUBSET Nat /\ S # {} /\ \A y \in S : y <= n
  BY Zenon DEF Offsets
<1>2. Max(S) \in S /\ \A y \in S : y <= Max(S)
  BY <1>1, NatMax, Zenon
<1>3. Highest(rows) = Max(S)
  BY Zenon DEF Highest
<1>4. \A r \in rows : r.offset \in S
  BY Zenon DEF Offsets
<1>5. \A y \in S : \E r \in rows : r.offset = y
  BY Zenon DEF Offsets
<1> HIDE DEF S
<1>6. QED BY <1>1, <1>2, <1>3, <1>4, <1>5, Zenon

-----------------------------------------------------------------------------
(* Queries of the change feed.                                             *)

\* ORDER BY offset LIMIT n: the first rows are an initial part of all, with a
\* row in it when there is one, and all of them when there are no more than n.
LEMMA FirstRowsIs ==
    ASSUME NEW rows, IsFiniteSet(rows), \A r \in rows : r.offset \in Nat, NEW n \in Nat
    PROVE  /\ FirstRows(rows, n) \subseteq rows
           /\ \A p \in FirstRows(rows, n), q \in rows :
                 q.offset <= p.offset => q \in FirstRows(rows, n)
           /\ n >= 1 /\ rows # {} => FirstRows(rows, n) # {}
           /\ n >= Cardinality(rows) => FirstRows(rows, n) = rows
<1> DEFINE Below(p) == {r \in rows : r.offset < p.offset}
<1>1. \A p : p \in FirstRows(rows, n) <=> p \in rows /\ Cardinality(Below(p)) < n
  BY Zenon DEF FirstRows
<1>2. \A p : Below(p) \in SUBSET rows /\ IsFiniteSet(Below(p)) /\ Cardinality(Below(p)) \in Nat
  BY FS_Subset, FS_CardinalityType, Zenon
<1>3. ASSUME NEW p \in FirstRows(rows, n), NEW q \in rows, q.offset <= p.offset
      PROVE  q \in FirstRows(rows, n)
  <2>0. p \in rows /\ p.offset \in Nat /\ q.offset \in Nat
    BY <1>1, Zenon
  <2>1. Below(q) \in SUBSET Below(p)
    <3>1. ASSUME NEW r \in rows, r.offset < q.offset PROVE r.offset < p.offset
      BY <1>3, <2>0, <3>1
    <3>2. QED BY <3>1, Zenon
  <2>2. Cardinality(Below(q)) <= Cardinality(Below(p))
    BY <1>2, <2>1, FS_Subset, Zenon
  <2> HIDE DEF Below
  <2>3. QED BY <1>1, <1>2, <1>3, <2>2
<1>4. ASSUME n >= 1, rows # {} PROVE FirstRows(rows, n) # {}
  <2>1. Offsets(rows) \in SUBSET Nat /\ Offsets(rows) # {}
    BY <1>4, Zenon DEF Offsets
  <2>2. PICK m \in Offsets(rows) : \A y \in Offsets(rows) : m <= y
    BY <2>1, NatMin, Zenon
  <2>3. PICK p \in rows : p.offset = m
    BY Zenon DEF Offsets
  <2>4. Below(p) = {}
    BY <2>1, <2>2, <2>3 DEF Offsets
  <2>5. Cardinality(Below(p)) = 0
    BY <2>4, FS_EmptySet, Zenon
  <2> HIDE DEF Below
  <2>6. QED BY <1>1, <1>4, <2>3, <2>5
<1>5. ASSUME n >= Cardinality(rows), NEW p \in rows PROVE p \in FirstRows(rows, n)
  <2>1. Below(p) # rows
    <3>1. p \notin Below(p)
      OBVIOUS
    <3>2. QED BY <3>1, Zenon
  <2>2. Cardinality(Below(p)) <= Cardinality(rows) /\ Cardinality(rows) # Cardinality(Below(p))
    BY <1>2, <2>1, FS_Subset, Zenon
  <2>3. Cardinality(rows) \in Nat
    BY FS_CardinalityType, Zenon
  <2> HIDE DEF Below
  <2>4. QED BY <1>1, <1>2, <1>5, <2>2, <2>3
<1>6. FirstRows(rows, n) \subseteq rows
  BY Zenon DEF FirstRows
<1>7. QED BY <1>3, <1>4, <1>5, <1>6, Zenon

\* The smaller and the larger of two numbers.
LEMMA MinMaxOfTwo ==
    ASSUME NEW a \in Nat, NEW b \in Nat
    PROVE  /\ Min({a, b}) = IF a <= b THEN a ELSE b
           /\ Max({a, b}) = IF a <= b THEN b ELSE a
<1>1. PICK m : m = Min({a, b})
  BY Zenon
<1>2. m \in {a, b} /\ m <= a /\ m <= b
  BY <1>1, NatMin, Zenon
<1>3. PICK k : k = Max({a, b})
  BY Zenon
<1>4. \A y \in {a, b} : y <= a + b
  OBVIOUS
<1>5. k \in {a, b} /\ a <= k /\ b <= k
  <2>1. {a, b} \in SUBSET Nat /\ {a, b} # {} /\ a + b \in Nat
    OBVIOUS
  <2>2. QED BY <1>3, <1>4, <2>1, NatMax, Zenon
<1>6. m = IF a <= b THEN a ELSE b
  BY <1>2
<1>7. k = IF a <= b THEN b ELSE a
  BY <1>5
<1>8. QED BY <1>1, <1>3, <1>6, <1>7, Zenon

\* read_changes: wherever the limits of rows, of bytes and of the scan cut a
\* batch, it has every wanted change up to the offset it leads to.
LEMMA BatchCovers ==
    ASSUME NEW d, IsFiniteSet(d.changes), d.high \in Nat,
           \A row \in d.changes : row.offset \in Nat /\ row.offset <= d.high,
           NEW after \in Nat, after <= d.high, NEW limit \in Nat \ {0},
           NEW scanLimit \in Nat \ {0}, NEW wanted,
           NEW b \in Batches(d, wanted, after, limit, scanLimit)
    PROVE  /\ b.rows = {row \in d.changes : row.pid \in wanted /\ after < row.offset
                                            /\ row.offset <= b.offset}
           /\ b.offset \in Nat /\ after <= b.offset /\ b.offset <= d.high
           /\ b = [rows |-> b.rows, offset |-> b.offset]
<1>1. PICK rows : rows = Scan(d, wanted, after, scanLimit)
  BY Zenon
<1>2. PICK through \in Nat : /\ through = ScanThrough(d, after, scanLimit)
                             /\ after <= through /\ through <= d.high
  <2>1. ScanThrough(d, after, scanLimit) =
           IF d.high <= after + scanLimit THEN d.high ELSE after + scanLimit
    BY MinMaxOfTwo DEF ScanThrough
  <2>2. QED BY <2>1
<1>3. rows = {row \in d.changes : row.pid \in wanted /\ row.offset > after /\ row.offset <= through}
  BY <1>1, <1>2, Zenon DEF Scan
<1>4. IsFiniteSet(rows) /\ Cardinality(rows) \in Nat /\ \A r \in rows : r.offset \in Nat
  <2>1. rows \in SUBSET d.changes
    BY <1>3, Zenon
  <2>2. QED BY <2>1, FS_Subset, FS_CardinalityType, Zenon
<1>5. PICK n \in Nat : /\ b = [rows |-> FirstRows(rows, n),
                               offset |-> BatchOffset(d, rows, n, after, limit, scanLimit)]
                       /\ rows = {} => n = 0
                       /\ rows # {} => n >= 1
  <2>1. PICK n \in IF rows = {} THEN {0} ELSE 1 .. Min({limit, Cardinality(rows)}) :
           b = [rows |-> FirstRows(rows, n),
                offset |-> BatchOffset(d, rows, n, after, limit, scanLimit)]
    BY <1>1, Zenon DEF Batches
  <2>2. Min({limit, Cardinality(rows)}) \in Nat
    BY <1>4, NatMin, Zenon
  <2>3. QED BY <2>1, <2>2
<1>6. PICK first : first = FirstRows(rows, n) /\ b.rows = first
  BY <1>5, Zenon
<1>7. PICK top : top = BatchOffset(d, rows, n, after, limit, scanLimit) /\ b.offset = top
  BY <1>5, Zenon
<1>8. CASE n = Cardinality(rows) /\ n < limit
  <2>1. first = rows
    BY <1>4, <1>6, <1>8, FirstRowsIs
  <2>2. top = through
    <3>1. top = Max({after, through})
      BY <1>2, <1>7, <1>8, Zenon DEF BatchOffset
    <3>2. QED BY <1>2, <3>1, MinMaxOfTwo, Zenon
  <2>3. QED BY <1>2, <1>3, <1>5, <1>6, <1>7, <2>1, <2>2, Zenon
<1>9. CASE ~(n = Cardinality(rows) /\ n < limit)
  <2>1. rows # {}
    <3>1. Cardinality({}) = 0
      BY FS_EmptySet, Zenon
    <3>2. QED BY <1>5, <1>9, <3>1
  <2>2. first # {} /\ first \subseteq rows
        /\ \A p \in first, q \in rows : q.offset <= p.offset => q \in first
    BY <1>4, <1>5, <1>6, <2>1, FirstRowsIs, Zenon
  <2>3. top = Highest(first)
    BY <1>6, <1>7, <1>9, Zenon DEF BatchOffset
  <2>4. \A r \in first : r.offset \in Nat /\ r.offset <= through
    BY <1>3, <1>4, <2>2, Zenon
  <2>5. /\ \A r \in first : r.offset <= top
        /\ top \in Nat /\ top <= through
        /\ \E r \in first : r.offset = top
    BY <1>2, <2>2, <2>3, <2>4, HighestIs, Zenon
  <2>6. after <= top
    BY <1>3, <2>2, <2>5
  <2>7. first = {row \in d.changes : row.pid \in wanted /\ after < row.offset /\ row.offset <= top}
    BY <1>2, <1>3, <2>2, <2>5
  <2>8. QED BY <1>2, <1>5, <1>6, <1>7, <2>5, <2>6, <2>7, Zenon
<1>10. QED BY <1>8, <1>9, Zenon

-----------------------------------------------------------------------------
(* The order of a query.                                                   *)

\* ORDER BY offset: InOrder has every member once, ascending.
LEMMA InOrderLists ==
    ASSUME NEW S \in SUBSET Nat, IsFiniteSet(S)
    PROVE  InOrder(S) \in Seq(Nat) /\ Lists(InOrder(S), S)
<1> DEFINE Below(n) == {m \in S : m < n}
           Rank(n) == Cardinality(Below(n))
<1>1. PICK c \in Nat : c = Cardinality(S)
  BY FS_CardinalityType, Zenon
<1>2. ASSUME NEW n \in S PROVE Rank(n) \in Nat /\ Rank(n) < c
  <2>1. Below(n) \in SUBSET S /\ n \notin Below(n)
    OBVIOUS
  <2>2. IsFiniteSet(Below(n)) /\ Rank(n) <= c /\ Rank(n) # c
    BY <1>1, <2>1, FS_Subset, Zenon
  <2>3. Rank(n) \in Nat
    BY <2>2, FS_CardinalityType, Zenon
  <2> HIDE DEF Rank
  <2>4. QED BY <1>1, <2>2, <2>3
<1>3. ASSUME NEW n \in S, NEW m \in S, n < m PROVE Rank(n) < Rank(m)
  <2>1. Below(n) \in SUBSET Below(m) /\ n \in Below(m) /\ n \notin Below(n)
    <3>1. ASSUME NEW x \in S, x < n PROVE x < m
      <4>1. x \in Nat /\ n \in Nat /\ m \in Nat
        BY Zenon
      <4>2. QED BY <1>3, <3>1, <4>1
    <3>2. ~(n < n)
      OBVIOUS
    <3>3. QED BY <1>3, <3>1, <3>2, Zenon
  <2>2. IsFiniteSet(Below(m))
    <3>1. Below(m) \in SUBSET S
      BY Zenon
    <3>2. QED BY <3>1, FS_Subset, Zenon
  <2>3. Rank(n) <= Rank(m) /\ Rank(n) # Rank(m)
    BY <2>1, <2>2, FS_Subset, Zenon
  <2>4. Rank(n) \in Nat /\ Rank(m) \in Nat
    BY <1>2, Zenon
  <2> HIDE DEF Rank
  <2>5. QED BY <2>3, <2>4
<1> HIDE DEF Rank
<1>4. \A n, m \in S : Rank(n) = Rank(m) => n = m
  <2>1. ASSUME NEW n \in S, NEW m \in S, Rank(n) = Rank(m), n # m PROVE FALSE
    <3>1. n < m \/ m < n
      BY <2>1
    <3>2. Rank(n) < Rank(m) \/ Rank(m) < Rank(n)
      BY <1>3, <3>1, Zenon
    <3>3. QED BY <1>2, <2>1, <3>2
  <2>2. QED BY <2>1, Zenon
<1>5. \A i \in 1 .. c : \E n \in S : Rank(n) = i - 1
  <2> DEFINE f == [n \in S |-> Rank(n) + 1]
  <2>1. f \in [S -> 1 .. c]
    BY <1>2
  <2>2. \A a, b \in DOMAIN f : f[a] = f[b] => a = b
    BY <1>2, <1>4
  <2>3. f \in Injection(S, 1 .. c)
    BY <2>1, <2>2, Zenon DEF Injection, IsInjective
  <2>4. IsFiniteSet(1 .. c) /\ Cardinality(1 .. c) = c
    BY FS_Interval
  <2>5. f \in Surjection(S, 1 .. c)
    BY <1>1, <2>3, <2>4, FS_Injection, Zenon
  <2>6. \A i \in 1 .. c : \E n \in S : f[n] = i
    BY <2>5, Zenon DEF Surjection
  <2>7. ASSUME NEW i \in 1 .. c PROVE \E n \in S : Rank(n) = i - 1
    <3>1. PICK n \in S : f[n] = i
      BY <2>6, Zenon
    <3>2. f[n] = Rank(n) + 1 /\ Rank(n) \in Nat
      BY <1>2, Zenon
    <3> HIDE DEF f
    <3>3. Rank(n) = i - 1
      BY <3>1, <3>2
    <3>4. QED BY <3>3, Zenon
  <2>8. QED BY <2>7, Zenon
<1>6. PICK s : s = InOrder(S)
  BY Zenon
<1>7. s = [i \in 1 .. c |-> CHOOSE n \in S : Rank(n) = i - 1]
  BY <1>1, <1>6, Zenon DEF InOrder, Rank
<1>8. \A i \in 1 .. c : s[i] \in S /\ Rank(s[i]) = i - 1
  <2>1. ASSUME NEW i \in 1 .. c PROVE s[i] \in S /\ Rank(s[i]) = i - 1
    <3>1. s[i] = CHOOSE n \in S : Rank(n) = i - 1
      BY <1>7, Zenon
    <3>2. QED BY <1>5, <3>1, Zenon
  <2>2. QED BY <2>1, Zenon
<1>9. DOMAIN s = 1 .. c /\ s \in Seq(Nat)
  <2>1. s \in [1 .. c -> Nat]
    BY <1>7, <1>8, Zenon
  <2>2. QED BY <2>1
<1>10. \A i, j \in 1 .. c : i < j => s[i] < s[j]
  <2>1. ASSUME NEW i \in 1 .. c, NEW j \in 1 .. c, i < j, ~(s[i] < s[j]) PROVE FALSE
    <3>0. PICK a \in S, b \in S : a = s[i] /\ b = s[j] /\ Rank(a) = i - 1 /\ Rank(b) = j - 1
      BY <1>8, Zenon
    <3>1. a \in Nat /\ b \in Nat /\ Rank(a) < Rank(b)
      BY <2>1, <3>0
    <3>2. b < a \/ b = a
      BY <2>1, <3>0, <3>1
    <3>3. Rank(b) < Rank(a) \/ Rank(b) = Rank(a)
      BY <1>3, <3>2, Zenon
    <3>4. Rank(a) \in Nat /\ Rank(b) \in Nat
      BY <1>2, Zenon
    <3>5. QED BY <3>1, <3>3, <3>4
  <2>2. QED BY <2>1, Zenon
<1>11. Range(s) = S
  <2>1. ASSUME NEW n \in S PROVE \E i \in 1 .. c : s[i] = n
    <3>1. PICK i \in 1 .. c : i = Rank(n) + 1
      BY <1>2
    <3>2. Rank(s[i]) = Rank(n) /\ s[i] \in S
      BY <1>2, <1>8, <3>1
    <3>3. QED BY <1>4, <3>2, Zenon
  <2>2. QED BY <1>8, <1>9, <2>1, Zenon DEF Range
<1>12. QED BY <1>6, <1>9, <1>10, <1>11, Zenon DEF Lists

\* What comes after all that is listed is listed by appending it.
LEMMA ListsAppend ==
    ASSUME NEW s \in Seq(Nat), NEW t \in Seq(Nat), NEW A, NEW B, Lists(s, A), Lists(t, B),
           \A a \in A, b \in B : a < b
    PROVE  s \o t \in Seq(Nat) /\ Lists(s \o t, A \cup B)
<1>1. PICK k \in Nat : k = Len(s) /\ DOMAIN s = 1 .. k
  OBVIOUS
<1>2. PICK l \in Nat : l = Len(t) /\ DOMAIN t = 1 .. l
  OBVIOUS
<1>3. PICK u \in Seq(Nat) : u = s \o t
  <2>1. s \o t \in Seq(Nat)
    OBVIOUS
  <2>2. QED BY <2>1, Zenon
<1>4. /\ DOMAIN u = 1 .. k + l
      /\ \A i \in 1 .. k : u[i] = s[i]
      /\ \A i \in k + 1 .. k + l : u[i] = t[i - k]
  BY <1>1, <1>2, <1>3
<1>5. \A i \in 1 .. k : s[i] \in A /\ s[i] \in Nat
  <2>1. \A i \in 1 .. k : s[i] \in Nat
    BY <1>1
  <2>2. \A i \in 1 .. k : s[i] \in A
    BY <1>1, Zenon DEF Lists, Range
  <2>3. QED BY <2>1, <2>2, Zenon
<1>6. \A i \in 1 .. l : t[i] \in B /\ t[i] \in Nat
  <2>1. \A i \in 1 .. l : t[i] \in Nat
    BY <1>2
  <2>2. \A i \in 1 .. l : t[i] \in B
    BY <1>2, Zenon DEF Lists, Range
  <2>3. QED BY <2>1, <2>2, Zenon
<1>7. \A a \in A : \E i \in 1 .. k : s[i] = a
  BY <1>1, Zenon DEF Lists, Range
<1>8. \A b \in B : \E i \in 1 .. l : t[i] = b
  BY <1>2, Zenon DEF Lists, Range
<1>9. \A i \in 1 .. k + l : i \in 1 .. k \/ (i \in k + 1 .. k + l /\ i - k \in 1 .. l)
  OBVIOUS
<1>10. ASSUME NEW i \in 1 .. k + l, NEW j \in 1 .. k + l, i < j PROVE u[i] < u[j]
  <2>1. CASE j \in 1 .. k
    <3>1. i \in 1 .. k
      BY <1>10, <2>1
    <3>2. s[i] < s[j]
      BY <1>1, <1>10, <2>1, <3>1, Zenon DEF Lists
    <3>3. QED BY <1>4, <2>1, <3>1, <3>2, Zenon
  <2>2. CASE j \in k + 1 .. k + l /\ i \in 1 .. k
    <3>1. j - k \in 1 .. l
      BY <2>2
    <3>2. s[i] < t[j - k]
      BY <1>5, <1>6, <2>2, <3>1, Zenon
    <3>3. QED BY <1>4, <2>2, <3>2, Zenon
  <2>3. CASE j \in k + 1 .. k + l /\ i \in k + 1 .. k + l
    <3>1. j - k \in 1 .. l /\ i - k \in 1 .. l /\ i - k < j - k
      BY <1>10, <2>3
    <3>2. t[i - k] < t[j - k]
      BY <1>2, <3>1, Zenon DEF Lists
    <3>3. QED BY <1>4, <2>3, <3>2, Zenon
  <2>4. QED BY <1>9, <2>1, <2>2, <2>3, Zenon
<1>11. Range(u) = A \cup B
  <2>1. ASSUME NEW i \in 1 .. k + l PROVE u[i] \in A \cup B
    BY <1>4, <1>5, <1>6, <1>9, Zenon
  <2>2. ASSUME NEW a \in A PROVE \E i \in 1 .. k + l : u[i] = a
    <3>1. PICK i \in 1 .. k : s[i] = a
      BY <1>7, Zenon
    <3>2. i \in 1 .. k + l
      OBVIOUS
    <3>3. QED BY <1>4, <3>1, <3>2, Zenon
  <2>3. ASSUME NEW b \in B PROVE \E i \in 1 .. k + l : u[i] = b
    <3>1. PICK i \in 1 .. l : t[i] = b
      BY <1>8, Zenon
    <3>2. PICK j \in k + 1 .. k + l : j - k = i
      <4>1. k + i \in k + 1 .. k + l /\ k + i - k = i
        OBVIOUS
      <4>2. QED BY <4>1
    <3>3. u[j] = b /\ j \in 1 .. k + l
      BY <1>4, <3>1, <3>2
    <3>4. QED BY <3>3, Zenon
  <2>4. Range(u) = {u[i] : i \in 1 .. k + l}
    BY <1>4, Zenon DEF Range
  <2>5. QED BY <2>1, <2>2, <2>3, <2>4, Zenon
<1>12. QED BY <1>3, <1>4, <1>10, <1>11, Zenon DEF Lists

-----------------------------------------------------------------------------
(* What a step leaves alone.                                               *)

\* The feed grows at its end: what is between two offsets in it stays.
FedGrows ==
    /\ Len(fed) \in Nat /\ Len(fed') \in Nat /\ Len(fed) <= Len(fed')
    /\ \A r, low : \A high \in Nat : high <= Len(fed) =>
          Between(r, low, high)' = Between(r, low, high)

\* Appending a change, or none, to the feed.
LEMMA FedFrame ==
    ASSUME fed \in Seq(Pids), NEW p \in Pids, fed' = fed \/ fed' = Append(fed, p)
    PROVE  FedGrows /\ fed' \in Seq(Pids)
<1>1. CASE fed' = fed
  <2>1. \A r, low, high : Between(r, low, high)' = Between(r, low, high)
    BY <1>1, Zenon DEF Between
  <2>2. QED BY <1>1, <2>1 DEF FedGrows
<1>2. CASE fed' = Append(fed, p)
  <2>1. PICK k \in Nat : k = Len(fed) /\ DOMAIN fed = 1 .. k
    OBVIOUS
  <2>2. /\ fed' \in Seq(Pids) /\ Len(fed') = k + 1 /\ DOMAIN fed' = 1 .. k + 1
        /\ \A n \in 1 .. k : fed'[n] = fed[n]
    BY <1>2, <2>1
  <2>3. ASSUME NEW r, NEW low, NEW high \in Nat, high <= k
        PROVE  Between(r, low, high)' = Between(r, low, high)
    <3>1. Between(r, low, high) = {n \in 1 .. k : fed[n] \in Wanted[r] /\ low < n /\ n <= high}
      BY <2>1, Zenon DEF Between
    <3>2. Between(r, low, high)' =
             {n \in 1 .. k + 1 : fed'[n] \in Wanted[r] /\ low < n /\ n <= high}
      BY <2>2, Zenon DEF Between
    <3>3. \A n : n \in 1 .. k + 1 /\ n <= high <=> n \in 1 .. k /\ n <= high
      BY <2>3
    <3>4. QED BY <2>2, <3>1, <3>2, <3>3, Zenon
  <2>4. QED BY <2>1, <2>2, <2>3, SMTT(45) DEF FedGrows
<1>3. QED BY <1>1, <1>2, Zenon

\* A step that does not touch a projection leaves its offset right.
LEMMA OffsetKeeps ==
    ASSUME NEW q, OffsetOk(q), FedGrows, db.offsets[q].offset \in Nat,
           db'.offsets[q] = db.offsets[q], db'.compacted <= db.offsets[q].offset,
           base'[q] = base[q], delivered[q] \subseteq delivered'[q],
           EffectsOf(db, q)' = EffectsOf(db, q)
    PROVE  OffsetOk(q)'
<1>1. PICK off \in Nat : off = db.offsets[q].offset /\ db'.offsets[q].offset = off
  BY Zenon
<1>2. PICK low : low = base[q] /\ base'[q] = low
  BY Zenon
<1>3. PICK src : src = db.offsets[q].source /\ db'.offsets[q].source = src
  BY Zenon
<1>4. PICK e : e = EffectsOf(db, q) /\ EffectsOf(db, q)' = e
  BY Zenon
<1>5. /\ low <= off /\ off <= Len(fed)
      /\ src = "at-least-once" => Between(q, low, off) \subseteq delivered[q]
      /\ src = "exactly-once" => Lists(e, Between(q, low, off))
  BY <1>1, <1>2, <1>3, <1>4, Zenon DEF OffsetOk
<1>6. Between(q, low, off)' = Between(q, low, off) /\ off <= Len(fed')
  BY <1>5 DEF FedGrows
<1>7. /\ src = "at-least-once" => Between(q, low, off)' \subseteq delivered'[q]
      /\ src = "exactly-once" => Lists(e, Between(q, low, off)')
  BY <1>5, <1>6, Zenon
<1>8. Lists(e, Between(q, low, off)') <=> Lists(EffectsOf(db, q), Between(q, base[q], db.offsets[q].offset))'
  BY <1>1, <1>2, <1>4, Zenon DEF Lists
<1>9. QED BY <1>1, <1>2, <1>3, <1>5, <1>6, <1>7, <1>8, Zenon DEF OffsetOk

\* A runner that does not move stays in step.
LEMMA RunnerKeeps ==
    ASSUME NEW q \in Runners, RunnerOk(q), runner \in [Runners -> Runner],
           runner'[q] = runner[q], FedGrows, delivered[q] \subseteq delivered'[q],
           runner[q].pc \notin {"none", "register", "registering"} =>
              q \in Registered(db)' /\ db'.offsets[q] = db.offsets[q]
    PROVE  RunnerOk(q)'
<1>1. PICK b \in Runner : b = runner[q] /\ runner'[q] = b
  BY Zenon
<1>2. BatchOk(q) => BatchOk(q)'
  <2>1. SUFFICES ASSUME BatchOk(q) PROVE BatchOk(q)'
    BY Zenon
  <2>2. PICK low \in Nat, high \in Nat : low = b.offset /\ high = b.batch.offset
    BY Zenon DEF Runner
  <2>3. low <= high /\ high <= Len(fed) /\ Offsets(b.batch.rows) = Between(q, low, high)
    BY <1>1, <2>1, <2>2, Zenon DEF BatchOk
  <2>4. Between(q, low, high)' = Between(q, low, high) /\ high <= Len(fed')
    BY <2>3 DEF FedGrows
  <2>5. runner'[q].offset = low /\ runner'[q].batch.offset = high /\ runner'[q].batch.rows = b.batch.rows
    BY <1>1, <2>2, Zenon
  <2>6. Between(q, runner[q].offset, runner[q].batch.offset)' = Between(q, low, high)'
    BY <2>5, Zenon
  <2>7. QED BY <2>3, <2>4, <2>5, <2>6, Zenon DEF BatchOk
<1>3. QED BY <1>1, <1>2, Zenon DEF RunnerOk

\* One runner moves, and its handler may have finished something.
LEMMA OneRunner ==
    ASSUME IInv, NEW r \in Runners, NEW b \in Runner, UNCHANGED <<db, fed, base, retiring, pending>>,
           runner' = [runner EXCEPT ![r] = b], delivered' \in [Runners -> SUBSET Nat],
           \A q \in Runners : delivered[q] \subseteq delivered'[q],
           RunnerOk(r)', r \in retiring => b.pc = "none"
    PROVE  IInv'
<1>1. /\ TypeOK /\ FeedInv /\ RetireInv /\ runner \in [Runners -> Runner] /\ fed \in Seq(Pids)
      /\ TablesOk(db)
  BY Zenon DEF IInv, TypeOK
<1>2. /\ runner' \in [Runners -> Runner] /\ runner'[r] = b
      /\ \A q \in Runners : q # r => runner'[q] = runner[q]
  BY <1>1, Zenon
<1>3. FedGrows
  <2>1. \A q, low, high : Between(q, low, high)' = Between(q, low, high)
    BY Zenon DEF Between
  <2>2. QED BY <1>1, <2>1 DEF FedGrows
<1>4. TypeOK'
  BY <1>1, <1>2, Zenon DEF TypeOK
<1>5. FeedInv'
  BY <1>1, Zenon DEF FeedInv
<1>6. RetireInv'
  BY <1>1, <1>2, Zenon DEF RetireInv, TypeOK
<1>7. ASSUME NEW q \in Registered(db)' PROVE OffsetOk(q)'
  <2>1. q \in Registered(db) /\ OffsetOk(q) /\ q \in Runners
    BY <1>1, <1>7, Zenon DEF IInv, TablesOk
  <2>2. db.offsets[q].offset \in Nat
    BY <1>1, <2>1, Zenon DEF TablesOk, Registration
  <2>3. /\ db'.offsets[q] = db.offsets[q] /\ db'.compacted <= db.offsets[q].offset
        /\ base'[q] = base[q] /\ delivered[q] \subseteq delivered'[q]
        /\ EffectsOf(db, q)' = EffectsOf(db, q)
    BY <2>1, Zenon DEF OffsetOk, EffectsOf
  <2>4. QED BY <1>3, <2>1, <2>2, <2>3, OffsetKeeps, Zenon
<1>8. ASSUME NEW q \in Runners PROVE RunnerOk(q)'
  <2>1. CASE q = r
    BY <2>1, Zenon
  <2>2. CASE q # r
    <3>1. RunnerOk(q) /\ runner'[q] = runner[q]
      BY <1>2, <2>2, Zenon DEF IInv
    <3>2. runner[q].pc \notin {"none", "register", "registering"} =>
             q \in Registered(db)' /\ db'.offsets[q] = db.offsets[q]
      BY <3>1, Zenon DEF RunnerOk
    <3>3. QED BY <1>1, <1>3, <3>1, <3>2, RunnerKeeps, Zenon
  <2>3. QED BY <2>1, <2>2, Zenon
<1>9. QED BY <1>4, <1>5, <1>6, <1>7, <1>8, Zenon DEF IInv

\* Where a runner goes without a batch: to its end, to its registration, or
\* around its loop.
Unburdened(r, b) ==
    \/ b.pc = "none"
    \/ b.pc \in {"register", "registering"} /\ b.mode \in Sources /\ r \notin retiring
    \/ /\ b.pc \in {"top", "reading"} /\ b.mode = runner[r].mode /\ b.offset = runner[r].offset
       /\ runner[r].pc \notin {"none", "register", "registering"}

\* A runner moves without a batch.
LEMMA QuietStep ==
    ASSUME IInv, NEW r \in Runners, NEW b \in Runner,
           UNCHANGED <<db, fed, base, delivered, retiring, pending>>,
           runner' = [runner EXCEPT ![r] = b], Unburdened(r, b)
    PROVE  IInv'
<1>1. RunnerOk(r) /\ runner \in [Runners -> Runner] /\ delivered \in [Runners -> SUBSET Nat]
  BY Zenon DEF IInv, TypeOK
<1>2. runner'[r] = b
  BY <1>1, Zenon
<1>3. RunnerOk(r)'
  <2>1. CASE b.pc = "none"
    BY <1>2, <2>1, Zenon DEF RunnerOk
  <2>2. CASE b.pc \in {"register", "registering"} /\ b.mode \in Sources
    BY <1>2, <2>2, Zenon DEF RunnerOk
  <2>3. CASE /\ b.pc \in {"top", "reading"} /\ b.mode = runner[r].mode /\ b.offset = runner[r].offset
             /\ runner[r].pc \notin {"none", "register", "registering"}
    <3>1. /\ r \in Registered(db) /\ b.offset = db.offsets[r].offset
          /\ b.mode = db.offsets[r].source /\ b.mode \in Sources
      BY <1>1, <2>3, Zenon DEF RunnerOk
    <3>2. QED BY <1>2, <2>3, <3>1, Zenon DEF RunnerOk
  <2>4. QED BY <2>1, <2>2, <2>3, Zenon DEF Unburdened
<1>4. r \in retiring => b.pc = "none"
  BY Zenon DEF Unburdened, IInv, RetireInv
<1>5. QED BY <1>1, <1>3, <1>4, OneRunner, Zenon

\* A runner's record, and one that has ended, is tried again, or goes on.
LEMMA RunnerTypes ==
    /\ NoRunner \in Runner /\ NoRunner.pc = "none"
    /\ \A b \in Runner, pc \in PCs :
          LET c == [b EXCEPT !.pc = pc]
          IN  c \in Runner /\ c.pc = pc /\ c.mode = b.mode /\ c.offset = b.offset /\ c.batch = b.batch
    /\ \A b \in Runner, pc \in PCs :
          LET c == [b EXCEPT !.pc = pc, !.batch = NoBatch]
          IN  c \in Runner /\ c.pc = pc /\ c.mode = b.mode /\ c.offset = b.offset
<1>1. NoBatch \in [rows : SUBSET Row, offset : Nat]
  BY Zenon DEF NoBatch
<1>2. NoRunner \in Runner /\ NoRunner.pc = "none"
  <2>1. PICK s \in BOOLEAN : s = FALSE
    BY Zenon
  <2>2. NoRunner = [pc |-> "none", mode |-> "none", initial |-> Null, stop |-> s, offset |-> 0,
                    batch |-> NoBatch]
    BY <2>1, Zenon DEF NoRunner
  <2>3. QED BY <1>1, <2>2, Zenon DEF Runner, PCs
<1>3. ASSUME NEW b \in Runner, NEW pc \in PCs
      PROVE  LET c == [b EXCEPT !.pc = pc]
             IN  c \in Runner /\ c.pc = pc /\ c.mode = b.mode /\ c.offset = b.offset /\ c.batch = b.batch
  BY Zenon DEF Runner
<1>4. ASSUME NEW b \in Runner, NEW pc \in PCs
      PROVE  LET c == [b EXCEPT !.pc = pc, !.batch = NoBatch]
             IN  c \in Runner /\ c.pc = pc /\ c.mode = b.mode /\ c.offset = b.offset
  BY <1>1, Zenon DEF Runner
<1>5. QED BY <1>2, <1>3, <1>4, Zenon

\* Finish and Again.
LEMMA EndsInv ==
    ASSUME IInv, NEW r \in Runners, UNCHANGED <<db, fed, base, delivered, retiring, pending>>,
           \/ Finish(r)
           \/ Again(r) /\ runner[r].pc \notin {"none", "register", "registering"}
    PROVE  IInv'
<1>1. runner \in [Runners -> Runner] /\ runner[r] \in Runner
  BY Zenon DEF IInv, TypeOK
<1>2. CASE Finish(r)
  <2>1. runner' = [runner EXCEPT ![r] = NoRunner]
    BY <1>2, Zenon DEF Finish
  <2>2. NoRunner \in Runner /\ Unburdened(r, NoRunner)
    BY RunnerTypes, Zenon DEF Unburdened
  <2>3. QED BY <2>1, <2>2, QuietStep, Zenon
<1>3. CASE Again(r) /\ runner[r].pc \notin {"none", "register", "registering"}
  <2>1. PICK b : b = [runner[r] EXCEPT !.pc = "top", !.batch = NoBatch]
    BY Zenon
  <2>2. b \in Runner /\ b.pc = "top" /\ b.mode = runner[r].mode /\ b.offset = runner[r].offset
    <3>1. "top" \in PCs
      BY Zenon DEF PCs
    <3>2. QED BY <1>1, <2>1, <3>1, RunnerTypes, ZenonT(60)
  <2>3. runner' = [runner EXCEPT ![r] = b]
    BY <1>1, <1>3, <2>1, Zenon DEF Again
  <2>4. Unburdened(r, b)
    BY <1>3, <2>2, Zenon DEF Unburdened
  <2>5. QED BY <2>2, <2>3, <2>4, QuietStep, Zenon
<1>4. QED BY <1>2, <1>3, Zenon

\* Nothing that the invariant speaks of changes.
LEMMA FrameInv ==
    ASSUME IInv, UNCHANGED <<db, fed, base, delivered, retiring, pending, runner>> PROVE IInv'
<1>1. TypeOK' /\ FeedInv' /\ RetireInv'
  BY Zenon DEF IInv, TypeOK, FeedInv, RetireInv
<1>2. \A r : Registered(db)' = Registered(db) /\ (OffsetOk(r) => OffsetOk(r)')
  <2>1. \A q, low, high : Between(q, low, high)' = Between(q, low, high)
    BY Zenon DEF Between
  <2>2. QED BY <2>1, ZenonT(60) DEF OffsetOk, Lists, EffectsOf
<1>3. \A r : RunnerOk(r) => RunnerOk(r)'
  <2>1. \A q, low, high : Between(q, low, high)' = Between(q, low, high)
    BY Zenon DEF Between
  <2>2. \A q : BatchOk(q) => BatchOk(q)'
    BY <2>1, Zenon DEF BatchOk
  <2>3. QED BY <2>2, ZenonT(60) DEF RunnerOk
<1>4. QED BY <1>1, <1>2, <1>3, Zenon DEF IInv

-----------------------------------------------------------------------------
(* Steps of a runner that leave the tables alone.                          *)

\* start_runner.
LEMMA StartInv ==
    ASSUME IInv, NEW r \in Runners, NEW mode \in Modes[r], NEW i \in InitialOffsets,
           StartRunner(r, mode, i)
    PROVE  IInv'
<1>1. PICK b : b = [NoRunner EXCEPT !.pc = "register", !.mode = mode, !.initial = i]
  BY Zenon
<1>2. mode \in Sources /\ i \in Nat \cup {Null}
  BY ProjectionAssumption, Zenon DEF Sources
<1>3. b \in Runner /\ b.pc = "register" /\ b.mode = mode
  <2>1. PICK none \in Runner : none = NoRunner
    BY RunnerTypes, Zenon
  <2>2. b = [none EXCEPT !.pc = "register", !.mode = mode, !.initial = i]
    BY <1>1, <2>1, Zenon
  <2>3. "register" \in PCs /\ mode \in Sources \cup {"none"} /\ i \in Nat \cup {Null}
    BY <1>2, Zenon DEF PCs
  <2>4. QED BY <2>2, <2>3, Zenon DEF Runner
<1>4. /\ runner' = [runner EXCEPT ![r] = b] /\ r \notin retiring
      /\ UNCHANGED <<db, fed, base, delivered, retiring, pending>>
  BY <1>1, Zenon DEF StartRunner, storeVars
<1>5. Unburdened(r, b)
  BY <1>2, <1>3, <1>4, Zenon DEF Unburdened
<1>6. QED BY <1>3, <1>4, <1>5, QuietStep, Zenon

\* A move of the program counter within the part of the code it is in.
LEMMA GotoInv ==
    ASSUME IInv, NEW r \in Runners, NEW pc, Goto(r, pc),
           UNCHANGED <<db, fed, base, delivered, retiring, pending>>,
           \/ pc \in {"register", "registering"} /\ runner[r].pc \in {"register", "registering"}
           \/ /\ pc \in {"top", "reading"}
              /\ runner[r].pc \notin {"none", "register", "registering"}
    PROVE  IInv'
<1>1. runner \in [Runners -> Runner] /\ runner[r] \in Runner /\ RunnerOk(r) /\ RetireInv
  BY Zenon DEF IInv, TypeOK
<1>2. PICK b : b = [runner[r] EXCEPT !.pc = pc]
  BY Zenon
<1>3. pc \in PCs
  BY Zenon DEF PCs
<1>4. b \in Runner /\ b.pc = pc /\ b.mode = runner[r].mode /\ b.offset = runner[r].offset
  BY <1>1, <1>2, <1>3, RunnerTypes, ZenonT(60)
<1>5. runner' = [runner EXCEPT ![r] = b]
  BY <1>1, <1>2, Zenon DEF Goto
<1>6. Unburdened(r, b)
  BY <1>1, <1>4, Zenon DEF Unburdened, RunnerOk, RetireInv
<1>7. QED BY <1>4, <1>5, <1>6, QuietStep, Zenon

\* The admissions of a registration and of a read.
LEMMA AdmitInv ==
    ASSUME IInv, NEW r \in Runners, AdmitRegister(r) \/ ReserveBatch(r) PROVE IInv'
<1>1. UNCHANGED <<db, fed, base, delivered, retiring, pending>>
  BY Zenon DEF AdmitRegister, ReserveBatch, StoreFrame, RunnerFrame
<1>2. CASE AdmitRegister(r)
  <2>1. runner[r].pc = "register" /\ (Goto(r, "registering") \/ Goto(r, "register"))
    BY <1>2, Zenon DEF AdmitRegister, Admit
  <2>2. QED BY <1>1, <2>1, GotoInv, Zenon
<1>3. CASE ReserveBatch(r)
  <2>1. runner[r].pc = "top" /\ (Goto(r, "reading") \/ Goto(r, "top"))
    BY <1>3, Zenon DEF ReserveBatch, Admit
  <2>2. QED BY <1>1, <2>1, GotoInv, Zenon
<1>4. QED BY <1>2, <1>3, Zenon

\* A stop at the head of a loop, and the failures of a handler.
LEMMA FailsInv ==
    ASSUME IInv, NEW r \in Runners,
           StopAtHead(r) \/ HandlerFails(r) \/ ApplyRollsBack(r)
    PROVE  IInv'
<1>1. UNCHANGED <<db, fed, base, delivered, retiring, pending>>
  BY Zenon DEF StopAtHead, HandlerFails, ApplyRollsBack, StoreFrame, RunnerFrame, storeVars
<1>2. \/ Finish(r)
      \/ Again(r) /\ runner[r].pc \notin {"none", "register", "registering"}
  BY Zenon DEF StopAtHead, HandlerFails, ApplyRollsBack
<1>3. QED BY <1>1, <1>2, EndsInv, Zenon

\* An operation of the store fails.
LEMMA OperationFailsInv == ASSUME IInv, NEW r \in Runners, OperationFails(r) PROVE IInv'
<1>1. UNCHANGED <<db, fed, base, delivered, retiring, pending>>
  BY Zenon DEF OperationFails, StoreFrame, RunnerFrame
<1>2. runner \in [Runners -> Runner] /\ runner[r] \in Runner /\ RunnerOk(r) /\ RetireInv
  BY Zenon DEF IInv, TypeOK
<1>3. PICK pc : pc = IF runner[r].pc = "registering" THEN "register" ELSE "top"
  BY Zenon
<1>4. PICK b : b = [runner[r] EXCEPT !.pc = pc, !.batch = NoBatch]
  BY Zenon
<1>5. pc \in PCs
  BY <1>3, Zenon DEF PCs
<1>6. b \in Runner /\ b.pc = pc /\ b.mode = runner[r].mode /\ b.offset = runner[r].offset
  BY <1>2, <1>4, <1>5, RunnerTypes, Zenon
<1>7. /\ runner' = [runner EXCEPT ![r].pc = IF @ = "registering" THEN "register" ELSE "top",
                                  ![r].batch = NoBatch]
      /\ runner[r].pc \in {"registering", "reading", "saving", "applying"}
  BY Zenon DEF OperationFails
<1>8. runner' = [runner EXCEPT ![r] = b]
  BY <1>2, <1>3, <1>4, <1>7, Zenon
<1>9. Unburdened(r, b)
  BY <1>2, <1>3, <1>6, <1>7, Zenon DEF Unburdened, RunnerOk, RetireInv
<1>10. QED BY <1>1, <1>6, <1>8, <1>9, QuietStep, Zenon

\* The transaction of an exactly-once handler begins.
LEMMA ApplyBeginsInv == ASSUME IInv, NEW r \in Runners, ApplyBegins(r) PROVE IInv'
<1>1. UNCHANGED <<db, fed, base, delivered, retiring, pending>>
  BY Zenon DEF ApplyBegins, StoreFrame, RunnerFrame
<1>2. UNCHANGED runner \/ Finish(r)
  BY Zenon DEF ApplyBegins
<1>3. QED BY <1>1, <1>2, EndsInv, FrameInv, Zenon

\* A batch that is read has all that the projection wants up to its offset.
LEMMA ReadsAll ==
    ASSUME IInv, NEW r \in Runners, runner[r].pc = "reading",
           NEW batch \in Batches(db, Wanted[r], runner[r].offset, BatchSize, ScanLimit)
    PROVE  /\ batch \in [rows : SUBSET Row, offset : Nat]
           /\ runner[r].offset <= batch.offset /\ batch.offset <= Len(fed)
           /\ Offsets(batch.rows) = Between(r, runner[r].offset, batch.offset)
<1>1. PICK off \in Nat : off = runner[r].offset /\ r \in Registered(db) /\ off = db.offsets[r].offset
  BY Zenon DEF IInv, TypeOK, Runner, RunnerOk
<1>2. db.compacted <= off /\ off <= db.high
  BY <1>1, Zenon DEF IInv, OffsetOk, FeedInv
<1>3. /\ IsFiniteSet(db.changes) /\ db.high \in Nat /\ db.high = Len(fed) /\ db.changes \subseteq Row
      /\ db.compacted \in Nat
  BY Zenon DEF IInv, FeedInv, TypeOK, TablesOk, Tables
<1>4. \A row \in db.changes : row.offset \in Nat /\ row.offset <= db.high
  BY <1>3, Zenon DEF IInv, FeedInv, Row
<1>5. BatchSize \in Nat \ {0} /\ ScanLimit \in Nat \ {0}
  BY ProjectionAssumption, Zenon
<1>6. batch \in Batches(db, Wanted[r], off, BatchSize, ScanLimit)
  BY <1>1, Zenon
<1>7. /\ batch.rows = {row \in db.changes : row.pid \in Wanted[r] /\ off < row.offset
                                            /\ row.offset <= batch.offset}
      /\ batch.offset \in Nat /\ off <= batch.offset /\ batch.offset <= db.high
      /\ batch = [rows |-> batch.rows, offset |-> batch.offset]
  BY <1>2, <1>3, <1>4, <1>5, <1>6, BatchCovers, SMTT(45)
<1>8. PICK top \in Nat : top = batch.offset /\ off <= top /\ top <= db.high
  BY <1>7, Zenon
<1>9. PICK rows \in SUBSET Row : rows = batch.rows
  BY <1>3, <1>7, Zenon
<1>10. rows = {row \in db.changes : row.pid \in Wanted[r] /\ off < row.offset /\ row.offset <= top}
  BY <1>7, <1>8, <1>9, Zenon
<1>11. ASSUME NEW row \in rows PROVE row.offset \in Between(r, off, top)
  <2>1. /\ row \in db.changes /\ row.pid \in Wanted[r] /\ off < row.offset /\ row.offset <= top
        /\ row.offset \in Nat
    BY <1>4, <1>10, Zenon
  <2>2. row.pid = fed[row.offset] /\ row.offset \in DOMAIN fed
    BY <1>1, <1>3, <1>4, <2>1, SMTT(45) DEF IInv, FeedInv, TypeOK
  <2>3. QED BY <2>1, <2>2, Zenon DEF Between
<1>12. ASSUME NEW n \in Between(r, off, top) PROVE \E row \in rows : row.offset = n
  <2>1. n \in DOMAIN fed /\ n \in Nat /\ fed[n] \in Wanted[r] /\ off < n /\ n <= top
    BY SMTT(45) DEF Between, IInv, TypeOK
  <2>2. n > db.compacted
    BY <1>2, <1>3, <2>1, SMTT(45)
  <2>3. PICK row \in db.changes : row.offset = n
    BY <2>1, <2>2, Zenon DEF IInv, FeedInv
  <2>4. row.pid = fed[n]
    BY <2>3, Zenon DEF IInv, FeedInv
  <2>5. QED BY <1>10, <2>1, <2>3, <2>4, ZenonT(60)
<1>13. Offsets(rows) = Between(r, off, top)
  BY <1>11, <1>12, Zenon DEF Offsets
<1>14. batch = [rows |-> rows, offset |-> top]
  BY <1>7, <1>8, <1>9, Zenon
<1>15. QED BY <1>1, <1>3, <1>8, <1>9, <1>13, <1>14, Zenon

\* A batch is read, and the runner goes where it leads.
LEMMA ReadInv == ASSUME IInv, NEW r \in Runners, ReadRuns(r) PROVE IInv'
<1>1. UNCHANGED <<db, fed, base, delivered, retiring, pending>> /\ runner[r].pc = "reading"
  BY Zenon DEF ReadRuns, StoreFrame, RunnerFrame
<1>2. CASE IsCompacted(db, runner[r].offset)
  <2>1. Finish(r)
    BY <1>2, Zenon DEF ReadRuns
  <2>2. QED BY <1>1, <2>1, EndsInv, Zenon
<1>3. CASE ~IsCompacted(db, runner[r].offset)
  <2>1. PICK batch \in Batches(db, Wanted[r], runner[r].offset, BatchSize, ScanLimit) :
           runner' = [runner EXCEPT
              ![r].pc = AfterRead(r, batch),
              ![r].batch = IF AfterRead(r, batch) = "top" THEN NoBatch ELSE batch]
    BY <1>3, Zenon DEF ReadRuns
  <2>2. /\ batch \in [rows : SUBSET Row, offset : Nat]
        /\ runner[r].offset <= batch.offset /\ batch.offset <= Len(fed)
        /\ Offsets(batch.rows) = Between(r, runner[r].offset, batch.offset)
    BY <1>1, ReadsAll, Zenon
  <2>3. /\ runner \in [Runners -> Runner] /\ runner[r] \in Runner /\ RunnerOk(r)
        /\ delivered \in [Runners -> SUBSET Nat] /\ r \notin retiring
    BY <1>1, Zenon DEF IInv, TypeOK, RetireInv
  <2>4. PICK pc : pc = AfterRead(r, batch)
    BY Zenon
  <2>5. /\ pc \in {"handle", "saving", "applying", "top"}
        /\ pc \in {"handle", "saving"} => runner[r].mode = "at-least-once"
        /\ pc = "applying" => runner[r].mode = "exactly-once"
        /\ pc = "saving" => batch.rows = {}
    BY <2>4, Zenon DEF AfterRead
  <2>6. CASE pc = "top"
    <3>1. PICK b : b = [runner[r] EXCEPT !.pc = "top", !.batch = NoBatch]
      BY Zenon
    <3>2. b \in Runner /\ b.pc = "top" /\ b.mode = runner[r].mode /\ b.offset = runner[r].offset
      <4>1. "top" \in PCs
        BY Zenon DEF PCs
      <4>2. QED BY <2>3, <3>1, <4>1, RunnerTypes, ZenonT(60)
    <3>3. runner' = [runner EXCEPT ![r] = b]
      BY <2>1, <2>3, <2>4, <2>6, <3>1, Zenon
    <3>4. Unburdened(r, b)
      BY <1>1, <3>2, Zenon DEF Unburdened
    <3>5. QED BY <1>1, <3>2, <3>3, <3>4, QuietStep, Zenon
  <2>7. CASE pc # "top"
    <3>1. PICK b : b = [runner[r] EXCEPT !.pc = pc, !.batch = batch]
      BY Zenon
    <3>2. /\ b \in Runner /\ b.pc = pc /\ b.mode = runner[r].mode /\ b.offset = runner[r].offset
          /\ b.batch = batch
      <4>1. pc \in PCs
        BY <2>5, Zenon DEF PCs
      <4>2. QED BY <2>2, <2>3, <3>1, <4>1, Zenon DEF Runner
    <3>3. runner' = [runner EXCEPT ![r] = b]
      BY <2>1, <2>3, <2>4, <2>7, <3>1, Zenon
    <3>4. runner'[r] = b
      BY <2>3, <3>3, Zenon
    <3>5. BatchOk(r)'
      <4>1. PICK low, high, rows : low = b.offset /\ high = batch.offset /\ rows = batch.rows
        BY Zenon
      <4>2. low <= high /\ high <= Len(fed) /\ Offsets(rows) = Between(r, low, high)
        BY <2>2, <3>2, <4>1, Zenon
      <4>3. Between(r, low, high)' = Between(r, low, high)
        BY <1>1, Zenon DEF Between
      <4>4. runner'[r].offset = low /\ runner'[r].batch.offset = high /\ runner'[r].batch.rows = rows
        BY <3>2, <3>4, <4>1, Zenon
      <4>5. Between(r, runner[r].offset, runner[r].batch.offset)' = Between(r, low, high)'
        BY <4>4, Zenon
      <4>6. QED BY <1>1, <4>2, <4>3, <4>4, <4>5, Zenon DEF BatchOk
    <3>6. pc = "saving" => Offsets(b.batch.rows) = {}
      BY <2>5, <3>2, Zenon DEF Offsets
    <3>7. /\ r \in Registered(db) /\ b.offset = db.offsets[r].offset
          /\ b.mode = db.offsets[r].source /\ b.mode \in Sources
      BY <1>1, <2>3, <3>2, Zenon DEF RunnerOk
    <3>8. RunnerOk(r)'
      BY <1>1, <2>5, <2>7, <3>2, <3>4, <3>5, <3>6, <3>7, ZenonT(60) DEF RunnerOk
    <3>9. QED BY <1>1, <2>3, <3>2, <3>3, <3>8, OneRunner, Zenon
  <2>8. QED BY <2>6, <2>7, Zenon
<1>4. QED BY <1>2, <1>3, Zenon

\* An at-least-once handler finishes its batch.
LEMMA HandlerInv == ASSUME IInv, NEW r \in Runners, HandlerSucceeds(r) PROVE IInv'
<1>1. /\ UNCHANGED <<db, fed, base, retiring, pending>> /\ runner[r].pc = "handle"
      /\ delivered' = [delivered EXCEPT ![r] = @ \cup Offsets(runner[r].batch.rows)]
  BY Zenon DEF HandlerSucceeds, StoreFrame
<1>2. /\ runner \in [Runners -> Runner] /\ runner[r] \in Runner /\ RunnerOk(r)
      /\ delivered \in [Runners -> SUBSET Nat] /\ r \notin retiring
  BY <1>1, Zenon DEF IInv, TypeOK, RetireInv
<1>3. /\ delivered' \in [Runners -> SUBSET Nat]
      /\ \A q \in Runners : delivered[q] \subseteq delivered'[q]
      /\ Offsets(runner[r].batch.rows) \subseteq delivered'[r]
  <2>1. Offsets(runner[r].batch.rows) \subseteq Nat
    BY <1>2, SMTT(45) DEF Runner, Offsets, Row
  <2>2. QED BY <1>1, <1>2, <2>1, Zenon
<1>4. /\ r \in Registered(db) /\ runner[r].offset = db.offsets[r].offset /\ runner[r].mode \in Sources
      /\ runner[r].mode = db.offsets[r].source /\ runner[r].mode = "at-least-once" /\ BatchOk(r)
  BY <1>1, <1>2, Zenon DEF RunnerOk
<1>5. CASE Goto(r, "saving")
  <2>1. PICK b : b = [runner[r] EXCEPT !.pc = "saving"]
    BY Zenon
  <2>2. /\ b \in Runner /\ b.pc = "saving" /\ b.mode = runner[r].mode /\ b.offset = runner[r].offset
        /\ b.batch = runner[r].batch
    <3>1. "saving" \in PCs
      BY Zenon DEF PCs
    <3>2. QED BY <1>2, <2>1, <3>1, RunnerTypes, ZenonT(60)
  <2>3. runner' = [runner EXCEPT ![r] = b] /\ runner'[r] = b
    BY <1>2, <1>5, <2>1, Zenon DEF Goto
  <2>4. BatchOk(r)'
    <3>1. PICK low, high, rows : low = b.offset /\ high = b.batch.offset /\ rows = b.batch.rows
      BY Zenon
    <3>2. low <= high /\ high <= Len(fed) /\ Offsets(rows) = Between(r, low, high)
      BY <1>4, <2>2, <3>1, Zenon DEF BatchOk
    <3>3. Between(r, low, high)' = Between(r, low, high)
      BY <1>1, Zenon DEF Between
    <3>4. runner'[r].offset = low /\ runner'[r].batch.offset = high /\ runner'[r].batch.rows = rows
      BY <2>3, <3>1, Zenon
    <3>5. Between(r, runner[r].offset, runner[r].batch.offset)' = Between(r, low, high)'
      BY <3>4, Zenon
    <3>6. QED BY <1>1, <3>2, <3>3, <3>4, <3>5, Zenon DEF BatchOk
  <2>5. RunnerOk(r)'
    BY <1>1, <1>3, <1>4, <2>2, <2>3, <2>4, Zenon DEF RunnerOk
  <2>6. QED BY <1>1, <1>2, <1>3, <2>2, <2>3, <2>5, OneRunner, Zenon
<1>6. CASE Again(r)
  <2>1. PICK b : b = [runner[r] EXCEPT !.pc = "top", !.batch = NoBatch]
    BY Zenon
  <2>2. b \in Runner /\ b.pc = "top" /\ b.mode = runner[r].mode /\ b.offset = runner[r].offset
    <3>1. "top" \in PCs
      BY Zenon DEF PCs
    <3>2. QED BY <1>2, <2>1, <3>1, RunnerTypes, ZenonT(60)
  <2>3. runner' = [runner EXCEPT ![r] = b] /\ runner'[r] = b
    BY <1>2, <1>6, <2>1, Zenon DEF Again
  <2>4. RunnerOk(r)'
    BY <1>1, <1>4, <2>2, <2>3, Zenon DEF RunnerOk
  <2>5. QED BY <1>1, <1>2, <1>3, <2>2, <2>3, <2>4, OneRunner, ZenonT(60)
<1>7. QED BY <1>5, <1>6, Zenon DEF HandlerSucceeds


\* A step that changes the offset and the effects of one projection only.
OnlyRow(r) ==
    /\ UNCHANGED <<fed, retiring, pending>> /\ TablesOk(db)'
    /\ db'.changes = db.changes /\ db'.operations = db.operations
    /\ db'.sequence = db.sequence /\ db'.high = db.high /\ db'.compacted = db.compacted
    /\ delivered' \in [Runners -> SUBSET Nat] /\ base' \in [Runners -> Nat]
    /\ \A q \in Runners : q # r =>
          /\ q \in Registered(db)' <=> q \in Registered(db)
          /\ q \in Registered(db) => db'.offsets[q] = db.offsets[q]
          /\ EffectsOf(db, q)' = EffectsOf(db, q)
          /\ base'[q] = base[q] /\ delivered'[q] = delivered[q]

\* The row of one projection changes, and its runner moves.
LEMMA OneRow ==
    ASSUME IInv, NEW r \in Runners, NEW b \in Runner, OnlyRow(r),
           runner' = [runner EXCEPT ![r] = b], r \in Registered(db)' => OffsetOk(r)',
           RunnerOk(r)', r \in retiring => b.pc = "none"
    PROVE  IInv'
<1>1. /\ TypeOK /\ FeedInv /\ RetireInv /\ runner \in [Runners -> Runner] /\ fed \in Seq(Pids)
      /\ TablesOk(db) /\ fed' = fed /\ retiring' = retiring /\ pending' = pending /\ TablesOk(db)'
  BY Zenon DEF IInv, TypeOK, OnlyRow
<1>2. /\ runner' \in [Runners -> Runner] /\ runner'[r] = b
      /\ \A q \in Runners : q # r => runner'[q] = runner[q]
  BY <1>1, Zenon
<1>3. FedGrows
  <2>1. \A q, low, high : Between(q, low, high)' = Between(q, low, high)
    BY <1>1, Zenon DEF Between
  <2>2. QED BY <1>1, <2>1 DEF FedGrows
<1>4. TypeOK'
  BY <1>1, <1>2, Zenon DEF TypeOK, OnlyRow
<1>5. FeedInv'
  BY <1>1, ZenonT(60) DEF FeedInv, OnlyRow
<1>6. RetireInv'
  BY <1>1, <1>2, Zenon DEF RetireInv, TypeOK
<1>7. ASSUME NEW q \in Registered(db)' PROVE OffsetOk(q)'
  <2>1. CASE q = r
    BY <1>7, <2>1, Zenon
  <2>2. CASE q # r
    <3>1. q \in Runners
      BY <1>1, <1>7, Zenon DEF TablesOk
    <3>2. /\ q \in Registered(db) /\ db'.offsets[q] = db.offsets[q]
          /\ EffectsOf(db, q)' = EffectsOf(db, q) /\ base'[q] = base[q]
          /\ delivered[q] \subseteq delivered'[q] /\ db'.compacted = db.compacted
      BY <1>7, <2>2, <3>1, Zenon DEF OnlyRow
    <3>3. OffsetOk(q) /\ db.offsets[q].offset \in Nat
      BY <1>1, <3>2, Zenon DEF IInv, TablesOk, Registration
    <3>4. db'.compacted <= db.offsets[q].offset
      BY <3>2, <3>3, Zenon DEF OffsetOk
    <3>5. QED BY <1>3, <3>2, <3>3, <3>4, OffsetKeeps, Zenon
  <2>3. QED BY <2>1, <2>2, Zenon
<1>8. ASSUME NEW q \in Runners PROVE RunnerOk(q)'
  <2>1. CASE q = r
    BY <2>1, Zenon
  <2>2. CASE q # r
    <3>1. RunnerOk(q) /\ runner'[q] = runner[q]
      BY <1>2, <2>2, Zenon DEF IInv
    <3>2. /\ runner[q].pc \notin {"none", "register", "registering"} =>
                q \in Registered(db)' /\ db'.offsets[q] = db.offsets[q]
          /\ delivered[q] \subseteq delivered'[q]
      BY <2>2, <3>1, Zenon DEF RunnerOk, OnlyRow
    <3>3. QED BY <1>1, <1>3, <3>1, <3>2, RunnerKeeps, Zenon
  <2>3. QED BY <2>1, <2>2, Zenon
<1>9. QED BY <1>4, <1>5, <1>6, <1>7, <1>8, Zenon DEF IInv

\* What lies between two offsets lies below or above one between them.
LEMMA BetweenSplits ==
    ASSUME fed \in Seq(Pids), NEW r, NEW low \in Nat, NEW mid \in Nat, NEW high \in Nat,
           low <= mid, mid <= high
    PROVE  /\ Between(r, low, high) = Between(r, low, mid) \cup Between(r, mid, high)
           /\ \A x \in Between(r, low, mid), y \in Between(r, mid, high) : x < y
           /\ Between(r, low, high) \subseteq Nat /\ IsFiniteSet(Between(r, low, high))
<1>1. PICK k \in Nat : k = Len(fed) /\ DOMAIN fed = 1 .. k
  OBVIOUS
<1>2. \A a, c, n : n \in Between(r, a, c) <=> n \in 1 .. k /\ fed[n] \in Wanted[r] /\ a < n /\ n <= c
  BY <1>1, Zenon DEF Between
<1>3. \A n \in 1 .. k : (low < n /\ n <= high) <=> ((low < n /\ n <= mid) \/ (mid < n /\ n <= high))
  OBVIOUS
<1>4. Between(r, low, high) = Between(r, low, mid) \cup Between(r, mid, high)
  BY <1>2, <1>3, Zenon
<1>5. \A x \in Between(r, low, mid), y \in Between(r, mid, high) : x < y
  BY <1>2, SMTT(45)
<1>6. Between(r, low, high) \in SUBSET (1 .. k)
  BY <1>2, Zenon
<1>7. IsFiniteSet(1 .. k)
  BY FS_Interval
<1>8. IsFiniteSet(Between(r, low, high))
  BY <1>6, <1>7, FS_Subset, Zenon
<1>9. Between(r, low, high) \subseteq Nat
  BY <1>6
<1>10. QED BY <1>4, <1>5, <1>8, <1>9, Zenon


\* A runner whose offset was stored goes around its loop.
LEMMA AdvancedIs ==
    ASSUME IInv, NEW r \in Runners, Advanced(r), NEW top \in Nat, top = runner[r].batch.offset
    PROVE  \E b \in Runner : /\ runner' = [runner EXCEPT ![r] = b] /\ b.pc = "top" /\ b.offset = top
                             /\ b.mode = runner[r].mode /\ runner'[r] = b
<1>1. runner \in [Runners -> Runner] /\ runner[r] \in Runner
  BY Zenon DEF IInv, TypeOK
<1>2. PICK b : b = [runner[r] EXCEPT !.pc = "top", !.batch = NoBatch, !.offset = top]
  BY Zenon
<1>3. NoBatch \in [rows : SUBSET Row, offset : Nat] /\ "top" \in PCs
  BY Zenon DEF NoBatch, PCs
<1>4. b \in Runner /\ b.pc = "top" /\ b.offset = top /\ b.mode = runner[r].mode
  BY <1>1, <1>2, <1>3, Zenon DEF Runner
<1>5. runner' = [runner EXCEPT ![r] = b] /\ runner'[r] = b
  BY <1>1, <1>2, Zenon DEF Advanced
<1>6. QED BY <1>4, <1>5, Zenon

\* The step that stores the offset of a batch, together with the effects e.
Stores(r, e) ==
    /\ runner[r].pc \in {"saving", "applying"} /\ Advanced(r)
    /\ UNCHANGED <<fed, retiring, pending, delivered, base>>
    /\ e \in [DOMAIN e -> Seq(Nat)]
    /\ db' = [[db EXCEPT !.effects = e] EXCEPT !.offsets[r].offset = runner[r].batch.offset]
    /\ \A q \in Runners : q # r => EffectsOf([db EXCEPT !.effects = e], q) = EffectsOf(db, q)
    /\ runner[r].pc = "applying" =>
          EffectsOf([db EXCEPT !.effects = e], r) =
             EffectsOf(db, r) \o InOrder(Offsets(runner[r].batch.rows))

\* The offset of a batch is stored.
LEMMA StoredInv == ASSUME IInv, NEW r \in Runners, NEW e, Stores(r, e) PROVE IInv'
<1>0. /\ runner[r].pc \in {"saving", "applying"} /\ Advanced(r)
      /\ UNCHANGED <<fed, retiring, pending, delivered, base>>
      /\ e \in [DOMAIN e -> Seq(Nat)]
      /\ db' = [[db EXCEPT !.effects = e] EXCEPT !.offsets[r].offset = runner[r].batch.offset]
      /\ \A q \in Runners : q # r => EffectsOf([db EXCEPT !.effects = e], q) = EffectsOf(db, q)
      /\ runner[r].pc = "applying" =>
            EffectsOf([db EXCEPT !.effects = e], r) =
               EffectsOf(db, r) \o InOrder(Offsets(runner[r].batch.rows))
  BY Zenon DEF Stores
<1>1. /\ TablesOk(db) /\ db \in Tables(db.offsets, db.effects) /\ RunnerOk(r) /\ BatchOk(r)
      /\ r \in Registered(db) /\ fed \in Seq(Pids) /\ runner[r] \in Runner /\ OffsetOk(r)
      /\ delivered \in [Runners -> SUBSET Nat] /\ base \in [Runners -> Nat]
      /\ db.effects \in [DOMAIN db.effects -> Seq(Nat)] /\ db.compacted \in Nat
      /\ db.offsets \in [Registered(db) -> Registration]
  BY <1>0, Zenon DEF IInv, TypeOK, TablesOk, RunnerOk, Tables
<1>2. PICK top \in Nat : top = runner[r].batch.offset
  BY <1>1, Zenon DEF Runner
<1>3. PICK off \in Nat, src \in Sources : /\ off = db.offsets[r].offset /\ src = db.offsets[r].source
                                          /\ off = runner[r].offset /\ src = runner[r].mode
  <2>1. /\ runner[r].offset = db.offsets[r].offset /\ runner[r].mode = db.offsets[r].source
        /\ db.offsets[r] \in Registration
    BY <1>0, <1>1, Zenon DEF RunnerOk
  <2>2. QED BY <2>1, Zenon DEF Registration
<1>4. PICK low \in Nat : low = base[r] /\ base'[r] = low
  BY <1>0, <1>1, Zenon
<1>5. PICK rows : rows = Offsets(runner[r].batch.rows)
  BY Zenon
<1>6. off <= top /\ top <= Len(fed) /\ rows = Between(r, off, top)
  BY <1>1, <1>2, <1>3, <1>5, Zenon DEF BatchOk
<1>7. PICK b \in Runner : /\ runner' = [runner EXCEPT ![r] = b] /\ b.pc = "top" /\ b.offset = top
                          /\ b.mode = runner[r].mode /\ runner'[r] = b
  BY <1>0, <1>2, AdvancedIs, ZenonT(60)
<1>8. PICK os : os = [db.offsets EXCEPT ![r].offset = top]
  BY Zenon
<1>9. /\ DOMAIN os = Registered(db) /\ os \in [Registered(db) -> Registration]
      /\ os[r].offset = top /\ os[r].source = src
      /\ \A q \in Registered(db) : q # r => os[q] = db.offsets[q]
  BY <1>1, <1>2, <1>3, <1>8, Zenon DEF Registered, Registration
<1>10. db' = [db EXCEPT !.effects = e, !.offsets = os]
  BY <1>0, <1>1, <1>2, <1>8, Zenon DEF Tables
<1>11. /\ db'.offsets = os /\ db'.effects = e /\ Registered(db)' = Registered(db)
       /\ db'.changes = db.changes /\ db'.operations = db.operations
       /\ db'.sequence = db.sequence /\ db'.high = db.high /\ db'.compacted = db.compacted
       /\ db' \in Tables(os, e)
  BY <1>1, <1>9, <1>10, Zenon DEF Tables, Registered
<1>12. TablesOk(db)'
  BY <1>0, <1>1, <1>9, <1>11, Zenon DEF TablesOk, Registered
<1>13. \A q : EffectsOf(db, q)' = EffectsOf([db EXCEPT !.effects = e], q)
  <2>1. [db EXCEPT !.effects = e].effects = e
    BY <1>1, Zenon DEF Tables
  <2>2. QED BY <1>11, <2>1, Zenon DEF EffectsOf
<1>14. OnlyRow(r)
  <2>1. ASSUME NEW q \in Runners, q # r
        PROVE  /\ q \in Registered(db)' <=> q \in Registered(db)
               /\ q \in Registered(db) => db'.offsets[q] = db.offsets[q]
               /\ EffectsOf(db, q)' = EffectsOf(db, q)
               /\ base'[q] = base[q] /\ delivered'[q] = delivered[q]
    BY <1>0, <1>9, <1>11, <1>13, <2>1, Zenon
  <2>2. QED BY <1>0, <1>1, <1>11, <1>12, <2>1, Zenon DEF OnlyRow
<1>15. /\ low <= off /\ db.compacted <= off
       /\ src = "at-least-once" => Between(r, low, off) \subseteq delivered[r]
       /\ src = "exactly-once" => Lists(EffectsOf(db, r), Between(r, low, off))
  BY <1>1, <1>3, <1>4, ZenonT(60) DEF OffsetOk
<1>16. low <= top /\ db.compacted <= top
  BY <1>1, <1>6, <1>15, SMTT(45)
<1>17. /\ Between(r, low, top) = Between(r, low, off) \cup rows
       /\ \A x \in Between(r, low, off), y \in rows : x < y
  <2>1. Between(r, off, top) = rows
    BY <1>6, Zenon
  <2>2. /\ Between(r, low, top) = Between(r, low, off) \cup Between(r, off, top)
        /\ \A x \in Between(r, low, off), y \in Between(r, off, top) : x < y
    <3>1. fed \in Seq(Pids) /\ low <= off /\ off <= top
      BY <1>1, <1>6, <1>15, Zenon
    <3>2. QED BY <3>1, BetweenSplits, SMTT(45)
  <2>3. QED BY <2>1, <2>2, Zenon
<1>18. rows \in SUBSET Nat /\ IsFiniteSet(rows)
  <2>1. off <= off
    OBVIOUS
  <2>2. QED BY <1>1, <1>6, <2>1, BetweenSplits, Zenon
<1>19. src = "at-least-once" => Between(r, low, top) \subseteq delivered'[r]
  <2>1. SUFFICES ASSUME src = "at-least-once" PROVE Between(r, low, top) \subseteq delivered'[r]
    BY Zenon
  <2>2. runner[r].pc = "saving"
    BY <1>0, <1>1, <1>3, <2>1, Zenon DEF RunnerOk
  <2>3. rows \subseteq delivered[r]
    BY <1>1, <1>5, <2>2, Zenon DEF RunnerOk
  <2>4. QED BY <1>0, <1>15, <1>17, <2>1, <2>3, Zenon
<1>20. src = "exactly-once" => Lists(EffectsOf(db, r)', Between(r, low, top))
  <2>1. SUFFICES ASSUME src = "exactly-once" PROVE Lists(EffectsOf(db, r)', Between(r, low, top))
    BY Zenon
  <2>2. runner[r].pc = "applying"
    BY <1>0, <1>1, <1>3, <2>1, Zenon DEF RunnerOk
  <2>3. PICK old : old = EffectsOf(db, r)
    BY Zenon
  <2>4. old \in Seq(Nat)
    BY <1>1, <2>3, SMTT(45) DEF EffectsOf
  <2>5. InOrder(rows) \in Seq(Nat) /\ Lists(InOrder(rows), rows)
    BY <1>18, InOrderLists, Zenon
  <2>6. Lists(old, Between(r, low, off))
    BY <1>15, <2>1, <2>3, Zenon
  <2>7. PICK new : new = InOrder(rows)
    BY Zenon
  <2>8. PICK past : past = Between(r, low, off)
    BY Zenon
  <2>9. new \in Seq(Nat) /\ Lists(new, rows) /\ Lists(old, past) /\ \A x \in past, y \in rows : x < y
    BY <1>17, <2>5, <2>6, <2>7, <2>8, ZenonT(60)
  <2>10. Lists(old \o new, past \cup rows)
    BY <2>4, <2>9, ListsAppend, Zenon
  <2>11. EffectsOf(db, r)' = old \o new
    BY <1>0, <1>5, <1>13, <2>2, <2>3, <2>7, ZenonT(60)
  <2>12. QED BY <1>17, <2>8, <2>10, <2>11, Zenon
<1>21. OffsetOk(r)'
  <2>1. Between(r, low, top)' = Between(r, low, top)
    BY <1>0, Zenon DEF Between
  <2>2. /\ db'.offsets[r].offset = top /\ db'.offsets[r].source = src
        /\ Between(r, base[r], db.offsets[r].offset)' = Between(r, low, top)
    BY <1>4, <1>9, <1>11, <2>1, Zenon
  <2>3. QED BY <1>0, <1>4, <1>6, <1>11, <1>16, <1>19, <1>20, <2>2, ZenonT(60) DEF OffsetOk
<1>22. RunnerOk(r)'
  <2>1. r \in Registered(db)' /\ db'.offsets[r].offset = top /\ db'.offsets[r].source = src
    BY <1>1, <1>9, <1>11, Zenon
  <2>2. runner'[r].pc = "top" /\ runner'[r].offset = top /\ runner'[r].mode = src
    BY <1>3, <1>7, Zenon
  <2>3. QED BY <1>3, <2>1, <2>2, Zenon DEF RunnerOk
<1>23. r \notin retiring
  BY <1>0, Zenon DEF IInv, RetireInv
<1>24. QED BY <1>7, <1>14, <1>21, <1>22, <1>23, OneRow, ZenonT(60)

\* The offset of an at-least-once projection is saved; it is never another's.
LEMMA SaveInv == ASSUME IInv, NEW r \in Runners, SaveRuns(r) PROVE IInv'
<1>1. /\ runner[r].pc = "saving" /\ UNCHANGED <<fed, retiring, pending, delivered, base>>
  BY Zenon DEF SaveRuns, StoreFrame, RunnerFrame
<1>2. /\ TablesOk(db) /\ db \in Tables(db.offsets, db.effects) /\ r \in Registered(db)
      /\ db.offsets[r].offset = runner[r].offset
      /\ db.effects \in [DOMAIN db.effects -> Seq(Nat)]
  BY <1>1, Zenon DEF IInv, TypeOK, TablesOk, RunnerOk
<1>3. PICK d : d = SaveOffset(db, r, runner[r].offset, runner[r].batch.offset)
  BY Zenon
<1>4. d = Outcome([db EXCEPT !.offsets[r].offset = runner[r].batch.offset], "saved",
                  runner[r].batch.offset)
  BY <1>2, <1>3, Zenon DEF SaveOffset, OffsetOf
<1>5. d.db = [db EXCEPT !.offsets[r].offset = runner[r].batch.offset] /\ d.tag = "saved"
  BY <1>4, Zenon DEF Outcome
<1>6. db' = d.db /\ Advanced(r)
  BY <1>3, <1>5, Zenon DEF SaveRuns
<1>7. PICK e : e = db.effects
  BY Zenon
<1>8. [db EXCEPT !.effects = e] = db
  BY <1>2, <1>7, Zenon DEF Tables
<1>9. e \in [DOMAIN e -> Seq(Nat)]
  BY <1>2, <1>7, Zenon
<1>10. db' = [[db EXCEPT !.effects = e] EXCEPT !.offsets[r].offset = runner[r].batch.offset]
  BY <1>5, <1>6, <1>8, Zenon
<1>11. \A q : EffectsOf([db EXCEPT !.effects = e], q) = EffectsOf(db, q)
  BY <1>8, Zenon
<1>12. Stores(r, e)
  BY <1>1, <1>6, <1>9, <1>10, <1>11, Zenon DEF Stores
<1>13. QED BY <1>12, StoredInv, Zenon

\* An exactly-once handler's transaction commits its effects and its offset.
LEMMA ApplyCommitsInv == ASSUME IInv, NEW r \in Runners, ApplyCommits(r) PROVE IInv'
<1>1. /\ runner[r].pc = "applying" /\ UNCHANGED <<fed, retiring, pending, delivered, base>>
      /\ Advanced(r)
      /\ db' = SaveOffset(Effects(db, r), r, runner[r].offset, runner[r].batch.offset).db
  BY Zenon DEF ApplyCommits, StoreFrame, RunnerFrame
<1>2. /\ TablesOk(db) /\ db \in Tables(db.offsets, db.effects) /\ r \in Registered(db)
      /\ db.offsets[r].offset = runner[r].offset /\ runner[r] \in Runner
      /\ db.effects \in [DOMAIN db.effects -> Seq(Nat)] /\ BatchOk(r) /\ fed \in Seq(Pids)
  BY <1>1, Zenon DEF IInv, TypeOK, TablesOk, RunnerOk
<1>3. PICK new : new = EffectsOf(db, r) \o InOrder(Offsets(runner[r].batch.rows))
  BY Zenon
<1>4. new \in Seq(Nat)
  <2>1. PICK rows : rows = Offsets(runner[r].batch.rows)
    BY Zenon
  <2>2. PICK low \in Nat, high \in Nat : /\ low = runner[r].offset /\ high = runner[r].batch.offset
                                         /\ low <= low /\ low <= high /\ rows = Between(r, low, high)
    BY <1>2, <2>1, SMTT(45) DEF BatchOk, Runner
  <2>3. rows \in SUBSET Nat /\ IsFiniteSet(rows)
    BY <1>2, <2>2, BetweenSplits, Zenon
  <2>4. PICK s \in Seq(Nat) : s = InOrder(rows)
    BY <2>3, InOrderLists, Zenon
  <2>5. PICK t : t = EffectsOf(db, r)
    BY Zenon
  <2>6. t \in Seq(Nat)
    BY <1>2, <2>5, SMTT(45) DEF EffectsOf
  <2>7. new = t \o s
    BY <1>3, <2>1, <2>4, <2>5, Zenon
  <2>8. QED BY <2>4, <2>6, <2>7
<1>5. PICK e : e = [q \in DOMAIN db.effects \cup {r} |-> IF q = r THEN new ELSE db.effects[q]]
  BY Zenon
<1>6. DOMAIN e = DOMAIN db.effects \cup {r} /\ e \in [DOMAIN e -> Seq(Nat)] /\ e[r] = new
  BY <1>2, <1>4, <1>5, Zenon
<1>7. Effects(db, r) = [db EXCEPT !.effects = e]
  BY <1>2, <1>3, <1>5, Zenon DEF Effects, Tables
<1>8. PICK d : d = [db EXCEPT !.effects = e]
  BY Zenon
<1>9. d.offsets = db.offsets /\ d.effects = e
  BY <1>2, <1>8, Zenon DEF Tables
<1>10. SaveOffset(d, r, runner[r].offset, runner[r].batch.offset).db =
          [d EXCEPT !.offsets[r].offset = runner[r].batch.offset]
  BY <1>2, <1>9, Zenon DEF SaveOffset, OffsetOf, Outcome, Registered
<1>11. db' = [[db EXCEPT !.effects = e] EXCEPT !.offsets[r].offset = runner[r].batch.offset]
  BY <1>1, <1>7, <1>8, <1>10, Zenon
<1>12. EffectsOf(d, r) = new /\ \A q : q # r => EffectsOf(d, q) = EffectsOf(db, q)
  BY <1>5, <1>6, <1>9, Zenon DEF EffectsOf
<1>13. Stores(r, e)
  BY <1>1, <1>3, <1>6, <1>8, <1>11, <1>12, Zenon DEF Stores
<1>14. QED BY <1>13, StoredInv, Zenon

-----------------------------------------------------------------------------
(* The queries that change the feed and the registrations.                 *)

\* compact_changes deletes nothing, or everything up to the offset of a change
\* that no registered projection is behind, and records that offset.
LEMMA CompactIs ==
    ASSUME NEW d, IsFiniteSet(d.changes), \A row \in d.changes : row.offset \in Nat \ {0},
           \A p \in Registered(d) : d.offsets[p].offset \in Nat, NEW limit \in Nat \ {0},
           NEW r, r = CompactChanges(d, limit)
    PROVE  /\ r.tag = "ok" /\ r.value \in [count : Nat]
           /\ \/ r.db = d
              \/ \E k \in Nat :
                    /\ r.db = [d EXCEPT !.changes = {row \in @ : row.offset > k}, !.compacted = k]
                    /\ \E row \in d.changes : row.offset = k
                    /\ \A p \in Registered(d) : k <= d.offsets[p].offset
<1>1. PICK low \in Nat : /\ low = MinimumOffset(d)
                         /\ \A p \in Registered(d) : low <= d.offsets[p].offset
  <2>1. CASE Registered(d) = {}
    BY <2>1, Zenon DEF MinimumOffset
  <2>2. CASE Registered(d) # {}
    <3>1. PICK S : S = {d.offsets[p].offset : p \in Registered(d)}
      BY Zenon
    <3>2. S \in SUBSET Nat /\ S # {} /\ MinimumOffset(d) = Min(S)
      BY <2>2, <3>1, Zenon DEF MinimumOffset
    <3>3. Min(S) \in S /\ \A y \in S : Min(S) <= y
      BY <3>2, NatMin, Zenon
    <3>4. QED BY <3>1, <3>2, <3>3, Zenon
  <2>3. QED BY <2>1, <2>2, Zenon
<1>2. PICK all : all = {row \in d.changes : row.offset <= low}
  BY Zenon
<1>3. IsFiniteSet(all) /\ \A row \in all : row.offset \in Nat
  <2>1. all \in SUBSET d.changes
    BY <1>2, Zenon
  <2>2. QED BY <1>2, <2>1, FS_Subset, Zenon
<1>4. PICK rows : rows = FirstRows(all, limit)
  BY Zenon
<1>5. rows \subseteq all
  BY <1>3, <1>4, FirstRowsIs, Zenon
<1>6. Cardinality(rows) \in Nat
  BY <1>3, <1>5, FS_Subset, FS_CardinalityType, Zenon
<1>7. r = IF rows = {}
          THEN Outcome(d, "ok", [count |-> 0])
          ELSE Outcome([d EXCEPT !.changes = {row \in @ : row.offset > Highest(rows)},
                                 !.compacted = Highest(rows)], "ok",
                       [count |-> Cardinality(rows)])
  BY <1>1, <1>2, <1>4, Zenon DEF CompactChanges
<1>8. CASE rows = {}
  <2>1. r = Outcome(d, "ok", [count |-> 0])
    BY <1>7, <1>8, Zenon
  <2>2. QED BY <2>1 DEF Outcome
<1>9. CASE rows # {}
  <2>1. \A row \in rows : row.offset \in Nat /\ row.offset <= low
    BY <1>2, <1>5, Zenon
  <2>2. PICK k \in Nat : /\ k = Highest(rows) /\ k <= low
                         /\ \E row \in rows : row.offset = k
    BY <1>9, <2>1, HighestIs, Zenon
  <2>3. \E row \in d.changes : row.offset = k
    BY <1>2, <1>5, <2>2, Zenon
  <2>4. \A p \in Registered(d) : k <= d.offsets[p].offset
    BY <1>1, <2>2
  <2>5. r = Outcome([d EXCEPT !.changes = {row \in @ : row.offset > k}, !.compacted = k], "ok",
                    [count |-> Cardinality(rows)])
    BY <1>7, <1>9, <2>2, Zenon
  <2>6. /\ r.tag = "ok" /\ r.value = [count |-> Cardinality(rows)]
        /\ r.db = [d EXCEPT !.changes = {row \in @ : row.offset > k}, !.compacted = k]
    BY <2>5 DEF Outcome
  <2>7. r.value \in [count : Nat]
    BY <1>6, <2>6
  <2>8. \E x \in Nat :
           /\ r.db = [d EXCEPT !.changes = {row \in @ : row.offset > x}, !.compacted = x]
           /\ \E row \in d.changes : row.offset = x
           /\ \A p \in Registered(d) : x <= d.offsets[p].offset
    BY <2>3, <2>4, <2>6, ZenonT(60)
  <2>9. QED BY <2>6, <2>7, <2>8, Zenon
<1>10. QED BY <1>8, <1>9, Zenon

\* _projection_register keeps the offset of a registered projection, and lets
\* a new one begin where no change is missing.
LEMMA RegisterCases ==
    ASSUME NEW d, d.compacted \in Nat, d.high \in Nat, NEW p, NEW source, NEW initial,
           initial = Null \/ initial \in Nat, NEW r, r = Register(d, p, source, initial),
           r.tag = "ok"
    PROVE  \/ /\ p \in Registered(d) /\ r.db = d /\ r.value = d.offsets[p].offset
              /\ d.offsets[p].source = source
           \/ /\ p \notin Registered(d) /\ r.value \in Nat /\ r.db = WithOffset(d, p, source, r.value)
              /\ d.compacted <= r.value /\ r.value <= d.high
<1>1. CASE p \in Registered(d)
  <2>1. r = Outcome(d, IF d.offsets[p].source = source THEN "ok" ELSE "source-conflict",
                    OffsetOf(d, p))
    BY <1>1, Zenon DEF Register
  <2>2. QED BY <1>1, <2>1, SMTT(45) DEF Outcome, OffsetOf
<1>2. CASE p \notin Registered(d) /\ initial = Null /\ d.compacted > 0
  <2>1. r = Outcome(d, "baseline-required", 0)
    BY <1>2 DEF Register
  <2>2. QED BY <2>1 DEF Outcome
<1>3. CASE p \notin Registered(d) /\ initial = Null /\ d.compacted = 0
  <2>1. r = Outcome(WithOffset(d, p, source, 0), "ok", 0)
    BY <1>3 DEF Register
  <2>2. QED BY <1>3, <2>1 DEF Outcome
<1>4. CASE p \notin Registered(d) /\ initial # Null
           /\ ~(d.compacted <= initial /\ initial <= d.high)
  <2>1. r = Outcome(d, "invalid-baseline", 0)
    BY <1>4, Zenon DEF Register
  <2>2. QED BY <2>1 DEF Outcome
<1>5. CASE p \notin Registered(d) /\ initial # Null
           /\ d.compacted <= initial /\ initial <= d.high
  <2>1. r = Outcome(WithOffset(d, p, source, initial), "ok", initial)
    BY <1>5, Zenon DEF Register
  <2>2. QED BY <1>5, <2>1 DEF Outcome
<1>6. QED BY <1>1, <1>2, <1>3, <1>4, <1>5, SMTT(45)

\* A registration that is refused leaves the tables as they are.
LEMMA RegisterRefused ==
    ASSUME NEW d, d.compacted \in Nat, NEW p, NEW source, NEW initial,
           NEW r, r = Register(d, p, source, initial), r.tag # "ok"
    PROVE  r.db = d
<1>1. CASE p \in Registered(d)
  <2>1. r = Outcome(d, IF d.offsets[p].source = source THEN "ok" ELSE "source-conflict",
                    OffsetOf(d, p))
    BY <1>1, Zenon DEF Register
  <2>2. QED BY <2>1 DEF Outcome
<1>2. CASE p \notin Registered(d) /\ initial = Null
  <2>1. \/ r = Outcome(d, "baseline-required", 0)
        \/ r = Outcome(WithOffset(d, p, source, 0), "ok", 0)
    BY <1>2, SMTT(45) DEF Register
  <2>2. QED BY <2>1 DEF Outcome
<1>3. CASE p \notin Registered(d) /\ initial # Null
  <2>1. \/ r = Outcome(d, "invalid-baseline", 0)
        \/ r = Outcome(WithOffset(d, p, source, initial), "ok", initial)
    BY <1>3, Zenon DEF Register
  <2>2. QED BY <2>1 DEF Outcome
<1>4. QED BY <1>1, <1>2, <1>3, Zenon

-----------------------------------------------------------------------------
(* Registration.                                                           *)

\* The effects that Forget leaves.
LEMMA ForgetIs ==
    ASSUME NEW d, d \in Tables(d.offsets, d.effects), d.effects \in [DOMAIN d.effects -> Seq(Nat)],
           NEW r, NEW f, f = Forget(d, r)
    PROVE  /\ f \in Tables(d.offsets, f.effects) /\ f.effects \in [DOMAIN f.effects -> Seq(Nat)]
           /\ f.offsets = d.offsets /\ f.changes = d.changes /\ f.operations = d.operations
           /\ f.sequence = d.sequence /\ f.high = d.high /\ f.compacted = d.compacted
           /\ EffectsOf(f, r) = <<>> /\ \A q : q # r => EffectsOf(f, q) = EffectsOf(d, q)
<1>1. PICK e : e = [q \in DOMAIN d.effects \ {r} |-> d.effects[q]]
  BY Zenon
<1>2. f = [d EXCEPT !.effects = e]
  BY <1>1, Zenon DEF Forget, Tables
<1>3. DOMAIN e = DOMAIN d.effects \ {r} /\ e \in [DOMAIN e -> Seq(Nat)]
  BY <1>1, Zenon
<1>4. /\ f \in Tables(d.offsets, e) /\ f.effects = e
      /\ f.offsets = d.offsets /\ f.changes = d.changes /\ f.operations = d.operations
      /\ f.sequence = d.sequence /\ f.high = d.high /\ f.compacted = d.compacted
  BY <1>2, Zenon DEF Tables
<1>5. EffectsOf(f, r) = <<>> /\ \A q : q # r => EffectsOf(f, q) = EffectsOf(d, q)
  BY <1>1, <1>3, <1>4, Zenon DEF EffectsOf
<1>6. QED BY <1>3, <1>4, <1>5, Zenon

\* A registration is found, made or refused.
LEMMA RegisterInv == ASSUME IInv, NEW r \in Runners, RegisterRuns(r) PROVE IInv'
<1>1. UNCHANGED <<fed, retiring, pending>> /\ runner[r].pc = "registering"
  BY Zenon DEF RegisterRuns, StoreFrame
<1>2. /\ TablesOk(db) /\ db \in Tables(db.offsets, db.effects) /\ runner[r] \in Runner
      /\ runner \in [Runners -> Runner] /\ runner[r].mode \in Sources /\ r \notin retiring
      /\ delivered \in [Runners -> SUBSET Nat] /\ base \in [Runners -> Nat]
      /\ db.effects \in [DOMAIN db.effects -> Seq(Nat)] /\ fed \in Seq(Pids)
      /\ db.offsets \in [Registered(db) -> Registration] /\ Registered(db) \subseteq Runners
  BY <1>1, Zenon DEF IInv, TypeOK, TablesOk, RunnerOk, RetireInv
<1>3. PICK mode, initial : mode \in Sources /\ mode = runner[r].mode /\ initial = runner[r].initial
  BY <1>2, Zenon
<1>4. /\ db.compacted \in Nat /\ db.high \in Nat /\ db.high = Len(fed)
      /\ initial = Null \/ initial \in Nat
  BY <1>2, <1>3, Zenon DEF IInv, FeedInv, Tables, Runner
<1>5. PICK d : d = Register(db, r, mode, initial)
  BY Zenon
<1>6. db' = IF r \notin Registered(db) THEN Forget(d.db, r) ELSE d.db
  BY <1>3, <1>5, Zenon DEF RegisterRuns
<1>7. CASE d.tag # "ok"
  <2>1. Finish(r) /\ UNCHANGED <<base, delivered>>
    BY <1>3, <1>5, <1>7, Zenon DEF RegisterRuns
  <2>2. d.db = db
    BY <1>4, <1>5, <1>7, RegisterRefused
  <2>3. CASE r \in Registered(db)
    <3>1. db' = db
      BY <1>6, <2>2, <2>3, Zenon
    <3>2. QED BY <1>1, <2>1, <3>1, EndsInv, Zenon
  <2>4. CASE r \notin Registered(db)
    <3>1. db' = Forget(db, r)
      BY <1>6, <2>2, <2>4, Zenon
    <3>2. PICK f : f = Forget(db, r) /\ db' = f
      BY <3>1, ZenonT(60)
    <3>3. /\ f \in Tables(db.offsets, f.effects) /\ f.effects \in [DOMAIN f.effects -> Seq(Nat)]
          /\ f.offsets = db.offsets /\ f.changes = db.changes /\ f.operations = db.operations
          /\ f.sequence = db.sequence /\ f.high = db.high /\ f.compacted = db.compacted
          /\ \A q : q # r => EffectsOf(f, q) = EffectsOf(db, q)
      BY <1>2, <3>2, ForgetIs, SMTT(45)
    <3>4. TablesOk(db)'
      BY <1>2, <3>2, <3>3, Zenon DEF TablesOk, Registered
    <3>5. Registered(db)' = Registered(db)
      BY <3>2, <3>3, Zenon DEF Registered
    <3>6. \A q : EffectsOf(db, q)' = EffectsOf(f, q)
      BY <3>2, Zenon DEF EffectsOf
    <3>7. OnlyRow(r)
      BY <1>1, <1>2, <2>1, <3>2, <3>3, <3>4, <3>5, <3>6, ZenonT(60) DEF OnlyRow
    <3>8. PICK b \in Runner : b = NoRunner /\ b.pc = "none"
      BY RunnerTypes, Zenon
    <3>9. runner' = [runner EXCEPT ![r] = b] /\ runner'[r] = b
      BY <1>2, <2>1, <3>8, Zenon DEF Finish
    <3>10. RunnerOk(r)'
      BY <3>8, <3>9, Zenon DEF RunnerOk
    <3>11. QED BY <2>4, <3>5, <3>7, <3>8, <3>9, <3>10, OneRow, ZenonT(60)
  <2>5. QED BY <2>3, <2>4, Zenon
<1>8. CASE d.tag = "ok"
  <2>1. /\ runner' = [runner EXCEPT ![r].pc = "top", ![r].offset = d.value]
        /\ base' = [base EXCEPT ![r] = IF r \notin Registered(db) THEN d.value ELSE @]
        /\ delivered' = [delivered EXCEPT ![r] = IF r \notin Registered(db) THEN {} ELSE @]
    BY <1>3, <1>5, <1>8, ZenonT(60) DEF RegisterRuns
  <2>2. \/ /\ r \in Registered(db) /\ d.db = db /\ d.value = db.offsets[r].offset
           /\ db.offsets[r].source = mode
        \/ /\ r \notin Registered(db) /\ d.value \in Nat /\ d.db = WithOffset(db, r, mode, d.value)
           /\ db.compacted <= d.value /\ d.value <= db.high
    BY <1>4, <1>5, <1>8, RegisterCases, SMTT(45)
  <2>3. PICK v \in Nat : v = d.value
    BY <1>2, <2>2, Zenon DEF Registration
  <2>4. PICK b : b = [runner[r] EXCEPT !.pc = "top", !.offset = v]
    BY Zenon
  <2>5. b \in Runner /\ b.pc = "top" /\ b.offset = v /\ b.mode = mode
    <3>1. "top" \in PCs
      BY Zenon DEF PCs
    <3>2. QED BY <1>2, <1>3, <2>3, <2>4, <3>1, ZenonT(60) DEF Runner
  <2>6. runner' = [runner EXCEPT ![r] = b] /\ runner'[r] = b
    BY <1>2, <2>1, <2>3, <2>4, Zenon
  <2>7. CASE r \in Registered(db)
    <3>1. /\ d.db = db /\ v = db.offsets[r].offset /\ db.offsets[r].source = mode
          /\ db' = db /\ base' = base /\ delivered' = delivered
      BY <1>2, <1>6, <2>1, <2>2, <2>3, <2>7, ZenonT(60)
    <3>2. RunnerOk(r)'
      <4>1. r \in Registered(db)' /\ db'.offsets[r].offset = v /\ db'.offsets[r].source = mode
        BY <2>7, <3>1, Zenon
      <4>2. QED BY <1>3, <2>5, <2>6, <4>1, Zenon DEF RunnerOk
    <3>3. QED BY <1>1, <1>2, <2>5, <2>6, <3>1, <3>2, OneRunner, ZenonT(60)
  <2>8. CASE r \notin Registered(db)
    <3>1. /\ db.compacted <= v /\ v <= db.high /\ base' = [base EXCEPT ![r] = v]
          /\ delivered' = [delivered EXCEPT ![r] = {}] /\ db' = Forget(WithOffset(db, r, mode, v), r)
      BY <1>6, <2>1, <2>2, <2>3, <2>8, Zenon
    <3>2. PICK os : os = [q \in Registered(db) \cup {r} |->
                            IF q = r THEN [source |-> mode, offset |-> v] ELSE db.offsets[q]]
      BY Zenon
    <3>3. PICK w : w = WithOffset(db, r, mode, v)
      BY Zenon
    <3>4. w = [db EXCEPT !.offsets = os]
      BY <1>2, <3>2, <3>3, Zenon DEF WithOffset, Registered, Tables
    <3>5. /\ DOMAIN os = Registered(db) \cup {r} /\ os \in [Registered(db) \cup {r} -> Registration]
          /\ os[r].source = mode /\ os[r].offset = v
          /\ \A q \in Registered(db) : q # r => os[q] = db.offsets[q]
      BY <1>2, <1>3, <2>3, <3>2, Zenon DEF Registration
    <3>6. /\ w \in Tables(os, db.effects) /\ w.offsets = os /\ w.effects = db.effects
          /\ w.changes = db.changes /\ w.operations = db.operations
          /\ w.sequence = db.sequence /\ w.high = db.high /\ w.compacted = db.compacted
      BY <1>2, <3>4, Zenon DEF Tables
    <3>7. PICK f : f = Forget(w, r) /\ db' = f
      BY <3>1, <3>3, Zenon
    <3>8. w \in Tables(w.offsets, w.effects) /\ w.effects \in [DOMAIN w.effects -> Seq(Nat)]
      BY <1>2, <3>6, Zenon
    <3>9. /\ f \in Tables(w.offsets, f.effects) /\ f.effects \in [DOMAIN f.effects -> Seq(Nat)]
          /\ f.offsets = w.offsets /\ f.changes = w.changes /\ f.operations = w.operations
          /\ f.sequence = w.sequence /\ f.high = w.high /\ f.compacted = w.compacted
          /\ EffectsOf(f, r) = <<>> /\ \A q : q # r => EffectsOf(f, q) = EffectsOf(w, q)
      BY <3>7, <3>8, ForgetIs, SMTT(45)
    <3>10. \A q : EffectsOf(db, q)' = EffectsOf(f, q) /\ EffectsOf(w, q) = EffectsOf(db, q)
      BY <3>6, <3>7, Zenon DEF EffectsOf
    <3>11. Registered(db)' = Registered(db) \cup {r} /\ db'.offsets = os
      BY <3>5, <3>6, <3>7, <3>9, Zenon DEF Registered
    <3>12. TablesOk(db)'
      BY <1>2, <3>5, <3>6, <3>7, <3>9, <3>11, ZenonT(60) DEF TablesOk
    <3>13. /\ base' \in [Runners -> Nat] /\ delivered' \in [Runners -> SUBSET Nat]
           /\ base'[r] = v /\ \A q \in Runners : q # r => base'[q] = base[q] /\ delivered'[q] = delivered[q]
      BY <1>2, <3>1, Zenon
    <3>14. OnlyRow(r)
      <4>1. ASSUME NEW q \in Runners, q # r
            PROVE  /\ q \in Registered(db)' <=> q \in Registered(db)
                   /\ q \in Registered(db) => db'.offsets[q] = db.offsets[q]
                   /\ EffectsOf(db, q)' = EffectsOf(db, q)
                   /\ base'[q] = base[q] /\ delivered'[q] = delivered[q]
        BY <3>5, <3>9, <3>10, <3>11, <3>13, <4>1, ZenonT(60)
      <4>2. QED BY <1>1, <3>6, <3>7, <3>9, <3>12, <3>13, <4>1, ZenonT(60) DEF OnlyRow
    <3>15. OffsetOk(r)'
      <4>1. \A n \in DOMAIN fed : n \in Nat
        BY <1>2, SMTT(45)
      <4>2. Between(r, v, v)' = {}
        BY <1>1, <4>1 DEF Between
      <4>3. Lists(<<>>, {})
        BY DEF Lists, Range
      <4>4. db'.offsets[r].offset = v /\ db'.offsets[r].source = mode /\ db'.compacted = db.compacted
        BY <3>5, <3>6, <3>7, <3>9, <3>11, ZenonT(60)
      <4>5. Between(r, base[r], db.offsets[r].offset)' = {}
        BY <3>13, <4>2, <4>4, Zenon
      <4>6. EffectsOf(db, r)' = <<>>
        BY <3>9, <3>10, ZenonT(60)
      <4>7. v <= v /\ v <= Len(fed') /\ db'.compacted <= v
        BY <1>1, <1>4, <3>1, <4>4, SMTT(45)
      <4>8. QED BY <3>13, <4>3, <4>4, <4>5, <4>6, <4>7, ZenonT(60) DEF OffsetOk
    <3>16. RunnerOk(r)'
      <4>1. r \in Registered(db)' /\ db'.offsets[r].offset = v /\ db'.offsets[r].source = mode
        BY <3>5, <3>11, Zenon
      <4>2. QED BY <1>3, <2>5, <2>6, <4>1, Zenon DEF RunnerOk
    <3>17. QED BY <1>2, <2>5, <2>6, <3>14, <3>15, <3>16, OneRow, ZenonT(60)
  <2>9. QED BY <2>7, <2>8, Zenon
<1>9. QED BY <1>7, <1>8, Zenon


-----------------------------------------------------------------------------
(* Everyone else.                                                          *)

\* The tables after a change of the feed or of who is registered: the rows
\* that are left have their offset and their effects.
LEMMA TablesStep ==
    ASSUME IInv, UNCHANGED <<runner, base, delivered, retiring>>, TypeOK', FeedInv', RetireInv', FedGrows,
           Registered(db)' \subseteq Registered(db),
           \A q \in Registered(db)' : /\ db'.offsets[q] = db.offsets[q]
                                      /\ db'.compacted <= db.offsets[q].offset
                                      /\ EffectsOf(db, q)' = EffectsOf(db, q),
           \A q \in Registered(db) : runner[q].pc # "none" => q \in Registered(db)'
    PROVE  IInv'
<1>1. TablesOk(db) /\ runner \in [Runners -> Runner]
  BY Zenon DEF IInv, TypeOK
<1>2. ASSUME NEW q \in Registered(db)' PROVE OffsetOk(q)'
  <2>1. q \in Registered(db) /\ OffsetOk(q) /\ db.offsets[q].offset \in Nat
    BY <1>1, <1>2, Zenon DEF IInv, TablesOk, Registration
  <2>2. /\ db'.offsets[q] = db.offsets[q] /\ db'.compacted <= db.offsets[q].offset
        /\ base'[q] = base[q] /\ delivered[q] \subseteq delivered'[q]
        /\ EffectsOf(db, q)' = EffectsOf(db, q)
    BY <1>2, Zenon
  <2>3. QED BY <2>1, <2>2, OffsetKeeps, Zenon
<1>3. ASSUME NEW q \in Runners PROVE RunnerOk(q)'
  <2>1. RunnerOk(q) /\ runner'[q] = runner[q] /\ delivered[q] \subseteq delivered'[q]
    BY Zenon DEF IInv
  <2>2. runner[q].pc \notin {"none", "register", "registering"} =>
           q \in Registered(db)' /\ db'.offsets[q] = db.offsets[q]
    BY <2>1, Zenon DEF RunnerOk
  <2>3. QED BY <1>1, <2>1, <2>2, RunnerKeeps, Zenon
<1>4. QED BY <1>2, <1>3, Zenon DEF IInv

\* A durable actor's change takes the next offset.
LEMMA WriteInv == ASSUME IInv, NEW p \in Pids, Write(p) PROVE IInv'
<1>1. /\ fed' = Append(fed, p) /\ UNCHANGED <<runner, base, delivered, retiring, pending>>
  BY Zenon DEF Write
<1>2. /\ TablesOk(db) /\ db \in Tables(db.offsets, db.effects) /\ fed \in Seq(Pids) /\ FeedInv
      /\ db.sequence \in Nat /\ db.high \in Nat /\ db.compacted \in Nat
      /\ db.changes \subseteq Row /\ Len(fed) \in Nat
      /\ db.operations \in [Pids -> SUBSET [operation : Nat, fingerprint : {Fingerprint(Null)},
                                            revision : Nat]]
      /\ db.state \in [Pids -> [revision : Nat, operation : Nat, content : {Null}] \cup {Null}]
  BY SMTT(45) DEF IInv, TypeOK, TablesOk, Tables
<1>3. PICK k \in Nat : /\ k = Len(fed) /\ k = db.sequence /\ k = db.high /\ DOMAIN fed = 1 .. k
                       /\ db.compacted <= k
  BY <1>2 DEF FeedInv
<1>4. PICK w : w = [kind |-> "write", pid |-> p, operation |-> k + 1, content |-> Null,
                    expected |-> RevisionOf(db, p)]
  BY Zenon
<1>5. db' = Mutate(db, w).db
  BY <1>3, <1>4, Zenon DEF Write
<1>6. PICK m : m = Mutate(db, w)
  BY Zenon
<1>7. m.db = Written(db, w)
  <2>1. w.pid = p /\ w.operation = k + 1 /\ w.content = Null /\ w.expected = RevisionOf(db, p)
    BY <1>4, Zenon
  <2>2. Recorded(db, w) = {}
    <3>1. \A o \in db.operations[p] : o.operation \in Nat /\ o.operation <= k
      BY <1>2, <1>3 DEF FeedInv
    <3>2. QED BY <2>1, <3>1 DEF Recorded
  <2>3. m = Outcome(Written(db, w), "written", [revision |-> w.expected + 1])
    BY <1>6, <2>1, <2>2, Zenon DEF Mutate
  <2>4. QED BY <2>3, Zenon DEF Outcome
<1>8. PICK rev \in Nat : rev = RevisionOf(db, p) + 1
  <2>1. db.state[p] # Null => db.state[p].revision \in Nat
    BY <1>2, Zenon
  <2>2. RevisionOf(db, p) \in Nat
    BY <2>1, Zenon DEF RevisionOf
  <2>3. QED BY <2>2
<1>9. PICK row : row = [offset |-> k + 1, pid |-> p, revision |-> rev, operation |-> k + 1,
                        content |-> Null]
  BY Zenon
<1>10. row \in Row /\ row.offset = k + 1 /\ row.pid = p
  BY <1>9 DEF Row
<1>11. \A r \in db.changes : r.offset \in Nat /\ r.offset <= k
  BY <1>2, <1>3, Zenon DEF FeedInv, Row
<1>12. Highest(db.changes \cup {row}) = k + 1
  <2>1. PICK all : all = db.changes \cup {row}
    BY Zenon
  <2>2. all # {} /\ row \in all /\ \A r \in all : r.offset \in Nat /\ r.offset <= k + 1
    BY <1>10, <1>11, <2>1
  <2>3. k + 1 <= Highest(all) /\ Highest(all) \in Nat /\ Highest(all) <= k + 1
    BY <1>10, <2>2, HighestIs, Zenon
  <2>4. QED BY <2>1, <2>3
<1>13. PICK op : op = [operation |-> k + 1, fingerprint |-> Fingerprint(Null), revision |-> rev]
  BY Zenon
<1>14. PICK st : st = [revision |-> rev, operation |-> k + 1, content |-> Null]
  BY Zenon
<1>15. db' = [db EXCEPT !.state[p] = st, !.operations[p] = @ \cup {op},
                        !.changes = @ \cup {row}, !.sequence = k + 1, !.high = k + 1]
  <2>1. w.pid = p /\ w.operation = k + 1 /\ w.content = Null
    BY <1>4, Zenon
  <2>2. db' = Written(db, w)
    BY <1>5, <1>6, <1>7, Zenon
  <2>3. QED BY <1>3, <1>8, <1>9, <1>12, <1>13, <1>14, <2>1, <2>2, ZenonT(60) DEF Written
<1>16. PICK states, ops : /\ states = [db.state EXCEPT ![p] = st]
                          /\ ops = [db.operations EXCEPT ![p] = @ \cup {op}]
  BY Zenon
<1>17. db' = [db EXCEPT !.state = states, !.operations = ops,
                        !.changes = db.changes \cup {row}, !.sequence = k + 1, !.high = k + 1]
  BY <1>2, <1>15, <1>16, ZenonT(60) DEF Tables
<1>18. states \in [Pids -> [revision : Nat, operation : Nat, content : {Null}] \cup {Null}]
  BY <1>2, <1>14, <1>16, SMTT(45)
<1>19. /\ ops \in [Pids -> SUBSET [operation : Nat, fingerprint : {Fingerprint(Null)}, revision : Nat]]
       /\ \A q \in Pids : \A o \in ops[q] : o.operation <= k + 1
  <2>1. op \in [operation : Nat, fingerprint : {Fingerprint(Null)}, revision : Nat] /\ op.operation = k + 1
    BY <1>13
  <2>2. /\ ops \in [Pids -> SUBSET [operation : Nat, fingerprint : {Fingerprint(Null)}, revision : Nat]]
        /\ \A q \in Pids : \A o \in ops[q] : o \in db.operations[q] \/ o = op
    BY <1>2, <1>16, <2>1, Zenon
  <2>3. \A q \in Pids : \A o \in db.operations[q] : o.operation \in Nat /\ o.operation <= k
    BY <1>2, <1>3 DEF FeedInv
  <2>4. \A q \in Pids : \A o \in db.operations[q] : o.operation <= k + 1
    BY <2>3
  <2>5. QED BY <2>1, <2>2, <2>4, SMTT(45)
<1>20. /\ db' \in Tables(db.offsets, db.effects) /\ db'.offsets = db.offsets
       /\ db'.effects = db.effects /\ db'.changes = db.changes \cup {row} /\ db'.sequence = k + 1
       /\ db'.high = k + 1 /\ db'.compacted = db.compacted /\ db'.operations = ops
  <2>1. db.changes \cup {row} \subseteq Row
    BY <1>2, <1>10, Zenon
  <2>2. PICK rows, top : rows = db.changes \cup {row} /\ top = k + 1
    BY Zenon
  <2>3. PICK d : d = db /\ d \in Tables(d.offsets, d.effects)
    BY <1>2, Zenon
  <2>4. PICK c : c = [d EXCEPT !.state = states, !.operations = ops, !.changes = rows,
                               !.sequence = top, !.high = top]
    BY Zenon
  <2>5. /\ c \in Tables(d.offsets, d.effects) /\ c.offsets = d.offsets /\ c.effects = d.effects
        /\ c.changes = rows /\ c.sequence = top /\ c.high = top /\ c.compacted = d.compacted
        /\ c.operations = ops
    <3>1. rows \in SUBSET Row /\ top \in Nat
      BY <2>1, <2>2
    <3>2. QED BY <1>18, <1>19, <2>3, <2>4, <3>1, ZenonT(60) DEF Tables
  <2>6. db' = c
    BY <1>17, <2>2, <2>3, <2>4, ZenonT(60)
  <2>7. QED BY <2>2, <2>3, <2>5, <2>6, Zenon
<1>21. TablesOk(db)'
  BY <1>2, <1>20, Zenon DEF TablesOk, Registered
<1>22. FedGrows /\ fed' \in Seq(Pids)
  BY <1>1, <1>2, FedFrame, ZenonT(60)
<1>23. /\ Len(fed') = k + 1 /\ DOMAIN fed' = 1 .. k + 1 /\ fed'[k + 1] = p
       /\ \A n \in 1 .. k : fed'[n] = fed[n]
  BY <1>1, <1>2, <1>3
<1>24. TypeOK'
  BY <1>1, <1>21, <1>22, Zenon DEF IInv, TypeOK
<1>25. FeedInv'
  <2>1. IsFiniteSet(db.changes \cup {row})
    <3>1. IsFiniteSet(db.changes)
      BY <1>2, Zenon DEF FeedInv
    <3>2. QED BY <3>1, FS_AddElement, Zenon
  <2>2. ASSUME NEW x \in db.changes \cup {row}
        PROVE  db.compacted < x.offset /\ x.offset <= k + 1 /\ x.pid = fed'[x.offset]
    <3>1. CASE x = row
      BY <1>2, <1>3, <1>10, <1>23, <3>1, SMTT(45)
    <3>2. CASE x \in db.changes
      <4>1. db.compacted < x.offset /\ x.offset <= k /\ x.pid = fed[x.offset] /\ x.offset \in Nat
        BY <1>2, <1>3, <1>11, <3>2, ZenonT(60) DEF FeedInv
      <4>2. x.offset \in 1 .. k
        BY <1>2, <4>1
      <4>3. QED BY <1>23, <4>1, <4>2, SMTT(45)
    <3>3. QED BY <2>2, <3>1, <3>2, ZenonT(60)
  <2>3. ASSUME NEW n \in 1 .. k + 1, n > db.compacted
        PROVE  \E x \in db.changes \cup {row} : x.offset = n
    <3>1. CASE n = k + 1
      BY <1>10, <3>1, Zenon
    <3>2. CASE n # k + 1
      <4>1. n \in DOMAIN fed
        BY <1>3, <3>2
      <4>2. QED BY <1>2, <2>3, <4>1, Zenon DEF FeedInv
    <3>3. QED BY <3>1, <3>2, Zenon
  <2>4. db.compacted <= k + 1
    BY <1>2, <1>3
  <2>5. QED BY <1>19, <1>20, <1>23, <2>1, <2>2, <2>3, <2>4, ZenonT(60) DEF FeedInv
<1>26. RetireInv'
  BY <1>1, Zenon DEF IInv, RetireInv
<1>27. /\ Registered(db)' = Registered(db)
       /\ \A q \in Registered(db) : /\ db'.offsets[q] = db.offsets[q]
                                    /\ db'.compacted <= db.offsets[q].offset
                                    /\ EffectsOf(db, q)' = EffectsOf(db, q)
  <2>1. Registered(db)' = Registered(db) /\ \A q : EffectsOf(db, q)' = EffectsOf(db, q)
    BY <1>20, Zenon DEF Registered, EffectsOf
  <2>2. \A q \in Registered(db) : db.compacted <= db.offsets[q].offset
    BY Zenon DEF IInv, OffsetOk
  <2>3. QED BY <1>20, <2>1, <2>2, Zenon
<1>28. QED BY <1>1, <1>22, <1>24, <1>25, <1>26, <1>27, TablesStep, ZenonT(60)


\* The operations of the store change, and nothing they have done yet.
LEMMA PendingStep ==
    ASSUME IInv, UNCHANGED <<db, fed, base, delivered, runner>>, retiring' \subseteq Runners,
           pending' \subseteq Operation, RetireInv'
    PROVE  IInv'
<1>1. TypeOK' /\ FeedInv'
  BY Zenon DEF IInv, TypeOK, FeedInv
<1>2. \A r : Registered(db)' = Registered(db) /\ (OffsetOk(r) => OffsetOk(r)')
  <2>1. \A q, low, high : Between(q, low, high)' = Between(q, low, high)
    BY Zenon DEF Between
  <2>2. QED BY <2>1, ZenonT(60) DEF OffsetOk, Lists, EffectsOf
<1>3. \A r : RunnerOk(r) => RunnerOk(r)'
  <2>1. \A q, low, high : Between(q, low, high)' = Between(q, low, high)
    BY Zenon DEF Between
  <2>2. \A q : BatchOk(q) => BatchOk(q)'
    BY <2>1, Zenon DEF BatchOk
  <2>3. QED BY <2>2, Zenon DEF RunnerOk
<1>4. QED BY <1>1, <1>2, <1>3, Zenon DEF IInv

\* A compaction is submitted.
LEMMA SubmitCompactionInv == ASSUME IInv, SubmitCompaction PROVE IInv'
<1>1. PICK call : call = [kind |-> "compact", limit |-> CompactionLimit]
  BY Zenon
<1>2. PICK o : o = Submitted(Null, call)
  BY Zenon
<1>3. /\ pending' = pending \cup {o} /\ UNCHANGED <<db, fed, base, delivered, runner, retiring>>
  BY <1>1, <1>2, Zenon DEF SubmitCompaction
<1>4. call \in Call /\ call.kind = "compact"
  BY <1>1, Zenon DEF Call
<1>5. o \in Operation /\ o.from = Null /\ o.call = call
  BY <1>2, <1>4, Zenon DEF Operation, Submitted
<1>6. RetireInv /\ pending \subseteq Operation /\ retiring \subseteq Runners /\ Null \notin Runners
  BY ProjectionAssumption, Zenon DEF IInv, TypeOK
<1>7. \A x \in pending : x.call.kind = "retire" => x.from # Null
  BY <1>6, Zenon DEF RetireInv
<1>8. RetireInv'
  BY <1>3, <1>4, <1>5, <1>6, <1>7, Zenon DEF RetireInv
<1>9. QED BY <1>3, <1>5, <1>6, <1>8, PendingStep, Zenon

\* A retirement is submitted: its projection has no runner, and gets none.
LEMMA SubmitRetireInv == ASSUME IInv, NEW r \in Runners, SubmitRetire(r) PROVE IInv'
<1>1. PICK call : call = [kind |-> "retire", projection |-> r]
  BY Zenon
<1>2. PICK o : o = Submitted(r, call)
  BY Zenon
<1>3. /\ pending' = pending \cup {o} /\ UNCHANGED <<db, fed, base, delivered, runner>>
      /\ retiring' = retiring \cup {r} /\ r \notin retiring /\ runner[r].pc = "none"
  BY <1>1, <1>2, Zenon DEF SubmitRetire, Handles
<1>4. call \in Call /\ call.kind = "retire" /\ call.projection = r
  BY <1>1, Zenon DEF Call
<1>5. o \in Operation /\ o.from = r /\ o.call = call
  BY <1>2, <1>4, Zenon DEF Operation, Submitted
<1>6. RetireInv /\ pending \subseteq Operation /\ retiring \subseteq Runners /\ Null \notin Runners
  BY ProjectionAssumption, Zenon DEF IInv, TypeOK
<1>7. \A x \in pending : x.from # r
  BY <1>3, <1>6, Zenon DEF RetireInv
<1>8. RetireInv'
  BY <1>3, <1>4, <1>5, <1>6, <1>7, SMTT(45) DEF RetireInv
<1>9. QED BY <1>3, <1>5, <1>6, <1>8, PendingStep, Zenon

\* An operation is settled, and keeps its caller and its call.
LEMMA SettledKeeps ==
    ASSUME IInv, NEW o \in pending, NEW tag \in {"ok", "timeout"},
           NEW value \in [count : Nat] \cup {Null}, UNCHANGED <<runner, retiring>>,
           pending' = Replace(o, Settled(o, tag, value))
    PROVE  pending' \subseteq Operation /\ RetireInv'
<1>1. RetireInv /\ pending \subseteq Operation
  BY Zenon DEF IInv, TypeOK
<1>2. PICK s : s = Settled(o, tag, value)
  BY Zenon
<1>3. s \in Operation /\ s.from = o.from /\ s.call = o.call
  BY <1>1, <1>2, Zenon DEF Settled, Operation
<1>4. pending' = (pending \ {o}) \cup {s}
  BY <1>2, Zenon DEF Replace
<1>5. pending' \subseteq Operation
  BY <1>1, <1>3, <1>4, Zenon
<1>6. ASSUME NEW x \in pending'
      PROVE  IF x.call.kind = "retire" THEN x.from = x.call.projection /\ x.from \in retiring
             ELSE x.from = Null
  BY <1>1, <1>3, <1>4, Zenon DEF RetireInv
<1>7. ASSUME NEW x \in pending', NEW y \in pending', x.from = y.from, x.call.kind = "retire" PROVE x = y
  BY <1>1, <1>3, <1>4, <1>7, ZenonT(60) DEF RetireInv
<1>8. RetireInv'
  BY <1>1, <1>6, <1>7, Zenon DEF RetireInv
<1>9. QED BY <1>5, <1>8, Zenon

\* An operation passes its deadline and is rolled back.
LEMMA StoreTimesOutInv == ASSUME IInv, NEW o \in pending, StoreTimesOut(o) PROVE IInv'
<1>1. /\ UNCHANGED <<db, fed, base, delivered, runner, retiring>>
      /\ pending' = Replace(o, Settled(o, "timeout", Null))
  BY Zenon DEF StoreTimesOut, TimeOut, projectionVars
<1>2. PICK tag \in {"ok", "timeout"}, value \in [count : Nat] \cup {Null} : tag = "timeout" /\ value = Null
  BY Zenon
<1>3. pending' = Replace(o, Settled(o, tag, value))
  BY <1>1, <1>2, Zenon
<1>4. pending' \subseteq Operation /\ RetireInv'
  BY <1>1, <1>3, SettledKeeps, Zenon
<1>5. retiring' \subseteq Runners
  BY <1>1, Zenon DEF IInv, TypeOK
<1>6. QED BY <1>1, <1>4, <1>5, PendingStep, Zenon

\* An operation is over, and a retired projection may be started again.
LEMMA StoreCompletesInv == ASSUME IInv, NEW o \in pending, StoreCompletes(o) PROVE IInv'
<1>1. /\ UNCHANGED <<db, fed, base, delivered, runner>> /\ retiring' = retiring \ {o.from}
      /\ pending' = pending \ {o}
  BY Zenon DEF StoreCompletes, Completed
<1>2. RetireInv /\ pending \subseteq Operation /\ retiring \subseteq Runners
  BY Zenon DEF IInv, TypeOK
<1>3. RetireInv'
  BY <1>1, <1>2, Zenon DEF RetireInv
<1>4. QED BY <1>1, <1>2, <1>3, PendingStep, Zenon


\* A compaction runs: it stops at the lowest offset of a projection.
LEMMA CompactRuns ==
    ASSUME IInv, NEW o \in pending, StoreRuns(o), o.call.kind = "compact" PROVE IInv'
<1>1. PICK c : c = CompactChanges(db, CompactionLimit)
  BY Zenon
<1>2. o.call.limit = CompactionLimit
  BY Zenon DEF IInv, TypeOK, Operation, Call
<1>3. /\ UNCHANGED <<fed, base, delivered, runner, retiring>> /\ db' = c.db
      /\ pending' = Replace(o, Settled(o, c.tag, c.value))
  BY <1>1, <1>2, Zenon DEF StoreRuns, Execute, Transaction, projectionVars
<1>4. /\ TablesOk(db) /\ db \in Tables(db.offsets, db.effects) /\ FeedInv /\ fed \in Seq(Pids)
      /\ db.compacted \in Nat /\ db.changes \subseteq Row /\ IsFiniteSet(db.changes)
      /\ CompactionLimit \in Nat \ {0} /\ Len(fed) \in Nat
  BY ProjectionAssumption, ZenonT(60) DEF IInv, TypeOK, TablesOk, Tables, FeedInv
<1>5. \A row \in db.changes : row.offset \in Nat \ {0} /\ db.compacted < row.offset /\ row.offset <= Len(fed)
  BY <1>4, SMTT(45) DEF FeedInv, Row
<1>6. \A q \in Registered(db) : db.offsets[q].offset \in Nat
  BY <1>4, Zenon DEF TablesOk, Registration
<1>7. /\ c.tag = "ok" /\ c.value \in [count : Nat]
      /\ \/ c.db = db
         \/ \E k \in Nat :
               /\ c.db = [db EXCEPT !.changes = {row \in @ : row.offset > k}, !.compacted = k]
               /\ \E row \in db.changes : row.offset = k
               /\ \A q \in Registered(db) : k <= db.offsets[q].offset
  BY <1>1, <1>4, <1>5, <1>6, CompactIs, ZenonT(60)
<1>8. pending' \subseteq Operation /\ RetireInv'
  <2>1. PICK tag \in {"ok", "timeout"}, value \in [count : Nat] \cup {Null} : tag = c.tag /\ value = c.value
    BY <1>7, Zenon
  <2>2. pending' = Replace(o, Settled(o, tag, value))
    BY <1>3, <2>1, Zenon
  <2>3. QED BY <1>3, <2>2, SettledKeeps, Zenon
<1>9. retiring' \subseteq Runners
  BY <1>3, Zenon DEF IInv, TypeOK
<1>10. CASE c.db = db
  <2>1. db' = db
    BY <1>3, <1>10, Zenon
  <2>2. QED BY <1>3, <1>8, <1>9, <2>1, PendingStep, Zenon
<1>11. ASSUME NEW k \in Nat,
              c.db = [db EXCEPT !.changes = {row \in @ : row.offset > k}, !.compacted = k],
              \E row \in db.changes : row.offset = k, \A q \in Registered(db) : k <= db.offsets[q].offset
       PROVE  IInv'
  <2>1. db.compacted < k /\ k <= Len(fed)
    BY <1>5, <1>11, Zenon
  <2>2. PICK rows : rows = {row \in db.changes : row.offset > k}
    BY Zenon
  <2>3. db' = [db EXCEPT !.changes = rows, !.compacted = k]
    BY <1>3, <1>4, <1>11, <2>2, Zenon DEF Tables
  <2>4. rows \in SUBSET Row /\ rows \in SUBSET db.changes
    BY <1>4, <2>2, Zenon
  <2>5. /\ db' \in Tables(db.offsets, db.effects) /\ db'.offsets = db.offsets
        /\ db'.effects = db.effects /\ db'.changes = rows /\ db'.sequence = db.sequence
        /\ db'.high = db.high /\ db'.compacted = k /\ db'.operations = db.operations
    BY <1>4, <2>3, <2>4, Zenon DEF Tables
  <2>6. TablesOk(db)'
    BY <1>4, <2>5, Zenon DEF TablesOk, Registered
  <2>7. TypeOK'
    BY <1>3, <1>8, <2>6, Zenon DEF IInv, TypeOK
  <2>8. FeedInv'
    <3>1. IsFiniteSet(rows)
      BY <1>4, <2>4, FS_Subset, Zenon
    <3>2. \A row \in rows : k < row.offset /\ row.offset <= Len(fed) /\ row.pid = fed[row.offset]
      BY <1>4, <1>5, <2>2, Zenon DEF FeedInv
    <3>3. ASSUME NEW n \in DOMAIN fed, n > k PROVE \E row \in rows : row.offset = n
      <4>1. n \in Nat /\ n > db.compacted
        BY <1>4, <2>1, <3>3
      <4>2. PICK row \in db.changes : row.offset = n
        BY <1>4, <4>1, Zenon DEF FeedInv
      <4>3. QED BY <2>2, <3>3, <4>2, ZenonT(60)
    <3>4. QED BY <1>3, <1>4, <2>1, <2>5, <3>1, <3>2, <3>3, ZenonT(60) DEF FeedInv
  <2>9. FedGrows
    <3>1. \A q, low, high : Between(q, low, high)' = Between(q, low, high)
      BY <1>3, Zenon DEF Between
    <3>2. QED BY <1>3, <1>4, <3>1, SMTT(45) DEF FedGrows
  <2>10. /\ Registered(db)' = Registered(db)
         /\ \A q \in Registered(db) : /\ db'.offsets[q] = db.offsets[q]
                                      /\ db'.compacted <= db.offsets[q].offset
                                      /\ EffectsOf(db, q)' = EffectsOf(db, q)
    <3>1. Registered(db)' = Registered(db) /\ \A q : EffectsOf(db, q)' = EffectsOf(db, q)
      BY <2>5, Zenon DEF Registered, EffectsOf
    <3>2. QED BY <1>11, <2>5, <3>1, Zenon
  <2>11. QED BY <1>3, <1>8, <2>7, <2>8, <2>9, <2>10, TablesStep, ZenonT(60)
<1>12. QED BY <1>7, <1>10, <1>11, Zenon

\* A retirement runs: no runner was in step with the row it deletes.
LEMMA RetireRuns ==
    ASSUME IInv, NEW o \in pending, StoreRuns(o), o.call.kind = "retire" PROVE IInv'
<1>1. PICK p : p = o.call.projection /\ p = o.from /\ p \in retiring /\ runner[p].pc = "none"
  BY Zenon DEF IInv, RetireInv
<1>2. PICK c : c = Retire(db, p)
  BY Zenon
<1>3. /\ UNCHANGED <<fed, base, delivered, runner, retiring>> /\ db' = c.db
      /\ pending' = Replace(o, Settled(o, c.tag, c.value))
  BY <1>1, <1>2, ZenonT(60) DEF StoreRuns, Execute, Transaction, projectionVars
<1>4. /\ TablesOk(db) /\ db \in Tables(db.offsets, db.effects) /\ FeedInv /\ fed \in Seq(Pids)
      /\ db.offsets \in [Registered(db) -> Registration] /\ Registered(db) \subseteq Runners
      /\ Len(fed) \in Nat
  BY SMTT(45) DEF IInv, TypeOK, TablesOk
<1>5. PICK os : os = [q \in Registered(db) \ {p} |-> db.offsets[q]]
  BY Zenon
<1>6. c.tag = "ok" /\ c.value \in [count : Nat] /\ c.db = [db EXCEPT !.offsets = os]
  <2>1. PICK n \in Nat : n = IF p \in Registered(db) THEN 1 ELSE 0
    BY Zenon
  <2>2. c = Outcome([db EXCEPT !.offsets = os], "ok", [count |-> n])
    BY <1>2, <1>4, <1>5, <2>1, Zenon DEF Retire, Registered, Tables
  <2>3. QED BY <2>2, Zenon DEF Outcome
<1>7. pending' \subseteq Operation /\ RetireInv'
  <2>1. PICK tag \in {"ok", "timeout"}, value \in [count : Nat] \cup {Null} : tag = c.tag /\ value = c.value
    BY <1>6, Zenon
  <2>2. pending' = Replace(o, Settled(o, tag, value))
    BY <1>3, <2>1, Zenon
  <2>3. QED BY <1>3, <2>2, SettledKeeps, Zenon
<1>8. /\ DOMAIN os = Registered(db) \ {p} /\ os \in [Registered(db) \ {p} -> Registration]
      /\ \A q \in DOMAIN os : os[q] = db.offsets[q]
  BY <1>4, <1>5, Zenon
<1>9. /\ db' \in Tables(os, db.effects) /\ db'.offsets = os
      /\ db'.effects = db.effects /\ db'.changes = db.changes /\ db'.sequence = db.sequence
      /\ db'.high = db.high /\ db'.compacted = db.compacted /\ db'.operations = db.operations
  BY <1>3, <1>4, <1>6, Zenon DEF Tables
<1>10. Registered(db)' = Registered(db) \ {p} /\ \A q : EffectsOf(db, q)' = EffectsOf(db, q)
  BY <1>8, <1>9, Zenon DEF Registered, EffectsOf
<1>11. TablesOk(db)'
  BY <1>4, <1>8, <1>9, <1>10, ZenonT(60) DEF TablesOk
<1>12. TypeOK'
  BY <1>3, <1>7, <1>11, Zenon DEF IInv, TypeOK
<1>13. FeedInv'
  BY <1>3, <1>4, <1>9, ZenonT(60) DEF FeedInv
<1>14. FedGrows
  <2>1. \A q, low, high : Between(q, low, high)' = Between(q, low, high)
    BY <1>3, Zenon DEF Between
  <2>2. QED BY <1>3, <1>4, <2>1, SMTT(45) DEF FedGrows
<1>15. /\ Registered(db)' \subseteq Registered(db)
       /\ \A q \in Registered(db)' : /\ db'.offsets[q] = db.offsets[q]
                                     /\ db'.compacted <= db.offsets[q].offset
                                     /\ EffectsOf(db, q)' = EffectsOf(db, q)
       /\ \A q \in Registered(db) : runner[q].pc # "none" => q \in Registered(db)'
  <2>1. \A q \in Registered(db) : db.compacted <= db.offsets[q].offset
    BY Zenon DEF IInv, OffsetOk
  <2>2. QED BY <1>1, <1>8, <1>9, <1>10, <2>1, ZenonT(60)
<1>16. QED BY <1>3, <1>7, <1>12, <1>13, <1>14, <1>15, TablesStep, ZenonT(60)

\* The shutdown asks every runner to stop.
LEMMA PrepareInv == ASSUME IInv, PrepareProjections PROVE IInv'
<1>1. /\ UNCHANGED <<db, fed, base, delivered, retiring, pending>>
      /\ runner' = [r \in Runners |-> [runner[r] EXCEPT !.stop = r \in Handles]]
  BY Zenon DEF PrepareProjections, storeVars
<1>2. runner \in [Runners -> Runner] /\ retiring \subseteq Runners
  BY Zenon DEF IInv, TypeOK
<1>3. ASSUME NEW r \in Runners
      PROVE  /\ runner'[r] \in Runner /\ runner'[r].pc = runner[r].pc /\ runner'[r].mode = runner[r].mode
             /\ runner'[r].offset = runner[r].offset /\ runner'[r].batch = runner[r].batch
  <2>1. PICK s \in BOOLEAN : s = (r \in Handles)
    <3>1. CASE r \in Handles
      <4>1. TRUE \in BOOLEAN /\ TRUE = (r \in Handles)
        BY <3>1, Zenon
      <4>2. QED BY <4>1, Zenon
    <3>2. CASE r \notin Handles
      <4>1. FALSE \in BOOLEAN /\ FALSE = (r \in Handles)
        BY <3>2
      <4>2. QED BY <4>1, Zenon
    <3>3. QED BY <3>1, <3>2, Zenon
  <2>2. runner'[r] = [runner[r] EXCEPT !.stop = s]
    <3>1. runner'[r] = [runner[r] EXCEPT !.stop = r \in Handles]
      BY <1>1, Zenon
    <3>2. QED BY <2>1, <3>1, Zenon
  <2>3. QED BY <1>2, <2>2, ZenonT(60) DEF Runner
<1>4. TypeOK'
  <2>1. runner' \in [Runners -> Runner]
    <3>1. \A r \in Runners : runner'[r] \in Runner
      BY <1>3, Zenon
    <3>2. QED BY <1>1, <3>1, Zenon
  <2>2. QED BY <1>1, <2>1, Zenon DEF IInv, TypeOK
<1>5. FeedInv' /\ RetireInv'
  <2>1. FeedInv'
    BY <1>1, Zenon DEF IInv, FeedInv
  <2>2. RetireInv'
    BY <1>1, <1>2, <1>3, Zenon DEF IInv, RetireInv
  <2>3. QED BY <2>1, <2>2, Zenon
<1>6. \A q, low, high : Between(q, low, high)' = Between(q, low, high)
  BY <1>1, Zenon DEF Between
<1>7. \A r : Registered(db)' = Registered(db) /\ (OffsetOk(r) => OffsetOk(r)')
  BY <1>1, <1>6, ZenonT(60) DEF OffsetOk, Lists, EffectsOf
<1>8. ASSUME NEW r \in Runners PROVE RunnerOk(r)'
  <2>1. RunnerOk(r)
    BY Zenon DEF IInv
  <2>2. BatchOk(r) => BatchOk(r)'
    <3>1. Between(r, runner[r].offset, runner[r].batch.offset)' =
             Between(r, runner[r].offset, runner[r].batch.offset)
      BY <1>1, <1>3, Zenon DEF Between
    <3>2. QED BY <1>1, <1>3, <3>1, Zenon DEF BatchOk
  <2>3. QED BY <1>1, <1>3, <2>1, <2>2, Zenon DEF RunnerOk
<1>9. QED BY <1>4, <1>5, <1>7, <1>8, ZenonT(60) DEF IInv

\* After a crash the file is left, and what handlers have done.
LEMMA CrashInv == ASSUME IInv, Crash PROVE IInv'
<1>1. /\ UNCHANGED <<db, fed, base, delivered>> /\ runner' = [r \in Runners |-> NoRunner]
      /\ retiring' = {} /\ pending' = {}
  BY Zenon DEF Crash, StoreCrash
<1>2. NoRunner \in Runner /\ NoRunner.pc = "none"
  BY RunnerTypes, Zenon
<1>3. TypeOK'
  BY <1>1, <1>2, Zenon DEF IInv, TypeOK
<1>4. FeedInv' /\ RetireInv'
  BY <1>1, Zenon DEF IInv, FeedInv, RetireInv
<1>5. \A q, low, high : Between(q, low, high)' = Between(q, low, high)
  BY <1>1, Zenon DEF Between
<1>6. \A r : Registered(db)' = Registered(db) /\ (OffsetOk(r) => OffsetOk(r)')
  BY <1>1, <1>5, ZenonT(60) DEF OffsetOk, Lists, EffectsOf
<1>7. \A r \in Runners : RunnerOk(r)'
  BY <1>1, <1>2, Zenon DEF RunnerOk
<1>8. QED BY <1>3, <1>4, <1>6, <1>7, Zenon DEF IInv

\* An empty file.
LEMMA InitInv == Init => IInv
<1>1. SUFFICES ASSUME Init PROVE IInv
  BY Zenon
<1>2. /\ db = EmptyTables /\ pending = {} /\ runner = [r \in Runners |-> NoRunner] /\ retiring = {}
      /\ delivered = [r \in Runners |-> {}] /\ base = [r \in Runners |-> 0] /\ fed = <<>>
  BY <1>1, Zenon DEF Init, StoreInit
<1>3. NoRunner \in Runner /\ NoRunner.pc = "none"
  BY RunnerTypes, Zenon
<1>4. /\ db.offsets = <<>> /\ db.effects = <<>> /\ db.changes = {} /\ db.sequence = 0 /\ db.high = 0
      /\ db.compacted = 0 /\ db.operations = [q \in Pids |-> {}] /\ db.state = [q \in Pids |-> Null]
      /\ db = [state |-> db.state, operations |-> db.operations, changes |-> db.changes,
               sequence |-> db.sequence, high |-> db.high, compacted |-> db.compacted,
               offsets |-> db.offsets, effects |-> db.effects]
  BY <1>2, Zenon DEF EmptyTables
<1>5. Registered(db) = {}
  BY <1>4, SMTT(45) DEF Registered
<1>6. TablesOk(db)
  <2>1. db \in Tables(db.offsets, db.effects)
    BY <1>4, SMTT(45) DEF Tables
  <2>2. DOMAIN db.effects = {}
    BY <1>4, SMTT(45)
  <2>3. db.offsets \in [Registered(db) -> Registration] /\ db.effects \in [DOMAIN db.effects -> Seq(Nat)]
    BY <1>4, <1>5, <2>2, SMTT(45)
  <2>4. QED BY <1>5, <2>1, <2>3, ZenonT(60) DEF TablesOk
<1>7. TypeOK
  BY <1>2, <1>3, <1>6, SMTT(45) DEF TypeOK
<1>8. FeedInv
  <2>1. IsFiniteSet(db.changes)
    BY <1>4, FS_EmptySet, Zenon
  <2>2. QED BY <1>2, <1>4, <2>1, SMTT(45) DEF FeedInv
<1>9. RetireInv
  BY <1>2, Zenon DEF RetireInv
<1>10. \A r \in Runners : RunnerOk(r)
  BY <1>2, <1>3, Zenon DEF RunnerOk
<1>11. QED BY <1>5, <1>7, <1>8, <1>9, <1>10, Zenon DEF IInv


\* Every step keeps the invariant.
LEMMA NextInv == IInv /\ [Next]_vars => IInv'
<1>1. SUFFICES ASSUME IInv, [Next]_vars PROVE IInv'
  BY Zenon
<1>2. CASE UNCHANGED vars
  <2>1. UNCHANGED <<db, fed, base, delivered, retiring, pending, runner>>
    BY <1>2, Zenon DEF vars, storeVars
  <2>2. QED BY <1>1, <2>1, FrameInv, Zenon
<1>3. ASSUME NEW r \in Runners, NEW mode \in Modes[r], NEW i \in InitialOffsets, StartRunner(r, mode, i)
      PROVE  IInv'
  BY <1>1, <1>3, StartInv, Zenon
<1>4. ASSUME NEW r \in Runners, RunnerStep(r) \/ RunnerFailure(r) \/ SubmitRetire(r) PROVE IInv'
  <2>1. CASE StopAtHead(r) \/ HandlerFails(r) \/ ApplyRollsBack(r)
    BY <1>1, <2>1, FailsInv, Zenon
  <2>2. CASE AdmitRegister(r) \/ ReserveBatch(r)
    BY <1>1, <2>2, AdmitInv, Zenon
  <2>3. CASE RegisterRuns(r)
    BY <1>1, <2>3, RegisterInv, Zenon
  <2>4. CASE ReadRuns(r)
    BY <1>1, <2>4, ReadInv, Zenon
  <2>5. CASE HandlerSucceeds(r)
    BY <1>1, <2>5, HandlerInv, Zenon
  <2>6. CASE SaveRuns(r)
    BY <1>1, <2>6, SaveInv, Zenon
  <2>7. CASE ApplyBegins(r)
    BY <1>1, <2>7, ApplyBeginsInv, Zenon
  <2>8. CASE ApplyCommits(r)
    BY <1>1, <2>8, ApplyCommitsInv, Zenon
  <2>9. CASE OperationFails(r)
    BY <1>1, <2>9, OperationFailsInv, Zenon
  <2>10. CASE SubmitRetire(r)
    BY <1>1, <2>10, SubmitRetireInv, Zenon
  <2>11. QED BY <1>4, <2>1, <2>2, <2>3, <2>4, <2>5, <2>6, <2>7, <2>8, <2>9, <2>10, ZenonT(60)
             DEF RunnerStep, RunnerFailure
<1>5. ASSUME NEW p \in Pids, Write(p) PROVE IInv'
  BY <1>1, <1>5, WriteInv, Zenon
<1>6. CASE SubmitCompaction
  BY <1>1, <1>6, SubmitCompactionInv, Zenon
<1>7. ASSUME NEW o \in pending, StoreRuns(o) \/ StoreTimesOut(o) \/ StoreCompletes(o) PROVE IInv'
  <2>1. CASE StoreRuns(o)
    <3>1. o.call.kind \in {"compact", "retire"}
      BY <1>1, <1>7, Zenon DEF IInv, TypeOK, Operation, Call
    <3>2. QED BY <1>1, <2>1, <3>1, CompactRuns, RetireRuns, Zenon
  <2>2. CASE StoreTimesOut(o)
    BY <1>1, <2>2, StoreTimesOutInv, Zenon
  <2>3. CASE StoreCompletes(o)
    BY <1>1, <2>3, StoreCompletesInv, Zenon
  <2>4. QED BY <1>7, <2>1, <2>2, <2>3, Zenon
<1>8. CASE PrepareProjections
  BY <1>1, <1>8, PrepareInv, Zenon
<1>9. CASE StopProjections \/ StoreOpens \/ StoreStops
  <2>1. UNCHANGED <<db, fed, base, delivered, retiring, pending, runner>>
    BY <1>9, Zenon DEF StopProjections, StoreOpens, StoreStops, Start, OpenSucceeds,
       PrepareStop,
       StopDrained, StopClosed, storeVars, projectionVars
  <2>2. QED BY <1>1, <2>1, FrameInv, Zenon
<1>10. CASE Crash
  BY <1>1, <1>10, CrashInv, Zenon
<1>11. QED BY <1>1, <1>2, <1>3, <1>4, <1>5, <1>6, <1>7, <1>8, <1>9, <1>10, ZenonT(60) DEF Next

-----------------------------------------------------------------------------
(* The results.                                                            *)

\* The inductive invariant holds of every reachable state.
THEOREM InductiveInvariant == Spec => []IInv
BY InitInv, NextInv, PTL DEF Spec

\* What a projection owes is what lies between its base and its offset.
LEMMA OwedIs ==
    ASSUME NEW r \in Registered(db) PROVE Owed(r, OffsetOf(db, r)) = Between(r, base[r], db.offsets[r].offset)
BY Zenon DEF Owed, OffsetOf, Between

\* Types of the tables, the runners and the pending operations.
THEOREM ProjectionTypeCorrect == Spec => []TypeOK
<1>1. IInv => TypeOK
  BY Zenon DEF IInv
<1>2. QED BY <1>1, InductiveInvariant, PTL

\* At-least-once: a stored offset has passed no change that the handler has
\* not finished.
THEOREM AtLeastOnce == Spec => []NothingSkipped
<1>1. IInv => NothingSkipped
  <2>1. SUFFICES ASSUME IInv, NEW r \in Registered(db), db.offsets[r].source = "at-least-once"
                 PROVE  Owed(r, OffsetOf(db, r)) \subseteq delivered[r]
    BY Zenon DEF NothingSkipped
  <2>2. Between(r, base[r], db.offsets[r].offset) \subseteq delivered[r]
    BY <2>1, Zenon DEF IInv, OffsetOk
  <2>3. QED BY <2>2, OwedIs, Zenon
<1>2. QED BY <1>1, InductiveInvariant, PTL

\* Exactly-once: the effects in the database are those of every change up to
\* the stored offset, once each and in order.
THEOREM ExactlyOnceEffects == Spec => []ExactlyOnce
<1>1. IInv => ExactlyOnce
  <2>1. SUFFICES ASSUME IInv, NEW r \in Registered(db), db.offsets[r].source = "exactly-once"
                 PROVE  Lists(EffectsOf(db, r), Owed(r, OffsetOf(db, r)))
    BY Zenon DEF ExactlyOnce
  <2>2. Lists(EffectsOf(db, r), Between(r, base[r], db.offsets[r].offset))
    BY <2>1, Zenon DEF IInv, OffsetOk
  <2>3. QED BY <2>2, OwedIs, Zenon
<1>2. QED BY <1>1, InductiveInvariant, PTL

\* Compaction never takes a change a registered projection has yet to read,
\* and a runner in its loop is in step with its stored offset.
THEOREM CompactionWaits == Spec => []HistoryIsThere
<1>1. IInv => HistoryIsThere
  <2>1. SUFFICES ASSUME IInv PROVE HistoryIsThere
    BY Zenon
  <2>2. TablesOk(db) /\ FeedInv /\ fed \in Seq(Pids) /\ db.compacted \in Nat
    BY <2>1, Zenon DEF IInv, TypeOK, TablesOk, Tables
  <2>3. ASSUME NEW r \in Registered(db)
        PROVE  /\ ~IsCompacted(db, OffsetOf(db, r))
               /\ \A n \in DOMAIN fed : n > OffsetOf(db, r) => n \in Offsets(db.changes)
    <3>1. PICK off \in Nat : off = db.offsets[r].offset /\ off = OffsetOf(db, r) /\ db.compacted <= off
      <4>1. db.offsets[r].offset \in Nat /\ db.compacted <= db.offsets[r].offset
        BY <2>1, <2>2, Zenon DEF IInv, TablesOk, Registration, OffsetOk
      <4>2. QED BY <4>1, Zenon DEF OffsetOf
    <3>2. ASSUME NEW n \in DOMAIN fed, n > off PROVE n \in Offsets(db.changes)
      <4>1. n > db.compacted
        BY <2>2, <3>1, <3>2, SMTT(45)
      <4>2. QED BY <2>2, <4>1, Zenon DEF FeedInv, Offsets
    <3>3. ~(off < db.compacted)
      BY <2>2, <3>1, SMTT(45)
    <3>4. QED BY <3>1, <3>2, <3>3, Zenon DEF IsCompacted
  <2>4. ASSUME NEW r \in Handles, runner[r].pc \notin {"register", "registering"}
        PROVE  r \in Registered(db) /\ runner[r].offset = OffsetOf(db, r)
    BY <2>1, <2>4, Zenon DEF IInv, RunnerOk, Handles, OffsetOf
  <2>5. QED BY <2>3, <2>4, Zenon DEF HistoryIsThere
<1>2. QED BY <1>1, InductiveInvariant, PTL

\* Whatever is left in the file, the next start accepts it.
THEOREM FileReopens == Spec => []ReopenAccepts
<1>1. IInv => ReopenAccepts
  <2>1. SUFFICES ASSUME IInv PROVE FeedIsValid(db)
    BY Zenon DEF ReopenAccepts
  <2>2. /\ FeedInv /\ fed \in Seq(Pids) /\ db.compacted \in Nat /\ db.changes \subseteq Row
    BY <2>1, Zenon DEF IInv, TypeOK, TablesOk, Tables
  <2>3. PICK k \in Nat : /\ k = Len(fed) /\ k = db.high /\ k = db.sequence /\ DOMAIN fed = 1 .. k
                         /\ db.compacted <= k
    BY <2>2 DEF FeedInv
  <2>4. \A row \in db.changes : row.offset \in Nat /\ db.compacted < row.offset /\ row.offset <= k
    BY <2>2, <2>3, Zenon DEF FeedInv, Row
  <2>5. CASE db.compacted = k
    <3>1. db.changes = {}
      BY <2>4, <2>5
    <3>2. QED BY <2>3, <2>5, <3>1, Zenon DEF FeedIsValid, Highest
  <2>6. CASE db.compacted # k
    <3>1. k \in DOMAIN fed /\ k > db.compacted
      BY <2>2, <2>3, <2>6
    <3>2. PICK row \in db.changes : row.offset = k
      BY <2>2, <3>1, Zenon DEF FeedInv
    <3>3. PICK h : h = Highest(db.changes)
      BY Zenon
    <3>4. h \in Nat /\ h <= k /\ row.offset <= h
      BY <2>4, <3>2, <3>3, HighestIs, ZenonT(60)
    <3>5. h = k
      BY <3>2, <3>4
    <3>6. QED BY <2>3, <2>6, <3>3, <3>5, ZenonT(60) DEF FeedIsValid
  <2>7. QED BY <2>5, <2>6, Zenon
<1>2. QED BY <1>1, InductiveInvariant, PTL
=============================================================================
