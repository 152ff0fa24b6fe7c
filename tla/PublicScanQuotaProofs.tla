----------------------- MODULE PublicScanQuotaProofs -----------------------
(***************************************************************************)
(* Theorems about PublicScanQuota, for every set of clients and every      *)
(* choice of limits and windows that a deployment may make.                *)
(*                                                                         *)
(* The argument is about counting.  What a table counts for somebody is    *)
(* the number of tokens he was granted, and a charge puts both up by the   *)
(* same number; a sweep, a refusal and the clock drop no row that still    *)
(* counts.  So what a decision reads is what was granted.                  *)
(***************************************************************************)
EXTENDS PublicScanQuota, FiniteSetTheorems, SequenceTheorems, TLAPS

\* What one row of a log may be, and what a log may be.
Row == [client : Clients, at : Nat, cost : Costs]

LogOK(log) ==
    /\ log \in Seq(Row)
    /\ \A i, j \in DOMAIN log : i <= j => log[i].at <= log[j].at
    /\ \A i \in DOMAIN log : log[i].at <= now

\* The rows of somebody since a tick.
Since(log, who, start) == {i \in DOMAIN log : log[i].client \in who /\ log[i].at >= start}

\* A log counts for everybody what he was granted.
Matches(log, namespace, window) ==
    \A who \in SUBSET Clients, start \in Int :
        start >= now + 1 - window =>
            Cost(log, Since(log, who, start)) = GrantedSince(namespace, who, start)

-----------------------------------------------------------------------------
(* Numbers and sets.                                                       *)

\* The constants are positive numbers, and a day is a number of minutes.
LEMMA Constants ==
    /\ \A n \in {SECOND, MINUTE, DAY, PER_MINUTE, PER_DAY, GLOBAL_PER_MINUTE, GLOBAL_PER_DAY,
                 AUTH_PER_MINUTE, AUTH_GLOBAL_PER_MINUTE, READ_LIMIT, READ_GLOBAL_LIMIT,
                 ATTEMPT_WINDOW, ATTEMPT_CLIENT_LIMIT, ATTEMPT_GLOBAL_LIMIT, CLEANUP_MAX_ROWS} :
          n \in Nat \ {0}
    /\ MINUTE <= DAY /\ ATTEMPT_WINDOW <= DAY
<1>1. MINUTE \in Nat \ {0} /\ DAY \in Nat \ {0} /\ DAY % MINUTE = 0
  BY QuotaAssumption
<1>2. MINUTE <= DAY
  <2>. SUFFICES ASSUME DAY < MINUTE PROVE FALSE
    BY <1>1
  <2>1. DAY % MINUTE = DAY
    BY <1>1
  <2>. QED
    BY <1>1, <2>1
<1>. QED
  BY <1>1, <1>2, QuotaAssumption

\* Windows of one length cover the time without gaps.
LEMMA WindowOf ==
    ASSUME NEW n \in Nat, NEW d \in Nat \ {0}
    PROVE  /\ n \div d \in Nat
           /\ (n \div d) * d <= n /\ n < (n \div d + 1) * d
BY SMT

\* A later window is a window later.
LEMMA LaterWindow ==
    ASSUME NEW i \in Nat, NEW j \in Nat, NEW d \in Nat \ {0}, i < j
    PROVE  (i + 1) * d <= j * d
BY SMT

\* Time never goes back to an earlier window.
LEMMA TickOfWindow ==
    ASSUME NEW n \in Nat, NEW d \in Nat \ {0}
    PROVE  n \div d <= (n + 1) \div d
BY SMT

\* The smaller of two numbers.
LEMMA MinOfTwo ==
    ASSUME NEW m \in Int, NEW n \in Int
    PROVE  Min({m, n}) \in {m, n} /\ Min({m, n}) <= m /\ Min({m, n}) <= n
<1>1. \E x \in {m, n} : \A y \in {m, n} : x <= y
  BY SMT
<1>2. /\ Min({m, n}) \in {m, n}
      /\ \A y \in {m, n} : Min({m, n}) <= y
  BY <1>1 DEF Min
<1>. QED
  BY <1>2

\* Of n numbers none has n of them before it, so LIMIT n takes them all.
LEMMA FirstRowsAll ==
    ASSUME NEW S \in SUBSET Nat, IsFiniteSet(S), NEW n \in Nat, Cardinality(S) <= n
    PROVE  FirstRows(S, n) = S
<1>1. ASSUME NEW i \in S
      PROVE  Cardinality({j \in S : j < i}) < n
  <2>1. {j \in S : j < i} \in SUBSET (S \ {i})
    OBVIOUS
  <2>2. IsFiniteSet(S \ {i}) /\ Cardinality(S \ {i}) = Cardinality(S) - 1
    BY FS_RemoveElement
  <2>3. /\ Cardinality({j \in S : j < i}) <= Cardinality(S \ {i})
        /\ IsFiniteSet({j \in S : j < i})
    BY <2>1, <2>2, FS_Subset
  <2>4. Cardinality(S) \in Nat /\ Cardinality({j \in S : j < i}) \in Nat
    BY <2>3, FS_CardinalityType
  <2>. QED
    BY <2>2, <2>3, <2>4
<1>. QED
  BY <1>1 DEF FirstRows

\* Of enough numbers one has exactly n of them after it.
LEMMA OneHasAfter ==
    ASSUME NEW S \in SUBSET Nat, IsFiniteSet(S), NEW n \in Nat, n < Cardinality(S)
    PROVE  \E i \in S : Cardinality({j \in S : j > i}) = n
<1> DEFINE after(i) == {j \in S : j > i}
           rank == [i \in S |-> Cardinality(after(i))]
           size == Cardinality(S)
           T == (0..(size - 1)) \ {n}
<1>1. size \in Nat
  BY FS_CardinalityType
<1>2. ASSUME NEW i \in S
      PROVE  /\ IsFiniteSet(after(i)) /\ rank[i] \in Nat
             /\ rank[i] < size
  <2>1. after(i) \in SUBSET (S \ {i})
    OBVIOUS
  <2>2. IsFiniteSet(S \ {i}) /\ Cardinality(S \ {i}) = size - 1
    BY FS_RemoveElement
  <2>3. /\ Cardinality(after(i)) <= Cardinality(S \ {i})
        /\ IsFiniteSet(after(i))
    BY <2>1, <2>2, FS_Subset
  <2>4. Cardinality(after(i)) \in Nat
    BY <2>3, FS_CardinalityType
  <2>5. rank[i] = Cardinality(after(i))
    OBVIOUS
  <2>. HIDE DEF after, rank
  <2>. QED
    BY <1>1, <2>2, <2>3, <2>4, <2>5
<1>3. ASSUME NEW i \in S, NEW k \in S, i < k
      PROVE  rank[k] < rank[i]
  <2>1. after(k) \cup {k} \in SUBSET after(i)
    <3>1. \A j \in after(k) : j \in S /\ j > i
      BY <1>3
    <3>. QED
      BY <1>3, <3>1
  <2>2. k \notin after(k)
    OBVIOUS
  <2>3. Cardinality(after(k) \cup {k}) = Cardinality(after(k)) + 1
    BY <1>2, <2>2, FS_AddElement
  <2>4. Cardinality(after(k) \cup {k}) <= Cardinality(after(i))
    BY <1>2, <2>1, FS_Subset
  <2>5. rank[k] = Cardinality(after(k)) /\ rank[i] = Cardinality(after(i))
    OBVIOUS
  <2>6. rank[k] \in Nat /\ rank[i] \in Nat
    BY <1>2
  <2>. HIDE DEF after, rank
  <2>. QED
    BY <2>3, <2>4, <2>5, <2>6
<1>. SUFFICES ASSUME \A i \in S : rank[i] # n PROVE FALSE
  OBVIOUS
<1>4. rank \in [S -> T]
  <2>1. ASSUME NEW i \in S
        PROVE  rank[i] \in T
    <3>1. rank[i] \in Nat /\ rank[i] < size /\ rank[i] # n
      BY <1>2
    <3>. HIDE DEF rank, size
    <3>. QED
      BY <1>1, <3>1
  <2>. QED
    BY <2>1
<1>. HIDE DEF rank, after
<1>5. IsFiniteSet(T) /\ Cardinality(T) = size - 1
  <2>1. IsFiniteSet(0..(size - 1)) /\ Cardinality(0..(size - 1)) = size
    <3>. HIDE DEF size
    <3>. QED
      BY <1>1, FS_Interval
  <2>2. n \in 0..(size - 1)
    BY <1>1
  <2>. QED
    BY <2>1, <2>2, FS_RemoveElement
<1>6. PICK i, k \in S : i # k /\ rank[i] = rank[k]
  <2>1. Cardinality(T) < Cardinality(S)
    BY <1>1, <1>5
  <2>. HIDE DEF T
  <2>. QED
    BY <1>4, <1>5, <2>1, FS_PigeonHole
<1>7. i < k \/ k < i
  BY <1>6
<1>8. rank[i] \in Nat /\ rank[k] \in Nat
  BY <1>2
<1>9. rank[k] < rank[i] \/ rank[i] < rank[k]
  BY <1>3, <1>7
<1>. QED
  BY <1>6, <1>8, <1>9

\* No place frees only if fewer than the limit are taken.
LEMMA RoomIfNoneFrees ==
    ASSUME NEW log, NEW events \in SUBSET Nat, IsFiniteSet(events), NEW limit \in Nat \ {0}
    PROVE  FreesAt(log, events, limit) = {} <=> Cardinality(events) < limit
<1>1. Cardinality(events) \in Nat /\ limit - 1 \in Nat
  BY FS_CardinalityType
<1>2. ASSUME Cardinality(events) >= limit
      PROVE  FreesAt(log, events, limit) # {}
  <2>1. \E i \in events : Cardinality({j \in events : j > i}) = limit - 1
    BY <1>1, <1>2, OneHasAfter
  <2>. QED
    BY <2>1 DEF FreesAt
<1>3. ASSUME Cardinality(events) < limit, NEW i \in events
      PROVE  Cardinality({j \in events : j > i}) # limit - 1
  <2>1. {j \in events : j > i} \in SUBSET (events \ {i})
    OBVIOUS
  <2>2. IsFiniteSet(events \ {i}) /\ Cardinality(events \ {i}) = Cardinality(events) - 1
    BY FS_RemoveElement
  <2>3. Cardinality({j \in events : j > i}) <= Cardinality(events) - 1
    BY <2>1, <2>2, FS_Subset
  <2>4. IsFiniteSet({j \in events : j > i})
    BY <2>1, <2>2, FS_Subset
  <2>5. Cardinality({j \in events : j > i}) \in Nat
    BY <2>4, FS_CardinalityType
  <2>. QED
    BY <1>1, <1>3, <2>3, <2>5
<1>4. ASSUME Cardinality(events) < limit
      PROVE  FreesAt(log, events, limit) = {}
  BY <1>3, <1>4 DEF FreesAt
<1>. QED
  BY <1>1, <1>2, <1>4

-----------------------------------------------------------------------------
(* Rows and their units.                                                   *)

\* A log is a function on its places.
LEMMA LogTypes ==
    ASSUME NEW log \in Seq(Row)
    PROVE  /\ Len(log) \in Nat /\ DOMAIN log = 1..Len(log)
           /\ IsFiniteSet(DOMAIN log) /\ Cardinality(DOMAIN log) = Len(log)
           /\ \A i \in DOMAIN log : /\ i \in Nat \ {0} /\ log[i] \in Row
                                    /\ log[i].client \in Clients /\ log[i].at \in Nat
                                    /\ log[i].cost \in Costs
<1>1. Len(log) \in Nat /\ DOMAIN log = 1..Len(log)
  BY LenProperties
<1>2. IsFiniteSet(1..Len(log)) /\ Cardinality(1..Len(log)) = Len(log)
  BY <1>1, FS_Interval
<1>3. ASSUME NEW i \in DOMAIN log
      PROVE  i \in Nat \ {0} /\ log[i] \in Row
  BY <1>1, ElementOfSeq
<1>. QED
  BY <1>1, <1>2, <1>3 DEF Row

\* Rows have at least as many units as they are, and more rows have more.
LEMMA UnitsOfRows ==
    ASSUME NEW log \in Seq(Row), NEW rows \in SUBSET DOMAIN log
    PROVE  /\ IsFiniteSet(rows) /\ Cardinality(rows) \in Nat
           /\ IsFiniteSet(Units(log, rows)) /\ Cost(log, rows) \in Nat
           /\ Cardinality(rows) <= Cost(log, rows)
           /\ (\A i \in rows : log[i].cost = 1) => Cost(log, rows) = Cardinality(rows)
           /\ \A few \in SUBSET rows : Cost(log, few) <= Cost(log, rows)
<1>1. IsFiniteSet(rows) /\ Cardinality(rows) \in Nat
  BY LogTypes, FS_Subset, FS_CardinalityType
<1>2. IsFiniteSet(Costs) /\ IsFiniteSet({1}) /\ Cardinality({1}) = 1
  <2>1. Costs = {1} \cup {2}
    BY DEF Costs
  <2>. QED
    BY <2>1, FS_Singleton, FS_AddElement
<1>3. IsFiniteSet(rows \X Costs) /\ IsFiniteSet(rows \X {1}) /\ Cardinality(rows \X {1}) = Cardinality(rows)
  <2>1. IsFiniteSet(rows \X {1}) /\ Cardinality(rows \X {1}) = Cardinality(rows) * 1
    BY <1>1, <1>2, FS_Product
  <2>. QED
    BY <1>1, <1>2, <2>1, FS_Product
<1>4. Units(log, rows) \in SUBSET (rows \X Costs)
  BY DEF Units
<1>5. IsFiniteSet(Units(log, rows)) /\ Cost(log, rows) \in Nat
  BY <1>3, <1>4, FS_Subset, FS_CardinalityType DEF Cost
<1>6. rows \X {1} \in SUBSET Units(log, rows)
  <2>1. \A i \in rows : 1 <= log[i].cost
    BY LogTypes DEF Costs
  <2>2. \A u \in rows \X {1} : u \in rows \X Costs /\ u[2] <= log[u[1]].cost
    BY <2>1 DEF Costs
  <2>. QED
    BY <2>2 DEF Units
<1>7. Cardinality(rows) <= Cost(log, rows)
  BY <1>3, <1>5, <1>6, FS_Subset DEF Cost
<1>8. ASSUME \A i \in rows : log[i].cost = 1
      PROVE  Cost(log, rows) = Cardinality(rows)
  <2>1. \A u \in Units(log, rows) : u \in rows \X {1}
    BY <1>8 DEF Units, Costs
  <2>2. Units(log, rows) = rows \X {1}
    BY <1>6, <2>1
  <2>. QED
    BY <1>3, <2>2 DEF Cost
<1>9. ASSUME NEW few \in SUBSET rows
      PROVE  Cost(log, few) <= Cost(log, rows)
  <2>1. Units(log, few) \in SUBSET Units(log, rows)
    BY DEF Units
  <2>. QED
    BY <1>5, <2>1, FS_Subset DEF Cost
<1>. QED
  BY <1>1, <1>5, <1>7, <1>8, <1>9

\* A charge that is put down adds its cost.
LEMMA AppendedCost ==
    ASSUME NEW log \in Seq(Row), NEW row \in Row
    PROVE  LET new == Append(log, row)
               last == Len(log) + 1
           IN  /\ new \in Seq(Row) /\ Len(new) = last /\ new[last] = row
               /\ DOMAIN new = DOMAIN log \cup {last} /\ last \notin DOMAIN log
               /\ \A i \in DOMAIN log : new[i] = log[i]
               /\ \A rows \in SUBSET DOMAIN log :
                     /\ Cost(new, rows) = Cost(log, rows)
                     /\ Cost(new, rows \cup {last}) = Cost(log, rows) + row.cost
<1> DEFINE new == Append(log, row)
           last == Len(log) + 1
<1>1. Len(log) \in Nat /\ DOMAIN log = 1..Len(log)
  BY LogTypes
<1>2. /\ new \in Seq(Row) /\ Len(new) = last /\ new[last] = row
      /\ \A i \in 1..Len(log) : new[i] = log[i]
  BY <1>1
<1>3. DOMAIN new = 1..last
  BY <1>2, LogTypes
<1>4. DOMAIN new = DOMAIN log \cup {last} /\ last \notin DOMAIN log
  BY <1>1, <1>3
<1>. HIDE DEF new, last
<1>5. ASSUME NEW rows \in SUBSET DOMAIN log
      PROVE  /\ Cost(new, rows) = Cost(log, rows)
             /\ Cost(new, rows \cup {last}) = Cost(log, rows) + row.cost
  <2>1. Units(new, rows) = Units(log, rows)
    <3>1. \A i \in rows : new[i] = log[i]
      BY <1>1, <1>2
    <3>. QED
      BY <3>1 DEF Units
  <2>2. IsFiniteSet(Units(log, rows)) /\ Cost(log, rows) \in Nat
    BY UnitsOfRows
  <2>3. <<last, 1>> \notin Units(log, rows) /\ <<last, 2>> \notin Units(log, rows)
    BY <1>4 DEF Units
  <2>4. CASE row.cost = 1
    <3>1. Units(new, rows \cup {last}) = Units(new, rows) \cup {<<last, 1>>}
      BY <1>2, <2>4 DEF Units, Costs
    <3>2. Cardinality(Units(log, rows) \cup {<<last, 1>>}) = Cost(log, rows) + 1
      BY <2>2, <2>3, FS_AddElement DEF Cost
    <3>3. Cost(new, rows \cup {last}) = Cost(log, rows) + 1
      BY <2>1, <3>1, <3>2 DEF Cost
    <3>4. Cost(new, rows) = Cost(log, rows)
      BY <2>1 DEF Cost
    <3>. QED
      BY <2>4, <3>3, <3>4
  <2>5. CASE row.cost = 2
    <3>1. Units(new, rows \cup {last}) = (Units(new, rows) \cup {<<last, 1>>}) \cup {<<last, 2>>}
      BY <1>2, <2>5 DEF Units, Costs
    <3>2. /\ IsFiniteSet(Units(log, rows) \cup {<<last, 1>>})
          /\ Cardinality(Units(log, rows) \cup {<<last, 1>>}) = Cost(log, rows) + 1
      BY <2>2, <2>3, FS_AddElement DEF Cost
    <3>3. <<last, 2>> \notin Units(log, rows) \cup {<<last, 1>>}
      BY <2>3
    <3> DEFINE one == Units(log, rows) \cup {<<last, 1>>}
               two == one \cup {<<last, 2>>}
    <3>4. Cardinality(two) = Cardinality(one) + 1
      <4>. HIDE DEF one
      <4>. QED
        BY <3>2, <3>3, FS_AddElement DEF one
    <3>5. Cost(new, rows \cup {last}) = Cardinality(two)
      BY <2>1, <3>1 DEF Cost
    <3>6. Cardinality(one) = Cost(log, rows) + 1
      BY <3>2
    <3>. HIDE DEF one, two
    <3>. QED
      BY <2>1, <2>2, <2>5, <3>4, <3>5, <3>6 DEF Cost
  <2>. QED
    BY <2>1, <2>4, <2>5 DEF Row, Costs, Cost
<1>. QED
  BY <1>2, <1>4, <1>5, <1>1 DEF new, last

\* Rows cost what they cost wherever they stand in the log.
LEMMA ShiftedCost ==
    ASSUME NEW log \in Seq(Row), NEW k \in 0..Len(log), NEW rows \in SUBSET ((k + 1)..Len(log))
    PROVE  LET kept == SubSeq(log, k + 1, Len(log))
           IN  /\ kept \in Seq(Row) /\ Len(kept) = Len(log) - k
               /\ \A i \in DOMAIN kept : i + k \in DOMAIN log /\ kept[i] = log[i + k]
               /\ Cost(kept, {i \in DOMAIN kept : i + k \in rows}) = Cost(log, rows)
<1> DEFINE kept == SubSeq(log, k + 1, Len(log))
           here == {i \in DOMAIN kept : i + k \in rows}
           f == [u \in Units(kept, here) |-> <<u[1] + k, u[2]>>]
<1>1. Len(log) \in Nat /\ DOMAIN log = 1..Len(log) /\ k \in Nat
  BY LogTypes
<1>2. kept \in Seq(Row) /\ Len(kept) = Len(log) - k
  <2>1. \A i \in (k + 1)..Len(log) : log[i] \in Row
    BY <1>1, LogTypes
  <2>2. k + 1 \in Int /\ Len(log) \in Int
    BY <1>1
  <2>3. /\ kept \in Seq(Row)
        /\ Len(kept) = IF k + 1 <= Len(log) THEN Len(log) - (k + 1) + 1 ELSE 0
    BY <2>1, <2>2, SubSeqProperties
  <2>. HIDE DEF kept
  <2>4. PICK n \in Nat : n = Len(log)
    BY <1>1
  <2>5. k \in 0..n /\ Len(kept) = IF k + 1 <= n THEN n - (k + 1) + 1 ELSE 0
    BY <2>3, <2>4
  <2>6. (IF k + 1 <= n THEN n - (k + 1) + 1 ELSE 0) = n - k
    BY <2>4, <2>5
  <2>. QED
    BY <2>3, <2>4, <2>5, <2>6
<1>3. DOMAIN kept = 1..(Len(log) - k)
  BY <1>2, LogTypes
<1>4. \A i \in DOMAIN kept : i + k \in DOMAIN log /\ kept[i] = log[i + k]
  BY <1>1, <1>3 DEF kept
<1>. HIDE DEF kept
<1>5. here \in SUBSET DOMAIN kept /\ rows \in SUBSET DOMAIN log
  BY <1>1
<1>6. IsFiniteSet(Units(kept, here))
  BY <1>2, <1>5, UnitsOfRows
<1>7. f \in Bijection(Units(kept, here), Units(log, rows))
  <2>1. \A u \in Units(kept, here) : f[u] \in Units(log, rows)
    BY <1>4 DEF Units
  <2>2. \A u, v \in Units(kept, here) : f[u] = f[v] => u = v
    BY <1>1, <1>3 DEF Units
  <2>3. ASSUME NEW v \in Units(log, rows)
        PROVE  \E u \in Units(kept, here) : f[u] = v
    <3> DEFINE u == <<v[1] - k, v[2]>>
    <3>1. v[1] \in rows /\ v[2] \in Costs /\ v[2] <= log[v[1]].cost /\ v = <<v[1], v[2]>>
      BY DEF Units
    <3>2. v[1] - k \in DOMAIN kept /\ (v[1] - k) + k = v[1]
      BY <1>1, <1>3, <3>1
    <3>3. kept[v[1] - k] = log[v[1]]
      BY <1>4, <3>2
    <3>4. u \in Units(kept, here)
      BY <3>1, <3>2, <3>3 DEF Units
    <3>5. f[u] = v
      BY <3>1, <3>2, <3>4
    <3>. QED
      BY <3>4, <3>5
  <2>. HIDE DEF f
  <2>4. f \in [Units(kept, here) -> Units(log, rows)]
    BY <2>1 DEF f
  <2>. QED
    BY <2>2, <2>3, <2>4 DEF Bijection, Injection, Surjection, IsInjective
<1>8. Cardinality(Units(log, rows)) = Cardinality(Units(kept, here))
  BY <1>6, <1>7, FS_Bijection DEF ExistsBijection
<1>. QED
  BY <1>2, <1>4, <1>8 DEF kept, Cost
\* A sweep drops a first part of a log, and only rows that have left the window; it drops
\* one if there is one.
LEMMA CleanedLogs ==
    ASSUME NEW log, LogOK(log), now \in Nat, NEW window \in Nat \ {0}, NEW batch \in Nat \ {0}
    PROVE  LET kept == CleanedLog(log, window, batch, now)
           IN  /\ LogOK(kept)
               /\ Len(kept) <= Len(log)
               /\ Len(kept) < Len(log) \/ LiveCharges(kept, window, now) = DOMAIN kept
               /\ (\A i \in DOMAIN log : log[i].cost = 1) => \A i \in DOMAIN kept : kept[i].cost = 1
               /\ \A who : \A start \in Int :
                    start >= now + 1 - window =>
                        Cost(kept, Since(kept, who, start)) = Cost(log, Since(log, who, start))
<1> DEFINE expired == DOMAIN log \ LiveCharges(log, window, now)
           size == Cardinality(expired)
           k == Min({batch, size})
           kept == SubSeq(log, k + 1, Len(log))
<1>1. /\ log \in Seq(Row) /\ Len(log) \in Nat /\ DOMAIN log = 1..Len(log)
      /\ \A i \in DOMAIN log : i \in Nat \ {0} /\ log[i].at \in Nat
  BY LogTypes DEF LogOK
<1>2. IsFiniteSet(expired) /\ size \in Nat /\ size <= Len(log)
  <2>1. IsFiniteSet(DOMAIN log) /\ Cardinality(DOMAIN log) = Len(log)
    BY <1>1, LogTypes
  <2>2. expired \in SUBSET DOMAIN log
    OBVIOUS
  <2>. QED
    BY <2>1, <2>2, FS_Subset, FS_CardinalityType
<1>3. \A i \in DOMAIN log : i \in expired <=> log[i].at + window <= now
  BY <1>1 DEF LiveCharges
<1>4. expired = 1..size
  <2>. HIDE DEF expired
  <2>1. ASSUME NEW i \in expired
        PROVE  i \in 1..size
    <3>1. i \in DOMAIN log /\ i \in Nat \ {0}
      BY <1>1 DEF expired
    <3>2. ASSUME NEW j \in 1..i
          PROVE  j \in expired
      <4>1. j \in DOMAIN log /\ j <= i
        BY <1>1, <3>1
      <4>2. log[j].at <= log[i].at
        BY <3>1, <4>1 DEF LogOK
      <4>. QED
        BY <1>1, <1>3, <3>1, <4>1, <4>2
    <3>3. 1..i \in SUBSET expired
      BY <3>2
    <3>4. Cardinality(1..i) <= size
      BY <1>2, <3>3, FS_Subset
    <3>5. Cardinality(1..i) = i
      BY <3>1, FS_Interval
    <3>. QED
      BY <1>2, <3>1, <3>4, <3>5
  <2>2. expired \in SUBSET (1..size)
    BY <2>1
  <2>3. IsFiniteSet(1..size) /\ Cardinality(1..size) = size
    BY <1>2, FS_Interval
  <2>. QED
    BY <2>2, <2>3, FS_Subset
<1>5. k \in 0..Len(log) /\ k <= size /\ (k = size \/ k >= 1)
  <2>. HIDE DEF size
  <2>1. k \in {batch, size} /\ k <= batch /\ k <= size
    <3>1. batch \in Int /\ size \in Int
      BY <1>2
    <3>. QED
      BY <3>1, MinOfTwo
  <2>. HIDE DEF k
  <2>. QED
    BY <1>1, <1>2, <2>1
<1>6. CleanedLog(log, window, batch, now) = kept
  BY DEF CleanedLog
<1>. HIDE DEF expired, size, k
<1>7. /\ kept \in Seq(Row) /\ Len(kept) = Len(log) - k
      /\ \A i \in DOMAIN kept : i + k \in DOMAIN log /\ kept[i] = log[i + k]
  <2>1. {} \in SUBSET ((k + 1)..Len(log))
    OBVIOUS
  <2>. QED
    BY <1>1, <1>5, <2>1, ShiftedCost
<1>8. /\ DOMAIN kept = 1..(Len(log) - k)
      /\ \A i \in DOMAIN kept : i \in Nat \ {0}
  BY <1>7, LogTypes
<1>9. LogOK(kept)
  <2>. HIDE DEF kept
  <2>1. \A i, j \in DOMAIN kept : i <= j => kept[i].at <= kept[j].at
    BY <1>5, <1>7, <1>8 DEF LogOK
  <2>. QED
    BY <1>7, <2>1 DEF LogOK
<1>10. Len(kept) <= Len(log)
  <2>. HIDE DEF kept
  <2>. QED
    BY <1>1, <1>5, <1>7
<1>11. Len(kept) < Len(log) \/ LiveCharges(kept, window, now) = DOMAIN kept
  <2>. HIDE DEF kept
  <2>1. CASE k >= 1
    BY <1>1, <1>5, <1>7, <2>1
  <2>2. CASE k = size
    <3>1. ASSUME NEW i \in DOMAIN kept
          PROVE  kept[i].at + window > now
      <4>1. i + k \in DOMAIN log /\ i + k \notin 1..size
        BY <1>5, <1>7, <1>8, <1>2, <2>2
      <4>. QED
        BY <1>1, <1>3, <1>4, <1>7, <4>1
    <3>. QED
      BY <3>1 DEF LiveCharges
  <2>. QED
    BY <1>5, <2>1, <2>2
<1>12. ASSUME NEW who, NEW start \in Int, start >= now + 1 - window
       PROVE  Cost(kept, Since(kept, who, start)) = Cost(log, Since(log, who, start))
  <2> DEFINE rows == Since(log, who, start)
  <2>1. rows \in SUBSET ((k + 1)..Len(log))
    <3>1. ASSUME NEW i \in rows
          PROVE  i \in (k + 1)..Len(log)
      <4>1. i \in DOMAIN log /\ log[i].at >= start
        BY DEF Since
      <4>2. i \notin 1..size
        BY <1>1, <1>3, <1>4, <1>12, <4>1
      <4>. QED
        BY <1>1, <1>2, <1>5, <4>1, <4>2
    <3>. QED
      BY <3>1
  <2>2. Cost(kept, {i \in DOMAIN kept : i + k \in rows}) = Cost(log, rows)
    <3>. HIDE DEF rows
    <3>. QED
      BY <1>1, <1>5, <2>1, ShiftedCost
  <2>3. {i \in DOMAIN kept : i + k \in rows} = Since(kept, who, start)
    <3>. HIDE DEF kept
    <3>. QED
      BY <1>7 DEF Since
  <2>. QED
    BY <2>2, <2>3
<1>13. (\A i \in DOMAIN log : log[i].cost = 1) => \A i \in DOMAIN kept : kept[i].cost = 1
  <2>. HIDE DEF kept
  <2>. QED
    BY <1>7
<1>. HIDE DEF kept
<1>. QED
  BY <1>6, <1>9, <1>10, <1>11, <1>12, <1>13

-----------------------------------------------------------------------------
(* Tokens.                                                                 *)

Twins(namespace, client, at) ==
    {g \in granted : <<g.namespace, g.client, g.at>> = <<namespace, client, at>>}

\* The tokens of one client, namespace and tick are numbered from one.
TokenOK(g) ==
    /\ g = Token(g.namespace, g.client, g.at, g.nth)
    /\ g.client \in Clients /\ g.at \in Nat /\ g.at <= now
    /\ g.nth \in Nat /\ g.nth <= Cardinality(Twins(g.namespace, g.client, g.at))

TokensOK == IsFiniteSet(granted) /\ \A g \in granted : TokenOK(g)

\* Tokens that somebody was granted since a tick.
TokensSince(namespace, who, start) ==
    {g \in granted : g.namespace = namespace /\ g.client \in who /\ g.at >= start}

\* Those are finitely many, more since an earlier tick and for more clients.
LEMMA TokenCounts ==
    ASSUME TokensOK, NEW namespace, NEW who, NEW start
    PROVE  /\ IsFiniteSet(TokensSince(namespace, who, start))
           /\ GrantedSince(namespace, who, start) = Cardinality(TokensSince(namespace, who, start))
           /\ GrantedSince(namespace, who, start) \in Nat
           /\ \A few, later : TokensSince(namespace, few, later) \in SUBSET TokensSince(namespace, who, start) =>
                GrantedSince(namespace, few, later) <= GrantedSince(namespace, who, start)
<1>1. \A w, s : GrantedSince(namespace, w, s) = Cardinality(TokensSince(namespace, w, s))
  BY DEF GrantedSince, TokensSince
<1>2. \A w, s : IsFiniteSet(TokensSince(namespace, w, s))
  <2>1. \A w, s : TokensSince(namespace, w, s) \in SUBSET granted
    BY DEF TokensSince
  <2>. QED
    BY <2>1, FS_Subset DEF TokensOK
<1>3. GrantedSince(namespace, who, start) \in Nat
  BY <1>1, <1>2, FS_CardinalityType
<1>4. ASSUME NEW few, NEW later, TokensSince(namespace, few, later) \in SUBSET TokensSince(namespace, who, start)
      PROVE  GrantedSince(namespace, few, later) <= GrantedSince(namespace, who, start)
  BY <1>1, <1>2, <1>4, FS_Subset
<1>. QED
  BY <1>1, <1>2, <1>3, <1>4

\* A grant adds as many tokens as it costs, for its client and at its tick.
LEMMA GrantAdds ==
    ASSUME TokensOK, NEW namespace, NEW client \in Clients, NEW cost \in Costs, NEW at \in Nat,
           at <= now, now' = now, Grant(namespace, client, cost, at)
    PROVE  /\ TokensOK'
           /\ \A ns, who, start :
                GrantedSince(ns, who, start)' =
                    GrantedSince(ns, who, start)
                      + IF ns = namespace /\ client \in who /\ at >= start THEN cost ELSE 0
<1> DEFINE n == Cardinality(Twins(namespace, client, at))
           one == Token(namespace, client, at, n + 1)
           two == Token(namespace, client, at, n + 2)
           new == {Token(namespace, client, at, n + i) : i \in 1..cost}
<1>1. n \in Nat /\ IsFiniteSet(Twins(namespace, client, at))
  <2>1. Twins(namespace, client, at) \in SUBSET granted
    BY DEF Twins
  <2>. QED
    BY <2>1, FS_Subset, FS_CardinalityType DEF TokensOK
<1>2. granted' = granted \cup new
  BY DEF Grant, Twins
<1>. HIDE DEF n
<1>3. \A t \in new : /\ t.namespace = namespace /\ t.client = client /\ t.at = at
                     /\ t.nth \in Nat /\ t.nth > n /\ t.nth <= n + cost
                     /\ t = Token(t.namespace, t.client, t.at, t.nth)
  BY <1>1 DEF Token, Costs
<1>4. \A t \in new : t \notin granted
  <2>. SUFFICES ASSUME NEW t \in new, t \in granted PROVE FALSE
    OBVIOUS
  <2>1. t.nth <= Cardinality(Twins(t.namespace, t.client, t.at))
    BY DEF TokensOK, TokenOK
  <2>2. t.nth <= n
    BY <1>3, <2>1 DEF n
  <2>. QED
    BY <1>1, <1>3, <2>2
<1>5. \/ cost = 1 /\ new = {one}
      \/ cost = 2 /\ new = {one} \cup {two} /\ one # two
  <2>1. CASE cost = 1
    <3>1. 1..cost = {1}
      BY <2>1
    <3>. QED
      BY <2>1, <3>1
  <2>2. CASE cost = 2
    <3>1. 1..cost = {1, 2}
      BY <2>2
    <3>2. one # two
      BY <1>1 DEF Token
    <3>. QED
      BY <2>2, <3>1, <3>2
  <2>. QED
    BY <2>1, <2>2 DEF Costs
<1>. HIDE DEF new, one, two
<1>6. ASSUME NEW S \in SUBSET granted
      PROVE  IsFiniteSet(S) /\ IsFiniteSet(S \cup new) /\ Cardinality(S \cup new) = Cardinality(S) + cost
  <2>1. IsFiniteSet(S) /\ Cardinality(S) \in Nat
    BY FS_Subset, FS_CardinalityType DEF TokensOK
  <2>2. CASE cost = 1 /\ new = {one}
    <3>1. one \notin S
      BY <1>4, <2>2
    <3>. QED
      BY <2>1, <2>2, <3>1, FS_AddElement
  <2>3. CASE cost = 2 /\ new = {one} \cup {two} /\ one # two
    <3> DEFINE U == S \cup {one}
    <3>1. one \notin S /\ two \notin U
      BY <1>4, <2>3
    <3>2. IsFiniteSet(U) /\ Cardinality(U) = Cardinality(S) + 1
      BY <2>1, <3>1, FS_AddElement
    <3>3. S \cup new = U \cup {two}
      BY <2>3
    <3>. HIDE DEF U
    <3>4. IsFiniteSet(U \cup {two}) /\ Cardinality(U \cup {two}) = Cardinality(U) + 1
      BY <3>1, <3>2, FS_AddElement
    <3>. QED
      BY <2>1, <2>3, <3>2, <3>3, <3>4
  <2>. QED
    BY <1>5, <2>2, <2>3
<1>7. ASSUME NEW ns, NEW who, NEW start
      PROVE  GrantedSince(ns, who, start)' =
                GrantedSince(ns, who, start)
                  + IF ns = namespace /\ client \in who /\ at >= start THEN cost ELSE 0
  <2> DEFINE S == TokensSince(ns, who, start)
  <2>1. GrantedSince(ns, who, start) = Cardinality(S) /\ GrantedSince(ns, who, start)' = Cardinality(S')
    BY DEF GrantedSince, TokensSince
  <2>2. S \in SUBSET granted /\ Cardinality(S) \in Nat
    BY FS_Subset, FS_CardinalityType DEF TokensOK, TokensSince
  <2>3. CASE ns = namespace /\ client \in who /\ at >= start
    <3>1. S' = S \cup new
      BY <1>2, <1>3, <2>3 DEF TokensSince
    <3>. HIDE DEF S
    <3>. QED
      BY <1>6, <2>1, <2>2, <2>3, <3>1
  <2>4. CASE ~(ns = namespace /\ client \in who /\ at >= start)
    <3>1. S' = S
      BY <1>2, <1>3, <2>4 DEF TokensSince
    <3>. HIDE DEF S
    <3>. QED
      BY <2>1, <2>2, <2>4, <3>1
  <2>. QED
    BY <2>3, <2>4
<1>8. TokensOK'
  <2>1. IsFiniteSet(granted')
    BY <1>2, <1>6
  <2>2. Cardinality(Twins(namespace, client, at)') = n + cost
    <3>1. Twins(namespace, client, at)' = Twins(namespace, client, at) \cup new
      BY <1>2, <1>3 DEF Twins
    <3>2. Twins(namespace, client, at) \in SUBSET granted
      BY DEF Twins
    <3>. QED
      BY <1>6, <3>1, <3>2 DEF n
  <2>3. ASSUME NEW g \in new
        PROVE  TokenOK(g)'
    <3>1. Twins(g.namespace, g.client, g.at)' = Twins(namespace, client, at)'
      BY <1>3
    <3>. QED
      BY <1>3, <2>2, <3>1 DEF TokenOK
  <2>4. ASSUME NEW g \in granted
        PROVE  TokenOK(g)'
    <3>1. TokenOK(g)
      BY DEF TokensOK
    <3>2. CASE <<g.namespace, g.client, g.at>> = <<namespace, client, at>>
      <4>1. Twins(g.namespace, g.client, g.at)' = Twins(namespace, client, at)'
        BY <3>2
      <4>2. g.nth <= n
        BY <3>1, <3>2 DEF TokenOK, n
      <4>. QED
        BY <1>1, <2>2, <3>1, <4>1, <4>2 DEF TokenOK, Costs
    <3>3. CASE <<g.namespace, g.client, g.at>> # <<namespace, client, at>>
      <4>1. Twins(g.namespace, g.client, g.at)' = Twins(g.namespace, g.client, g.at)
        BY <1>2, <1>3, <3>3 DEF Twins
      <4>. QED
        BY <3>1, <4>1 DEF TokenOK
    <3>. QED
      BY <3>2, <3>3
  <2>. QED
    BY <1>2, <2>1, <2>3, <2>4 DEF TokensOK
<1>. QED
  BY <1>7, <1>8
-----------------------------------------------------------------------------
(* The rolling logs.                                                       *)

\* What was granted in the window that ends now.
Lately(namespace, who, window) == GrantedSince(namespace, who, now + 1 - window)

\* A log counts what was granted, and stays within its ceilings.
LogInv(log, namespace, window, limit, own) ==
    /\ LogOK(log) /\ Matches(log, namespace, window)
    /\ Len(log) <= limit
    /\ Lately(namespace, Clients, window) <= limit
    /\ \A c \in Clients : Lately(namespace, {c}, window) <= own

\* A sweep keeps that.
LEMMA SweptLog ==
    ASSUME now \in Nat, NEW log, NEW namespace, NEW window \in Nat \ {0}, NEW limit \in Nat, NEW own,
           LogInv(log, namespace, window, limit, own), NEW batch \in Nat \ {0}
    PROVE  LogInv(CleanedLog(log, window, batch, now), namespace, window, limit, own)
<1> DEFINE kept == CleanedLog(log, window, batch, now)
<1>1. LogOK(log)
  BY DEF LogInv
<1>2. /\ LogOK(kept) /\ Len(kept) <= Len(log)
      /\ \A who : \A start \in Int :
           start >= now + 1 - window =>
               Cost(kept, Since(kept, who, start)) = Cost(log, Since(log, who, start))
  BY <1>1, CleanedLogs
<1>3. Len(kept) \in Nat /\ Len(log) \in Nat
  BY <1>1, <1>2, LogTypes DEF LogOK
<1>. HIDE DEF kept
<1>4. Matches(kept, namespace, window)
  BY <1>2 DEF LogInv, Matches
<1>5. Len(kept) <= limit
  BY <1>2, <1>3 DEF LogInv
<1>. QED
  BY <1>2, <1>4, <1>5 DEF LogInv, kept

\* The rows that count are those since the window began.
LEMMA LiveIsSince ==
    ASSUME now \in Nat, NEW log, LogOK(log), NEW window \in Nat
    PROVE  /\ LiveCharges(log, window, now) = Since(log, Clients, now + 1 - window)
           /\ \A c \in Clients :
                ChargesOf(log, LiveCharges(log, window, now), c) = Since(log, {c}, now + 1 - window)
           /\ \A who, start : Since(log, who, start) \in SUBSET DOMAIN log
<1>1. \A i \in DOMAIN log : log[i].client \in Clients /\ log[i].at \in Nat
  BY LogTypes DEF LogOK
<1>2. \A i \in DOMAIN log : log[i].at + window > now <=> log[i].at >= now + 1 - window
  BY <1>1
<1>. QED
  BY <1>1, <1>2 DEF LiveCharges, ChargesOf, Since

\* What a decision about a client reads is what was granted, and LIMIT leaves nothing out.
ReadsGrants(log, namespace, window, limit, own, c) ==
    LET live == LiveCharges(log, window, now)
        his  == ChargesOf(log, live, c)
    IN  /\ live \in SUBSET DOMAIN log /\ his \in SUBSET DOMAIN log
        /\ Cost(log, live) = Lately(namespace, Clients, window)
        /\ Cost(log, his) = Lately(namespace, {c}, window)
        /\ Cost(log, live) \in Nat /\ Cost(log, his) \in Nat
        /\ Cardinality(live) <= Cost(log, live)
        /\ FirstRows(live, limit + 1) = live
        /\ FirstRows(his, own + 1) = his

LEMMA LogIsRead ==
    ASSUME now \in Nat, NEW log, NEW namespace, NEW window \in Nat \ {0}, NEW limit \in Nat, NEW own \in Nat,
           LogInv(log, namespace, window, limit, own), NEW c \in Clients
    PROVE  ReadsGrants(log, namespace, window, limit, own, c)
<1> DEFINE live == LiveCharges(log, window, now)
           his  == ChargesOf(log, live, c)
<1>1. LogOK(log) /\ log \in Seq(Row)
  BY DEF LogInv, LogOK
<1>2. /\ live = Since(log, Clients, now + 1 - window)
      /\ his = Since(log, {c}, now + 1 - window)
      /\ live \in SUBSET DOMAIN log /\ his \in SUBSET DOMAIN log
  <2>1. /\ live = Since(log, Clients, now + 1 - window)
        /\ \A x \in Clients : ChargesOf(log, live, x) = Since(log, {x}, now + 1 - window)
        /\ \A who, start : Since(log, who, start) \in SUBSET DOMAIN log
    BY <1>1, LiveIsSince
  <2>. HIDE DEF live
  <2>2. his = Since(log, {c}, now + 1 - window)
    BY <2>1
  <2>. QED
    BY <2>1, <2>2
<1>. HIDE DEF live, his
<1>3. /\ Cost(log, live) = Lately(namespace, Clients, window)
      /\ Cost(log, his) = Lately(namespace, {c}, window)
  <2>1. Clients \in SUBSET Clients /\ {c} \in SUBSET Clients /\ now + 1 - window \in Int
        /\ now + 1 - window >= now + 1 - window
    OBVIOUS
  <2>. QED
    BY <1>2, <2>1 DEF LogInv, Matches, Lately
<1>4. ASSUME NEW rows \in {live, his}
      PROVE  /\ IsFiniteSet(rows) /\ rows \in SUBSET Nat /\ Cardinality(rows) \in Nat
             /\ Cost(log, rows) \in Nat /\ Cardinality(rows) <= Cost(log, rows)
  <2>1. rows \in SUBSET DOMAIN log
    BY <1>2
  <2>2. DOMAIN log \in SUBSET Nat
    BY <1>1, LogTypes
  <2>. QED
    BY <1>1, <2>1, <2>2, UnitsOfRows
<1>5. Cardinality(live) <= limit + 1 /\ Cardinality(his) <= own + 1
  BY <1>3, <1>4 DEF LogInv
<1>6. FirstRows(live, limit + 1) = live /\ FirstRows(his, own + 1) = his
  BY <1>4, <1>5, FirstRowsAll
<1>. QED
  BY <1>2, <1>3, <1>4, <1>6 DEF live, his, ReadsGrants

\* A charge that fits keeps it.
LEMMA ChargedLog ==
    ASSUME now \in Nat, TokensOK, NEW log, NEW namespace, NEW window \in Nat \ {0}, NEW batch \in Nat \ {0},
           NEW limit \in Nat, NEW own \in Nat, LogInv(log, namespace, window, limit, own),
           NEW client \in Clients, NEW cost \in Costs, NEW new,
           new = Append(CleanedLog(log, window, batch, now), Charge(client, cost)),
           now' = now, Grant(namespace, client, cost, now),
           Lately(namespace, Clients, window) + cost <= limit,
           Lately(namespace, {client}, window) + cost <= own
    PROVE  LogInv(new, namespace, window, limit, own)'
<1> DEFINE kept == CleanedLog(log, window, batch, now)
           last == Len(kept) + 1
           row == Charge(client, cost)
<1>1. LogOK(log) /\ LogInv(kept, namespace, window, limit, own)
  BY SweptLog DEF LogInv
<1>2. LogOK(kept) /\ (Len(kept) < Len(log) \/ LiveCharges(kept, window, now) = DOMAIN kept)
  BY <1>1, CleanedLogs
<1>. HIDE DEF kept
<1>3. /\ kept \in Seq(Row) /\ row \in Row /\ Len(kept) \in Nat /\ Len(log) \in Nat
      /\ IsFiniteSet(DOMAIN kept) /\ Cardinality(DOMAIN kept) = Len(kept)
      /\ row.client = client /\ row.at = now /\ row.cost = cost
  BY <1>1, <1>2, LogTypes DEF LogOK, Row, Charge
<1>. HIDE DEF row
<1>4. /\ new \in Seq(Row) /\ Len(new) = last /\ new[last] = row
      /\ DOMAIN new = DOMAIN kept \cup {last} /\ last \notin DOMAIN kept
      /\ \A i \in DOMAIN kept : new[i] = kept[i]
      /\ \A rows \in SUBSET DOMAIN kept :
            /\ Cost(new, rows) = Cost(kept, rows)
            /\ Cost(new, rows \cup {last}) = Cost(kept, rows) + row.cost
  <2>1. new = Append(kept, row)
    BY DEF kept, row
  <2>. QED
    BY <1>3, <2>1, AppendedCost
<1>5. DOMAIN kept = 1..Len(kept)
  BY <1>3, LogTypes
<1>. HIDE DEF last
<1>6. LogOK(new)'
  <2>1. \A i \in DOMAIN new : i \in DOMAIN kept \/ i = last
    BY <1>4
  <2>2. \A i \in DOMAIN kept : i < last /\ kept[i].at <= now
    BY <1>2, <1>3, <1>5 DEF LogOK, last
  <2>3. \A i, j \in DOMAIN new : i <= j => new[i].at <= new[j].at
    <3>. SUFFICES ASSUME NEW i \in DOMAIN new, NEW j \in DOMAIN new, i <= j
                  PROVE  new[i].at <= new[j].at
      OBVIOUS
    <3>1. CASE j = last
      BY <1>3, <1>4, <2>1, <2>2, <3>1
    <3>2. CASE j # last
      <4>1. j \in DOMAIN kept /\ i \in DOMAIN kept
        BY <1>3, <1>5, <2>1, <2>2, <3>2 DEF last
      <4>. QED
        BY <1>2, <1>4, <4>1 DEF LogOK
    <3>. QED
      BY <3>1, <3>2
  <2>4. \A i \in DOMAIN new : new[i].at <= now
    BY <1>3, <1>4, <2>1, <2>2
  <2>. QED
    BY <1>4, <2>3, <2>4 DEF LogOK
<1>7. \A who, start :
         GrantedSince(namespace, who, start)' =
             GrantedSince(namespace, who, start) + IF client \in who /\ now >= start THEN cost ELSE 0
  BY GrantAdds
<1>8. Matches(new, namespace, window)'
  <2>. SUFFICES ASSUME NEW who \in SUBSET Clients, NEW start \in Int, start >= now + 1 - window
                PROVE  Cost(new, Since(new, who, start)) = GrantedSince(namespace, who, start)'
    BY DEF Matches, Since, Cost, Units
  <2> DEFINE rows == Since(kept, who, start)
  <2>1. rows \in SUBSET DOMAIN kept /\ Cost(kept, rows) = GrantedSince(namespace, who, start)
    BY <1>1 DEF LogInv, Matches, Since
  <2>2. Cost(kept, rows) \in Nat
    BY <1>3, <2>1, UnitsOfRows
  <2>3. CASE client \in who /\ now >= start
    <3>1. Since(new, who, start) = rows \cup {last}
      BY <1>3, <1>4, <2>3 DEF Since
    <3>. HIDE DEF rows
    <3>. QED
      BY <1>3, <1>4, <1>7, <2>1, <2>3, <3>1
  <2>4. CASE ~(client \in who /\ now >= start)
    <3>1. Since(new, who, start) = rows
      BY <1>3, <1>4, <2>4 DEF Since
    <3>2. GrantedSince(namespace, who, start)' = GrantedSince(namespace, who, start) + 0
      BY <1>7, <2>4
    <3>3. Cost(new, rows) = Cost(kept, rows)
      BY <1>4, <2>1
    <3>. HIDE DEF rows
    <3>. QED
      BY <2>1, <2>2, <3>1, <3>2, <3>3
  <2>. QED
    BY <2>3, <2>4
<1>9. Len(new) <= limit
  <2>1. CASE Len(kept) < Len(log)
    BY <1>3, <1>4, <2>1 DEF LogInv, last
  <2>2. CASE LiveCharges(kept, window, now) = DOMAIN kept
    <3>1. Len(kept) <= Lately(namespace, Clients, window) /\ Lately(namespace, Clients, window) \in Nat
      <4>1. ReadsGrants(kept, namespace, window, limit, own, client)
        BY <1>1, LogIsRead
      <4>. QED
        BY <1>3, <2>2, <4>1 DEF ReadsGrants
    <3>. QED
      BY <1>3, <1>4, <3>1 DEF Costs, last
  <2>. QED
    BY <1>2, <2>1, <2>2
<1>10. ASSUME NEW c \in Clients
       PROVE  /\ Lately(namespace, {c}, window)' <= own
              /\ Lately(namespace, Clients, window)' <= limit
  <2>1. /\ Lately(namespace, {c}, window)' =
             Lately(namespace, {c}, window) + IF client \in {c} /\ now >= now + 1 - window THEN cost ELSE 0
        /\ Lately(namespace, Clients, window)' =
             Lately(namespace, Clients, window) + IF client \in Clients /\ now >= now + 1 - window THEN cost ELSE 0
    BY <1>7 DEF Lately
  <2>2. now >= now + 1 - window
    OBVIOUS
  <2>3. Lately(namespace, {c}, window) \in Nat /\ Lately(namespace, {c}, window) <= own
    <3>1. GrantedSince(namespace, {c}, now + 1 - window) \in Nat
      BY TokenCounts
    <3>. QED
      BY <3>1 DEF LogInv, Lately
  <2>4. Lately(namespace, Clients, window)' = Lately(namespace, Clients, window) + cost
    BY <2>1, <2>2
  <2>5. CASE c = client
    BY <2>1, <2>2, <2>4, <2>5
  <2>6. CASE c # client
    <3>1. Lately(namespace, {c}, window)' = Lately(namespace, {c}, window) + 0
      BY <2>1, <2>6
    <3>. QED
      BY <2>3, <2>4, <3>1
  <2>. QED
    BY <2>5, <2>6
<1>. QED
  BY <1>4, <1>6, <1>8, <1>9, <1>10 DEF LogInv

\* A log that nothing was granted for is as before.
LEMMA LogStays ==
    ASSUME now \in Nat, TokensOK, NEW log, NEW namespace, NEW window, NEW limit, NEW own,
           LogInv(log, namespace, window, limit, own), now' = now,
           \A who, start : GrantedSince(namespace, who, start)' = GrantedSince(namespace, who, start)
    PROVE  LogInv(log, namespace, window, limit, own)'
<1>1. LogOK(log)' /\ Len(log) <= limit
  BY DEF LogInv, LogOK
<1>2. Matches(log, namespace, window)'
  <2>. SUFFICES ASSUME NEW who \in SUBSET Clients, NEW start \in Int, start >= now + 1 - window
                PROVE  Cost(log, Since(log, who, start)) = GrantedSince(namespace, who, start)'
    BY DEF Matches, Since, Cost, Units
  <2>. QED
    BY DEF LogInv, Matches
<1>3. \A who : Lately(namespace, who, window)' = Lately(namespace, who, window)
  BY DEF Lately
<1>. QED
  BY <1>1, <1>2, <1>3 DEF LogInv

\* Time takes tokens out of the window and puts none in.
LEMMA LogAges ==
    ASSUME now \in Nat, TokensOK, NEW log, NEW namespace, NEW window \in Nat \ {0}, NEW limit \in Nat,
           NEW own \in Nat, LogInv(log, namespace, window, limit, own), window <= DAY, Tick
    PROVE  LogInv(log, namespace, window, limit, own)'
<1>1. now' = now + 1 /\ granted' = {g \in granted : g.at + DAY > now + 1}
  BY DEF Tick
<1>2. LogOK(log)' /\ Len(log) <= limit
  <2>1. log \in Seq(Row) /\ \A i \in DOMAIN log : log[i].at \in Nat
    BY LogTypes DEF LogInv, LogOK
  <2>. QED
    BY <1>1, <2>1 DEF LogInv, LogOK
<1>3. ASSUME NEW who, NEW start \in Int, start >= now + 2 - window
      PROVE  GrantedSince(namespace, who, start)' = GrantedSince(namespace, who, start)
  <2>1. \A g \in granted : g.at \in Nat
    BY DEF TokensOK, TokenOK
  <2>2. \A g \in granted : g.at >= start => g.at + DAY > now + 1
    BY <1>3, <2>1, Constants
  <2>3. TokensSince(namespace, who, start)' = TokensSince(namespace, who, start)
    BY <1>1, <2>2 DEF TokensSince
  <2>. QED
    BY <2>3 DEF GrantedSince, TokensSince
<1>4. Matches(log, namespace, window)'
  <2>. SUFFICES ASSUME NEW who \in SUBSET Clients, NEW start \in Int, start >= now + 2 - window
                PROVE  Cost(log, Since(log, who, start)) = GrantedSince(namespace, who, start)'
    BY <1>1 DEF Matches, Since, Cost, Units
  <2>1. start >= now + 1 - window
    OBVIOUS
  <2>. QED
    BY <1>3, <2>1 DEF LogInv, Matches
<1>5. ASSUME NEW who
      PROVE  /\ Lately(namespace, who, window)' <= Lately(namespace, who, window)
             /\ Lately(namespace, who, window)' \in Nat /\ Lately(namespace, who, window) \in Nat
  <2>1. PICK old \in Int, new \in Int : old = now + 1 - window /\ new = now + 2 - window
    OBVIOUS
  <2>2. {g \in granted' : g.namespace = namespace /\ g.client \in who /\ g.at >= now' + 1 - window}
          = {g \in granted' : g.namespace = namespace /\ g.client \in who /\ g.at >= new}
    BY <1>1, <2>1
  <2>3. Lately(namespace, who, window)' = GrantedSince(namespace, who, new)
    <3>1. Lately(namespace, who, window)' = GrantedSince(namespace, who, new)'
      BY <2>2 DEF Lately, GrantedSince
    <3>. QED
      BY <1>3, <2>1, <3>1
  <2>4. Lately(namespace, who, window) = GrantedSince(namespace, who, old)
    BY <2>1 DEF Lately
  <2>5. TokensSince(namespace, who, new) \in SUBSET TokensSince(namespace, who, old)
    BY <2>1 DEF TokensSince, TokensOK, TokenOK
  <2>. QED
    BY <2>3, <2>4, <2>5, TokenCounts
<1>6. Lately(namespace, Clients, window)' <= limit
  BY <1>5 DEF LogInv
<1>7. \A c \in Clients : Lately(namespace, {c}, window)' <= own
  BY <1>5 DEF LogInv
<1>. QED
  BY <1>2, <1>4, <1>6, <1>7 DEF LogInv
\* A decision on an authenticated scan allows what fits both ceilings.
LEMMA AuthenticatedFits ==
    ASSUME now \in Nat, NEW log, NEW c \in Clients, NEW cost \in Costs,
           LogInv(log, "authenticated", MINUTE, AUTH_GLOBAL_PER_MINUTE, AUTH_PER_MINUTE),
           AuthenticatedDecision(log, c, cost, now).allowed
    PROVE  /\ Lately("authenticated", Clients, MINUTE) + cost <= AUTH_GLOBAL_PER_MINUTE
           /\ Lately("authenticated", {c}, MINUTE) + cost <= AUTH_PER_MINUTE
<1> DEFINE live == LiveCharges(log, MINUTE, now)
           his  == ChargesOf(log, live, c)
           global == RollingDecision(log, live, cost, AUTH_GLOBAL_PER_MINUTE, now)
           own == RollingDecision(log, his, cost, AUTH_PER_MINUTE, now)
<1>1. /\ MINUTE \in Nat \ {0} /\ AUTH_GLOBAL_PER_MINUTE \in Nat /\ AUTH_PER_MINUTE \in Nat
  BY Constants
<1>2. /\ Cost(log, live) = Lately("authenticated", Clients, MINUTE)
      /\ Cost(log, his) = Lately("authenticated", {c}, MINUTE)
      /\ Cost(log, live) \in Nat /\ Cost(log, his) \in Nat
      /\ FirstRows(live, AUTH_GLOBAL_PER_MINUTE + 1) = live
      /\ FirstRows(his, AUTH_PER_MINUTE + 1) = his
  <2>1. ReadsGrants(log, "authenticated", MINUTE, AUTH_GLOBAL_PER_MINUTE, AUTH_PER_MINUTE, c)
    BY <1>1, LogIsRead
  <2>. QED
    BY <2>1 DEF ReadsGrants
<1>3. AuthenticatedDecision(log, c, cost, now) = IF global.allowed THEN own ELSE global
  BY <1>2 DEF AuthenticatedDecision
<1>. HIDE DEF live, his
<1>4. ASSUME NEW rows, NEW limit \in Nat, Cost(log, rows) \in Nat,
             RollingDecision(log, rows, cost, limit, now).allowed
      PROVE  Cost(log, rows) + cost <= limit
  <2>1. cost \in Nat
    BY DEF Costs
  <2>2. Cost(log, rows) + cost - limit <= 0
    BY <1>4 DEF RollingDecision, Refused
  <2>. QED
    BY <1>4, <2>1, <2>2
<1>5. global.allowed /\ own.allowed
  <2>. HIDE DEF global, own
  <2>. QED
    BY <1>3
<1>. QED
  BY <1>1, <1>2, <1>4, <1>5

\* The same of attempts, which cost one each.
LEMMA AttemptFits ==
    ASSUME now \in Nat, NEW log, NEW c \in Clients,
           LogInv(log, "attempt", ATTEMPT_WINDOW, ATTEMPT_GLOBAL_LIMIT, ATTEMPT_CLIENT_LIMIT),
           \A i \in DOMAIN log : log[i].cost = 1,
           AttemptDecision(log, c, now).allowed
    PROVE  /\ Lately("attempt", Clients, ATTEMPT_WINDOW) + 1 <= ATTEMPT_GLOBAL_LIMIT
           /\ Lately("attempt", {c}, ATTEMPT_WINDOW) + 1 <= ATTEMPT_CLIENT_LIMIT
<1> DEFINE live == LiveCharges(log, ATTEMPT_WINDOW, now)
           his  == ChargesOf(log, live, c)
<1>1. /\ ATTEMPT_WINDOW \in Nat \ {0} /\ ATTEMPT_GLOBAL_LIMIT \in Nat \ {0} /\ ATTEMPT_CLIENT_LIMIT \in Nat \ {0}
      /\ ATTEMPT_GLOBAL_LIMIT \in Nat /\ ATTEMPT_CLIENT_LIMIT \in Nat
      /\ log \in Seq(Row)
  BY Constants DEF LogInv, LogOK
<1>2. /\ live \in SUBSET DOMAIN log /\ his \in SUBSET DOMAIN log
      /\ Cost(log, live) = Lately("attempt", Clients, ATTEMPT_WINDOW)
      /\ Cost(log, his) = Lately("attempt", {c}, ATTEMPT_WINDOW)
      /\ Cost(log, live) \in Nat /\ Cost(log, his) \in Nat
      /\ FirstRows(live, ATTEMPT_GLOBAL_LIMIT + 1) = live
      /\ FirstRows(his, ATTEMPT_CLIENT_LIMIT + 1) = his
  <2>1. ReadsGrants(log, "attempt", ATTEMPT_WINDOW, ATTEMPT_GLOBAL_LIMIT, ATTEMPT_CLIENT_LIMIT, c)
    BY <1>1, LogIsRead
  <2>. QED
    BY <2>1 DEF ReadsGrants
<1>3. AttemptDecision(log, c, now) =
        LET until == FreesAt(log, live, ATTEMPT_GLOBAL_LIMIT) \union FreesAt(log, his, ATTEMPT_CLIENT_LIMIT)
        IN IF until = {} THEN Allowed ELSE Refused(Max(until), now)
  BY <1>2 DEF AttemptDecision
<1>. HIDE DEF live, his
<1>4. FreesAt(log, live, ATTEMPT_GLOBAL_LIMIT) = {} /\ FreesAt(log, his, ATTEMPT_CLIENT_LIMIT) = {}
  BY <1>3 DEF Refused
<1>5. \A rows \in SUBSET DOMAIN log : /\ rows \in SUBSET Nat /\ IsFiniteSet(rows) /\ Cardinality(rows) \in Nat
                                      /\ Cost(log, rows) = Cardinality(rows)
  <2>1. DOMAIN log \in SUBSET Nat
    BY <1>1, LogTypes
  <2>. QED
    BY <1>1, <2>1, UnitsOfRows
<1>6. Cardinality(live) < ATTEMPT_GLOBAL_LIMIT /\ Cardinality(his) < ATTEMPT_CLIENT_LIMIT
  BY <1>1, <1>2, <1>4, <1>5, RoomIfNoneFrees
<1>. QED
  BY <1>1, <1>2, <1>5, <1>6

-----------------------------------------------------------------------------
(* The fixed windows.                                                      *)

Accounts == Clients \cup {Everyone}
Spans(namespace) == IF namespace = "public-scan" THEN {MINUTE, DAY} ELSE {MINUTE}

Bucket(namespace, who, span, id) == <<namespace, who, span, id>>

\* The counters a client's charge is put down in, and what it writes there.
Current(namespace, who, span) == Bucket(namespace, who, span, now \div span)
Charged(namespace, c) == {Current(namespace, who, span) : who \in {Everyone, c}, span \in Spans(namespace)}
More(rows, namespace, who, span, cost) ==
    [used |-> Used(rows, Current(namespace, who, span), now) + cost, expiresAt |-> (now \div span + 1) * span]

PutDown(new, rows, namespace, c, cost) ==
    /\ DOMAIN new = DOMAIN rows \cup Charged(namespace, c)
    /\ \A b \in DOMAIN rows \ Charged(namespace, c) : new[b] = rows[b]
    /\ \A who \in {Everyone, c}, span \in Spans(namespace) :
          new[Current(namespace, who, span)] = More(rows, namespace, who, span, cost)

\* A counter is of a window that has begun, expires with it, and is not naught.
CounterOK(b) ==
    /\ \E namespace \in FixedNamespaces, who \in Accounts : \E span \in Spans(namespace) :
         \E id \in 0..(now \div span) :
            b = Bucket(namespace, who, span, id) /\ buckets[b].expiresAt = (id + 1) * span
    /\ buckets[b].used \in Nat \ {0}

\* A counter is what was granted in its window.
Counts(namespace, who, span) ==
    Used(buckets, Current(namespace, who, span), now) = GrantedSince(namespace, Who(who), (now \div span) * span)

\* No counter is above its limit.
Fits(namespace, c) ==
    \A w \in WindowsOf(namespace, c, now) : Used(buckets, w.bucket, now) <= w.limit

BucketInv ==
    /\ \A b \in DOMAIN buckets : CounterOK(b)
    /\ \A namespace \in FixedNamespaces, who \in Accounts :
          \A span \in Spans(namespace) : Counts(namespace, who, span)
    /\ \A namespace \in FixedNamespaces, c \in Clients : Fits(namespace, c)

\* No window is empty, or longer than a day.
LEMMA SpanTypes ==
    ASSUME NEW namespace, NEW span \in Spans(namespace)
    PROVE  span \in Nat \ {0} /\ span <= DAY
BY Constants DEF Spans

\* The window of somebody at a tick, and the limits it may have.
IsWindow(w, namespace, who, span, t) ==
    /\ w.bucket = Bucket(namespace, who, span, t \div span)
    /\ w.expiresAt = (t \div span + 1) * span
    /\ w.limit \in Nat \ {0}

\* The windows of a call are of its client and of everyone, at every length.
LEMMA CallWindows ==
    ASSUME NEW namespace \in FixedNamespaces, NEW c, NEW t
    PROVE  /\ \A w \in WindowsOf(namespace, c, t) :
                \E who \in {Everyone, c}, span \in Spans(namespace) : IsWindow(w, namespace, who, span, t)
           /\ \A who \in {Everyone, c}, span \in Spans(namespace) :
                \E w \in WindowsOf(namespace, c, t) : IsWindow(w, namespace, who, span, t)
<1>1. ASSUME NEW who, NEW span, NEW limit \in Nat \ {0}
      PROVE  IsWindow(Window(namespace, who, span, limit, t), namespace, who, span, t)
  BY DEF IsWindow, Window, Bucket
<1>2. CASE namespace = "public-scan"
  <2>1. WindowsOf(namespace, c, t) = PublicWindows(c, t) /\ Spans(namespace) = {MINUTE, DAY}
    BY <1>2 DEF WindowsOf, Spans
  <2>2. /\ GLOBAL_PER_MINUTE \in Nat \ {0} /\ GLOBAL_PER_DAY \in Nat \ {0}
        /\ PER_MINUTE \in Nat \ {0} /\ PER_DAY \in Nat \ {0}
    BY Constants
  <2>3. WindowsOf(namespace, c, t) =
            {Window(namespace, Everyone, MINUTE, GLOBAL_PER_MINUTE, t),
             Window(namespace, Everyone, DAY, GLOBAL_PER_DAY, t),
             Window(namespace, c, MINUTE, PER_MINUTE, t),
             Window(namespace, c, DAY, PER_DAY, t)}
    BY <1>2, <2>1 DEF PublicWindows
  <2>. QED
    BY <1>1, <2>1, <2>2, <2>3
<1>3. CASE namespace # "public-scan"
  <2>1. WindowsOf(namespace, c, t) = ReadWindows(namespace, c, t) /\ Spans(namespace) = {MINUTE}
    BY <1>3 DEF WindowsOf, Spans
  <2>2. READ_LIMIT \in Nat \ {0} /\ READ_GLOBAL_LIMIT \in Nat \ {0}
    BY Constants
  <2>. QED
    BY <1>1, <2>1, <2>2 DEF ReadWindows
<1>. QED
  BY <1>2, <1>3

\* A window that another client's call shares is the same window.
LEMMA SharedWindows ==
    ASSUME NEW namespace, NEW c \in Clients, NEW other \in Clients, NEW t,
           NEW w \in WindowsOf(namespace, other, t), w.bucket[2] \in {Everyone, c}
    PROVE  w \in WindowsOf(namespace, c, t)
<1>1. Everyone \notin Clients
  BY PublicScanQuotaAssumption
<1>2. CASE namespace = "public-scan"
  BY <1>1, <1>2 DEF WindowsOf, PublicWindows, Window
<1>3. CASE namespace # "public-scan"
  BY <1>1, <1>3 DEF WindowsOf, ReadWindows, Window
<1>. QED
  BY <1>2, <1>3

\* The windows of a later call are of the same clients, lengths and limits.
LEMMA LaterWindows ==
    ASSUME NEW namespace, NEW c, NEW t, NEW later, NEW w \in WindowsOf(namespace, c, later)
    PROVE  \E v \in WindowsOf(namespace, c, t) :
               w.limit = v.limit /\ w.bucket[2] = v.bucket[2] /\ w.bucket[3] = v.bucket[3]
<1>1. ASSUME NEW ns, NEW who, NEW span, NEW limit, NEW u
      PROVE  /\ Window(ns, who, span, limit, u).limit = limit
             /\ Window(ns, who, span, limit, u).bucket[2] = who
             /\ Window(ns, who, span, limit, u).bucket[3] = span
  BY DEF Window
<1>2. CASE namespace = "public-scan"
  BY <1>1, <1>2 DEF WindowsOf, PublicWindows
<1>3. CASE namespace # "public-scan"
  BY <1>1, <1>3 DEF WindowsOf, ReadWindows
<1>. QED
  BY <1>2, <1>3

\* A counter in use is one of a window that has begun.
LEMMA CounterTypes ==
    ASSUME now \in Nat, NEW b, CounterOK(b)
    PROVE  buckets[b].expiresAt \in Int /\ buckets[b].used \in Nat \ {0}
<1>1. PICK namespace \in FixedNamespaces, who \in Accounts : \E span \in Spans(namespace) :
         \E id \in 0..(now \div span) :
            b = Bucket(namespace, who, span, id) /\ buckets[b].expiresAt = (id + 1) * span
  BY DEF CounterOK
<1>2. PICK span \in Spans(namespace) : \E id \in 0..(now \div span) : buckets[b].expiresAt = (id + 1) * span
  BY <1>1
<1>3. span \in Nat \ {0}
  BY SpanTypes
<1>4. PICK id \in 0..(now \div span) : buckets[b].expiresAt = (id + 1) * span
  BY <1>2
<1>5. id \in Nat
  BY <1>3, <1>4, WindowOf
<1>6. (id + 1) * span \in Int
  BY <1>3, <1>5
<1>. QED
  BY <1>4, <1>6 DEF CounterOK

\* What a counter is used is a number.
LEMMA UsedTypes ==
    ASSUME now \in Nat, \A b \in DOMAIN buckets : CounterOK(b)
    PROVE  \A b : Used(buckets, b, now) \in Nat
BY CounterTypes DEF Used

\* A cleanup deletes nothing that is in use.
LEMMA CleanedCounters ==
    ASSUME now \in Nat, \A b \in DOMAIN buckets : CounterOK(b), NEW swept \in Cleaned(buckets, now)
    PROVE  /\ DOMAIN swept \in SUBSET DOMAIN buckets
           /\ \A b \in DOMAIN swept : swept[b] = buckets[b]
           /\ \A b : Used(swept, b, now) = Used(buckets, b, now)
<1> DEFINE expired == {b \in DOMAIN buckets : buckets[b].expiresAt <= now}
<1>1. PICK D \in SUBSET expired : swept = [b \in DOMAIN buckets \ D |-> buckets[b]]
  BY DEF Cleaned, kSubset
<1>2. /\ DOMAIN swept = DOMAIN buckets \ D
      /\ \A b \in DOMAIN swept : swept[b] = buckets[b]
  BY <1>1
<1>3. \A b \in D : b \in DOMAIN buckets /\ ~(buckets[b].expiresAt > now)
  BY CounterTypes
<1>. HIDE DEF expired
<1>. QED
  BY <1>2, <1>3 DEF Used

\* A charge adds its cost to the counter of each of the client's windows.
LEMMA ConsumedCounters ==
    ASSUME now \in Nat, NEW rows, NEW namespace \in FixedNamespaces, NEW c \in Clients, NEW cost
    PROVE  PutDown(Consumed(rows, WindowsOf(namespace, c, now), cost, now), rows, namespace, c, cost)
<1> DEFINE windows == WindowsOf(namespace, c, now)
           new == Consumed(rows, windows, cost, now)
           charged == Charged(namespace, c)
           row(w) == [used |-> Used(rows, w.bucket, now) + cost, expiresAt |-> w.expiresAt]
           buys(b) == CHOOSE w \in windows : w.bucket = b
<1>1. {w.bucket : w \in windows} = charged
  <2>1. \A w \in windows : w.bucket \in charged
    BY CallWindows DEF Charged, Current, IsWindow
  <2>2. \A b \in charged : \E w \in windows : w.bucket = b
    BY CallWindows DEF Charged, Current, IsWindow
  <2>. HIDE DEF windows, charged
  <2>. QED
    BY <2>1, <2>2
<1>2. new = [b \in DOMAIN rows \cup charged |-> IF b \in charged THEN row(buys(b)) ELSE rows[b]]
  <2>. HIDE DEF charged, windows
  <2>1. new = [b \in DOMAIN rows \cup {w.bucket : w \in windows} |->
                  IF b \in {w.bucket : w \in windows} THEN row(buys(b)) ELSE rows[b]]
    BY DEF Consumed
  <2>. QED
    BY <1>1, <2>1
<1>3. ASSUME NEW who \in {Everyone, c}, NEW span \in Spans(namespace)
      PROVE  /\ Current(namespace, who, span) \in charged
             /\ row(buys(Current(namespace, who, span))) = More(rows, namespace, who, span, cost)
  <2> DEFINE b == Current(namespace, who, span)
  <2>1. buys(b) \in windows /\ buys(b).bucket = b
    <3>1. \E w \in windows : w.bucket = b
      BY CallWindows DEF Current, IsWindow
    <3>. HIDE DEF b, windows
    <3>. QED
      BY <3>1
  <2>. HIDE DEF buys, windows
  <2>2. PICK whose \in {Everyone, c}, length \in Spans(namespace) :
            /\ buys(b).bucket = Bucket(namespace, whose, length, now \div length)
            /\ buys(b).expiresAt = (now \div length + 1) * length
    BY <2>1, CallWindows DEF windows, IsWindow
  <2>3. length = span
    BY <2>1, <2>2 DEF Bucket, Current
  <2>4. b \in charged
    BY DEF Charged
  <2>. QED
    BY <2>1, <2>2, <2>3, <2>4 DEF More
<1>. HIDE DEF row, buys, windows
<1>. QED
  BY <1>2, <1>3 DEF windows, PutDown
\* A day's window begins with one of its minutes.
LEMMA MinuteOfWindow ==
    ASSUME NEW n \in Nat, NEW namespace, NEW span \in Spans(namespace)
    PROVE  /\ (n \div MINUTE) * MINUTE \in Nat /\ (n \div MINUTE) * MINUTE <= n
           /\ (n \div span) * span <= (n \div MINUTE) * MINUTE
<1>1. /\ MINUTE \in Nat \ {0} /\ DAY \in Nat \ {0} /\ DAY % MINUTE = 0
  BY QuotaAssumption
<1>2. PICK m \in Nat : m = n \div MINUTE
  BY <1>1, WindowOf
<1>3. m * MINUTE \in Nat /\ m * MINUTE <= n /\ n < (m + 1) * MINUTE
  <2>1. m * MINUTE <= n /\ n < (m + 1) * MINUTE
    BY <1>1, <1>2, WindowOf
  <2>. QED
    BY <1>1, <2>1
<1>4. CASE span = MINUTE
  BY <1>2, <1>3, <1>4
<1>5. CASE span = DAY
  <2>1. PICK d \in Nat : d = n \div DAY
    BY <1>1, WindowOf
  <2>2. d * DAY <= n
    BY <1>1, <2>1, WindowOf
  <2>3. PICK k \in Nat : DAY = k * MINUTE
    <3>1. DAY = (DAY \div MINUTE) * MINUTE /\ DAY \div MINUTE \in Nat
      BY <1>1
    <3>. QED
      BY <3>1
  <2>4. PICK e \in Nat : e = d * k
    BY <2>1, <2>3
  <2>5. d * DAY = e * MINUTE
    <3>1. \A x, y, z \in Nat : x * (y * z) = (x * y) * z
      OBVIOUS
    <3>2. d * (k * MINUTE) = (d * k) * MINUTE
      BY <1>1, <2>1, <2>3, <3>1
    <3>. QED
      BY <2>3, <2>4, <3>2
  <2>6. e * MINUTE < (m + 1) * MINUTE
    <3>1. e * MINUTE \in Nat /\ (m + 1) * MINUTE \in Nat
      BY <1>1, <1>2, <2>4
    <3>. QED
      BY <1>3, <2>2, <2>5, <3>1
  <2>7. e < m + 1
    BY <1>1, <1>2, <2>4, <2>6
  <2>8. e * MINUTE <= m * MINUTE
    BY <1>1, <1>2, <2>4, <2>7
  <2>. QED
    BY <1>2, <1>3, <1>5, <2>1, <2>5, <2>8
<1>. QED
  BY <1>4, <1>5 DEF Spans

\* An account's tokens are a client's just if it is his own or everyone's.
LEMMA WhoseAccount ==
    ASSUME NEW c \in Clients, NEW who \in Accounts
    PROVE  c \in Who(who) <=> who \in {Everyone, c}
BY PublicScanQuotaAssumption DEF Who, Accounts

\* Counters that stay, and what is granted, keep the counts.
LEMMA CountersKept ==
    ASSUME now \in Nat, BucketInv, now' = now,
           \A b \in DOMAIN buckets' : b \in DOMAIN buckets /\ buckets'[b] = buckets[b],
           \A b : Used(buckets', b, now) = Used(buckets, b, now),
           \A namespace \in FixedNamespaces : \A who, start :
              GrantedSince(namespace, who, start)' = GrantedSince(namespace, who, start)
    PROVE  BucketInv'
<1>1. ASSUME NEW b \in DOMAIN buckets'
      PROVE  CounterOK(b)'
  <2>1. CounterOK(b) /\ buckets'[b] = buckets[b]
    BY DEF BucketInv
  <2>. QED
    BY <2>1 DEF CounterOK
<1>2. ASSUME NEW namespace \in FixedNamespaces, NEW who \in Accounts, NEW span \in Spans(namespace)
      PROVE  Counts(namespace, who, span)'
  <2>1. Counts(namespace, who, span)
    BY DEF BucketInv
  <2>2. PICK start : start = (now \div span) * span
    OBVIOUS
  <2>3. Used(buckets, Current(namespace, who, span), now) = GrantedSince(namespace, Who(who), start)
    BY <2>1, <2>2 DEF Counts
  <2>4. Used(buckets', Current(namespace, who, span), now) = GrantedSince(namespace, Who(who), start)'
    BY <2>3
  <2>. QED
    BY <2>2, <2>4 DEF Counts, Current, GrantedSince
<1>3. ASSUME NEW namespace \in FixedNamespaces, NEW c \in Clients
      PROVE  Fits(namespace, c)'
  <2>1. Fits(namespace, c)
    BY DEF BucketInv
  <2>. QED
    BY <2>1 DEF Fits
<1>. QED
  BY <1>1, <1>2, <1>3 DEF BucketInv

\* A call that is let through fits every one of its windows.
LEMMA FixedFits ==
    ASSUME NEW rows, NEW windows, NEW cost, FixedDecision(rows, windows, cost, now).allowed
    PROVE  /\ Exceeded(rows, windows, cost, now) = {}
           /\ ChargedRows(rows, windows, cost, now) = Consumed(rows, windows, cost, now)
<1>1. Exceeded(rows, windows, cost, now) = {}
  BY DEF FixedDecision, Refused
<1>. QED
  BY <1>1 DEF ChargedRows
\* A charge of the fixed windows adds as much to the counters as it grants.
LEMMA CountersCharged ==
    ASSUME now \in Nat, TokensOK, BucketInv, now' = now,
           NEW namespace \in FixedNamespaces, NEW c \in Clients, NEW cost \in Costs,
           NEW swept \in Cleaned(buckets, now),
           FixedDecision(swept, WindowsOf(namespace, c, now), cost, now).allowed,
           buckets' = ChargedRows(swept, WindowsOf(namespace, c, now), cost, now),
           Grant(namespace, c, cost, (now \div MINUTE) * MINUTE)
    PROVE  BucketInv'
<1> DEFINE windows == WindowsOf(namespace, c, now)
<1>1. /\ \A b \in DOMAIN buckets : CounterOK(b)
      /\ cost \in Nat \ {0}
  BY DEF BucketInv, Costs
<1>2. /\ DOMAIN swept \in SUBSET DOMAIN buckets
      /\ \A b \in DOMAIN swept : swept[b] = buckets[b]
      /\ \A b : Used(swept, b, now) = Used(buckets, b, now) /\ Used(swept, b, now) \in Nat
  BY <1>1, CleanedCounters, UsedTypes
<1>3. \A w \in windows : Used(swept, w.bucket, now) + cost <= w.limit
  <2>1. Exceeded(swept, windows, cost, now) = {}
    BY FixedFits
  <2>2. ASSUME NEW w \in windows
        PROVE  w.limit \in Nat
    BY CallWindows DEF IsWindow
  <2>. HIDE DEF windows
  <2>. QED
    BY <1>1, <1>2, <2>1, <2>2 DEF Exceeded
<1>4. PutDown(buckets', swept, namespace, c, cost)
  <2>1. buckets' = Consumed(swept, windows, cost, now)
    BY FixedFits
  <2>2. PutDown(Consumed(swept, windows, cost, now), swept, namespace, c, cost)
    BY ConsumedCounters
  <2>. HIDE DEF windows
  <2>. QED
    BY <2>1, <2>2
<1>. HIDE DEF windows
<1>5. ASSUME NEW who \in {Everyone, c}, NEW span \in Spans(namespace)
      PROVE  /\ Current(namespace, who, span) \in DOMAIN buckets'
             /\ buckets'[Current(namespace, who, span)].expiresAt = (now \div span + 1) * span
             /\ buckets'[Current(namespace, who, span)].used
                  = Used(buckets, Current(namespace, who, span), now) + cost
             /\ Used(buckets', Current(namespace, who, span), now)
                  = Used(buckets, Current(namespace, who, span), now) + cost
  <2> DEFINE b == Current(namespace, who, span)
  <2>1. b \in Charged(namespace, c)
    BY DEF Charged
  <2>2. b \in DOMAIN buckets' /\ buckets'[b] = More(swept, namespace, who, span, cost)
    BY <1>4, <2>1 DEF PutDown
  <2>3. now < (now \div span + 1) * span
    BY SpanTypes, WindowOf
  <2>4. /\ buckets'[b].expiresAt = (now \div span + 1) * span
        /\ buckets'[b].used = Used(swept, b, now) + cost
    BY <2>2 DEF More
  <2>. HIDE DEF b
  <2>5. Used(buckets', b, now) = Used(swept, b, now) + cost
    <3>1. PICK until \in Int : until = (now \div span + 1) * span
      BY SpanTypes, WindowOf
    <3>2. until > now
      BY <2>3, <3>1
    <3>. QED
      BY <2>2, <2>4, <3>1, <3>2 DEF Used
  <2>. QED
    BY <1>2, <2>2, <2>4, <2>5 DEF b
<1>6. ASSUME NEW b, b \notin Charged(namespace, c)
      PROVE  /\ b \in DOMAIN buckets' => b \in DOMAIN buckets /\ buckets'[b] = buckets[b]
             /\ Used(buckets', b, now) = Used(buckets, b, now)
  <2>1. /\ b \in DOMAIN buckets' <=> b \in DOMAIN swept
        /\ b \in DOMAIN swept => buckets'[b] = swept[b]
    BY <1>4, <1>6 DEF PutDown
  <2>2. Used(buckets', b, now) = Used(swept, b, now)
    BY <2>1 DEF Used
  <2>. QED
    BY <1>2, <2>1, <2>2
<1>7. ASSUME NEW b \in DOMAIN buckets'
      PROVE  CounterOK(b)'
  <2>1. CASE b \in Charged(namespace, c)
    <3>1. PICK who \in {Everyone, c}, span \in Spans(namespace) : b = Current(namespace, who, span)
      BY <2>1 DEF Charged
    <3>2. /\ buckets'[b].expiresAt = (now \div span + 1) * span
          /\ buckets'[b].used = Used(buckets, b, now) + cost
      BY <1>5, <3>1
    <3>3. who \in Accounts /\ now \div span \in 0..(now \div span)
      BY SpanTypes, WindowOf DEF Accounts
    <3>4. buckets'[b].used \in Nat \ {0}
      BY <1>1, <1>2, <3>2
    <3>5. \E id \in 0..(now \div span) :
             b = Bucket(namespace, who, span, id) /\ buckets'[b].expiresAt = (id + 1) * span
      BY <3>1, <3>2, <3>3 DEF Current
    <3>. QED
      BY <3>3, <3>4, <3>5 DEF CounterOK
  <2>2. CASE b \notin Charged(namespace, c)
    <3>1. CounterOK(b) /\ buckets'[b] = buckets[b]
      BY <1>1, <1>6, <2>2
    <3>. QED
      BY <3>1 DEF CounterOK
  <2>. QED
    BY <2>1, <2>2
<1> DEFINE at == (now \div MINUTE) * MINUTE
<1>8. at \in Nat /\ at <= now /\ \A ns, span : span \in Spans(ns) => at >= (now \div span) * span
  <2>1. MINUTE \in Spans(namespace)
    BY DEF Spans
  <2>2. at \in Nat /\ at <= now
    BY <2>1, MinuteOfWindow
  <2>3. ASSUME NEW ns, NEW span \in Spans(ns)
        PROVE  at >= (now \div span) * span
    <3>1. (now \div span) * span <= at
      BY MinuteOfWindow
    <3>. QED
      BY <3>1
  <2>. QED
    BY <2>2, <2>3
<1>9. \A ns, who, start :
         GrantedSince(ns, who, start)' =
             GrantedSince(ns, who, start)
               + IF ns = namespace /\ c \in who /\ at >= start THEN cost ELSE 0
  <2>1. Grant(namespace, c, cost, at)
    OBVIOUS
  <2>. HIDE DEF at
  <2>. QED
    BY <1>8, <2>1, GrantAdds
<1>. HIDE DEF at
<1>10. ASSUME NEW ns \in FixedNamespaces, NEW who \in Accounts, NEW span \in Spans(ns)
       PROVE  /\ Counts(ns, who, span)'
              /\ \/ /\ ns = namespace /\ who \in {Everyone, c}
                    /\ Used(buckets', Current(ns, who, span), now) = Used(buckets, Current(ns, who, span), now) + cost
                 \/ Used(buckets', Current(ns, who, span), now) = Used(buckets, Current(ns, who, span), now)
  <2>1. Counts(ns, who, span)
    BY DEF BucketInv
  <2>2. PICK start : start = (now \div span) * span
    OBVIOUS
  <2> DEFINE b == Current(ns, who, span)
  <2>3. Used(buckets, b, now) = GrantedSince(ns, Who(who), start) /\ Used(buckets, b, now) \in Nat
    BY <1>2, <2>1, <2>2 DEF Counts
  <2>4. at >= start
    BY <1>8, <2>2
  <2>5. c \in Who(who) <=> who \in {Everyone, c}
    BY WhoseAccount
  <2>6. CASE ns = namespace /\ who \in {Everyone, c}
    <3>1. Used(buckets', b, now) = Used(buckets, b, now) + cost
      BY <1>5, <2>6
    <3>2. GrantedSince(ns, Who(who), start)' = GrantedSince(ns, Who(who), start) + cost
      BY <1>9, <2>4, <2>5, <2>6
    <3>. QED
      BY <2>2, <2>3, <2>6, <3>1, <3>2 DEF Counts, Current, GrantedSince
  <2>7. CASE ~(ns = namespace /\ who \in {Everyone, c})
    <3>1. b \notin Charged(namespace, c)
      BY <2>7 DEF Charged, Current, Bucket
    <3>2. Used(buckets', b, now) = Used(buckets, b, now)
      BY <1>6, <3>1
    <3>3. GrantedSince(ns, Who(who), start)' = GrantedSince(ns, Who(who), start) + 0
      BY <1>9, <2>5, <2>7
    <3>4. GrantedSince(ns, Who(who), start)' = GrantedSince(ns, Who(who), start)
      BY <2>3, <3>3
    <3>. QED
      BY <2>2, <2>3, <3>2, <3>4 DEF Counts, Current, GrantedSince
  <2>. QED
    BY <2>6, <2>7
<1>11. ASSUME NEW ns \in FixedNamespaces, NEW other \in Clients
       PROVE  Fits(ns, other)'
  <2>1. ASSUME NEW w \in WindowsOf(ns, other, now)
        PROVE  Used(buckets', w.bucket, now) <= w.limit
    <3>1. PICK who \in {Everyone, other}, span \in Spans(ns) : IsWindow(w, ns, who, span, now)
      BY CallWindows
    <3>2. w.bucket = Current(ns, who, span) /\ w.bucket[2] = who
      BY <3>1 DEF IsWindow, Current, Bucket
    <3>3. Used(buckets, w.bucket, now) <= w.limit
      BY DEF BucketInv, Fits
    <3>4. who \in Accounts
      BY DEF Accounts
    <3>5. CASE ns = namespace /\ who \in {Everyone, c}
      <4>1. w \in windows
        BY <3>2, <3>5, SharedWindows DEF windows
      <4>2. Used(buckets', w.bucket, now) = Used(buckets, w.bucket, now) + cost
        BY <1>5, <3>2, <3>5
      <4>. QED
        BY <1>2, <1>3, <4>1, <4>2
    <3>6. CASE ~(ns = namespace /\ who \in {Everyone, c})
      <4>1. Used(buckets', w.bucket, now) = Used(buckets, w.bucket, now)
        BY <1>10, <3>2, <3>4, <3>6
      <4>. QED
        BY <3>3, <4>1
    <3>. QED
      BY <3>5, <3>6
  <2>. QED
    BY <2>1 DEF Fits
<1>. QED
  BY <1>7, <1>10, <1>11 DEF BucketInv
\* The clock closes windows and opens empty ones.
LEMMA CountersAge ==
    ASSUME now \in Nat, TokensOK, BucketInv, Tick
    PROVE  BucketInv'
<1>1. now' = now + 1 /\ granted' = {g \in granted : g.at + DAY > now + 1} /\ buckets' = buckets
  BY DEF Tick
<1>2. \A g \in granted : g.at \in Nat /\ g.at <= now
  BY DEF TokensOK, TokenOK
<1>3. \A b \in DOMAIN buckets : CounterOK(b)
  BY DEF BucketInv
<1>4. ASSUME NEW b \in DOMAIN buckets
      PROVE  CounterOK(b)'
  <2>1. PICK namespace \in FixedNamespaces, who \in Accounts : \E span \in Spans(namespace) :
           \E id \in 0..(now \div span) :
              b = Bucket(namespace, who, span, id) /\ buckets[b].expiresAt = (id + 1) * span
    BY <1>3 DEF CounterOK
  <2>2. PICK span \in Spans(namespace) : \E id \in 0..(now \div span) :
              b = Bucket(namespace, who, span, id) /\ buckets[b].expiresAt = (id + 1) * span
    BY <2>1
  <2>3. PICK id \in 0..(now \div span) :
              b = Bucket(namespace, who, span, id) /\ buckets[b].expiresAt = (id + 1) * span
    BY <2>2
  <2>4. id \in 0..((now + 1) \div span)
    <3>1. now \div span \in Nat /\ (now + 1) \div span \in Nat /\ now \div span <= (now + 1) \div span
      <4>1. span \in Nat \ {0} /\ now + 1 \in Nat
        BY SpanTypes
      <4>. QED
        BY <4>1, WindowOf, TickOfWindow
    <3>. QED
      BY <3>1
  <2>. QED
    BY <1>1, <1>3, <2>3, <2>4 DEF CounterOK
<1>5. ASSUME NEW namespace \in FixedNamespaces, NEW who \in Accounts, NEW span \in Spans(namespace)
      PROVE  /\ Counts(namespace, who, span)'
             /\ \/ Used(buckets, Bucket(namespace, who, span, (now + 1) \div span), now + 1)
                     = Used(buckets, Current(namespace, who, span), now)
                \/ Used(buckets, Bucket(namespace, who, span, (now + 1) \div span), now + 1) = 0
  <2>1. PICK old \in Nat, new \in Nat : old = now \div span /\ new = (now + 1) \div span
    <3>1. span \in Nat \ {0} /\ now + 1 \in Nat
      BY SpanTypes
    <3>. QED
      BY <3>1, WindowOf
  <2>2. span \in Nat \ {0} /\ span <= DAY
    BY SpanTypes
  <2>3. old <= new /\ old * span <= now /\ new * span <= now + 1 /\ now + 1 < (new + 1) * span
    BY <2>1, <2>2, WindowOf, TickOfWindow
  <2>4. old * span \in Nat /\ new * span \in Nat /\ (new + 1) * span = new * span + span
    BY <2>2
  <2> DEFINE now1 == now + 1
             b == Bucket(namespace, who, span, new)
  <2>5. Counts(namespace, who, span)
    BY DEF BucketInv
  <2>6. PICK start \in Nat : start = new * span
    BY <2>4
  <2>7. ASSUME b \in DOMAIN buckets
        PROVE  /\ new <= old
               /\ buckets[b].expiresAt = (new + 1) * span
    <3>1. PICK ns \in FixedNamespaces, whose \in Accounts : \E length \in Spans(ns) :
             \E id \in 0..(now \div length) :
                b = Bucket(ns, whose, length, id) /\ buckets[b].expiresAt = (id + 1) * length
      BY <1>3, <2>7 DEF CounterOK
    <3>2. PICK length \in Spans(ns) : \E id \in 0..(now \div length) :
                b = Bucket(ns, whose, length, id) /\ buckets[b].expiresAt = (id + 1) * length
      BY <3>1
    <3>3. PICK id \in 0..(now \div length) :
                b = Bucket(ns, whose, length, id) /\ buckets[b].expiresAt = (id + 1) * length
      BY <3>2
    <3>4. length = span /\ id = new
      BY <3>3 DEF Bucket
    <3>. QED
      BY <2>1, <3>3, <3>4
  <2>8. CASE new = old
    <3>1. Used(buckets, b, now + 1) = Used(buckets, b, now)
      <4>1. ASSUME b \in DOMAIN buckets
            PROVE  buckets[b].expiresAt > now /\ buckets[b].expiresAt > now + 1
        <5>1. PICK until \in Int : until = (new + 1) * span
          BY <2>2, <2>4
        <5>2. buckets[b].expiresAt = until
          BY <2>7, <4>1, <5>1
        <5>. HIDE DEF b
        <5>. QED
          BY <2>3, <5>1, <5>2
      <4>. HIDE DEF b
      <4>. QED
        BY <4>1 DEF Used
    <3>2. b = Current(namespace, who, span)
      BY <2>1, <2>8 DEF Current
    <3>3. Used(buckets, b, now) = GrantedSince(namespace, Who(who), start)
      BY <2>1, <2>5, <2>6, <2>8, <3>2 DEF Counts
    <3>4. TokensSince(namespace, Who(who), start)' = TokensSince(namespace, Who(who), start)
      <4>1. \A g \in granted : g.at >= start => g.at + DAY > now + 1
        <5>1. start + DAY > now + 1
          BY <2>2, <2>3, <2>4, <2>6, Constants
        <5>. QED
          BY <1>2, <5>1, Constants
      <4>. HIDE DEF b
      <4>. QED
        BY <1>1, <4>1 DEF TokensSince
    <3>5. GrantedSince(namespace, Who(who), start)' = GrantedSince(namespace, Who(who), start)
      BY <3>4 DEF GrantedSince, TokensSince
    <3>6. Used(buckets', b, now + 1) = GrantedSince(namespace, Who(who), start)'
      BY <1>1, <3>1, <3>3, <3>5
    <3>7. Counts(namespace, who, span)'
      BY <1>1, <2>1, <2>6, <3>6 DEF Counts, Current, GrantedSince
    <3>. QED
      BY <2>1, <3>1, <3>2, <3>7
  <2>9. CASE new # old
    <3>1. b \notin DOMAIN buckets
      BY <2>3, <2>7, <2>9
    <3>2. Used(buckets, b, now + 1) = 0
      BY <3>1 DEF Used
    <3>3. start > now
      <4>1. (old + 1) * span <= new * span
        BY <2>2, <2>3, <2>9, LaterWindow
      <4>2. now < (old + 1) * span
        BY <2>1, <2>2, WindowOf
      <4>3. (old + 1) * span \in Nat
        BY <2>2
      <4>. QED
        BY <2>6, <4>1, <4>2, <4>3
    <3>4. TokensSince(namespace, Who(who), start)' = {}
      BY <1>1, <1>2, <3>3 DEF TokensSince
    <3>5. GrantedSince(namespace, Who(who), start)' = 0
      BY <3>4, FS_EmptySet DEF GrantedSince, TokensSince
    <3>6. Used(buckets', b, now + 1) = GrantedSince(namespace, Who(who), start)'
      BY <1>1, <3>2, <3>5
    <3>7. Counts(namespace, who, span)'
      BY <1>1, <2>1, <2>6, <3>6 DEF Counts, Current, GrantedSince
    <3>. QED
      BY <2>1, <3>2, <3>7
  <2>. QED
    BY <2>8, <2>9
<1>6. ASSUME NEW namespace \in FixedNamespaces, NEW c \in Clients
      PROVE  Fits(namespace, c)'
  <2>1. ASSUME NEW w \in WindowsOf(namespace, c, now + 1)
        PROVE  Used(buckets, w.bucket, now + 1) <= w.limit
    <3>1. PICK who \in {Everyone, c}, span \in Spans(namespace) : IsWindow(w, namespace, who, span, now + 1)
      BY CallWindows
    <3>2. PICK v \in WindowsOf(namespace, c, now) :
             w.limit = v.limit /\ w.bucket[2] = v.bucket[2] /\ w.bucket[3] = v.bucket[3]
      BY LaterWindows
    <3>3. PICK whose \in {Everyone, c}, length \in Spans(namespace) : IsWindow(v, namespace, whose, length, now)
      BY CallWindows
    <3>4. whose = who /\ length = span /\ v.bucket = Current(namespace, who, span)
      BY <3>1, <3>2, <3>3 DEF IsWindow, Bucket, Current
    <3>5. w.bucket = Bucket(namespace, who, span, (now + 1) \div span) /\ w.limit \in Nat
      BY <3>1 DEF IsWindow
    <3>6. who \in Accounts
      BY DEF Accounts
    <3>7. Used(buckets, v.bucket, now) <= v.limit
      BY DEF BucketInv, Fits
    <3>. QED
      BY <1>5, <3>2, <3>4, <3>5, <3>6, <3>7
  <2>. QED
    BY <1>1, <2>1 DEF Fits
<1>. QED
  BY <1>1, <1>4, <1>5, <1>6 DEF BucketInv

\* The clock lets go of tokens with all their twins.
LEMMA TokensAge ==
    ASSUME now \in Nat, TokensOK, Tick
    PROVE  TokensOK'
<1>1. now' = now + 1 /\ granted' = {g \in granted : g.at + DAY > now + 1}
  BY DEF Tick
<1>2. granted' \in SUBSET granted
  BY <1>1
<1>3. IsFiniteSet(granted')
  BY <1>2, FS_Subset DEF TokensOK
<1>4. ASSUME NEW g \in granted'
      PROVE  TokenOK(g)'
  <2>1. TokenOK(g) /\ g.at + DAY > now + 1
    BY <1>1 DEF TokensOK
  <2>2. Twins(g.namespace, g.client, g.at)' = Twins(g.namespace, g.client, g.at)
    BY <1>1, <2>1 DEF Twins
  <2>. QED
    BY <1>1, <2>1, <2>2 DEF TokenOK
<1>. QED
  BY <1>3, <1>4 DEF TokensOK
-----------------------------------------------------------------------------
(* The invariant.                                                          *)

RollingInv(log) == LogInv(log, "authenticated", MINUTE, AUTH_GLOBAL_PER_MINUTE, AUTH_PER_MINUTE)

AttemptsInv(log) ==
    /\ LogInv(log, "attempt", ATTEMPT_WINDOW, ATTEMPT_GLOBAL_LIMIT, ATTEMPT_CLIENT_LIMIT)
    /\ \A i \in DOMAIN log : log[i].cost = 1

\* Each table counts what was granted, and no ceiling is passed.
QuotaInv ==
    /\ now \in Nat /\ TokensOK
    /\ RollingInv(rolling) /\ AttemptsInv(attempts) /\ BucketInv

\* The ceilings are on different namespaces.
LEMMA Namespaces ==
    /\ "authenticated" \notin FixedNamespaces /\ "attempt" \notin FixedNamespaces
    /\ "attempt" # "authenticated"
BY PublicScanQuotaAssumption DEF FixedNamespaces

\* A log is as it was where nothing was granted for it.
LEMMA LogsStay ==
    ASSUME QuotaInv, now' = now
    PROVE  /\ \/ rolling' # rolling
              \/ \E who, start : GrantedSince("authenticated", who, start)' # GrantedSince("authenticated", who, start)
              \/ RollingInv(rolling)'
           /\ \/ attempts' # attempts
              \/ \E who, start : GrantedSince("attempt", who, start)' # GrantedSince("attempt", who, start)
              \/ AttemptsInv(attempts)'
<1>1. ASSUME rolling' = rolling,
             \A who, start : GrantedSince("authenticated", who, start)' = GrantedSince("authenticated", who, start)
      PROVE  RollingInv(rolling)'
  <2>1. PICK log : log = rolling
    OBVIOUS
  <2>2. LogInv(log, "authenticated", MINUTE, AUTH_GLOBAL_PER_MINUTE, AUTH_PER_MINUTE)
    BY <2>1 DEF QuotaInv, RollingInv
  <2>3. LogInv(log, "authenticated", MINUTE, AUTH_GLOBAL_PER_MINUTE, AUTH_PER_MINUTE)'
    BY <1>1, <2>2, LogStays DEF QuotaInv
  <2>. QED
    BY <1>1, <2>1, <2>3 DEF RollingInv, LogInv, LogOK, Matches, Since, Cost, Units, Lately
<1>2. ASSUME attempts' = attempts,
             \A who, start : GrantedSince("attempt", who, start)' = GrantedSince("attempt", who, start)
      PROVE  AttemptsInv(attempts)'
  <2>1. PICK log : log = attempts
    OBVIOUS
  <2>2. /\ LogInv(log, "attempt", ATTEMPT_WINDOW, ATTEMPT_GLOBAL_LIMIT, ATTEMPT_CLIENT_LIMIT)
        /\ \A i \in DOMAIN log : log[i].cost = 1
    BY <2>1 DEF QuotaInv, AttemptsInv
  <2>3. LogInv(log, "attempt", ATTEMPT_WINDOW, ATTEMPT_GLOBAL_LIMIT, ATTEMPT_CLIENT_LIMIT)'
    BY <1>2, <2>2, LogStays DEF QuotaInv
  <2>. QED
    BY <1>2, <2>1, <2>2, <2>3 DEF AttemptsInv, LogInv, LogOK, Matches, Since, Cost, Units, Lately
<1>. QED
  BY <1>1, <1>2

\* A grant changes no other namespace's counts.
LEMMA GrantElsewhere ==
    ASSUME TokensOK, NEW namespace, NEW client \in Clients, NEW cost \in Costs, NEW at \in Nat,
           at <= now, now' = now, Grant(namespace, client, cost, at), NEW ns, ns # namespace
    PROVE  \A who, start : GrantedSince(ns, who, start)' = GrantedSince(ns, who, start)
<1>1. \A any, who, start :
         GrantedSince(any, who, start)' =
             GrantedSince(any, who, start) + IF any = namespace /\ client \in who /\ at >= start THEN cost ELSE 0
  BY GrantAdds
<1>2. \A who, start : GrantedSince(ns, who, start) \in Nat
  BY TokenCounts
<1>. QED
  BY <1>1, <1>2

\* The same tokens are the same counts.
LEMMA NothingGranted ==
    ASSUME TokensOK, granted' = granted, now' = now
    PROVE  /\ TokensOK'
           /\ \A namespace, who, start :
                GrantedSince(namespace, who, start)' = GrantedSince(namespace, who, start)
BY DEF TokensOK, TokenOK, Twins, GrantedSince

\* Public scans and reads: their counters move, and the logs do not.
LEMMA FixedStep ==
    ASSUME QuotaInv, NEW namespace \in FixedNamespaces, NEW c \in Clients, NEW cost \in Costs,
           NEW consume \in BOOLEAN,
           EvaluateFixed(namespace, c, WindowsOf(namespace, c, now), cost, consume)
    PROVE  QuotaInv'
<1> DEFINE windows == WindowsOf(namespace, c, now)
<1>1. now \in Nat /\ TokensOK /\ BucketInv
  BY DEF QuotaInv
<1>2. PICK swept \in Cleaned(buckets, now) :
         /\ buckets' = IF consume THEN ChargedRows(swept, windows, cost, now) ELSE swept
         /\ IF FixedDecision(swept, windows, cost, now).allowed /\ consume
            THEN Grant(namespace, c, cost, (now \div MINUTE) * MINUTE)
            ELSE granted' = granted
         /\ now' = now /\ rolling' = rolling /\ attempts' = attempts
  BY DEF EvaluateFixed
<1>3. CASE FixedDecision(swept, windows, cost, now).allowed /\ consume
  <2>1. buckets' = ChargedRows(swept, windows, cost, now) /\ Grant(namespace, c, cost, (now \div MINUTE) * MINUTE)
    BY <1>2, <1>3
  <2>2. BucketInv'
    BY <1>1, <1>2, <1>3, <2>1, CountersCharged
  <2>. HIDE DEF windows
  <2>3. PICK at \in Nat : at = (now \div MINUTE) * MINUTE /\ at <= now
    <3>1. MINUTE \in Spans(namespace)
      BY DEF Spans
    <3>. QED
      BY <1>1, <3>1, MinuteOfWindow
  <2>4. TokensOK'
    BY <1>1, <1>2, <2>1, <2>3, GrantAdds
  <2>5. \A ns : ns # namespace =>
           \A who, start : GrantedSince(ns, who, start)' = GrantedSince(ns, who, start)
    BY <1>1, <1>2, <2>1, <2>3, GrantElsewhere
  <2>6. RollingInv(rolling)' /\ AttemptsInv(attempts)'
    BY <1>2, <2>5, LogsStay, Namespaces
  <2>. QED
    BY <1>1, <1>2, <2>2, <2>4, <2>6 DEF QuotaInv
<1>4. CASE ~(FixedDecision(swept, windows, cost, now).allowed /\ consume)
  <2>1. granted' = granted /\ buckets' = swept
    BY <1>2, <1>4 DEF ChargedRows
  <2>2. /\ TokensOK'
        /\ \A ns, who, start : GrantedSince(ns, who, start)' = GrantedSince(ns, who, start)
    BY <1>1, <1>2, <2>1, NothingGranted
  <2>3. /\ DOMAIN swept \in SUBSET DOMAIN buckets
        /\ \A b \in DOMAIN swept : swept[b] = buckets[b]
        /\ \A b : Used(swept, b, now) = Used(buckets, b, now)
    <3>1. \A b \in DOMAIN buckets : CounterOK(b)
      BY <1>1 DEF BucketInv
    <3>. QED
      BY <1>1, <3>1, CleanedCounters
  <2>4. BucketInv'
    BY <1>1, <1>2, <2>1, <2>2, <2>3, CountersKept
  <2>5. RollingInv(rolling)' /\ AttemptsInv(attempts)'
    BY <1>2, <2>2, LogsStay
  <2>. QED
    BY <1>1, <1>2, <2>2, <2>4, <2>5 DEF QuotaInv
<1>. QED
  BY <1>3, <1>4

\* A log that only a sweep has touched.
LEMMA SweptStep ==
    ASSUME now \in Nat, TokensOK, now' = now, granted' = granted,
           NEW log, NEW namespace, NEW window \in Nat \ {0}, NEW limit \in Nat, NEW own,
           LogInv(log, namespace, window, limit, own), NEW batch \in Nat \ {0},
           NEW kept, kept = CleanedLog(log, window, batch, now)
    PROVE  LogInv(kept, namespace, window, limit, own)'
<1>1. LogInv(kept, namespace, window, limit, own)
  BY SweptLog
<1>2. \A who, start : GrantedSince(namespace, who, start)' = GrantedSince(namespace, who, start)
  BY NothingGranted
<1>. QED
  BY <1>1, <1>2, LogStays

\* The counters where only the logs move.
LEMMA CountersStay ==
    ASSUME QuotaInv, now' = now, buckets' = buckets,
           \A ns \in FixedNamespaces : \A who, start : GrantedSince(ns, who, start)' = GrantedSince(ns, who, start)
    PROVE  BucketInv'
BY CountersKept DEF QuotaInv

\* Authenticated scans: a charge fits the ceilings as the swept log reads them.
LEMMA RollingStep ==
    ASSUME QuotaInv, NEW c \in Clients, NEW cost \in Costs, NEW consume \in BOOLEAN,
           EvaluateRolling(c, cost, consume)
    PROVE  QuotaInv'
<1>1. PICK log : log = rolling
  OBVIOUS
<1> DEFINE kept == CleanedLog(log, MINUTE, CLEANUP_MAX_ROWS, now)
           allowed == AuthenticatedDecision(kept, c, cost, now).allowed
<1>2. /\ IF allowed /\ consume
         THEN /\ rolling' = Append(kept, Charge(c, cost))
              /\ Grant("authenticated", c, cost, now)
         ELSE rolling' = kept /\ granted' = granted
      /\ now' = now /\ buckets' = buckets /\ attempts' = attempts
  BY <1>1 DEF EvaluateRolling
<1>3. /\ now \in Nat /\ TokensOK
      /\ LogInv(log, "authenticated", MINUTE, AUTH_GLOBAL_PER_MINUTE, AUTH_PER_MINUTE)
      /\ MINUTE \in Nat \ {0} /\ CLEANUP_MAX_ROWS \in Nat \ {0}
      /\ AUTH_GLOBAL_PER_MINUTE \in Nat /\ AUTH_PER_MINUTE \in Nat
  BY <1>1, Constants DEF QuotaInv, RollingInv
<1>4. LogInv(kept, "authenticated", MINUTE, AUTH_GLOBAL_PER_MINUTE, AUTH_PER_MINUTE)
  BY <1>3, SweptLog
<1>5. CASE allowed /\ consume
  <2>1. PICK new : new = rolling'
    OBVIOUS
  <2>2. /\ Lately("authenticated", Clients, MINUTE) + cost <= AUTH_GLOBAL_PER_MINUTE
        /\ Lately("authenticated", {c}, MINUTE) + cost <= AUTH_PER_MINUTE
    <3>. HIDE DEF kept
    <3>. QED
      BY <1>3, <1>4, <1>5, AuthenticatedFits
  <2>3. new = Append(kept, Charge(c, cost)) /\ Grant("authenticated", c, cost, now)
    BY <1>2, <1>5, <2>1
  <2>4. LogInv(new, "authenticated", MINUTE, AUTH_GLOBAL_PER_MINUTE, AUTH_PER_MINUTE)'
    BY <1>2, <1>3, <2>2, <2>3, ChargedLog
  <2>. HIDE DEF kept
  <2>5. TokensOK'
    BY <1>2, <1>3, <2>3, GrantAdds
  <2>6. \A ns : ns # "authenticated" =>
           \A who, start : GrantedSince(ns, who, start)' = GrantedSince(ns, who, start)
    BY <1>2, <1>3, <2>3, GrantElsewhere
  <2>7. AttemptsInv(attempts)' /\ BucketInv'
    BY <1>2, <2>6, LogsStay, CountersStay, Namespaces
  <2>8. RollingInv(rolling)'
    BY <2>1, <2>4 DEF RollingInv, LogInv, LogOK, Matches, Since, Cost, Units, Lately
  <2>. QED
    BY <1>2, <1>3, <2>5, <2>7, <2>8 DEF QuotaInv
<1>6. CASE ~(allowed /\ consume)
  <2>1. PICK new : new = rolling'
    OBVIOUS
  <2>2. new = kept /\ granted' = granted
    BY <1>2, <1>6, <2>1
  <2>3. LogInv(new, "authenticated", MINUTE, AUTH_GLOBAL_PER_MINUTE, AUTH_PER_MINUTE)'
    BY <1>2, <1>3, <2>2, SweptStep
  <2>. HIDE DEF kept
  <2>4. TokensOK' /\ \A ns, who, start : GrantedSince(ns, who, start)' = GrantedSince(ns, who, start)
    BY <1>2, <1>3, <2>2, NothingGranted
  <2>5. AttemptsInv(attempts)' /\ BucketInv'
    BY <1>2, <2>4, LogsStay, CountersStay
  <2>6. RollingInv(rolling)'
    BY <2>1, <2>3 DEF RollingInv, LogInv, LogOK, Matches, Since, Cost, Units, Lately
  <2>. QED
    BY <1>2, <1>3, <2>4, <2>5, <2>6 DEF QuotaInv
<1>. QED
  BY <1>5, <1>6

\* Admission attempts, each at a cost of one.
LEMMA AttemptStep ==
    ASSUME QuotaInv, NEW c \in Clients, ChargeAdmissionAttempt(c)
    PROVE  QuotaInv'
<1>1. PICK log : log = attempts
  OBVIOUS
<1> DEFINE kept == CleanedLog(log, ATTEMPT_WINDOW, ATTEMPT_GLOBAL_LIMIT, now)
           allowed == AttemptDecision(kept, c, now).allowed
<1>2. /\ IF allowed
         THEN /\ attempts' = Append(kept, Charge(c, 1))
              /\ Grant("attempt", c, 1, now)
         ELSE attempts' = kept /\ granted' = granted
      /\ now' = now /\ buckets' = buckets /\ rolling' = rolling
  BY <1>1 DEF ChargeAdmissionAttempt
<1>3. /\ now \in Nat /\ TokensOK
      /\ LogInv(log, "attempt", ATTEMPT_WINDOW, ATTEMPT_GLOBAL_LIMIT, ATTEMPT_CLIENT_LIMIT)
      /\ \A i \in DOMAIN log : log[i].cost = 1
      /\ ATTEMPT_WINDOW \in Nat \ {0} /\ ATTEMPT_GLOBAL_LIMIT \in Nat \ {0}
      /\ ATTEMPT_GLOBAL_LIMIT \in Nat /\ ATTEMPT_CLIENT_LIMIT \in Nat /\ 1 \in Costs
  BY <1>1, Constants DEF QuotaInv, AttemptsInv, Costs
<1>4. /\ LogInv(kept, "attempt", ATTEMPT_WINDOW, ATTEMPT_GLOBAL_LIMIT, ATTEMPT_CLIENT_LIMIT)
      /\ \A i \in DOMAIN kept : kept[i].cost = 1
  <2>1. LogInv(kept, "attempt", ATTEMPT_WINDOW, ATTEMPT_GLOBAL_LIMIT, ATTEMPT_CLIENT_LIMIT)
    BY <1>3, SweptLog
  <2>2. LogOK(log)
    BY <1>3 DEF LogInv
  <2>3. \A i \in DOMAIN kept : kept[i].cost = 1
    BY <1>3, <2>2, CleanedLogs
  <2>. QED
    BY <2>1, <2>3
<1>5. CASE allowed
  <2>1. PICK new : new = attempts'
    OBVIOUS
  <2>2. /\ Lately("attempt", Clients, ATTEMPT_WINDOW) + 1 <= ATTEMPT_GLOBAL_LIMIT
        /\ Lately("attempt", {c}, ATTEMPT_WINDOW) + 1 <= ATTEMPT_CLIENT_LIMIT
    <3>. HIDE DEF kept
    <3>. QED
      BY <1>3, <1>4, <1>5, AttemptFits
  <2>3. new = Append(kept, Charge(c, 1)) /\ Grant("attempt", c, 1, now)
    BY <1>2, <1>5, <2>1
  <2>4. LogInv(new, "attempt", ATTEMPT_WINDOW, ATTEMPT_GLOBAL_LIMIT, ATTEMPT_CLIENT_LIMIT)'
    BY <1>2, <1>3, <2>2, <2>3, ChargedLog
  <2>. HIDE DEF kept
  <2>5. \A i \in DOMAIN new : new[i].cost = 1
    <3>1. kept \in Seq(Row) /\ Charge(c, 1) \in Row /\ Charge(c, 1).cost = 1
      BY <1>3, <1>4 DEF LogInv, LogOK, Charge, Row
    <3>2. /\ DOMAIN new = DOMAIN kept \cup {Len(kept) + 1}
          /\ new[Len(kept) + 1] = Charge(c, 1)
          /\ \A i \in DOMAIN kept : new[i] = kept[i]
      BY <2>3, <3>1, AppendedCost
    <3>. QED
      BY <1>4, <3>1, <3>2
  <2>6. TokensOK'
    BY <1>2, <1>3, <2>3, GrantAdds
  <2>7. \A ns : ns # "attempt" =>
           \A who, start : GrantedSince(ns, who, start)' = GrantedSince(ns, who, start)
    BY <1>2, <1>3, <2>3, GrantElsewhere
  <2>8. RollingInv(rolling)' /\ BucketInv'
    BY <1>2, <2>7, LogsStay, CountersStay, Namespaces
  <2>9. AttemptsInv(attempts)'
    BY <2>1, <2>4, <2>5 DEF AttemptsInv, LogInv, LogOK, Matches, Since, Cost, Units, Lately
  <2>. QED
    BY <1>2, <1>3, <2>6, <2>8, <2>9 DEF QuotaInv
<1>6. CASE ~allowed
  <2>1. PICK new : new = attempts'
    OBVIOUS
  <2>2. new = kept /\ granted' = granted
    BY <1>2, <1>6, <2>1
  <2>3. LogInv(new, "attempt", ATTEMPT_WINDOW, ATTEMPT_GLOBAL_LIMIT, ATTEMPT_CLIENT_LIMIT)'
    BY <1>2, <1>3, <2>2, SweptStep
  <2>. HIDE DEF kept
  <2>4. TokensOK' /\ \A ns, who, start : GrantedSince(ns, who, start)' = GrantedSince(ns, who, start)
    BY <1>2, <1>3, <2>2, NothingGranted
  <2>5. RollingInv(rolling)' /\ BucketInv'
    BY <1>2, <2>4, LogsStay, CountersStay
  <2>6. AttemptsInv(attempts)'
    BY <1>4, <2>1, <2>2, <2>3 DEF AttemptsInv, LogInv, LogOK, Matches, Since, Cost, Units, Lately
  <2>. QED
    BY <1>2, <1>3, <2>4, <2>5, <2>6 DEF QuotaInv
<1>. QED
  BY <1>5, <1>6

\* The clock.
LEMMA TickStep ==
    ASSUME QuotaInv, Tick
    PROVE  QuotaInv'
<1>1. now \in Nat /\ TokensOK /\ BucketInv /\ now' = now + 1 /\ rolling' = rolling /\ attempts' = attempts
  BY DEF QuotaInv, Tick
<1>2. /\ MINUTE \in Nat \ {0} /\ ATTEMPT_WINDOW \in Nat \ {0} /\ MINUTE <= DAY /\ ATTEMPT_WINDOW <= DAY
      /\ AUTH_GLOBAL_PER_MINUTE \in Nat /\ AUTH_PER_MINUTE \in Nat
      /\ ATTEMPT_GLOBAL_LIMIT \in Nat /\ ATTEMPT_CLIENT_LIMIT \in Nat
  BY Constants
<1>3. RollingInv(rolling)'
  <2>1. PICK log : log = rolling
    OBVIOUS
  <2>2. LogInv(log, "authenticated", MINUTE, AUTH_GLOBAL_PER_MINUTE, AUTH_PER_MINUTE)
    BY <2>1 DEF QuotaInv, RollingInv
  <2>3. LogInv(log, "authenticated", MINUTE, AUTH_GLOBAL_PER_MINUTE, AUTH_PER_MINUTE)'
    BY <1>1, <1>2, <2>2, LogAges
  <2>. QED
    BY <1>1, <2>1, <2>3 DEF RollingInv, LogInv, LogOK, Matches, Since, Cost, Units, Lately
<1>4. AttemptsInv(attempts)'
  <2>1. PICK log : log = attempts
    OBVIOUS
  <2>2. /\ LogInv(log, "attempt", ATTEMPT_WINDOW, ATTEMPT_GLOBAL_LIMIT, ATTEMPT_CLIENT_LIMIT)
        /\ \A i \in DOMAIN log : log[i].cost = 1
    BY <2>1 DEF QuotaInv, AttemptsInv
  <2>3. LogInv(log, "attempt", ATTEMPT_WINDOW, ATTEMPT_GLOBAL_LIMIT, ATTEMPT_CLIENT_LIMIT)'
    BY <1>1, <1>2, <2>2, LogAges
  <2>. QED
    BY <1>1, <2>1, <2>2, <2>3 DEF AttemptsInv, LogInv, LogOK, Matches, Since, Cost, Units, Lately
<1>5. TokensOK' /\ BucketInv'
  BY <1>1, TokensAge, CountersAge
<1>. QED
  BY <1>1, <1>3, <1>4, <1>5 DEF QuotaInv

\* Every step keeps the invariant.
LEMMA QuotaStep ==
    ASSUME QuotaInv, [Next]_vars
    PROVE  QuotaInv'
<1>1. CASE Tick
  BY <1>1, TickStep
<1>2. ASSUME NEW c \in Clients, NEW cost \in Costs, ChargePublicScan(c, cost) \/ PeekPublicScan(c, cost)
      PROVE  QuotaInv'
  <2>1. "public-scan" \in FixedNamespaces /\ WindowsOf("public-scan", c, now) = PublicWindows(c, now)
    BY DEF FixedNamespaces, WindowsOf
  <2>2. \/ EvaluateFixed("public-scan", c, WindowsOf("public-scan", c, now), cost, TRUE)
        \/ EvaluateFixed("public-scan", c, WindowsOf("public-scan", c, now), cost, FALSE)
    BY <1>2, <2>1 DEF ChargePublicScan, PeekPublicScan
  <2>. QED
    BY <2>1, <2>2, FixedStep
<1>3. ASSUME NEW c \in Clients, NEW namespace \in READS, ChargeRead(namespace, c)
      PROVE  QuotaInv'
  <2>1. namespace # "public-scan"
    BY PublicScanQuotaAssumption
  <2>2. namespace \in FixedNamespaces /\ WindowsOf(namespace, c, now) = ReadWindows(namespace, c, now)
    BY <2>1 DEF FixedNamespaces, WindowsOf
  <2>3. EvaluateFixed(namespace, c, WindowsOf(namespace, c, now), 1, TRUE)
    BY <1>3, <2>2 DEF ChargeRead
  <2>4. 1 \in Costs
    BY DEF Costs
  <2>. QED
    BY <2>2, <2>3, <2>4, FixedStep
<1>4. ASSUME NEW c \in Clients, NEW cost \in Costs, ChargeAuthenticatedScan(c, cost) \/ PeekAuthenticatedScan(c, cost)
      PROVE  QuotaInv'
  BY <1>4, RollingStep DEF ChargeAuthenticatedScan, PeekAuthenticatedScan
<1>5. ASSUME NEW c \in Clients, ChargeAdmissionAttempt(c)
      PROVE  QuotaInv'
  BY <1>5, AttemptStep
<1>6. CASE UNCHANGED vars
  <2>1. now' = now /\ granted' = granted /\ buckets' = buckets /\ rolling' = rolling /\ attempts' = attempts
    BY <1>6 DEF vars
  <2>2. TokensOK' /\ \A ns, who, start : GrantedSince(ns, who, start)' = GrantedSince(ns, who, start)
    BY <2>1, NothingGranted DEF QuotaInv
  <2>3. RollingInv(rolling)' /\ AttemptsInv(attempts)' /\ BucketInv'
    BY <2>1, <2>2, LogsStay, CountersStay
  <2>. QED
    BY <2>1, <2>2, <2>3 DEF QuotaInv
<1>. QED
  BY <1>1, <1>2, <1>3, <1>4, <1>5, <1>6 DEF Next

\* Nothing is granted at first, and nothing is counted.
LEMMA QuotaStarts == ASSUME Init PROVE QuotaInv
<1>1. now = 0 /\ buckets = << >> /\ rolling = << >> /\ attempts = << >> /\ granted = {}
  BY DEF Init
<1>2. \A namespace, who, start : GrantedSince(namespace, who, start) = 0
  <2>1. \A namespace, who, start : TokensSince(namespace, who, start) = {}
    BY <1>1 DEF TokensSince
  <2>. QED
    BY <2>1, FS_EmptySet DEF TokensSince, GrantedSince
<1>3. TokensOK
  BY <1>1, FS_EmptySet DEF TokensOK
<1>4. ASSUME NEW namespace, NEW window, NEW limit \in Nat, NEW own \in Nat
      PROVE  LogInv(<< >>, namespace, window, limit, own)
  <2>1. << >> \in Seq(Row) /\ DOMAIN << >> = {} /\ Len(<< >>) = 0
    OBVIOUS
  <2>2. \A who, start : Cost(<< >>, Since(<< >>, who, start)) = 0
    <3>1. \A who, start : Units(<< >>, Since(<< >>, who, start)) = {}
      BY <2>1 DEF Units, Since
    <3>. QED
      BY <3>1, FS_EmptySet DEF Cost
  <2>. QED
    BY <1>2, <2>1, <2>2 DEF LogInv, LogOK, Matches, Lately
<1>5. RollingInv(rolling) /\ AttemptsInv(attempts)
  BY <1>1, <1>4, Constants DEF RollingInv, AttemptsInv
<1>6. BucketInv
  <2>1. DOMAIN buckets = {} /\ \A b : Used(buckets, b, now) = 0
    BY <1>1 DEF Used
  <2>2. ASSUME NEW namespace \in FixedNamespaces, NEW c \in Clients, NEW w \in WindowsOf(namespace, c, now)
        PROVE  0 <= w.limit
    BY CallWindows DEF IsWindow
  <2>. QED
    BY <1>2, <2>1, <2>2 DEF BucketInv, Counts, Fits
<1>. QED
  BY <1>1, <1>3, <1>5, <1>6 DEF QuotaInv

\* So it holds throughout.
THEOREM QuotasAreCounted == Spec => []QuotaInv
BY QuotaStarts, QuotaStep, PTL DEF Spec
-----------------------------------------------------------------------------
(* What it gives.                                                          *)

\* A counter that a call would touch is what was granted in its window, within the limit.
LEMMA WindowCounted ==
    ASSUME QuotaInv, NEW w \in CurrentWindows
    PROVE  Used(buckets, w.bucket, now) = GrantedIn(w) /\ GrantedIn(w) <= w.limit
<1>1. PICK namespace \in FixedNamespaces, c \in Clients : w \in WindowsOf(namespace, c, now)
  BY DEF CurrentWindows
<1>2. PICK who \in {Everyone, c}, span \in Spans(namespace) : IsWindow(w, namespace, who, span, now)
  BY <1>1, CallWindows
<1>3. /\ w.bucket = Current(namespace, who, span) /\ w.bucket[1] = namespace /\ w.bucket[2] = who
      /\ w.bucket[3] = span /\ w.bucket[4] = now \div span /\ who \in Accounts
  BY <1>2 DEF IsWindow, Bucket, Current, Accounts
<1>4. Used(buckets, w.bucket, now) = GrantedSince(namespace, Who(who), (now \div span) * span)
  BY <1>3 DEF QuotaInv, BucketInv, Counts
<1>5. Used(buckets, w.bucket, now) <= w.limit
  BY <1>1 DEF QuotaInv, BucketInv, Fits
<1>. QED
  BY <1>3, <1>4, <1>5 DEF GrantedIn

\* A stored counter is exactly what was granted in its window.
THEOREM CountersAreGrants == Spec => []CountersMatchGrants
<1>1. QuotaInv => CountersMatchGrants
  BY WindowCounted DEF CountersMatchGrants
<1>. QED
  BY <1>1, QuotasAreCounted, PTL

\* Nobody is granted more than the policy allows, in a fixed window or over the length of a
\* rolling ceiling that ends at any instant.
THEOREM QuotasHold == Spec => []QuotaHolds
<1>1. ASSUME QuotaInv
      PROVE  QuotaHolds
  <2>1. \A w \in CurrentWindows : GrantedIn(w) <= w.limit
    BY <1>1, WindowCounted
  <2>2. /\ Lately("authenticated", Clients, MINUTE) <= AUTH_GLOBAL_PER_MINUTE
        /\ Lately("attempt", Clients, ATTEMPT_WINDOW) <= ATTEMPT_GLOBAL_LIMIT
        /\ \A c \in Clients : /\ Lately("authenticated", {c}, MINUTE) <= AUTH_PER_MINUTE
                              /\ Lately("attempt", {c}, ATTEMPT_WINDOW) <= ATTEMPT_CLIENT_LIMIT
    BY <1>1 DEF QuotaInv, RollingInv, AttemptsInv, LogInv
  <2>. QED
    BY <2>1, <2>2 DEF QuotaHolds, Lately
<1>. QED
  BY <1>1, QuotasAreCounted, PTL

\* A window's client rows are no more than its tokens: each client who has one was granted one.
LEMMA ClientRows ==
    ASSUME QuotaInv, NEW namespace \in FixedNamespaces, NEW span \in Spans(namespace)
    PROVE  LET rows == {b \in DOMAIN buckets :
                          /\ b[2] # Everyone
                          /\ <<b[1], b[3], b[4]>> = <<namespace, span, now \div span>>}
           IN  IsFiniteSet(rows) /\ Cardinality(rows) <= GrantedSince(namespace, Clients, (now \div span) * span)
<1> DEFINE id == now \div span
           start == id * span
           rows == {b \in DOMAIN buckets :
                      /\ b[2] # Everyone
                      /\ <<b[1], b[3], b[4]>> = <<namespace, span, id>>}
           tokens == TokensSince(namespace, Clients, start)
           token(b) == CHOOSE g \in tokens : g.client = b[2]
           f == [b \in rows |-> token(b)]
<1>1. now \in Nat /\ TokensOK /\ BucketInv
  BY DEF QuotaInv
<1>2. ASSUME NEW b \in rows
      PROVE  /\ b[2] \in Clients /\ b = Bucket(namespace, b[2], span, id)
             /\ \E g \in tokens : g.client = b[2]
  <2>1. b \in DOMAIN buckets /\ b[2] # Everyone /\ b[1] = namespace /\ b[3] = span /\ b[4] = id
    OBVIOUS
  <2>2. CounterOK(b)
    BY <1>1, <2>1 DEF BucketInv
  <2>3. PICK ns \in FixedNamespaces, who \in Accounts : \E length \in Spans(ns) :
           \E nth \in 0..(now \div length) :
              b = Bucket(ns, who, length, nth) /\ buckets[b].expiresAt = (nth + 1) * length
    BY <2>2 DEF CounterOK
  <2>4. PICK length \in Spans(ns) : \E nth \in 0..(now \div length) :
              b = Bucket(ns, who, length, nth) /\ buckets[b].expiresAt = (nth + 1) * length
    BY <2>3
  <2>5. PICK nth \in 0..(now \div length) :
              b = Bucket(ns, who, length, nth) /\ buckets[b].expiresAt = (nth + 1) * length
    BY <2>4
  <2>6. ns = namespace /\ who = b[2] /\ length = span /\ nth = id
    BY <2>1, <2>5 DEF Bucket
  <2>7. b[2] \in Clients /\ b = Bucket(namespace, b[2], span, id) /\ buckets[b].expiresAt = (id + 1) * span
    BY <2>1, <2>3, <2>5, <2>6 DEF Accounts
  <2>8. buckets[b].expiresAt > now
    <3>1. now < (now \div span + 1) * span
      BY <1>1, SpanTypes, WindowOf
    <3>2. PICK until \in Int : until = (now \div span + 1) * span
      BY <1>1, SpanTypes, WindowOf
    <3>. QED
      BY <1>1, <2>7, <3>1, <3>2
  <2>9. Used(buckets, b, now) \in Nat \ {0}
    <3>1. buckets[b].used \in Nat \ {0}
      BY <2>2 DEF CounterOK
    <3>. QED
      BY <2>1, <2>8, <3>1 DEF Used
  <2>10. Used(buckets, b, now) = GrantedSince(namespace, {b[2]}, start)
    <3>1. b[2] \in Accounts /\ Who(b[2]) = {b[2]} /\ b = Current(namespace, b[2], span)
      BY <2>1, <2>7 DEF Accounts, Who, Current
    <3>2. Counts(namespace, b[2], span)
      BY <1>1, <3>1 DEF BucketInv
    <3>. QED
      BY <3>1, <3>2 DEF Counts
  <2>11. TokensSince(namespace, {b[2]}, start) # {}
    <3>1. GrantedSince(namespace, {b[2]}, start) = Cardinality(TokensSince(namespace, {b[2]}, start))
      BY DEF GrantedSince, TokensSince
    <3>. HIDE DEF start
    <3>. QED
      BY <2>9, <2>10, <3>1, FS_EmptySet
  <2>. QED
    BY <2>7, <2>11 DEF TokensSince
<1>3. IsFiniteSet(tokens) /\ GrantedSince(namespace, Clients, start) = Cardinality(tokens)
  <2>. HIDE DEF start
  <2>. QED
    BY <1>1, TokenCounts
<1>. HIDE DEF tokens, rows, id
<1>4. \A b \in rows : token(b) \in tokens /\ token(b).client = b[2]
  BY <1>2
<1>5. f \in Injection(rows, tokens)
  <2>1. f \in [rows -> tokens]
    BY <1>4
  <2>2. \A a, b \in rows : f[a] = f[b] => a = b
    <3>. SUFFICES ASSUME NEW a \in rows, NEW b \in rows, f[a] = f[b]
                  PROVE  a = b
      OBVIOUS
    <3>1. a[2] = b[2]
      <4>1. f[a].client = a[2] /\ f[b].client = b[2]
        BY <1>4
      <4>. HIDE DEF f
      <4>. QED
        BY <4>1
    <3>. QED
      BY <1>2, <3>1
  <2>. HIDE DEF f
  <2>. QED
    BY <2>1, <2>2 DEF Injection, IsInjective
<1>6. IsFiniteSet(rows) /\ Cardinality(rows) <= Cardinality(tokens)
  <2>. HIDE DEF f
  <2>. QED
    BY <1>3, <1>5, FS_Injection DEF ExistsInjection
<1>. QED
  BY <1>3, <1>6 DEF rows, id
\* Rotating identities cannot grow the tables.
THEOREM TablesAreBounded == Spec => []TablesStayBounded
<1>1. ASSUME QuotaInv, NEW w \in CurrentWindows, w.bucket[2] = Everyone
      PROVE  Cardinality({b \in DOMAIN buckets :
                            /\ b[2] # Everyone
                            /\ <<b[1], b[3], b[4]>> = <<w.bucket[1], w.bucket[3], w.bucket[4]>>})
               <= w.limit
  <2>1. PICK namespace \in FixedNamespaces, c \in Clients : w \in WindowsOf(namespace, c, now)
    BY DEF CurrentWindows
  <2>2. PICK who \in {Everyone, c}, span \in Spans(namespace) : IsWindow(w, namespace, who, span, now)
    BY <2>1, CallWindows
  <2>3. /\ w.bucket[1] = namespace /\ w.bucket[3] = span /\ w.bucket[4] = now \div span
        /\ w.limit \in Nat
    BY <2>2 DEF IsWindow, Bucket
  <2> DEFINE rows == {b \in DOMAIN buckets :
                        /\ b[2] # Everyone
                        /\ <<b[1], b[3], b[4]>> = <<namespace, span, now \div span>>}
  <2>4. IsFiniteSet(rows) /\ Cardinality(rows) <= GrantedSince(namespace, Clients, (now \div span) * span)
    BY <1>1, ClientRows
  <2>5. GrantedIn(w) = GrantedSince(namespace, Clients, (now \div span) * span)
    BY <1>1, <2>3 DEF GrantedIn, Who
  <2>6. GrantedIn(w) <= w.limit /\ GrantedIn(w) \in Nat
    BY <1>1, <2>5, WindowCounted, TokenCounts DEF QuotaInv
  <2>7. rows = {b \in DOMAIN buckets :
                  /\ b[2] # Everyone
                  /\ <<b[1], b[3], b[4]>> = <<w.bucket[1], w.bucket[3], w.bucket[4]>>}
    BY <2>3
  <2>. HIDE DEF rows
  <2>8. Cardinality(rows) \in Nat
    BY <2>4, FS_CardinalityType
  <2>9. Cardinality(rows) <= w.limit
    BY <2>3, <2>4, <2>5, <2>6, <2>8
  <2>. QED
    BY <2>7, <2>9
<1>2. ASSUME QuotaInv
      PROVE  Len(rolling) <= AUTH_GLOBAL_PER_MINUTE /\ Len(attempts) <= ATTEMPT_GLOBAL_LIMIT
  BY <1>2 DEF QuotaInv, RollingInv, AttemptsInv, LogInv
<1>3. QuotaInv => TablesStayBounded
  BY <1>1, <1>2 DEF TablesStayBounded
<1>. QED
  BY <1>3, QuotasAreCounted, PTL
-----------------------------------------------------------------------------
(* The wait that a refusal names.                                          *)

\* The larger of two numbers.
LEMMA MaxOfTwo ==
    ASSUME NEW m \in Int, NEW n \in Int
    PROVE  Max({m, n}) \in {m, n} /\ m <= Max({m, n}) /\ n <= Max({m, n})
<1>1. \E x \in {m, n} : \A y \in {m, n} : x >= y
  BY SMT
<1>2. /\ Max({m, n}) \in {m, n}
      /\ \A y \in {m, n} : Max({m, n}) >= y
  BY <1>1 DEF Max
<1>. QED
  BY <1>2

\* The largest of finitely many.
LEMMA MaxOfMany ==
    ASSUME NEW S \in SUBSET Nat, IsFiniteSet(S), S # {}
    PROVE  Max(S) \in S /\ \A x \in S : x <= Max(S)
<1>1. Cardinality(S) \in Nat /\ Cardinality(S) > 0
  BY FS_CardinalityType, FS_EmptySet
<1>2. PICK i \in S : Cardinality({j \in S : j > i}) = 0
  BY <1>1, OneHasAfter
<1>3. {j \in S : j > i} = {}
  <2>1. {j \in S : j > i} \in SUBSET S
    OBVIOUS
  <2>. QED
    BY <1>2, <2>1, FS_Subset, FS_EmptySet
<1>4. \E x \in S : \A y \in S : x >= y
  BY <1>3
<1>5. Max(S) \in S /\ \A y \in S : Max(S) >= y
  BY <1>4 DEF Max
<1>. QED
  BY <1>5

\* Whole seconds, rounded up, reach the instant they are counted to.
LEMMA WaitReaches ==
    ASSUME now \in Nat, NEW until \in Nat
    PROVE  /\ now + Refused(until, now).retryAfter * SECOND \in Nat
           /\ now + Refused(until, now).retryAfter * SECOND >= now
           /\ now + Refused(until, now).retryAfter * SECOND >= until
<1>1. SECOND \in Nat \ {0}
  BY Constants
<1>2. PICK gap \in Int : gap = until - now + SECOND - 1
  BY <1>1
<1>3. PICK whole \in Int : whole = gap \div SECOND
  BY <1>1, <1>2
<1>4. gap < (whole + 1) * SECOND
  BY <1>1, <1>2, <1>3
<1>5. PICK wait \in Int : wait = Refused(until, now).retryAfter /\ wait >= 1 /\ wait >= whole
  <2>1. Refused(until, now).retryAfter = Max({1, whole})
    BY <1>2, <1>3 DEF Refused
  <2>2. Max({1, whole}) \in {1, whole} /\ 1 <= Max({1, whole}) /\ whole <= Max({1, whole})
    BY MaxOfTwo
  <2>. QED
    BY <2>1, <2>2
<1>6. wait * SECOND \in Int /\ whole * SECOND \in Int /\ (whole + 1) * SECOND = whole * SECOND + SECOND
  BY <1>1
<1>7. wait * SECOND >= whole * SECOND /\ wait * SECOND >= 0
  BY <1>1, <1>5
<1>8. wait * SECOND >= until - now
  BY <1>1, <1>2, <1>4, <1>6, <1>7
<1>. QED
  BY <1>5, <1>6, <1>7, <1>8

\* A call later meets the counters of now, where they still count, or none.
LEMMA LaterCounter ==
    ASSUME QuotaInv, NEW namespace \in FixedNamespaces, NEW who, NEW span \in Spans(namespace),
           NEW later \in Nat, later >= now
    PROVE  \/ Used(buckets, Bucket(namespace, who, span, later \div span), later) = 0
           \/ /\ later < (now \div span + 1) * span
              /\ Used(buckets, Bucket(namespace, who, span, later \div span), later)
                   = Used(buckets, Current(namespace, who, span), now)
<1>1. now \in Nat /\ \A b \in DOMAIN buckets : CounterOK(b)
  BY DEF QuotaInv, BucketInv
<1>2. span \in Nat \ {0}
  BY SpanTypes
<1>3. PICK old \in Nat, new \in Nat : old = now \div span /\ new = later \div span
  BY <1>1, <1>2, WindowOf
<1>4. /\ old * span <= now /\ now < (old + 1) * span
      /\ new * span <= later /\ later < (new + 1) * span
  BY <1>1, <1>2, <1>3, WindowOf
<1>5. old <= new
  <2>. SUFFICES ASSUME new < old PROVE FALSE
    OBVIOUS
  <2>1. (new + 1) * span <= old * span
    BY <1>2, LaterWindow
  <2>2. (new + 1) * span \in Nat /\ old * span \in Nat
    BY <1>2
  <2>. QED
    BY <1>1, <1>4, <2>1, <2>2
<1> DEFINE b == Bucket(namespace, who, span, new)
<1>6. ASSUME b \in DOMAIN buckets
      PROVE  new <= old
  <2>1. PICK ns \in FixedNamespaces, whose \in Accounts : \E length \in Spans(ns) :
           \E id \in 0..(now \div length) :
              b = Bucket(ns, whose, length, id) /\ buckets[b].expiresAt = (id + 1) * length
    BY <1>1, <1>6 DEF CounterOK
  <2>2. PICK length \in Spans(ns) : \E id \in 0..(now \div length) : b = Bucket(ns, whose, length, id)
    BY <2>1
  <2>3. PICK id \in 0..(now \div length) : b = Bucket(ns, whose, length, id)
    BY <2>2
  <2>4. length = span /\ id = new
    BY <2>3 DEF Bucket
  <2>. QED
    BY <1>3, <2>3, <2>4
<1>7. CASE new = old
  <2>1. b = Current(namespace, who, span)
    BY <1>3, <1>7 DEF Current
  <2>. HIDE DEF b
  <2>2. \/ Used(buckets, b, later) = 0
        \/ Used(buckets, b, later) = Used(buckets, b, now)
    <3>1. b \in DOMAIN buckets => buckets[b].expiresAt \in Int
      BY <1>1, CounterTypes
    <3>. QED
      BY <1>1, <3>1 DEF Used
  <2>. QED
    BY <1>3, <1>4, <1>7, <2>1, <2>2 DEF b
<1>8. CASE new # old
  <2>1. b \notin DOMAIN buckets
    BY <1>5, <1>6, <1>8
  <2>. QED
    BY <1>3, <2>1 DEF Used
<1>. QED
  BY <1>7, <1>8
\* A call's windows are finitely many.
LEMMA FinitelyManyWindows ==
    ASSUME NEW namespace, NEW c, NEW t
    PROVE  IsFiniteSet(WindowsOf(namespace, c, t))
<1>1. \A a, b : IsFiniteSet({a, b})
  <2>. SUFFICES ASSUME NEW a, NEW b PROVE IsFiniteSet({a, b})
    OBVIOUS
  <2>1. {a, b} = {a} \cup {b}
    OBVIOUS
  <2>2. IsFiniteSet({a}) /\ IsFiniteSet({b})
    BY FS_Singleton
  <2>. QED
    BY <2>1, <2>2, FS_Union
<1>2. CASE namespace = "public-scan"
  <2>1. \A a, b, x, y : IsFiniteSet({a, b, x, y})
    <3>. SUFFICES ASSUME NEW a, NEW b, NEW x, NEW y PROVE IsFiniteSet({a, b, x, y})
      OBVIOUS
    <3>1. {a, b, x, y} = {a, b} \cup {x, y}
      OBVIOUS
    <3>2. IsFiniteSet({a, b}) /\ IsFiniteSet({x, y})
      BY <1>1
    <3>. QED
      BY <3>1, <3>2, FS_Union
  <2>. QED
    BY <1>2, <2>1 DEF WindowsOf, PublicWindows
<1>3. CASE namespace # "public-scan"
  BY <1>1, <1>3 DEF WindowsOf, ReadWindows
<1>. QED
  BY <1>2, <1>3

\* After the wait every window that was exceeded has closed, and no other has filled.
LEMMA FixedWait ==
    ASSUME QuotaInv, NEW namespace \in FixedNamespaces, NEW c \in Clients, NEW cost \in Costs,
           \A w \in WindowsOf(namespace, c, now) : cost <= w.limit,
           ~FixedDecision(buckets, WindowsOf(namespace, c, now), cost, now).allowed,
           NEW later,
           later = now + FixedDecision(buckets, WindowsOf(namespace, c, now), cost, now).retryAfter * SECOND
    PROVE  FixedDecision(buckets, WindowsOf(namespace, c, later), cost, later).allowed
<1> DEFINE windows == WindowsOf(namespace, c, now)
           exceeded == Exceeded(buckets, windows, cost, now)
           ends == {w.expiresAt : w \in exceeded}
<1>1. now \in Nat /\ cost \in Nat
  BY DEF QuotaInv, Costs
<1>2. exceeded # {} /\ FixedDecision(buckets, windows, cost, now) = Refused(Max(ends), now)
  BY DEF FixedDecision, Allowed
<1>3. \A w \in windows : w.expiresAt \in Nat /\ w.limit \in Nat
  <2>. SUFFICES ASSUME NEW w \in windows
                PROVE  w.expiresAt \in Nat /\ w.limit \in Nat
    OBVIOUS
  <2>1. PICK who \in {Everyone, c}, span \in Spans(namespace) : IsWindow(w, namespace, who, span, now)
    BY CallWindows
  <2>2. now \div span \in Nat /\ span \in Nat
    BY <1>1, SpanTypes, WindowOf
  <2>3. (now \div span + 1) * span \in Nat
    BY <2>2
  <2>. QED
    BY <2>1, <2>3 DEF IsWindow
<1>4. exceeded \in SUBSET windows
  BY DEF Exceeded
<1>5. Max(ends) \in Nat /\ \A w \in exceeded : w.expiresAt <= Max(ends)
  <2>1. IsFiniteSet(exceeded)
    BY <1>4, FinitelyManyWindows, FS_Subset
  <2>. HIDE DEF exceeded, windows
  <2>2. IsFiniteSet(ends)
    <3> DEFINE f == [w \in exceeded |-> w.expiresAt]
    <3>1. f \in [exceeded -> ends] /\ \A x \in ends : \E w \in exceeded : f[w] = x
      OBVIOUS
    <3>. HIDE DEF f, ends
    <3>2. f \in Surjection(exceeded, ends)
      BY <3>1 DEF Surjection
    <3>. QED
      BY <2>1, <3>2, FS_Surjection
  <2>3. ends \in SUBSET Nat /\ ends # {}
    BY <1>2, <1>3, <1>4
  <2>4. Max(ends) \in ends /\ \A x \in ends : x <= Max(ends)
    <3>. HIDE DEF ends
    <3>. QED
      BY <2>2, <2>3, MaxOfMany
  <2>. QED
    BY <2>3, <2>4
<1>. HIDE DEF ends
<1>6. later \in Nat /\ later >= now /\ later >= Max(ends)
  BY <1>1, <1>2, <1>5, WaitReaches
<1>. HIDE DEF exceeded, windows
<1>7. ASSUME NEW w \in WindowsOf(namespace, c, later)
      PROVE  Used(buckets, w.bucket, later) + cost <= w.limit
  <2>1. PICK who \in {Everyone, c}, span \in Spans(namespace) : IsWindow(w, namespace, who, span, later)
    BY CallWindows
  <2>2. PICK v \in windows : w.limit = v.limit /\ w.bucket[2] = v.bucket[2] /\ w.bucket[3] = v.bucket[3]
    BY LaterWindows DEF windows
  <2>3. PICK whose \in {Everyone, c}, length \in Spans(namespace) : IsWindow(v, namespace, whose, length, now)
    BY <2>2, CallWindows DEF windows
  <2>4. whose = who /\ length = span /\ v.bucket = Current(namespace, who, span)
    BY <2>1, <2>2, <2>3 DEF IsWindow, Bucket, Current
  <2>5. /\ w.bucket = Bucket(namespace, who, span, later \div span)
        /\ v.expiresAt = (now \div span + 1) * span
        /\ w.limit \in Nat /\ cost <= w.limit
    BY <1>3, <2>1, <2>2, <2>3, <2>4 DEF IsWindow, windows
  <2>6. \/ Used(buckets, w.bucket, later) = 0
        \/ /\ later < v.expiresAt
           /\ Used(buckets, w.bucket, later) = Used(buckets, v.bucket, now)
    BY <1>6, <2>4, <2>5, LaterCounter
  <2>7. CASE Used(buckets, w.bucket, later) = 0
    BY <1>1, <2>5, <2>7
  <2>8. CASE later < v.expiresAt /\ Used(buckets, w.bucket, later) = Used(buckets, v.bucket, now)
    <3>1. v \notin exceeded
      <4>1. v \in exceeded => v.expiresAt <= Max(ends)
        BY <1>5
      <4>2. v.expiresAt \in Nat
        BY <1>3, <2>2
      <4>. QED
        BY <1>5, <1>6, <2>8, <4>1, <4>2
    <3>2. ~(Used(buckets, v.bucket, now) + cost > v.limit)
      BY <2>2, <3>1 DEF exceeded, Exceeded
    <3>3. Used(buckets, v.bucket, now) \in Nat
      BY <1>1, UsedTypes DEF QuotaInv, BucketInv
    <3>. QED
      BY <1>1, <2>2, <2>5, <2>8, <3>2, <3>3
  <2>. QED
    BY <2>6, <2>7, <2>8
<1>8. Exceeded(buckets, WindowsOf(namespace, c, later), cost, later) = {}
  <2>1. ASSUME NEW w \in WindowsOf(namespace, c, later)
        PROVE  ~(Used(buckets, w.bucket, later) + cost > w.limit)
    <3>1. w.limit \in Nat
      BY CallWindows DEF IsWindow
    <3>2. Used(buckets, w.bucket, later) \in Nat
      <4>1. \A b \in DOMAIN buckets : CounterOK(b)
        BY DEF QuotaInv, BucketInv
      <4>. QED
        BY <1>1, <4>1, CounterTypes DEF Used
    <3>. QED
      BY <1>1, <1>7, <3>1, <3>2
  <2>. QED
    BY <2>1 DEF Exceeded
<1>. QED
  BY <1>8 DEF FixedDecision, Allowed

\* When as many of the oldest events have left as had to, there is room.
LEMMA RoomAfterWait ==
    ASSUME NEW log \in Seq(Row), \A i, j \in DOMAIN log : i <= j => log[i].at <= log[j].at,
           NEW events \in SUBSET DOMAIN log, NEW limit \in Nat \ {0}, NEW later \in Nat,
           \A t \in FreesAt(log, events, limit) : t <= later,
           NEW few \in SUBSET events, \A i \in few : log[i].at + ATTEMPT_WINDOW > later
    PROVE  FreesAt(log, few, limit) = {}
<1>1. /\ events \in SUBSET Nat /\ few \in SUBSET Nat
      /\ IsFiniteSet(events) /\ IsFiniteSet(few)
      /\ Cardinality(events) \in Nat /\ Cardinality(few) \in Nat /\ Cardinality(few) <= Cardinality(events)
  <2>1. DOMAIN log \in SUBSET Nat /\ IsFiniteSet(DOMAIN log)
    BY LogTypes
  <2>. QED
    BY <2>1, FS_Subset, FS_CardinalityType
<1>2. CASE Cardinality(events) < limit
  BY <1>1, <1>2, RoomIfNoneFrees
<1>3. CASE Cardinality(events) >= limit
  <2>1. PICK i \in events : Cardinality({j \in events : j > i}) = limit - 1
    <3>1. limit - 1 \in Nat /\ limit - 1 < Cardinality(events)
      BY <1>1, <1>3
    <3>. QED
      BY <1>1, <3>1, OneHasAfter
  <2>2. log[i].at + ATTEMPT_WINDOW <= later
    BY <2>1 DEF FreesAt
  <2>3. few \in SUBSET {j \in events : j > i}
    <3>. SUFFICES ASSUME NEW j \in few PROVE j > i
      OBVIOUS
    <3>1. ~(j <= i)
      <4>. SUFFICES ASSUME j <= i PROVE FALSE
        OBVIOUS
      <4>1. log[j].at <= log[i].at /\ log[j].at + ATTEMPT_WINDOW > later
        OBVIOUS
      <4>2. log[j].at \in Nat /\ log[i].at \in Nat /\ ATTEMPT_WINDOW \in Nat
        BY LogTypes, Constants
      <4>. QED
        BY <2>2, <4>1, <4>2
    <3>. QED
      BY <1>1, <3>1
  <2>4. Cardinality(few) <= limit - 1
    BY <1>1, <2>1, <2>3, FS_Subset
  <2>. QED
    BY <1>1, <2>4, RoomIfNoneFrees
<1>. QED
  BY <1>1, <1>2, <1>3
\* What frees a place is an instant, one for each of finitely many events.
LEMMA FreesTypes ==
    ASSUME NEW log \in Seq(Row), NEW events \in SUBSET DOMAIN log, NEW limit
    PROVE  IsFiniteSet(FreesAt(log, events, limit)) /\ FreesAt(log, events, limit) \in SUBSET Nat
<1> DEFINE frees == {e \in events : Cardinality({j \in events : j > e}) = limit - 1}
           f == [i \in frees |-> log[i].at + ATTEMPT_WINDOW]
<1>1. IsFiniteSet(frees)
  <2>1. IsFiniteSet(DOMAIN log)
    BY LogTypes
  <2>2. frees \in SUBSET DOMAIN log
    OBVIOUS
  <2>. QED
    BY <2>1, <2>2, FS_Subset
<1>2. ASSUME NEW i \in DOMAIN log PROVE log[i].at + ATTEMPT_WINDOW \in Nat
  <2>1. log[i].at \in Nat
    BY LogTypes
  <2>2. ATTEMPT_WINDOW \in Nat
    BY Constants
  <2>. QED
    BY <2>1, <2>2
<1>3. FreesAt(log, events, limit) = {log[i].at + ATTEMPT_WINDOW : i \in frees}
  BY DEF FreesAt
<1>4. f \in Surjection(frees, FreesAt(log, events, limit))
  <2>1. /\ f \in [frees -> FreesAt(log, events, limit)]
        /\ \A x \in FreesAt(log, events, limit) : \E i \in frees : f[i] = x
    <3>. HIDE DEF frees
    <3>. QED
      BY <1>3
  <2>. HIDE DEF f, frees
  <2>. QED
    BY <2>1 DEF Surjection
<1>5. FreesAt(log, events, limit) \in SUBSET Nat
  BY <1>2, <1>3
<1>. HIDE DEF f, frees
<1>. QED
  BY <1>1, <1>4, <1>5, FS_Surjection

\* After the wait both ceilings on attempts have room.
LEMMA AttemptWait ==
    ASSUME QuotaInv, NEW c \in Clients, ~AttemptDecision(attempts, c, now).allowed,
           NEW later, later = now + AttemptDecision(attempts, c, now).retryAfter * SECOND
    PROVE  AttemptDecision(attempts, c, later).allowed
<1> DEFINE log == attempts
           live(t) == LiveCharges(log, ATTEMPT_WINDOW, t)
           his(t)  == ChargesOf(log, live(t), c)
           until(t) == FreesAt(log, live(t), ATTEMPT_GLOBAL_LIMIT) \union FreesAt(log, his(t), ATTEMPT_CLIENT_LIMIT)
<1>1. /\ now \in Nat /\ log \in Seq(Row)
      /\ \A i, j \in DOMAIN log : i <= j => log[i].at <= log[j].at
      /\ LogInv(log, "attempt", ATTEMPT_WINDOW, ATTEMPT_GLOBAL_LIMIT, ATTEMPT_CLIENT_LIMIT)
      /\ Len(log) <= ATTEMPT_GLOBAL_LIMIT
  BY DEF QuotaInv, AttemptsInv, LogInv, LogOK
<1>2. /\ ATTEMPT_WINDOW \in Nat \ {0} /\ ATTEMPT_GLOBAL_LIMIT \in Nat \ {0} /\ ATTEMPT_CLIENT_LIMIT \in Nat \ {0}
  BY Constants
<1>. HIDE DEF log
<1>3. \A t : live(t) \in SUBSET DOMAIN log /\ his(t) \in SUBSET DOMAIN log
  BY DEF LiveCharges, ChargesOf
<1>4. ASSUME NEW t
      PROVE  FirstRows(live(t), ATTEMPT_GLOBAL_LIMIT + 1) = live(t)
  <2>1. /\ DOMAIN log \in SUBSET Nat /\ IsFiniteSet(DOMAIN log) /\ Cardinality(DOMAIN log) = Len(log)
        /\ Len(log) \in Nat
    BY <1>1, LogTypes
  <2>2. live(t) \in SUBSET DOMAIN log
    BY <1>3
  <2>. HIDE DEF live
  <2>3. IsFiniteSet(live(t)) /\ live(t) \in SUBSET Nat /\ Cardinality(live(t)) <= Len(log)
        /\ Cardinality(live(t)) \in Nat
    BY <2>1, <2>2, FS_Subset, FS_CardinalityType
  <2>4. Cardinality(live(t)) <= ATTEMPT_GLOBAL_LIMIT + 1 /\ ATTEMPT_GLOBAL_LIMIT + 1 \in Nat
    BY <1>1, <1>2, <2>1, <2>3
  <2>. QED
    BY <2>3, <2>4, FirstRowsAll
<1>5. ASSUME NEW t
      PROVE  AttemptDecision(log, c, t) = IF until(t) = {} THEN Allowed ELSE Refused(Max(until(t)), t)
  <2>1. FirstRows(live(t), ATTEMPT_GLOBAL_LIMIT + 1) = live(t)
    BY <1>4
  <2>. QED
    BY <2>1 DEF AttemptDecision
<1>6. until(now) # {} /\ AttemptDecision(log, c, now) = Refused(Max(until(now)), now)
  <2>. HIDE DEF until
  <2>. QED
    BY <1>5 DEF Allowed, log
<1>7. Max(until(now)) \in Nat /\ \A x \in until(now) : x <= Max(until(now))
  <2>1. until(now) \in SUBSET Nat /\ IsFiniteSet(until(now))
    <3>. HIDE DEF live, his
    <3>. QED
      BY <1>1, <1>3, FreesTypes, FS_Union
  <2>. HIDE DEF until
  <2>. QED
    BY <1>6, <2>1, MaxOfMany
<1>8. later \in Nat /\ later >= now /\ later >= Max(until(now))
  <2>. HIDE DEF until
  <2>. QED
    BY <1>1, <1>6, <1>7, WaitReaches DEF log
<1>9. \A x \in until(now) : x \in Nat /\ x <= later
  <2>1. until(now) \in SUBSET Nat
    <3>. HIDE DEF live, his
    <3>. QED
      BY <1>1, <1>3, FreesTypes
  <2>. HIDE DEF until
  <2>. QED
    BY <1>7, <1>8, <2>1
<1>10. /\ live(later) \in SUBSET live(now) /\ his(later) \in SUBSET his(now)
       /\ \A i \in live(later) : log[i].at + ATTEMPT_WINDOW > later
       /\ \A i \in his(later) : log[i].at + ATTEMPT_WINDOW > later
  <2>1. \A i \in DOMAIN log : log[i].at \in Nat
    BY <1>1, LogTypes
  <2>. QED
    BY <1>1, <1>2, <1>8, <2>1 DEF LiveCharges, ChargesOf
<1>. HIDE DEF live, his
<1>11. FreesAt(log, live(later), ATTEMPT_GLOBAL_LIMIT) = {}
  <2>1. \A x \in FreesAt(log, live(now), ATTEMPT_GLOBAL_LIMIT) : x <= later
    BY <1>9
  <2>. QED
    BY <1>1, <1>2, <1>3, <1>8, <1>10, <2>1, RoomAfterWait
<1>12. FreesAt(log, his(later), ATTEMPT_CLIENT_LIMIT) = {}
  <2>1. \A x \in FreesAt(log, his(now), ATTEMPT_CLIENT_LIMIT) : x <= later
    BY <1>9
  <2>. QED
    BY <1>1, <1>2, <1>3, <1>8, <1>10, <2>1, RoomAfterWait
<1>13. until(later) = {}
  BY <1>11, <1>12
<1>. HIDE DEF until
<1>. QED
  BY <1>5, <1>13 DEF Allowed, log

\* The wait that a refusal names is enough.
THEOREM WaitsSuffice == Spec => []RetryAfterSuffices
<1>1. ASSUME QuotaInv
      PROVE  RetryAfterSuffices
  <2>1. ASSUME NEW c \in Clients, NEW ns \in FixedNamespaces, NEW cost \in Costs,
               \A w \in WindowsOf(ns, c, now) : cost <= w.limit
        PROVE  \/ FixedDecision(buckets, WindowsOf(ns, c, now), cost, now).allowed
               \/ LET later == now + FixedDecision(buckets, WindowsOf(ns, c, now), cost, now).retryAfter * SECOND
                  IN  FixedDecision(buckets, WindowsOf(ns, c, later), cost, later).allowed
    <3>1. PICK later :
             later = now + FixedDecision(buckets, WindowsOf(ns, c, now), cost, now).retryAfter * SECOND
      OBVIOUS
    <3>. QED
      BY <1>1, <2>1, <3>1, FixedWait
  <2>2. ASSUME NEW c \in Clients
        PROVE  \/ AttemptDecision(attempts, c, now).allowed
               \/ LET later == now + AttemptDecision(attempts, c, now).retryAfter * SECOND
                  IN  AttemptDecision(attempts, c, later).allowed
    <3>1. PICK later : later = now + AttemptDecision(attempts, c, now).retryAfter * SECOND
      OBVIOUS
    <3>. QED
      BY <1>1, <3>1, AttemptWait
  <2>. QED
    BY <2>1, <2>2 DEF RetryAfterSuffices
<1>. QED
  BY <1>1, QuotasAreCounted, PTL
=============================================================================
