------------------------- MODULE StatusUndo_proofs -------------------------
(***************************************************************************)
(* As long as requests do not overlap, the row of a status and its         *)
(* versions implement UndoStack, a destroy deletes the version it has      *)
(* restored, and the log shows every change, for any number of threads,    *)
(* users, statuses and versions.                                           *)
(***************************************************************************)
EXTENDS StatusUndo, StatusHistory_proofs, SequenceTheorems, FiniteSetTheorems

\* No two requests are served at once.
Alone == \A s, t \in Threads : req[s].pc # "idle" /\ req[t].pc # "idle" => s = t

\* No status is destroyed by someone who may change it but not destroy it.
NoneRefusedHalfway ==
  \A t \in Threads : /\ req[t].pc \in {"revert", "reverted", "drop"}
                     /\ req[t].user \in Journalists
                     => req[t].user \in Owners

\* RequestSpec with processes that die.
CrashNext == RequestNext \/ \E t \in Threads : Crash(t)

CrashSpec == Init /\ [][CrashNext]_vars

-----------------------------------------------------------------------------
\* The n versions in `vs`, by age.
Ordered(f, n, vs) == /\ n \in Nat
                     /\ f \in [1..n -> vs]
                     /\ \A v \in vs : \E i \in 1..n : f[i] = v
                     /\ \A i, j \in 1..n : i < j => f[i].id < f[j].id

\* The first was written when the status was created and keeps nothing, the others keep
\* a state each.
Lineage(f, n, vs) == /\ Ordered(f, n, vs)
                     /\ n # 0
                     /\ \A i \in 1..n : f[i].object = Nil <=> i = 1

\* The newest of them is the last.
LEMMA LineageNewest ==
  ASSUME NEW vs \in SUBSET Version, NEW n, NEW f, Lineage(f, n, vs), NEW v \in vs
  PROVE  /\ (\A w \in vs : w.id <= v.id) <=> v = f[n]
         /\ v.object = Nil <=> v = f[1]
<1>1. PICK i \in 1..n : f[i] = v
  BY DEF Lineage, Ordered
<1>2. n \in 1..n /\ 1 \in 1..n /\ \A j \in 1..n : f[j] \in vs /\ f[j].id \in Nat
  BY DEF Lineage, Ordered, Version
<1>3. \A j \in 1..n : j # n => f[j].id < f[n].id
  BY DEF Lineage, Ordered
<1>4. \A w \in vs : w.id <= f[n].id
  BY <1>2, <1>3 DEF Lineage, Ordered
<1>5. i # n => ~(\A w \in vs : w.id <= v.id)
  BY <1>1, <1>2, <1>3
<1>6. v.object = Nil => v = f[1]
  BY <1>1 DEF Lineage, Ordered
<1>7. v = f[1] => v.object = Nil
  BY <1>2 DEF Lineage, Ordered
<1> QED
  BY <1>1, <1>4, <1>5, <1>6, <1>7

\* A version that is added is the last.
LEMMA LineageGrows ==
  ASSUME NEW vs \in SUBSET Version, NEW n, NEW f, Lineage(f, n, vs),
         NEW v \in Version, v.object # Nil, \A w \in vs : w.id < v.id
  PROVE  Lineage([i \in 1..n + 1 |-> IF i <= n THEN f[i] ELSE v], n + 1, vs \cup {v})
<1> DEFINE g == [i \in 1..n + 1 |-> IF i <= n THEN f[i] ELSE v]
<1>1. n \in Nat \ {0} /\ n + 1 \in Nat \ {0}
  BY DEF Lineage, Ordered
<1>2. \A i \in 1..n : i \in 1..n + 1 /\ g[i] = f[i] /\ f[i] \in vs
  BY <1>1 DEF Lineage, Ordered
<1>3. g[n + 1] = v /\ n + 1 \in 1..n + 1 /\ \A i \in 1..n + 1 : i \in 1..n \/ i = n + 1
  BY <1>1
<1>4. g \in [1..n + 1 -> vs \cup {v}]
  BY <1>2, <1>3
<1>5. \A w \in vs \cup {v} : \E i \in 1..n + 1 : g[i] = w
  BY <1>2, <1>3 DEF Lineage, Ordered
<1>6. ASSUME NEW i \in 1..n + 1, NEW j \in 1..n + 1, i < j PROVE g[i].id < g[j].id
  <2>1. i \in 1..n
    BY <1>1, <1>6
  <2>2. CASE j \in 1..n
    BY <1>2, <1>6, <2>1, <2>2 DEF Lineage, Ordered
  <2>3. CASE j = n + 1
    BY <1>2, <1>3, <2>1, <2>3
  <2> QED
    BY <1>3, <2>2, <2>3
<1>7. \A i \in 1..n + 1 : g[i].object = Nil <=> i = 1
  BY <1>1, <1>2, <1>3 DEF Lineage, Ordered
<1> QED
  BY <1>1, <1>4, <1>5, <1>6, <1>7 DEF Lineage, Ordered

\* Without the last, the one before it is the last.
LEMMA LineageShrinks ==
  ASSUME NEW vs \in SUBSET Version, NEW n, NEW f, Lineage(f, n, vs), n > 1
  PROVE  Lineage([i \in 1..n - 1 |-> f[i]], n - 1, vs \ {f[n]})
<1> DEFINE g == [i \in 1..n - 1 |-> f[i]]
<1>1. n \in Nat \ {0} /\ n - 1 \in Nat \ {0}
  BY DEF Lineage, Ordered
<1>2. \A i \in 1..n - 1 : /\ i \in 1..n /\ i < n /\ g[i] = f[i]
                          /\ f[i] \in vs /\ f[i].id < f[n].id /\ f[n].id \in Nat
  BY <1>1 DEF Lineage, Ordered, Version
<1>3. \A i \in 1..n - 1 : f[i] # f[n]
  BY <1>2
<1>4. g \in [1..n - 1 -> vs \ {f[n]}]
  BY <1>2, <1>3
<1>5. ASSUME NEW w \in vs \ {f[n]} PROVE \E i \in 1..n - 1 : g[i] = w
  <2>1. PICK i \in 1..n : f[i] = w
    BY DEF Lineage, Ordered
  <2>2. i \in 1..n - 1
    BY <1>1, <2>1
  <2> QED
    BY <1>2, <2>1, <2>2
<1>6. \A i, j \in 1..n - 1 : i < j => g[i].id < g[j].id
  BY <1>2 DEF Lineage, Ordered
<1>7. \A i \in 1..n - 1 : g[i].object = Nil <=> i = 1
  BY <1>2 DEF Lineage, Ordered
<1> QED
  BY <1>1, <1>4, <1>5, <1>6, <1>7 DEF Lineage, Ordered

\* What two enumerations of one length have in common is equal.
LEMMA LengthUnique == ASSUME NEW m \in Nat, NEW n \in Nat, 1..m = 1..n PROVE m = n
<1>1. m # 0 => m \in 1..m
  OBVIOUS
<1>2. n # 0 => n \in 1..n
  OBVIOUS
<1> QED
  BY <1>1, <1>2

\* A function on the first n numbers is a sequence of n elements.
LEMMA FunctionIsSeq ==
  ASSUME NEW S, NEW n \in Nat, NEW f \in [1..n -> S]
  PROVE  f \in Seq(S) /\ Len(f) = n
<1>1. f \in Seq(S)
  BY SeqDef
<1>2. Len(f) \in Nat /\ DOMAIN f = 1..Len(f)
  BY <1>1, LenProperties
<1> QED
  BY <1>1, <1>2, LengthUnique

\* Versions in the order of their ids are what ObjectsOf takes the objects of: the
\* version at place i has i - 1 older ones.
LEMMA ObjectsOrdered ==
  ASSUME NEW vs \in SUBSET Version, NEW n, NEW f, Ordered(f, n, vs)
  PROVE  /\ Cardinality(vs) = n
         /\ ObjectsOf(vs) = [i \in 1..n |-> f[i].object]
<1>1. n \in Nat /\ \A i \in 1..n : f[i] \in vs /\ f[i].id \in Nat
  BY DEF Ordered, Version
<1>2. ASSUME NEW m \in 0..n
      PROVE  Cardinality({f[j] : j \in 1..m}) = m
  <2> DEFINE g == [j \in 1..m |-> f[j]]
             T == {f[j] : j \in 1..m}
  <2>1. \A j \in 1..m : j \in 1..n
    BY <1>1
  <2>2. g \in [1..m -> T]
    OBVIOUS
  <2>3. \A i, j \in 1..m : g[i] = g[j] => i = j
    <3> SUFFICES ASSUME NEW i \in 1..m, NEW j \in 1..m, i < j PROVE f[i] # f[j]
      OBVIOUS
    <3> QED
      BY <1>1, <2>1 DEF Ordered
  <2>4. \A v \in T : \E j \in 1..m : g[j] = v
    OBVIOUS
  <2>5. g \in Bijection(1..m, T)
    BY <2>2, <2>3, <2>4 DEF Bijection, Injection, Surjection, IsInjective
  <2> QED
    BY <2>5, FS_CountingElements DEF ExistsBijection
<1>3. Cardinality(vs) = n
  <2>1. vs = {f[j] : j \in 1..n}
    BY <1>1 DEF Ordered
  <2> QED
    BY <1>1, <1>2, <2>1
<1>4. ASSUME NEW i \in 1..n
      PROVE  Cardinality({w \in vs : w.id < f[i].id}) = i - 1
  <2>1. ASSUME NEW w \in vs PROVE w.id < f[i].id <=> \E j \in 1..i - 1 : f[j] = w
    <3>1. PICK j \in 1..n : f[j] = w
      BY DEF Ordered
    <3>2. ASSUME j < i PROVE w.id < f[i].id /\ j \in 1..i - 1
      BY <1>1, <3>1, <3>2 DEF Ordered
    <3>3. ASSUME ~(j < i) PROVE ~(w.id < f[i].id)
      BY <1>1, <3>1, <3>3 DEF Ordered
    <3>4. ASSUME NEW k \in 1..i - 1, f[k] = w PROVE w.id < f[i].id
      BY <1>1, <3>4 DEF Ordered
    <3> QED
      BY <3>1, <3>2, <3>3, <3>4
  <2>2. \A j \in 1..i - 1 : j \in 1..n
    BY <1>1
  <2>3. {w \in vs : w.id < f[i].id} = {f[j] : j \in 1..i - 1}
    BY <1>1, <2>1, <2>2
  <2>4. i - 1 \in 0..n
    BY <1>1
  <2> QED
    BY <1>2, <2>3, <2>4
<1>5. ASSUME NEW i \in 1..n
      PROVE  (CHOOSE v \in vs : Cardinality({w \in vs : w.id < v.id}) = i - 1) = f[i]
  <2>1. ASSUME NEW v \in vs, Cardinality({w \in vs : w.id < v.id}) = i - 1
        PROVE  v = f[i]
    <3>1. PICK j \in 1..n : f[j] = v
      BY DEF Ordered
    <3>2. j - 1 = i - 1
      BY <1>4, <2>1, <3>1
    <3> QED
      BY <3>1, <3>2
  <2> QED
    BY <1>1, <1>4, <2>1
<1>6. ObjectsOf(vs) = [i \in 1..n |->
         (CHOOSE v \in vs : Cardinality({w \in vs : w.id < v.id}) = i - 1).object]
  BY <1>3 DEF ObjectsOf
<1> QED
  BY <1>3, <1>5, <1>6

-----------------------------------------------------------------------------
\* Append and SubSeq of a function on the first n numbers.
LEMMA AppendAsFunction ==
  ASSUME NEW S, NEW n \in Nat, NEW f \in [1..n -> S], NEW e \in S
  PROVE  Append(f, e) = [i \in 1..n + 1 |-> IF i <= n THEN f[i] ELSE e]
<1> DEFINE g == [i \in 1..n + 1 |-> IF i <= n THEN f[i] ELSE e]
<1>1. f \in Seq(S) /\ Len(f) = n
  BY FunctionIsSeq
<1>2. n + 1 \in Nat /\ g \in [1..n + 1 -> S]
  OBVIOUS
<1>3. g \in Seq(S) /\ Len(g) = n + 1
  BY <1>2, FunctionIsSeq
<1>4. /\ Append(f, e) \in Seq(S)
      /\ Len(Append(f, e)) = n + 1
      /\ \A i \in 1..n : Append(f, e)[i] = f[i]
      /\ Append(f, e)[n + 1] = e
  BY <1>1, AppendProperties
<1>5. \A i \in 1..n + 1 : Append(f, e)[i] = g[i]
  <2> SUFFICES ASSUME NEW i \in 1..n + 1 PROVE Append(f, e)[i] = g[i]
    OBVIOUS
  <2>1. CASE i \in 1..n
    BY <1>4, <2>1
  <2>2. CASE i = n + 1
    BY <1>4, <2>2
  <2> QED
    BY <2>1, <2>2
<1> QED
  BY <1>3, <1>4, <1>5, SeqEqual

LEMMA SubSeqAsFunction ==
  ASSUME NEW S, NEW n \in Nat, NEW f \in [1..n -> S], NEW m \in 0..n
  PROVE  SubSeq(f, 1, m) = [i \in 1..m |-> f[i]]
<1> DEFINE g == [i \in 1..m |-> f[i]]
<1>1. m \in Nat /\ m \in Int /\ 1 \in Int /\ \A i \in 1..m : f[i] \in S
  OBVIOUS
<1>2. g \in Seq(S) /\ Len(g) = m
  BY <1>1, FunctionIsSeq
<1>3. /\ SubSeq(f, 1, m) \in Seq(S)
      /\ Len(SubSeq(f, 1, m)) = IF 1 <= m THEN m - 1 + 1 ELSE 0
      /\ \A i \in 1..m - 1 + 1 : SubSeq(f, 1, m)[i] = f[1 + i - 1]
  BY <1>1, SubSeqProperties
<1>4. Len(SubSeq(f, 1, m)) = m /\ \A i \in 1..m : SubSeq(f, 1, m)[i] = f[i]
  BY <1>3
<1> QED
  BY <1>2, <1>3, <1>4, SeqEqual

LEMMA TailAsFunction ==
  ASSUME NEW S, NEW n \in Nat \ {0}, NEW f \in [1..n -> S]
  PROVE  Tail(f) = [i \in 1..n - 1 |-> f[i + 1]]
<1> DEFINE g == [i \in 1..n - 1 |-> f[i + 1]]
<1>1. f \in Seq(S) /\ Len(f) = n
  BY FunctionIsSeq
<1>2. n - 1 \in Nat /\ \A i \in 1..n - 1 : i + 1 \in 1..n
  OBVIOUS
<1>3. g \in [1..n - 1 -> S]
  BY <1>2
<1>4. g \in Seq(S) /\ Len(g) = n - 1
  BY <1>2, <1>3, FunctionIsSeq
<1>5. f # <<>>
  BY <1>1
<1>6. /\ Tail(f) \in Seq(S) /\ Len(Tail(f)) = n - 1
      /\ \A i \in 1..Len(Tail(f)) : Tail(f)[i] = f[i + 1]
  BY <1>1, <1>5, HeadTailProperties
<1>7. \A i \in 1..Len(Tail(f)) : Tail(f)[i] = g[i]
  BY <1>6
<1> QED
  BY <1>4, <1>6, <1>7, SeqEqual

\* StatesOfStatus for versions `vs` and a row `r`.
StackOf(vs, r, reverting) ==
  IF r = Nil THEN <<>>
  ELSE LET kept == ObjectsOf({v \in vs : v.object # Nil})
       IN  Append(IF reverting THEN SubSeq(kept, 1, Len(kept) - 1) ELSE kept, r)

LEMMA StatesAreStack ==
  /\ StatesOfStatus = StackOf(versions, row, Reverting)
  /\ StatesOfStatus' = StackOf(versions', row', Reverting')
  BY DEF StatesOfStatus, StackOf, Kept

\* The first m - 1 states a lineage keeps; and `r` on top of them.
Under(f, m) == [i \in 1..m - 1 |-> f[i + 1].object]

Stacked(f, m, r) == [i \in 1..m |-> IF i < m THEN f[i + 1].object ELSE r]

\* The states kept by a lineage, in order.
LEMMA KeptOrdered ==
  ASSUME NEW vs \in SUBSET Version, NEW n, NEW f, Lineage(f, n, vs)
  PROVE  /\ ObjectsOf({v \in vs : v.object # Nil}) = [i \in 1..n - 1 |-> f[i + 1].object]
         /\ \A i \in 1..n - 1 : f[i + 1].object \in Row
<1> DEFINE g == [i \in 1..n - 1 |-> f[i + 1]]
           kept == {v \in vs : v.object # Nil}
<1>1. n \in Nat /\ n - 1 \in Nat
  BY DEF Lineage, Ordered
<1>2. \A i \in 1..n - 1 : /\ i + 1 \in 1..n /\ f[i + 1] \in kept
                          /\ f[i + 1].object \in Row
  <2> SUFFICES ASSUME NEW i \in 1..n - 1
               PROVE  i + 1 \in 1..n /\ f[i + 1] \in kept /\ f[i + 1].object \in Row
    OBVIOUS
  <2>1. i + 1 \in 1..n /\ i + 1 # 1
    BY <1>1
  <2>2. f[i + 1] \in vs /\ f[i + 1].object # Nil
    BY <2>1 DEF Lineage, Ordered
  <2> QED
    BY <2>1, <2>2 DEF Version
<1>3. g \in [1..n - 1 -> kept]
  BY <1>2
<1>4. ASSUME NEW v \in kept PROVE \E i \in 1..n - 1 : g[i] = v
  <2>1. PICK j \in 1..n : f[j] = v
    BY DEF Lineage, Ordered
  <2>2. j # 1
    BY <2>1 DEF Lineage
  <2>3. j - 1 \in 1..n - 1 /\ (j - 1) + 1 = j
    BY <1>1, <2>2
  <2>4. g[j - 1] = v
    BY <2>1, <2>3
  <2> QED
    BY <2>3, <2>4
<1>5. ASSUME NEW i \in 1..n - 1, NEW j \in 1..n - 1, i < j PROVE g[i].id < g[j].id
  <2>1. i + 1 \in 1..n /\ j + 1 \in 1..n /\ i + 1 < j + 1
    BY <1>1, <1>5
  <2> QED
    BY <2>1 DEF Lineage, Ordered
<1>6. Ordered(g, n - 1, kept)
  BY <1>1, <1>3, <1>4, <1>5 DEF Ordered
<1>7. ObjectsOf(kept) = [i \in 1..n - 1 |-> g[i].object]
  <2>1. kept \in SUBSET Version
    OBVIOUS
  <2> QED
    BY <1>6, <2>1, ObjectsOrdered
<1>8. [i \in 1..n - 1 |-> g[i].object] = [i \in 1..n - 1 |-> f[i + 1].object]
  OBVIOUS
<1> QED
  BY <1>2, <1>7, <1>8

\* The first m - 1 states a lineage keeps, and the row on top of them.
LEMMA StackedStates ==
  ASSUME NEW vs \in SUBSET Version, NEW n, NEW f, Lineage(f, n, vs), NEW r \in Row
  PROVE  \A m \in 1..n : /\ Append(Under(f, m), r) = Stacked(f, m, r)
                         /\ Stacked(f, m, r) \in [1..m -> Row]
<1> SUFFICES ASSUME NEW m \in 1..n
             PROVE  /\ Append(Under(f, m), r) = Stacked(f, m, r)
                    /\ Stacked(f, m, r) \in [1..m -> Row]
  OBVIOUS
<1> DEFINE base == [i \in 1..m - 1 |-> f[i + 1].object]
<1>1. n \in Nat \ {0} /\ m \in Nat \ {0} /\ m - 1 \in Nat
  BY DEF Lineage, Ordered
<1>2. \A i \in 1..n - 1 : f[i + 1].object \in Row
  BY KeptOrdered
<1>3. \A i \in 1..m - 1 : i \in 1..n - 1
  BY <1>1
<1>4. base \in [1..m - 1 -> Row]
  BY <1>2, <1>3
<1>5. Append(base, r) = [i \in 1..(m - 1) + 1 |-> IF i <= m - 1 THEN base[i] ELSE r]
  BY <1>1, <1>4, AppendAsFunction
<1>6. [i \in 1..(m - 1) + 1 |-> IF i <= m - 1 THEN base[i] ELSE r] = Stacked(f, m, r)
  <2>1. (m - 1) + 1 = m /\ \A i \in 1..m : i <= m - 1 <=> i < m
    BY <1>1
  <2>2. \A i \in 1..m : i < m => i \in 1..m - 1
    BY <1>1
  <2> QED
    BY <2>1, <2>2 DEF Stacked
<1>7. Stacked(f, m, r) \in [1..m -> Row]
  <2>1. \A i \in 1..m : i < m => i \in 1..n - 1
    BY <1>1
  <2> QED
    BY <1>2, <2>1 DEF Stacked
<1> QED
  BY <1>5, <1>6, <1>7 DEF Under

\* With no destroy under way, every state counts.
LEMMA StackAtRest ==
  ASSUME NEW vs \in SUBSET Version, NEW n, NEW f, Lineage(f, n, vs), NEW r \in Row
  PROVE  /\ StackOf(vs, r, FALSE) = Stacked(f, n, r)
         /\ Stacked(f, n, r) \in [1..n -> Row]
<1>1. n \in Nat /\ n \in 1..n
  BY DEF Lineage, Ordered
<1>2. ObjectsOf({v \in vs : v.object # Nil}) = [i \in 1..n - 1 |-> f[i + 1].object]
  BY KeptOrdered
<1>3. r # Nil
  BY NilAssumption
<1>4. StackOf(vs, r, FALSE) = Append(Under(f, n), r)
  BY <1>2, <1>3 DEF StackOf, Under
<1>5. \A m \in 1..n : /\ Append(Under(f, m), r) = Stacked(f, m, r)
                      /\ Stacked(f, m, r) \in [1..m -> Row]
  BY StackedStates
<1> QED
  BY <1>1, <1>4, <1>5

\* While a status is put back, the state that is back already does not count.
LEMMA StackReverting ==
  ASSUME NEW vs \in SUBSET Version, NEW n, NEW f, Lineage(f, n, vs), NEW r \in Row, n > 1
  PROVE  /\ StackOf(vs, r, TRUE) = Stacked(f, n - 1, r)
         /\ Stacked(f, n - 1, r) \in [1..n - 1 -> Row]
<1> DEFINE kept == [i \in 1..n - 1 |-> f[i + 1].object]
           base == [i \in 1..(n - 1) - 1 |-> f[i + 1].object]
<1>1. n \in Nat /\ n - 1 \in 1..n /\ n - 1 \in Nat /\ (n - 1) - 1 \in 0..n - 1
  BY DEF Lineage, Ordered
<1>2. /\ ObjectsOf({v \in vs : v.object # Nil}) = kept
      /\ kept \in [1..n - 1 -> Row]
  BY KeptOrdered
<1>3. Len(kept) = n - 1
  BY <1>1, <1>2, FunctionIsSeq
<1>4. SubSeq(kept, 1, (n - 1) - 1) = base
  <2>1. SubSeq(kept, 1, (n - 1) - 1) = [i \in 1..(n - 1) - 1 |-> kept[i]]
    BY <1>1, <1>2, SubSeqAsFunction
  <2>2. \A i \in 1..(n - 1) - 1 : i \in 1..n - 1
    BY <1>1
  <2> QED
    BY <2>1, <2>2
<1>5. r # Nil
  BY NilAssumption
<1>6. StackOf(vs, r, TRUE) = Append(Under(f, n - 1), r)
  BY <1>2, <1>3, <1>4, <1>5 DEF StackOf, Under
<1>7. \A m \in 1..n : /\ Append(Under(f, m), r) = Stacked(f, m, r)
                      /\ Stacked(f, m, r) \in [1..m -> Row]
  BY StackedStates
<1> QED
  BY <1>1, <1>6, <1>7

-----------------------------------------------------------------------------
\* The versions are a lineage once there is a status, and the sequence is past them.
VersionsInv ==
  /\ nextId = 1 => row = Nil /\ versions = {}
  /\ nextId > 1 => \E n, f : Lineage(f, n, versions)
  /\ \A v \in versions : v.id < nextId

\* What a request knows is so still: the row it has loaded, and that the version it
\* restores is the newest.
RequestInv(t) ==
  LET r == req[t]
  IN  /\ r.pc # "idle" => row # Nil
      /\ r.pc \in {"update", "revert"} => r.loaded = row
      /\ r.pc \in {"update", "revert"} /\ r.step = "written" => r.user \in Journalists
      /\ r.pc = "destroy" =>
           Newest(r.restored) /\ r.target = r.restored.object /\ r.step = "loaded"
      /\ r.pc \in {"revert", "reverted", "drop"} => Newest(r.restored) /\ r.restored.object # Nil
      /\ r.pc = "revert" => r.target = [r.restored.object EXCEPT !.annotator = r.user]
      /\ r.pc \in {"reverted", "drop"} => r.user \in Journalists
      /\ r.pc = "drop" => r.newest = r.restored

SerialInv == VersionsInv /\ \A t \in Threads : RequestInv(t)

LEMMA InitSerial == Init => SerialInv
<1> SUFFICES ASSUME Init PROVE SerialInv
  OBVIOUS
<1>1. \A t \in Threads : req[t].pc = "idle"
  BY DEF Init, Idle
<1>2. VersionsInv
  BY DEF Init, VersionsInv
<1> QED
  BY <1>1, <1>2 DEF SerialInv, RequestInv

\* An idle request knows nothing.
LEMMA IdleInv == ASSUME NEW t \in Threads, req'[t].pc = "idle" PROVE RequestInv(t)'
  BY DEF RequestInv

\* The step of a thread that serves alone: the others stay idle.
LEMMA ServeSerial ==
  ASSUME NEW t \in Threads, \A u \in Threads \ {t} : req'[u] = req[u],
         \A u \in Threads \ {t} : req[u].pc = "idle",
         VersionsInv', RequestInv(t)'
  PROVE  SerialInv'
<1>1. ASSUME NEW u \in Threads \ {t} PROVE RequestInv(u)'
  BY <1>1, IdleInv
<1> QED
  BY <1>1 DEF SerialInv

LEMMA FinishSerial ==
  ASSUME IInv, NEW t \in Threads, Finish(t),
         \A u \in Threads \ {t} : req[u].pc = "idle", VersionsInv'
  PROVE  SerialInv'
<1>1. req'[t].pc = "idle" /\ \A u \in Threads \ {t} : req'[u] = req[u]
  BY DEF Finish, Idle, IInv, TypeOK
<1> QED
  BY <1>1, ServeSerial, IdleInv

\* What a step leaves the versions is still true of them.
LEMMA VersionsKept ==
  ASSUME VersionsInv, UNCHANGED <<versions, nextId>>, nextId = 1 => row' = Nil
  PROVE  VersionsInv'
  BY DEF VersionsInv

\* A row that was loaded is written as asked for.
LEMMA WritesTarget ==
  ASSUME IInv, NEW t \in Threads, WriteRow(t), row # Nil,
         req[t].loaded = row, req[t].target \in Row
  PROVE  row' = req[t].target
<1>1. row \in Row
  BY DEF IInv, TypeOK
<1>2. row' = [status |-> req[t].target.status, annotator |-> req[t].target.annotator]
  BY DEF WriteRow, Written, Column
<1> QED
  BY <1>2 DEF Row

\* The creation of the status begins a lineage.
LEMMA CreateSerial == ASSUME IInv, SerialInv, NEW u \in Users, Create(u) PROVE SerialInv'
<1> DEFINE v == [id |-> 1, object |-> Nil]
<1>1. Lineage([i \in 1..1 |-> v], 1, {v})
  BY DEF Lineage, Ordered
<1>2. versions' = {v} /\ nextId' = 2
  BY DEF Create
<1>3. VersionsInv'
  BY <1>1, <1>2 DEF VersionsInv
<1>4. ASSUME NEW t \in Threads PROVE RequestInv(t)'
  <2>1. req[t].pc = "idle"
    BY DEF Create, SerialInv, VersionsInv, RequestInv
  <2> QED
    BY <2>1, IdleInv DEF Create
<1> QED
  BY <1>3, <1>4 DEF SerialInv

\* An update that changes something adds to the lineage what it loaded.
LEMMA SaveUpdateSerial ==
  ASSUME IInv, SerialInv, NEW t \in Threads, SaveUpdate(t),
         \A u \in Threads \ {t} : req[u].pc = "idle"
  PROVE  SerialInv'
<1> DEFINE v == [id |-> nextId, object |-> req[t].loaded]
<1>1. row # Nil /\ req[t].loaded = row /\ row \in Row /\ nextId \in Nat \ {0}
  BY DEF SaveUpdate, SerialInv, RequestInv, IInv, TypeOK
<1>2. nextId > 1 /\ versions \in SUBSET Version /\ \A w \in versions : w.id < nextId
  BY <1>1 DEF SerialInv, VersionsInv, IInv, TypeOK
<1>3. PICK n, f : Lineage(f, n, versions)
  BY <1>2 DEF SerialInv, VersionsInv
<1>4. CASE req[t].target # req[t].loaded
  <2>1. versions' = versions \cup {v} /\ nextId' = nextId + 1
    BY <1>4 DEF SaveUpdate
  <2>2. v \in Version /\ v.object # Nil /\ \A w \in versions : w.id < v.id
    BY <1>1, <1>2, NilAssumption DEF Version
  <2>3. \E m, g : Lineage(g, m, versions \cup {v})
    BY <1>2, <1>3, <2>2, LineageGrows
  <2>4. \A w \in versions' : w.id < nextId'
    <3>1. \A w \in versions : w.id \in Nat
      BY <1>2 DEF Version
    <3> QED
      BY <1>1, <1>2, <2>1, <3>1
  <2>5. nextId' # 1
    BY <1>1, <2>1
  <2>6. VersionsInv'
    BY <2>1, <2>3, <2>4, <2>5 DEF VersionsInv
  <2> QED
    BY <2>6, FinishSerial DEF SaveUpdate
<1>5. CASE req[t].target = req[t].loaded
  <2>1. UNCHANGED <<versions, nextId>>
    BY <1>5 DEF SaveUpdate
  <2>2. VersionsInv'
    BY <1>2, <2>1, VersionsKept DEF SerialInv
  <2> QED
    BY <2>2, FinishSerial DEF SaveUpdate
<1> QED
  BY <1>4, <1>5

\* The versions of a status that exists are never none.
LEMMA SomeVersion ==
  ASSUME IInv, SerialInv, row # Nil
  PROVE  /\ nextId > 1
         /\ versions \in SUBSET Version
         /\ \E n, f : Lineage(f, n, versions)
         /\ versions # {}
<1>1. nextId > 1 /\ versions \in SUBSET Version
  BY DEF IInv, TypeOK, SerialInv, VersionsInv
<1>2. PICK n, f : Lineage(f, n, versions)
  BY <1>1 DEF SerialInv, VersionsInv
<1>3. f[1] \in versions
  BY <1>2 DEF Lineage, Ordered
<1> QED
  BY <1>1, <1>2, <1>3

\* Two versions that are both the newest are one.
LEMMA NewestUnique ==
  ASSUME IInv, SerialInv, row # Nil, NEW v, NEW w, Newest(v), Newest(w)
  PROVE  v = w
<1>1. versions \in SUBSET Version
  BY SomeVersion
<1>2. PICK n, f : Lineage(f, n, versions)
  BY SomeVersion
<1> QED
  BY <1>1, <1>2, LineageNewest DEF Newest

\* A request that begins knows what it has just read.
LEMMA BeginSerial ==
  ASSUME IInv, SerialInv, NEW t \in Threads, Begin(t),
         \A u \in Threads \ {t} : req[u].pc = "idle"
  PROVE  SerialInv'
<1>1. row # Nil /\ UNCHANGED <<row, versions, nextId>>
  BY DEF Begin, BeginUpdate, BeginDestroy
<1>2. VersionsInv'
  BY <1>1, VersionsKept, SomeVersion DEF SerialInv
<1>3. req \in [Threads -> Request]
  BY DEF IInv, TypeOK
<1>4. ASSUME NEW u \in Users, NEW s \in Statuses, BeginUpdate(t, u, s) PROVE SerialInv'
  <2>1. RequestInv(t)'
    BY <1>1, <1>3, <1>4 DEF BeginUpdate, RequestInv, Idle
  <2>2. \A v \in Threads \ {t} : req'[v] = req[v]
    BY <1>3, <1>4 DEF BeginUpdate
  <2> QED
    BY <1>2, <2>1, <2>2, ServeSerial
<1>5. ASSUME NEW u \in Users, BeginDestroy(t, u) PROVE SerialInv'
  <2>1. PICK v \in versions :
          /\ Newest(v)
          /\ req' = [req EXCEPT ![t] = [Idle EXCEPT !.pc = "destroy", !.user = u,
                                                    !.target = v.object, !.restored = v]]
    BY <1>1, <1>5, SomeVersion DEF BeginDestroy
  <2>2. Newest(v)'
    BY <1>1, <2>1 DEF Newest
  <2>3. RequestInv(t)'
    BY <1>1, <1>3, <2>1, <2>2 DEF RequestInv, Idle
  <2>4. \A w \in Threads \ {t} : req'[w] = req[w]
    BY <1>3, <2>1
  <2> QED
    BY <1>2, <2>3, <2>4, ServeSerial
<1> QED
  BY <1>4, <1>5 DEF Begin

\* The version is laid over the row as it is.
LEMMA ReifySerial ==
  ASSUME IInv, SerialInv, NEW t \in Threads, Reify(t),
         \A u \in Threads \ {t} : req[u].pc = "idle"
  PROVE  SerialInv'
<1>1. row # Nil /\ UNCHANGED <<row, versions, nextId>> /\ req \in [Threads -> Request]
  BY DEF Reify, IInv, TypeOK
<1>2. VersionsInv'
  BY <1>1, VersionsKept, SomeVersion DEF SerialInv
<1>3. /\ Newest(req[t].restored) /\ req[t].target = req[t].restored.object
      /\ req[t].target # Nil
  BY DEF Reify, SerialInv, RequestInv
<1>4. /\ req'[t].pc = "revert" /\ req'[t].loaded = row /\ req'[t].step = req[t].step
      /\ req'[t].restored = req[t].restored /\ req'[t].user = req[t].user
      /\ req'[t].target = [req[t].restored.object EXCEPT !.annotator = req[t].user]
  BY <1>1, <1>3 DEF Reify, Request
<1>5. Newest(req[t].restored)'
  BY <1>1, <1>3, <1>4 DEF Newest
<1>6. RequestInv(t)'
  <2>1. req'[t].step = "loaded"
    BY <1>4 DEF Reify, SerialInv, RequestInv
  <2> QED
    BY <1>1, <1>3, <1>4, <1>5, <2>1 DEF RequestInv
<1>7. \A u \in Threads \ {t} : req'[u] = req[u]
  BY <1>1 DEF Reify
<1> QED
  BY <1>2, <1>6, <1>7, ServeSerial

\* The steps of a save before its commit leave the row, the versions and what the
\* request has read; the last of them has asked for the permission.
LEMMA SavingStep ==
  ASSUME IInv, NEW t \in Threads, StorePrevious(t) \/ Validate(t) \/ Announce(t)
  PROVE  /\ UNCHANGED <<row, versions, nextId>>
         /\ \A u \in Threads \ {t} : req'[u] = req[u]
         /\ req[t].pc \in {"update", "revert"} /\ req'[t].pc = req[t].pc
         /\ req'[t].loaded = req[t].loaded /\ req'[t].target = req[t].target
         /\ req'[t].restored = req[t].restored /\ req'[t].user = req[t].user
         /\ req'[t].step = "written" => req[t].user \in Journalists
<1>1. req \in [Threads -> Request] /\ req[t] \in Request
  BY DEF IInv, TypeOK
<1>2. CASE StorePrevious(t)
  BY <1>1, <1>2 DEF StorePrevious, Saving, Request
<1>3. CASE Validate(t)
  BY <1>1, <1>3 DEF Validate, Saving, Request
<1>4. CASE Announce(t)
  BY <1>1, <1>4 DEF Announce, Saving, MayUpdate, Request
<1> QED
  BY <1>2, <1>3, <1>4

LEMMA SavingSerial ==
  ASSUME IInv, SerialInv, NEW t \in Threads,
         StorePrevious(t) \/ Validate(t) \/ Announce(t),
         \A u \in Threads \ {t} : req[u].pc = "idle"
  PROVE  SerialInv'
<1>1. /\ UNCHANGED <<row, versions, nextId>>
      /\ \A u \in Threads \ {t} : req'[u] = req[u]
      /\ req[t].pc \in {"update", "revert"} /\ req'[t].pc = req[t].pc
      /\ req'[t].loaded = req[t].loaded /\ req'[t].target = req[t].target
      /\ req'[t].restored = req[t].restored /\ req'[t].user = req[t].user
      /\ req'[t].step = "written" => req[t].user \in Journalists
  BY SavingStep
<1>2. row # Nil
  BY <1>1 DEF SerialInv, RequestInv
<1>3. VersionsInv'
  BY <1>1, <1>2, VersionsKept, SomeVersion DEF SerialInv
<1>4. RequestInv(t)'
  BY <1>1 DEF SerialInv, RequestInv, Newest
<1> QED
  BY <1>1, <1>3, <1>4, ServeSerial

\* The revert is saved and the version is still there, the newest.
LEMMA SaveRevertSerial ==
  ASSUME IInv, SerialInv, NEW t \in Threads, SaveRevert(t),
         \A u \in Threads \ {t} : req[u].pc = "idle"
  PROVE  /\ SerialInv'
         /\ row \in Row
         /\ Newest(req[t].restored) /\ req[t].restored.object \in Row
         /\ row' = [req[t].restored.object EXCEPT !.annotator = req[t].user]
         /\ row' \in Row
<1>1. /\ row # Nil /\ row \in Row
      /\ UNCHANGED <<versions, nextId>> /\ req \in [Threads -> Request]
      /\ req[t].loaded = row /\ req[t].target \in Row
  BY DEF SaveRevert, IInv, TypeOK, SerialInv, RequestInv, Request
<1>2. /\ Newest(req[t].restored) /\ req[t].restored.object # Nil
      /\ req[t].target = [req[t].restored.object EXCEPT !.annotator = req[t].user]
  BY DEF SaveRevert, SerialInv, RequestInv
<1>3. row' = req[t].target
  BY <1>1, WritesTarget DEF SaveRevert
<1>4. VersionsInv'
  BY <1>1, VersionsKept, SomeVersion DEF SerialInv
<1>5. /\ req'[t].pc = "reverted" /\ req'[t].user = req[t].user
      /\ req'[t].restored = req[t].restored
  BY <1>1 DEF SaveRevert, Idle
<1>6. req[t].user \in Journalists
  BY DEF SaveRevert, SerialInv, RequestInv
<1>7. RequestInv(t)'
  BY <1>1, <1>2, <1>3, <1>5, <1>6, NilAssumption DEF RequestInv, Newest
<1>8. SerialInv'
  <2>1. \A u \in Threads \ {t} : req'[u] = req[u]
    BY <1>1 DEF SaveRevert
  <2> QED
    BY <1>4, <1>7, <2>1, ServeSerial
<1>9. req[t].restored.object \in Row
  BY <1>2 DEF Newest, IInv, TypeOK, Version
<1> QED
  BY <1>1, <1>2, <1>3, <1>8, <1>9

\* The newest version that is read again is the one that was restored.
LEMMA PickSerial ==
  ASSUME IInv, SerialInv, NEW t \in Threads, PickVersion(t),
         \A u \in Threads \ {t} : req[u].pc = "idle"
  PROVE  SerialInv'
<1>1. /\ row # Nil /\ UNCHANGED <<row, versions, nextId>> /\ req \in [Threads -> Request]
      /\ Newest(req[t].restored) /\ req[t].restored.object # Nil
      /\ req[t].user \in Journalists
  BY DEF PickVersion, SerialInv, RequestInv, IInv, TypeOK
<1>2. VersionsInv'
  BY <1>1, VersionsKept, SomeVersion DEF SerialInv
<1>3. PICK v \in versions :
        Newest(v) /\ req' = [req EXCEPT ![t].pc = "drop", ![t].newest = v]
  BY DEF PickVersion
<1>4. v = req[t].restored
  BY <1>1, <1>3, NewestUnique
<1>5. /\ req'[t].pc = "drop" /\ req'[t].newest = v
      /\ req'[t].restored = req[t].restored /\ req'[t].user = req[t].user
  BY <1>1, <1>3 DEF Request
<1>6. RequestInv(t)'
  BY <1>1, <1>4, <1>5 DEF RequestInv, Newest
<1>7. \A u \in Threads \ {t} : req'[u] = req[u]
  BY <1>1, <1>3
<1> QED
  BY <1>1, <1>2, <1>6, <1>7, ServeSerial

\* The version that is deleted is the last of the lineage, and not its first.
LEMMA DropSerial ==
  ASSUME IInv, SerialInv, NEW t \in Threads, DropVersion(t),
         NEW n, NEW f, Lineage(f, n, versions)
  PROVE  /\ n > 1 /\ req[t].newest = f[n]
         /\ Lineage([i \in 1..n - 1 |-> f[i]], n - 1, versions')
         /\ VersionsInv'
<1>1. /\ row # Nil /\ Newest(req[t].newest) /\ req[t].newest.object # Nil
      /\ versions' = versions \ {req[t].newest} /\ UNCHANGED nextId
  BY DEF DropVersion, SerialInv, RequestInv
<1>2. versions \in SUBSET Version /\ nextId > 1
  BY <1>1, SomeVersion
<1>3. req[t].newest = f[n] /\ req[t].newest # f[1]
  BY <1>1, <1>2, LineageNewest DEF Newest
<1>4. n > 1
  BY <1>3 DEF Lineage, Ordered
<1>5. Lineage([i \in 1..n - 1 |-> f[i]], n - 1, versions')
  BY <1>1, <1>2, <1>3, <1>4, LineageShrinks
<1>6. VersionsInv'
  BY <1>1, <1>2, <1>5 DEF VersionsInv, SerialInv
<1> QED
  BY <1>3, <1>4, <1>5, <1>6

\* A step that changes neither row nor versions and ends a request, or serves none.
LEMMA EndSerial ==
  ASSUME IInv, SerialInv, NEW t \in Threads, Finish(t), UNCHANGED <<versions, nextId>>,
         row' \in {row, Nil}, \A u \in Threads \ {t} : req[u].pc = "idle"
  PROVE  SerialInv'
<1>1. VersionsInv'
  BY DEF SerialInv, VersionsInv
<1> QED
  BY <1>1, FinishSerial

\* While no two requests are served at once, the invariant is kept.
LEMMA SerialStep ==
  ASSUME IInv, SerialInv, Alone, Alone', [CrashNext]_vars
  PROVE  SerialInv'
<1>1. req \in [Threads -> Request]
  BY DEF IInv, TypeOK
<1>2. ASSUME NEW t \in Threads, req[t].pc # "idle"
      PROVE  \A u \in Threads \ {t} : req[u].pc = "idle"
  BY <1>2 DEF Alone
<1>3. ASSUME NEW t \in Threads, Begin(t) PROVE SerialInv'
  <2>1. req'[t].pc # "idle" /\ \A u \in Threads \ {t} : req'[u] = req[u]
    BY <1>1, <1>3 DEF Begin, BeginUpdate, BeginDestroy, Idle
  <2>2. \A u \in Threads \ {t} : req[u].pc = "idle"
    BY <2>1 DEF Alone
  <2> QED
    BY <1>3, <2>2, BeginSerial
<1>4. ASSUME NEW t \in Threads, Progress(t) \/ Crash(t) PROVE SerialInv'
  <2>1. req[t].pc # "idle"
    BY <1>4 DEF Progress, StorePrevious, Validate, Announce, Saving, SaveUpdate, Reify,
       SaveRevert, PickVersion, DropVersion, Withdraw, Fail, Raises, Crash
  <2>2. \A u \in Threads \ {t} : req[u].pc = "idle"
    BY <1>2, <2>1
  <2>3. CASE DropVersion(t)
    <3>1. PICK n, f : Lineage(f, n, versions)
      BY <2>3, SomeVersion DEF DropVersion
    <3>2. VersionsInv'
      BY <2>3, <3>1, DropSerial
    <3> QED
      BY <2>2, <2>3, <3>2, FinishSerial DEF DropVersion
  <2>4. CASE Withdraw(t) \/ Fail(t) \/ Crash(t)
    BY <2>2, <2>4, EndSerial DEF Withdraw, Fail, Crash
  <2> QED
    BY <1>4, <2>2, <2>3, <2>4, SavingSerial, SaveUpdateSerial, ReifySerial, SaveRevertSerial,
       PickSerial DEF Progress
<1>5. ASSUME NEW u \in Users, Create(u) PROVE SerialInv'
  BY <1>5, CreateSerial
<1>6. CASE Settings \/ UNCHANGED vars
  <2>1. UNCHANGED <<row, versions, nextId, req>>
    BY <1>6 DEF Settings, SetTeam, vars
  <2> QED
    BY <2>1 DEF SerialInv, VersionsInv, RequestInv, Newest
<1> QED
  BY <1>3, <1>4, <1>5, <1>6 DEF CrashNext, RequestNext

-----------------------------------------------------------------------------
LEMMA CrashStepIsStep == [CrashNext]_vars => [Next]_vars
  BY DEF CrashNext, Next

\* While no two requests are served at once, whether or not they run to their end, the
\* versions of a status are a lineage and what a request has read stays true until it ends:
\* what Status#destroy takes for granted between its transactions (status.rb:92-103).
THEOREM SerialInvariance == CrashSpec /\ []Alone => [](IInv /\ SerialInv)
<1>1. Init => IInv /\ SerialInv
  BY InitIInv, InitSerial
<1>2. IInv /\ SerialInv /\ Alone /\ Alone' /\ [CrashNext]_vars => (IInv /\ SerialInv)'
  BY CrashStepIsStep, StepIInv, SerialStep
<1> QED
  BY <1>1, <1>2, PTL DEF CrashSpec

\* With one thread, nothing overlaps.
LEMMA OneThreadAlone ==
  ASSUME \A s, t \in Threads : s = t
  PROVE  RequestSpec => CrashSpec /\ []Alone
<1>1. Alone
  BY DEF Alone
<1>2. [RequestNext]_vars => [CrashNext]_vars
  BY DEF CrashNext
<1> QED
  BY <1>1, <1>2, PTL DEF RequestSpec, CrashSpec

-----------------------------------------------------------------------------
\* The version of the creation and the next are left out of the log, and the row added:
\* as many entries as changes.
LEMMA LogOfLineage == ASSUME IInv, SerialInv PROVE LogShowsEveryChange
<1> SUFFICES ASSUME row # Nil, \A t \in Threads : req[t].pc = "idle"
             PROVE  LogEntries = Tail(StatesOfStatus)
  BY DEF LogShowsEveryChange
<1>1. versions \in SUBSET Version /\ row \in Row
  BY DEF IInv, TypeOK
<1>2. PICK n, f : Lineage(f, n, versions)
  BY SomeVersion
<1>3. Reverting = FALSE
  BY DEF Reverting
<1>4. n \in Nat \ {0} /\ f \in [1..n -> Version]
  <2>1. n \in Nat \ {0} /\ f \in [1..n -> versions]
    BY <1>2 DEF Lineage, Ordered
  <2> QED
    BY <1>1, <2>1
<1>5. /\ StatesOfStatus = Stacked(f, n, row)
      /\ Stacked(f, n, row) \in [1..n -> Row]
  BY <1>1, <1>2, <1>3, StackAtRest, StatesAreStack
<1>6. Tail(StatesOfStatus) = [i \in 1..n - 1 |-> Stacked(f, n, row)[i + 1]]
  BY <1>4, <1>5, TailAsFunction
<1>7. Cardinality(versions) = n /\ ObjectsOf(versions) = [i \in 1..n |-> f[i].object]
  BY <1>1, <1>2, ObjectsOrdered DEF Lineage
<1>8. CASE n = 1
  <2>1. LogEntries = <<>>
    BY <1>7, <1>8 DEF LogEntries
  <2>2. [i \in 1..n - 1 |-> Stacked(f, n, row)[i + 1]] = <<>>
    BY <1>8
  <2> QED
    BY <1>6, <2>1, <2>2
<1>9. CASE n > 1
  <2> DEFINE objects == [i \in 1..n |-> f[i].object]
             older == [i \in 1..n - 1 |-> f[i + 1].object]
             oldest == [i \in 1..n - 2 |-> f[i + 2].object]
  <2>1. objects \in [1..n -> Row \cup {Nil}]
    BY <1>4 DEF Version
  <2>2. /\ \A i \in 1..n - 1 : f[i + 1].object \in Row
        /\ n - 1 \in Nat \ {0} /\ n - 2 \in Nat /\ (n - 1) - 1 = n - 2
    <3>1. n - 1 \in Nat \ {0} /\ n - 2 \in Nat /\ (n - 1) - 1 = n - 2
      BY <1>4, <1>9
    <3> QED
      BY <1>1, <1>2, <3>1, KeptOrdered
  <2>3. Tail(objects) = older
    <3>1. Tail(objects) = [i \in 1..n - 1 |-> objects[i + 1]]
      BY <1>4, <2>1, TailAsFunction
    <3>2. \A i \in 1..n - 1 : objects[i + 1] = f[i + 1].object
      BY <1>4
    <3> QED
      BY <3>1, <3>2
  <2>4. Tail(older) = oldest
    <3>1. older \in [1..n - 1 -> Row]
      BY <2>2
    <3>2. Tail(older) = [i \in 1..n - 2 |-> older[i + 1]]
      BY <2>2, <3>1, TailAsFunction
    <3>3. \A i \in 1..n - 2 : older[i + 1] = f[i + 2].object
      BY <1>4
    <3> QED
      BY <3>2, <3>3
  <2>5. oldest \in [1..n - 2 -> Row]
    <3>1. \A i \in 1..n - 2 : i + 1 \in 1..n - 1 /\ (i + 1) + 1 = i + 2
      BY <1>4
    <3> QED
      BY <2>2, <3>1
  <2>6. Append(oldest, row) = [i \in 1..(n - 2) + 1 |-> IF i <= n - 2 THEN oldest[i] ELSE row]
    BY <1>1, <2>2, <2>5, AppendAsFunction
  <2>7. LogEntries = Append(oldest, row)
    <3>1. ~(Cardinality(versions) < 2)
      BY <1>4, <1>7, <1>9
    <3> QED
      BY <1>7, <2>3, <2>4, <3>1 DEF LogEntries
  <2>8. (n - 2) + 1 = n - 1
    BY <2>2
  <2>9. \A i \in 1..n - 1 : (IF i <= n - 2 THEN oldest[i] ELSE row) = Stacked(f, n, row)[i + 1]
    <3> SUFFICES ASSUME NEW i \in 1..n - 1
                 PROVE  (IF i <= n - 2 THEN oldest[i] ELSE row) = Stacked(f, n, row)[i + 1]
      OBVIOUS
    <3>1. i + 1 \in 1..n /\ (i <= n - 2 <=> i + 1 < n) /\ (i + 1) + 1 = i + 2
          /\ (i <= n - 2 => i \in 1..n - 2)
      BY <1>4
    <3>2. Stacked(f, n, row)[i + 1] = IF i + 1 < n THEN f[i + 2].object ELSE row
      BY <3>1 DEF Stacked
    <3> QED
      BY <3>1, <3>2
  <2> QED
    BY <1>6, <2>6, <2>7, <2>8, <2>9
<1> QED
  BY <1>4, <1>8, <1>9

\* At rest the log has one entry for every change that has not been undone
\* (ProjectMedia#get_annotations_log, project_media.rb:88-99): also when processes have
\* died halfway through a destroy, as long as requests do not overlap.
THEOREM LogAtRest == CrashSpec /\ []Alone => []LogShowsEveryChange
<1>1. IInv /\ SerialInv => LogShowsEveryChange
  BY LogOfLineage
<1> QED
  BY <1>1, SerialInvariance, PTL

\* On a server with one thread the requests do not overlap, and the log is right.
COROLLARY LogOfOneThread ==
  ASSUME \A s, t \in Threads : s = t
  PROVE  RequestSpec => []LogShowsEveryChange
  BY OneThreadAlone, LogAtRest, PTL

\* A destroy deletes the version it has restored (status.rb:92-103), as long as no other
\* request comes between: the run status_two_destroys shows why that is needed.
THEOREM DropsRestored == CrashSpec /\ []Alone => DropsVersionRestored
<1> DEFINE Drops == \A t \in Threads :
                      req[t].pc = "drop" /\ versions' # versions /\ req'[t] # req[t]
                        => req[t].newest = req[t].restored
<1>1. IInv /\ SerialInv => Drops
  BY DEF SerialInv, RequestInv
<1>2. IInv /\ SerialInv => [Drops]_vars
  BY <1>1
<1> QED
  BY <1>2, SerialInvariance, PTL DEF DropsVersionRestored

-----------------------------------------------------------------------------
\* A status that goes on being what it was has the same stack.
LEMMA SameStack ==
  ASSUME UNCHANGED <<row, versions, nextId>>, Reverting <=> Reverting'
  PROVE  UNCHANGED Undo!vars
<1>1. Reverting \in BOOLEAN /\ Reverting' \in BOOLEAN
  BY DEF Reverting
<1>2. Reverting' = Reverting
  BY <1>1
<1>3. StatesOfStatus' = StatesOfStatus
  BY <1>2, StatesAreStack
<1> QED
  BY <1>3 DEF Undo!vars

\* With the others idle, whether the newest state is put back is told by one request.
LEMMA RevertingAlone ==
  ASSUME NEW t \in Threads, \A u \in Threads \ {t} : req[u].pc = "idle"
  PROVE  /\ Reverting <=> req[t].pc \in {"reverted", "drop"}
         /\ (\A u \in Threads \ {t} : req'[u] = req[u])
              => (Reverting' <=> req'[t].pc \in {"reverted", "drop"})
  BY DEF Reverting

\* The stack before and after a step that leaves a row.
LEMMA StackBefore ==
  ASSUME IInv, NEW n, NEW f, Lineage(f, n, versions), row # Nil, ~Reverting
  PROVE  StatesOfStatus = Stacked(f, n, row) /\ Stacked(f, n, row) \in [1..n -> Row]
<1>1. versions \in SUBSET Version /\ row \in Row
  BY DEF IInv, TypeOK
<1>2. Reverting = FALSE
  BY DEF Reverting
<1> QED
  BY <1>1, <1>2, StackAtRest, StatesAreStack

LEMMA StackAfter ==
  ASSUME NEW n, NEW f, Lineage(f, n, versions'), versions' \in SUBSET Version,
         row' \in Row, ~Reverting'
  PROVE  StatesOfStatus' = Stacked(f, n, row') /\ Stacked(f, n, row') \in [1..n -> Row]
<1>1. Reverting' = FALSE
  BY DEF Reverting
<1> QED
  BY <1>1, StackAtRest, StatesAreStack

\* What a stack that stands for a lineage looks like from the top.
LEMMA StackedTop ==
  ASSUME NEW n \in Nat \ {0}, NEW f, NEW r, Stacked(f, n, r) \in [1..n -> Row]
  PROVE  /\ Stacked(f, n, r) \in Seq(Row)
         /\ Len(Stacked(f, n, r)) = n
         /\ Stacked(f, n, r) # <<>>
         /\ Stacked(f, n, r)[n] = r
         /\ n > 1 => Stacked(f, n, r)[n - 1] = f[n].object
<1>1. Stacked(f, n, r) \in Seq(Row) /\ Len(Stacked(f, n, r)) = n
  BY FunctionIsSeq
<1>2. Stacked(f, n, r)[n] = r
  BY DEF Stacked
<1>3. ASSUME n > 1 PROVE Stacked(f, n, r)[n - 1] = f[n].object
  <2>1. n - 1 \in 1..n /\ n - 1 < n /\ (n - 1) + 1 = n
    BY <1>3
  <2> QED
    BY <2>1 DEF Stacked
<1> QED
  BY <1>1, <1>2, <1>3

\* No status is withdrawn before there is one, and none while there is a row.
LEMMA NotWithdrawn ==
  ASSUME row # Nil, row' # Nil
  PROVE  (row = Nil /\ nextId > 1)' = (row = Nil /\ nextId > 1)
  OBVIOUS

LEMMA InitUndo == Init => Undo!Init
<1> SUFFICES ASSUME Init PROVE Undo!Init
  OBVIOUS
<1>1. StatesOfStatus = <<>>
  BY DEF Init, StatesOfStatus
<1>2. (row = Nil /\ nextId > 1) = FALSE
  BY DEF Init
<1> QED
  BY <1>1, <1>2 DEF Undo!Init

\* Creation puts the first state on the stack.
LEMMA CreateOpens ==
  ASSUME IInv, SerialInv, NEW u \in Users, Create(u)
  PROVE  \E e \in Undo!Entry : Undo!Open(e)
<1> DEFINE v == [id |-> 1, object |-> Nil]
           e == [status |-> DefaultStatus, annotator |-> u]
           f == [i \in 1..1 |-> v]
<1>1. row = Nil /\ row' = e /\ e \in Row /\ e \in Undo!Entry
  <2>1. row = Nil /\ row' = e
    BY DEF Create, SerialInv, VersionsInv
  <2>2. e \in Row
    BY StatusesAssumption DEF Row
  <2> QED
    BY <2>1, <2>2 DEF Row, Undo!Entry
<1>2. versions' = {v} /\ versions' \in SUBSET Version /\ nextId = 1 /\ nextId' = 2
  BY DEF Create, Version
<1>3. Lineage(f, 1, {v})
  BY DEF Lineage, Ordered
<1>4. ~Reverting'
  BY <1>1 DEF SerialInv, RequestInv, Reverting, Create
<1>5. StatesOfStatus' = Stacked(f, 1, e)
  BY <1>1, <1>2, <1>3, <1>4, StackAfter
<1>6. Stacked(f, 1, e) = <<e>>
  BY DEF Stacked
<1>7. StatesOfStatus = <<>>
  BY <1>1 DEF StatesOfStatus
<1>8. e # Nil
  BY <1>1, NilAssumption
<1>9. ~(row = Nil /\ nextId > 1) /\ ~(row' = Nil /\ nextId' > 1)
  BY <1>1, <1>2, <1>8
<1> QED
  BY <1>1, <1>5, <1>6, <1>7, <1>9 DEF Undo!Open

\* An update that changes something pushes the state it asks for.
LEMMA SaveUpdateChanges ==
  ASSUME IInv, SerialInv, NEW t \in Threads, SaveUpdate(t), req[t].target # req[t].loaded,
         \A u \in Threads \ {t} : req[u].pc = "idle"
  PROVE  \E e \in Undo!Entry : Undo!Change(e)
<1> DEFINE e == req[t].target
           v == [id |-> nextId, object |-> row]
<1>1. /\ row # Nil /\ row \in Row /\ req[t].loaded = row /\ e \in Row
      /\ nextId \in Nat \ {0} /\ req \in [Threads -> Request]
  BY DEF SaveUpdate, SerialInv, RequestInv, IInv, TypeOK, Request
<1>2. nextId > 1 /\ versions \in SUBSET Version /\ \A w \in versions : w.id < nextId
  BY <1>1, SomeVersion DEF SerialInv, VersionsInv
<1>3. PICK n, f : Lineage(f, n, versions)
  BY <1>1, SomeVersion
<1> DEFINE g == [i \in 1..n + 1 |-> IF i <= n THEN f[i] ELSE v]
<1>4. row' = e
  BY <1>1, WritesTarget DEF SaveUpdate
<1>5. versions' = versions \cup {v}
  BY <1>1 DEF SaveUpdate
<1>6. v \in Version /\ v.object # Nil /\ v.id = nextId
  BY <1>1 DEF Version
<1>7. Lineage(g, n + 1, versions')
  BY <1>2, <1>3, <1>5, <1>6, LineageGrows
<1>8. n \in Nat \ {0} /\ n + 1 \in Nat \ {0}
  BY <1>3 DEF Lineage, Ordered
<1>9. ~Reverting /\ ~Reverting'
  <2>1. req'[t].pc = "idle" /\ \A u \in Threads \ {t} : req'[u] = req[u]
    BY <1>1 DEF SaveUpdate, Finish, Idle
  <2> QED
    BY <2>1, RevertingAlone DEF SaveUpdate
<1>10. StatesOfStatus = Stacked(f, n, row) /\ Stacked(f, n, row) \in [1..n -> Row]
  BY <1>1, <1>3, <1>9, StackBefore
<1>11. StatesOfStatus' = Stacked(g, n + 1, e)
  <2>1. versions' \in SUBSET Version
    BY <1>2, <1>5, <1>6
  <2> QED
    BY <1>1, <1>4, <1>7, <1>9, <2>1, StackAfter
<1>12. Stacked(g, n + 1, e) = Append(Stacked(f, n, row), e)
  <2>1. Append(Stacked(f, n, row), e)
          = [i \in 1..n + 1 |-> IF i <= n THEN Stacked(f, n, row)[i] ELSE e]
    BY <1>1, <1>8, <1>10, AppendAsFunction
  <2>2. ASSUME NEW i \in 1..n + 1
        PROVE  (IF i < n + 1 THEN g[i + 1].object ELSE e)
                 = (IF i <= n THEN Stacked(f, n, row)[i] ELSE e)
    <3>1. CASE i < n
      <4>1. i + 1 \in 1..n + 1 /\ i + 1 <= n /\ i \in 1..n /\ i < n + 1 /\ i <= n
        BY <1>8, <3>1
      <4> QED
        BY <3>1, <4>1 DEF Stacked
    <3>2. CASE i = n
      <4>1. n + 1 \in 1..n + 1 /\ ~(n + 1 <= n) /\ n \in 1..n /\ n < n + 1 /\ n <= n /\ ~(n < n)
        BY <1>8
      <4>2. g[n + 1].object = row /\ Stacked(f, n, row)[n] = row
        BY <4>1 DEF Stacked
      <4> QED
        BY <3>2, <4>1, <4>2
    <3>3. CASE i = n + 1
      <4>1. ~(i < n + 1) /\ ~(i <= n)
        BY <1>8, <3>3
      <4> QED
        BY <4>1
    <3> QED
      BY <1>8, <3>1, <3>2, <3>3
  <2> QED
    BY <2>1, <2>2 DEF Stacked
<1>13. /\ StatesOfStatus # <<>>
       /\ StatesOfStatus[Len(StatesOfStatus)] = row
  BY <1>8, <1>10, StackedTop
<1>14. e \in Undo!Entry /\ e # row
  BY <1>1 DEF Row, Undo!Entry
<1>15. row' # Nil
  BY <1>1, <1>4, NilAssumption
<1> QED
  BY <1>1, <1>11, <1>10, <1>12, <1>13, <1>14, <1>15, NotWithdrawn DEF Undo!Change

\* An update that changes nothing leaves the stack as it is.
LEMMA SaveUpdateStutters ==
  ASSUME IInv, SerialInv, NEW t \in Threads, SaveUpdate(t), req[t].target = req[t].loaded,
         \A u \in Threads \ {t} : req[u].pc = "idle"
  PROVE  UNCHANGED Undo!vars
<1>1. row # Nil /\ row \in Row /\ req[t].loaded = row /\ req \in [Threads -> Request]
  BY DEF SaveUpdate, SerialInv, RequestInv, IInv, TypeOK
<1>2. row' = row /\ UNCHANGED <<versions, nextId>>
  BY <1>1, WritesTarget DEF SaveUpdate
<1>3. req'[t].pc = "idle" /\ \A u \in Threads \ {t} : req'[u] = req[u]
  BY <1>1 DEF SaveUpdate, Finish, Idle
<1>4. ~Reverting /\ ~Reverting'
  BY <1>3, RevertingAlone DEF SaveUpdate
<1> QED
  BY <1>2, <1>4, SameStack

\* The save of a revert takes back the last change, in the name of the user.
LEMMA SaveRevertUndoes ==
  ASSUME IInv, SerialInv, NEW t \in Threads, SaveRevert(t),
         \A u \in Threads \ {t} : req[u].pc = "idle"
  PROVE  \E u \in Users : Undo!Undo(u)
<1> DEFINE v == req[t].restored
           e == [v.object EXCEPT !.annotator = req[t].user]
<1>1. row \in Row /\ Newest(v) /\ v.object \in Row /\ row' = e /\ row' \in Row
  BY SaveRevertSerial
<1>2. row # Nil /\ row' # Nil /\ v.object # Nil
  BY <1>1, NilAssumption
<1>3. versions \in SUBSET Version /\ req \in [Threads -> Request]
      /\ UNCHANGED <<versions, nextId>> /\ req[t].user \in Users
  BY DEF SaveRevert, IInv, TypeOK
<1>4. PICK n, f : Lineage(f, n, versions)
  BY <1>2, SomeVersion
<1>5. v = f[n] /\ n > 1
  <2>1. v = f[n] /\ v # f[1]
    BY <1>1, <1>2, <1>3, <1>4, LineageNewest DEF Newest
  <2> QED
    BY <1>4, <2>1 DEF Lineage, Ordered
<1>6. n \in Nat \ {0} /\ n - 1 \in 1..n /\ (n - 1) - 1 = n - 2 /\ n - 2 \in 0..n
  BY <1>4, <1>5 DEF Lineage, Ordered
<1>7. ~Reverting /\ Reverting'
  <2>1. req'[t].pc = "reverted" /\ \A u \in Threads \ {t} : req'[u] = req[u]
    BY <1>3 DEF SaveRevert
  <2> QED
    BY <2>1, RevertingAlone DEF SaveRevert
<1>8. StatesOfStatus = Stacked(f, n, row) /\ Stacked(f, n, row) \in [1..n -> Row]
  BY <1>2, <1>4, <1>7, StackBefore
<1>9. StatesOfStatus' = Stacked(f, n - 1, e)
  <2>1. Reverting' = TRUE
    BY <1>7 DEF Reverting
  <2>2. StackOf(versions, row', TRUE) = Stacked(f, n - 1, row')
    BY <1>1, <1>3, <1>4, <1>5, StackReverting
  <2> QED
    BY <1>1, <1>3, <2>1, <2>2, StatesAreStack
<1>10. /\ Len(StatesOfStatus) = n
       /\ StatesOfStatus[Len(StatesOfStatus) - 1] = v.object
  BY <1>5, <1>6, <1>8, StackedTop
<1>11. SubSeq(StatesOfStatus, 1, n - 2) = Under(f, n - 1)
  <2>1. SubSeq(Stacked(f, n, row), 1, n - 2) = [i \in 1..n - 2 |-> Stacked(f, n, row)[i]]
    BY <1>6, <1>8, SubSeqAsFunction
  <2>2. \A i \in 1..n - 2 : i \in 1..n /\ i < n
    BY <1>6
  <2>3. \A i \in 1..n - 2 : Stacked(f, n, row)[i] = f[i + 1].object
    BY <2>2 DEF Stacked
  <2> QED
    BY <1>6, <1>8, <2>1, <2>3 DEF Under
<1>12. Append(Under(f, n - 1), e) = Stacked(f, n - 1, e)
  <2>1. versions \in SUBSET Version /\ e \in Row
    BY <1>1, <1>3
  <2> HIDE DEF e
  <2>2. \A m \in 1..n : /\ Append(Under(f, m), e) = Stacked(f, m, e)
                        /\ Stacked(f, m, e) \in [1..m -> Row]
    BY <1>4, <2>1, StackedStates
  <2> QED
    BY <1>6, <2>2
<1>13. Undo!Undo(req[t].user)
  <2>1. Len(StatesOfStatus) > 1 /\ Len(StatesOfStatus) - 2 = n - 2
    BY <1>5, <1>10
  <2>2. StatesOfStatus' = Append(SubSeq(StatesOfStatus, 1, Len(StatesOfStatus) - 2),
                                 [StatesOfStatus[Len(StatesOfStatus) - 1]
                                    EXCEPT !.annotator = req[t].user])
    BY <1>9, <1>10, <1>11, <1>12
  <2> QED
    BY <1>2, <2>1, <2>2, NotWithdrawn DEF Undo!Undo
<1> QED
  BY <1>3, <1>13

\* Deleting the version of the state that is back already leaves the stack as it is.
LEMMA DropStutters ==
  ASSUME IInv, SerialInv, NEW t \in Threads, DropVersion(t),
         \A u \in Threads \ {t} : req[u].pc = "idle"
  PROVE  UNCHANGED Undo!vars
<1>1. /\ row # Nil /\ row \in Row /\ row' = row /\ nextId' = nextId
      /\ versions' = versions \ {req[t].newest}
      /\ versions \in SUBSET Version /\ req \in [Threads -> Request]
  BY DEF DropVersion, IInv, TypeOK
<1>2. PICK n, f : Lineage(f, n, versions)
  BY <1>1, SomeVersion
<1> DEFINE g == [i \in 1..n - 1 |-> f[i]]
<1>3. n > 1
  BY <1>2, DropSerial
<1>4. Lineage(g, n - 1, versions') /\ n \in Nat
  <2>1. n \in Nat
    BY <1>2 DEF Lineage, Ordered
  <2> QED
    BY <1>2, <2>1, DropSerial
<1>5. Reverting /\ ~Reverting'
  <2>1. req'[t].pc = "idle" /\ \A u \in Threads \ {t} : req'[u] = req[u]
    BY <1>1 DEF DropVersion, Finish, Idle
  <2> QED
    BY <2>1, RevertingAlone DEF DropVersion
<1>6. StatesOfStatus = Stacked(f, n - 1, row)
  <2>1. Reverting = TRUE
    BY <1>5 DEF Reverting
  <2>2. StackOf(versions, row, TRUE) = Stacked(f, n - 1, row)
    BY <1>1, <1>2, <1>3, StackReverting
  <2> QED
    BY <2>1, <2>2, StatesAreStack
<1>7. StatesOfStatus' = Stacked(g, n - 1, row)
  <2>1. versions' \in SUBSET Version /\ row' \in Row
    BY <1>1
  <2> QED
    BY <1>1, <1>4, <1>5, <2>1, StackAfter
<1>8. Stacked(g, n - 1, row) = Stacked(f, n - 1, row)
  <2>1. \A i \in 1..n - 1 : i < n - 1 => i + 1 \in 1..n - 1
    BY <1>4
  <2> QED
    BY <2>1 DEF Stacked
<1> QED
  BY <1>1, <1>6, <1>7, <1>8 DEF Undo!vars

\* A destroy that finds only the version of the creation withdraws the status.
LEMMA WithdrawWithdraws ==
  ASSUME IInv, SerialInv, NEW t \in Threads, Withdraw(t),
         \A u \in Threads \ {t} : req[u].pc = "idle"
  PROVE  Undo!Withdraw
<1>1. /\ row # Nil /\ row \in Row /\ row' = Nil /\ UNCHANGED <<versions, nextId>>
      /\ versions \in SUBSET Version /\ nextId > 1
      /\ Newest(req[t].restored) /\ req[t].restored.object = Nil
  BY SomeVersion DEF Withdraw, IInv, TypeOK, SerialInv, RequestInv
<1>2. PICK n, f : Lineage(f, n, versions)
  BY <1>1, SomeVersion
<1>3. n = 1
  <2>1. f[n] = f[1]
    BY <1>1, <1>2, LineageNewest DEF Newest
  <2>2. n \in Nat \ {0} /\ n \in 1..n /\ 1 \in 1..n /\ f[n].id \in Nat
    BY <1>1, <1>2 DEF Lineage, Ordered, Version
  <2>3. 1 < n => f[1].id < f[n].id
    BY <1>2, <2>2 DEF Lineage, Ordered
  <2> QED
    BY <2>1, <2>2, <2>3
<1>4. ~Reverting
  BY RevertingAlone DEF Withdraw
<1>5. Len(StatesOfStatus) = 1
  <2>1. StatesOfStatus = Stacked(f, n, row) /\ Stacked(f, n, row) \in [1..n -> Row]
    BY <1>1, <1>2, <1>4, StackBefore
  <2> QED
    BY <1>3, <2>1, StackedTop
<1>6. StatesOfStatus' = <<>>
  BY <1>1 DEF StatesOfStatus
<1>7. (row = Nil /\ nextId > 1)' = TRUE
  BY <1>1
<1> QED
  BY <1>5, <1>6, <1>7 DEF Undo!Withdraw

\* A step that leaves row and versions and does not begin or end the putting back.
LEMMA RestStutters ==
  ASSUME IInv, SerialInv, NEW t \in Threads,
         Begin(t) \/ Reify(t) \/ PickVersion(t) \/ Fail(t), NoneRefusedHalfway,
         \A u \in Threads \ {t} : req[u].pc = "idle"
  PROVE  UNCHANGED Undo!vars
<1>1. UNCHANGED <<row, versions, nextId>> /\ req \in [Threads -> Request]
  BY DEF Begin, BeginUpdate, BeginDestroy, Reify, PickVersion, Fail, IInv, TypeOK
<1>2. \A u \in Threads \ {t} : req'[u] = req[u]
  BY <1>1 DEF Begin, BeginUpdate, BeginDestroy, Reify, PickVersion, Fail, Finish
<1>3. req[t].pc \in {"reverted", "drop"} <=> req'[t].pc \in {"reverted", "drop"}
  <2>1. CASE Begin(t)
    <3>1. ~(req[t].pc \in {"reverted", "drop"})
      BY <2>1 DEF Begin, BeginUpdate, BeginDestroy
    <3>2. ~(req'[t].pc \in {"reverted", "drop"})
      BY <1>1, <2>1 DEF Begin, BeginUpdate, BeginDestroy, Idle
    <3> QED
      BY <3>1, <3>2
  <2>2. CASE Reify(t)
    BY <1>1, <2>2 DEF Reify
  <2>3. CASE PickVersion(t)
    <3>1. PICK v : req' = [req EXCEPT ![t].pc = "drop", ![t].newest = v]
      BY <2>3 DEF PickVersion
    <3>2. req'[t].pc = "drop" /\ req[t].pc = "reverted"
      BY <1>1, <2>3, <3>1 DEF PickVersion, Request
    <3> QED
      BY <3>2
  <2>4. CASE Fail(t)
    <3>1. req[t].pc # "reverted"
      BY <2>4, SomeVersion DEF Fail, Raises, Saving, SerialInv, RequestInv
    <3>2. req[t].pc # "drop"
      BY <2>4 DEF Fail, Raises, Saving, SerialInv, RequestInv, NoneRefusedHalfway, MayDestroy
    <3>3. req'[t].pc = "idle"
      BY <1>1, <2>4 DEF Fail, Finish, Idle
    <3> QED
      BY <3>1, <3>2, <3>3
  <2> QED
    BY <2>1, <2>2, <2>3, <2>4
<1>4. Reverting <=> Reverting'
  BY <1>2, <1>3, RevertingAlone
<1> QED
  BY <1>1, <1>4, SameStack

\* A step of requests that run to their end is a step of the stack, or none.
LEMMA StepUndo ==
  ASSUME IInv, SerialInv, Alone, Alone', NoneRefusedHalfway, [RequestNext]_vars
  PROVE  [Undo!Next]_Undo!vars
<1>1. req \in [Threads -> Request]
  BY DEF IInv, TypeOK
<1>2. ASSUME NEW u \in Users, Create(u) PROVE Undo!Next
  BY <1>2, CreateOpens DEF Undo!Next
<1>3. ASSUME NEW t \in Threads, Begin(t) PROVE UNCHANGED Undo!vars
  <2>1. req'[t].pc # "idle" /\ \A u \in Threads \ {t} : req'[u] = req[u]
    BY <1>1, <1>3 DEF Begin, BeginUpdate, BeginDestroy, Idle
  <2>2. \A u \in Threads \ {t} : req[u].pc = "idle"
    BY <2>1 DEF Alone
  <2> QED
    BY <1>3, <2>2, RestStutters
<1>4. ASSUME NEW t \in Threads, Progress(t) PROVE [Undo!Next]_Undo!vars
  <2>1. req[t].pc # "idle"
    BY <1>4 DEF Progress, StorePrevious, Validate, Announce, Saving, SaveUpdate, Reify,
       SaveRevert, PickVersion, DropVersion, Withdraw, Fail, Raises
  <2>2. \A u \in Threads \ {t} : req[u].pc = "idle"
    BY <2>1 DEF Alone
  <2>3. CASE SaveUpdate(t) /\ req[t].target # req[t].loaded
    BY <2>2, <2>3, SaveUpdateChanges DEF Undo!Next
  <2>4. CASE SaveUpdate(t) /\ req[t].target = req[t].loaded
    BY <2>2, <2>4, SaveUpdateStutters
  <2>5. CASE SaveRevert(t)
    BY <2>2, <2>5, SaveRevertUndoes DEF Undo!Next
  <2>6. CASE DropVersion(t)
    BY <2>2, <2>6, DropStutters
  <2>7. CASE Withdraw(t)
    BY <2>2, <2>7, WithdrawWithdraws DEF Undo!Next
  <2>8. CASE Reify(t) \/ PickVersion(t) \/ Fail(t)
    BY <2>2, <2>8, RestStutters
  <2>9. CASE StorePrevious(t) \/ Validate(t) \/ Announce(t)
    <3>1. Reverting <=> Reverting'
      BY <2>2, <2>9, SavingStep, RevertingAlone
    <3> QED
      BY <2>9, <3>1, SavingStep, SameStack
  <2> QED
    BY <1>4, <2>3, <2>4, <2>5, <2>6, <2>7, <2>8, <2>9 DEF Progress
<1>5. CASE Settings \/ UNCHANGED vars
  <2>1. UNCHANGED <<row, versions, nextId, req>>
    BY <1>5 DEF Settings, SetTeam, vars
  <2>2. Reverting <=> Reverting'
    BY <2>1 DEF Reverting
  <2> QED
    BY <2>1, <2>2, SameStack
<1> QED
  BY <1>2, <1>3, <1>4, <1>5 DEF RequestNext

\* Requests that do not overlap and run to their end make of the row and its versions a
\* stack: a destroy takes back the last change and nothing else (Status#destroy,
\* status.rb:92-103), unless it is refused between its two transactions, as the run
\* status_refused_destroy shows it can be.
THEOREM UndoIsExact == RequestSpec /\ []Alone /\ []NoneRefusedHalfway => ImplementsUndoStack
<1>1. [RequestNext]_vars => [CrashNext]_vars
  BY DEF CrashNext
<1>2. RequestSpec /\ []Alone => [](IInv /\ SerialInv)
  BY <1>1, SerialInvariance, PTL DEF RequestSpec, CrashSpec
<1>3. IInv /\ SerialInv /\ Alone /\ Alone' /\ NoneRefusedHalfway /\ [RequestNext]_vars
        => [Undo!Next]_Undo!vars
  BY StepUndo
<1> QED
  BY <1>2, <1>3, InitUndo, PTL DEF RequestSpec, ImplementsUndoStack, Undo!Spec

\* On a server with one thread, in a team whose journalists are all owners.
COROLLARY UndoOfOneThread ==
  ASSUME \A s, t \in Threads : s = t, Journalists \subseteq Owners
  PROVE  RequestSpec => ImplementsUndoStack
<1>1. NoneRefusedHalfway
  BY DEF NoneRefusedHalfway
<1> QED
  BY <1>1, OneThreadAlone, UndoIsExact, PTL
=============================================================================
