----------------------------- MODULE MapProofs -----------------------------
(***************************************************************************)
(* MapData for any keys, values, iterators and bounds: MapInv is           *)
(* inductive, and what TLC checks on short lists follows from it.          *)
(***************************************************************************)
EXTENDS MapData, FiniteSetTheorems, TLAPS

-----------------------------------------------------------------------------
(* The list *)

Entry == [key : Keys \cup {Empty}, value : Values \cup {Empty}]

\* The part of MapTypeOK about the list.
ListOK ==
    /\ entries \in Seq(Entry)
    /\ \A p \in DOMAIN entries : entries[p].key = Empty <=> entries[p].value = Empty

\* A function over an initial segment of the positions is a list.
LEMMA FunctionIsList ==
  ASSUME NEW S, NEW n \in Nat, NEW f \in [1 .. n -> S]
  PROVE  f \in Seq(S) /\ Len(f) = n
  OBVIOUS

\* Non-empty sets of positions have a least element, which First chooses.
LEMMA FirstIsLeast ==
  ASSUME NEW P \in SUBSET Nat, P # {}
  PROVE  First(P) \in P /\ \A q \in P : First(P) <= q
  <1>1. \E p \in P : \A q \in P : ~ (<<q, p>> \in OpToRel(<, Nat))
    BY NatLessThanWellFounded, WFMin, Zenon
  <1>2. \A q, p \in Nat : q < p => <<q, p>> \in OpToRel(<, Nat)
    BY DEF OpToRel
  <1>3. \E p \in P : \A q \in P : p <= q
    <2>1. PICK p \in P : \A q \in P : ~ (<<q, p>> \in OpToRel(<, Nat))
      BY <1>1
    <2>2. \A q \in P : q \in Nat /\ p \in Nat /\ ~ (q < p)
      BY <2>1, <1>2
    <2>3. \A q \in P : p <= q
      BY <2>2
    <2> QED
      BY <2>3
  <1> QED
    BY <1>3 DEF First

\* The live entries, and those up to a position, are finitely many.
LEMMA LiveFinite ==
  ASSUME ListOK
  PROVE  /\ Live \subseteq 1 .. Len(entries)
         /\ DOMAIN entries = 1 .. Len(entries) /\ Len(entries) \in Nat
         /\ IsFiniteSet(Live)
         /\ \A n \in Nat : IsFiniteSet(UpTo(n)) /\ Cardinality(UpTo(n)) \in Nat
  <1>1. DOMAIN entries = 1 .. Len(entries) /\ Len(entries) \in Nat
    BY DEF ListOK
  <1>2. Live \subseteq 1 .. Len(entries)
    BY <1>1 DEF Live
  <1>3. IsFiniteSet(Live)
    <2>1. IsFiniteSet(1 .. Len(entries))
      BY <1>1, FS_Interval
    <2> QED
      BY <2>1, <1>2, FS_Subset
  <1>4. \A n \in Nat : UpTo(n) \in SUBSET Live
    BY DEF UpTo
  <1> QED
    BY <1>1, <1>2, <1>3, <1>4, FS_Subset, FS_CardinalityType

\* _ejs_map_set changes the list only where it overwrites the value of the key
\* or behind its end: what is live up to a position stays so.
LEMMA Upserted ==
  ASSUME ListOK, KeysDistinct, NEW k \in Keys, NEW v \in Values, Upsert(k, v)
  PROVE  /\ ListOK' /\ KeysDistinct'
         /\ Len(entries) <= Len(entries')
         /\ DOMAIN entries \subseteq DOMAIN entries'
         /\ Live \subseteq Live'
         /\ \A n \in 0 .. Len(entries) : UpTo(n)' = UpTo(n)
         /\ \A p \in Live : entries'[p].key = entries[p].key
         /\ \E p \in Live' : entries'[p].key = k
         /\ \A p \in Live' : IF entries'[p].key = k THEN entries'[p].value = v
                                                  ELSE p \in Live /\ entries'[p] = entries[p]
  <1>0. Empty \notin Keys /\ Empty \notin Values
    BY EmptyAssumption
  <1>1. DOMAIN entries = 1 .. Len(entries) /\ Len(entries) \in Nat
    BY LiveFinite
  <1>2. CASE At(k) # {}
    <2>1. entries' = [p \in DOMAIN entries |->
                        IF p \in At(k) THEN [key |-> k, value |-> v] ELSE entries[p]]
      BY <1>2 DEF Upsert
    <2>2. Len(entries') = Len(entries) /\ DOMAIN entries' = DOMAIN entries
      BY <2>1, <1>1
    <2>3. \A p \in DOMAIN entries : entries'[p].key = entries[p].key
      BY <2>1 DEF At
    <2>4. Live' = Live
      BY <2>2, <2>3 DEF Live
    <2>5. ListOK'
      <3>1. [key |-> k, value |-> v] \in Entry
        BY DEF Entry
      <3>2. entries' \in Seq(Entry)
        <4>1. entries' \in [1 .. Len(entries) -> Entry]
          BY <2>1, <3>1, <1>1 DEF ListOK
        <4> QED
          BY <4>1, <1>1, FunctionIsList
      <3>3. \A p \in DOMAIN entries' : entries'[p].key = Empty <=> entries'[p].value = Empty
        BY <2>1, <1>0, <1>1 DEF ListOK
      <3> QED
        BY <3>2, <3>3 DEF ListOK
    <2>6. KeysDistinct'
      BY <2>2, <2>3, <2>4 DEF KeysDistinct, Live
    <2>7. \A n \in 0 .. Len(entries) : UpTo(n)' = UpTo(n)
      BY <2>4 DEF UpTo
    <2>8. \E p \in Live' : entries'[p].key = k
      BY <1>0, <1>2, <2>3, <2>4 DEF At, Live
    <2>9. \A p \in Live' : IF entries'[p].key = k THEN entries'[p].value = v
                                                ELSE entries'[p] = entries[p]
      BY <2>1, <2>3, <2>4 DEF At, Live
    <2>10. \A p \in Live : entries'[p].key = entries[p].key
      BY <2>3 DEF Live
    <2> QED
      BY <2>2, <2>4, <2>5, <2>6, <2>7, <2>8, <2>9, <2>10, <1>1
  <1>3. CASE At(k) = {}
    <2> DEFINE e == [key |-> k, value |-> v]
    <2>1. entries' = Append(entries, e)
      BY <1>3 DEF Upsert
    <2>2. e \in Entry
      BY DEF Entry
    <2> HIDE DEF e
    <2>3. /\ Len(entries') = Len(entries) + 1
          /\ DOMAIN entries' = 1 .. Len(entries) + 1
          /\ \A p \in DOMAIN entries : entries'[p] = entries[p]
          /\ entries'[Len(entries) + 1] = e
      BY <2>1, <2>2 DEF ListOK
    <2>4. e.key = k /\ e.value = v
      BY DEF e
    <2>5. Live' = Live \cup {Len(entries) + 1}
      BY <2>3, <2>4, <1>0, <1>1 DEF Live
    <2>6. ListOK'
      <3>1. entries' \in Seq(Entry)
        BY <2>1, <2>2 DEF ListOK
      <3>2. \A p \in DOMAIN entries' : entries'[p].key = Empty <=> entries'[p].value = Empty
        BY <2>3, <2>4, <1>0, <1>1 DEF ListOK
      <3> QED
        BY <3>1, <3>2 DEF ListOK
    <2>7. \A p \in Live : entries[p].key # k /\ entries'[p] = entries[p]
      BY <1>3, <2>3 DEF At, Live
    <2>8. KeysDistinct'
      BY <2>3, <2>4, <2>5, <2>7 DEF KeysDistinct
    <2>9. \A n \in 0 .. Len(entries) : UpTo(n)' = UpTo(n)
      BY <2>5, <1>1 DEF UpTo
    <2>10. /\ \A p \in Live : entries'[p].key = entries[p].key
           /\ \E p \in Live' : entries'[p].key = k
           /\ \A p \in Live' : IF entries'[p].key = k THEN entries'[p].value = v
                                                    ELSE p \in Live /\ entries'[p] = entries[p]
      BY <2>3, <2>4, <2>5, <2>7
    <2> QED
      BY <2>3, <2>5, <2>6, <2>8, <2>9, <2>10, <1>1
  <1> QED
    BY <1>2, <1>3

\* delete and clear empty entries in place: the live entries are those that
\* were live before and were not emptied.
LEMMA Emptying ==
  ASSUME ListOK, KeysDistinct, NEW P \in SUBSET DOMAIN entries, entries' = Emptied(P)
  PROVE  /\ ListOK' /\ KeysDistinct'
         /\ Len(entries') = Len(entries) /\ DOMAIN entries' = DOMAIN entries
         /\ Live' = Live \ P
         /\ \A p \in Live' : entries'[p] = entries[p]
         /\ \A n \in Nat : UpTo(n)' = UpTo(n) \ P
  <1>1. DOMAIN entries = 1 .. Len(entries) /\ Len(entries) \in Nat
    BY LiveFinite
  <1>2. entries' = [p \in DOMAIN entries |-> IF p \in P THEN Tombstone ELSE entries[p]]
    BY DEF Emptied
  <1>3. Len(entries') = Len(entries) /\ DOMAIN entries' = DOMAIN entries
    BY <1>1, <1>2
  <1>4. Tombstone.key = Empty /\ Tombstone.value = Empty
    BY DEF Tombstone
  <1>5. Tombstone \in Entry
    BY DEF Tombstone, Entry
  <1>6. ListOK'
    <2>1. entries' \in Seq(Entry)
      <3>1. entries' \in [1 .. Len(entries) -> Entry]
        BY <1>1, <1>2, <1>5 DEF ListOK
      <3> QED
        BY <3>1, <1>1, FunctionIsList
    <2>2. \A p \in DOMAIN entries' : entries'[p].key = Empty <=> entries'[p].value = Empty
      BY <1>2, <1>4 DEF ListOK
    <2> QED
      BY <2>1, <2>2 DEF ListOK
  <1>7. Live' = Live \ P
    BY <1>2, <1>4 DEF Live
  <1>8. \A p \in Live' : entries'[p] = entries[p]
    BY <1>2, <1>7 DEF Live
  <1>9. KeysDistinct'
    BY <1>7, <1>8 DEF KeysDistinct
  <1>10. \A n \in Nat : UpTo(n)' = UpTo(n) \ P
    BY <1>7 DEF UpTo
  <1> QED
    BY <1>3, <1>6, <1>7, <1>8, <1>9, <1>10

-----------------------------------------------------------------------------
(* Suspended traversals *)

\* The parts of MapTypeOK about iterators and frames.
TraversalsOK ==
    /\ iter \in [Iterators -> [status : {"unused", "open", "done"}, next : Nat]]
    /\ stack \in Seq(Frame)
    /\ seen \in [Iterators -> SUBSET Nat] /\ shrunk \in [Iterators -> BOOLEAN]

LEMMA TypeParts == MapTypeOK <=> ListOK /\ TraversalsOK
  BY DEF MapTypeOK, ListOK, TraversalsOK, Entry

\* The list has only grown at its end, or changed values.
Grown ==
    /\ ListOK'
    /\ Len(entries) <= Len(entries')
    /\ DOMAIN entries \subseteq DOMAIN entries'
    /\ Live \subseteq Live'
    /\ \A n \in 0 .. Len(entries) : UpTo(n)' = UpTo(n)

\* A list that grows at its end leaves suspended iterators where they are.
LEMMA GrownIterators ==
  ASSUME ListOK, Grown, NEW i \in Iterators, Progress(i), UNCHANGED <<iter, seen, shrunk>>
  PROVE  Progress(i)'
  <1>1. DOMAIN entries = 1 .. Len(entries) /\ Len(entries) \in Nat
    BY LiveFinite
  <1>2. \A p \in seen[i] : UpTo(p)' = UpTo(p)
    BY <1>1 DEF Grown, Progress
  <1> QED
    BY <1>2 DEF Grown, Progress

\* A list that grows at its end leaves the forEach under way where they are.
LEMMA GrownFrames ==
  ASSUME ListOK, Grown, NEW f \in Frame, FrameProgress(f)
  PROVE  FrameProgress(f)'
  <1>1. Len(entries) \in Nat /\ Len(entries') \in Nat
    BY LiveFinite DEF Grown, ListOK
  <1>2. f.at \in Nat
    BY DEF Frame
  <1>3. f.at <= Len(entries) => UpTo(f.at)' = UpTo(f.at)
    BY <1>1, <1>2 DEF Grown
  <1> QED
    BY <1>1, <1>2, <1>3 DEF Grown, FrameProgress

\* Emptying entries moves no iterator forward, and marks those that had
\* returned one of them.
LEMMA ShrinkIterators ==
  ASSUME ListOK, TraversalsOK, KeysDistinct, NEW P \in SUBSET DOMAIN entries, Shrink(P),
         NEW i \in Iterators, Progress(i)
  PROVE  Progress(i)'
  <1>1. /\ DOMAIN entries' = DOMAIN entries /\ Live' = Live \ P
        /\ \A n \in Nat : UpTo(n)' = UpTo(n) \ P
    BY Emptying DEF Shrink
  <1>2. iter' = iter /\ seen' = seen
    BY DEF Shrink
  <1>3. seen[i] \subseteq Nat
    BY DEF TraversalsOK
  <1>4. ASSUME NEW p \in seen[i] PROVE Cardinality(UpTo(p)') <= iter[i].next
    <2>1. UpTo(p)' \in SUBSET UpTo(p)
      BY <1>1, <1>3
    <2>2. IsFiniteSet(UpTo(p)) /\ Cardinality(UpTo(p)) \in Nat
      BY <1>3, LiveFinite
    <2>3. IsFiniteSet(UpTo(p)') /\ Cardinality(UpTo(p)') <= Cardinality(UpTo(p))
      BY <2>1, <2>2, FS_Subset
    <2>4. Cardinality(UpTo(p)') \in Nat
      BY <2>3, FS_CardinalityType
    <2>5. Cardinality(UpTo(p)) <= iter[i].next /\ iter[i].next \in Nat
      BY DEF Progress, TraversalsOK
    <2> QED
      BY <2>2, <2>3, <2>4, <2>5
  <1>5. ASSUME ~shrunk'[i], iter[i].status # "done"
        PROVE  /\ seen[i] \subseteq Live'
               /\ Cardinality(seen[i]) = iter[i].next
               /\ \A p \in seen[i] : UpTo(p)' \subseteq seen[i]
    <2>1. ~shrunk[i] /\ (iter[i].status = "open" => seen[i] \cap P = {})
      BY <1>5 DEF Shrink
    <2>2. iter[i].status \in {"unused", "open"}
      BY <1>5 DEF TraversalsOK
    <2>3. seen[i] \cap P = {}
      BY <2>1, <2>2 DEF Progress
    <2> QED
      BY <2>1, <2>3, <1>1, <1>3, <1>5 DEF Progress
  <1> QED
    BY <1>1, <1>2, <1>4, <1>5 DEF Progress

\* Emptying entries leaves the forEach under way where they are.
LEMMA ShrinkFrames ==
  ASSUME ListOK, KeysDistinct, NEW P \in SUBSET DOMAIN entries, Shrink(P),
         NEW f \in Frame, FrameProgress(f)
  PROVE  FrameProgress(f)'
  <1>1. Len(entries') = Len(entries) /\ \A n \in Nat : UpTo(n)' = UpTo(n) \ P
    BY Emptying DEF Shrink
  <1>2. f.at \in Nat
    BY DEF Frame
  <1> QED
    BY <1>1, <1>2 DEF FrameProgress

\* A live entry is counted once more than the live entries before it.
LEMMA RankCounts ==
  ASSUME ListOK, NEW p \in Live
  PROVE  Rank(p) \in Nat /\ Cardinality(UpTo(p)) = Rank(p) + 1
  <1> DEFINE B == {q \in Live : q < p}
  <1>1. Live \subseteq Nat /\ IsFiniteSet(Live)
    BY LiveFinite
  <1>2. UpTo(p) = B \cup {p} /\ p \notin B
    <2>1. \A q \in Live : q <= p <=> q < p \/ q = p
      BY <1>1
    <2>2. ~(p < p)
      BY <1>1
    <2> QED
      BY <2>1, <2>2 DEF UpTo
  <1>3. IsFiniteSet(B)
    BY <1>1, FS_Subset
  <1> HIDE DEF B
  <1>4. Cardinality(B) \in Nat /\ Cardinality(B \cup {p}) = Cardinality(B) + 1
    BY <1>2, <1>3, FS_AddElement, FS_CardinalityType
  <1>5. Rank(p) = Cardinality(B)
    BY DEF Rank, B
  <1> QED
    BY <1>2, <1>4, <1>5

\* next() returns an entry behind all those it has returned.
LEMMA NextIsBehind ==
  ASSUME ListOK, TraversalsOK, NEW i \in Iterators, Progress(i), NEW p, NextEntry(i, p)
  PROVE  \A q \in seen[i] : q < p
  <1>1. p \in Live /\ Rank(p) = iter[i].next
    BY DEF NextEntry, AtIndex
  <1>2. iter[i].next \in Nat /\ Cardinality(UpTo(p)) = iter[i].next + 1
    BY <1>1, RankCounts
  <1>3. Live \subseteq Nat
    BY LiveFinite
  <1>4. p \in Nat /\ seen[i] \subseteq Nat
    BY <1>1, <1>3 DEF TraversalsOK
  <1> SUFFICES ASSUME NEW q \in seen[i], p <= q PROVE FALSE
    BY <1>4
  <1>6. UpTo(p) \in SUBSET UpTo(q)
    <2>1. \A r \in Live : r <= p => r <= q
      BY <1>3, <1>4
    <2> QED
      BY <2>1 DEF UpTo
  <1>7. Cardinality(UpTo(q)) \in Nat /\ Cardinality(UpTo(p)) <= Cardinality(UpTo(q))
    BY <1>4, <1>6, LiveFinite, FS_Subset
  <1>8. Cardinality(UpTo(q)) <= iter[i].next
    BY DEF Progress
  <1> QED
    BY <1>2, <1>7, <1>8

\* next() that returns an entry keeps the count of its iterator right, and
\* touches no other iterator.
LEMMA NextKeepsProgress ==
  ASSUME ListOK, TraversalsOK, NEW i \in Iterators, NEW p, NextEntry(i, p),
         NEW j \in Iterators, Progress(j)
  PROVE  Progress(j)'
  <1>1. /\ entries' = entries /\ shrunk' = shrunk
        /\ iter' = [iter EXCEPT ![i].next = @ + 1]
        /\ seen' = [seen EXCEPT ![i] = @ \cup {p}]
    BY DEF NextEntry
  <1>2. Live' = Live /\ \A n \in Nat : UpTo(n)' = UpTo(n)
    BY <1>1 DEF Live, UpTo
  <1>3. seen[j] \subseteq Nat
    BY DEF TraversalsOK
  <1>4. CASE j # i
    <2>1. iter'[j] = iter[j] /\ seen'[j] = seen[j]
      BY <1>1, <1>4 DEF TraversalsOK
    <2> QED
      BY <1>1, <1>2, <1>3, <2>1 DEF Progress
  <1>5. CASE j = i
    <2> DEFINE n == iter[i].next
    <2>1. /\ iter[i].status = "open" /\ p \in Live /\ Rank(p) = n
      BY DEF NextEntry, AtIndex
    <2>2. iter'[i].status = "open" /\ iter'[i].next = n + 1 /\ n \in Nat
      BY <1>1, <2>1 DEF TraversalsOK
    <2>3. seen'[i] = seen[i] \cup {p}
      BY <1>1 DEF TraversalsOK
    <2>4. Live \subseteq Nat /\ Live \subseteq DOMAIN entries /\ IsFiniteSet(Live)
      <3>1. Live \subseteq DOMAIN entries
        BY DEF Live
      <3>2. IsFiniteSet(Live)
        BY ONLY ListOK, LiveFinite
      <3>3. DOMAIN entries \subseteq Nat
        <4>1. entries \in Seq(Entry)
          BY ONLY ListOK DEF ListOK
        <4> QED
          BY ONLY <4>1
      <3> QED
        BY ONLY <3>1, <3>2, <3>3
    <2>5. Cardinality(UpTo(p)) = n + 1
      BY ONLY ListOK, <2>1, RankCounts
    <2> HIDE DEF n
    <2>6. ASSUME NEW q \in seen'[i] PROVE Cardinality(UpTo(q)') <= n + 1
      <3>1. q \in Nat
        BY <2>1, <2>3, <2>4, <1>3, <1>5, <2>6
      <3>2. CASE q = p
        BY <3>1, <3>2, <1>2, <2>2, <2>5
      <3>3. CASE q \in seen[i]
        <4>1. Cardinality(UpTo(q)) \in Nat
          BY <3>1, LiveFinite
        <4>2. Cardinality(UpTo(q)) <= n
          BY <3>3, <1>5 DEF Progress, n
        <4> QED
          BY <4>1, <4>2, <3>1, <1>2, <2>2
      <3> QED
        BY <2>3, <2>6, <3>2, <3>3
    <2>7. ASSUME ~shrunk[i]
          PROVE  /\ seen'[i] \subseteq Live
                 /\ Cardinality(seen'[i]) = n + 1
                 /\ \A q \in seen'[i] : UpTo(q) \subseteq seen'[i]
      <3> DEFINE B == {q \in Live : q < p}
      <3>1. /\ seen[i] \subseteq Live /\ Cardinality(seen[i]) = n
            /\ \A q \in seen[i] : UpTo(q) \subseteq seen[i]
        BY <2>1, <2>7, <1>5 DEF Progress, n
      <3>2. \A q \in seen[i] : q < p
        BY <1>5, NextIsBehind
      <3>3. IsFiniteSet(B) /\ IsFiniteSet(seen[i])
        BY <2>4, <3>1, FS_Subset
      <3>4. seen[i] \in SUBSET B /\ Cardinality(B) = n
        BY <3>1, <3>2, <2>1 DEF Rank
      <3>5. seen[i] = B
        <4> HIDE DEF B
        <4> QED
          BY <3>1, <3>3, <3>4, FS_Subset
      <3>6. p \notin seen[i]
        BY <3>2, <2>1, <2>4
      <3>7. Cardinality(seen'[i]) = n + 1
        <4>1. Cardinality(seen[i] \cup {p}) = Cardinality(seen[i]) + 1
          BY <3>3, <3>6, FS_AddElement
        <4> QED
          BY <4>1, <3>1, <2>3
      <3>8. UpTo(p) \subseteq seen'[i]
        <4>1. \A q \in Live : q <= p => q < p \/ q = p
          BY <2>1, <2>4
        <4> QED
          BY <4>1, <3>5, <2>3 DEF UpTo
      <3> QED
        BY <3>1, <3>7, <3>8, <2>1, <2>3
    <2>8. seen'[i] \subseteq DOMAIN entries' /\ seen'[i] \subseteq Nat
      BY <1>1, <1>3, <1>5, <2>1, <2>3, <2>4 DEF Progress
    <2> QED
      BY <1>1, <1>2, <1>5, <2>2, <2>6, <2>7, <2>8 DEF Progress
  <1> QED
    BY <1>4, <1>5

\* An iterator under which nothing it had returned was deleted reports done
\* only when it has returned every live entry.
LEMMA DoneIsComplete ==
  ASSUME ListOK, TraversalsOK, NEW i \in Iterators, Progress(i), NextDone(i), ~shrunk[i]
  PROVE  Live \subseteq seen[i]
  <1> DEFINE R == Live \ seen[i]
             p == First(R)
             B == {q \in Live : q < p}
  <1>1. iter[i].status = "open" /\ AtIndex(iter[i].next) = {}
    BY DEF NextDone
  <1>2. /\ seen[i] \subseteq Live /\ Cardinality(seen[i]) = iter[i].next
        /\ \A q \in seen[i] : UpTo(q) \subseteq seen[i]
    BY <1>1 DEF Progress
  <1>3. Live \subseteq Nat
    BY LiveFinite
  <1> SUFFICES ASSUME R # {} PROVE FALSE
    OBVIOUS
  <1>4. p \in R /\ \A q \in R : p <= q
    <2>1. R \in SUBSET Nat
      BY <1>3
    <2> HIDE DEF R
    <2> QED
      BY <2>1, FirstIsLeast
  <1> HIDE DEF p
  <1>5. \A q \in Live : q < p => q \in seen[i]
    BY <1>3, <1>4
  <1>6. \A q \in seen[i] : q < p
    <2>1. \A q \in seen[i] : p <= q => p \in UpTo(q)
      BY <1>4 DEF UpTo
    <2>2. \A q \in seen[i] : ~ (p <= q)
      BY <2>1, <1>2, <1>4
    <2>3. p \in Nat /\ seen[i] \subseteq Nat
      BY <1>2, <1>3, <1>4
    <2> QED
      BY <2>2, <2>3
  <1>7. B = seen[i]
    BY <1>2, <1>5, <1>6
  <1>8. Rank(p) = iter[i].next
    BY <1>2, <1>7 DEF Rank
  <1> QED
    BY <1>1, <1>4, <1>8 DEF AtIndex

\* forEach steps to the next live entry and leaves none out.
LEMMA VisitKeeps ==
  ASSUME ListOK, NEW f \in Frame, f.kind = "forEach", FrameProgress(f), Behind(f.at) # {}
  PROVE  Visit(f, First(Behind(f.at))) \in Frame /\ FrameProgress(Visit(f, First(Behind(f.at))))
  <1> DEFINE p == First(Behind(f.at))
             g == Visit(f, p)
  <1>1. Live \subseteq 1 .. Len(entries) /\ Len(entries) \in Nat
    BY LiveFinite
  <1>2. p \in Behind(f.at) /\ \A q \in Behind(f.at) : p <= q
    <2>1. Live \subseteq Nat
      BY <1>1
    <2>2. Behind(f.at) \in SUBSET Nat
      BY <2>1 DEF Behind
    <2> QED
      BY <2>2, FirstIsLeast
  <1> HIDE DEF p
  <1>3. p \in Nat /\ p <= Len(entries) /\ p \in Live
    BY <1>1, <1>2 DEF Behind
  <1>4. f.at \in Nat /\ f.visited \subseteq Nat /\ f.key = Empty
    BY DEF Frame
  <1>5. g.kind = "forEach" /\ g.at = p /\ g.visited = f.visited \cup {p}
    BY DEF Visit, Frame
  <1>6. g \in Frame
    BY <1>3, <1>4 DEF Visit, Frame
  <1>7. UpTo(p) \subseteq f.visited \cup {p}
    <2>1. \A q \in Live : q <= p => q <= f.at \/ q = p
      BY <1>1, <1>2, <1>3, <1>4 DEF Behind
    <2>2. UpTo(f.at) \subseteq f.visited
      BY DEF FrameProgress
    <2> QED
      BY <2>1, <2>2 DEF UpTo
  <1>8. FrameProgress(g)
    BY <1>3, <1>5, <1>7 DEF FrameProgress
  <1> QED
    BY <1>6, <1>8 DEF p

-----------------------------------------------------------------------------
(* The stack of calls *)

FramesOK == stack \in Seq(Frame) /\ \A n \in DOMAIN stack : FrameProgress(stack[n])

\* The step that the list takes is one that every frame survives.
FramesSurvive == \A f \in Frame : FrameProgress(f) => FrameProgress(f)'

\* A list that does not change is a step that frames survive.
LEMMA SameList ==
  ASSUME entries' = entries
  PROVE  /\ Live' = Live /\ (\A n : UpTo(n)' = UpTo(n)) /\ FramesSurvive
         /\ ListOK => ListOK'
         /\ KeysDistinct => KeysDistinct'
  BY DEF Live, UpTo, FramesSurvive, FrameProgress, ListOK, KeysDistinct

LEMMA FramesKept ==
  ASSUME FramesOK, FramesSurvive, stack' = stack
  PROVE  FramesOK'
  <1>1. \A n \in DOMAIN stack : stack[n] \in Frame
    BY DEF FramesOK
  <1> QED
    BY <1>1 DEF FramesOK, FramesSurvive, FrameProgress

\* A call that returns or throws leaves its callers' frames as they were.
LEMMA FramesPopped ==
  ASSUME FramesOK, FramesSurvive, stack # <<>>, stack' = Pop
  PROVE  FramesOK'
  <1>1. /\ stack' \in Seq(Frame) /\ DOMAIN stack' \subseteq DOMAIN stack
        /\ \A n \in DOMAIN stack' : stack'[n] = stack[n]
    BY DEF FramesOK, Pop
  <1>2. \A n \in DOMAIN stack : stack[n] \in Frame
    BY DEF FramesOK
  <1> QED
    BY <1>1, <1>2 DEF FramesOK, FramesSurvive, FrameProgress

LEMMA FramesPushed ==
  ASSUME FramesOK, NEW f \in Frame, FrameProgress(f),
         entries' = entries, stack' = Append(stack, f)
  PROVE  FramesOK'
  <1>1. /\ stack' \in Seq(Frame) /\ DOMAIN stack' = DOMAIN stack \cup {Len(stack) + 1}
        /\ \A n \in DOMAIN stack : stack'[n] = stack[n]
        /\ stack'[Len(stack) + 1] = f
    BY DEF FramesOK
  <1>2. FramesSurvive
    BY SameList
  <1>3. \A n \in DOMAIN stack : stack[n] \in Frame
    BY DEF FramesOK
  <1> QED
    BY <1>1, <1>2, <1>3 DEF FramesOK, FramesSurvive, FrameProgress

LEMMA FramesReplaced ==
  ASSUME FramesOK, stack # <<>>, NEW f \in Frame, FrameProgress(f),
         entries' = entries, stack' = [stack EXCEPT ![Len(stack)] = f]
  PROVE  FramesOK'
  <1>1. /\ stack' \in Seq(Frame) /\ DOMAIN stack' = DOMAIN stack
        /\ \A n \in DOMAIN stack : stack'[n] = IF n = Len(stack) THEN f ELSE stack[n]
    BY DEF FramesOK
  <1>2. FramesSurvive
    BY SameList
  <1>3. \A n \in DOMAIN stack : stack[n] \in Frame
    BY DEF FramesOK
  <1> QED
    BY <1>1, <1>2, <1>3 DEF FramesOK, FramesSurvive, FrameProgress

\* The innermost call is one of the frames.
LEMMA TopFrame ==
  ASSUME FramesOK, stack # <<>>
  PROVE  Top \in Frame /\ FrameProgress(Top)
  <1>1. Len(stack) \in DOMAIN stack
    BY DEF FramesOK
  <1> QED
    BY <1>1 DEF Top, FramesOK

-----------------------------------------------------------------------------
(* MapInv is inductive *)

LEMMA InvParts ==
  MapInv <=> ListOK /\ TraversalsOK /\ KeysDistinct /\ FramesOK /\ \A i \in Iterators : Progress(i)
  BY TypeParts DEF MapInv, FramesOK, TraversalsOK

LEMMA InvPartsNext ==
  ASSUME ListOK', TraversalsOK', KeysDistinct', FramesOK', \A i \in Iterators : Progress(i)'
  PROVE  MapInv'
  BY DEF MapInv, MapTypeOK, FramesOK, TraversalsOK, ListOK, Entry

\* _ejs_map_new makes an empty list.
LEMMA InitInv == Init => MapInv
  <1> SUFFICES ASSUME Init PROVE MapInv
    OBVIOUS
  <1>1. ListOK /\ KeysDistinct
    BY DEF Init, ListOK, KeysDistinct, Live
  <1>2. TraversalsOK /\ FramesOK
    BY DEF Init, TraversalsOK, FramesOK
  <1>3. \A i \in Iterators : Progress(i)
    <2>1. Cardinality({}) = 0
      BY FS_EmptySet
    <2> QED
      BY <2>1 DEF Init, Progress
  <1> QED
    BY <1>1, <1>2, <1>3, InvParts

\* _ejs_map_set, called by the program or by getOrInsertComputed.
LEMMA UpsertInv ==
  ASSUME MapInv, NEW k \in Keys, NEW v \in Values, Upsert(k, v),
         UNCHANGED <<iter, seen, shrunk>>,
         stack' = stack \/ (stack # <<>> /\ stack' = Pop)
  PROVE  MapInv'
  <1>1. ListOK /\ TraversalsOK /\ KeysDistinct /\ FramesOK /\ \A i \in Iterators : Progress(i)
    BY InvParts
  <1>2. ListOK' /\ KeysDistinct' /\ Grown
    BY <1>1, Upserted DEF Grown
  <1>3. \A i \in Iterators : Progress(i)'
    BY <1>1, <1>2, GrownIterators
  <1>4. FramesSurvive
    BY <1>1, <1>2, GrownFrames DEF FramesSurvive
  <1>5. FramesOK'
    BY <1>1, <1>4, FramesKept, FramesPopped
  <1>6. TraversalsOK'
    BY <1>1, <1>5 DEF TraversalsOK, FramesOK
  <1> QED
    BY <1>2, <1>3, <1>5, <1>6, InvPartsNext

\* delete and clear, called by the program or by a callback.
LEMMA ShrinkInv ==
  ASSUME MapInv, NEW P \in SUBSET DOMAIN entries, Shrink(P)
  PROVE  MapInv'
  <1>1. ListOK /\ TraversalsOK /\ KeysDistinct /\ FramesOK /\ \A i \in Iterators : Progress(i)
    BY InvParts
  <1>2. ListOK' /\ KeysDistinct'
    BY <1>1, Emptying DEF Shrink
  <1>3. \A i \in Iterators : Progress(i)'
    BY <1>1, ShrinkIterators
  <1>4. FramesSurvive
    BY <1>1, ShrinkFrames DEF FramesSurvive
  <1>5. FramesOK'
    BY <1>1, <1>4, FramesKept DEF Shrink
  <1>6. shrunk' \in [Iterators -> BOOLEAN]
    BY Zenon DEF Shrink
  <1>7. TraversalsOK'
    BY <1>1, <1>6 DEF TraversalsOK, Shrink
  <1> QED
    BY <1>2, <1>3, <1>5, <1>7, InvPartsNext

\* Steps that leave the list and the iterators alone.
LEMMA StackInv ==
  ASSUME MapInv, UNCHANGED <<entries, iter, seen, shrunk>>, FramesOK'
  PROVE  MapInv'
  <1>1. ListOK /\ TraversalsOK /\ KeysDistinct /\ \A i \in Iterators : Progress(i)
    BY InvParts
  <1>2. ListOK' /\ KeysDistinct' /\ Live' = Live /\ \A n : UpTo(n)' = UpTo(n)
    BY <1>1, SameList
  <1>3. \A i \in Iterators : Progress(i)'
    BY <1>1, <1>2 DEF Progress
  <1>4. TraversalsOK'
    BY <1>1 DEF TraversalsOK, FramesOK
  <1> QED
    BY <1>2, <1>3, <1>4, InvPartsNext

\* Steps of iterators.
LEMMA IteratorInv ==
  ASSUME MapInv, NEW i \in Iterators,
         NewIterator(i) \/ (\E p \in DOMAIN entries : NextEntry(i, p)) \/ NextDone(i)
  PROVE  MapInv'
  <1>1. ListOK /\ TraversalsOK /\ KeysDistinct /\ FramesOK /\ \A j \in Iterators : Progress(j)
    BY InvParts
  <1>2. entries' = entries /\ stack' = stack /\ shrunk' = shrunk
    BY DEF NewIterator, NextEntry, NextDone
  <1>3. ListOK' /\ KeysDistinct' /\ FramesOK' /\ Live' = Live /\ \A n : UpTo(n)' = UpTo(n)
    BY <1>1, <1>2, SameList, FramesKept
  <1>4. CASE NewIterator(i)
    <2>1. TraversalsOK'
      BY <1>1, <1>4 DEF TraversalsOK, NewIterator
    <2>2. iter' = [iter EXCEPT ![i].status = "open"] /\ seen' = seen /\ iter[i].status = "unused"
      BY <1>4 DEF NewIterator
    <2>3. \A j \in Iterators : /\ iter'[j].next = iter[j].next
                                /\ iter'[j].status = IF j = i THEN "open" ELSE iter[j].status
      BY <1>1, <2>2 DEF TraversalsOK
    <2>4. \A j \in Iterators : Progress(j)'
      BY <1>1, <1>2, <1>3, <2>2, <2>3 DEF Progress
    <2> QED
      BY <1>3, <2>1, <2>4, InvPartsNext
  <1>5. CASE \E p \in DOMAIN entries : NextEntry(i, p)
    <2>1. PICK p \in DOMAIN entries : NextEntry(i, p)
      BY <1>5
    <2>2. \A j \in Iterators : Progress(j)'
      BY <1>1, <2>1, NextKeepsProgress
    <2>3. p \in Nat
      BY <1>1, LiveFinite
    <2>4. TraversalsOK'
      BY <1>1, <2>1, <2>3 DEF TraversalsOK, NextEntry
    <2> QED
      BY <1>3, <2>2, <2>4, InvPartsNext
  <1>6. CASE NextDone(i)
    <2>1. TraversalsOK'
      BY <1>1, <1>6 DEF TraversalsOK, NextDone
    <2>2. iter' = [iter EXCEPT ![i].status = "done"] /\ seen' = seen
      BY <1>6 DEF NextDone
    <2>3. \A j \in Iterators : /\ iter'[j].next = iter[j].next
                                /\ iter'[j].status = IF j = i THEN "done" ELSE iter[j].status
      BY <1>1, <2>2 DEF TraversalsOK
    <2>4. \A j \in Iterators : Progress(j)'
      BY <1>1, <1>2, <1>3, <2>2, <2>3 DEF Progress
    <2> QED
      BY <1>3, <2>1, <2>4, InvPartsNext
  <1> QED
    BY <1>4, <1>5, <1>6

\* Steps of calls with a callback, but for the insertion of
\* getOrInsertComputed.
LEMMA CallbackInv ==
  ASSUME MapInv,
         ForEachBegin \/ ForEachNext \/ ForEachReturn \/ Throw \/ \E k \in Keys : ComputeBegin(k)
  PROVE  MapInv'
  <1>1. ListOK /\ FramesOK
    BY InvParts
  <1>2. UNCHANGED <<entries, iter, seen, shrunk>>
    BY DEF ForEachBegin, ForEachNext, ForEachReturn, Throw, ComputeBegin
  <1>3. FramesSurvive
    BY <1>2, SameList
  <1>4. CASE ForEachBegin
    <2> DEFINE f == [kind |-> "forEach", key |-> Empty, at |-> 0, visited |-> {}]
    <2>1. f \in Frame /\ f.kind = "forEach" /\ f.at = 0
      BY DEF Frame
    <2> HIDE DEF f
    <2>2. Live \subseteq 1 .. Len(entries) /\ Len(entries) \in Nat
      BY <1>1, LiveFinite
    <2>3. FrameProgress(f)
      <3>1. \A q \in Live : ~(q <= 0)
        BY <2>2
      <3> QED
        <4>1. UpTo(f.at) = {}
          BY <2>1, <3>1 DEF UpTo
        <4> QED
          BY <4>1, <2>1, <2>2 DEF FrameProgress
    <2>4. Behind(f.at) = Live
      <3>1. \A q \in Live : q > 0
        BY <2>2
      <3> QED
        BY <2>1, <3>1 DEF Behind
    <2>5. Live # {} /\ stack' = Append(stack, Visit(f, First(Live)))
      BY <1>4 DEF ForEachBegin, f
    <2>6. Visit(f, First(Live)) \in Frame /\ FrameProgress(Visit(f, First(Live)))
      BY <1>1, <2>1, <2>3, <2>4, <2>5, VisitKeeps
    <2>7. FramesOK'
      BY <1>1, <1>2, <2>5, <2>6, FramesPushed
    <2> QED
      BY <1>2, <2>7, StackInv
  <1>5. CASE ForEachNext
    <2>1. /\ stack # <<>> /\ Top.kind = "forEach" /\ Behind(Top.at) # {}
          /\ stack' = [stack EXCEPT ![Len(stack)] = Visit(@, First(Rest(@)))]
      BY <1>5 DEF ForEachNext, Rest
    <2> DEFINE g == Visit(Top, First(Behind(Top.at)))
    <2>2. stack' = [stack EXCEPT ![Len(stack)] = g]
      BY <2>1 DEF Top, Rest
    <2>3. g \in Frame /\ FrameProgress(g)
      BY <1>1, <2>1, TopFrame, VisitKeeps
    <2> HIDE DEF g
    <2>4. FramesOK'
      BY <1>1, <1>2, <2>1, <2>2, <2>3, FramesReplaced
    <2> QED
      BY <1>2, <2>4, StackInv
  <1>6. CASE ForEachReturn \/ Throw
    <2>1. stack # <<>> /\ stack' = Pop
      BY <1>6 DEF ForEachReturn, Throw
    <2>2. FramesOK'
      BY <1>1, <1>3, <2>1, FramesPopped
    <2> QED
      BY <1>2, <2>2, StackInv
  <1>7. CASE \E k \in Keys : ComputeBegin(k)
    <2>1. PICK k \in Keys : ComputeBegin(k)
      BY <1>7
    <2> DEFINE f == [kind |-> "compute", key |-> k, at |-> 0, visited |-> {}]
    <2>2. f \in Frame /\ FrameProgress(f)
      BY DEF Frame, FrameProgress
    <2>3. stack' = Append(stack, f)
      BY <2>1 DEF ComputeBegin
    <2> HIDE DEF f
    <2>4. FramesOK'
      BY <1>1, <1>2, <2>2, <2>3, FramesPushed
    <2> QED
      BY <1>2, <2>4, StackInv
  <1> QED
    BY <1>4, <1>5, <1>6, <1>7

\* No step of the program or of a callback breaks MapInv.
LEMMA NextInv == MapInv /\ [Next]_vars => MapInv'
  <1> SUFFICES ASSUME MapInv, [Next]_vars PROVE MapInv'
    OBVIOUS
  <1>1. ASSUME NEW k \in Keys, NEW v \in Values, Set(k, v) PROVE MapInv'
    BY <1>1, UpsertInv DEF Set
  <1>2. ASSUME NEW k \in Keys, Delete(k) PROVE MapInv'
    BY <1>2, ShrinkInv DEF Delete, At
  <1>3. ASSUME Clear PROVE MapInv'
    BY <1>3, ShrinkInv DEF Clear, Live
  <1>4. ASSUME NEW v \in Values, ComputeReturn(v) PROVE MapInv'
    <2>1. Top \in Frame /\ Top.kind = "compute"
      BY <1>4, InvParts, TopFrame DEF ComputeReturn
    <2>2. Top.key \in Keys
      BY <2>1 DEF Frame
    <2> QED
      BY <1>4, <2>2, UpsertInv DEF ComputeReturn
  <1>5. CASE UNCHANGED vars
    <2>1. FramesOK'
      BY <1>5, InvParts, SameList, FramesKept DEF vars
    <2> QED
      BY <1>5, <2>1, StackInv DEF vars
  <1> QED
    BY <1>1, <1>2, <1>3, <1>4, <1>5, IteratorInv, CallbackInv DEF Next

\* The invariant behind the properties of Map and Set holds however sets,
\* deletions, traversals and callbacks interleave.
THEOREM MapInvariance == Spec => []MapInv
  <1> QED
    BY InitInv, NextInv, PTL DEF Spec

-----------------------------------------------------------------------------
(* What follows from it *)

\* The list, the iterators and the calls under way stay in range; a deleted
\* entry keeps neither its key nor its value.
THEOREM MapTypeCorrect == Spec => []MapTypeOK
  <1>1. MapInv => MapTypeOK
    BY DEF MapInv
  <1> QED
    BY <1>1, MapInvariance, PTL

\* However sets, deletions and callbacks interleave, no key ever has two live
\* entries.
THEOREM KeysStayDistinct == Spec => []KeysDistinct
  <1>1. MapInv => KeysDistinct
    BY DEF MapInv
  <1> QED
    BY <1>1, MapInvariance, PTL

\* An iterator moves forward, whatever is deleted between two calls of next().
THEOREM IteratorsMoveForward == Spec => IteratorForward
  <1> DEFINE Forward == \A i \in Iterators : \A p \in DOMAIN entries :
                            NextEntry(i, p) => \A q \in seen[i] : q < p
  <1>1. MapInv => Forward
    <2> SUFFICES ASSUME MapInv, NEW i \in Iterators, NEW p \in DOMAIN entries, NextEntry(i, p)
                 PROVE  \A q \in seen[i] : q < p
      OBVIOUS
    <2> QED
      BY InvParts, NextIsBehind
  <1>2. Spec => [][Forward]_vars
    BY <1>1, MapInvariance, PTL
  <1> QED
    BY <1>2 DEF IteratorForward

\* An iterator reports done only when it has returned every live entry, unless
\* one it had returned was deleted.
THEOREM IteratorsAreComplete == Spec => IteratorComplete
  <1> DEFINE Complete == \A i \in Iterators : NextDone(i) => shrunk[i] \/ Live \subseteq seen[i]
  <1>1. MapInv => Complete
    <2> SUFFICES ASSUME MapInv, NEW i \in Iterators, NextDone(i), ~shrunk[i]
                 PROVE  Live \subseteq seen[i]
      OBVIOUS
    <2> QED
      BY InvParts, DoneIsComplete
  <1>2. Spec => [][Complete]_vars
    BY <1>1, MapInvariance, PTL
  <1> QED
    BY <1>2 DEF IteratorComplete

\* forEach returns only when it has visited every live entry, those that its
\* callbacks appended included.
THEOREM ForEachIsComplete == Spec => ForEachComplete
  <1> DEFINE Complete == ForEachReturn => Live \subseteq Top.visited
  <1>1. MapInv => Complete
    <2> SUFFICES ASSUME MapInv, ForEachReturn PROVE Live \subseteq Top.visited
      OBVIOUS
    <2>1. ListOK /\ FramesOK /\ stack # <<>> /\ Top.kind = "forEach" /\ Behind(Top.at) = {}
      BY InvParts DEF ForEachReturn, Rest
    <2>2. Top \in Frame /\ FrameProgress(Top)
      BY <2>1, TopFrame
    <2>3. \A q \in Live : q <= Top.at
      <3>1. Top.at \in Nat
        BY <2>2 DEF Frame
      <3>2. Live \subseteq Nat
        BY <2>1, LiveFinite
      <3> QED
        BY <2>1, <3>1, <3>2 DEF Behind
    <2> QED
      BY <2>1, <2>2, <2>3 DEF FrameProgress, UpTo
  <1>2. Spec => [][Complete]_vars
    BY <1>1, MapInvariance, PTL
  <1> QED
    BY <1>2 DEF ForEachComplete

-----------------------------------------------------------------------------
(* The list implements a partial map *)

\* Reading a key finds its one live entry.
LEMMA Reading ==
  ASSUME KeysDistinct
  PROVE  /\ DOMAIN Contents = {entries[p].key : p \in Live}
         /\ \A p \in Live : Contents[entries[p].key] = entries[p].value
  <1>1. ASSUME NEW p \in Live PROVE At(entries[p].key) = {p}
    BY DEF KeysDistinct, At, Live
  <1> QED
    BY <1>1 DEF Contents

\* The same after a step.
LEMMA ReadingNext ==
  ASSUME KeysDistinct'
  PROVE  /\ DOMAIN Contents' = {entries'[p].key : p \in Live'}
         /\ \A p \in Live' : Contents'[entries'[p].key] = entries'[p].value
  <1>1. ASSUME NEW p \in Live', NEW k, entries'[p].key = k PROVE At(k)' = {p}
    BY <1>1 DEF KeysDistinct, At, Live
  <1>2. DOMAIN Contents' = {entries'[p].key : p \in Live'}
    BY ONLY TRUE DEF Contents
  <1>3. ASSUME NEW p \in Live' PROVE Contents'[entries'[p].key] = entries'[p].value
    <2>1. PICK k : entries'[p].key = k
      OBVIOUS
    <2>2. At(k)' = {p} /\ k \in {entries'[q].key : q \in Live'}
      BY <1>1, <2>1
    <2>3. Contents'[k] = entries'[CHOOSE q \in At(k)' : TRUE].value
      BY ONLY <2>2 DEF Contents
    <2>4. (CHOOSE q \in At(k)' : TRUE) = p
      BY ONLY <2>2
    <2> QED
      BY ONLY <2>1, <2>3, <2>4
  <1> QED
    BY ONLY <1>2, <1>3

\* _ejs_map_set puts one key.
LEMMA UpsertIsPut ==
  ASSUME MapInv, NEW k \in Keys, NEW v \in Values, Upsert(k, v)
  PROVE  Abstract!Put(k, v)
  <1>1. ListOK /\ KeysDistinct
    BY InvParts
  <1>2. /\ KeysDistinct'
        /\ Live \subseteq Live'
        /\ \A p \in Live : entries'[p].key = entries[p].key
        /\ \E p \in Live' : entries'[p].key = k
        /\ \A p \in Live' : IF entries'[p].key = k THEN entries'[p].value = v
                                                 ELSE p \in Live /\ entries'[p] = entries[p]
    BY <1>1, Upserted
  <1>3. DOMAIN Contents' = DOMAIN Contents \cup {k}
    BY <1>1, <1>2, Reading, ReadingNext
  <1>4. \A j \in DOMAIN Contents' : Contents'[j] = IF j = k THEN v ELSE Contents[j]
    BY <1>1, <1>2, Reading, ReadingNext
  <1>5. Contents' = [j \in DOMAIN Contents' |-> Contents'[j]]
    BY DEF Contents
  <1> QED
    BY <1>3, <1>4, <1>5 DEF Abstract!Put

\* Emptying entries takes away their keys and no other.
LEMMA EmptyingRestricts ==
  ASSUME MapInv, NEW P \in SUBSET Live, entries' = Emptied(P)
  PROVE  Contents' = [j \in DOMAIN Contents \ {entries[p].key : p \in P} |-> Contents[j]]
  <1>1. ListOK /\ KeysDistinct
    BY InvParts
  <1>2. P \in SUBSET DOMAIN entries
    BY DEF Live
  <1>3. KeysDistinct' /\ Live' = Live \ P /\ \A p \in Live' : entries'[p] = entries[p]
    BY <1>1, <1>2, Emptying
  <1>4. DOMAIN Contents' = DOMAIN Contents \ {entries[p].key : p \in P}
    <2>1. \A p \in Live \ P : \A q \in P : entries[p].key # entries[q].key
      BY <1>1 DEF KeysDistinct
    <2> QED
      BY <1>1, <1>3, <2>1, Reading, ReadingNext
  <1>5. \A j \in DOMAIN Contents' : Contents'[j] = Contents[j]
    BY <1>1, <1>3, Reading, ReadingNext
  <1>6. Contents' = [j \in DOMAIN Contents' |-> Contents'[j]]
    BY DEF Contents
  <1> QED
    BY <1>4, <1>5, <1>6

\* Every step of the list, the iterators and the callbacks is one operation on
\* the partial map, or none.
LEMMA StepImplements == MapInv /\ [Next]_vars => [Abstract!Next]_Contents
  <1> SUFFICES ASSUME MapInv, [Next]_vars PROVE [Abstract!Next]_Contents
    OBVIOUS
  <1>0. ListOK /\ KeysDistinct
    BY InvParts
  <1>1. ASSUME NEW k \in Keys, NEW v \in Values, Upsert(k, v) PROVE Abstract!Next
    BY <1>1, UpsertIsPut DEF Abstract!Next
  <1>2. ASSUME NEW k \in Keys, Delete(k) PROVE Abstract!Next
    <2>1. At(k) # {} /\ entries' = Emptied(At(k))
      BY <1>2 DEF Delete, Shrink
    <2>2. At(k) \subseteq Live /\ {entries[p].key : p \in At(k)} = {k}
      BY <2>1, EmptyAssumption DEF At, Live
    <2>3. Contents' = [j \in DOMAIN Contents \ {k} |-> Contents[j]]
      BY <2>1, <2>2, EmptyingRestricts
    <2>4. k \in DOMAIN Contents
      BY <1>0, <2>1, <2>2, Reading
    <2> QED
      BY <2>3, <2>4 DEF Abstract!Next, Abstract!Remove
  <1>3. ASSUME Clear PROVE Abstract!Next
    <2>1. entries' = Emptied(Live)
      BY <1>3 DEF Clear, Shrink
    <2>2. Contents' = [j \in DOMAIN Contents \ {entries[p].key : p \in Live} |-> Contents[j]]
      BY <2>1, EmptyingRestricts
    <2>3. DOMAIN Contents = {entries[p].key : p \in Live}
      BY <1>0, Reading
    <2>4. Contents' = [j \in {} |-> j]
      BY <2>2, <2>3
    <2> QED
      BY <2>4 DEF Abstract!Next, Abstract!RemoveAll
  <1>4. ASSUME entries' = entries PROVE Contents' = Contents
    BY <1>4 DEF Contents, Live, At
  <1>5. ASSUME NEW v \in Values, ComputeReturn(v) PROVE Abstract!Next
    <2>1. Top \in Frame /\ Top.kind = "compute"
      BY <1>5, InvParts, TopFrame DEF ComputeReturn
    <2>2. Top.key \in Keys /\ Upsert(Top.key, v)
      BY <1>5, <2>1 DEF Frame, ComputeReturn
    <2> QED
      BY <1>1, <2>2
  <1>6. ASSUME NEW i \in Iterators, NewIterator(i) \/ NextDone(i) \/ \E p \in DOMAIN entries : NextEntry(i, p)
        PROVE  entries' = entries
    BY <1>6 DEF NewIterator, NextDone, NextEntry
  <1>7. ASSUME ForEachBegin \/ ForEachNext \/ ForEachReturn \/ Throw \/ \E k \in Keys : ComputeBegin(k)
        PROVE  entries' = entries
    BY <1>7 DEF ForEachBegin, ForEachNext, ForEachReturn, Throw, ComputeBegin
  <1>8. UNCHANGED vars => entries' = entries
    BY DEF vars
  <1> QED
    BY <1>1, <1>2, <1>3, <1>4, <1>5, <1>6, <1>7, <1>8 DEF Next, Set

\* The entry list with its tombstones implements a partial map.
THEOREM ListImplementsMap == Spec => ImplementsMap
  <1>1. Init => Abstract!Init
    BY DEF Init, Abstract!Init, Contents, Live
  <1> QED
    BY <1>1, StepImplements, MapInvariance, PTL DEF Spec, ImplementsMap, Abstract!Spec

=============================================================================
