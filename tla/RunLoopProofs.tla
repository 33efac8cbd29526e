--------------------------- MODULE RunLoopProofs ---------------------------
(***************************************************************************)
(* Theorems about RunLoop, for every set of addresses and Timer objects    *)
(* and for every bound.  The invariant says of the heap what makes its     *)
(* entries safe to run, of a Timer object when its address may be stale,   *)
(* of two waiting tasks in which order they must stand, and of the last    *)
(* handle in libuv's list what waits or runs once its record is freed.     *)
(***************************************************************************)
EXTENDS RunLoop, SequenceTheorems, TLAPS

-----------------------------------------------------------------------------
(* The inductive invariant *)

\* A waiting entry belongs to a task that may run, and is not due later than the
\* timeout its task was given.
MayRun(e, T, D) ==
    /\ T[e.at] # 0
    /\ ~D[T[e.at]].cleared
    /\ D[T[e.at]].fired => D[T[e.at]].repeats
    /\ e.delay <= D[T[e.at]].delay

\* One of two entries is for a task that was added first, with no longer timeout,
\* and neither has run.
Before(d, e, T, D) ==
    /\ T[d.at] < T[e.at]
    /\ D[T[d.at]].delay <= D[T[e.at]].delay
    /\ ~D[T[d.at]].fired /\ ~D[T[e.at]].fired

HeapGood(h, T, D) ==
    /\ \A i \in 1..Len(h) : MayRun(h[i], T, D)
    /\ \A i, j \in 1..Len(h) : h[i].at = h[j].at => i = j
    /\ \A i, j \in 1..Len(h) : Before(h[i], h[j], T, D) => i < j

TasksGood ==
    /\ \A a \in Addresses : task[a] # 0 => data[task[a]].rooted
    /\ \A a, b \in Addresses : task[a] # 0 /\ task[a] = task[b] => a = b
    /\ running # None => task[running] # 0 /\ data[task[running]].fired

HandlesGood ==
    \A t \in Timers : handle[t] # None =>
        /\ mine[t] # 0
        /\ \/ task[handle[t]] = mine[t]
           \/ data[mine[t]].fired /\ ~data[mine[t]].repeats

WaitsIn(h, T, id) == \E i \in 1..Len(h) : T[h[i].at] = id

NoneLost(h, T, D) ==
    \A id \in 1..Len(D) :
        D[id].cleared \/ (D[id].fired /\ ~D[id].repeats) \/ WaitsIn(h, T, id)

\* The task added last has been called, and will not be called again.
LastIsDone(D) == Len(D) # 0 /\ D[Len(D)].fired /\ ~D[Len(D)].repeats

\* A task that may still wait, or be on the stack, when the last one is done.
Later(D, id) == D[id].repeats \/ D[id].delay > D[Len(D)].delay

\* The last handle of libuv's list is the record of the task added last, which has
\* been freed only if that task is done; then all that waits or runs is later.
QueueGood(h, T, r, q, D) ==
    /\ Len(D) = 0 <=> q = None
    /\ \A a \in Addresses : T[a] # 0 /\ T[a] = Len(D) => a = q
    /\ q # None => T[q] = Len(D) \/ (T[q] = 0 /\ LastIsDone(D))
    /\ LastIsDone(D) =>
          /\ \A i \in 1..Len(h) : Later(D, T[h[i].at])
          /\ r # None => T[r] = Len(D) \/ Later(D, T[r])

LoopInv ==
    /\ LoopTypeOK
    /\ HeapGood(heap, task, data)
    /\ TasksGood
    /\ HandlesGood
    /\ misused \/ NoneLost(heap, task, data)
    /\ QueueGood(heap, task, running, queueEnd, data)

-----------------------------------------------------------------------------
(* Sequences *)

\* The length of a sequence that is given as a function.
LEMMA LenOfDomain ==
    ASSUME NEW S, NEW n \in Nat, NEW s \in [1..n -> S]
    PROVE  s \in Seq(S) /\ Len(s) = n
<1>1. s \in Seq(S)
      BY SeqDef
<1>2. PICK m \in Nat : m = Len(s) /\ 1..m = 1..n
      BY <1>1, LenProperties
<1>3. ~(m < n)
      <2>1. m < n => n \in 1..n /\ n \notin 1..m OBVIOUS
      <2> QED BY <1>2, <2>1
<1>4. ~(n < m)
      <2>1. n < m => m \in 1..m /\ m \notin 1..n OBVIOUS
      <2> QED BY <1>2, <2>1
<1>5. m = n
      BY ONLY <1>3, <1>4, m \in Nat, n \in Nat
<1> QED BY <1>1, <1>2, <1>5

\* What Put makes of a sequence: one element more, the rest in order (the places
\* of libuv's heap).
LEMMA PutFacts ==
    ASSUME NEW S, NEW h \in Seq(S), NEW k \in 0..Len(h), NEW e \in S
    PROVE  /\ Put(h, k, e) \in Seq(S)
           /\ Len(Put(h, k, e)) = Len(h) + 1
           /\ \A i \in 1..Len(h) + 1 :
                 Put(h, k, e)[i] = IF i <= k THEN h[i] ELSE IF i = k + 1 THEN e ELSE h[i - 1]
<1>1. PICK n \in Nat : n = Len(h)
      BY LenProperties
<1>2. \A i \in 1..n : h[i] \in S
      BY <1>1, ElementOfSeq
<1> DEFINE p == [i \in 1..(n + 1) |-> IF i <= k THEN h[i] ELSE IF i = k + 1 THEN e ELSE h[i - 1]]
<1>3. Put(h, k, e) = p
      BY <1>1 DEF Put
<1>4. p \in [1..(n + 1) -> S]
      <2>1. ASSUME NEW i \in 1..(n + 1) PROVE p[i] \in S
            BY <1>1, <1>2
      <2> QED BY <2>1
<1>5. p \in Seq(S) /\ Len(p) = n + 1
      <2> HIDE DEF p
      <2>1. n + 1 \in Nat OBVIOUS
      <2> QED BY <1>4, <2>1, LenOfDomain
<1> QED BY <1>1, <1>3, <1>5

\* w, of length m, is what is left of h, of length n, when the entries at address a
\* are taken out.
LessOf(h, n, w, m, a) ==
    \E f \in [1..m -> 1..n] :
        /\ \A i, j \in 1..m : i < j => f[i] < f[j]
        /\ \A i \in 1..m : w[i] = h[f[i]] /\ w[i].at # a
        /\ \A i \in 1..n : h[i].at # a => \E j \in 1..m : w[j] = h[i]

Less(h, w, a) == LessOf(h, Len(h), w, Len(w), a)

\* The loop takes its first timer off the heap (uv__run_timers).
LEMMA TailIsLess ==
    ASSUME NEW h \in Seq(Slots), h # <<>>,
           \A i, j \in 1..Len(h) : h[i].at = h[j].at => i = j
    PROVE  Tail(h) \in Seq(Slots) /\ Less(h, Tail(h), h[1].at)
<1>1. PICK n \in Nat : n = Len(h)
      BY LenProperties
<1>2. n >= 1
      BY <1>1, EmptySeq
<1>3. /\ Tail(h) \in Seq(Slots) /\ Len(Tail(h)) = n - 1
      /\ \A i \in 1..(n - 1) : Tail(h)[i] = h[i + 1]
      BY <1>1, HeadTailProperties
<1> DEFINE f == [i \in 1..(n - 1) |-> i + 1]
<1>4. f \in [1..(n - 1) -> 1..n]
      BY <1>2
<1>5. \A i, j \in 1..(n - 1) : i < j => f[i] < f[j]
      OBVIOUS
<1>6. \A i \in 1..(n - 1) : Tail(h)[i] = h[f[i]] /\ Tail(h)[i].at # h[1].at
      BY <1>1, <1>2, <1>3
<1>7. ASSUME NEW i \in 1..n, h[i].at # h[1].at
      PROVE  \E j \in 1..(n - 1) : Tail(h)[j] = h[i]
      <2>1. i # 1 BY <1>7
      <2>2. i - 1 \in 1..(n - 1) BY <2>1
      <2>3. Tail(h)[i - 1] = h[(i - 1) + 1] BY <2>2, <1>3
      <2>4. (i - 1) + 1 = i OBVIOUS
      <2> QED BY <2>2, <2>3, <2>4
<1> HIDE DEF f
<1>8. LessOf(h, n, Tail(h), n - 1, h[1].at)
      BY <1>4, <1>5, <1>6, <1>7 DEF LessOf
<1> QED BY <1>1, <1>3, <1>8 DEF Less

\* uv_timer_stop takes one entry out, and leaves the rest in order.
LEMMA WithoutIsLess ==
    ASSUME NEW h \in Seq(Slots), NEW a,
           \A i, j \in 1..Len(h) : h[i].at = h[j].at => i = j
    PROVE  Without(h, a) \in Seq(Slots) /\ Less(h, Without(h, a), a)
<1>1. PICK n \in Nat : n = Len(h)
      BY LenProperties
<1>2. DOMAIN h = 1..n /\ \A i \in 1..n : h[i] \in Slots
      BY <1>1, LenProperties, ElementOfSeq
<1>3. CASE ~Waits(h, a)
      <2>1. Without(h, a) = h BY <1>3 DEF Without
      <2>2. \A i \in 1..n : h[i].at # a BY <1>2, <1>3 DEF Waits
      <2> DEFINE f == [i \in 1..n |-> i]
      <2>3. /\ f \in [1..n -> 1..n] /\ \A i, j \in 1..n : i < j => f[i] < f[j]
            /\ \A i \in 1..n : h[i] = h[f[i]]
            OBVIOUS
      <2> HIDE DEF f
      <2>4. LessOf(h, n, h, n, a) BY <2>2, <2>3 DEF LessOf
      <2> QED BY <1>1, <2>1, <2>4 DEF Less
<1>4. CASE Waits(h, a)
      <2>1. PICK p \in 1..n : p = PlaceOf(h, a) /\ h[p].at = a
            BY <1>2, <1>4 DEF Waits, PlaceOf
      <2> DEFINE w == [i \in 1..(n - 1) |-> IF i < p THEN h[i] ELSE h[i + 1]]
                 f == [i \in 1..(n - 1) |-> IF i < p THEN i ELSE i + 1]
      <2>2. Without(h, a) = w BY <1>1, <1>4, <2>1 DEF Without
      <2>3. n - 1 \in Nat OBVIOUS
      <2>4. w \in [1..(n - 1) -> Slots] BY <1>2
      <2>7. f \in [1..(n - 1) -> 1..n] OBVIOUS
      <2>8. \A i, j \in 1..(n - 1) : i < j => f[i] < f[j] OBVIOUS
      <2>9. ASSUME NEW i \in 1..(n - 1) PROVE w[i] = h[f[i]] /\ w[i].at # a
            <3>1. w[i] = h[f[i]] OBVIOUS
            <3>2. f[i] \in 1..n /\ f[i] # p OBVIOUS
            <3> QED BY <1>1, <2>1, <3>1, <3>2
      <2>10. ASSUME NEW i \in 1..n, h[i].at # a PROVE \E j \in 1..(n - 1) : w[j] = h[i]
            <3>1. i # p BY <2>1, <2>10
            <3>2. CASE i < p
                  <4>1. i \in 1..(n - 1) BY <3>2
                  <4>2. w[i] = h[i] BY <3>2, <4>1
                  <4> QED BY <4>1, <4>2
            <3>3. CASE i > p
                  <4>1. i - 1 \in 1..(n - 1) BY <3>3
                  <4>2. w[i - 1] = h[(i - 1) + 1] BY <3>3, <4>1
                  <4>3. (i - 1) + 1 = i OBVIOUS
                  <4> QED BY <4>1, <4>2, <4>3
            <3> QED BY <3>1, <3>2, <3>3
      <2> HIDE DEF w, f
      <2>11. w \in Seq(Slots) /\ Len(w) = n - 1 BY <2>3, <2>4, LenOfDomain
      <2>12. LessOf(h, n, w, n - 1, a)
            BY <2>7, <2>8, <2>9, <2>10 DEF LessOf
      <2> QED BY <1>1, <2>2, <2>11, <2>12 DEF Less
<1> QED BY <1>3, <1>4

-----------------------------------------------------------------------------
(* The heap *)

\* What a waiting entry names.
LEMMA WaitingTyped ==
    ASSUME NEW D \in Seq(Record), NEW T \in [Addresses -> 0..Len(D)],
           NEW h \in Seq(Slots), HeapGood(h, T, D), NEW i \in 1..Len(h)
    PROVE  /\ h[i] \in Slots /\ h[i].at \in Addresses
           /\ T[h[i].at] \in 1..Len(D) /\ D[T[h[i].at]] \in Record
<1>1. h[i] \in Slots /\ h[i].at \in Addresses
      <2>1. h[i] \in Slots BY ElementOfSeq
      <2> QED BY <2>1 DEF Slots
<1>2. T[h[i].at] # 0 /\ Len(D) \in Nat
      BY LenProperties DEF HeapGood, MayRun
<1>3. T[h[i].at] \in 1..Len(D)
      BY <1>1, <1>2
<1> QED BY <1>1, <1>3, ElementOfSeq

\* Stopping a timer keeps the rest of the heap good.
LEMMA LessGood ==
    ASSUME NEW D, NEW T, NEW h \in Seq(Slots), NEW w \in Seq(Slots), NEW a,
           HeapGood(h, T, D), Less(h, w, a)
    PROVE  HeapGood(w, T, D)
<1>1. PICK n \in Nat, m \in Nat : n = Len(h) /\ m = Len(w)
      BY LenProperties
<1>2. PICK f \in [1..m -> 1..n] :
          /\ \A i, j \in 1..m : i < j => f[i] < f[j]
          /\ \A i \in 1..m : w[i] = h[f[i]]
      BY <1>1 DEF Less, LessOf
<1>3. \A i \in 1..m : MayRun(w[i], T, D)
      BY <1>1, <1>2 DEF HeapGood
<1>4. ASSUME NEW i \in 1..m, NEW j \in 1..m, f[i] < f[j] PROVE i < j
      <2>1. PICK x \in Nat, y \in Nat : x = f[i] /\ y = f[j] BY <1>2
      <2>2. j < i => y < x
            <3>1. \A c, d \in 1..m : c < d => f[c] < f[d] BY ONLY <1>2
            <3>2. j < i => f[j] < f[i] BY ONLY <3>1, i \in 1..m, j \in 1..m, Zenon
            <3> QED BY ONLY <2>1, <3>2
      <2>3. i = j => x = y BY ONLY <2>1
      <2>4. x < y BY ONLY <1>4, <2>1
      <2> QED BY ONLY <2>2, <2>3, <2>4, i \in 1..m, j \in 1..m, m \in Nat, x \in Nat, y \in Nat
<1>5. ASSUME NEW i \in 1..m, NEW j \in 1..m, w[i].at = w[j].at PROVE i = j
      <2>1. f[i] = f[j] BY <1>1, <1>2, <1>5 DEF HeapGood
      <2>2. f[i] \in Nat BY <1>2
      <2>3. ~(i < j) /\ ~(j < i) BY ONLY <1>2, <2>1, <2>2, i \in 1..m, j \in 1..m
      <2> QED BY <2>3
<1>6. ASSUME NEW i \in 1..m, NEW j \in 1..m, Before(w[i], w[j], T, D) PROVE i < j
      <2>1. f[i] < f[j] BY <1>1, <1>2, <1>6 DEF HeapGood
      <2> QED BY <1>4, <2>1
<1> QED BY <1>1, <1>3, <1>5, <1>6 DEF HeapGood

\* The heap does not depend on tasks that are not in it.
LEMMA FrameGood ==
    ASSUME NEW D, NEW T, NEW E, NEW U, NEW h, HeapGood(h, T, D),
           \A i \in 1..Len(h) :
               U[h[i].at] = T[h[i].at] /\ E[T[h[i].at]] = D[T[h[i].at]]
    PROVE  HeapGood(h, U, E)
<1>1. \A i \in 1..Len(h) : MayRun(h[i], U, E)
      BY DEF HeapGood, MayRun
<1>2. \A i, j \in 1..Len(h) : Before(h[i], h[j], U, E) => i < j
      BY DEF HeapGood, Before
<1> QED BY <1>1, <1>2 DEF HeapGood

\* Starting a timer keeps the heap good, if it is the newest task and goes after
\* all that has no longer timeout, or is an interval that has run before.
LEMMA PutGood ==
    ASSUME NEW D \in Seq(Record), NEW T \in [Addresses -> 0..Len(D)],
           NEW h \in Seq(Slots), NEW k \in 0..Len(h), NEW e \in Slots,
           HeapGood(h, T, D), MayRun(e, T, D),
           \A i \in 1..Len(h) : h[i].at # e.at,
           \/ D[T[e.at]].fired
           \/ \A i \in 1..Len(h) :
                 /\ T[h[i].at] < T[e.at]
                 /\ D[T[h[i].at]].delay <= D[T[e.at]].delay => i <= k
    PROVE  HeapGood(Put(h, k, e), T, D)
<1>1. PICK n \in Nat : n = Len(h)
      BY LenProperties
<1>2. PICK p : /\ p = Put(h, k, e) /\ Len(p) = n + 1
               /\ \A i \in 1..(n + 1) :
                     p[i] = IF i <= k THEN h[i] ELSE IF i = k + 1 THEN e ELSE h[i - 1]
      <2> DEFINE q == Put(h, k, e)
      <2>1. /\ Len(q) = Len(h) + 1
            /\ \A i \in 1..Len(h) + 1 :
                  q[i] = IF i <= k THEN h[i] ELSE IF i = k + 1 THEN e ELSE h[i - 1]
            BY PutFacts
      <2> HIDE DEF q
      <2>2. \A i \in 1..(n + 1) :
               q[i] = IF i <= k THEN h[i] ELSE IF i = k + 1 THEN e ELSE h[i - 1]
            BY <1>1, <2>1
      <2>3. Len(q) = n + 1 BY <1>1, <2>1
      <2>4. q = Put(h, k, e) BY DEF q
      <2> QED BY <2>2, <2>3, <2>4
<1>3. k \in 0..n
      BY <1>1
<1> DEFINE o(i) == IF i <= k THEN i ELSE i - 1
<1>4. \A i \in 1..(n + 1) : i # k + 1 => o(i) \in 1..n /\ p[i] = h[o(i)]
      BY <1>2, <1>3
<1>5. \A i, j \in 1..(n + 1) : i # k + 1 /\ j # k + 1 =>
          (o(i) < o(j) => i < j) /\ (o(i) = o(j) => i = j)
      BY <1>3
<1>6. p[k + 1] = e /\ k + 1 \in 1..(n + 1)
      BY <1>2, <1>3
<1>7. \A i \in 1..(n + 1) : i # k + 1 /\ o(i) <= k => i < k + 1
      BY <1>3
<1> HIDE DEF o
<1>8. \A i \in 1..(n + 1) : MayRun(p[i], T, D)
      BY <1>1, <1>4, <1>6 DEF HeapGood
<1>9. ASSUME NEW i \in 1..(n + 1), NEW j \in 1..(n + 1), p[i].at = p[j].at PROVE i = j
      <2>1. CASE i # k + 1 /\ j # k + 1
            <3>1. o(i) = o(j) BY <1>1, <1>4, <1>9, <2>1 DEF HeapGood
            <3> QED BY <1>5, <2>1, <3>1
      <2>2. CASE i = k + 1 \/ j = k + 1
            BY <1>1, <1>4, <1>6, <1>9, <2>2
      <2> QED BY <2>1, <2>2
<1>10. ASSUME NEW i \in 1..(n + 1), NEW j \in 1..(n + 1), Before(p[i], p[j], T, D)
       PROVE  i < j
      <2>1. CASE i # k + 1 /\ j # k + 1
            <3>1. o(i) < o(j) BY <1>1, <1>4, <1>10, <2>1 DEF HeapGood
            <3> QED BY <1>5, <2>1, <3>1
      <2>2. CASE i = k + 1 /\ j = k + 1
            <3>1. T[e.at] \in Nat
                  <4>1. Len(D) \in Nat /\ e.at \in Addresses BY LenProperties DEF Slots
                  <4> QED BY ONLY <4>1, T \in [Addresses -> 0..Len(D)]
            <3>2. p[i] = e /\ p[j] = e BY ONLY <1>6, <2>2, Zenon
            <3>3. T[p[i].at] < T[p[j].at] BY ONLY <1>10 DEF Before
            <3>4. T[e.at] < T[e.at] BY ONLY <3>2, <3>3
            <3> QED BY ONLY <3>1, <3>4
      <2>3. CASE i = k + 1 /\ j # k + 1
            <3>1. ~D[T[e.at]].fired /\ T[e.at] < T[h[o(j)].at] /\ o(j) \in 1..n
                  BY <1>4, <1>6, <1>10, <2>3 DEF Before
            <3>2. T[h[o(j)].at] < T[e.at] BY <1>1, <3>1
            <3>3. T[e.at] \in Nat
                  <4>1. Len(D) \in Nat BY LenProperties
                  <4> QED BY <4>1 DEF Slots
            <3>4. T[h[o(j)].at] \in Nat
                  <4> DEFINE x == o(j)
                  <4>1. x \in 1..Len(h) BY <1>1, <3>1
                  <4> HIDE DEF x
                  <4>2. T[h[x].at] \in 1..Len(D) BY <4>1, WaitingTyped
                  <4>3. Len(D) \in Nat BY LenProperties
                  <4>4. T[h[x].at] \in Nat BY <4>2, <4>3
                  <4> QED BY <4>4 DEF x
            <3> QED BY <3>1, <3>2, <3>3, <3>4
      <2>4. CASE i # k + 1 /\ j = k + 1
            <3>1. /\ ~D[T[e.at]].fired /\ o(i) \in 1..n
                  /\ D[T[h[o(i)].at]].delay <= D[T[e.at]].delay
                  BY <1>4, <1>6, <1>10, <2>4 DEF Before
            <3>2. o(i) <= k BY <1>1, <3>1
            <3> QED BY <1>7, <2>4, <3>2
      <2> QED BY <2>1, <2>2, <2>3, <2>4
<1> QED BY <1>1, <1>2, <1>8, <1>9, <1>10 DEF HeapGood

\* The clock brings every due time nearer and leaves the order as it was.
LEMMA TickGood ==
    ASSUME NEW D \in Seq(Record), NEW T \in [Addresses -> 0..Len(D)],
           NEW h \in Seq(Slots), HeapGood(h, T, D), NEW k \in Nat,
           NEW w, w = [i \in DOMAIN h |->
                          Entry(h[i].at, IF h[i].delay > k THEN h[i].delay - k ELSE 0)]
    PROVE  /\ w \in Seq(Slots) /\ Len(w) = Len(h)
           /\ \A i \in 1..Len(h) : w[i].at = h[i].at
           /\ HeapGood(w, T, D)
<1>1. PICK n \in Nat : n = Len(h) /\ DOMAIN h = 1..n
      BY LenProperties
<1>2. ASSUME NEW i \in 1..n
      PROVE  /\ w[i] \in Slots /\ w[i].at = h[i].at
             /\ w[i].delay <= h[i].delay /\ w[i].delay \in Nat /\ h[i].delay \in Nat
      <2>1. h[i] \in Slots BY <1>1, ElementOfSeq
      <2>2. w[i] = [at |-> h[i].at, delay |-> IF h[i].delay > k THEN h[i].delay - k ELSE 0]
            BY <1>1 DEF Entry
      <2>3. PICK d, c : d = h[i].delay /\ c = w[i].delay
            OBVIOUS
      <2>4. /\ h[i].at \in Addresses /\ d \in 0..MaxDelay /\ MaxDelay \in Nat
            /\ w[i].at = h[i].at /\ c = IF d > k THEN d - k ELSE 0
            BY <2>1, <2>2, <2>3, LoopBounds DEF Slots
      <2>5. d \in Nat /\ c \in 0..MaxDelay /\ c \in Nat /\ c <= d
            BY ONLY <2>4, k \in Nat
      <2>6. w[i] \in Slots
            BY ONLY <2>2, <2>3, <2>4, <2>5 DEF Slots
      <2> QED BY <2>3, <2>4, <2>5, <2>6
<1>3. w \in [1..n -> Slots]
      BY <1>1, <1>2
<1>4. w \in Seq(Slots) /\ Len(w) = n
      BY <1>3, LenOfDomain
<1>5. ASSUME NEW i \in 1..n PROVE MayRun(w[i], T, D)
      <2>1. D[T[h[i].at]].delay \in Nat
            <3>1. D[T[h[i].at]] \in Record BY <1>1, WaitingTyped
            <3> QED BY <3>1, LoopBounds DEF Record
      <2>2. MayRun(h[i], T, D) BY <1>1 DEF HeapGood
      <2>3. PICK x, y, z : x = w[i].delay /\ y = h[i].delay /\ z = D[T[h[i].at]].delay
            OBVIOUS
      <2>4. x \in Nat /\ y \in Nat /\ z \in Nat /\ x <= y /\ y <= z
            BY <1>2, <2>1, <2>2, <2>3 DEF MayRun
      <2>5. x <= z BY ONLY <2>4
      <2>6. w[i].at = h[i].at BY <1>2
      <2> QED BY <2>2, <2>3, <2>5, <2>6 DEF MayRun
<1>6. \A i, j \in 1..n : w[i].at = w[j].at => i = j
      BY <1>1, <1>2 DEF HeapGood
<1>7. \A i, j \in 1..n : Before(w[i], w[j], T, D) => i < j
      BY <1>1, <1>2 DEF HeapGood, Before
<1> QED BY <1>1, <1>2, <1>4, <1>5, <1>6, <1>7 DEF HeapGood

\* What waits and is not at the address taken out, waits still.
LEMMA LessWaits ==
    ASSUME NEW T, NEW h \in Seq(Slots), NEW w \in Seq(Slots), NEW a,
           Less(h, w, a), NEW id, WaitsIn(h, T, id), id # T[a]
    PROVE  WaitsIn(w, T, id)
<1>1. PICK n \in Nat, m \in Nat : n = Len(h) /\ m = Len(w)
      BY LenProperties
<1>2. \A i \in 1..n : h[i].at # a => \E j \in 1..m : w[j] = h[i]
      BY <1>1 DEF Less, LessOf
<1>3. PICK i \in 1..n : T[h[i].at] = id
      BY <1>1 DEF WaitsIn
<1>4. PICK j \in 1..m : w[j] = h[i]
      BY <1>2, <1>3
<1> QED BY <1>1, <1>3, <1>4 DEF WaitsIn

\* Nothing is left at the address taken out.
LEMMA LessAway ==
    ASSUME NEW h \in Seq(Slots), NEW w \in Seq(Slots), NEW a, Less(h, w, a)
    PROVE  \A i \in 1..Len(w) : w[i].at # a
BY DEF Less, LessOf

\* What Put adds to the waiting tasks.
LEMMA PutWaits ==
    ASSUME NEW T, NEW h \in Seq(Slots), NEW k \in 0..Len(h), NEW e \in Slots, NEW id,
           WaitsIn(h, T, id) \/ id = T[e.at]
    PROVE  WaitsIn(Put(h, k, e), T, id)
<1>1. PICK n \in Nat : n = Len(h)
      BY LenProperties
<1> DEFINE p == Put(h, k, e)
<1>2. /\ Len(p) = Len(h) + 1
      /\ \A i \in 1..Len(h) + 1 :
            p[i] = IF i <= k THEN h[i] ELSE IF i = k + 1 THEN e ELSE h[i - 1]
      BY PutFacts
<1> HIDE DEF p
<1>3. /\ Len(p) = n + 1 /\ k \in 0..n
      /\ \A i \in 1..(n + 1) :
            p[i] = IF i <= k THEN h[i] ELSE IF i = k + 1 THEN e ELSE h[i - 1]
      BY <1>1, <1>2
<1>4. CASE id = T[e.at]
      <2>1. k + 1 \in 1..(n + 1) /\ p[k + 1] = e BY <1>3
      <2> QED BY <1>3, <1>4, <2>1 DEF WaitsIn, p
<1>5. CASE WaitsIn(h, T, id)
      <2>1. PICK i \in 1..n : T[h[i].at] = id BY <1>1, <1>5 DEF WaitsIn
      <2>2. CASE i <= k
            <3>1. i \in 1..(n + 1) /\ p[i] = h[i] BY <1>3, <2>2
            <3> QED BY <1>3, <2>1, <3>1 DEF WaitsIn, p
      <2>3. CASE i > k
            <3>1. i + 1 \in 1..(n + 1) /\ p[i + 1] = h[(i + 1) - 1] BY <1>3, <2>3
            <3>2. (i + 1) - 1 = i OBVIOUS
            <3> QED BY <1>3, <2>1, <3>1, <3>2 DEF WaitsIn, p
      <2> QED BY <1>3, <2>2, <2>3
<1> QED BY <1>4, <1>5

\* What Put adds is the only entry that was not there.
LEMMA PutIn ==
    ASSUME NEW h \in Seq(Slots), NEW k \in 0..Len(h), NEW e \in Slots,
           NEW i \in 1..Len(Put(h, k, e))
    PROVE  Put(h, k, e)[i] = e \/ \E j \in 1..Len(h) : Put(h, k, e)[i] = h[j]
<1>1. PICK n \in Nat : n = Len(h)
      BY LenProperties
<1>2. /\ i \in 1..(n + 1) /\ k \in 0..n
      /\ Put(h, k, e)[i] = IF i <= k THEN h[i] ELSE IF i = k + 1 THEN e ELSE h[i - 1]
      <2> DEFINE p == Put(h, k, e)
      <2>1. /\ Len(p) = Len(h) + 1
            /\ \A j \in 1..Len(h) + 1 :
                  p[j] = IF j <= k THEN h[j] ELSE IF j = k + 1 THEN e ELSE h[j - 1]
            BY PutFacts
      <2>2. i \in 1..Len(p) OBVIOUS
      <2> HIDE DEF p
      <2>3. i \in 1..(n + 1) /\ k \in 0..n BY <1>1, <2>1, <2>2
      <2> QED BY <1>1, <2>1, <2>3 DEF p
<1>3. CASE i <= k
      BY <1>1, <1>2, <1>3
<1>4. CASE i > k + 1
      <2>1. i - 1 \in 1..n BY <1>2, <1>4
      <2> QED BY <1>1, <1>2, <1>4, <2>1
<1> QED BY <1>2, <1>3, <1>4

\* One record of data is replaced.
LEMMA UpdateFacts ==
    ASSUME NEW D \in Seq(Record), NEW id \in 1..Len(D), NEW r \in Record
    PROVE  /\ [D EXCEPT ![id] = r] \in Seq(Record)
           /\ Len([D EXCEPT ![id] = r]) = Len(D)
           /\ [D EXCEPT ![id] = r][id] = r
           /\ \A i \in 1..Len(D) : i # id => [D EXCEPT ![id] = r][i] = D[i]
<1>1. PICK n \in Nat : n = Len(D) /\ D \in [1..n -> Record]
      BY LenProperties
<1> DEFINE d == [D EXCEPT ![id] = r]
<1>2. d \in [1..n -> Record] /\ d[id] = r /\ \A i \in 1..n : i # id => d[i] = D[i]
      BY <1>1
<1> HIDE DEF d
<1>3. d \in Seq(Record) /\ Len(d) = n
      BY <1>2, LenOfDomain
<1> QED BY <1>1, <1>2, <1>3 DEF d

\* The list of handles stays good when timers are stopped or brought nearer, when a
\* callback returns, and when records are freed whose task is done.
LEMMA QueueKept ==
    ASSUME LoopInv,
           NEW E \in Seq(Record), Len(E) = Len(data),
           NEW U \in [Addresses -> 0..Len(data)], NEW w, NEW s \in {running, None},
           \A i \in 1..Len(data) : /\ E[i].fired = data[i].fired /\ E[i].delay = data[i].delay
                                   /\ E[i].repeats = data[i].repeats,
           \A a \in Addresses : \/ U[a] = task[a]
                                \/ U[a] = 0 /\ task[a] # 0 /\ data[task[a]].fired
                                   /\ ~data[task[a]].repeats,
           \A i \in 1..Len(w) : /\ U[w[i].at] \in 1..Len(data)
                                /\ \E j \in 1..Len(heap) : U[w[i].at] = task[heap[j].at],
           s # None => task[s] # 0 /\ U[s] = task[s]
    PROVE  QueueGood(w, U, s, queueEnd, E)
<1>1. PICK n \in Nat : n = Len(data) /\ n = Len(E)
      BY LenProperties DEF LoopInv, LoopTypeOK
<1>2. \A i \in 1..n : Later(E, i) <=> Later(data, i)
      BY <1>1 DEF Later
<1>3. LastIsDone(E) <=> LastIsDone(data)
      BY <1>1 DEF LastIsDone
<1>4. Len(E) = 0 <=> queueEnd = None
      BY DEF LoopInv, QueueGood
<1>5. ASSUME NEW a \in Addresses, U[a] # 0, U[a] = Len(E) PROVE a = queueEnd
      BY <1>1, <1>5 DEF LoopInv, QueueGood
<1>6. ASSUME queueEnd # None
      PROVE  U[queueEnd] = Len(E) \/ (U[queueEnd] = 0 /\ LastIsDone(E))
      <2>1. queueEnd \in Addresses BY <1>6 DEF LoopInv, LoopTypeOK
      <2>2. task[queueEnd] = n \/ (task[queueEnd] = 0 /\ LastIsDone(data))
            BY <1>1, <1>6 DEF LoopInv, QueueGood
      <2>3. CASE U[queueEnd] = task[queueEnd] BY <1>1, <1>3, <2>2, <2>3
      <2>4. CASE /\ U[queueEnd] = 0 /\ task[queueEnd] # 0
                 /\ data[task[queueEnd]].fired /\ ~data[task[queueEnd]].repeats
            BY <1>1, <1>3, <2>2, <2>4 DEF LastIsDone
      <2> QED BY <2>1, <2>3, <2>4
<1>7. ASSUME LastIsDone(E), NEW i \in 1..Len(w) PROVE Later(E, U[w[i].at])
      <2>1. PICK j \in 1..Len(heap) : U[w[i].at] = task[heap[j].at] OBVIOUS
      <2>2. Later(data, task[heap[j].at]) BY <1>3, <1>7 DEF LoopInv, QueueGood
      <2> QED BY <1>1, <1>2, <2>1, <2>2
<1>8. ASSUME LastIsDone(E), s # None PROVE U[s] = Len(E) \/ Later(E, U[s])
      <2>1. s = running /\ s \in Addresses /\ U[s] = task[s] /\ task[s] \in 1..n
            BY <1>1, <1>8 DEF LoopInv, LoopTypeOK
      <2>2. task[running] = n \/ Later(data, task[running])
            BY <1>1, <1>3, <1>8, <2>1 DEF LoopInv, QueueGood
      <2> QED BY <1>1, <1>2, <2>1, <2>2
<1> QED BY <1>4, <1>5, <1>6, <1>7, <1>8 DEF QueueGood

\* What is left of the heap was in it.
LEMMA LessIn ==
    ASSUME NEW h \in Seq(Slots), NEW w \in Seq(Slots), NEW a, Less(h, w, a)
    PROVE  \A i \in 1..Len(w) : \E j \in 1..Len(h) : w[i] = h[j]
BY DEF Less, LessOf

-----------------------------------------------------------------------------
(* One lemma for each action: it keeps the invariant *)

\* malloc, uv_timer_init and uv_timer_start, for add_task and for the program's
\* timers alike.
LEMMA StartFacts ==
    ASSUME LoopInv, NEW a \in Addresses, NEW d \in 0..MaxDelay, NEW r \in BOOLEAN,
           Start(a, d, r)
    PROVE  /\ data' \in Seq(Record) /\ Len(data') = Len(data) + 1
           /\ \A i \in 1..Len(data) : data'[i] = data[i]
           /\ data'[Len(data) + 1].rooted
           /\ task' \in [Addresses -> 0..Len(data')] /\ task[a] = 0
           /\ task'[a] = Len(data) + 1 /\ \A b \in Addresses \ {a} : task'[b] = task[b]
           /\ heap' \in Seq(Slots)
           /\ queueEnd' \in Addresses \cup {None} /\ status' \in {"running", "undefined"}
           /\ HeapGood(heap', task', data')
           /\ misused \/ NoneLost(heap', task', data')
           /\ QueueGood(heap', task', running, queueEnd', data')
<1> DEFINE D == data'
           T == task'
           e == Entry(a, d)
<1>1. PICK n \in Nat : n = Len(data)
      BY LenProperties DEF LoopInv, LoopTypeOK
<1>2. Datum(d, r) \in Record
      BY DEF Datum, Record
<1>3. /\ D \in Seq(Record) /\ Len(D) = n + 1
      /\ \A i \in 1..n : D[i] = data[i]
      /\ D[n + 1] = Datum(d, r)
      BY <1>1, <1>2, AppendProperties DEF LoopInv, LoopTypeOK, Start
<1>4. task \in [Addresses -> 0..n] /\ task[a] = 0 /\ heap \in Seq(Slots)
      BY <1>1 DEF LoopInv, LoopTypeOK, Start
<1>5. /\ T \in [Addresses -> 0..(n + 1)] /\ T[a] = n + 1
      /\ \A b \in Addresses \ {a} : T[b] = task[b]
      BY <1>1, <1>4 DEF Start
<1>6. ASSUME NEW i \in 1..Len(heap)
      PROVE  /\ heap[i].at \in Addresses \ {a}
             /\ T[heap[i].at] = task[heap[i].at] /\ task[heap[i].at] \in 1..n
             /\ D[task[heap[i].at]] = data[task[heap[i].at]]
             /\ heap[i].delay <= data[task[heap[i].at]].delay
             /\ heap[i].delay \in Nat /\ data[task[heap[i].at]].delay \in Nat
      <2>1. /\ heap[i] \in Slots /\ heap[i].at \in Addresses
            /\ task[heap[i].at] \in 1..Len(data) /\ data[task[heap[i].at]] \in Record
            BY WaitingTyped DEF LoopInv, LoopTypeOK
      <2>2. heap[i].delay <= data[task[heap[i].at]].delay
            BY DEF LoopInv, HeapGood, MayRun
      <2>3. heap[i].delay \in Nat /\ data[task[heap[i].at]].delay \in Nat
            BY <2>1, LoopBounds DEF Slots, Record
      <2>4. heap[i].at # a /\ task[heap[i].at] \in 1..n
            BY <1>1, <1>4, <2>1
      <2> QED BY <1>3, <1>5, <2>1, <2>2, <2>3, <2>4
<1>7. PICK k \in 0..Len(heap) :
          /\ heap' = Put(heap, k, e)
          /\ \A i \in DOMAIN heap :
                IF i <= k THEN heap[i].delay <= d ELSE heap[i].delay > d
      BY DEF Start, Inserted
<1>8. e \in Slots /\ e.at = a /\ e.delay = d
      BY DEF Entry, Slots
<1>9. heap' \in Seq(Slots)
      BY <1>4, <1>7, <1>8, PutFacts
<1>10. HeapGood(heap, T, D)
      BY <1>6, FrameGood DEF LoopInv
<1>11. MayRun(e, T, D)
      BY <1>3, <1>5, <1>8 DEF MayRun, Datum
<1>12. ASSUME NEW i \in 1..Len(heap)
       PROVE  /\ T[heap[i].at] < T[e.at]
              /\ D[T[heap[i].at]].delay <= D[T[e.at]].delay => i <= k
      <2>1. T[heap[i].at] < T[e.at] BY <1>5, <1>6, <1>8
      <2>2. ASSUME D[T[heap[i].at]].delay <= D[T[e.at]].delay PROVE i <= k
            <3>1. D[T[e.at]].delay = d BY <1>3, <1>5, <1>8 DEF Datum
            <3>2. PICK x, y : x = heap[i].delay /\ y = D[T[heap[i].at]].delay
                  OBVIOUS
            <3>3. x \in Nat /\ y \in Nat /\ d \in Nat /\ x <= y /\ y <= d
                  BY <1>6, <2>2, <3>1, <3>2, LoopBounds
            <3>4. ~(x > d) BY ONLY <3>3
            <3>5. i \in DOMAIN heap BY <1>4, LenProperties
            <3> QED BY <1>7, <3>2, <3>4, <3>5
      <2> QED BY <2>1, <2>2
<1>13. D \in Seq(Record) /\ T \in [Addresses -> 0..Len(D)]
      BY <1>3, <1>5
<1>14. \A i \in 1..Len(heap) : heap[i].at # e.at
      BY <1>6, <1>8
<1>15. ASSUME ~misused PROVE NoneLost(heap', T, D)
      <2>1. NoneLost(heap, task, data) BY <1>15 DEF LoopInv
      <2>2. ASSUME NEW id \in 1..(n + 1)
            PROVE  \/ D[id].cleared \/ (D[id].fired /\ ~D[id].repeats)
                   \/ WaitsIn(heap', T, id)
            <3>1. CASE id = n + 1
                  <4>1. id = T[e.at] BY <1>5, <1>8, <3>1
                  <4>2. WaitsIn(heap', T, id) BY <1>4, <1>7, <1>8, <4>1, PutWaits
                  <4> QED BY <4>2
            <3>2. CASE id \in 1..n /\ WaitsIn(heap, task, id)
                  <4>1. WaitsIn(heap, T, id) BY <1>6, <3>2 DEF WaitsIn
                  <4>2. WaitsIn(heap', T, id) BY <1>4, <1>7, <1>8, <4>1, PutWaits
                  <4> QED BY <4>2
            <3>3. CASE id \in 1..n /\ ~WaitsIn(heap, task, id)
                  BY <1>1, <1>3, <2>1, <3>3 DEF NoneLost
            <3> QED BY <3>1, <3>2, <3>3
      <2> HIDE DEF D, T
      <2> QED BY <1>3, <2>2 DEF NoneLost
<1> HIDE DEF D, T, e
<1>16. HeapGood(Put(heap, k, e), T, D)
      BY <1>4, <1>8, <1>10, <1>11, <1>12, <1>13, <1>14, PutGood
<1>17. D[n + 1].rooted /\ ~D[n + 1].fired
      BY <1>3 DEF Datum
<1>18. queueEnd' = a /\ status' \in {"running", "undefined"} /\ a # None
      BY NoAddress DEF Start, Link
<1>19. QueueGood(heap', T, running, a, D)
      <2>1. ~LastIsDone(D) BY <1>3, <1>17 DEF LastIsDone
      <2>2. \A b \in Addresses : T[b] = n + 1 => b = a BY <1>4, <1>5
      <2> QED BY <1>3, <1>5, <1>18, <2>1, <2>2 DEF QueueGood
<1> QED BY <1>1, <1>3, <1>4, <1>5, <1>7, <1>9, <1>13, <1>15, <1>16, <1>17, <1>18, <1>19 DEF D, T

\* A task more: what TasksGood and HandlesGood need of Start.
LEMMA StartGood ==
    ASSUME LoopInv, NEW a \in Addresses, NEW d \in 0..MaxDelay, NEW r \in BOOLEAN,
           Start(a, d, r), UNCHANGED <<running>>
    PROVE  /\ TasksGood'
           /\ \A t \in Timers : handle[t] # None =>
                 /\ mine[t] # 0
                 /\ \/ task'[handle[t]] = mine[t]
                    \/ data'[mine[t]].fired /\ ~data'[mine[t]].repeats
<1>1. PICK n \in Nat : n = Len(data)
      BY LenProperties DEF LoopInv, LoopTypeOK
<1>2. /\ \A i \in 1..n : data'[i] = data[i]
      /\ data'[n + 1].rooted
      /\ task[a] = 0 /\ task'[a] = n + 1
      /\ \A b \in Addresses \ {a} : task'[b] = task[b]
      BY <1>1, StartFacts
<1>3. /\ task \in [Addresses -> 0..n] /\ running \in Addresses \cup {None}
      /\ handle \in [Timers -> Addresses \cup {None}] /\ mine \in [Timers -> 0..n]
      BY <1>1 DEF LoopInv, LoopTypeOK
<1>4. ASSUME NEW b \in Addresses, task'[b] # 0 PROVE data'[task'[b]].rooted
      BY <1>2, <1>3, <1>4 DEF LoopInv, TasksGood
<1>5. ASSUME NEW b \in Addresses, NEW c \in Addresses, task'[b] # 0, task'[b] = task'[c]
      PROVE  b = c
      <2>1. CASE b = a \/ c = a
            BY <1>2, <1>3, <1>5, <2>1
      <2>2. CASE b # a /\ c # a
            BY <1>2, <1>5, <2>2 DEF LoopInv, TasksGood
      <2> QED BY <2>1, <2>2
<1>6. running' # None => task'[running'] # 0 /\ data'[task'[running']].fired
      <2>1. SUFFICES ASSUME running # None
                     PROVE  task'[running] # 0 /\ data'[task'[running]].fired
            OBVIOUS
      <2>2. task[running] # 0 /\ data[task[running]].fired
            BY <2>1 DEF LoopInv, TasksGood
      <2> QED BY <1>2, <1>3, <2>1, <2>2
<1>7. ASSUME NEW t \in Timers, handle[t] # None
      PROVE  /\ mine[t] # 0
             /\ \/ task'[handle[t]] = mine[t]
                \/ data'[mine[t]].fired /\ ~data'[mine[t]].repeats
      <2>1. /\ mine[t] # 0
            /\ \/ task[handle[t]] = mine[t]
               \/ data[mine[t]].fired /\ ~data[mine[t]].repeats
            BY <1>7 DEF LoopInv, HandlesGood
      <2>2. mine[t] \in 1..n /\ handle[t] \in Addresses
            BY <1>3, <1>7, <2>1
      <2> QED BY <1>2, <2>1, <2>2
<1> QED BY <1>4, <1>5, <1>6, <1>7 DEF TasksGood

\* _ejs_runloop_add_task.
LEMMA AddTaskInv ==
    ASSUME LoopInv, NEW a \in Addresses, AddTask(a)
    PROVE  LoopInv'
<1>1. Start(a, 0, FALSE) /\ 0 \in 0..MaxDelay
      <2>1. Start(a, 0, FALSE) BY DEF AddTask
      <2>2. 0 \in 0..MaxDelay BY LoopBounds
      <2> QED BY <2>1, <2>2
<1>2. UNCHANGED <<running, script, handle, mine, misused>>
      BY DEF AddTask
<1>3. PICK n \in Nat : n = Len(data)
      BY LenProperties DEF LoopInv, LoopTypeOK
<1>4. /\ data' \in Seq(Record) /\ Len(data') = n + 1
      /\ task' \in [Addresses -> 0..Len(data')]
      /\ heap' \in Seq(Slots)
      /\ queueEnd' \in Addresses \cup {None} /\ status' \in {"running", "undefined"}
      /\ HeapGood(heap', task', data')
      /\ misused \/ NoneLost(heap', task', data')
      /\ QueueGood(heap', task', running, queueEnd', data')
      BY <1>1, <1>3, StartFacts
<1>5. LoopTypeOK'
      <2>1. mine' \in [Timers -> 0..(n + 1)] BY <1>2, <1>3 DEF LoopInv, LoopTypeOK
      <2> QED BY <1>2, <1>4, <2>1 DEF LoopInv, LoopTypeOK
<1>6. TasksGood' /\ HandlesGood'
      BY <1>1, <1>2, StartGood DEF HandlesGood
<1> QED BY <1>2, <1>4, <1>5, <1>6 DEF LoopInv

\* setTimeout and setInterval.
LEMMA SetTimerInv ==
    ASSUME LoopInv, NEW t \in Timers, NEW a \in Addresses, NEW d \in 0..MaxDelay,
           NEW r \in BOOLEAN, SetTimer(t, a, d, r)
    PROVE  LoopInv'
<1>1. Start(a, AtLeastOne(d), r) /\ AtLeastOne(d) \in 0..MaxDelay
      BY LoopBounds DEF SetTimer, AtLeastOne
<1>2. /\ UNCHANGED <<running, script, misused>>
      /\ handle' = [handle EXCEPT ![t] = a]
      /\ mine' = [mine EXCEPT ![t] = Len(data) + 1]
      BY DEF SetTimer
<1>3. PICK n \in Nat : n = Len(data)
      BY LenProperties DEF LoopInv, LoopTypeOK
<1>4. /\ data' \in Seq(Record) /\ Len(data') = n + 1
      /\ task' \in [Addresses -> 0..Len(data')] /\ task'[a] = n + 1
      /\ heap' \in Seq(Slots)
      /\ queueEnd' \in Addresses \cup {None} /\ status' \in {"running", "undefined"}
      /\ HeapGood(heap', task', data')
      /\ misused \/ NoneLost(heap', task', data')
      /\ QueueGood(heap', task', running, queueEnd', data')
      BY <1>1, <1>3, StartFacts
<1>5. LoopTypeOK'
      <2>1. mine' \in [Timers -> 0..(n + 1)] BY <1>2, <1>3 DEF LoopInv, LoopTypeOK
      <2>2. handle' \in [Timers -> Addresses \cup {None}]
            BY <1>2 DEF LoopInv, LoopTypeOK
      <2> QED BY <1>2, <1>4, <2>1, <2>2 DEF LoopInv, LoopTypeOK
<1>6. /\ TasksGood'
      /\ \A u \in Timers : handle[u] # None =>
            /\ mine[u] # 0
            /\ \/ task'[handle[u]] = mine[u]
               \/ data'[mine[u]].fired /\ ~data'[mine[u]].repeats
      BY <1>1, <1>2, StartGood
<1>7. HandlesGood'
      <2>1. handle'[t] = a /\ mine'[t] = n + 1 /\ task'[a] = n + 1
            BY <1>2, <1>3, <1>4 DEF LoopInv, LoopTypeOK
      <2>2. \A u \in Timers \ {t} : handle'[u] = handle[u] /\ mine'[u] = mine[u]
            BY <1>2 DEF LoopInv, LoopTypeOK
      <2>3. n + 1 # 0 OBVIOUS
      <2> QED BY <1>6, <2>1, <2>2, <2>3 DEF HandlesGood
<1> QED BY <1>2, <1>4, <1>5, <1>6, <1>7 DEF LoopInv

\* The entry at an address is the only one for its task.
LEMMA OtherEntries ==
    ASSUME LoopInv, NEW a \in Addresses, task[a] # 0,
           NEW w \in Seq(Slots), Less(heap, w, a)
    PROVE  \A i \in 1..Len(w) :
               w[i].at \in Addresses \ {a} /\ task[w[i].at] # task[a]
<1>1. ASSUME NEW i \in 1..Len(w)
      PROVE  w[i].at \in Addresses \ {a} /\ task[w[i].at] # task[a]
      <2>1. heap \in Seq(Slots) BY DEF LoopInv, LoopTypeOK
      <2>2. w[i].at # a BY <2>1, LessAway
      <2>3. w[i] \in Slots BY ElementOfSeq
      <2>4. w[i].at \in Addresses BY <2>3 DEF Slots
      <2> QED BY <2>2, <2>4 DEF LoopInv, TasksGood
<1> QED BY <1>1

\* clearTimeout and clearInterval, of a task that is there and of one that is not.
LEMMA ClearTimerInv ==
    ASSUME LoopInv, NEW t \in Timers, ClearTimer(t)
    PROVE  LoopInv'
<1> DEFINE w == Without(heap, handle[t])
<1>1. /\ handle[t] # None /\ handle' = [handle EXCEPT ![t] = None]
      /\ UNCHANGED <<task, running, script, queueEnd, status, mine>>
      BY DEF ClearTimer
<1>2. PICK n \in Nat : n = Len(data)
      BY LenProperties DEF LoopInv, LoopTypeOK
<1>3. /\ handle[t] \in Addresses /\ heap \in Seq(Slots) /\ data \in Seq(Record)
      /\ task \in [Addresses -> 0..n] /\ mine \in [Timers -> 0..n]
      /\ handle \in [Timers -> Addresses \cup {None}]
      BY <1>1, <1>2 DEF LoopInv, LoopTypeOK
<1>4. w \in Seq(Slots) /\ Less(heap, w, handle[t])
      BY <1>3, WithoutIsLess DEF LoopInv, HeapGood
<1>5. HeapGood(w, task, data)
      BY <1>3, <1>4, LessGood DEF LoopInv
<1> HIDE DEF w
<1>6. /\ handle' \in [Timers -> Addresses \cup {None}]
      /\ \A u \in Timers : handle'[u] # None => handle'[u] = handle[u]
      BY <1>1, <1>3
<1>7. /\ \A i \in 1..Len(w) : /\ task[w[i].at] \in 1..n
                               /\ \E j \in 1..Len(heap) : task[w[i].at] = task[heap[j].at]
      /\ running # None => task[running] # 0
      <2>1. \A i \in 1..Len(w) : \E j \in 1..Len(heap) : w[i] = heap[j]
            BY <1>3, <1>4, LessIn
      <2>2. \A i \in 1..Len(w) : task[w[i].at] \in 1..n
            BY <1>2, <1>3, <1>4, <1>5, WaitingTyped
      <2> QED BY <2>1, <2>2 DEF LoopInv, TasksGood
<1>8. CASE /\ task[handle[t]] = mine[t]
           /\ heap' = w
           /\ data' = [data EXCEPT ![mine[t]].cleared = TRUE]
           /\ UNCHANGED misused
      <2> DEFINE id == mine[t]
                 r  == [data[id] EXCEPT !.cleared = TRUE]
      <2>1. id # 0 BY <1>1 DEF LoopInv, HandlesGood
      <2>2. id \in 1..n BY <1>3, <2>1
      <2>3. data[id] \in Record BY <1>2, <1>3, <2>2, ElementOfSeq
      <2>4. r \in Record BY <2>3 DEF Record
      <2>5. r.cleared /\ r.fired = data[id].fired /\ r.repeats = data[id].repeats
            /\ r.rooted = data[id].rooted
            BY <2>3 DEF Record
      <2>6. data' = [data EXCEPT ![id] = r] BY <1>8
      <2> HIDE DEF r
      <2>7. /\ data' \in Seq(Record) /\ Len(data') = n /\ data'[id] = r
            /\ \A i \in 1..n : i # id => data'[i] = data[i]
            BY <1>2, <1>3, <2>2, <2>4, <2>6, UpdateFacts
      <2>8. LoopTypeOK'
            BY <1>1, <1>2, <1>3, <1>4, <1>6, <1>8, <2>7 DEF LoopInv, LoopTypeOK
      <2>9. HeapGood(w, task, data')
            <3>1. task[handle[t]] # 0 BY <1>8, <2>1
            <3>2. ASSUME NEW i \in 1..Len(w) PROVE data'[task[w[i].at]] = data[task[w[i].at]]
                  <4>1. task[w[i].at] # id BY <1>3, <1>4, <1>8, <3>1, OtherEntries
                  <4>2. task[w[i].at] \in 1..n BY <1>2, <1>3, <1>4, <1>5, WaitingTyped
                  <4> QED BY <2>7, <4>1, <4>2
            <3> QED BY <1>5, <3>2, FrameGood
      <2>10. \A i \in 1..n : /\ data'[i].fired = data[i].fired
                             /\ data'[i].repeats = data[i].repeats
                             /\ data'[i].rooted = data[i].rooted
            BY <2>2, <2>5, <2>7
      <2>11. TasksGood'
            <3>1. ASSUME NEW a \in Addresses, task[a] # 0 PROVE data'[task[a]].rooted
                  <4>1. data[task[a]].rooted BY <3>1 DEF LoopInv, TasksGood
                  <4>2. task[a] \in 1..n BY <1>3, <3>1
                  <4> QED BY <2>10, <4>1, <4>2
            <3>2. running # None => task[running] # 0 /\ data'[task[running]].fired
                  <4>1. SUFFICES ASSUME running # None
                                 PROVE  task[running] # 0 /\ data'[task[running]].fired
                        OBVIOUS
                  <4>2. running \in Addresses BY <4>1 DEF LoopInv, LoopTypeOK
                  <4>3. task[running] # 0 /\ data[task[running]].fired
                        BY <4>1 DEF LoopInv, TasksGood
                  <4>4. task[running] \in 1..n BY <1>3, <4>2, <4>3
                  <4> QED BY <2>10, <4>3, <4>4
            <3> QED BY <1>1, <3>1, <3>2 DEF LoopInv, TasksGood
      <2>12. HandlesGood'
            <3>1. ASSUME NEW u \in Timers, handle'[u] # None
                  PROVE  /\ mine[u] # 0
                         /\ \/ task[handle'[u]] = mine[u]
                            \/ data'[mine[u]].fired /\ ~data'[mine[u]].repeats
                  <4>1. /\ mine[u] # 0 /\ handle'[u] = handle[u]
                        /\ \/ task[handle[u]] = mine[u]
                           \/ data[mine[u]].fired /\ ~data[mine[u]].repeats
                        BY <1>6, <3>1 DEF LoopInv, HandlesGood
                  <4>2. mine[u] \in 1..n BY <1>3, <4>1
                  <4> QED BY <2>10, <4>1, <4>2
            <3> QED BY <1>1, <3>1 DEF HandlesGood
      <2>13. misused \/ NoneLost(w, task, data')
            <3>1. SUFFICES ASSUME NoneLost(heap, task, data) PROVE NoneLost(w, task, data')
                  BY DEF LoopInv
            <3>2. ASSUME NEW i \in 1..n
                  PROVE  \/ data'[i].cleared \/ (data'[i].fired /\ ~data'[i].repeats)
                         \/ WaitsIn(w, task, i)
                  <4>1. CASE i = id BY <2>5, <2>7, <4>1
                  <4>2. CASE i # id
                        <5>1. \/ data[i].cleared \/ (data[i].fired /\ ~data[i].repeats)
                              \/ WaitsIn(heap, task, i)
                              BY <1>2, <3>1 DEF NoneLost
                        <5>2. WaitsIn(heap, task, i) => WaitsIn(w, task, i)
                              BY <1>3, <1>4, <1>8, <4>2, LessWaits
                        <5> QED BY <2>7, <4>2, <5>1, <5>2
                  <4> QED BY <4>1, <4>2
            <3> QED BY <2>7, <3>2 DEF NoneLost
      <2>14. data'[id].delay = data[id].delay BY <2>3, <2>7 DEF r, Record
      <2>15. QueueGood(w, task, running, queueEnd, data')
            <3>1. \A i \in 1..n : data'[i].delay = data[i].delay BY <2>2, <2>7, <2>14
            <3> QED BY <1>2, <1>3, <1>7, <2>7, <2>10, <3>1, QueueKept
      <2> QED BY <1>1, <1>8, <2>8, <2>9, <2>11, <2>12, <2>13, <2>15 DEF LoopInv
<1>9. CASE /\ heap' \in {heap, w}
           /\ misused' = TRUE
           /\ UNCHANGED data
      <2>1. LoopTypeOK'
            BY <1>1, <1>3, <1>4, <1>6, <1>9 DEF LoopInv, LoopTypeOK
      <2>2. HeapGood(heap', task, data)
            BY <1>5, <1>9 DEF LoopInv
      <2>3. TasksGood'
            BY <1>1, <1>9 DEF LoopInv, TasksGood
      <2>4. HandlesGood'
            BY <1>1, <1>6, <1>9 DEF LoopInv, HandlesGood
      <2>5. QueueGood(w, task, running, queueEnd, data)
            BY <1>2, <1>3, <1>7, QueueKept
      <2>6. QueueGood(heap', task, running, queueEnd, data)
            BY <1>9, <2>5 DEF LoopInv
      <2> QED BY <1>1, <1>9, <2>1, <2>2, <2>3, <2>4, <2>6 DEF LoopInv
<1> QED BY <1>8, <1>9 DEF ClearTimer, w

\* The loop runs the first timer; an interval is started again before the call.
LEMMA FireInv ==
    ASSUME LoopInv, Fire
    PROVE  LoopInv'
<1> DEFINE a  == heap[1].at
           id == task[a]
           w  == Tail(heap)
           D  == data'
           e  == Entry(a, data[id].delay)
<1>1. PICK n \in Nat : n = Len(data)
      BY LenProperties DEF LoopInv, LoopTypeOK
<1>2. /\ heap # <<>> /\ running' = a
      /\ UNCHANGED <<task, script, handle, queueEnd, status, mine, misused>>
      BY DEF Fire
<1>3. /\ heap \in Seq(Slots) /\ data \in Seq(Record)
      /\ task \in [Addresses -> 0..n] /\ mine \in [Timers -> 0..n]
      BY <1>1 DEF LoopInv, LoopTypeOK
<1>4. 1 \in 1..Len(heap)
      BY <1>2, <1>3, EmptySeq
<1>5. a \in Addresses /\ id \in 1..n /\ data[id] \in Record
      BY <1>1, <1>3, <1>4, WaitingTyped DEF LoopInv
<1>6. MayRun(heap[1], task, data)
      BY <1>4 DEF LoopInv, HeapGood
<1>7. w \in Seq(Slots) /\ Less(heap, w, a)
      BY <1>2, <1>3, TailIsLess DEF LoopInv, HeapGood
<1>8. HeapGood(w, task, data)
      BY <1>3, <1>7, LessGood DEF LoopInv
<1>9. /\ D \in Seq(Record) /\ Len(D) = n
      /\ D[id].fired /\ D[id].cleared = data[id].cleared /\ D[id].rooted = data[id].rooted
      /\ D[id].repeats = data[id].repeats /\ D[id].delay = data[id].delay
      /\ \A i \in 1..n : i # id => D[i] = data[i]
      <2> DEFINE r == [data[id] EXCEPT !.fired = TRUE]
      <2>1. r \in Record BY <1>5 DEF Record
      <2>2. /\ r.fired /\ r.cleared = data[id].cleared /\ r.rooted = data[id].rooted
            /\ r.repeats = data[id].repeats /\ r.delay = data[id].delay
            BY <1>5 DEF Record
      <2>3. D = [data EXCEPT ![id] = r] BY DEF Fire, Id
      <2> HIDE DEF r
      <2>4. /\ D \in Seq(Record) /\ Len(D) = n /\ D[id] = r
            /\ \A i \in 1..n : i # id => D[i] = data[i]
            BY <1>1, <1>3, <1>5, <2>1, <2>3, UpdateFacts
      <2> QED BY <2>2, <2>4
<1>10. ASSUME NEW i \in 1..Len(w)
       PROVE  w[i].at # a /\ D[task[w[i].at]] = data[task[w[i].at]]
      <2>1. w[i].at # a /\ task[w[i].at] # id
            <3>1. task[a] # 0 BY <1>5
            <3> HIDE DEF w
            <3> QED BY <1>5, <1>7, <3>1, OtherEntries
      <2>2. task[w[i].at] \in 1..n
            BY <1>1, <1>3, <1>7, <1>8, WaitingTyped
      <2> QED BY <1>9, <2>1, <2>2
<1> HIDE DEF D, w
<1>11. HeapGood(w, task, D)
      BY <1>8, <1>10, FrameGood
<1>12. e \in Slots /\ e.at = a /\ e.delay = data[id].delay
      BY <1>5 DEF Entry, Slots, Record
<1>13. \/ ~data[id].repeats /\ heap' = w
       \/ data[id].repeats /\ \E k \in 0..Len(w) : heap' = Put(w, k, e)
      BY DEF Fire, Rearmed, Inserted, w
<1>14. MayRun(e, task, D) \/ ~data[id].repeats
      <2>1. data[id].delay <= D[id].delay
            <3>1. data[id].delay \in Nat BY ONLY <1>5, LoopBounds DEF Record
            <3> QED BY ONLY <1>9, <3>1
      <2>2. id # 0 /\ ~D[id].cleared /\ D[id].repeats = data[id].repeats
            BY <1>5, <1>6, <1>9 DEF MayRun
      <2> QED BY <1>12, <2>1, <2>2 DEF MayRun
<1> HIDE DEF e, id, a
<1>15. heap' \in Seq(Slots) /\ HeapGood(heap', task, D)
      <2>1. CASE heap' = w BY <1>7, <1>11, <2>1
      <2>2. CASE data[id].repeats /\ \E k \in 0..Len(w) : heap' = Put(w, k, e)
            <3>1. PICK k \in 0..Len(w) : heap' = Put(w, k, e) BY <2>2
            <3>2. \A i \in 1..Len(w) : w[i].at # e.at BY <1>10, <1>12
            <3>3. D[task[e.at]].fired BY <1>9, <1>12 DEF id
            <3>4. D \in Seq(Record) /\ task \in [Addresses -> 0..Len(D)] BY <1>3, <1>9
            <3>5. HeapGood(Put(w, k, e), task, D)
                  BY <1>7, <1>11, <1>12, <1>14, <2>2, <3>2, <3>3, <3>4, PutGood
            <3>6. Put(w, k, e) \in Seq(Slots) BY <1>7, <1>12, PutFacts
            <3> QED BY <3>1, <3>5, <3>6
      <2> QED BY <1>13, <2>1, <2>2
<1>16. LoopTypeOK'
      <2>1. /\ task' \in [Addresses -> 0..Len(D)] /\ mine' \in [Timers -> 0..Len(D)]
            BY <1>2, <1>3, <1>9
      <2> QED BY <1>2, <1>5, <1>9, <1>15, <2>1 DEF LoopInv, LoopTypeOK, D
<1>17. \A i \in 1..n : /\ data[i].fired => D[i].fired
                       /\ D[i].repeats = data[i].repeats
                       /\ D[i].rooted = data[i].rooted /\ D[i].cleared = data[i].cleared
      BY <1>9
<1>18. TasksGood'
      <2>1. \A b \in Addresses : task[b] # 0 => D[task[b]].rooted
            BY <1>3, <1>17 DEF LoopInv, TasksGood
      <2>2. task[a] # 0 /\ D[task[a]].fired
            BY <1>5, <1>9 DEF id
      <2> QED BY <1>2, <2>1, <2>2 DEF LoopInv, TasksGood, D
<1>19. HandlesGood'
      <2>1. ASSUME NEW u \in Timers, handle[u] # None
            PROVE  /\ mine[u] # 0
                   /\ \/ task[handle[u]] = mine[u]
                      \/ D[mine[u]].fired /\ ~D[mine[u]].repeats
            <3>1. /\ mine[u] # 0
                  /\ \/ task[handle[u]] = mine[u]
                     \/ data[mine[u]].fired /\ ~data[mine[u]].repeats
                  BY <2>1 DEF LoopInv, HandlesGood
            <3>2. mine[u] \in 1..n BY <1>3, <3>1
            <3> QED BY <1>17, <3>1, <3>2
      <2> QED BY <1>2, <2>1 DEF HandlesGood, D
<1>20. misused \/ NoneLost(heap', task, D)
      <2>1. SUFFICES ASSUME NoneLost(heap, task, data) PROVE NoneLost(heap', task, D)
            BY DEF LoopInv
      <2>2. ASSUME NEW i \in 1..n
            PROVE  D[i].cleared \/ (D[i].fired /\ ~D[i].repeats) \/ WaitsIn(heap', task, i)
            <3>1. CASE i = id /\ ~data[id].repeats BY <1>9, <3>1
            <3>2. CASE i = id /\ data[id].repeats
                  <4>1. PICK k \in 0..Len(w) : heap' = Put(w, k, e) BY <1>13, <3>2
                  <4>2. i = task[e.at] BY <1>12, <3>2 DEF id
                  <4>3. WaitsIn(Put(w, k, e), task, i) BY <1>7, <1>12, <4>2, PutWaits
                  <4> QED BY <4>1, <4>3
            <3>3. CASE i # id
                  <4>1. \/ data[i].cleared \/ (data[i].fired /\ ~data[i].repeats)
                        \/ WaitsIn(heap, task, i)
                        BY <1>1, <2>1 DEF NoneLost
                  <4>2. ASSUME WaitsIn(heap, task, i) PROVE WaitsIn(heap', task, i)
                        <5>1. WaitsIn(w, task, i)
                              BY <1>3, <1>7, <3>3, <4>2, LessWaits DEF id
                        <5>2. ASSUME NEW k \in 0..Len(w), heap' = Put(w, k, e)
                              PROVE  WaitsIn(heap', task, i)
                              BY <1>7, <1>12, <5>1, <5>2, PutWaits
                        <5> QED BY <1>13, <5>1, <5>2
                  <4> QED BY <1>9, <3>3, <4>1, <4>2
            <3> QED BY <3>1, <3>2, <3>3
      <2> QED BY <1>9, <2>2 DEF NoneLost
<1>21. QueueGood(heap', task, a, queueEnd, D)
      <2>1. /\ Len(D) = 0 <=> queueEnd = None
            /\ \A b \in Addresses : task[b] # 0 /\ task[b] = Len(D) => b = queueEnd
            /\ queueEnd # None =>
                  task[queueEnd] = Len(D) \/ (task[queueEnd] = 0 /\ LastIsDone(data))
            BY <1>1, <1>9 DEF LoopInv, QueueGood
      <2>2. LastIsDone(data) => LastIsDone(D)
            BY <1>1, <1>9, <1>17 DEF LastIsDone
      <2>3. n # 0 BY <1>5
      <2>4. ASSUME LastIsDone(D), NEW i \in 1..Len(heap)
            PROVE  Later(D, task[heap[i].at]) \/ (task[heap[i].at] = id /\ id = n)
            <3>1. task[heap[i].at] \in 1..n /\ data[task[heap[i].at]] \in Record
                  BY <1>1, <1>3, WaitingTyped DEF LoopInv
            <3>2. \A x \in 1..n : D[x].delay = data[x].delay /\ D[x].repeats = data[x].repeats
                  BY <1>9
            <3>3. CASE LastIsDone(data)
                  <4>1. Later(data, task[heap[i].at]) BY <3>3 DEF LoopInv, QueueGood
                  <4> QED BY <1>1, <1>9, <2>3, <3>1, <3>2, <4>1 DEF Later
            <3>4. CASE ~LastIsDone(data)
                  <4>1. id = n /\ ~data[n].repeats BY <1>1, <1>9, <2>3, <2>4, <3>4 DEF LastIsDone
                  <4>2. ~data[n].fired BY <1>6, <4>1 DEF MayRun, id, a
                  <4>3. CASE task[heap[i].at] = n BY <4>1, <4>3
                  <4>4. CASE task[heap[i].at] # n /\ data[task[heap[i].at]].repeats
                        BY <3>1, <3>2, <4>4 DEF Later
                  <4>5. CASE task[heap[i].at] # n /\ ~data[task[heap[i].at]].repeats
                        <5>1. ~data[task[heap[i].at]].fired
                              BY <4>5 DEF LoopInv, HeapGood, MayRun
                        <5>2. ~Before(heap[i], heap[1], task, data)
                              <6>1. ~(i < 1) OBVIOUS
                              <6> QED BY <1>4, <6>1 DEF LoopInv, HeapGood
                        <5>3. task[heap[i].at] < n BY ONLY <3>1, <4>5, n \in Nat
                        <5>4. ~(data[task[heap[i].at]].delay <= data[n].delay)
                              BY <4>1, <4>2, <5>1, <5>2, <5>3 DEF Before, id, a
                        <5>5. PICK x, y : x = data[task[heap[i].at]].delay /\ y = data[n].delay
                              OBVIOUS
                        <5>6. x \in Nat /\ y \in Nat
                              BY <1>5, <3>1, <4>1, <5>5, LoopBounds DEF Record
                        <5>7. x > y
                              <6>1. ~(x <= y) BY <5>4, <5>5
                              <6> QED BY ONLY <5>6, <6>1
                        <5> QED BY <1>9, <2>3, <3>1, <3>2, <5>5, <5>7 DEF Later
                  <4> QED BY <4>3, <4>4, <4>5
            <3> QED BY <3>3, <3>4
      <2>5. ASSUME LastIsDone(D), NEW i \in 1..Len(w) PROVE Later(D, task[w[i].at])
            <3>1. PICK j \in 1..Len(heap) : w[i] = heap[j] BY <1>3, <1>7, LessIn
            <3>2. task[w[i].at] # id
                  <4>1. task[a] # 0 /\ a \in Addresses BY <1>5 DEF id, a
                  <4> QED BY <1>7, <4>1, OtherEntries DEF id
            <3> QED BY <2>4, <2>5, <3>1, <3>2
      <2>6. ASSUME LastIsDone(D), data[id].repeats PROVE Later(D, id)
            BY <1>9, <2>6 DEF Later
      <2>7. ASSUME LastIsDone(D), NEW i \in 1..Len(heap') PROVE Later(D, task[heap'[i].at])
            <3>1. CASE heap' = w BY <2>5, <2>7, <3>1
            <3>2. CASE data[id].repeats /\ \E k \in 0..Len(w) : heap' = Put(w, k, e)
                  <4>1. PICK k \in 0..Len(w) : heap' = Put(w, k, e) BY <3>2
                  <4>2. heap'[i] = e \/ \E j \in 1..Len(w) : heap'[i] = w[j]
                        BY <1>7, <1>12, <2>7, <4>1, PutIn
                  <4> QED BY <1>12, <2>5, <2>6, <2>7, <3>2, <4>2 DEF id
            <3> QED BY <1>13, <3>1, <3>2
      <2>8. LastIsDone(D) => task[a] = Len(D) \/ Later(D, task[a])
            BY <1>4, <1>9, <2>4 DEF id, a
      <2> QED BY <2>1, <2>2, <2>7, <2>8 DEF QueueGood
<1> QED BY <1>2, <1>15, <1>16, <1>18, <1>19, <1>20, <1>21 DEF LoopInv, D

\* The rest of invoke_task after the callback of a task that does not repeat.
LEMMA FinishInv ==
    ASSUME LoopInv, Finish
    PROVE  LoopInv'
<1>1. PICK a \in Addresses : a = running
      BY DEF Finish, Returns, LoopInv, LoopTypeOK
<1>2. PICK n \in Nat : n = Len(data)
      BY LenProperties DEF LoopInv, LoopTypeOK
<1>3. /\ heap \in Seq(Slots) /\ data \in Seq(Record)
      /\ task \in [Addresses -> 0..n] /\ mine \in [Timers -> 0..n]
      /\ handle \in [Timers -> Addresses \cup {None}]
      BY <1>2 DEF LoopInv, LoopTypeOK
<1>4. PICK id : id = task[a]
      OBVIOUS
<1>5. task[a] # 0 /\ id \in 1..n /\ data[id].fired /\ ~data[id].repeats
      BY <1>1, <1>3, <1>4 DEF LoopInv, TasksGood, Finish, Returns
<1> DEFINE w == Without(heap, a)
           r == [data[id] EXCEPT !.rooted = FALSE]
           D == data'
           T == task'
<1>6. /\ D = [data EXCEPT ![id] = r] /\ heap' = w
      /\ T = [task EXCEPT ![a] = 0] /\ running' = None
      /\ UNCHANGED <<script, handle, queueEnd, status, mine, misused>>
      BY <1>1, <1>4 DEF Finish, Destroyed
<1>7. data[id] \in Record
      BY <1>2, <1>3, <1>5, ElementOfSeq
<1>8. /\ r \in Record /\ r.fired = data[id].fired /\ r.repeats = data[id].repeats
      /\ r.cleared = data[id].cleared
      BY <1>7 DEF Record
<1> HIDE DEF r
<1>9. /\ D \in Seq(Record) /\ Len(D) = n /\ D[id] = r
      /\ \A i \in 1..n : i # id => D[i] = data[i]
      BY <1>2, <1>3, <1>5, <1>6, <1>8, UpdateFacts
<1>10. w \in Seq(Slots) /\ Less(heap, w, a)
      BY <1>3, WithoutIsLess DEF LoopInv, HeapGood
<1>11. T \in [Addresses -> 0..n] /\ T[a] = 0 /\ \A b \in Addresses \ {a} : T[b] = task[b]
      BY <1>3, <1>6
<1> HIDE DEF D, T, w
<1>12. HeapGood(w, task, data)
      BY <1>3, <1>10, LessGood DEF LoopInv
<1>13. \A i \in 1..Len(w) : w[i].at \in Addresses \ {a} /\ task[w[i].at] # id
      BY <1>4, <1>5, <1>10, OtherEntries
<1>14. ASSUME NEW i \in 1..Len(w)
       PROVE  T[w[i].at] = task[w[i].at] /\ D[task[w[i].at]] = data[task[w[i].at]]
      <2>1. task[w[i].at] \in 1..n BY <1>2, <1>3, <1>10, <1>12, WaitingTyped
      <2> QED BY <1>9, <1>11, <1>13, <2>1
<1>15. HeapGood(w, T, D)
      BY <1>12, <1>14, FrameGood
<1>16. LoopTypeOK'
      <2>1. task' \in [Addresses -> 0..Len(data')] /\ mine' \in [Timers -> 0..Len(data')]
            BY <1>3, <1>6, <1>9, <1>11 DEF D, T
      <2> QED BY <1>6, <1>9, <1>10, <2>1 DEF LoopInv, LoopTypeOK, D
<1>17. \A i \in 1..n : /\ D[i].fired = data[i].fired /\ D[i].repeats = data[i].repeats
                       /\ D[i].cleared = data[i].cleared
      BY <1>8, <1>9
<1>18. TasksGood'
      <2>1. ASSUME NEW b \in Addresses, T[b] # 0 PROVE D[T[b]].rooted
            <3>1. b # a /\ T[b] = task[b] BY <1>11, <2>1
            <3>2. task[b] # id /\ data[task[b]].rooted
                  BY <1>4, <1>5, <2>1, <3>1 DEF LoopInv, TasksGood
            <3>3. task[b] \in 1..n BY <1>3, <2>1, <3>1
            <3> QED BY <1>9, <3>1, <3>2, <3>3
      <2>2. ASSUME NEW b \in Addresses, NEW c \in Addresses, T[b] # 0, T[b] = T[c] PROVE b = c
            <3>1. b # a /\ c # a /\ task[b] = T[b] /\ task[c] = T[c] BY <1>11, <2>2
            <3> QED BY <2>2, <3>1 DEF LoopInv, TasksGood
      <2> QED BY <1>6, <2>1, <2>2 DEF TasksGood, D, T
<1>19. HandlesGood'
      <2>1. ASSUME NEW u \in Timers, handle[u] # None
            PROVE  /\ mine[u] # 0
                   /\ \/ T[handle[u]] = mine[u]
                      \/ D[mine[u]].fired /\ ~D[mine[u]].repeats
            <3>1. /\ mine[u] # 0
                  /\ \/ task[handle[u]] = mine[u]
                     \/ data[mine[u]].fired /\ ~data[mine[u]].repeats
                  BY <2>1 DEF LoopInv, HandlesGood
            <3>2. mine[u] \in 1..n /\ handle[u] \in Addresses BY <1>3, <2>1, <3>1
            <3>3. CASE handle[u] = a /\ task[a] = mine[u]
                  BY <1>4, <1>5, <1>17, <3>1, <3>3
            <3>4. CASE handle[u] # a /\ task[handle[u]] = mine[u]
                  BY <1>11, <3>1, <3>2, <3>4
            <3>5. CASE data[mine[u]].fired /\ ~data[mine[u]].repeats
                  BY <1>17, <3>1, <3>2, <3>5
            <3> QED BY <3>1, <3>3, <3>4, <3>5
      <2> QED BY <1>6, <2>1 DEF HandlesGood, D, T
<1>20. misused \/ NoneLost(w, T, D)
      <2>1. SUFFICES ASSUME NoneLost(heap, task, data) PROVE NoneLost(w, T, D)
            BY DEF LoopInv
      <2>2. ASSUME NEW i \in 1..n
            PROVE  D[i].cleared \/ (D[i].fired /\ ~D[i].repeats) \/ WaitsIn(w, T, i)
            <3>1. CASE i = id BY <1>5, <1>17, <3>1
            <3>2. CASE i # id
                  <4>1. \/ data[i].cleared \/ (data[i].fired /\ ~data[i].repeats)
                        \/ WaitsIn(heap, task, i)
                        BY <1>2, <2>1 DEF NoneLost
                  <4>2. ASSUME WaitsIn(heap, task, i) PROVE WaitsIn(w, T, i)
                        <5>1. WaitsIn(w, task, i)
                              BY <1>3, <1>4, <1>10, <3>2, <4>2, LessWaits
                        <5> QED BY <1>14, <5>1 DEF WaitsIn
                  <4> QED BY <1>17, <4>1, <4>2
            <3> QED BY <3>1, <3>2
      <2> QED BY <1>9, <2>2 DEF NoneLost
<1>21. QueueGood(w, T, None, queueEnd, D)
      <2>1. \A i \in 1..n : D[i].delay = data[i].delay
            BY <1>7, <1>9 DEF r, Record
      <2>2. \A i \in 1..Len(w) : \E j \in 1..Len(heap) : w[i] = heap[j]
            BY <1>3, <1>10, LessIn
      <2>3. \A i \in 1..Len(w) : T[w[i].at] = task[w[i].at] /\ task[w[i].at] \in 1..n
            BY <1>2, <1>3, <1>10, <1>12, <1>14, WaitingTyped
      <2>4. \A i \in 1..Len(w) : /\ T[w[i].at] \in 1..n
                                 /\ \E j \in 1..Len(heap) : T[w[i].at] = task[heap[j].at]
            BY <2>2, <2>3
      <2>5. \A b \in Addresses : \/ T[b] = task[b]
                                 \/ T[b] = 0 /\ task[b] # 0 /\ data[task[b]].fired
                                    /\ ~data[task[b]].repeats
            BY <1>4, <1>5, <1>11
      <2>6. /\ data \in Seq(Record) /\ D \in Seq(Record) /\ Len(D) = Len(data)
            /\ T \in [Addresses -> 0..Len(data)] /\ None \in {running, None}
            BY <1>2, <1>3, <1>9, <1>11
      <2>7. \A i \in 1..Len(data) : /\ D[i].fired = data[i].fired
                                    /\ D[i].delay = data[i].delay
                                    /\ D[i].repeats = data[i].repeats
            BY <1>2, <1>17, <2>1
      <2>8. \A i \in 1..Len(w) : /\ T[w[i].at] \in 1..Len(data)
                                 /\ \E j \in 1..Len(heap) : T[w[i].at] = task[heap[j].at]
            BY <1>2, <2>4
      <2> QED BY <2>5, <2>6, <2>7, <2>8, QueueKept
<1> QED BY <1>6, <1>15, <1>16, <1>18, <1>19, <1>20, <1>21 DEF LoopInv, D, T

\* The clock moves.
LEMMA TickInv ==
    ASSUME LoopInv, NEW k \in 1..MaxDelay, Tick(k)
    PROVE  LoopInv'
<1>1. /\ heap \in Seq(Slots) /\ data \in Seq(Record)
      /\ task \in [Addresses -> 0..Len(data)]
      /\ HeapGood(heap, task, data)
      BY DEF LoopInv, LoopTypeOK
<1>2. /\ heap' = [i \in DOMAIN heap |->
                     Entry(heap[i].at, IF heap[i].delay > k THEN heap[i].delay - k ELSE 0)]
      /\ UNCHANGED <<task, running, script, data, handle, queueEnd, status, mine, misused>>
      BY DEF Tick
<1>3. k \in Nat
      BY LoopBounds
<1>4. /\ heap' \in Seq(Slots) /\ Len(heap') = Len(heap)
      /\ \A i \in 1..Len(heap) : heap'[i].at = heap[i].at
      /\ HeapGood(heap', task, data)
      <2>1. PICK w : w = heap' /\ w = [i \in DOMAIN heap |->
                  Entry(heap[i].at, IF heap[i].delay > k THEN heap[i].delay - k ELSE 0)]
            BY <1>2
      <2>2. /\ w \in Seq(Slots) /\ Len(w) = Len(heap)
            /\ \A i \in 1..Len(heap) : w[i].at = heap[i].at
            /\ HeapGood(w, task, data)
            <3>1. \A D \in Seq(Record) : \A T \in [Addresses -> 0..Len(D)] : \A h \in Seq(Slots) :
                     HeapGood(h, T, D) /\ w = [i \in DOMAIN h |->
                           Entry(h[i].at, IF h[i].delay > k THEN h[i].delay - k ELSE 0)] =>
                        /\ w \in Seq(Slots) /\ Len(w) = Len(h)
                        /\ \A i \in 1..Len(h) : w[i].at = h[i].at
                        /\ HeapGood(w, T, D)
                  BY ONLY <1>3, TickGood, Zenon
            <3> QED BY ONLY <1>1, <2>1, <3>1, Zenon
      <2> QED BY <2>1, <2>2
<1>5. LoopTypeOK'
      BY <1>2, <1>4 DEF LoopInv, LoopTypeOK
<1>6. TasksGood' /\ HandlesGood'
      BY <1>2 DEF LoopInv, TasksGood, HandlesGood
<1>7. misused \/ NoneLost(heap', task, data)
      BY <1>4 DEF LoopInv, NoneLost, WaitsIn
<1>8. QueueGood(heap', task, running, queueEnd, data)
      BY <1>4 DEF LoopInv, QueueGood
<1> QED BY <1>2, <1>4, <1>5, <1>6, <1>7, <1>8 DEF LoopInv

\* The script returns, or a callback whose task is kept; or nothing changes.
LEMMA OtherInv ==
    ASSUME LoopInv, ScriptReturns \/ KeepTask \/ UNCHANGED vars
    PROVE  LoopInv'
<1>1. /\ UNCHANGED <<task, heap, data, handle, queueEnd, status, mine, misused>>
      /\ running' \in {running, None} /\ script' \in BOOLEAN
      BY DEF ScriptReturns, KeepTask, vars, LoopInv, LoopTypeOK
<1>2. LoopTypeOK'
      BY <1>1 DEF LoopInv, LoopTypeOK
<1>3. TasksGood' /\ HandlesGood'
      BY <1>1 DEF LoopInv, TasksGood, HandlesGood
<1>4. QueueGood(heap, task, running', queueEnd, data)
      BY <1>1 DEF LoopInv, QueueGood
<1> QED BY <1>1, <1>2, <1>3, <1>4 DEF LoopInv

-----------------------------------------------------------------------------
(* The invariant *)

\* The program starts with the script and without tasks.
LEMMA LoopInit == Init => LoopInv
<1> SUFFICES ASSUME Init PROVE LoopInv
    OBVIOUS
<1>1. heap = <<>> /\ data = <<>> /\ Len(heap) = 0 /\ Len(data) = 0
      BY EmptySeq DEF Init
<1>2. heap \in Seq(Slots) /\ data \in Seq(Record)
      BY <1>1, EmptySeq
<1>3. LoopTypeOK
      <2>1. 0 \in 0..Len(data) BY <1>1
      <2>2. task \in [Addresses -> 0..Len(data)] BY <2>1 DEF Init
      <2>3. mine \in [Timers -> 0..Len(data)] BY <2>1 DEF Init
      <2>4. handle \in [Timers -> Addresses \cup {None}] BY DEF Init
      <2> QED BY <1>2, <2>2, <2>3, <2>4 DEF Init, LoopTypeOK
<1>4. 1..Len(heap) = {} /\ 1..Len(data) = {}
      BY <1>1
<1>5. HeapGood(heap, task, data) /\ NoneLost(heap, task, data)
      BY <1>4 DEF HeapGood, NoneLost
<1>6. TasksGood /\ HandlesGood
      BY DEF Init, TasksGood, HandlesGood
<1>7. QueueGood(heap, task, running, queueEnd, data)
      BY <1>1 DEF Init, QueueGood, LastIsDone
<1> QED BY <1>3, <1>5, <1>6, <1>7 DEF LoopInv

\* Each action keeps the invariant, by its own lemma.
LEMMA LoopStep == LoopInv /\ [Next]_vars => LoopInv'
<1> SUFFICES ASSUME LoopInv, [Next]_vars PROVE LoopInv'
    OBVIOUS
<1>1. CASE Fire
      BY <1>1, FireInv
<1>2. CASE \E k \in 1..MaxDelay : Tick(k)
      BY <1>2, TickInv
<1>3. CASE Finish
      BY <1>3, FinishInv
<1>4. CASE \E a \in Addresses : AddTask(a)
      BY <1>4, AddTaskInv
<1>5. CASE \E t \in Timers : ClearTimer(t)
      BY <1>5, ClearTimerInv
<1>6. CASE \E t \in Timers, a \in Addresses, d \in 0..MaxDelay, r \in BOOLEAN :
              SetTimer(t, a, d, r)
      BY <1>6, SetTimerInv
<1>7. CASE ScriptReturns \/ KeepTask \/ UNCHANGED vars
      BY <1>7, OtherInv
<1> QED BY <1>1, <1>2, <1>3, <1>4, <1>5, <1>6, <1>7 DEF Next, Loop, Program

\* Every action of the program and of the loop keeps the invariant.
THEOREM LoopInvariance == Spec => []LoopInv
<1>1. Init => LoopInv BY LoopInit
<1>2. LoopInv /\ [Next]_vars => LoopInv' BY LoopStep
<1> QED BY <1>1, <1>2, PTL DEF Spec

\* Every variable keeps its type, for every bound on tasks and timeouts.
THEOREM LoopTypes == Spec => []LoopTypeOK
<1>1. LoopInv => LoopTypeOK BY DEF LoopInv
<1> QED BY <1>1, LoopInvariance, PTL

\* Whatever timers the program sets and clears, uv__run_timers finds in the heap of
\* timers, and the rest of invoke_task on the stack, only tasks that are allocated
\* and whose data is still rooted.  (Not of the list of handles: see below.)
THEOREM TimersRunAllocatedTasks == Spec => []NoFreedTask
<1>1. ASSUME LoopInv PROVE NoFreedTask
      <2>1. heap \in Seq(Slots) /\ DOMAIN heap = 1..Len(heap)
            BY LenProperties, <1>1 DEF LoopInv, LoopTypeOK
      <2>2. ASSUME NEW i \in 1..Len(heap) PROVE Id(heap[i]) # 0 /\ data[Id(heap[i])].rooted
            <3>1. heap[i].at \in Addresses
                  BY <1>1, WaitingTyped DEF LoopInv, LoopTypeOK
            <3>2. task[heap[i].at] # 0
                  BY <1>1 DEF LoopInv, HeapGood, MayRun
            <3> QED BY <1>1, <3>1, <3>2 DEF LoopInv, TasksGood, Id
      <2>3. \A i, j \in 1..Len(heap) : heap[i].at = heap[j].at => i = j
            BY <1>1 DEF LoopInv, HeapGood
      <2>4. running # None => task[running] # 0 /\ data[task[running]].rooted
            BY <1>1 DEF LoopInv, LoopTypeOK, TasksGood
      <2> QED BY <2>1, <2>2, <2>3, <2>4 DEF NoFreedTask
<1> QED BY <1>1, LoopInvariance, PTL

\* The write of uv_timer_init to a freed record needs a program that adds a task in
\* the callback of an interval, or of a timer with a longer timeout than the task
\* that was added last: without timers, no order of promise jobs leads to it.
THEOREM FreedHandlesNeedTimers == Spec => []FreedHandleNeedsTimer
<1>1. ASSUME LoopInv, EndFreed, NEW id \in Active \cup {task[a] : a \in {running} \ {None}}
      PROVE  data[id].repeats \/ data[id].delay > data[Len(data)].delay
      <2>1. DOMAIN heap = 1..Len(heap) /\ Len(data) \in Nat
            BY <1>1, LenProperties DEF LoopInv, LoopTypeOK
      <2>2. QueueGood(heap, task, running, queueEnd, data)
            BY <1>1 DEF LoopInv
      <2>3. queueEnd # None /\ task[queueEnd] = 0 /\ Len(data) # 0
            BY <1>1, <2>2 DEF EndFreed, QueueGood
      <2>4. LastIsDone(data)
            BY <2>2, <2>3 DEF QueueGood
      <2>5. CASE id \in Active
            BY <2>1, <2>2, <2>4, <2>5 DEF QueueGood, Active, Id, Later
      <2>6. CASE running # None /\ id = task[running]
            <3>1. running \in Addresses /\ task[running] # 0
                  BY <1>1, <2>6 DEF LoopInv, LoopTypeOK, TasksGood
            <3>2. task[running] # Len(data)
                  BY <2>2, <2>3, <3>1 DEF QueueGood
            <3> QED BY <2>2, <2>4, <2>6, <3>2 DEF QueueGood, Later
      <2> QED BY <1>1, <2>5, <2>6
<1>2. LoopInv => FreedHandleNeedsTimer
      BY <1>1 DEF FreedHandleNeedsTimer
<1> QED BY <1>2, LoopInvariance, PTL

\* clearTimeout and clearInterval are final: the loop has no task left that was
\* cleared, also when an interval is cleared by its own callback.
THEOREM ClearedStaysSilent == Spec => []ClearedIsSilent
<1>1. ASSUME LoopInv PROVE ClearedIsSilent
      <2>1. DOMAIN heap = 1..Len(heap)
            BY <1>1, LenProperties DEF LoopInv, LoopTypeOK
      <2>2. \A i \in 1..Len(heap) : ~data[task[heap[i].at]].cleared
            BY <1>1 DEF LoopInv, HeapGood, MayRun
      <2> QED BY <2>1, <2>2 DEF ClearedIsSilent, Active, Id
<1> QED BY <1>1, LoopInvariance, PTL

\* The address a Timer object holds can only be stale once its one-shot task has
\* been called.
THEOREM HandlesAreFresh == Spec => []StaleOnlyAfterFiring
<1>1. LoopInv => StaleOnlyAfterFiring
      BY DEF LoopInv, HandlesGood, StaleOnlyAfterFiring
<1> QED BY <1>1, LoopInvariance, PTL

\* No task is lost by a program that clears no timer whose task has been freed.
THEOREM TasksAreKept == Spec => []NoTaskLost
<1>1. ASSUME LoopInv, ~misused, NEW id \in DOMAIN data
      PROVE  data[id].cleared \/ (data[id].fired /\ ~data[id].repeats) \/ id \in Active
      <2>1. DOMAIN heap = 1..Len(heap) /\ DOMAIN data = 1..Len(data)
            BY <1>1, LenProperties DEF LoopInv, LoopTypeOK
      <2>2. \/ data[id].cleared \/ (data[id].fired /\ ~data[id].repeats)
            \/ WaitsIn(heap, task, id)
            BY <1>1, <2>1 DEF LoopInv, NoneLost
      <2> QED BY <2>1, <2>2 DEF WaitsIn, Active, Id
<1>2. LoopInv => NoTaskLost
      BY <1>1 DEF NoTaskLost
<1> QED BY <1>2, LoopInvariance, PTL

\* Promise jobs run in the order in which they were queued, and a timer is not
\* overtaken by one that was set later with a timeout as long or longer.
THEOREM TasksStartInOrder == Spec => TasksInOrder
<1> DEFINE Ordered == running' # running /\ running' # None =>
          \A i \in Active : i < task[running'] =>
              \/ data[i].delay > data[task[running']].delay
              \/ data[i].repeats /\ data[i].fired
              \/ data[task[running']].fired
<1>1. ASSUME LoopInv, [Next]_vars PROVE [Ordered]_vars
      <2>1. SUFFICES ASSUME running' # running, running' # None,
                            NEW x \in Active, x < task[running'],
                            ~(data[x].repeats /\ data[x].fired),
                            ~data[task[running']].fired
                     PROVE  data[x].delay > data[task[running']].delay
            OBVIOUS
      <2>2. Fire
            BY <1>1, <2>1 DEF Next, Loop, Program, Tick, Finish, KeepTask, ScriptReturns,
               AddTask, SetTimer, ClearTimer, vars
      <2>3. running' = heap[1].at /\ heap # <<>>
            BY <2>2 DEF Fire
      <2>4. heap \in Seq(Slots) /\ DOMAIN heap = 1..Len(heap) /\ 1 \in 1..Len(heap)
            BY <1>1, <2>3, LenProperties, EmptySeq DEF LoopInv, LoopTypeOK
      <2>5. PICK i \in 1..Len(heap) : x = task[heap[i].at]
            BY <2>1, <2>4 DEF Active, Id
      <2>6. ~data[x].fired
            BY <1>1, <2>1, <2>5 DEF LoopInv, HeapGood, MayRun
      <2>7. ~(data[x].delay <= data[task[running']].delay)
            <3>1. ~(i < 1) BY <2>5
            <3>2. ~Before(heap[i], heap[1], task, data)
                  BY <1>1, <2>4, <2>5, <3>1 DEF LoopInv, HeapGood
            <3> QED BY <2>1, <2>3, <2>5, <2>6, <3>2 DEF Before
      <2>8. data[x].delay \in Nat /\ data[task[running']].delay \in Nat
            <3>1. data[x] \in Record /\ data[task[running']] \in Record
                  BY <1>1, <2>3, <2>4, <2>5, WaitingTyped DEF LoopInv, LoopTypeOK
            <3> QED BY <3>1, LoopBounds DEF Record
      <2>9. PICK y, z : y = data[x].delay /\ z = data[task[running']].delay
            OBVIOUS
      <2>10. y > z
            <3>1. y \in Nat /\ z \in Nat /\ ~(y <= z) BY <2>7, <2>8, <2>9
            <3> QED BY ONLY <3>1
      <2> QED BY <2>9, <2>10
<1>2. Spec => [][Ordered]_vars
      <2> HIDE DEF Ordered
      <2> QED BY <1>1, LoopInvariance, PTL DEF Spec
<1> QED BY <1>2 DEF TasksInOrder

=============================================================================
