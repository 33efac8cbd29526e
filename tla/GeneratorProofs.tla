-------------------------- MODULE GeneratorProofs --------------------------
(***************************************************************************)
(* Generator for any number of generators and any nesting: GenInv is       *)
(* inductive, and what a collection relies on follows from it.             *)
(***************************************************************************)
EXTENDS Generator, SequenceTheorems, TLAPS

Frame == [linked : BOOLEAN, prev : SUBSET Records]

Sound == PrevIsOwn /\ ChainsAreHome /\ Lives /\ ChainIsStack /\ OrdersObeyed

-----------------------------------------------------------------------------
(* Sequences of frames and of generators *)

LEMMA PrefixOf ==
  ASSUME NEW S, NEW s \in Seq(S), NEW k \in 0..Len(s)
  PROVE  /\ SubSeq(s, 1, k) \in Seq(S) /\ Len(SubSeq(s, 1, k)) = k
         /\ \A i \in 1..k : SubSeq(s, 1, k)[i] = s[i]
  BY SubSeqProperties

LEMMA Appended ==
  ASSUME NEW S, NEW s \in Seq(S), NEW e \in S
  PROVE  /\ Append(s, e) \in Seq(S) /\ Len(Append(s, e)) = Len(s) + 1
         /\ \A i \in 1..Len(s) : Append(s, e)[i] = s[i]
         /\ Append(s, e)[Len(s) + 1] = e
  BY AppendProperties

-----------------------------------------------------------------------------
(* Chains *)

\* The records of the functions up to k are among the records there are.
LEMMA OwnIsRecords ==
  ASSUME NEW s \in Stacks, NEW f, NEW k \in 0..MaxFrames
  PROVE  Own(s, f, k) \in SUBSET Records
  BY StackBounds DEF Own, Records

\* One function more adds its record, if it has one.
LEMMA OwnStep ==
  ASSUME NEW s, NEW f, NEW k \in Nat
  PROVE  /\ f[k + 1].linked => Own(s, f, k + 1) = Own(s, f, k) \cup {<<s, k + 1>>}
         /\ ~f[k + 1].linked => Own(s, f, k + 1) = Own(s, f, k)
  <1>1. 1..(k + 1) = (1..k) \cup {k + 1}
    OBVIOUS
  <1> QED
    BY <1>1 DEF Own

\* The chain of the first k functions depends on those only.
LEMMA OwnSame ==
  ASSUME NEW s, NEW f, NEW h, NEW k, \A i \in 1..k : f[i] = h[i]
  PROVE  Own(s, f, k) = Own(s, h, k)
  BY DEF Own

\* What a catcher in function k puts back is the chain of the first k functions.
LEMMA ChainAtIsOwn ==
  ASSUME PrevIsOwn, NEW s \in Stacks, Depth(s) \in Nat, NEW k \in 0..Depth(s)
  PROVE  ChainAt(s, k) = Own(s, frames[s], k)
  <1>1. CASE k = 0
    BY <1>1 DEF ChainAt, Own
  <1>2. CASE k # 0
    <2>1. k - 1 \in Nat /\ (k - 1) + 1 = k /\ k \in 1..Depth(s)
      BY <1>2
    <2>2. frames[s][k].prev = Own(s, frames[s], k - 1)
      BY <2>1 DEF PrevIsOwn
    <2>3. /\ frames[s][k].linked => Own(s, frames[s], k) = Own(s, frames[s], k - 1) \cup {<<s, k>>}
          /\ ~frames[s][k].linked => Own(s, frames[s], k) = Own(s, frames[s], k - 1)
      BY <2>1, OwnStep
    <2> QED
      BY <2>2, <2>3, <1>2 DEF ChainAt
  <1> QED
    BY <1>1, <1>2

\* Chains of different stacks share no record.
LEMMA OwnDisjoint ==
  ASSUME NEW s, NEW t, s # t, NEW f, NEW h, NEW j, NEW k
  PROVE  Own(s, f, j) \cap Own(t, h, k) = {}
  BY DEF Own

-----------------------------------------------------------------------------
(* The array of running generators *)

LEMMA StackTypes ==
  ASSUME GenTypeOK
  PROVE  /\ Len(generators) \in Nat /\ DOMAIN generators = 1..Len(generators)
         /\ \A i \in DOMAIN generators : generators[i] \in Generators
         /\ \A s \in Stacks : frames[s] \in Seq(Frame) /\ Depth(s) \in Nat
         /\ cur \in Stacks /\ Main \in Stacks
         /\ \A g \in Generators : g \in Stacks /\ g # Main
  <1>1. \A g \in Generators : g \in Stacks /\ g # Main
    BY MainIsNone DEF Stacks
  <1>2. Main \in Stacks
    BY DEF Stacks
  <1>3. generators \in Seq(Generators) /\ cur \in Stacks
    BY DEF GenTypeOK
  <1>4. \A s \in Stacks : frames[s] \in Seq(Frame) /\ Depth(s) \in Nat
    <2>1. frames \in [Stacks -> Seq(Frame)]
      BY DEF GenTypeOK, Frame
    <2>2. \A s \in Stacks : frames[s] \in Seq(Frame)
      BY <2>1
    <2>3. \A s \in Stacks : Len(frames[s]) \in Nat
      BY <2>2
    <2> QED
      BY <2>2, <2>3 DEF Depth
  <1> QED
    BY <1>1, <1>2, <1>3, <1>4

\* The stacks from the program's to the running one are all different, and the
\* generators among them are the active ones.
LEMMA StacksDiffer ==
  ASSUME GenTypeOK, Lives, ChainIsStack, status # "undefined"
  PROVE  /\ cur = Below(Len(generators) + 1)
         /\ \A i, j \in 1..(Len(generators) + 1) : Below(i) = Below(j) => i = j
         /\ \A i \in DOMAIN generators : Below(i) # cur
         /\ \A g \in Generators : Active(g) => g \in registry
         /\ \A g \in Generators : ~Active(g) => g # cur /\ \A i \in DOMAIN generators : g # Below(i)
         /\ \A i \in DOMAIN generators : Below(i) \in Stacks
         /\ cur # Main => Len(generators) > 0 /\ cur = generators[Len(generators)]
  <1> DEFINE n == Len(generators)
  <1> USE StackTypes
  <1>1. cur = Below(n + 1)
    BY DEF ChainIsStack
  <1>2. \A i \in 2..(n + 1) : Below(i) = generators[i - 1] /\ i - 1 \in DOMAIN generators
    BY DEF Below
  <1>3. Below(1) = Main
    BY DEF Below
  <1>4. \A i, j \in 1..(n + 1) : Below(i) = Below(j) => i = j
    <2> TAKE i, j \in 1..(n + 1)
    <2> HAVE Below(i) = Below(j)
    <2>1. CASE i = 1 \/ j = 1
      <3>1. \A k \in 2..(n + 1) : Below(k) \in Generators
        BY <1>2
      <3>2. (i = 1 \/ i \in 2..(n + 1)) /\ (j = 1 \/ j \in 2..(n + 1))
        OBVIOUS
      <3> QED
        BY <2>1, <3>1, <3>2, <1>3
    <2>2. CASE i # 1 /\ j # 1
      <3>1. i \in 2..(n + 1) /\ j \in 2..(n + 1)
        BY <2>2
      <3>2. generators[i - 1] = generators[j - 1]
        BY <3>1, <1>2
      <3>3. \A k, l \in DOMAIN generators : generators[k] = generators[l] => k = l
        BY DEF Lives
      <3>4. i - 1 \in DOMAIN generators /\ j - 1 \in DOMAIN generators
        BY <3>1, <1>2
      <3>5. i - 1 = j - 1
        BY <3>2, <3>3, <3>4
      <3> QED
        <4>1. n \in Nat
          OBVIOUS
        <4>2. i \in Int /\ j \in Int
          BY ONLY <3>1, <4>1
        <4> QED
          BY ONLY <3>5, <4>2
    <2> QED
      BY <2>1, <2>2
  <1>5. \A i \in DOMAIN generators : Below(i) # cur
    <2> TAKE i \in DOMAIN generators
    <2>1. i \in 1..(n + 1) /\ n + 1 \in 1..(n + 1) /\ i # n + 1
      OBVIOUS
    <2> QED
      BY <2>1, <1>1, <1>4
  <1>6. \A g \in Generators : Active(g) => g \in registry
    BY DEF Active, ChainIsStack
  <1>7. \A g \in Generators : \A i \in 1..(n + 1) : g = Below(i) => Active(g)
    <2> TAKE g \in Generators
    <2> TAKE i \in 1..(n + 1)
    <2> HAVE g = Below(i)
    <2>1. i # 1
      BY <1>3
    <2>2. i \in 2..(n + 1)
      BY <2>1
    <2> QED
      BY <2>2, <1>2 DEF Active
  <1>8. \A g \in Generators : ~Active(g) => g # cur /\ \A i \in DOMAIN generators : g # Below(i)
    <2>1. \A i \in DOMAIN generators : i \in 1..(n + 1)
      OBVIOUS
    <2>2. n + 1 \in 1..(n + 1)
      OBVIOUS
    <2> QED
      BY <1>1, <1>7, <2>1, <2>2
  <1>9. \A i \in DOMAIN generators : Below(i) \in Stacks
    <2> TAKE i \in DOMAIN generators
    <2>1. CASE i = 1
      BY <2>1, <1>3
    <2>2. CASE i # 1
      <3>1. i \in 2..(n + 1)
        BY <2>2
      <3> QED
        BY <3>1, <1>2
    <2> QED
      BY <2>1, <2>2
  <1>10. cur # Main => n > 0 /\ cur = generators[n]
    <2> HAVE cur # Main
    <2>1. n # 0
      BY <1>1, <1>3
    <2>2. n + 1 \in 2..(n + 1)
      BY <2>1
    <2> QED
      BY <2>1, <2>2, <1>1, <1>2
  <1> QED
    BY <1>1, <1>4, <1>5, <1>6, <1>8, <1>9, <1>10

-----------------------------------------------------------------------------
(* Steps that stay on the running stack *)

\* Whatever functions the running stack holds afterwards, the invariant holds if
\* each recorded the chain below it and the head is the chain of them all.
LEMMA FramesStep ==
  ASSUME GenTypeOK, Sound, status = "running",
         NEW f \in Seq(Frame), Len(f) <= MaxFrames,
         frames' = [frames EXCEPT ![cur] = f],
         \A k \in 1..Len(f) : f[k].prev = Own(cur, f, k - 1),
         head' = Own(cur, f, Len(f)),
         UNCHANGED <<cur, registry, generators, gen>>
  PROVE  Sound'
  <1> USE StackTypes
  <1>0. PrevIsOwn /\ ChainsAreHome /\ Lives /\ ChainIsStack /\ OrdersObeyed
    BY DEF Sound
  <1> USE <1>0, StacksDiffer
  <1>1. frames'[cur] = f /\ \A s \in Stacks : s # cur => frames'[s] = frames[s]
    BY DEF GenTypeOK
  <1>2. PrevIsOwn'
    BY <1>1 DEF PrevIsOwn, Depth
  <1>3. ChainsAreHome'
    <2>1. head' = Chain(cur)'
      BY <1>1 DEF Chain
    <2>2. ASSUME NEW g \in registry'
          PROVE  gen'[g].parked = IF Active(g)' THEN {} ELSE Chain(g)'
      <3>1. g \in Generators /\ g \in registry /\ (~Active(g) => g # cur)
        BY DEF GenTypeOK
      <3>2. gen[g].parked = IF Active(g) THEN {} ELSE Chain(g)
        BY <3>1 DEF ChainsAreHome
      <3> QED
        BY <3>1, <3>2, <1>1 DEF Active, Chain
    <2>3. ASSUME NEW i \in DOMAIN generators'
          PROVE  gen'[generators'[i]].callerHead = Chain(Below(i))'
      <3>1. Below(i) # cur /\ Below(i) \in Stacks
        OBVIOUS
      <3>2. gen[generators[i]].callerHead = Chain(Below(i))
        BY DEF ChainsAreHome
      <3> QED
        BY <3>1, <3>2, <1>1 DEF Below, Chain
    <2> QED
      BY <2>1, <2>2, <2>3 DEF ChainsAreHome
  <1>4. \A g : Active(g)' <=> Active(g)
    BY DEF Active
  <1>5. Lives'
    <2>1. \A g \in Generators : g = cur => Active(g) /\ g \in registry
      OBVIOUS
    <2>2. \A g \in Generators : g # cur => frames'[g] = frames[g]
      BY <1>1
    <2> QED
      BY <2>1, <2>2, <1>4 DEF Lives
  <1>6. ChainIsStack'
    <2>1. ASSUME NEW i \in DOMAIN generators
          PROVE  Depth(Below(i))' = Depth(Below(i)) /\ Below(i)' = Below(i)
      BY <1>1 DEF Below, Depth
    <2>2. Below(Len(generators) + 1)' = Below(Len(generators) + 1)
      BY DEF Below
    <2> QED
      BY <2>1, <2>2 DEF ChainIsStack
  <1>7. OrdersObeyed'
    <2>1. \A g \in Generators : gen[g].completed => g # cur
      BY DEF OrdersObeyed
    <2> QED
      BY <2>1, <1>1, <1>4 DEF OrdersObeyed
  <1> QED
    BY <1>2, <1>3, <1>5, <1>6, <1>7 DEF Sound

\* The types are kept along.
LEMMA FramesTypes ==
  ASSUME GenTypeOK, NEW f \in Seq(Frame), Len(f) <= MaxFrames,
         frames' = [frames EXCEPT ![cur] = f],
         head' = Own(cur, f, Len(f)),
         raising' \in BOOLEAN, status' \in {"running", "aborted", "undefined"},
         UNCHANGED <<cur, registry, generators, gen>>
  PROVE  GenTypeOK'
  <1>1. frames' \in [Stacks -> Seq(Frame)]
    BY DEF GenTypeOK, Frame
  <1>2. head' \in SUBSET Records
    BY StackTypes, OwnIsRecords
  <1> QED
    BY <1>1, <1>2 DEF GenTypeOK, Frame

\* The invariant in a state in which the program runs.
LEMMA RunningFacts ==
  ASSUME GenInv, status = "running"
  PROVE  /\ GenTypeOK /\ Sound
         /\ PrevIsOwn /\ ChainsAreHome /\ Lives /\ ChainIsStack /\ OrdersObeyed
         /\ frames[cur] \in Seq(Frame) /\ Len(frames[cur]) \in Nat /\ Len(frames[cur]) <= MaxFrames
         /\ head = Own(cur, frames[cur], Len(frames[cur]))
         /\ \A k \in 1..Len(frames[cur]) :
               frames[cur][k].prev = Own(cur, frames[cur], k - 1)
  <1>1. GenTypeOK /\ PrevIsOwn /\ ChainsAreHome /\ Lives /\ ChainIsStack /\ OrdersObeyed
    BY DEF GenInv
  <1>2. cur \in Stacks /\ frames[cur] \in Seq(Frame)
    BY <1>1, StackTypes
  <1>3. Len(frames[cur]) \in Nat
    BY <1>2
  <1>4. head = Own(cur, frames[cur], Len(frames[cur]))
    BY <1>1 DEF ChainsAreHome, Chain
  <1> QED
    BY <1>1, <1>2, <1>3, <1>4 DEF Sound, PrevIsOwn, Depth

LEMMA CallStep ==
  ASSUME GenInv, NEW l \in BOOLEAN, Call(l)
  PROVE  GenInv'
  <1>0. status = "running"
    BY DEF Call, Running
  <1> USE RunningFacts, <1>0
  <1> DEFINE n == Len(frames[cur])
  <1> DEFINE e == [linked |-> l, prev |-> head]
  <1> DEFINE f == Append(frames[cur], e)
  <1>1. e \in Frame
    BY DEF GenTypeOK, Frame
  <1>2. /\ f \in Seq(Frame) /\ Len(f) = n + 1
        /\ \A i \in 1..n : f[i] = frames[cur][i]
        /\ f[n + 1] = e
    BY <1>1, Appended
  <1>3. n < MaxFrames /\ MaxFrames \in Nat
    BY StackBounds DEF Call, Depth
  <1>4. \A k \in 0..n : Own(cur, f, k) = Own(cur, frames[cur], k)
    <2> TAKE k \in 0..n
    <2>1. \A i \in 1..k : f[i] = frames[cur][i]
      BY <1>2
    <2> HIDE DEF f
    <2> QED
      BY ONLY <2>1, OwnSame, Zenon
  <1>5. \A k \in 1..Len(f) : f[k].prev = Own(cur, f, k - 1)
    <2> TAKE k \in 1..Len(f)
    <2>1. CASE k = n + 1
      BY <2>1, <1>2, <1>4
    <2>2. CASE k \in 1..n
      BY <2>2, <1>2, <1>4
    <2> QED
      BY <2>1, <2>2, <1>2
  <1>6. head' = Own(cur, f, Len(f))
    <2>2. /\ f[n + 1].linked => Own(cur, f, n + 1) = Own(cur, f, n) \cup {<<cur, n + 1>>}
          /\ ~f[n + 1].linked => Own(cur, f, n + 1) = Own(cur, f, n)
      <3>1. n \in Nat
        OBVIOUS
      <3> HIDE DEF n, f
      <3> QED
        BY <3>1, OwnStep
    <2>3. f[n + 1].linked = l
      BY <1>2
    <2>4. Own(cur, f, n) = head
      BY <1>4
    <2>5. head' = IF l THEN head \cup {<<cur, n + 1>>} ELSE head
      BY DEF Call, Depth
    <2>6. Len(f) = n + 1
      BY <1>2
    <2> HIDE DEF n, f, e
    <2> QED
      BY <2>2, <2>3, <2>4, <2>5, <2>6
  <1>7. frames' = [frames EXCEPT ![cur] = f]
    BY DEF Call
  <1>8. /\ UNCHANGED <<cur, registry, generators, gen>>
        /\ raising' \in BOOLEAN /\ status' \in {"running", "aborted", "undefined"}
    BY DEF Call, GenTypeOK
  <1> HIDE DEF n, e, f
  <1>9. Len(f) <= MaxFrames
    BY <1>2, <1>3 DEF n
  <1>10. Sound'
    BY <1>2, <1>5, <1>6, <1>7, <1>8, <1>9, FramesStep
  <1>11. GenTypeOK'
    BY <1>2, <1>6, <1>7, <1>8, <1>9, FramesTypes
  <1> QED
    BY <1>10, <1>11 DEF GenInv, Sound

\* Return and a catch cut the stack: what is left is as it was.
LEMMA CutStep ==
  ASSUME GenInv, status = "running", NEW k \in 0..Len(frames[cur]),
         frames' = [frames EXCEPT ![cur] = SubSeq(@, 1, k)],
         status' \in {"running", "aborted", "undefined"}, raising' \in BOOLEAN,
         UNCHANGED <<cur, registry, generators, gen>>,
         head' = Own(cur, frames[cur], k)
  PROVE  GenInv'
  <1> USE RunningFacts
  <1> DEFINE f == SubSeq(frames[cur], 1, k)
  <1>1. f \in Seq(Frame) /\ Len(f) = k /\ \A i \in 1..k : f[i] = frames[cur][i]
    BY PrefixOf
  <1>2. \A j \in 0..k : Own(cur, f, j) = Own(cur, frames[cur], j)
    <2> TAKE j \in 0..k
    <2>1. \A i \in 1..j : f[i] = frames[cur][i]
      BY <1>1
    <2> HIDE DEF f
    <2> QED
      BY ONLY <2>1, OwnSame, Zenon
  <1>3. \A j \in 1..Len(f) : f[j].prev = Own(cur, f, j - 1)
    <2> SUFFICES ASSUME NEW j \in 1..Len(f)
                 PROVE  f[j].prev = Own(cur, f, j - 1)
      OBVIOUS
    <2>1. j \in 1..k /\ j - 1 \in 0..k /\ j \in 1..Len(frames[cur])
      BY <1>1
    <2>2. frames[cur][j].prev = Own(cur, frames[cur], j - 1)
      BY <2>1
    <2> HIDE DEF f
    <2> QED
      BY ONLY <2>1, <2>2, <1>1, <1>2
  <1>4. head' = Own(cur, f, Len(f))
    BY <1>1, <1>2
  <1>5. Len(f) <= MaxFrames
    BY <1>1, StackBounds
  <1>6. frames' = [frames EXCEPT ![cur] = f]
    OBVIOUS
  <1> HIDE DEF f
  <1>7. Sound'
    BY <1>1, <1>3, <1>4, <1>5, <1>6, FramesStep
  <1>8. GenTypeOK'
    BY <1>1, <1>4, <1>5, <1>6, FramesTypes
  <1> QED
    BY <1>7, <1>8 DEF GenInv, Sound

LEMMA ReturnStep ==
  ASSUME GenInv, Return
  PROVE  GenInv'
  <1>0. status = "running"
    BY DEF Return, Running
  <1> USE RunningFacts, <1>0
  <1> DEFINE n == Len(frames[cur])
  <1>1. n \in Nat \ {0} /\ n - 1 \in 0..n /\ n \in 1..n
    BY DEF Return, Depth
  <1>2. head' = Own(cur, frames[cur], n - 1)
    <2>1. CASE frames[cur][n].linked
      BY <2>1, <1>1 DEF Return, Depth
    <2>2. CASE ~frames[cur][n].linked
      <3>1. Own(cur, frames[cur], n) = Own(cur, frames[cur], n - 1)
        <4>1. n - 1 \in Nat /\ (n - 1) + 1 = n
          BY <1>1
        <4> HIDE DEF n
        <4> QED
          BY <2>2, <4>1, OwnStep
      <3> QED
        BY <2>2, <3>1, <1>1 DEF Return, Depth
    <2> QED
      BY <2>1, <2>2
  <1>3. /\ frames' = [frames EXCEPT ![cur] = SubSeq(@, 1, n - 1)]
        /\ UNCHANGED <<cur, registry, generators, gen, raising, status>>
    BY DEF Return, Depth
  <1>4. raising' \in BOOLEAN /\ status' \in {"running", "aborted", "undefined"}
    BY <1>3 DEF GenTypeOK
  <1> HIDE DEF n
  <1> QED
    BY <1>1, <1>2, <1>3, <1>4, CutStep DEF n

\* Nothing changes but whether an exception is on its way, and whether the process
\* goes on.
LEMMA RestStep ==
  ASSUME GenInv, status # "undefined" \/ status' = status,
         UNCHANGED <<cur, frames, head, registry, generators, gen>>,
         raising' \in BOOLEAN, status' \in {"running", "aborted", "undefined"}
  PROVE  GenInv'
  <1>1. GenTypeOK'
    BY DEF GenInv, GenTypeOK
  <1> SUFFICES ASSUME status # "undefined"
               PROVE  GenInv'
    BY <1>1 DEF GenInv
  <1> USE DEF GenInv
  <1>2. PrevIsOwn'
    BY DEF PrevIsOwn, Depth
  <1>3. \A g : Active(g)' <=> Active(g)
    BY DEF Active
  <1>4. ChainsAreHome'
    BY DEF ChainsAreHome, Active, Chain, Below
  <1>5. Lives'
    BY DEF Lives, Active
  <1>6. ChainIsStack'
    BY DEF ChainIsStack, Below, Depth
  <1>7. OrdersObeyed'
    BY DEF OrdersObeyed, Active
  <1> QED
    BY <1>1, <1>2, <1>4, <1>5, <1>6, <1>7

LEMMA ThrowStep ==
  ASSUME GenInv, Throw
  PROVE  GenInv'
  <1>1. status = "running" /\ raising' \in BOOLEAN
    BY DEF Throw, Running
  <1>2. UNCHANGED <<cur, frames, head, registry, generators, gen, status>>
    BY DEF Throw
  <1> QED
    BY <1>1, <1>2, RestStep

LEMMA NativeCatchStep ==
  ASSUME GenInv, NEW k \in 0..MaxFrames, NativeCatch(k)
  PROVE  GenInv'
  <1>0. status = "running"
    BY DEF NativeCatch, UnwindTo, Running
  <1> USE RunningFacts, <1>0
  <1>1. k \in 0..Len(frames[cur]) /\ cur \in Stacks
    BY DEF NativeCatch, UnwindTo, Depth, GenTypeOK
  <1>2. head' = Own(cur, frames[cur], k)
    BY <1>1, ChainAtIsOwn DEF NativeCatch, Depth
  <1>3. /\ frames' = [frames EXCEPT ![cur] = SubSeq(@, 1, k)]
        /\ UNCHANGED <<cur, registry, generators, gen>>
        /\ raising' \in BOOLEAN /\ status' \in {"running", "aborted", "undefined"}
    BY DEF NativeCatch, UnwindTo
  <1> QED
    BY <1>1, <1>2, <1>3, CutStep

LEMMA EmittedCatchStep ==
  ASSUME GenInv, NEW k \in 0..MaxFrames, EmittedCatch(k)
  PROVE  GenInv'
  <1>0. status = "running"
    BY DEF EmittedCatch, UnwindTo, Running
  <1> USE RunningFacts, <1>0
  <1>1. k \in 0..Len(frames[cur]) /\ cur \in Stacks
    BY DEF EmittedCatch, UnwindTo, Depth, GenTypeOK
  <1>2. ChainAt(cur, k) = Own(cur, frames[cur], k)
    BY <1>1, ChainAtIsOwn DEF Depth
  <1>3. /\ frames' = [frames EXCEPT ![cur] = SubSeq(@, 1, k)]
        /\ UNCHANGED <<cur, registry, generators, gen>>
        /\ raising' \in BOOLEAN /\ status' \in {"running", "aborted", "undefined"}
    BY DEF EmittedCatch, UnwindTo
  <1>4. CASE head' = ChainAt(cur, k)
    BY <1>1, <1>2, <1>3, <1>4, CutStep
  <1>5. CASE head' # ChainAt(cur, k)
    <2>1. status' = "undefined" /\ head' = head
      BY <1>5 DEF EmittedCatch
    <2>2. SubSeq(frames[cur], 1, k) \in Seq(Frame)
      BY <1>1, PrefixOf
    <2>3. frames' \in [Stacks -> Seq(Frame)]
      BY <1>3, <2>2 DEF GenTypeOK, Frame
    <2>4. GenTypeOK'
      BY <1>3, <2>1, <2>3 DEF GenTypeOK, Frame
    <2> QED
      BY <2>1, <2>4 DEF GenInv
  <1> QED
    BY <1>4, <1>5

-----------------------------------------------------------------------------
(* Birth and death *)

GenRecord ==
    [started : BOOLEAN, completed : BOOLEAN, throwing : BOOLEAN,
     returning : BOOLEAN, context : {"trampoline", "yield"},
     caller : Stacks, stackTop : Nat,
     parked : SUBSET Records, callerHead : SUBSET Records]

LEMMA NewIsRecord == NewGenerator \in GenRecord
  BY StackTypes DEF NewGenerator, GenRecord, Stacks

\* An empty stack has an empty chain.
LEMMA EmptyChain ==
  ASSUME NEW s, frames[s] = <<>>
  PROVE  Chain(s) = {}
  BY DEF Chain, Own

LEMMA NewStep ==
  ASSUME GenInv, NEW g \in Generators, New(g)
  PROVE  GenInv'
  <1>0. status = "running"
    BY DEF New, Running
  <1> USE RunningFacts, <1>0, StacksDiffer
  <1>1. /\ registry' = registry \cup {g} /\ g \notin registry
        /\ UNCHANGED <<cur, frames, head, raising, generators, gen, status>>
        /\ gen[g].parked = {}
    BY DEF New, NewGenerator
  <1>2. GenTypeOK'
    BY <1>1 DEF GenTypeOK
  <1>3. ~Active(g) /\ Chain(g) = {}
    BY <1>1, EmptyChain DEF Lives
  <1>4. PrevIsOwn' /\ ChainIsStack' /\ OrdersObeyed' /\ Lives'
    BY <1>1 DEF PrevIsOwn, Depth, ChainIsStack, OrdersObeyed, Lives, Active, Below
  <1>5. ChainsAreHome'
    BY <1>1, <1>3 DEF ChainsAreHome, Active, Chain, Below
  <1> QED
    BY <1>2, <1>4, <1>5 DEF GenInv

LEMMA ReturnUnstartedStep ==
  ASSUME GenInv, NEW g \in Generators, ReturnUnstarted(g)
  PROVE  GenInv'
  <1>0. status = "running"
    BY DEF ReturnUnstarted, Callable, Running
  <1> USE RunningFacts, <1>0, StacksDiffer
  <1>1. /\ gen' = [gen EXCEPT ![g].completed = TRUE] /\ ~gen[g].started /\ g \in registry
        /\ UNCHANGED <<cur, frames, head, raising, registry, generators, status>>
    BY DEF ReturnUnstarted, Callable
  <1>2. gen \in [Generators -> GenRecord]
    BY DEF GenTypeOK, GenRecord
  <1>3. /\ gen' \in [Generators -> GenRecord] /\ gen'[g] = [gen[g] EXCEPT !.completed = TRUE]
        /\ \A h \in Generators : h # g => gen'[h] = gen[h]
    <2>1. gen' = [gen EXCEPT ![g].completed = TRUE]
      BY <1>1
    <2>2. [gen[g] EXCEPT !.completed = TRUE] \in GenRecord
      BY ONLY <1>2, g \in Generators DEF GenRecord
    <2> QED
      BY ONLY <1>2, <2>1, <2>2, g \in Generators
  <1>4. \A h \in Generators :
           /\ gen'[h].parked = gen[h].parked /\ gen'[h].callerHead = gen[h].callerHead
           /\ gen'[h].caller = gen[h].caller /\ gen'[h].stackTop = gen[h].stackTop
           /\ gen'[h].throwing = gen[h].throwing /\ gen'[h].returning = gen[h].returning
           /\ gen'[h].started = gen[h].started /\ gen'[h].context = gen[h].context
           /\ h # g => gen'[h].completed = gen[h].completed
           /\ h = g => gen'[h].completed
    BY <1>2, <1>3 DEF GenRecord
  <1>5. GenTypeOK'
    BY <1>1, <1>3 DEF GenTypeOK, GenRecord
  <1>6. frames[g] = <<>> /\ ~Active(g)
    BY <1>1 DEF Lives
  <1>7. \A h \in registry : h \in Generators
    BY DEF GenTypeOK
  <1>8. PrevIsOwn' /\ ChainIsStack'
    BY <1>1, <1>4, StackTypes DEF PrevIsOwn, Depth, ChainIsStack, Below
  <1>9. OrdersObeyed' /\ Lives'
    BY <1>1, <1>3, <1>4, <1>6 DEF OrdersObeyed, Lives, Active
  <1>10. ChainsAreHome'
    BY <1>1, <1>4, <1>7, StackTypes DEF ChainsAreHome, Active, Chain, Below
  <1> QED
    BY <1>5, <1>8, <1>9, <1>10 DEF GenInv

LEMMA FinalizeStep ==
  ASSUME GenInv, NEW g \in Generators, Finalize(g)
  PROVE  GenInv'
  <1>0. status = "running"
    BY DEF Finalize, Running
  <1> USE RunningFacts, <1>0, StacksDiffer
  <1> DEFINE dead == [NewGenerator EXCEPT !.completed = TRUE]
  <1>1. /\ registry' = registry \ {g} /\ ~Active(g)
        /\ frames' = [frames EXCEPT ![g] = <<>>]
        /\ gen' = [gen EXCEPT ![g] = dead]
        /\ UNCHANGED <<cur, head, raising, generators, status>>
    BY DEF Finalize
  <1>2. dead \in GenRecord /\ dead.completed /\ ~dead.throwing /\ ~dead.returning
    BY NewIsRecord DEF NewGenerator, GenRecord
  <1> HIDE DEF dead
  <1>3. gen \in [Generators -> GenRecord] /\ frames \in [Stacks -> Seq(Frame)] /\ g \in Stacks
    BY StackTypes DEF GenTypeOK, GenRecord, Frame
  <1>4. /\ gen' \in [Generators -> GenRecord] /\ gen'[g] = dead
        /\ \A h \in Generators : h # g => gen'[h] = gen[h]
    BY <1>1, <1>2, <1>3
  <1>5. /\ frames' \in [Stacks -> Seq(Frame)] /\ frames'[g] = <<>>
        /\ \A s \in Stacks : s # g => frames'[s] = frames[s]
    BY <1>1, <1>3
  <1>6. GenTypeOK'
    BY <1>1, <1>4, <1>5 DEF GenTypeOK, GenRecord, Frame
  <1>7. g # cur /\ \A i \in DOMAIN generators : generators[i] # g /\ Below(i) # g
    BY <1>1 DEF Active
  <1>8. PrevIsOwn'
    BY <1>5, StackBounds DEF PrevIsOwn, Depth
  <1>9. ChainIsStack'
    BY <1>1, <1>4, <1>5, <1>7, StackTypes DEF ChainIsStack, Below, Depth
  <1>10. OrdersObeyed' /\ Lives'
    BY <1>1, <1>2, <1>4, <1>5, StackTypes DEF OrdersObeyed, Lives, Active
  <1>11. ChainsAreHome'
    <2>1. head' = Chain(cur)'
      BY <1>1, <1>5, <1>7, StackTypes DEF ChainsAreHome, Chain
    <2>2. ASSUME NEW h \in registry'
          PROVE  gen'[h].parked = IF Active(h)' THEN {} ELSE Chain(h)'
      <3>1. h \in registry /\ h # g /\ h \in Generators /\ h \in Stacks
        BY <1>1, StackTypes DEF GenTypeOK
      <3>2. gen[h].parked = IF Active(h) THEN {} ELSE Chain(h)
        BY <3>1 DEF ChainsAreHome
      <3> QED
        BY <1>1, <1>4, <1>5, <3>1, <3>2 DEF Active, Chain
    <2>3. ASSUME NEW i \in DOMAIN generators'
          PROVE  gen'[generators'[i]].callerHead = Chain(Below(i))'
      <3>1. gen[generators[i]].callerHead = Chain(Below(i)) /\ i \in DOMAIN generators
        BY <1>1 DEF ChainsAreHome
      <3>2. Below(i) \in Stacks /\ Below(i) # g /\ generators[i] # g /\ generators[i] \in Generators
        BY <1>7, <3>1, StackTypes
      <3> QED
        BY <1>1, <1>4, <1>5, <3>1, <3>2 DEF Below, Chain
    <2> QED
      BY <2>1, <2>2, <2>3 DEF ChainsAreHome
  <1> QED
    BY <1>6, <1>8, <1>9, <1>10, <1>11 DEF GenInv

-----------------------------------------------------------------------------
(* Stack switches *)

\* A generator that does not run goes on top of the running ones, with an order
\* already obeyed and the machine on its stack.
LEMMA PushStep ==
  ASSUME GenInv, status = "running",
         NEW g \in Generators, NEW f \in GenRecord,
         g \in registry, ~Active(g), Len(generators) < MAX_GENERATORS,
         f.caller = cur, f.stackTop = Depth(cur),
         f.started, ~f.completed, ~f.throwing, ~f.returning,
         Push(g, f), cur' = g, UNCHANGED <<frames, status, registry>>,
         raising' \in BOOLEAN
  PROVE  GenInv'
  <1> USE RunningFacts, StacksDiffer
  <1> DEFINE n == Len(generators)
  <1> DEFINE r == [f EXCEPT !.callerHead = head, !.parked = {}]
  <1>1. /\ n \in Nat /\ DOMAIN generators = 1..n /\ \A i \in 1..n : generators[i] \in Generators
        /\ generators \in Seq(Generators) /\ n < MAX_GENERATORS /\ MAX_GENERATORS \in Nat
    BY StackTypes, StackBounds DEF GenTypeOK
  <1>2. /\ generators' \in Seq(Generators) /\ Len(generators') = n + 1
        /\ DOMAIN generators' = 1..(n + 1)
        /\ \A i \in 1..n : generators'[i] = generators[i]
        /\ generators'[n + 1] = g
    BY <1>1, Appended DEF Push
  <1>3. /\ r \in GenRecord /\ r.parked = {} /\ r.callerHead = head
        /\ r.caller = cur /\ r.stackTop = Depth(cur)
        /\ r.started /\ ~r.completed /\ ~r.throwing /\ ~r.returning
    BY DEF GenRecord, GenTypeOK
  <1> HIDE DEF r
  <1>4. gen \in [Generators -> GenRecord] /\ gen' = [gen EXCEPT ![g] = r]
    BY DEF Push, GenTypeOK, GenRecord, r
  <1>5. /\ gen' \in [Generators -> GenRecord] /\ gen'[g] = r
        /\ \A x \in Generators : x # g => gen'[x] = gen[x]
    BY ONLY <1>3, <1>4, g \in Generators
  <1>6. head' = Chain(g) /\ head = Chain(cur)
    BY DEF Push, ChainsAreHome
  <1>7. GenTypeOK'
    <2>1. head' \in SUBSET Records
      BY <1>4 DEF Push, GenRecord
    <2>2. cur' \in Stacks
      BY DEF Stacks
    <2>3. n + 1 <= MAX_GENERATORS
      BY <1>1
    <2>4. GenTypeOK /\ frames' = frames /\ registry' = registry /\ status' = status
      OBVIOUS
    <2> HIDE DEF n
    <2>5. generators' \in Seq(Generators) /\ Len(generators') <= MAX_GENERATORS
      BY ONLY <1>2, <2>3
    <2>6. /\ frames' \in [Stacks -> Seq([linked : BOOLEAN, prev : SUBSET Records])]
          /\ registry' \in SUBSET Generators
          /\ status' \in {"running", "aborted", "undefined"}
      BY ONLY <2>4 DEF GenTypeOK
    <2> QED
      BY ONLY <1>5, <2>1, <2>2, <2>5, <2>6, raising' \in BOOLEAN DEF GenTypeOK, GenRecord
  <1>8. \A x : Active(x)' <=> Active(x) \/ x = g
    BY <1>1, <1>2 DEF Active
  <1>9. /\ \A i \in 1..(n + 1) : Below(i)' = Below(i)
        /\ Below(n + 1) = cur /\ Below(Len(generators) + 1)' = g
    <2>1. \A i \in 2..(n + 1) : i - 1 \in 1..n
      OBVIOUS
    <2>2. \A i \in 1..(n + 1) : Below(i)' = Below(i)
      <3> SUFFICES ASSUME NEW i \in 1..(n + 1)
                   PROVE  Below(i)' = Below(i)
        OBVIOUS
      <3>1. i = 1 \/ i \in 2..(n + 1)
        BY <1>1
      <3>2. i # 1 => generators'[i - 1] = generators[i - 1]
        BY ONLY <2>1, <3>1, <1>2
      <3> QED
        BY ONLY <3>2 DEF Below
    <2>3. (n + 1) + 1 # 1 /\ ((n + 1) + 1) - 1 = n + 1
      BY <1>1
    <2>4. Below(Len(generators) + 1)' = g
      BY <2>3, <1>2 DEF Below
    <2> QED
      BY <2>2, <2>4
  <1>10. \A i \in 1..n : generators[i] # g
    BY <1>1 DEF Active
  <1>11. PrevIsOwn'
    BY DEF PrevIsOwn, Depth
  <1>12. \A s : Chain(s)' = Chain(s)
    BY DEF Chain
  <1>13. ChainsAreHome'
    <2>1. head' = Chain(cur)'
      BY <1>6 DEF Chain
    <2>2. ASSUME NEW x \in registry'
          PROVE  gen'[x].parked = IF Active(x)' THEN {} ELSE Chain(x)'
      <3>1. x \in registry /\ x \in Generators
        BY DEF GenTypeOK
      <3>2. gen[x].parked = IF Active(x) THEN {} ELSE Chain(x)
        BY <3>1 DEF ChainsAreHome
      <3> QED
        BY <1>3, <1>5, <1>8, <1>12, <3>1, <3>2
    <2>3. ASSUME NEW i \in DOMAIN generators'
          PROVE  gen'[generators'[i]].callerHead = Chain(Below(i))'
      <3>1. CASE i = n + 1
        <4>1. gen'[generators'[i]].callerHead = Chain(cur)
          BY <3>1, <1>2, <1>3, <1>5, <1>6
        <4>2. Below(i)' = cur
          BY <3>1, <1>9, <1>1
        <4> QED
          BY <4>1, <4>2 DEF Chain
      <3>2. CASE i \in 1..n
        <4>1. gen[generators[i]].callerHead = Chain(Below(i))
          BY <3>2, <1>1 DEF ChainsAreHome
        <4>2. gen'[generators'[i]].callerHead = gen[generators[i]].callerHead
          BY <3>2, <1>1, <1>2, <1>5, <1>10
        <4>3. Below(i)' = Below(i)
          BY <3>2, <1>9, <1>1
        <4> QED
          BY <4>1, <4>2, <4>3 DEF Chain
      <3> QED
        BY <3>1, <3>2, <1>1, <1>2
    <2> QED
      BY <2>1, <2>2, <2>3 DEF ChainsAreHome
  <1>14. Lives'
    <2>1. \A i, j \in DOMAIN generators' : generators'[i] = generators'[j] => i = j
      <3>1. \A i, j \in 1..n : generators[i] = generators[j] => i = j
        BY <1>1 DEF Lives
      <3>2. 1..(n + 1) = (1..n) \cup {n + 1}
        BY <1>1
      <3> QED
        BY <1>2, <1>10, <3>1, <3>2
    <2>2. \A x \in Generators : x # g =>
             /\ x \notin registry => frames[x] = <<>> /\ (gen'[x] = NewGenerator \/ gen'[x].completed)
             /\ ~gen'[x].started \/ gen'[x].completed => frames[x] = <<>> /\ ~Active(x)'
             /\ gen'[x].started /\ ~gen'[x].completed => Active(x)' \/ gen'[x].context = "yield"
      BY <1>5, <1>8 DEF Lives
    <2>3. g \in registry /\ gen'[g].started /\ ~gen'[g].completed /\ Active(g)'
      BY <1>3, <1>5, <1>8
    <2> QED
      BY <2>1, <2>2, <2>3 DEF Lives
  <1>15. ChainIsStack'
    <2>1. cur' = Below(Len(generators) + 1)'
      BY <1>9
    <2>2. ASSUME NEW i \in DOMAIN generators'
          PROVE  /\ gen'[generators'[i]].caller = Below(i)'
                 /\ gen'[generators'[i]].stackTop = Depth(Below(i))'
                 /\ generators'[i] \in registry'
      <3>1. CASE i = n + 1
        <4>1. Below(i)' = cur
          BY <3>1, <1>9, <1>1
        <4>2. /\ gen'[generators'[i]].caller = cur
              /\ gen'[generators'[i]].stackTop = Depth(cur)
              /\ generators'[i] \in registry'
          BY <3>1, <1>2, <1>3, <1>5
        <4> QED
          BY <4>1, <4>2 DEF Depth
      <3>2. CASE i \in 1..n
        <4>1. /\ gen[generators[i]].caller = Below(i)
              /\ gen[generators[i]].stackTop = Depth(Below(i))
              /\ generators[i] \in registry
          BY <3>2, <1>1 DEF ChainIsStack
        <4>2. gen'[generators'[i]] = gen[generators[i]] /\ generators'[i] = generators[i]
          BY <3>2, <1>1, <1>2, <1>5, <1>10
        <4>3. Below(i)' = Below(i)
          BY <3>2, <1>9, <1>1
        <4> QED
          BY <4>1, <4>2, <4>3 DEF Depth
      <3> QED
        BY <3>1, <3>2, <1>1, <1>2
    <2> QED
      BY <2>1, <2>2 DEF ChainIsStack
  <1>16. OrdersObeyed'
    BY <1>3, <1>5, <1>8 DEF OrdersObeyed
  <1> QED
    BY <1>7, <1>11, <1>13, <1>14, <1>15, <1>16 DEF GenInv

\* The running generator leaves its stack to the functions h, none if it has
\* completed, and the machine goes back to the stack below.
LEMMA PopStep ==
  ASSUME GenInv, status = "running", cur # Main,
         NEW f \in GenRecord, NEW h \in {frames[cur], <<>>},
         f.started, f.completed => h = <<>>, ~f.completed => f.context = "yield",
         ~f.throwing, ~f.returning,
         frames' = [frames EXCEPT ![cur] = h], Pop(Own(cur, h, Len(h)), f),
         UNCHANGED <<status, registry>>, raising' \in BOOLEAN
  PROVE  GenInv'
  <1> USE RunningFacts, StacksDiffer
  <1>0. PICK n : n = Len(generators)
    OBVIOUS
  <1> DEFINE c == Own(cur, h, Len(h))
  <1> DEFINE r == [f EXCEPT !.parked = c, !.callerHead = {}]
  <1>1. /\ n \in Nat /\ DOMAIN generators = 1..n /\ \A i \in 1..n : generators[i] \in Generators
        /\ generators \in Seq(Generators) /\ n <= MAX_GENERATORS /\ MAX_GENERATORS \in Nat
        /\ n > 0 /\ cur = generators[n] /\ cur \in Generators /\ cur \in Stacks
        /\ n - 1 \in 0..n
    <2>1. /\ n \in Nat /\ DOMAIN generators = 1..n /\ \A i \in 1..n : generators[i] \in Generators
          /\ cur \in Stacks
      BY <1>0, StackTypes
    <2>2. /\ generators \in Seq(Generators) /\ n <= MAX_GENERATORS /\ MAX_GENERATORS \in Nat
      BY <1>0, StackBounds DEF GenTypeOK
    <2>3. n > 0 /\ cur = generators[n]
      BY <1>0
    <2>4. n - 1 \in 0..n /\ n \in 1..n
      BY <2>1, <2>3
    <2> QED
      BY <2>1, <2>2, <2>3, <2>4
  <1>2. /\ generators' \in Seq(Generators) /\ Len(generators') = n - 1
        /\ DOMAIN generators' = 1..(n - 1)
        /\ \A i \in 1..(n - 1) : generators'[i] = generators[i]
    BY <1>0, <1>1, PrefixOf DEF Pop
  <1>3. h \in Seq(Frame) /\ Len(h) \in Nat /\ Len(h) <= MaxFrames /\ c \in SUBSET Records
    <2>1. h \in Seq(Frame) /\ Len(h) \in Nat /\ Len(h) <= MaxFrames
      <3>1. CASE h = frames[cur]
        BY <3>1
      <3>2. CASE h = <<>>
        BY <3>2, StackBounds
      <3> QED
        BY <3>1, <3>2
    <2> QED
      BY <2>1, <1>1, OwnIsRecords
  <1> HIDE DEF c
  <1>4. /\ r \in GenRecord /\ r.parked = c
        /\ r.started /\ (r.completed => h = <<>>) /\ (~r.completed => r.context = "yield")
        /\ ~r.throwing /\ ~r.returning
    BY <1>3 DEF GenRecord
  <1>5. /\ gen \in [Generators -> GenRecord] /\ gen' = [gen EXCEPT ![cur] = r]
        /\ cur' = gen[cur].caller /\ head' = gen[cur].callerHead
    BY <1>0, <1>1 DEF Pop, GenTypeOK, GenRecord, c
  <1> HIDE DEF r
  <1>6. /\ gen' \in [Generators -> GenRecord] /\ gen'[cur] = r
        /\ \A x \in Generators : x # cur => gen'[x] = gen[x]
    BY <1>1, <1>4, <1>5
  <1>7. frames \in [Stacks -> Seq(Frame)]
    BY DEF GenTypeOK, Frame
  <1>8. /\ frames' \in [Stacks -> Seq(Frame)] /\ frames'[cur] = h
        /\ \A s \in Stacks : s # cur => frames'[s] = frames[s]
    BY <1>1, <1>3, <1>7
  <1>9. n \in DOMAIN generators /\ cur' = Below(n) /\ head' = Chain(Below(n))
    BY <1>1, <1>5 DEF ChainIsStack, ChainsAreHome
  <1>10. \A i \in 1..n : Below(i)' = Below(i) /\ Below(i) # cur /\ Below(i) \in Stacks
    <2>1. \A i \in 2..n : i - 1 \in 1..(n - 1)
      BY <1>1
    <2>2. \A i \in 1..n : Below(i)' = Below(i)
      BY <2>1, <1>2 DEF Below
    <2> QED
      BY <2>2, <1>1
  <1>11. \A i \in 1..(n - 1) : i \in 1..n /\ generators[i] # cur /\ generators[i] \in Generators
    <2> TAKE i \in 1..(n - 1)
    <2>1. i \in DOMAIN generators /\ n \in DOMAIN generators /\ i # n
      BY <1>1
    <2> QED
      BY <2>1, <1>1 DEF Lives
  <1>12. \A x : Active(x)' <=> Active(x) /\ x # cur
    <2>1. 1..n = (1..(n - 1)) \cup {n}
      BY <1>1
    <2>2. \A x : Active(x)' <=> \E i \in 1..(n - 1) : generators[i] = x
      BY <1>2 DEF Active
    <2> QED
      <3>1. \A x : Active(x) <=> \E i \in 1..n : generators[i] = x
        BY <1>1 DEF Active
      <3>2. \A x : Active(x) <=> (\E i \in 1..(n - 1) : generators[i] = x) \/ x = cur
        BY <2>1, <3>1, <1>1
      <3> QED
        BY <2>2, <3>2, <1>11
  <1>13. \A s \in Stacks : s # cur => Chain(s)' = Chain(s)
    BY <1>8 DEF Chain
  <1>14. Chain(cur)' = Chain(Below(n)) /\ Own(cur, frames'[cur], Len(frames'[cur])) = c
    <2>1. n \in 1..n
      BY <1>1
    <2>2. frames'[Below(n)] = frames[Below(n)]
      BY <2>1, <1>8, <1>10
    <2> QED
      BY <1>8, <1>9, <2>2 DEF Chain, c
  <1>15. GenTypeOK'
    <2>1. head' \in SUBSET Records /\ cur' \in Stacks
      BY <1>1, <1>5 DEF GenRecord
    <2>2. n - 1 <= MAX_GENERATORS
      BY <1>1
    <2>3. GenTypeOK /\ registry' = registry /\ status' = status
      OBVIOUS
    <2> QED
      BY ONLY <1>2, <1>6, <1>8, <2>1, <2>2, <2>3, raising' \in BOOLEAN DEF GenTypeOK, GenRecord, Frame
  <1>16. PrevIsOwn'
    <2>1. CASE h = frames[cur]
      BY <2>1, <1>7 DEF PrevIsOwn, Depth
    <2>2. CASE h = <<>>
      BY <2>2, <1>8, StackBounds DEF PrevIsOwn, Depth
    <2> QED
      BY <2>1, <2>2
  <1>17. ChainsAreHome'
    <2>1. head' = Chain(cur)'
      BY <1>9, <1>14
    <2>2. ASSUME NEW x \in registry'
          PROVE  gen'[x].parked = IF Active(x)' THEN {} ELSE Chain(x)'
      <3>1. x \in registry /\ x \in Generators /\ x \in Stacks
        BY StackTypes DEF GenTypeOK
      <3>2. CASE x = cur
        <4>1. gen'[x].parked = c /\ ~Active(x)'
          BY <3>2, <1>4, <1>6, <1>12
        <4>2. Chain(x)' = c
          BY <3>2, <1>14 DEF Chain
        <4> QED
          BY <4>1, <4>2
      <3>3. CASE x # cur
        BY <3>1, <3>3, <1>6, <1>12, <1>13 DEF ChainsAreHome
      <3> QED
        BY <3>2, <3>3
    <2>3. ASSUME NEW i \in DOMAIN generators'
          PROVE  gen'[generators'[i]].callerHead = Chain(Below(i))'
      <3>1. i \in 1..(n - 1) /\ i \in 1..n
        BY <1>1, <1>2
      <3>2. gen[generators[i]].callerHead = Chain(Below(i))
        BY <3>1, <1>1 DEF ChainsAreHome
      <3>3. gen'[generators'[i]] = gen[generators[i]]
        BY <3>1, <1>2, <1>6, <1>11
      <3>4. Below(i)' = Below(i) /\ frames'[Below(i)] = frames[Below(i)]
        BY <3>1, <1>8, <1>10
      <3> QED
        BY <3>2, <3>3, <3>4 DEF Chain
    <2> QED
      BY <2>1, <2>2, <2>3 DEF ChainsAreHome
  <1>18. Lives'
    <2>1. \A i, j \in DOMAIN generators' : generators'[i] = generators'[j] => i = j
      BY <1>1, <1>2, <1>11 DEF Lives
    <2>2. \A x \in Generators : x # cur =>
             /\ x \notin registry => frames'[x] = <<>> /\ (gen'[x] = NewGenerator \/ gen'[x].completed)
             /\ ~gen'[x].started \/ gen'[x].completed => frames'[x] = <<>> /\ ~Active(x)'
             /\ gen'[x].started /\ ~gen'[x].completed => Active(x)' \/ gen'[x].context = "yield"
      BY <1>6, <1>8, <1>12, StackTypes DEF Lives
    <2>3. \A x \in Generators : x = cur =>
             /\ x \in registry /\ ~Active(x)' /\ gen'[x].started
             /\ (gen'[x].completed => frames'[x] = <<>>)
             /\ (~gen'[x].completed => gen'[x].context = "yield")
      <3>1. Active(cur)
        BY <1>1 DEF Active
      <3> QED
        BY <3>1, <1>1, <1>4, <1>6, <1>8, <1>12
    <2> QED
      BY <2>1, <2>2, <2>3 DEF Lives
  <1>19. ChainIsStack'
    <2>1. cur' = Below(Len(generators) + 1)'
      <3>1. n = (n - 1) + 1 /\ n \in 1..n
        BY <1>1
      <3>2. Below(n)' = Below(n) /\ Len(generators') + 1 = n
        BY <3>1, <1>2, <1>10
      <3> QED
        BY <3>2, <1>9 DEF Below
    <2>2. ASSUME NEW i \in DOMAIN generators'
          PROVE  /\ gen'[generators'[i]].caller = Below(i)'
                 /\ gen'[generators'[i]].stackTop = Depth(Below(i))'
                 /\ generators'[i] \in registry'
      <3>1. i \in 1..(n - 1) /\ i \in 1..n
        BY <1>1, <1>2
      <3>2. /\ gen[generators[i]].caller = Below(i)
            /\ gen[generators[i]].stackTop = Depth(Below(i))
            /\ generators[i] \in registry
        BY <3>1, <1>1 DEF ChainIsStack
      <3>3. gen'[generators'[i]] = gen[generators[i]] /\ generators'[i] = generators[i]
        BY <3>1, <1>2, <1>6, <1>11
      <3>4. Below(i)' = Below(i) /\ frames'[Below(i)] = frames[Below(i)]
        BY <3>1, <1>8, <1>10
      <3> QED
        BY <3>2, <3>3, <3>4 DEF Depth
    <2> QED
      BY <2>1, <2>2 DEF ChainIsStack
  <1>20. OrdersObeyed'
    <2>1. \A x \in Generators : x # cur => frames'[x] = frames[x]
      BY <1>8, StackTypes
    <2> QED
      BY <2>1, <1>4, <1>6, <1>8, <1>12 DEF OrdersObeyed
  <1> QED
    BY <1>15, <1>16, <1>17, <1>18, <1>19, <1>20 DEF GenInv

\* Resuming a generator, with or without an order, whatever it was doing.
LEMMA ResumeStep ==
  ASSUME GenInv, status = "running", NEW g \in Generators, NEW f \in GenRecord,
         g \in registry, f.started, ~f.completed, ~gen[g].completed,
         f.context = gen[g].context, ~(f.throwing /\ f.returning),
         f.throwing \/ f.returning => gen[g].started,
         Resume(g, f)
  PROVE  GenInv'
  <1> USE RunningFacts
  <1> DEFINE e == [f EXCEPT !.caller = cur, !.stackTop = Depth(cur)]
  <1>1. /\ e \in GenRecord /\ e.caller = cur /\ e.stackTop = Depth(cur)
        /\ e.started /\ ~e.completed /\ e.context = gen[g].context
        /\ e.throwing = f.throwing /\ e.returning = f.returning
    <2>1. cur \in Stacks /\ Depth(cur) \in Nat
      BY StackTypes
    <2> QED
      BY <2>1 DEF GenRecord
  <1> HIDE DEF e
  <1> DEFINE o == [e EXCEPT !.throwing = FALSE, !.returning = e.returning /\ e.throwing]
  <1>2. /\ o \in GenRecord /\ o.caller = cur /\ o.stackTop = Depth(cur)
        /\ o.started /\ ~o.completed /\ ~o.throwing /\ ~o.returning
    BY <1>1 DEF GenRecord
  <1>3. registry' = registry
    BY DEF Resume
  <1>4. CASE Swap(g, f)
    <2>1. ~Active(g) /\ Len(generators) < MAX_GENERATORS
      <3>1. Len(generators) \in Nat /\ MAX_GENERATORS \in Nat
        BY StackTypes, StackBounds
      <3> QED
        BY <3>1, <1>4 DEF Swap, Nested
    <2>2. cur' = g /\ UNCHANGED <<frames, status>> /\ Land(g, e)
      BY <1>4 DEF Swap, e
    <2>3. CASE e.context = "trampoline"
      <3>1. ~e.throwing /\ ~e.returning
        BY <2>1, <2>3, <1>1 DEF Lives
      <3>2. Push(g, e) /\ raising' = FALSE
        BY <2>2, <2>3 DEF Land
      <3> QED
        BY <1>1, <1>3, <2>1, <2>2, <3>1, <3>2, PushStep
    <2>4. CASE e.context # "trampoline"
      <3>1. Push(g, o) /\ raising' = (e.throwing \/ e.returning)
        BY <2>2, <2>4 DEF Land
      <3>2. raising' \in BOOLEAN
        BY <3>1
      <3> HIDE DEF o
      <3> QED
        BY <1>2, <1>3, <2>1, <2>2, <3>1, <3>2, PushStep
    <2> QED
      BY <2>3, <2>4
  <1>5. CASE Reenter(g, f)
    <2>1. cur' = g /\ status' = "undefined" /\ frames' = frames /\ Land(g, e)
      BY <1>5 DEF Reenter, e
    <2>2. PICK d \in GenRecord : Push(g, d) /\ raising' \in BOOLEAN
      <3>1. CASE e.context = "trampoline"
        BY <2>1, <3>1, <1>1 DEF Land
      <3>2. CASE e.context # "trampoline"
        BY <2>1, <3>2, <1>2 DEF Land
      <3> QED
        BY <3>1, <3>2
    <2>3. Len(generators) < MAX_GENERATORS /\ generators \in Seq(Generators)
      <3>1. Len(generators) \in Nat /\ MAX_GENERATORS \in Nat
        BY StackTypes, StackBounds
      <3> QED
        BY <3>1, <1>5 DEF Reenter, Nested, GenTypeOK
    <2>4. generators' \in Seq(Generators) /\ Len(generators') <= MAX_GENERATORS
      <3>1. generators' = Append(generators, g) /\ Len(generators) \in Nat /\ MAX_GENERATORS \in Nat
        BY <2>2, StackTypes, StackBounds DEF Push
      <3>2. generators' \in Seq(Generators) /\ Len(generators') = Len(generators) + 1
        BY <2>3, <3>1, Appended
      <3> QED
        BY <2>3, <3>1, <3>2
    <2>5. head \in SUBSET Records /\ gen \in [Generators -> GenRecord]
      BY DEF GenTypeOK, GenRecord
    <2>6. head' \in SUBSET Records /\ gen' \in [Generators -> GenRecord]
      <3>1. [d EXCEPT !.callerHead = head, !.parked = {}] \in GenRecord
        BY <2>5 DEF GenRecord
      <3>2. head' = gen[g].parked
        BY <2>2 DEF Push
      <3>3. head' \in SUBSET Records
        BY <2>5, <3>2 DEF GenRecord
      <3> QED
        BY <2>2, <2>5, <3>1, <3>3 DEF Push
    <2>7. GenTypeOK'
      <3>1. g \in Stacks
        BY DEF Stacks
      <3> QED
        BY <1>3, <2>1, <2>2, <2>4, <2>6, <3>1 DEF GenTypeOK, GenRecord
    <2> QED
      BY <2>1, <2>7 DEF GenInv
  <1>6. CASE Abort
    <2>1. UNCHANGED <<cur, frames, head, registry, generators, gen>>
      BY <1>3, <1>6 DEF Abort
    <2>2. raising' \in BOOLEAN /\ status' \in {"running", "aborted", "undefined"}
      BY <1>6 DEF Abort, GenTypeOK
    <2> QED
      BY <2>1, <2>2, RestStep
  <1> QED
    BY <1>4, <1>5, <1>6 DEF Resume

\* next(), throw() and return() of a generator that has not completed
LEMMA AdvanceStep ==
  ASSUME GenInv, NEW g \in Generators, Advance(g) \/ ThrowInto(g) \/ ReturnInto(g)
  PROVE  GenInv'
  <1>0. status = "running" /\ g \in registry /\ ~gen[g].completed
    BY DEF Advance, ThrowInto, ReturnInto, Callable, Running
  <1> USE RunningFacts, <1>0
  <1>1. gen[g] \in GenRecord /\ ~gen[g].throwing /\ ~gen[g].returning
    BY DEF GenTypeOK, GenRecord, OrdersObeyed
  <1>2. CASE Advance(g)
    <2> DEFINE f == [gen[g] EXCEPT !.started = TRUE]
    <2>1. /\ f \in GenRecord /\ f.started /\ ~f.completed /\ f.context = gen[g].context
          /\ ~f.throwing /\ ~f.returning
      BY <1>1 DEF GenRecord
    <2>2. Resume(g, f)
      BY <1>2 DEF Advance
    <2> HIDE DEF f
    <2> QED
      BY <2>1, <2>2, ResumeStep
  <1>3. CASE ThrowInto(g)
    <2> DEFINE f == [gen[g] EXCEPT !.throwing = TRUE]
    <2>1. /\ f \in GenRecord /\ f.started /\ ~f.completed /\ f.context = gen[g].context
          /\ ~f.returning /\ gen[g].started
      BY <1>1, <1>3 DEF GenRecord, ThrowInto
    <2>2. Resume(g, f)
      BY <1>3 DEF ThrowInto
    <2> HIDE DEF f
    <2> QED
      BY <2>1, <2>2, ResumeStep
  <1>4. CASE ReturnInto(g)
    <2> DEFINE f == [gen[g] EXCEPT !.returning = TRUE]
    <2>1. /\ f \in GenRecord /\ f.started /\ ~f.completed /\ f.context = gen[g].context
          /\ ~f.throwing /\ gen[g].started
      BY <1>1, <1>4 DEF GenRecord, ReturnInto
    <2>2. Resume(g, f)
      BY <1>4 DEF ReturnInto
    <2> HIDE DEF f
    <2> QED
      BY <2>1, <2>2, ResumeStep
  <1> QED
    BY <1>2, <1>3, <1>4

LEMMA YieldStep ==
  ASSUME GenInv, Yield
  PROVE  GenInv'
  <1>0. status = "running" /\ cur # Main
    BY DEF Yield, Running
  <1> USE RunningFacts, StacksDiffer, <1>0
  <1> DEFINE f == [gen[cur] EXCEPT !.context = "yield"]
  <1>1. cur \in Generators /\ Active(cur)
    <2>1. cur = generators[Len(generators)] /\ Len(generators) > 0 /\ Len(generators) \in Nat
      BY StackTypes
    <2>2. Len(generators) \in DOMAIN generators
      BY <2>1, StackTypes
    <2> QED
      BY <2>1, <2>2, StackTypes DEF Active
  <1>2. /\ gen[cur] \in GenRecord /\ ~gen[cur].throwing /\ ~gen[cur].returning
        /\ gen[cur].started /\ ~gen[cur].completed
    BY <1>1 DEF GenTypeOK, GenRecord, OrdersObeyed, Lives
  <1>3. f \in GenRecord /\ f.started /\ ~f.completed /\ f.context = "yield" /\ ~f.throwing /\ ~f.returning
    BY <1>2 DEF GenRecord
  <1> DEFINE h == frames[cur]
  <1>4. Pop(Own(cur, h, Len(h)), f)
    BY DEF Yield
  <1>5. frames' = [frames EXCEPT ![cur] = h]
    BY DEF Yield, GenTypeOK
  <1>6. UNCHANGED <<status, registry>> /\ raising' \in BOOLEAN /\ h \in {frames[cur], <<>>}
    BY DEF Yield, GenTypeOK
  <1> HIDE DEF f, h
  <1> QED
    BY <1>3, <1>4, <1>5, <1>6, PopStep

LEMMA CompleteStep ==
  ASSUME GenInv, Complete
  PROVE  GenInv'
  <1>0. status = "running" /\ cur # Main
    BY DEF Complete, Running
  <1> USE RunningFacts, StacksDiffer, <1>0
  <1> DEFINE f == [gen[cur] EXCEPT !.completed = TRUE]
  <1>1. cur \in Generators /\ Active(cur)
    <2>1. cur = generators[Len(generators)] /\ Len(generators) > 0 /\ Len(generators) \in Nat
      BY StackTypes
    <2>2. Len(generators) \in DOMAIN generators
      BY <2>1, StackTypes
    <2> QED
      BY <2>1, <2>2, StackTypes DEF Active
  <1>2. /\ gen[cur] \in GenRecord /\ ~gen[cur].throwing /\ ~gen[cur].returning
        /\ gen[cur].started
    BY <1>1 DEF GenTypeOK, GenRecord, OrdersObeyed, Lives
  <1>3. f \in GenRecord /\ f.started /\ f.completed /\ ~f.throwing /\ ~f.returning
    BY <1>2 DEF GenRecord
  <1> DEFINE h == <<>>
  <1>4. Pop(Own(cur, h, Len(h)), f)
    <2>1. Own(cur, h, Len(h)) = {}
      BY DEF Own
    <2> QED
      BY <2>1 DEF Complete
  <1>5. frames' = [frames EXCEPT ![cur] = h]
    BY DEF Complete
  <1>6. UNCHANGED <<status, registry>> /\ raising' \in BOOLEAN /\ h \in {frames[cur], <<>>}
    BY DEF Complete, GenTypeOK
  <1> HIDE DEF f
  <1> QED
    BY <1>3, <1>4, <1>5, <1>6, PopStep

-----------------------------------------------------------------------------
(* The theorems *)

LEMMA InitHolds ==
  ASSUME Init
  PROVE  GenInv
  <1>1. NewGenerator \in GenRecord /\ Main \in Stacks
    BY NewIsRecord DEF Stacks
  <1>2. generators = <<>> /\ Len(generators) = 0 /\ DOMAIN generators = {} /\ \A g : ~Active(g)
    BY DEF Init, Active
  <1>3. GenTypeOK
    <2>1. gen \in [Generators -> GenRecord]
      BY <1>1 DEF Init
    <2>2. frames \in [Stacks -> Seq(Frame)] /\ generators \in Seq(Generators)
      BY <1>2 DEF Init
    <2>3. cur \in Stacks /\ head = {} /\ raising = FALSE /\ registry = {} /\ status = "running"
      BY <1>1 DEF Init
    <2>4. Len(generators) <= MAX_GENERATORS
      BY <1>2, StackBounds
    <2> HIDE DEF Init
    <2> QED
      BY <2>1, <2>2, <2>3, <2>4 DEF GenTypeOK, GenRecord, Frame
  <1>4. PrevIsOwn
    BY StackBounds DEF Init, PrevIsOwn, Depth
  <1>5. ChainsAreHome
    BY <1>1, <1>2 DEF Init, ChainsAreHome, Chain, Own
  <1>6. Lives
    <2>1. \A g \in Generators : frames[g] = <<>> /\ gen[g] = NewGenerator
      BY DEF Init, Stacks
    <2>2. ~NewGenerator.started /\ ~NewGenerator.completed
      BY DEF NewGenerator
    <2> HIDE DEF NewGenerator
    <2> QED
      BY <1>2, <2>1, <2>2 DEF Lives
  <1>7. ChainIsStack
    BY <1>2 DEF Init, ChainIsStack, Below
  <1>8. OrdersObeyed
    BY <1>2 DEF Init, OrdersObeyed, NewGenerator
  <1> QED
    BY <1>3, <1>4, <1>5, <1>6, <1>7, <1>8 DEF GenInv

\* GenInv is inductive: wherever functions call, return, throw, catch, yield,
\* finish or are resumed, every chain stays what its own stack linked and stays
\* where the next switch looks for it.
THEOREM GenInvariance == Spec => []GenInv
  <1>1. Init => GenInv
    BY InitHolds
  <1>2. GenInv /\ [Next]_vars => GenInv'
    <2> SUFFICES ASSUME GenInv, [Next]_vars PROVE GenInv'
      OBVIOUS
    <2>1. ASSUME NEW l \in BOOLEAN, Call(l) PROVE GenInv'
      BY <2>1, CallStep
    <2>2. CASE Return
      BY <2>2, ReturnStep
    <2>3. CASE Throw
      BY <2>3, ThrowStep
    <2>4. CASE Yield
      BY <2>4, YieldStep
    <2>5. CASE Complete
      BY <2>5, CompleteStep
    <2>6. ASSUME NEW k \in 0..MaxFrames, NativeCatch(k) PROVE GenInv'
      BY <2>6, NativeCatchStep
    <2>7. ASSUME NEW k \in 0..MaxFrames, EmittedCatch(k) PROVE GenInv'
      BY <2>7, EmittedCatchStep
    <2>8. ASSUME NEW g \in Generators, New(g) PROVE GenInv'
      BY <2>8, NewStep
    <2>9. ASSUME NEW g \in Generators, Advance(g) \/ ThrowInto(g) \/ ReturnInto(g) PROVE GenInv'
      BY <2>9, AdvanceStep
    <2>10. ASSUME NEW g \in Generators, ReturnUnstarted(g) PROVE GenInv'
      BY <2>10, ReturnUnstartedStep
    <2>11. ASSUME NEW g \in Generators, Finalize(g) PROVE GenInv'
      BY <2>11, FinalizeStep
    <2>12. CASE UNCHANGED vars
      <3>1. UNCHANGED <<cur, frames, head, registry, generators, gen>> /\ status' = status
        BY <2>12 DEF vars
      <3>2. raising' \in BOOLEAN /\ status' \in {"running", "aborted", "undefined"}
        BY <2>12 DEF vars, GenInv, GenTypeOK
      <3> QED
        BY <3>1, <3>2, RestStep
    <2> QED
      BY <2>1, <2>2, <2>3, <2>4, <2>5, <2>6, <2>7, <2>8, <2>9, <2>10, <2>11, <2>12 DEF Next
  <1> QED
    BY <1>1, <1>2, PTL DEF Spec

\* Every variable keeps its type, and generators[] never runs over its array.
THEOREM Types == Spec => []GenTypeOK
  <1>1. GenInv => GenTypeOK
    BY DEF GenInv
  <1> QED
    BY <1>1, GenInvariance, PTL

\* generators[] is the stack of stacks that the machine returns through, with the
\* extent of each.
THEOREM StackOfStacks == Spec => []ChainIsStack
  <1>1. GenInv => ChainIsStack
    BY DEF GenInv, ChainIsStack
  <1> QED
    BY <1>1, GenInvariance, PTL

\* No order outlives the switch that brings it, no completed generator runs.
THEOREM Orders == Spec => []OrdersObeyed
  <1>1. GenInv => OrdersObeyed
    BY DEF GenInv, OrdersObeyed
  <1> QED
    BY <1>1, GenInvariance, PTL

\* Every stack is the running one, suspended below a running generator, parked
\* with its generator, or without functions.
LEMMA StackPlaces ==
  ASSUME GenTypeOK, Lives, ChainIsStack, status # "undefined", NEW s \in Stacks
  PROVE  \/ s = cur
         \/ \E i \in DOMAIN generators : s = Below(i)
         \/ s \in registry /\ ~Active(s)
         \/ s # Main /\ frames[s] = <<>>
  <1> USE StackTypes, StacksDiffer
  <1>0. PICK n : n = Len(generators)
    OBVIOUS
  <1>1. n \in Nat /\ DOMAIN generators = 1..n /\ cur = Below(n + 1)
    BY <1>0
  <1>2. CASE s = Main
    <2>1. Below(1) = Main
      BY DEF Below
    <2>2. n = 0 \/ 1 \in 1..n
      BY <1>1
    <2> QED
      BY <1>1, <1>2, <2>1, <2>2
  <1>3. CASE s # Main
    <2>1. s \in Generators
      BY <1>3 DEF Stacks
    <2>2. CASE Active(s)
      <3>1. PICK i \in 1..n : generators[i] = s
        BY <1>1, <2>2 DEF Active
      <3>2. i + 1 # 1 /\ (i + 1) - 1 = i /\ (i = n \/ i + 1 \in 1..n)
        BY <1>1
      <3>3. s = Below(i + 1)
        BY <3>1, <3>2 DEF Below
      <3> QED
        BY <1>1, <3>2, <3>3
    <2>3. CASE ~Active(s)
      BY <2>1, <2>3, <1>3 DEF Lives
    <2> QED
      BY <2>2, <2>3
  <1> QED
    BY <1>2, <1>3

\* The functions that have not returned are those of the chains of all stacks.
LEMMA LiveIsChains ==
  ASSUME GenTypeOK, PrevIsOwn
  PROVE  LiveRecords = UNION {Chain(s) : s \in Stacks}
  <1>1. \A s \in Stacks : Depth(s) \in Nat /\ Depth(s) <= MaxFrames /\ Depth(s) = Len(frames[s])
    BY StackTypes DEF PrevIsOwn, Depth
  <1>2. ASSUME NEW r \in LiveRecords
        PROVE  \E s \in Stacks : r \in Chain(s)
    <2>1. PICK s \in Stacks, k \in 1..MaxFrames : r = <<s, k>> /\ k <= Depth(s) /\ frames[s][k].linked
      BY DEF LiveRecords, Records
    <2>2. k \in 1..Len(frames[s])
      BY <1>1, <2>1
    <2> QED
      BY <2>1, <2>2 DEF Chain, Own
  <1>3. ASSUME NEW s \in Stacks, NEW r \in Chain(s)
        PROVE  r \in LiveRecords
    <2>1. PICK k \in 1..Len(frames[s]) : r = <<s, k>> /\ frames[s][k].linked
      BY DEF Chain, Own
    <2>2. k \in 1..MaxFrames /\ k <= Depth(s)
      BY <1>1, StackBounds
    <2> QED
      BY <2>1, <2>2 DEF LiveRecords, Records
  <1> QED
    BY <1>2, <1>3

LEMMA ChainsDisjoint ==
  ASSUME NEW s, NEW t, s # t
  PROVE  Chain(s) \cap Chain(t) = {}
  BY OwnDisjoint DEF Chain

\* A collection that starts anywhere walks each record of a function that has not
\* returned, once, and no record of one that has.
THEOREM WalkedOnce == Spec => []FramesWalkedOnce
  <1>1. ASSUME GenInv, status # "undefined"
        PROVE  FramesWalkedOnce
    <2>1. GenTypeOK /\ PrevIsOwn /\ ChainsAreHome /\ Lives /\ ChainIsStack
      BY <1>1 DEF GenInv
    <2> USE <1>1, <2>1, StackTypes, StacksDiffer
    <2>2. head = Chain(cur) /\ cur \in Stacks
      BY DEF ChainsAreHome
    <2>3. \A g \in registry : gen[g].parked = {} \/ (gen[g].parked = Chain(g) /\ ~Active(g))
      BY DEF ChainsAreHome
    <2>4. \A g \in registry : g \in Generators /\ g \in Stacks
      BY DEF GenTypeOK
    <2>5. \A i \in DOMAIN generators : /\ gen[generators[i]].callerHead = Chain(Below(i))
                                       /\ Below(i) \in Stacks /\ Below(i) # cur
      BY DEF ChainsAreHome
    <2>6. \A i, j \in DOMAIN generators : i # j => Below(i) # Below(j)
      <3>1. \A i \in DOMAIN generators : i \in 1..(Len(generators) + 1)
        OBVIOUS
      <3> QED
        BY <3>1
    <2>7. \A g \in registry : ~Active(g) => g # cur /\ \A i \in DOMAIN generators : g # Below(i)
      BY <2>4
    <2> DEFINE walked == head \cup (UNION {gen[g].parked : g \in registry})
                              \cup (UNION {gen[generators[i]].callerHead : i \in DOMAIN generators})
    <2>8. walked \subseteq UNION {Chain(s) : s \in Stacks}
      <3>1. \A g \in registry : gen[g].parked \subseteq UNION {Chain(s) : s \in Stacks}
        BY ONLY <2>3, <2>4
      <3>2. \A i \in DOMAIN generators :
               gen[generators[i]].callerHead \subseteq UNION {Chain(s) : s \in Stacks}
        BY ONLY <2>5
      <3>3. head \subseteq UNION {Chain(s) : s \in Stacks}
        BY ONLY <2>2
      <3>4. ASSUME NEW x \in walked
            PROVE  \/ x \in head
                   \/ \E g \in registry : x \in gen[g].parked
                   \/ \E i \in DOMAIN generators : x \in gen[generators[i]].callerHead
        BY ONLY x \in walked
      <3> HIDE DEF walked
      <3> QED
        BY ONLY <3>1, <3>2, <3>3, <3>4, Zenon
    <2>9. UNION {Chain(s) : s \in Stacks} \subseteq walked
      <3>1. ASSUME NEW s \in Stacks
            PROVE  Chain(s) \subseteq walked
        <4>1. CASE s = cur
          BY ONLY <4>1, <2>2
        <4>2. ASSUME NEW i \in DOMAIN generators, s = Below(i)
              PROVE  Chain(s) \subseteq walked
          <5>1. gen[generators[i]].callerHead = Chain(s)
            BY ONLY <4>2, <2>5, i \in DOMAIN generators
          <5>2. ASSUME NEW x \in gen[generators[i]].callerHead
                PROVE  x \in walked
            BY ONLY i \in DOMAIN generators, x \in gen[generators[i]].callerHead
          <5> QED
            BY ONLY <5>1, <5>2
        <4>3. CASE s \in registry /\ ~Active(s)
          <5>1. gen[s].parked = Chain(s)
            BY <4>3 DEF ChainsAreHome
          <5> QED
            BY <4>3, <5>1
        <4>4. CASE frames[s] = <<>>
          BY <4>4, EmptyChain
        <4> QED
          BY <4>1, <4>2, <4>3, <4>4, StackPlaces
      <3> QED
        BY <3>1
    <2>10. LiveRecords = walked
      BY <2>8, <2>9, LiveIsChains
    <2>11. \A g \in registry : gen[g].parked \cap head = {}
      BY <2>2, <2>3, <2>7, ChainsDisjoint
    <2>12. \A i \in DOMAIN generators : gen[generators[i]].callerHead \cap head = {}
      BY <2>2, <2>5, ChainsDisjoint
    <2>13. \A g, h \in registry : g # h => gen[g].parked \cap gen[h].parked = {}
      BY <2>3, ChainsDisjoint
    <2>14. \A i, j \in DOMAIN generators :
              i # j => gen[generators[i]].callerHead \cap gen[generators[j]].callerHead = {}
      BY <2>5, <2>6, ChainsDisjoint
    <2>15. \A g \in registry, i \in DOMAIN generators :
              gen[g].parked \cap gen[generators[i]].callerHead = {}
      BY <2>3, <2>5, <2>7, ChainsDisjoint
    <2> QED
      BY ONLY <2>10, <2>11, <2>12, <2>13, <2>14, <2>15 DEF FramesWalkedOnce
  <1>2. GenInv => FramesWalkedOnce
    BY <1>1 DEF FramesWalkedOnce
  <1> QED
    BY <1>2, GenInvariance, PTL

=============================================================================
