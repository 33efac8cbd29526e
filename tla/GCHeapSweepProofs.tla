-------------------------- MODULE GCHeapSweepProofs --------------------------
(***************************************************************************)
(* A full collection keeps exactly what is reachable, for heaps of any     *)
(* size: marking gathers nothing that the roots, the stacks and the dirty  *)
(* objects do not lead to, and the sweep frees nothing that they do.       *)
(***************************************************************************)
EXTENDS GCHeapProofs

\* the cells the sweep will keep
Kept == {a \in alloc : ~IsWhite(a)}

\* T holds every kept cell that a full collection starts from, and with a kept
\* cell the kept cells it names
Spread(T) ==
    /\ (Held(Roots) \cup pinned \cup Entries) \cap Kept \subseteq T
    /\ \A b \in T \cap Kept : Refs(b) \cap Kept \subseteq T

\* Marking has kept nothing without a reason.
MarkExact == pc \in MarkPhases => \A T \in SUBSET Addr : Spread(T) => Kept \subseteq T

\* Graying cells from which a full collection starts keeps marking exact.
LEMMA GrayExact ==
  ASSUME TypeOK, Quiet, NEW S \in SUBSET alloc, PushAndGray(S), pinned \subseteq pinned',
         S \subseteq Held(Roots) \cup pinned' \cup Entries,
         NEW T, Spread(T)', Spread(T) => Kept \subseteq T
  PROVE  Kept' \subseteq T
  <1>1. alloc \subseteq Addr /\ epoch \in 0..1 /\ color \in [Addr -> 0..2]
    BY DEF TypeOK
  <1>2. \A a \in Addr : color'[a] = IF a \in S /\ color[a] = 1 - epoch THEN 2 ELSE color[a]
    BY <1>1 DEF PushAndGray, Paint, Whites, IsWhite, Gray
  <1>3. alloc' = alloc /\ epoch' = epoch /\ slot' = slot /\ loc' = loc /\ remset' = remset
    BY DEF Quiet
  <1>4. Kept' = Kept \cup S
    BY <1>1, <1>2, <1>3 DEF Kept, IsWhite
  <1>5. Held(Roots)' = Held(Roots) /\ Entries' = Entries /\ \A b \in Kept : Refs(b)' = Refs(b)
    BY <1>3 DEF Held, Entries, Refs
  <1>6. Spread(T)
    BY <1>4, <1>5 DEF Spread
  <1>7. S \subseteq T
    BY <1>4, <1>5 DEF Spread
  <1> QED
    BY <1>4, <1>6, <1>7

\* Blackening one object keeps marking exact: what it names is kept because it is.
LEMMA MarkStepExact ==
  ASSUME IInv, NEW o \in Addr, FullMark(o), NEW T, Spread(T)', Spread(T) => Kept \subseteq T
  PROVE  Kept' \subseteq T
  <1>1. TypeOK /\ pc = "mark" /\ Quiet /\ pinned' = pinned /\ o \in wl
        /\ color' = [a \in Addr |-> IF a = o THEN epoch
                                    ELSE IF a \in Whites(Refs(o)) THEN Gray ELSE color[a]]
    BY DEF IInv, FullMark, Quiet
  <1>2. MarkInv
    BY <1>1, InMark DEF MarkPhases
  <1>3. alloc \subseteq Addr /\ epoch \in 0..1 /\ color \in [Addr -> 0..2]
    BY <1>1 DEF TypeOK
  <1>4. o \in Kept
    BY <1>1, <1>2, <1>3 DEF MarkInv, Kept, IsWhite, Gray
  <1>5. alloc' = alloc /\ epoch' = epoch /\ slot' = slot /\ loc' = loc /\ remset' = remset
    BY <1>1 DEF Quiet
  <1>6. Kept' = Kept \cup Whites(Refs(o))
    <2>1. Whites(Refs(o)) \subseteq alloc
      BY <1>1, <1>2, <1>3, <1>4, AddressAssumption
      DEF MarkInv, SlotsLive, Kept, Whites, Refs, Addr, Old
    <2> QED
      BY <1>1, <1>3, <1>4, <1>5, <2>1 DEF Kept, IsWhite, Gray, Whites
  <1>7. Held(Roots)' = Held(Roots) /\ Entries' = Entries /\ \A b \in Kept : Refs(b)' = Refs(b)
    BY <1>5 DEF Held, Entries, Refs
  <1>8. Spread(T)
    BY <1>1, <1>6, <1>7 DEF Spread
  <1>9. o \in T
    BY <1>4, <1>8
  <1>10. Whites(Refs(o)) \subseteq T
    BY <1>4, <1>6, <1>7, <1>9 DEF Spread, Whites
  <1> QED
    BY <1>6, <1>8, <1>10

\* Only the full collection's own steps mark.
LEMMA MarkingSteps ==
  ASSUME [Next]_vars, (pc \in MarkPhases)'
  PROVE  \/ FullRoots \/ (\E junk \in StaleWords : FullStacks(junk)) \/ FullDirtyRoots
         \/ (\E o \in Addr : FullMark(o)) \/ UNCHANGED vars
  <1> USE DEF MarkPhases
  <1>1. ~Mutator
    BY DEF Mutator, AllocYoung, AllocLos, AllocFallback, Birth, Store, Load, Move, SetLoc
  <1>2. ~Minor
    BY DEF Minor, MinorBegin, MinorPins, MinorFrames, MinorRoots, MinorRemset, MinorDrain, MinorSweep
  <1>3. ~FullSweep /\ ~CompactRelease /\ ~FullFinish
    BY DEF FullSweep, CompactRelease, FullFinish
  <1>4. /\ \A src \in SUBSET Compactable : ~CompactEvacuate(src)
        /\ \A junk \in StaleWords : \A repinned \in Repinnable(junk) : ~CompactFixup(repinned)
    BY DEF CompactEvacuate, CompactFixup
  <1> QED
    BY <1>1, <1>2, <1>3, <1>4 DEF Next, Full

\* MarkExact is inductive.
LEMMA MarkExactNext ==
  ASSUME IInv, MarkExact, [Next]_vars
  PROVE  MarkExact'
  <1> SUFFICES ASSUME (pc \in MarkPhases)', NEW T \in SUBSET Addr, Spread(T)'
               PROVE  Kept' \subseteq T
    BY DEF MarkExact
  <1>0. TypeOK /\ (pc \in MarkPhases => (Spread(T) => Kept \subseteq T))
    BY DEF IInv, MarkExact
  <1>1. CASE FullRoots
    <2>1. MutatorInv /\ pc = "mutator"
      BY <1>0, <1>1, InMutator DEF FullRoots
    <2>2. Kept = {}
      BY <2>1 DEF MutatorInv, Kept
    <2>3. Quiet /\ PushAndGray(Held(Roots) \cap alloc) /\ pinned' = pinned
      BY <1>1 DEF FullRoots, Quiet
    <2> QED
      BY <1>0, <2>2, <2>3, GrayExact
  <1>2. ASSUME NEW junk \in StaleWords, FullStacks(junk) PROVE Kept' \subseteq T
    <2> DEFINE hits == Ambiguous(CStack \cup Frames, junk)
    <2>1. Quiet /\ PushAndGray(hits) /\ pinned' = pinned \cup hits /\ pc \in MarkPhases
      BY <1>2 DEF FullStacks, Quiet, MarkPhases
    <2>2. hits \in SUBSET alloc
      BY DEF Ambiguous
    <2> HIDE DEF hits
    <2> QED
      BY <1>0, <2>1, <2>2, GrayExact
  <1>3. CASE FullDirtyRoots
    <2>1. Quiet /\ PushAndGray(DirtyRoots) /\ pinned' = pinned /\ pc \in MarkPhases
      BY <1>3 DEF FullDirtyRoots, Quiet, MarkPhases
    <2>2. DirtyRoots \in SUBSET alloc /\ DirtyRoots \subseteq Entries
      BY DEF DirtyRoots
    <2> QED
      BY <1>0, <2>1, <2>2, GrayExact
  <1>4. ASSUME NEW o \in Addr, FullMark(o) PROVE Kept' \subseteq T
    <2>1. pc \in MarkPhases
      BY <1>4 DEF FullMark, MarkPhases
    <2> QED
      BY <1>0, <1>4, <2>1, MarkStepExact
  <1>5. CASE UNCHANGED vars
    <2>1. pc' = pc /\ Kept' = Kept /\ (Spread(T)' <=> Spread(T))
      BY <1>5 DEF vars, heapVars, Spread, Kept, IsWhite, Held, Entries, Refs
    <2> QED
      BY <1>0, <2>1
  <1> QED
    BY <1>1, <1>2, <1>3, <1>4, <1>5, MarkingSteps

\* With the worklist empty, the cells kept are those the collection reaches.
LEMMA SweepStepExact ==
  ASSUME IInv, IInv', MarkExact, FullSweep
  PROVE  SweepExact'
  <1>1. /\ TypeOK /\ pc = "mark" /\ pc' = "compact"
        /\ alloc' = alloc \ FullDead /\ slot' = Blank(FullDead) /\ pinned' = pinned \ FullDead
        /\ loc' = loc /\ remset' = remset
    BY DEF IInv, FullSweep
  <1> DEFINE start == Held(Roots) \cup pinned \cup Entries
  <1>2. alloc' = Kept /\ Kept \subseteq Addr
    BY <1>1 DEF FullDead, Kept, TypeOK
  <1>3. Held(Roots)' = Held(Roots) /\ Entries' = Entries /\ \A b \in Kept : Refs(b)' = Refs(b)
    BY <1>1, <1>2 DEF Held, Entries, Refs, Blank, FullDead, Kept
  <1>4. start \cap Kept \subseteq start' \cap Addr
    BY <1>1, <1>2, <1>3 DEF FullDead, Kept
  <1>5. ASSUME NEW T \in SUBSET Addr, start' \cap Addr \subseteq T,
               \A b \in T : Refs(b)' \cap Addr \subseteq T
        PROVE  Kept \subseteq T
    <2>1. Spread(T)
      BY <1>2, <1>3, <1>4, <1>5 DEF Spread
    <2> QED
      BY <1>1, <2>1 DEF MarkExact, MarkPhases
  <1>6. start' \cap Addr \subseteq Kept
    <2>1. Null \notin Addr
      BY AddressAssumption DEF Addr, Old
    <2>2. Held(Roots)' \subseteq alloc' \cup {Null}
      BY DEF IInv, LocsLive, Held, Locs
    <2>3. pinned' \subseteq alloc' /\ Entries' \subseteq alloc'
      BY DEF IInv, Pins, EntriesOnce, Entries
    <2> QED
      BY <1>2, <2>1, <2>2, <2>3
  <1>7. \A b \in Kept : Refs(b)' \cap Addr \subseteq Kept
    <2>1. Null \notin Addr
      BY AddressAssumption DEF Addr, Old
    <2>2. \A b \in alloc' : Refs(b)' \subseteq alloc' \cup {Null}
      BY DEF IInv, SlotsLive, Refs
    <2> QED
      BY <1>2, <2>1, <2>2
  <1>8. Reach(start)' = Kept
    <2>1. ASSUME NEW a \in Kept PROVE a \in Reach(start)'
      BY <1>2, <1>5 DEF Reach
    <2>2. ASSUME NEW a \in Reach(start)' PROVE a \in Kept
      BY <1>2, <1>6, <1>7 DEF Reach
    <2> QED
      BY <2>1, <2>2
  <1> QED
    BY <1>2, <1>8 DEF SweepExact

\* SweepExact for every heap: what a full collection keeps is what the roots,
\* the pinned cells and the dirty objects reach, no more and no less.
THEOREM SweepIsExact == ASSUME BarrieredFallback PROVE Spec => []SweepExact
  <1> DEFINE Inv == IInv /\ MarkExact /\ SweepExact
  <1>1. Init => Inv
    <2>1. Init => pc = "mutator"
      BY DEF Init
    <2> QED
      BY <2>1, InvInit DEF MarkExact, SweepExact, MarkPhases
  <1>2. Inv /\ [Next]_vars => Inv'
    <2> SUFFICES ASSUME Inv, [Next]_vars PROVE Inv'
      OBVIOUS
    <2>1. IInv' /\ MarkExact'
      BY InvNext, MarkExactNext
    <2>2. SweepExact'
      <3>1. CASE FullSweep
        BY <2>1, <3>1, SweepStepExact
      <3>2. CASE UNCHANGED vars
        BY <3>2 DEF vars, heapVars, SweepExact, Reach, Held, Entries, Refs
      <3>3. CASE ~FullSweep /\ ~UNCHANGED vars
        <4>1. pc' # "compact"
          <5>1. Mutator => pc' # "compact"
            BY DEF Mutator, AllocYoung, AllocLos, AllocFallback, Birth, Store, Load, Move, SetLoc
          <5>2. Minor => pc' # "compact"
            BY DEF Minor, MinorBegin, MinorPins, MinorFrames, MinorRoots, MinorRemset, MinorDrain, MinorSweep
          <5>3. Full => pc' # "compact"
            BY <3>3 DEF Full, FullRoots, FullStacks, FullDirtyRoots, FullMark, CompactEvacuate,
                        CompactFixup, CompactRelease, FullFinish
          <5> QED
            BY <3>3, <5>1, <5>2, <5>3 DEF Next
        <4> QED
          BY <4>1 DEF SweepExact
      <3> QED
        BY <3>1, <3>2, <3>3
    <2> QED
      BY <2>1, <2>2
  <1> QED
    BY <1>1, <1>2, PTL DEF Spec

=============================================================================
