----------------------------- MODULE GCHeapTypes -----------------------------
(***************************************************************************)
(* Type correctness of GCHeap, proved for heaps of any size.               *)
(***************************************************************************)
EXTENDS GCHeap, TLAPS

\* The empty heap of _ejs_gc_init is well typed.
LEMMA TypeInit == Init => TypeOK
  <1> SUFFICES ASSUME Init PROVE TypeOK
    OBVIOUS
  <1>1. overflowed \in BOOLEAN /\ walk \in BOOLEAN
    BY Zenon DEF Init
  <1>2. remset \in [Old -> Nat]
    BY DEF Init, Empty
  <1> QED
    BY <1>1, <1>2 DEF Init, TypeOK, Phases

\* The part of the state the barrier changes is well typed.
BarrierTypes == dirty \subseteq Addr /\ remset \in [Old -> Nat] /\ overflowed \in BOOLEAN

\* _ejs_gc_remember_slow keeps the barrier's state well typed.
LEMMA TypeRememberSlow ==
  ASSUME TypeOK, NEW o \in Old, NEW d \in SUBSET Addr, RememberSlow(o, d)
  PROVE  BarrierTypes'
  <1>1. overflowed' \in BOOLEAN
    BY Zenon DEF TypeOK, RememberSlow
  <1>2. remset' \in [Old -> Nat]
    BY DEF TypeOK, RememberSlow
  <1> QED
    BY <1>1, <1>2 DEF RememberSlow, Addr, BarrierTypes

\* A step that remembers nothing keeps the barrier's state well typed.
LEMMA TypeNotRemembered ==
  ASSUME TypeOK, NEW d \in SUBSET Addr, NotRemembered(d)
  PROVE  BarrierTypes'
  <1>1. overflowed' \in BOOLEAN
    BY Zenon DEF TypeOK, NotRemembered
  <1> QED
    BY <1>1 DEF TypeOK, NotRemembered, BarrierTypes

\* What the mutator can name is a cell or no reference at all.
LEMMA VisibleType == ASSUME TypeOK PROVE Visible \subseteq Addr \cup {Null}
  BY DEF TypeOK, Visible, Held

\* Allocation writes well-typed cells.
LEMMA TypeBirth ==
  ASSUME TypeOK, NEW a \in Addr, NEW l \in Locs, NEW init \in [Slots -> Visible],
         Birth(a, init, l), BarrierTypes'
  PROVE  TypeOK'
  <1>1. init \in [Slots -> Addr \cup {Null}]
    BY VisibleType
  <1>2. slot' \in [Addr -> [Slots -> Addr \cup {Null}]]
    BY <1>1 DEF TypeOK, Birth
  <1>3. color' \in [Addr -> 0..2]
    BY DEF TypeOK, Birth, Paint
  <1>4. loc' \in [Locs -> Addr \cup {Null}]
    BY DEF TypeOK, Birth
  <1>5. walk' \in BOOLEAN
    BY Zenon DEF TypeOK, Birth
  <1> QED
    BY <1>2, <1>3, <1>4, <1>5 DEF TypeOK, Birth, BarrierTypes

\* An assignment of a typed value to a location keeps the heap well typed.
LEMMA TypeSetLoc ==
  ASSUME TypeOK, NEW l \in Locs, NEW v \in Addr \cup {Null}, SetLoc(l, v)
  PROVE  TypeOK'
  <1>1. walk' \in BOOLEAN /\ overflowed' \in BOOLEAN
    BY Zenon DEF TypeOK, SetLoc
  <1> QED
    BY <1>1 DEF TypeOK, SetLoc, heapVars

\* Every step of the program keeps the heap well typed.
LEMMA TypeMutator == ASSUME TypeOK, Mutator PROVE TypeOK'
  <1> USE DEF Locs
  <1>1. CASE \E a \in Young, l \in Frames \cup CStack, init \in [Slots -> Visible] :
                AllocYoung(a, init, l)
    BY <1>1, TypeBirth, TypeNotRemembered DEF AllocYoung, Addr, TypeOK
  <1>2. CASE \E a \in Los, l \in Frames \cup CStack, init \in [Slots -> Visible] :
                AllocLos(a, init, l)
    BY <1>2, TypeBirth, TypeRememberSlow DEF AllocLos, Addr, Old, TypeOK
  <1>3. CASE \E a \in OldPage, l \in Frames \cup CStack, init \in [Slots -> Visible] :
                AllocFallback(a, init, l)
    BY <1>3, TypeBirth, TypeNotRemembered DEF AllocFallback, Addr, Old, TypeOK
  <1>4. ASSUME NEW o \in Visible \ {Null}, NEW s \in Slots, NEW v \in Visible, Store(o, s, v)
        PROVE TypeOK'
    <2>1. o \in Addr /\ v \in Addr \cup {Null}
      BY VisibleType
    <2>2. BarrierTypes'
      <3>1. CASE v \in Young /\ o \notin Young /\ o \notin dirty
        BY <1>4, <2>1, <3>1, TypeRememberSlow DEF Store, Remember, Addr, TypeOK
      <3>2. CASE ~(v \in Young /\ o \notin Young /\ o \notin dirty)
        BY <1>4, <3>2, TypeNotRemembered DEF Store, Remember, TypeOK
      <3> QED
        BY <3>1, <3>2
    <2>3. walk' \in BOOLEAN
      BY <1>4, Zenon DEF TypeOK, Store
    <2> QED
      BY <1>4, <2>1, <2>2, <2>3 DEF TypeOK, Store, BarrierTypes
  <1>5. ASSUME NEW l \in Frames \cup CStack, NEW o \in Visible \ {Null}, NEW s \in Slots, Load(l, o, s)
        PROVE TypeOK'
    BY <1>5, VisibleType, TypeSetLoc DEF Load, TypeOK
  <1>6. ASSUME NEW l \in Locs, NEW v \in Visible, Move(l, v) PROVE TypeOK'
    BY <1>6, VisibleType, TypeSetLoc DEF Move
  <1> QED
    BY <1>1, <1>2, <1>3, <1>4, <1>5, <1>6 DEF Mutator

\* What minor_process_slot does with a set of slot values: it moves distinct
\* young cells to distinct free cells of the old generation.
LEMMA PromotionFacts ==
  ASSUME NEW V, NEW f \in Promotions(V)
  PROVE  /\ DOMAIN f = Movable(V) /\ DOMAIN f \subseteq Young
         /\ Range(f) \subseteq OldPage \ alloc
         /\ \A y \in DOMAIN f : f[y] \in Range(f)
         /\ \A a \in Range(f) : Source(f, a) \in DOMAIN f /\ f[Source(f, a)] = a
         /\ \A y, z \in DOMAIN f : f[y] = f[z] => y = z
  <1>1. f \in [Movable(V) -> OldPage \ alloc] /\ \A y, z \in Movable(V) : f[y] = f[z] => y = z
    BY DEF Promotions, Injection, IsInjective
  <1>2. Movable(V) \subseteq Young
    BY DEF Movable
  <1>3. ASSUME NEW a \in Range(f) PROVE Source(f, a) \in DOMAIN f /\ f[Source(f, a)] = a
    BY <1>3 DEF Range, Source
  <1> QED
    BY <1>1, <1>2, <1>3 DEF Range

\* minor_process_slot writes the address of a cell, or no reference.
LEMMA ResolveType ==
  ASSUME TypeOK, NEW V, NEW f \in Promotions(V), NEW v \in Addr \cup {Null}
  PROVE  Resolve(f, v) \in Addr \cup {Null}
  BY PromotionFacts DEF TypeOK, Resolve, Addr, Old

\* minor_scan_object rewrites the fields of one cell.
LEMMA ScannedType ==
  ASSUME TypeOK, NEW V, NEW f \in Promotions(V), NEW o \in Addr
  PROVE  Scanned(f, o) \in [Addr -> [Slots -> Addr \cup {Null}]]
  <1>1. [s \in Slots |-> Resolve(f, slot[o][s])] \in [Slots -> Addr \cup {Null}]
    BY ResolveType DEF TypeOK
  <1> QED
    BY <1>1 DEF TypeOK, Scanned

\* Evacuation writes well-typed copies and forwarding records.
LEMMA TypeEvacuate ==
  ASSUME TypeOK, NEW V, NEW f \in Promotions(V),
         NEW own \in [Addr -> [Slots -> Addr \cup {Null}]], NEW queue \in SUBSET Addr,
         Evacuate(f, own, queue)
  PROVE  /\ alloc' \subseteq Addr /\ color' \in [Addr -> 0..2] /\ epoch' \in 0..1
         /\ slot' \in [Addr -> [Slots -> Addr \cup {Null}]] /\ pinned' \subseteq Addr
         /\ fwd' \in [Addr -> OldPage \cup {Null}] /\ wl' \subseteq Addr
  <1>1. Range(f) \subseteq Addr /\ DOMAIN f \subseteq Addr
    BY PromotionFacts DEF Addr, Old
  <1>2. color' \in [Addr -> 0..2]
    BY DEF TypeOK, Evacuate, Paint
  <1>3. fwd' \in [Addr -> OldPage \cup {Null}]
    BY PromotionFacts DEF TypeOK, Evacuate
  <1>4. slot' \in [Addr -> [Slots -> Addr \cup {Null}]]
    <2>1. \A a \in Range(f) : slot[Source(f, a)] \in [Slots -> Addr \cup {Null}]
      BY <1>1, PromotionFacts DEF TypeOK
    <2> QED
      BY <2>1 DEF Evacuate
  <1>5. pinned' \subseteq Addr
    BY <1>1, PromotionFacts DEF TypeOK, Evacuate
  <1> QED
    BY <1>1, <1>2, <1>3, <1>4, <1>5 DEF TypeOK, Evacuate

\* A walk over precise slots keeps the heap well typed.
LEMMA TypeMinorSlots ==
  ASSUME TypeOK, NEW L, NEW V, NEW f \in Promotions(V), MinorSlots(L, f),
         todo' \subseteq Old, pc' \in Phases
  PROVE  TypeOK'
  <1>1. BarrierTypes'
    BY TypeNotRemembered DEF MinorSlots, TypeOK
  <1>2. loc' \in [Locs -> Addr \cup {Null}]
    BY ResolveType DEF MinorSlots, TypeOK
  <1>3. walk' \in BOOLEAN
    BY Zenon DEF MinorSlots, TypeOK
  <1>4. slot \in [Addr -> [Slots -> Addr \cup {Null}]] /\ wl \in SUBSET Addr
    BY DEF TypeOK
  <1> QED
    BY <1>1, <1>2, <1>3, <1>4, TypeEvacuate DEF MinorSlots, TypeOK, BarrierTypes

\* Every phase of a minor collection keeps the heap well typed.
LEMMA TypeMinor == ASSUME TypeOK, Minor PROVE TypeOK'
  <1>1. CASE MinorBegin
    <2>1. walk' \in BOOLEAN /\ overflowed' \in BOOLEAN
      BY <1>1, Zenon DEF MinorBegin, TypeOK
    <2>2. remset' \in [Old -> Nat] /\ todo' \subseteq Old
      BY <1>1 DEF MinorBegin, Empty, Entries
    <2> QED
      BY <1>1, <2>1, <2>2 DEF MinorBegin, TypeOK, heapVars, Phases
  <1>2. ASSUME NEW junk \in StaleWords, MinorPins(junk) PROVE TypeOK'
    <2>1. walk' \in BOOLEAN /\ overflowed' \in BOOLEAN
      BY <1>2, Zenon DEF MinorPins, TypeOK
    <2>2. color' \in [Addr -> 0..2] /\ wl' \subseteq Addr
      BY <1>2 DEF MinorPins, TypeOK, Paint, Ambiguous
    <2> QED
      BY <1>2, <2>1, <2>2 DEF MinorPins, TypeOK, Phases
  <1>3. CASE MinorFrames
    BY <1>3, TypeMinorSlots DEF MinorFrames, TypeOK, Phases
  <1>4. CASE MinorRoots
    <2>1. todo' \subseteq Old
      BY <1>4 DEF MinorRoots, Pending, TypeOK
    <2> QED
      BY <1>4, <2>1, TypeMinorSlots DEF MinorRoots, TypeOK, Phases
  <1>5. ASSUME NEW o \in Old, MinorRemset(o) PROVE TypeOK'
    <2>1. walk' \in BOOLEAN
      BY <1>5, Zenon DEF MinorRemset, TypeOK
    <2>2. loc' \in [Locs -> Addr \cup {Null}] /\ todo' \subseteq Old /\ pc' \in Phases
      BY <1>5 DEF MinorRemset, TypeOK
    <2>3. CASE o \notin alloc
      <3>1. overflowed' \in BOOLEAN
        BY <1>5, <2>3, Zenon DEF MinorRemset, TypeOK
      <3> QED
        BY <1>5, <2>1, <2>2, <2>3, <3>1 DEF MinorRemset, TypeOK, heapVars
    <2>4. CASE o \in alloc
      <3>1. PICK f \in Promotions(Refs(o)) :
               /\ Evacuate(f, Scanned(f, o), wl)
               /\ IF SawYoung(Refs(o))
                  THEN RememberSlow(o, dirty \ ({o} \cup Range(f)))
                  ELSE NotRemembered(dirty \ ({o} \cup Range(f)))
        BY <1>5, <2>4 DEF MinorRemset
      <3>2. BarrierTypes'
        BY <3>1, TypeRememberSlow, TypeNotRemembered DEF TypeOK
      <3>3. o \in Addr /\ wl \in SUBSET Addr
        BY DEF Addr, TypeOK
      <3>4. Scanned(f, o) \in [Addr -> [Slots -> Addr \cup {Null}]]
        BY <3>3, ScannedType
      <3> QED
        BY <2>1, <2>2, <3>1, <3>2, <3>3, <3>4, TypeEvacuate DEF TypeOK, BarrierTypes
    <2> QED
      BY <2>3, <2>4
  <1>6. ASSUME NEW o \in Addr, MinorDrain(o) PROVE TypeOK'
    <2>1. walk' \in BOOLEAN
      BY <1>6, Zenon DEF MinorDrain, TypeOK
    <2>2. PICK f \in Promotions(Refs(o)) :
             /\ Evacuate(f, Scanned(f, o), Popped(o))
             /\ IF SawYoung(Refs(o)) /\ o \notin Young /\ o \notin dirty
                THEN RememberSlow(o, dirty \ Range(f))
                ELSE NotRemembered(dirty \ Range(f))
      BY <1>6 DEF MinorDrain
    <2>3. BarrierTypes'
      BY <2>2, TypeRememberSlow, TypeNotRemembered DEF TypeOK, Addr
    <2>4. Scanned(f, o) \in [Addr -> [Slots -> Addr \cup {Null}]] /\ Popped(o) \in SUBSET Addr
      BY ScannedType DEF Popped, TypeOK
    <2> QED
      BY <1>6, <2>1, <2>2, <2>3, <2>4, TypeEvacuate DEF MinorDrain, TypeOK, BarrierTypes
  <1>7. CASE MinorSweep
    <2>1. walk' \in BOOLEAN /\ overflowed' \in BOOLEAN
      BY <1>7, Zenon DEF MinorSweep, TypeOK
    <2>2. slot' \in [Addr -> [Slots -> Addr \cup {Null}]]
      BY <1>7 DEF MinorSweep, TypeOK, Blank
    <2>3. color' \in [Addr -> 0..2]
      BY <1>7 DEF MinorSweep, TypeOK
    <2> QED
      BY <1>7, <2>1, <2>2, <2>3 DEF MinorSweep, TypeOK, Phases
  <1> QED
    BY <1>1, <1>2, <1>3, <1>4, <1>5, <1>6, <1>7 DEF Minor

\* Every phase of a full collection keeps the heap well typed.
LEMMA TypeFull == ASSUME TypeOK, Full PROVE TypeOK'
  <1>0. ASSUME UNCHANGED <<overflowed, walk>> PROVE overflowed' \in BOOLEAN /\ walk' \in BOOLEAN
    BY <1>0, Zenon DEF TypeOK
  <1>g. ASSUME NEW S \in SUBSET Addr, PushAndGray(S)
        PROVE  color' \in [Addr -> 0..2] /\ wl' \subseteq Addr
    BY <1>g DEF PushAndGray, Paint, Whites, Gray, TypeOK
  <1>1. CASE FullRoots
    <2>1. Held(Roots) \cap alloc \in SUBSET Addr
      BY DEF TypeOK
    <2> QED
      BY <1>0, <1>1, <1>g, <2>1 DEF FullRoots, TypeOK, Phases
  <1>2. ASSUME NEW junk \in StaleWords, FullStacks(junk) PROVE TypeOK'
    <2>1. Ambiguous(CStack \cup Frames, junk) \in SUBSET Addr
      BY DEF TypeOK, Ambiguous
    <2> QED
      BY <1>0, <1>2, <1>g, <2>1 DEF FullStacks, TypeOK, Phases
  <1>3. CASE FullDirtyRoots
    <2>1. DirtyRoots \in SUBSET Addr
      BY DEF TypeOK, DirtyRoots
    <2> QED
      BY <1>0, <1>3, <1>g, <2>1 DEF FullDirtyRoots, TypeOK, Phases
  <1>4. ASSUME NEW o \in Addr, FullMark(o) PROVE TypeOK'
    <2>1. color' \in [Addr -> 0..2] /\ wl' \subseteq Addr
      BY <1>4 DEF FullMark, TypeOK, Popped, Whites, Gray
    <2> QED
      BY <1>0, <1>4, <2>1 DEF FullMark, TypeOK
  <1>5. CASE FullSweep
    <2>1. color' \in [Addr -> 0..2] /\ slot' \in [Addr -> [Slots -> Addr \cup {Null}]]
      BY <1>5 DEF FullSweep, TypeOK, Paint, Blank
    <2> QED
      BY <1>0, <1>5, <2>1 DEF FullSweep, TypeOK, Phases
  <1>6. ASSUME NEW src \in SUBSET Compactable, CompactEvacuate(src) PROVE TypeOK'
    <2>1. PICK f \in Injection(src, OldPage \ alloc) :
          /\ alloc' = alloc \cup Range(f)
          /\ color' = Paint(Range(f), CopyColor)
          /\ fwd' = [a \in Addr |-> IF a \in src THEN f[a] ELSE fwd[a]]
          /\ slot' = [a \in Addr |-> IF a \in Range(f) THEN slot[Source(f, a)] ELSE slot[a]]
          /\ dirty' = (dirty \ src) \cup {f[a] : a \in src \cap dirty}
      BY <1>6 DEF CompactEvacuate
    <2>2. f \in [src -> OldPage \ alloc] /\ src \subseteq Addr /\ OldPage \subseteq Addr
      BY DEF Injection, Compactable, Addr, Old
    <2>3. \A a \in Range(f) : a \in Addr /\ Source(f, a) \in Addr
      BY <2>2 DEF Range, Source
    <2>4. color' \in [Addr -> 0..2]
      BY <2>1 DEF Paint, CopyColor, TypeOK
    <2>5. slot' \in [Addr -> [Slots -> Addr \cup {Null}]]
      BY <2>1, <2>3 DEF TypeOK
    <2>6. fwd' \in [Addr -> OldPage \cup {Null}] /\ dirty' \subseteq Addr /\ alloc' \subseteq Addr
      BY <2>1, <2>2, <2>3 DEF TypeOK
    <2> QED
      BY <1>0, <1>6, <2>4, <2>5, <2>6 DEF CompactEvacuate, TypeOK, Phases
  <1>7. ASSUME NEW junk \in StaleWords, NEW repinned \in Repinnable(junk), CompactFixup(repinned)
        PROVE  TypeOK'
    <2>1. \A v \in Addr \cup {Null} : Fixed(v) \in Addr \cup {Null}
      BY DEF Fixed, TypeOK, Addr, Old
    <2>2. slot' \in [Addr -> [Slots -> Addr \cup {Null}]]
      BY <1>7, <2>1 DEF CompactFixup, TypeOK
    <2>3. loc' \in [Locs -> Addr \cup {Null}]
      BY <1>7, <2>1 DEF CompactFixup, TypeOK
    <2>4. remset' \in [Old -> Nat]
      <3>1. \A o \in Old : (\E e \in Old : fwd[e] = o) => remset[CHOOSE e \in Old : fwd[e] = o] \in Nat
        BY DEF TypeOK
      <3> QED
        BY <1>7, <3>1 DEF CompactFixup, TypeOK
    <2>5. repinned \subseteq Addr
      BY DEF Repinnable, Ambiguous, TypeOK
    <2> QED
      BY <1>0, <1>7, <2>2, <2>3, <2>4, <2>5 DEF CompactFixup, TypeOK, Phases
  <1>8. CASE CompactRelease
    <2>1. color' \in [Addr -> 0..2] /\ slot' \in [Addr -> [Slots -> Addr \cup {Null}]]
      BY <1>8 DEF CompactRelease, TypeOK, Paint, Blank
    <2> QED
      BY <1>0, <1>8, <2>1 DEF CompactRelease, TypeOK, Phases
  <1>9. CASE FullFinish
    BY <1>0, <1>9 DEF FullFinish, TypeOK, NextEpoch, Phases
  <1> QED
    BY <1>1, <1>2, <1>3, <1>4, <1>5, <1>6, <1>7, <1>8, <1>9 DEF Full

\* The heap is well typed in every step.
LEMMA TypeNext == TypeOK /\ [Next]_vars => TypeOK'
  <1> SUFFICES ASSUME TypeOK, [Next]_vars PROVE TypeOK'
    OBVIOUS
  <1>1. CASE UNCHANGED vars
    BY <1>1 DEF vars, heapVars, TypeOK
  <1> QED
    BY <1>1, TypeMutator, TypeMinor, TypeFull DEF Next

\* Type correctness: collections keep every address, color parity, remembered
\* set and forwarding record in range, whatever the size of the heap.
THEOREM TypeCorrect == Spec => []TypeOK
  BY TypeInit, TypeNext, PTL DEF Spec
=============================================================================
