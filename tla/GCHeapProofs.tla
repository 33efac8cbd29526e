---------------------------- MODULE GCHeapProofs ----------------------------
(***************************************************************************)
(* The safety of GCHeap for heaps of any size: IInv is inductive, and the  *)
(* properties TLC checks on small heaps follow from it.                    *)
(***************************************************************************)
EXTENDS GCHeapInv, GCHeapTypes

\* IInv as it reads while the program runs: nothing is forwarded, queued or
\* marked.
MutatorInv ==
    /\ SlotsLive /\ LocsLive
    /\ \A a \in Addr : fwd[a] = Null
    /\ \A a \in alloc : IsWhite(a)
    /\ wl = {} /\ todo = {} /\ walk = FALSE
    /\ \A o \in alloc \cap Old : o \in dirty \/ \A s \in Slots : slot[o][s] \notin Young
    /\ dirty \subseteq alloc \cap Old
    /\ \A o \in dirty : overflowed \/ remset[o] > 0
    /\ \A o \in Old : remset[o] \in {0, 1} /\ (remset[o] > 0 => o \in alloc /\ o \in dirty)
    /\ pinned \subseteq alloc

\* While the program runs, IInv is MutatorInv.
LEMMA InMutator ==
  ASSUME TypeOK, pc = "mutator"
  PROVE  IInv <=> MutatorInv
  <1>1. \A o \in Old : o \in Addr
    BY DEF Addr
  <1>2. ASSUME IInv PROVE MutatorInv
    <2>1. \A a \in Addr : fwd[a] = Null
      BY <1>2 DEF IInv, Forwarding
    <2>2. \A o \in Old : Fixed(o) = o
      BY <2>1, <1>1 DEF Fixed
    <2>3. wl = {} /\ todo = {} /\ walk = FALSE
      BY <1>2 DEF IInv, Worklist, Snapshot, MinorPhases, MarkPhases
    <2>4. \A o \in alloc \cap Old : o \in dirty \/ \A s \in Slots : slot[o][s] \notin Young
      BY <1>2, <2>1, <2>3, <1>1 DEF IInv, Covered, Awaits, MinorPhases
    <2>5. \A o \in dirty : overflowed \/ remset[o] > 0
      BY <1>2, <2>2, <2>3 DEF IInv, Queued
    <2>6. \A o \in Old : remset[o] \in {0, 1} /\ (remset[o] > 0 => o \in alloc /\ o \in dirty)
      BY <1>2, <2>2 DEF IInv, EntriesOnce
    <2> QED
      BY <1>2, <2>1, <2>3, <2>4, <2>5, <2>6 DEF IInv, MutatorInv, Colors, Queued, Pins
  <1>3. ASSUME MutatorInv PROVE IInv
    <2> USE <1>3 DEF MutatorInv, MinorPhases, MarkPhases, SweptPhases
    <2>1. \A o \in Old : Fixed(o) = o
      BY <1>1 DEF Fixed
    <2>2. Forwarding /\ Colors /\ Worklist
      BY DEF Forwarding, Colors, Worklist
    <2>3. Snapshot /\ MinorClean /\ Covered
      BY DEF Snapshot, MinorClean, Covered
    <2>4. Queued
      <3>1. \A o \in dirty : o \in Old /\ Fixed(o) = o /\ fwd[o] = Null
        BY <1>1, <2>1
      <3>2. ASSUME NEW o \in dirty, ~overflowed PROVE \E e \in Old : remset[e] > 0 /\ Fixed(e) = o
        <4>1. remset[o] > 0
          BY <3>2
        <4> QED
          BY <3>1, <4>1
      <3> QED
        BY <3>1, <3>2 DEF Queued
    <2>6. EntriesOnce
      BY <2>1 DEF EntriesOnce
    <2>5. Marked /\ Pins /\ Compacted
      BY DEF Marked, Pins, Compacted, TypeOK
    <2> QED
      BY <2>2, <2>3, <2>4, <2>5, <2>6 DEF IInv
  <1> QED
    BY <1>2, <1>3

\* The empty heap satisfies the invariant.
LEMMA InvInit == Init => IInv
  <1> SUFFICES ASSUME Init PROVE IInv
    OBVIOUS
  <1>1. TypeOK /\ pc = "mutator"
    BY TypeInit DEF Init
  <1>2. MutatorInv
    BY DEF Init, MutatorInv, SlotsLive, LocsLive, Empty
  <1> QED
    BY <1>1, <1>2, InMutator

-----------------------------------------------------------------------------
(* The mutator *)

\* The assumption of the safety theorems: no barrier-less store puts a young
\* reference into an object that was born old because the nursery was full.
BarrieredFallback == FallbackRawStores = FALSE

\* What the mutator can name is allocated.
LEMMA VisibleLive == ASSUME TypeOK, LocsLive PROVE Visible \subseteq alloc \cup {Null}
  BY DEF LocsLive, Visible, Held

\* _ejs_gc_remember_slow: an owner that was not queued is queued once, or the
\* overflow is recorded.
LEMMA RememberSlowEffect ==
  ASSUME TypeOK, NEW o \in Old, NEW d \in SUBSET Addr, RememberSlow(o, d), remset[o] = 0
  PROVE  /\ dirty' = d \cup {o}
         /\ \A p \in Old : p # o => remset'[p] = remset[p]
         /\ remset'[o] = 1 \/ (remset'[o] = 0 /\ overflowed')
         /\ overflowed => overflowed'
  <1>1. overflowed => overflowed'
    BY Zenon DEF TypeOK, RememberSlow
  <1>2. remset \in [Old -> Nat]
    BY DEF TypeOK
  <1>3. remset'[o] = 1 \/ (remset'[o] = 0 /\ overflowed')
    BY <1>2 DEF RememberSlow
  <1>4. \A p \in Old : p # o => remset'[p] = remset[p]
    BY <1>2 DEF RememberSlow
  <1> QED
    BY <1>1, <1>3, <1>4 DEF RememberSlow

\* The barrier's part of MutatorInv.
BarrierInv ==
    /\ \A o \in alloc \cap Old : o \in dirty \/ \A s \in Slots : slot[o][s] \notin Young
    /\ dirty \subseteq alloc \cap Old
    /\ \A o \in dirty : overflowed \/ remset[o] > 0
    /\ \A o \in Old : remset[o] \in {0, 1} /\ (remset[o] > 0 => o \in alloc /\ o \in dirty)

\* Remembering an allocated owner that was not queued re-establishes the
\* barrier's invariant, provided no other object got an unrecorded edge.
LEMMA RememberSlowInv ==
  ASSUME TypeOK, BarrierInv, NEW o \in Old, RememberSlow(o, dirty), remset[o] = 0,
         o \in alloc', alloc \subseteq alloc',
         \A p \in (alloc' \cap Old) \ {o} : p \in alloc /\ slot'[p] = slot[p]
  PROVE  BarrierInv'
  <1>1. dirty \in SUBSET Addr
    BY DEF TypeOK
  <1>2. /\ dirty' = dirty \cup {o}
        /\ \A p \in Old : p # o => remset'[p] = remset[p]
        /\ remset'[o] = 1 \/ (remset'[o] = 0 /\ overflowed')
        /\ overflowed => overflowed'
    BY <1>1, RememberSlowEffect
  <1>3. \A p \in alloc' \cap Old : p \in dirty' \/ \A s \in Slots : slot'[p][s] \notin Young
    BY <1>2 DEF BarrierInv
  <1>4. \A p \in dirty' : overflowed' \/ remset'[p] > 0
    BY <1>2 DEF BarrierInv
  <1>5. \A p \in Old : remset'[p] \in {0, 1} /\ (remset'[p] > 0 => p \in alloc' /\ p \in dirty')
    BY <1>2 DEF BarrierInv
  <1> QED
    BY <1>2, <1>3, <1>4, <1>5 DEF BarrierInv

\* A step that remembers nothing keeps it, provided it creates no old-to-young
\* edge from an object that is not DIRTY.
LEMMA NotRememberedInv ==
  ASSUME TypeOK, BarrierInv, NotRemembered(dirty), alloc \subseteq alloc',
         \A p \in alloc' \cap Old : p \notin dirty => \A s \in Slots : slot'[p][s] \notin Young
  PROVE  BarrierInv'
  <1>1. overflowed => overflowed'
    BY Zenon DEF NotRemembered
  <1> QED
    BY <1>1 DEF BarrierInv, NotRemembered

\* Allocation: the new object and its initial fields are live.
LEMMA InvBirth ==
  ASSUME TypeOK, TypeOK', MutatorInv, NEW a \in Addr, NEW l \in Locs,
         NEW init \in [Slots -> Visible], Birth(a, init, l), BarrierInv'
  PROVE  MutatorInv'
  <1>1. \A s \in Slots : init[s] \in alloc \cup {Null}
    BY VisibleLive DEF MutatorInv
  <1>2. SlotsLive'
    BY <1>1 DEF MutatorInv, SlotsLive, Birth, TypeOK
  <1>3. LocsLive'
    BY DEF MutatorInv, LocsLive, Birth, TypeOK
  <1>4. (\A b \in alloc : IsWhite(b))'
    BY DEF MutatorInv, IsWhite, Birth, Paint, TypeOK
  <1>5. (walk = FALSE)' /\ (wl = {} /\ todo = {})'
    BY DEF MutatorInv, Birth
  <1> QED
    BY <1>2, <1>3, <1>4, <1>5 DEF MutatorInv, Birth, BarrierInv

\* An assignment to a location keeps the invariant if the value is live.
LEMMA InvSetLoc ==
  ASSUME TypeOK, TypeOK', MutatorInv, NEW l \in Locs, NEW v \in alloc \cup {Null}, SetLoc(l, v)
  PROVE  MutatorInv'
  <1>1. LocsLive'
    BY DEF MutatorInv, LocsLive, SetLoc, heapVars, TypeOK
  <1>2. SlotsLive'
    BY DEF MutatorInv, SlotsLive, SetLoc, heapVars
  <1> QED
    BY <1>1, <1>2 DEF MutatorInv, SetLoc, heapVars, IsWhite

\* Every step of the program keeps the invariant.
LEMMA InvMutator ==
  ASSUME BarrieredFallback, IInv, TypeOK', Mutator
  PROVE  IInv'
  <1> USE DEF Locs
  <1>1. TypeOK /\ pc = "mutator" /\ pc' = "mutator"
    BY DEF IInv, Mutator, AllocYoung, AllocLos, AllocFallback, Birth, Store, Load, Move, SetLoc
  <1>2. MutatorInv /\ BarrierInv
    BY <1>1, InMutator DEF MutatorInv, BarrierInv
  <1>3. SUFFICES MutatorInv'
    <2>1. (TypeOK /\ pc = "mutator")'
      BY <1>1
    <2>2. (TypeOK /\ pc = "mutator")' => (IInv <=> MutatorInv)'
      BY InMutator, PTL
    <2> QED
      BY <2>1, <2>2
  <1>4. ASSUME NEW a \in Young, NEW l \in Frames \cup CStack, NEW init \in [Slots -> Visible],
               AllocYoung(a, init, l)
        PROVE  MutatorInv'
    <2>1. \A p \in alloc' \cap Old : p \in alloc /\ slot'[p] = slot[p]
      BY <1>4, AddressAssumption DEF AllocYoung, Birth, Old, Addr, TypeOK, IInv
    <2>2. BarrierInv'
      BY <1>1, <1>2, <1>4, <2>1, NotRememberedInv DEF AllocYoung, Birth, BarrierInv
    <2> QED
      BY <1>1, <1>2, <1>4, <2>2, InvBirth DEF AllocYoung, Addr
  <1>5. ASSUME NEW a \in Los, NEW l \in Frames \cup CStack, NEW init \in [Slots -> Visible],
               AllocLos(a, init, l)
        PROVE  MutatorInv'
    <2>1. a \in Old /\ remset[a] = 0 /\ a \in alloc' /\ alloc \subseteq alloc'
      BY <1>2, <1>5 DEF AllocLos, Birth, Old, BarrierInv
    <2>2. \A p \in (alloc' \cap Old) \ {a} : p \in alloc /\ slot'[p] = slot[p]
      BY <1>1, <1>5 DEF AllocLos, Birth, TypeOK, Addr
    <2>3. BarrierInv'
      BY <1>1, <1>2, <1>5, <2>1, <2>2, RememberSlowInv DEF AllocLos
    <2> QED
      BY <1>1, <1>2, <1>5, <2>1, <2>3, InvBirth DEF AllocLos, Addr
  <1>6. ASSUME NEW a \in OldPage, NEW l \in Frames \cup CStack, NEW init \in [Slots -> Visible],
               AllocFallback(a, init, l)
        PROVE  MutatorInv'
    <2>1. \A s \in Slots : init[s] \notin Young
      BY <1>6 DEF AllocFallback, BarrieredFallback
    <2>2. \A p \in alloc' \cap Old : p \notin dirty => \A s \in Slots : slot'[p][s] \notin Young
      BY <1>1, <1>2, <1>6, <2>1 DEF AllocFallback, Birth, BarrierInv, TypeOK, Addr
    <2>3. BarrierInv'
      BY <1>1, <1>2, <1>6, <2>2, NotRememberedInv DEF AllocFallback, Birth
    <2> QED
      BY <1>1, <1>2, <1>6, <2>3, InvBirth DEF AllocFallback, Addr, Old
  <1>7. ASSUME NEW o \in Visible \ {Null}, NEW s \in Slots, NEW v \in Visible, Store(o, s, v)
        PROVE  MutatorInv'
    <2>1. o \in alloc /\ v \in alloc \cup {Null}
      BY <1>1, <1>2, VisibleLive DEF MutatorInv
    <2>2. /\ slot' = [slot EXCEPT ![o][s] = v]
          /\ UNCHANGED <<alloc, color, epoch, pinned, fwd, loc, todo, walk, wl, pc>>
      BY <1>7 DEF Store
    <2>3. SlotsLive' /\ LocsLive'
      BY <1>1, <1>2, <2>1, <2>2 DEF MutatorInv, SlotsLive, LocsLive, TypeOK
    <2>4. \A p \in Addr \ {o} : slot'[p] = slot[p]
      BY <1>1, <2>2 DEF TypeOK
    <2>5. BarrierInv'
      <3>1. CASE v \in Young /\ o \notin Young /\ o \notin dirty
        <4>1. RememberSlow(o, dirty) /\ o \in Old
          BY <1>1, <1>7, <2>1, <3>1 DEF Store, Remember, TypeOK, Addr
        <4>2. remset[o] = 0
          BY <1>2, <3>1, <4>1 DEF BarrierInv
        <4>3. \A p \in (alloc' \cap Old) \ {o} : p \in alloc /\ slot'[p] = slot[p]
          BY <2>2, <2>4 DEF Addr
        <4> QED
          BY <1>1, <1>2, <2>1, <2>2, <4>1, <4>2, <4>3, RememberSlowInv
      <3>2. CASE ~(v \in Young /\ o \notin Young /\ o \notin dirty)
        <4>1. NotRemembered(dirty)
          BY <1>7, <3>2 DEF Store, Remember
        <4>2. ASSUME NEW p \in alloc' \cap Old, p \notin dirty, NEW t \in Slots
              PROVE  slot'[p][t] \notin Young
          <5>1. p \in alloc \cap Old /\ slot[p][t] \notin Young
            BY <1>2, <2>2, <4>2 DEF BarrierInv
          <5>2. CASE p = o /\ t = s
            <6>1. v \notin Young
              BY <3>2, <4>2, <5>2, AddressAssumption DEF Old
            <6> QED
              BY <1>1, <2>2, <5>2, <6>1 DEF TypeOK, Addr
          <5>3. CASE ~(p = o /\ t = s)
            BY <1>1, <2>2, <5>1, <5>3 DEF TypeOK, Addr
          <5> QED
            BY <5>2, <5>3
        <4> QED
          BY <1>1, <1>2, <2>2, <4>1, <4>2, NotRememberedInv
      <3> QED
        BY <3>1, <3>2
    <2> QED
      BY <1>2, <2>2, <2>3, <2>5 DEF MutatorInv, BarrierInv, IsWhite
  <1>8. ASSUME NEW l \in Frames \cup CStack, NEW o \in Visible \ {Null}, NEW s \in Slots, Load(l, o, s)
        PROVE MutatorInv'
    <2>1. o \in alloc
      BY <1>1, <1>2, VisibleLive DEF MutatorInv
    <2>2. slot[o][s] \in alloc \cup {Null}
      BY <1>2, <2>1 DEF MutatorInv, SlotsLive
    <2> QED
      BY <1>1, <1>2, <1>8, <2>2, InvSetLoc DEF Load
  <1>9. ASSUME NEW l \in Locs, NEW v \in Visible, Move(l, v) PROVE MutatorInv'
    BY <1>1, <1>2, <1>9, VisibleLive, InvSetLoc DEF Move, MutatorInv
  <1> QED
    BY <1>4, <1>5, <1>6, <1>7, <1>8, <1>9 DEF Mutator

-----------------------------------------------------------------------------
(* The minor collection *)

\* Evacuated cells are young and not pinned; their copies are old.
FwdYoung ==
    \A a \in Addr : fwd[a] # Null =>
        a \in alloc \cap Young /\ fwd[a] \in alloc \cap OldPage /\ ~IsBlack(a)

\* Only pinned young cells are black.
Shaded == \A a \in alloc : IsWhite(a) \/ (a \in Young /\ IsBlack(a))

\* What the sweep will free is named only by objects still to be scanned.
YoungScanned ==
    \A y \in alloc \cap Young : IsBlack(y) => y \in wl \/ \A s \in Slots : Clean(slot[y][s])
OldScanned ==
    \A o \in alloc \cap Old : Awaits(o) \/ \A s \in Slots : Clean(slot[o][s])

\* The remembered set while the minor rebuilds it.
MinorBarrier ==
    /\ \A o \in alloc \cap Old : Awaits(o) \/ o \in dirty \/ \A s \in Slots : slot[o][s] \notin Young
    /\ dirty \subseteq alloc \cap Old
    /\ \A o \in dirty : overflowed \/ o \in todo \/ (walk /\ pc # "scan") \/ remset[o] > 0
    /\ \A o \in Old : remset[o] \in {0, 1} /\ (remset[o] > 0 => o \in alloc /\ o \in dirty /\ o \notin todo)

\* IInv as it reads in the phases that evacuate.
MinorInv ==
    /\ SlotsLive /\ LocsLive
    /\ FwdYoung /\ Shaded
    /\ wl \subseteq alloc /\ \A y \in wl \cap Young : IsBlack(y)
    /\ todo \subseteq alloc /\ pinned \subseteq alloc
    /\ YoungScanned /\ OldScanned
    /\ MinorBarrier
    /\ pc = "frames" => \A a \in Addr : fwd[a] = Null
    /\ pc \in {"frames", "roots"} => remset = Empty /\ overflowed = FALSE
    /\ \A l \in CStack : Clean(loc[l])
    /\ pc \in {"roots", "scan"} => \A l \in Frames : Clean(loc[l])
    /\ pc = "scan" => \A l \in Roots : Clean(loc[l])

\* In a minor collection IInv is MinorInv.
LEMMA InMinor ==
  ASSUME TypeOK, pc \in MinorPhases
  PROVE  IInv <=> MinorInv
  <1> USE DEF MinorPhases
  <1>1. \A o \in Old : o \in Addr /\ o \notin Young
    BY AddressAssumption DEF Addr, Old
  <1>2. ASSUME FwdYoung PROVE \A o \in Old : fwd[o] = Null /\ Fixed(o) = o
    BY <1>1, <1>2 DEF FwdYoung, Fixed
  <1>3. ASSUME IInv PROVE MinorInv
    <2>1. FwdYoung
      BY <1>3 DEF IInv, Forwarding, FwdYoung
    <2>2. \A o \in Old : fwd[o] = Null /\ Fixed(o) = o
      BY <1>2, <2>1
    <2>3. Shaded
      BY <1>3 DEF IInv, Colors, Shaded
    <2>4. YoungScanned /\ OldScanned
      BY <1>3 DEF IInv, MinorClean, YoungScanned, OldScanned
    <2>5. MinorBarrier
      <3>1. \A o \in alloc \cap Old : Awaits(o) \/ o \in dirty \/ \A s \in Slots : slot[o][s] \notin Young
        BY <1>3, <2>2 DEF IInv, Covered
      <3>2. \A o \in dirty : overflowed \/ o \in todo \/ (walk /\ pc # "scan") \/ remset[o] > 0
        BY <1>3, <2>2 DEF IInv, Queued
      <3>3. \A o \in Old : remset[o] \in {0, 1} /\ (remset[o] > 0 => o \in alloc /\ o \in dirty /\ o \notin todo)
        BY <1>3, <2>2 DEF IInv, EntriesOnce
      <3> QED
        BY <1>3, <3>1, <3>2, <3>3 DEF IInv, Queued, MinorBarrier
    <2>6. pc = "frames" => \A a \in Addr : fwd[a] = Null
      BY <1>3 DEF IInv, Forwarding
    <2> QED
      BY <1>3, <2>1, <2>3, <2>4, <2>5, <2>6
      DEF IInv, MinorInv, Worklist, Snapshot, MinorClean, Pins
  <1>4. ASSUME MinorInv PROVE IInv
    <2> USE <1>4 DEF MinorInv, MarkPhases, SweptPhases
    <2>1. \A o \in Old : fwd[o] = Null /\ Fixed(o) = o
      BY <1>2
    <2>2. Forwarding
      BY DEF Forwarding, FwdYoung
    <2>3. Colors /\ Worklist /\ Snapshot
      BY DEF Colors, Worklist, Snapshot, Shaded
    <2>4. MinorClean
      BY DEF MinorClean, YoungScanned, OldScanned
    <2>5. Covered /\ EntriesOnce
      BY <2>1 DEF Covered, EntriesOnce, MinorBarrier
    <2>6. Queued
      <3>1. ASSUME NEW o \in dirty, remset[o] > 0 PROVE \E e \in Old : remset[e] > 0 /\ Fixed(e) = o
        BY <2>1, <3>1 DEF MinorBarrier
      <3> QED
        BY <2>1, <3>1 DEF Queued, MinorBarrier
    <2>7. Marked /\ Pins /\ Compacted
      BY DEF Marked, Pins, Compacted
    <2> QED
      BY <2>2, <2>3, <2>4, <2>5, <2>6, <2>7 DEF IInv
  <1> QED
    BY <1>3, <1>4

\* Swapping the buffers: the snapshot takes over the remembered set.
LEMMA InvMinorBegin == ASSUME IInv, TypeOK', MinorBegin PROVE IInv'
  <1> USE DEF MinorBegin, heapVars
  <1>1. MutatorInv /\ TypeOK
    BY InMutator DEF IInv
  <1>2. \A o \in Old : o \in Addr
    BY DEF Addr
  <1>3. Forwarding' /\ Colors' /\ Worklist' /\ Marked' /\ Compacted'
    BY <1>1 DEF MutatorInv, Forwarding, Colors, Worklist, Marked, Compacted, MinorPhases, MarkPhases,
                SweptPhases, IsWhite
  <1>4. SlotsLive' /\ LocsLive' /\ MinorClean' /\ Pins'
    BY <1>1 DEF MutatorInv, SlotsLive, LocsLive, MinorClean, MinorPhases, Pins, TypeOK
  <1>5. Snapshot' /\ Covered'
    BY <1>1 DEF MutatorInv, Snapshot, Covered, Entries, MinorPhases
  <1>6. Queued' /\ EntriesOnce'
    <2>1. \A o \in dirty : walk' \/ o \in todo'
      BY <1>1 DEF MutatorInv, Entries
    <2>2. \A o \in dirty : fwd[o] = Null
      BY <1>1, <1>2 DEF MutatorInv
    <2> QED
      BY <1>1, <2>1, <2>2 DEF MutatorInv, Queued, EntriesOnce, Empty
  <1> QED
    BY <1>3, <1>4, <1>5, <1>6 DEF IInv

\* The conservative scan: what a stack word names is pinned before anything
\* moves.
LEMMA InvMinorPins == ASSUME IInv, TypeOK', NEW junk \in StaleWords, MinorPins(junk) PROVE IInv'
  <1> DEFINE hits == Ambiguous(CStack, junk) \cap Young
  <1>1. /\ pc = "pins" /\ pc' = "frames" /\ color' = Paint(hits, epoch) /\ wl' = hits
        /\ UNCHANGED <<alloc, epoch, slot, dirty, pinned, fwd, loc, remset, overflowed, todo, walk>>
    BY DEF MinorPins
  <1>2. hits \subseteq alloc \cap Young /\ \A l \in CStack : loc[l] \in Young => loc[l] \in hits
    BY AddressAssumption DEF IInv, Ambiguous, Held, LocsLive, Locs
  <1> HIDE DEF hits
  <1>3. TypeOK /\ \A a \in Addr : fwd[a] = Null
    BY <1>1 DEF IInv, Forwarding
  <1>4. \A a \in Addr : color'[a] = IF a \in hits THEN epoch ELSE color[a]
    BY <1>1 DEF Paint
  <1>5. \A a \in alloc : color[a] = 1 - epoch
    BY <1>1 DEF IInv, Colors, IsWhite
  <1>6. \A o \in dirty : o \in todo \/ walk
    BY <1>1 DEF IInv, Queued, Snapshot, Empty
  <1>7. wl = {}
    BY <1>1 DEF IInv, Worklist, MinorPhases, MarkPhases
  <1>8. \A a \in alloc : a \in Addr
    BY <1>3 DEF TypeOK
  <1>9. (Shaded /\ FwdYoung)'
    BY <1>1, <1>2, <1>3, <1>4, <1>5, <1>8 DEF Shaded, FwdYoung, IsWhite, IsBlack
  <1>10. YoungScanned'
    BY <1>1, <1>3, <1>4, <1>5, <1>8 DEF YoungScanned, IsBlack, TypeOK
  <1>11. \A o \in alloc \cap Old : Awaits(o)' \/ \A s \in Slots : slot[o][s] \notin Young
    BY <1>1, <1>3, <1>6, <1>7, <1>8 DEF IInv, Covered, Awaits, MinorPhases
  <1>12. OldScanned'
    BY <1>1, <1>11 DEF OldScanned, Clean
  <1>13. MinorBarrier'
    BY <1>1, <1>6, <1>11 DEF MinorBarrier, IInv, Queued, Snapshot, Empty
  <1>14. (\A l \in CStack : Clean(loc[l]))'
    BY <1>1, <1>2, <1>3, <1>4, <1>8 DEF Clean, IsBlack
  <1>15. (\A y \in wl \cap Young : IsBlack(y))'
    BY <1>1, <1>2, <1>4, <1>8 DEF IsBlack
  <1>16. MinorInv'
    BY <1>1, <1>2, <1>3, <1>9, <1>10, <1>12, <1>13, <1>14, <1>15
    DEF MinorInv, IInv, SlotsLive, LocsLive, Snapshot, Pins
  <1>17. (TypeOK /\ pc \in MinorPhases)'
    BY <1>1 DEF MinorPhases
  <1>18. (TypeOK /\ pc \in MinorPhases)' => (IInv <=> MinorInv)'
    BY InMinor, PTL
  <1> QED
    BY <1>16, <1>17, <1>18

\* What an evacuation step leaves as it was, and what it creates.
LEMMA EvacuateFacts ==
  ASSUME TypeOK, MinorInv, NEW V \in SUBSET (alloc \cup {Null}), NEW f \in Promotions(V),
         NEW own, NEW queue, Evacuate(f, own, queue)
  PROVE  /\ DOMAIN f \subseteq alloc \cap Young
         /\ \A y \in DOMAIN f : fwd[y] = Null /\ ~IsBlack(y)
         /\ Range(f) \subseteq OldPage /\ Range(f) \cap alloc = {}
         /\ alloc' = alloc \cup Range(f) /\ pinned' \subseteq pinned \cup Range(f)
         /\ epoch' = epoch /\ wl' = queue \cup Range(f)
         /\ \A a \in alloc : color'[a] = color[a] /\ slot'[a] = own[a]
         /\ \A a \in Range(f) : /\ color'[a] = 1 - epoch /\ fwd'[a] = Null
                                /\ \E y \in DOMAIN f : slot'[a] = slot[y]
         /\ \A a \in Addr : fwd'[a] = IF a \in DOMAIN f THEN f[a] ELSE fwd[a]
         /\ \A y \in DOMAIN f : f[y] \in Range(f)
  <1>1. /\ DOMAIN f = Movable(V) /\ DOMAIN f \subseteq Young
        /\ Range(f) \subseteq OldPage \ alloc
        /\ \A y \in DOMAIN f : f[y] \in Range(f)
        /\ \A a \in Range(f) : Source(f, a) \in DOMAIN f
    BY PromotionFacts
  <1>2. Range(f) \subseteq Addr /\ alloc \subseteq Addr /\ Range(f) \cap Young = {}
    BY <1>1, AddressAssumption DEF TypeOK, Addr, Old
  <1>3. DOMAIN f \subseteq alloc \cap Young /\ \A y \in DOMAIN f : fwd[y] = Null /\ ~IsBlack(y)
    BY <1>1, AddressAssumption DEF Movable
  <1>4. \A a \in alloc : color'[a] = color[a] /\ slot'[a] = own[a]
    BY <1>1, <1>2 DEF Evacuate, Paint
  <1>5. ASSUME NEW a \in Range(f)
        PROVE  color'[a] = 1 - epoch /\ fwd'[a] = Null /\ \E y \in DOMAIN f : slot'[a] = slot[y]
    <2>1. fwd[a] = Null
      BY <1>1, <1>2 DEF MinorInv, FwdYoung
    <2>2. color'[a] = 1 - epoch /\ slot'[a] = slot[Source(f, a)]
      BY <1>2 DEF Evacuate, Paint
    <2>3. fwd'[a] = Null
      BY <1>1, <1>2, <2>1 DEF Evacuate
    <2> QED
      BY <1>1, <2>2, <2>3
  <1>6. /\ alloc' = alloc \cup Range(f) /\ pinned' \subseteq pinned \cup Range(f)
        /\ epoch' = epoch /\ wl' = queue \cup Range(f)
    <2>1. {f[y] : y \in pinned \cap DOMAIN f} \subseteq Range(f)
      BY <1>1
    <2> QED
      BY <2>1 DEF Evacuate
  <1>7. \A a \in Addr : fwd'[a] = IF a \in DOMAIN f THEN f[a] ELSE fwd[a]
    BY DEF Evacuate
  <1>8. Range(f) \subseteq OldPage /\ Range(f) \cap alloc = {}
    BY <1>1
  <1> QED
    BY <1>1, <1>3, <1>4, <1>5, <1>6, <1>7, <1>8

\* A slot the minor has dealt with stays dealt with, and minor_process_slot
\* leaves a slot that names no cell the sweep will free.
LEMMA EvacuateClean ==
  ASSUME TypeOK, MinorInv, NEW V \in SUBSET (alloc \cup {Null}), NEW f \in Promotions(V),
         NEW own, NEW queue, Evacuate(f, own, queue)
  PROVE  /\ \A v \in alloc \cup {Null} : Clean(v) => Clean(v)'
         /\ \A v \in V : \A w : w = Resolve(f, v) => Clean(w)'
         /\ \A v \in alloc \cup {Null} : Resolve(f, v) \in alloc' \cup {Null}
         /\ \A v \in V : ~SawYoung(V) => Resolve(f, v) \notin Young
  <1>1. /\ DOMAIN f \subseteq alloc \cap Young
        /\ \A y \in DOMAIN f : fwd[y] = Null /\ ~IsBlack(y)
        /\ Range(f) \subseteq OldPage /\ Range(f) \cap alloc = {}
        /\ alloc' = alloc \cup Range(f) /\ epoch' = epoch
        /\ \A a \in alloc : color'[a] = color[a]
        /\ \A a \in Addr : fwd'[a] = IF a \in DOMAIN f THEN f[a] ELSE fwd[a]
        /\ \A y \in DOMAIN f : f[y] \in Range(f)
    BY EvacuateFacts
  <1>2. Null \notin Young /\ OldPage \cap Young = {} /\ alloc \subseteq Addr
    BY AddressAssumption DEF TypeOK
  <1>3. ASSUME NEW v \in alloc \cup {Null}, Clean(v) PROVE Clean(v)'
    BY <1>1, <1>2, <1>3 DEF Clean, IsBlack
  <1>4. ASSUME NEW v \in V, NEW w, w = Resolve(f, v)
        PROVE  Clean(w)' /\ (~SawYoung(V) => w \notin Young)
    <2> USE <1>4
    <2>0. DOMAIN f = Movable(V)
      BY PromotionFacts
    <2>1. CASE v \in DOMAIN f
      BY <1>1, <1>2, <2>1 DEF Resolve, Clean
    <2>2. CASE v \notin DOMAIN f /\ v \in Young /\ fwd[v] # Null
      <3>1. fwd[v] \in OldPage
        BY <1>2, <2>2 DEF MinorInv, FwdYoung
      <3> QED
        BY <1>2, <2>2, <3>1 DEF Resolve, Clean
    <2>3. CASE v \notin DOMAIN f /\ v \in Young /\ fwd[v] = Null
      <3>1. IsBlack(v)
        BY <2>0, <2>3 DEF Movable
      <3> QED
        BY <1>1, <1>2, <1>3, <2>3, <3>1 DEF Resolve, Clean, SawYoung
    <2>4. CASE v \notin DOMAIN f /\ v \notin Young
      BY <2>4 DEF Resolve, Clean
    <2> QED
      BY <2>1, <2>2, <2>3, <2>4
  <1>5. ASSUME NEW v \in alloc \cup {Null} PROVE Resolve(f, v) \in alloc' \cup {Null}
    BY <1>1, <1>2 DEF Resolve, MinorInv, FwdYoung
  <1> QED
    BY <1>3, <1>4, <1>5

\* The parts of MinorInv that evacuation alone decides.
LEMMA EvacuateInv ==
  ASSUME TypeOK, TypeOK', MinorInv, NEW V \in SUBSET (alloc \cup {Null}), NEW f \in Promotions(V),
         NEW own, NEW queue \in SUBSET wl, Evacuate(f, own, queue),
         \A a \in alloc : \A s \in Slots : own[a][s] \in alloc' \cup {Null}
  PROVE  /\ SlotsLive' /\ FwdYoung' /\ Shaded'
         /\ (wl \subseteq alloc /\ pinned \subseteq alloc)'
         /\ (\A y \in wl \cap Young : IsBlack(y))'
  <1>1. /\ DOMAIN f \subseteq alloc \cap Young
        /\ \A y \in DOMAIN f : fwd[y] = Null /\ ~IsBlack(y)
        /\ Range(f) \subseteq OldPage /\ Range(f) \cap alloc = {}
        /\ alloc' = alloc \cup Range(f) /\ pinned' \subseteq pinned \cup Range(f)
        /\ epoch' = epoch /\ wl' = queue \cup Range(f)
        /\ \A a \in alloc : color'[a] = color[a] /\ slot'[a] = own[a]
        /\ \A a \in Range(f) : /\ color'[a] = 1 - epoch /\ fwd'[a] = Null
                               /\ \E y \in DOMAIN f : slot'[a] = slot[y]
        /\ \A a \in Addr : fwd'[a] = IF a \in DOMAIN f THEN f[a] ELSE fwd[a]
        /\ \A y \in DOMAIN f : f[y] \in Range(f)
    BY EvacuateFacts
  <1>2. OldPage \cap Young = {} /\ alloc \subseteq Addr
    BY AddressAssumption DEF TypeOK
  <1>3. SlotsLive'
    <2>1. ASSUME NEW a \in Range(f) PROVE \A s \in Slots : slot'[a][s] \in alloc' \cup {Null}
      BY <1>1, <2>1 DEF MinorInv, SlotsLive
    <2>2. \A a \in alloc : \A s \in Slots : slot'[a][s] \in alloc' \cup {Null}
      BY <1>1
    <2> QED
      BY <1>1, <2>1, <2>2 DEF SlotsLive
  <1>4. FwdYoung'
    BY <1>1, <1>2 DEF MinorInv, FwdYoung, IsBlack
  <1>5. Shaded'
    BY <1>1 DEF MinorInv, Shaded, IsWhite, IsBlack
  <1>6. (\A y \in wl \cap Young : IsBlack(y))'
    BY <1>1, <1>2 DEF MinorInv, IsBlack
  <1> QED
    BY <1>1, <1>3, <1>4, <1>5, <1>6 DEF MinorInv

\* Walking precise slots outside the heap cleans them and queues the copies.
LEMMA InvMinorSlots ==
  ASSUME TypeOK, TypeOK', MinorInv, NEW L \in SUBSET Locs, NEW f \in Promotions(Held(L)),
         MinorSlots(L, f), pc \in {"frames", "roots"}, pc' \in MinorPhases,
         (walk /\ pc' = "scan") => todo' = alloc' \cap Old,
         ~walk \/ pc' # "scan" => todo' = todo
  PROVE  /\ SlotsLive' /\ LocsLive' /\ FwdYoung' /\ Shaded'
         /\ (wl \subseteq alloc /\ todo \subseteq alloc /\ pinned \subseteq alloc)'
         /\ (\A y \in wl \cap Young : IsBlack(y))'
         /\ YoungScanned' /\ OldScanned' /\ MinorBarrier'
         /\ (remset = Empty /\ overflowed = FALSE)'
         /\ \A l \in Locs : l \in L \/ Clean(loc[l]) => Clean(loc[l])'
  <1>1. Held(L) \in SUBSET (alloc \cup {Null}) /\ Evacuate(f, slot, wl)
    BY DEF Held, MinorInv, LocsLive, MinorSlots
  <1>2. /\ DOMAIN f \subseteq alloc \cap Young
        /\ Range(f) \subseteq OldPage /\ Range(f) \cap alloc = {}
        /\ alloc' = alloc \cup Range(f)
        /\ epoch' = epoch /\ wl' = wl \cup Range(f)
        /\ \A a \in alloc : color'[a] = color[a] /\ slot'[a] = slot[a]
    BY <1>1, EvacuateFacts
  <1>3. /\ \A v \in alloc \cup {Null} : Clean(v) => Clean(v)'
        /\ \A v \in Held(L) : \A w : w = Resolve(f, v) => Clean(w)'
        /\ \A v \in alloc \cup {Null} : Resolve(f, v) \in alloc' \cup {Null}
    BY <1>1, EvacuateClean
  <1>4. \A a \in alloc : \A s \in Slots : slot[a][s] \in alloc' \cup {Null}
    BY <1>2 DEF MinorInv, SlotsLive
  <1>5. wl \in SUBSET wl
    OBVIOUS
  <1>6. /\ SlotsLive' /\ FwdYoung' /\ Shaded'
        /\ (wl \subseteq alloc /\ pinned \subseteq alloc)'
        /\ (\A y \in wl \cap Young : IsBlack(y))'
    BY <1>1, <1>4, <1>5, EvacuateInv
  <1>7. /\ dirty' = dirty \ Range(f) /\ remset' = remset /\ overflowed' = overflowed
        /\ loc' = [l \in Locs |-> IF l \in L THEN Resolve(f, loc[l]) ELSE loc[l]]
        /\ walk' = walk
    BY DEF MinorSlots, NotRemembered
  <1>8. LocsLive'
    BY <1>2, <1>3, <1>7 DEF LocsLive, MinorInv
  <1>9. \A l \in Locs : l \in L \/ Clean(loc[l]) => Clean(loc[l])'
    <2>1. ASSUME NEW l \in L PROVE Clean(loc[l])'
      <3>1. loc[l] \in Held(L) /\ loc'[l] = Resolve(f, loc[l])
        BY <1>7 DEF Held
      <3> QED
        BY <1>3, <3>1 DEF Clean
    <2>2. ASSUME NEW l \in Locs \ L, Clean(loc[l]) PROVE Clean(loc[l])'
      <3>1. loc[l] \in alloc \cup {Null} /\ loc'[l] = loc[l]
        BY <1>7 DEF MinorInv, LocsLive
      <3> QED
        BY <1>3, <2>2, <3>1 DEF Clean
    <2> QED
      BY <2>1, <2>2
  <1>10. \A a \in alloc : \A s \in Slots : Clean(slot[a][s]) => Clean(slot[a][s])'
    <2> SUFFICES ASSUME NEW a \in alloc, NEW s \in Slots, Clean(slot[a][s]) PROVE Clean(slot[a][s])'
      OBVIOUS
    <2>1. slot[a][s] \in alloc \cup {Null} /\ slot'[a] = slot[a]
      BY <1>2 DEF MinorInv, SlotsLive
    <2> QED
      BY <1>3, <2>1 DEF Clean
  <1>11. YoungScanned'
    BY <1>2, <1>10, AddressAssumption DEF MinorInv, YoungScanned, IsBlack
  <1>12. \A o \in alloc \cap Old : Awaits(o) => Awaits(o)'
    BY <1>2, <1>7 DEF Awaits, MinorPhases
  <1>13. \A o \in Range(f) : Awaits(o)'
    BY <1>2 DEF Awaits, MinorPhases
  <1>14. OldScanned'
    BY <1>2, <1>10, <1>12, <1>13 DEF MinorInv, OldScanned
  <1>15. dirty' = dirty
    BY <1>2, <1>7 DEF MinorInv, MinorBarrier
  <1>16. remset = Empty /\ overflowed = FALSE
    BY DEF MinorInv
  <1>17. MinorBarrier'
    <2>1. (\A o \in alloc \cap Old : Awaits(o) \/ o \in dirty \/ \A s \in Slots : slot[o][s] \notin Young)'
      BY <1>2, <1>12, <1>13, <1>15 DEF MinorInv, MinorBarrier
    <2>2. (dirty \subseteq alloc \cap Old)'
      BY <1>2, <1>15 DEF MinorInv, MinorBarrier
    <2>3. \A o \in dirty : o \in todo \/ walk
      BY <1>16 DEF MinorInv, MinorBarrier, Empty
    <2>4. \A o \in dirty' : o \in todo' \/ (walk' /\ pc' # "scan")
      BY <1>7, <1>15, <2>2, <2>3
    <2> QED
      BY <1>7, <1>16, <2>1, <2>2, <2>4 DEF MinorBarrier, Empty
  <1>18. todo' \subseteq alloc'
    BY <1>2 DEF MinorInv
  <1> QED
    BY <1>6, <1>7, <1>8, <1>9, <1>11, <1>14, <1>16, <1>17, <1>18

\* The phases of a minor that evacuate: from MinorInv' to IInv'.
LEMMA ToMinorInv ==
  ASSUME TypeOK', (pc \in MinorPhases)', MinorInv'
  PROVE  IInv'
  <1>1. (TypeOK /\ pc \in MinorPhases)' => (IInv <=> MinorInv)'
    BY InMinor, PTL
  <1> QED
    BY <1>1

\* The gc-frame slots.
LEMMA InvMinorFrames == ASSUME IInv, TypeOK', MinorFrames PROVE IInv'
  <1>1. PICK f \in Promotions(Held(Frames)) : MinorSlots(Frames, f)
    BY DEF MinorFrames
  <1>2. TypeOK /\ pc = "frames" /\ pc' = "roots" /\ todo' = todo /\ walk' = walk
    BY <1>1 DEF IInv, MinorFrames, MinorSlots
  <1>3. MinorInv
    BY <1>2, InMinor DEF MinorPhases
  <1>4. Frames \in SUBSET Locs
    BY DEF Locs
  <1>5. /\ SlotsLive' /\ LocsLive' /\ FwdYoung' /\ Shaded'
        /\ (wl \subseteq alloc /\ todo \subseteq alloc /\ pinned \subseteq alloc)'
        /\ (\A y \in wl \cap Young : IsBlack(y))'
        /\ YoungScanned' /\ OldScanned' /\ MinorBarrier'
        /\ (remset = Empty /\ overflowed = FALSE)'
        /\ \A l \in Locs : l \in Frames \/ Clean(loc[l]) => Clean(loc[l])'
    BY <1>1, <1>2, <1>3, <1>4, InvMinorSlots DEF MinorPhases
  <1>6. MinorInv'
    BY <1>2, <1>3, <1>5 DEF MinorInv, Locs
  <1> QED
    BY <1>2, <1>6, ToMinorInv DEF MinorPhases

\* The root registry and the modules; an overflowed snapshot becomes the whole
\* old generation.
LEMMA InvMinorRoots == ASSUME IInv, TypeOK', MinorRoots PROVE IInv'
  <1>1. PICK f \in Promotions(Held(Roots)) : MinorSlots(Roots, f)
    BY DEF MinorRoots
  <1>2. TypeOK /\ pc = "roots" /\ pc' = "scan" /\ walk' = walk /\ todo' = Pending(alloc')
    BY <1>1 DEF IInv, MinorRoots, MinorSlots
  <1>3. MinorInv
    BY <1>2, InMinor DEF MinorPhases
  <1>4. Roots \in SUBSET Locs
    BY DEF Locs
  <1>5. /\ SlotsLive' /\ LocsLive' /\ FwdYoung' /\ Shaded'
        /\ (wl \subseteq alloc /\ todo \subseteq alloc /\ pinned \subseteq alloc)'
        /\ (\A y \in wl \cap Young : IsBlack(y))'
        /\ YoungScanned' /\ OldScanned' /\ MinorBarrier'
        /\ \A l \in Locs : l \in Roots \/ Clean(loc[l]) => Clean(loc[l])'
    BY <1>1, <1>2, <1>3, <1>4, InvMinorSlots DEF Pending, MinorPhases
  <1>6. MinorInv'
    BY <1>2, <1>3, <1>5 DEF MinorInv, Locs
  <1> QED
    BY <1>2, <1>6, ToMinorInv DEF MinorPhases

\* minor_scan_object: afterwards the object names no cell the sweep will free,
\* and names a young cell only if the scan saw a pinned one.
LEMMA ScanFacts ==
  ASSUME TypeOK, TypeOK', MinorInv, pc = "scan", pc' = "scan", loc' = loc,
         NEW o \in alloc, NEW f \in Promotions(Refs(o)), NEW queue \in SUBSET wl,
         wl \subseteq queue \cup {o},
         Evacuate(f, Scanned(f, o), queue)
  PROVE  /\ SlotsLive' /\ LocsLive' /\ FwdYoung' /\ Shaded'
         /\ (wl \subseteq alloc /\ pinned \subseteq alloc)'
         /\ (\A y \in wl \cap Young : IsBlack(y))'
         /\ YoungScanned'
         /\ (\A l \in Locs : Clean(loc[l]))'
         /\ \A s \in Slots : Clean(slot[o][s])'
         /\ ~SawYoung(Refs(o)) => \A s \in Slots : slot'[o][s] \notin Young
         /\ \A a \in alloc \ {o} : slot'[a] = slot[a] /\ \A s \in Slots : Clean(slot[a][s]) => Clean(slot[a][s])'
         /\ Range(f) \subseteq OldPage /\ Range(f) \cap alloc = {}
         /\ alloc' = alloc \cup Range(f) /\ wl' = queue \cup Range(f)
  <1>1. Refs(o) \in SUBSET (alloc \cup {Null})
    BY DEF Refs, MinorInv, SlotsLive
  <1>2. /\ Range(f) \subseteq OldPage /\ Range(f) \cap alloc = {}
        /\ alloc' = alloc \cup Range(f)
        /\ epoch' = epoch /\ wl' = queue \cup Range(f)
        /\ \A a \in alloc : color'[a] = color[a] /\ slot'[a] = Scanned(f, o)[a]
    BY <1>1, EvacuateFacts
  <1>3. /\ \A v \in alloc \cup {Null} : Clean(v) => Clean(v)'
        /\ \A v \in Refs(o) : \A w : w = Resolve(f, v) => Clean(w)'
        /\ \A v \in alloc \cup {Null} : Resolve(f, v) \in alloc' \cup {Null}
        /\ \A v \in Refs(o) : ~SawYoung(Refs(o)) => Resolve(f, v) \notin Young
    BY <1>1, EvacuateClean
  <1>4. o \in Addr /\ alloc \subseteq Addr
    BY DEF TypeOK
  <1>5. \A s \in Slots : Scanned(f, o)[o][s] = Resolve(f, slot[o][s]) /\ slot[o][s] \in Refs(o)
    BY <1>4 DEF Scanned, TypeOK, Refs
  <1>6. \A a \in alloc \ {o} : Scanned(f, o)[a] = slot[a]
    BY <1>4 DEF Scanned, TypeOK
  <1>7. \A a \in alloc : \A s \in Slots : Scanned(f, o)[a][s] \in alloc' \cup {Null}
    <2>1. \A s \in Slots : Scanned(f, o)[o][s] \in alloc' \cup {Null}
      BY <1>1, <1>3, <1>5
    <2>2. \A a \in alloc \ {o} : \A s \in Slots : Scanned(f, o)[a][s] \in alloc' \cup {Null}
      BY <1>2, <1>6 DEF MinorInv, SlotsLive
    <2> QED
      BY <2>1, <2>2
  <1>8. /\ SlotsLive' /\ FwdYoung' /\ Shaded'
        /\ (wl \subseteq alloc /\ pinned \subseteq alloc)'
        /\ (\A y \in wl \cap Young : IsBlack(y))'
    BY <1>1, <1>7, EvacuateInv
  <1>9. LocsLive' /\ (\A l \in Locs : Clean(loc[l]))'
    <2>1. \A l \in Locs : loc[l] \in alloc \cup {Null} /\ Clean(loc[l])
      BY DEF MinorInv, LocsLive, Locs
    <2>2. \A l \in Locs : Clean(loc[l])'
      BY <1>3, <2>1 DEF Clean
    <2> QED
      BY <1>2, <2>1, <2>2 DEF LocsLive
  <1>10. \A s \in Slots : Clean(slot[o][s])'
    <2> SUFFICES ASSUME NEW s \in Slots PROVE Clean(slot[o][s])'
      OBVIOUS
    <2>1. slot'[o][s] = Resolve(f, slot[o][s]) /\ slot[o][s] \in Refs(o)
      BY <1>2, <1>5
    <2> QED
      BY <1>3, <2>1 DEF Clean
  <1>11. ASSUME ~SawYoung(Refs(o)) PROVE \A s \in Slots : slot'[o][s] \notin Young
    BY <1>2, <1>3, <1>5, <1>11
  <1>12. \A a \in alloc \ {o} : slot'[a] = slot[a]
    BY <1>2, <1>6
  <1>13. ASSUME NEW a \in alloc \ {o}, NEW s \in Slots, Clean(slot[a][s]) PROVE Clean(slot[a][s])'
    <2>1. slot[a][s] \in alloc \cup {Null} /\ slot'[a] = slot[a]
      BY <1>12 DEF MinorInv, SlotsLive
    <2> QED
      BY <1>3, <1>13, <2>1 DEF Clean
  <1>14. YoungScanned'
    <2> SUFFICES ASSUME NEW y \in alloc' \cap Young, IsBlack(y)'
                 PROVE  y \in wl' \/ \A s \in Slots : Clean(slot[y][s])'
      BY DEF YoungScanned
    <2>1. y \in alloc /\ IsBlack(y)
      BY <1>2, AddressAssumption DEF IsBlack
    <2>2. CASE y = o
      BY <1>10, <2>2
    <2>3. CASE y # o
      BY <1>2, <1>13, <2>1, <2>3 DEF MinorInv, YoungScanned
    <2> QED
      BY <2>2, <2>3
  <1> QED
    BY <1>2, <1>8, <1>9, <1>10, <1>11, <1>12, <1>13, <1>14

\* One owner of the snapshot.
LEMMA InvMinorRemset == ASSUME IInv, TypeOK', NEW o \in Old, MinorRemset(o) PROVE IInv'
  <1>1. /\ TypeOK /\ pc = "scan" /\ pc' = "scan" /\ o \in todo /\ todo' = todo \ {o}
        /\ loc' = loc /\ walk' = walk
    BY DEF IInv, MinorRemset
  <1>2. MinorInv
    BY <1>1, InMinor DEF MinorPhases
  <1>3. o \in alloc
    BY <1>1, <1>2 DEF MinorInv
  <1>4. PICK f \in Promotions(Refs(o)) :
           /\ Evacuate(f, Scanned(f, o), wl)
           /\ IF SawYoung(Refs(o))
              THEN RememberSlow(o, dirty \ ({o} \cup Range(f)))
              ELSE NotRemembered(dirty \ ({o} \cup Range(f)))
    BY <1>3 DEF MinorRemset
  <1>5. wl \in SUBSET wl /\ wl \subseteq wl \cup {o}
    OBVIOUS
  <1>6. /\ SlotsLive' /\ LocsLive' /\ FwdYoung' /\ Shaded'
        /\ (wl \subseteq alloc /\ pinned \subseteq alloc)'
        /\ (\A y \in wl \cap Young : IsBlack(y))'
        /\ YoungScanned'
        /\ (\A l \in Locs : Clean(loc[l]))'
        /\ \A s \in Slots : Clean(slot[o][s])'
        /\ ~SawYoung(Refs(o)) => \A s \in Slots : slot'[o][s] \notin Young
        /\ \A a \in alloc \ {o} : slot'[a] = slot[a] /\ \A s \in Slots : Clean(slot[a][s]) => Clean(slot[a][s])'
        /\ Range(f) \subseteq OldPage /\ Range(f) \cap alloc = {}
        /\ alloc' = alloc \cup Range(f) /\ wl' = wl \cup Range(f)
    BY <1>1, <1>2, <1>3, <1>4, <1>5, ScanFacts
  <1>7. \A p \in alloc \ {o} : Awaits(p) => Awaits(p)'
    BY <1>1, <1>6 DEF Awaits, MinorPhases
  <1>8. \A p \in Range(f) : Awaits(p)'
    BY <1>1, <1>6 DEF Awaits, MinorPhases
  <1>9. OldScanned'
    BY <1>2, <1>6, <1>7, <1>8 DEF MinorInv, OldScanned
  <1>10. /\ SawYoung(Refs(o)) => o \in dirty' /\ (remset'[o] = 1 \/ (remset'[o] = 0 /\ overflowed'))
         /\ ~SawYoung(Refs(o)) => remset'[o] = 0 /\ o \notin dirty'
         /\ \A p \in Old \ {o} : remset'[p] = remset[p]
         /\ dirty' \subseteq dirty \cup {o} /\ dirty \ {o} \subseteq dirty'
         /\ overflowed => overflowed'
    <2>1. remset[o] = 0 /\ dirty \ ({o} \cup Range(f)) \in SUBSET Addr /\ dirty \cap Range(f) = {}
      BY <1>1, <1>2, <1>6 DEF MinorInv, MinorBarrier, TypeOK
    <2>2. CASE SawYoung(Refs(o))
      BY <1>1, <1>4, <2>1, <2>2, RememberSlowEffect
    <2>3. CASE ~SawYoung(Refs(o))
      BY <1>4, <2>1, <2>3 DEF NotRemembered
    <2> QED
      BY <2>2, <2>3
  <1>11. MinorBarrier'
    <2>1. (\A p \in alloc \cap Old : Awaits(p) \/ p \in dirty \/ \A s \in Slots : slot[p][s] \notin Young)'
      BY <1>2, <1>6, <1>7, <1>8, <1>10 DEF MinorInv, MinorBarrier
    <2>2. (dirty \subseteq alloc \cap Old)'
      BY <1>2, <1>3, <1>6, <1>10 DEF MinorInv, MinorBarrier
    <2>3. (\A p \in dirty : overflowed \/ p \in todo \/ (walk /\ pc # "scan") \/ remset[p] > 0)'
      BY <1>1, <1>2, <1>10 DEF MinorInv, MinorBarrier
    <2>4. (\A p \in Old : remset[p] \in {0, 1} /\ (remset[p] > 0 => p \in alloc /\ p \in dirty /\ p \notin todo))'
      BY <1>1, <1>2, <1>3, <1>6, <1>10 DEF MinorInv, MinorBarrier
    <2> QED
      BY <2>1, <2>2, <2>3, <2>4 DEF MinorBarrier
  <1>12. MinorInv'
    BY <1>1, <1>2, <1>6, <1>9, <1>11 DEF MinorInv, Locs
  <1> QED
    BY <1>1, <1>12, ToMinorInv DEF MinorPhases

\* One object of the worklist.
LEMMA InvMinorDrain == ASSUME IInv, TypeOK', NEW o \in Addr, MinorDrain(o) PROVE IInv'
  <1>1. /\ TypeOK /\ pc = "scan" /\ pc' = "scan" /\ o \in wl /\ todo = {} /\ todo' = {}
        /\ loc' = loc /\ walk' = walk
    BY DEF IInv, MinorDrain
  <1>2. MinorInv
    BY <1>1, InMinor DEF MinorPhases
  <1>3. o \in alloc
    BY <1>1, <1>2 DEF MinorInv
  <1>4. PICK f \in Promotions(Refs(o)) :
           /\ Evacuate(f, Scanned(f, o), Popped(o))
           /\ IF SawYoung(Refs(o)) /\ o \notin Young /\ o \notin dirty
              THEN RememberSlow(o, dirty \ Range(f))
              ELSE NotRemembered(dirty \ Range(f))
    BY DEF MinorDrain
  <1>5. Popped(o) \in SUBSET wl /\ wl \subseteq Popped(o) \cup {o} /\ Popped(o) = wl \ {o}
    BY DEF Popped
  <1>6. /\ SlotsLive' /\ LocsLive' /\ FwdYoung' /\ Shaded'
        /\ (wl \subseteq alloc /\ pinned \subseteq alloc)'
        /\ (\A y \in wl \cap Young : IsBlack(y))'
        /\ YoungScanned'
        /\ (\A l \in Locs : Clean(loc[l]))'
        /\ \A s \in Slots : Clean(slot[o][s])'
        /\ ~SawYoung(Refs(o)) => \A s \in Slots : slot'[o][s] \notin Young
        /\ \A a \in alloc \ {o} : slot'[a] = slot[a] /\ \A s \in Slots : Clean(slot[a][s]) => Clean(slot[a][s])'
        /\ Range(f) \subseteq OldPage /\ Range(f) \cap alloc = {}
        /\ alloc' = alloc \cup Range(f) /\ wl' = Popped(o) \cup Range(f)
    BY <1>1, <1>2, <1>3, <1>4, <1>5, ScanFacts
  <1>7. \A p \in alloc \ {o} : Awaits(p) => Awaits(p)'
    BY <1>1, <1>5, <1>6 DEF Awaits, MinorPhases
  <1>8. \A p \in Range(f) : Awaits(p)'
    BY <1>1, <1>6 DEF Awaits, MinorPhases
  <1>9. OldScanned'
    BY <1>2, <1>6, <1>7, <1>8 DEF MinorInv, OldScanned
  <1>10. /\ dirty \subseteq dirty' /\ dirty' \subseteq dirty \cup {o}
         /\ \A p \in Old \ {o} : remset'[p] = remset[p]
         /\ overflowed => overflowed'
         /\ o \in Old /\ SawYoung(Refs(o)) => o \in dirty'
         /\ o \in Old => \/ remset'[o] = remset[o] /\ (o \in dirty' => o \in dirty)
                         \/ o \in dirty' /\ (remset'[o] = 1 \/ (remset'[o] = 0 /\ overflowed'))
         /\ o \notin Old => dirty' = dirty
    <2>1. dirty \ Range(f) = dirty /\ dirty \in SUBSET Addr
      BY <1>1, <1>2, <1>6 DEF MinorInv, MinorBarrier, TypeOK
    <2>2. CASE SawYoung(Refs(o)) /\ o \notin Young /\ o \notin dirty
      <3>1. o \in Old
        BY <2>2 DEF Addr
      <3>2. remset[o] = 0
        BY <1>2, <2>2, <3>1 DEF MinorInv, MinorBarrier
      <3> QED
        BY <1>1, <1>4, <2>1, <2>2, <3>1, <3>2, RememberSlowEffect
    <2>3. CASE ~(SawYoung(Refs(o)) /\ o \notin Young /\ o \notin dirty)
      <3>1. NotRemembered(dirty)
        BY <1>4, <2>1, <2>3
      <3>2. o \in Old => o \notin Young
        BY AddressAssumption DEF Old
      <3> QED
        BY <2>3, <3>1, <3>2 DEF NotRemembered
    <2> QED
      BY <2>2, <2>3
  <1>11. MinorBarrier'
    <2>1. (\A p \in alloc \cap Old : Awaits(p) \/ p \in dirty \/ \A s \in Slots : slot[p][s] \notin Young)'
      BY <1>2, <1>6, <1>7, <1>8, <1>10 DEF MinorInv, MinorBarrier
    <2>2. (dirty \subseteq alloc \cap Old)'
      BY <1>2, <1>3, <1>6, <1>10 DEF MinorInv, MinorBarrier
    <2>3. (\A p \in dirty : overflowed \/ p \in todo \/ (walk /\ pc # "scan") \/ remset[p] > 0)'
      BY <1>1, <1>2, <1>10 DEF MinorInv, MinorBarrier
    <2>4. (\A p \in Old : remset[p] \in {0, 1} /\ (remset[p] > 0 => p \in alloc /\ p \in dirty /\ p \notin todo))'
      BY <1>1, <1>2, <1>3, <1>6, <1>10 DEF MinorInv, MinorBarrier
    <2> QED
      BY <2>1, <2>2, <2>3, <2>4 DEF MinorBarrier
  <1>12. MinorInv'
    BY <1>1, <1>2, <1>6, <1>9, <1>11 DEF MinorInv, Locs
  <1> QED
    BY <1>1, <1>12, ToMinorInv DEF MinorPhases

\* From MutatorInv' to IInv'.
LEMMA ToMutatorInv ==
  ASSUME TypeOK', pc' = "mutator", MutatorInv'
  PROVE  IInv'
  <1>1. (TypeOK /\ pc = "mutator")' => (IInv <=> MutatorInv)'
    BY InMutator, PTL
  <1> QED
    BY <1>1

\* The sweep frees no cell that anything still names.
LEMMA InvMinorSweep == ASSUME IInv, TypeOK', MinorSweep PROVE IInv'
  <1>1. TypeOK /\ pc = "scan" /\ pc' = "mutator" /\ todo = {} /\ wl = {}
    BY DEF IInv, MinorSweep
  <1>2. MinorInv
    BY <1>1, InMinor DEF MinorPhases
  <1>3. /\ alloc' = alloc \ MinorDead /\ slot' = Blank(MinorDead)
        /\ (\A a \in Addr : fwd[a] = Null)' /\ dirty' = dirty \ MinorDead
        /\ pinned' = pinned \ MinorDead /\ (walk = FALSE)'
        /\ UNCHANGED <<epoch, loc, remset, overflowed, todo, wl>>
    BY DEF MinorSweep
  <1>4. MinorDead \subseteq alloc \cap Young /\ alloc \subseteq Addr
    BY <1>1 DEF MinorDead, TypeOK
  <1>5. \A v \in alloc \cup {Null} : Clean(v) => v \in alloc' \cup {Null}
    BY <1>3 DEF MinorDead, Clean
  <1>6. \A l \in Locs : Clean(loc[l])
    BY <1>1, <1>2 DEF MinorInv, Locs
  <1>7. \A a \in alloc' : \A s \in Slots : Clean(slot[a][s])
    <2>1. \A o \in alloc \cap Old : ~Awaits(o)
      BY <1>1 DEF Awaits, MinorPhases
    <2>2. \A y \in alloc' \cap Young : IsBlack(y)
      BY <1>3 DEF MinorDead
    <2> QED
      BY <1>1, <1>2, <1>3, <1>4, <2>1, <2>2 DEF MinorInv, OldScanned, YoungScanned, Addr
  <1>8. \A a \in alloc' : slot'[a] = slot[a]
    BY <1>3, <1>4 DEF Blank
  <1>9. SlotsLive'
    BY <1>2, <1>3, <1>5, <1>7, <1>8 DEF MinorInv, SlotsLive
  <1>10. LocsLive'
    BY <1>2, <1>3, <1>5, <1>6 DEF MinorInv, LocsLive
  <1>11. (\A a \in alloc : IsWhite(a))'
    <2>1. \A a \in alloc' : color'[a] = IF a \in Young THEN 1 - epoch ELSE color[a]
      BY <1>3, <1>4 DEF MinorSweep
    <2>2. \A a \in alloc : a \in Young \/ color[a] = 1 - epoch
      BY <1>2 DEF MinorInv, Shaded, IsWhite
    <2> QED
      BY <1>3, <2>1, <2>2 DEF IsWhite
  <1>12. \A o \in Old : o \notin MinorDead
    BY <1>4, AddressAssumption DEF Old
  <1>13. dirty' = dirty /\ \A o \in Old : o \in alloc' <=> o \in alloc
    BY <1>2, <1>3, <1>12 DEF MinorInv, MinorBarrier
  <1>14. BarrierInv'
    <2>1. \A o \in alloc \cap Old : ~Awaits(o)
      BY <1>1 DEF Awaits, MinorPhases
    <2> QED
      BY <1>1, <1>2, <1>3, <1>8, <1>13, <2>1 DEF MinorInv, MinorBarrier, BarrierInv
  <1>15. MutatorInv'
    BY <1>1, <1>2, <1>3, <1>9, <1>10, <1>11, <1>14 DEF MutatorInv, BarrierInv, MinorInv
  <1> QED
    BY <1>1, <1>15, ToMutatorInv

\* Every phase of a minor collection keeps the invariant.
LEMMA InvMinor == ASSUME IInv, TypeOK', Minor PROVE IInv'
  BY InvMinorBegin, InvMinorPins, InvMinorFrames, InvMinorRoots, InvMinorRemset, InvMinorDrain, InvMinorSweep
  DEF Minor

-----------------------------------------------------------------------------
(* The full collection *)

\* No marked object names an unmarked one.
NoBlackToWhite ==
    \A a \in alloc : IsBlack(a) => \A s \in Slots : slot[a][s] # Null => ~IsWhite(slot[a][s])

\* IInv as it reads while marking.
MarkInv ==
    /\ SlotsLive /\ LocsLive
    /\ \A a \in Addr : fwd[a] = Null
    /\ \A a \in alloc : color[a] = Gray <=> a \in wl
    /\ wl \subseteq alloc /\ todo = {} /\ walk = FALSE
    /\ BarrierInv
    /\ pinned \subseteq alloc
    /\ NoBlackToWhite
    /\ \A l \in Roots : loc[l] # Null => ~IsWhite(loc[l])
    /\ pc \in {"dirtyRoots", "mark"} =>
          \A l \in CStack \cup Frames : loc[l] \in pinned \cup {Null} /\ (loc[l] # Null => ~IsWhite(loc[l]))
    /\ pc = "mark" => \A o \in Old : remset[o] > 0 => ~IsWhite(o)

\* While nothing is forwarded and no minor is under way, the barrier's parts
\* of IInv are BarrierInv.
LEMMA QuietBarrier ==
  ASSUME TypeOK, \A a \in Addr : fwd[a] = Null, todo = {}, walk = FALSE, pc \notin MinorPhases
  PROVE  BarrierInv <=> Covered /\ Queued /\ EntriesOnce
  <1>1. \A o \in Old : Fixed(o) = o /\ fwd[o] = Null /\ ~Awaits(o)
    BY DEF Fixed, Addr, Awaits
  <1>2. ASSUME BarrierInv PROVE Covered /\ Queued /\ EntriesOnce
    <2> USE <1>2
    <2>1. Covered /\ EntriesOnce
      BY <1>1 DEF BarrierInv, Covered, EntriesOnce
    <2>2. ASSUME NEW o \in dirty, ~overflowed PROVE \E e \in Old : remset[e] > 0 /\ Fixed(e) = o
      <3>1. o \in Old /\ remset[o] > 0
        BY <2>2 DEF BarrierInv
      <3> QED
        BY <1>1, <3>1
    <2> QED
      BY <1>1, <2>1, <2>2 DEF BarrierInv, Queued
  <1>3. ASSUME Covered, Queued, EntriesOnce PROVE BarrierInv
    <2>1. \A o \in dirty : overflowed \/ remset[o] > 0
      BY <1>1, <1>3 DEF Queued
    <2> QED
      BY <1>1, <1>3, <2>1 DEF BarrierInv, Covered, Queued, EntriesOnce
  <1> QED
    BY <1>2, <1>3

\* While marking, IInv is MarkInv.
LEMMA InMark ==
  ASSUME TypeOK, pc \in MarkPhases
  PROVE  IInv <=> MarkInv
  <1> USE DEF MarkPhases, MinorPhases, SweptPhases
  <1>1. ASSUME IInv PROVE MarkInv
    <2> USE <1>1
    <2>1. (\A a \in Addr : fwd[a] = Null) /\ todo = {} /\ walk = FALSE /\ wl \subseteq alloc
      BY DEF IInv, Forwarding, Snapshot, Worklist
    <2>2. BarrierInv
      BY <2>1, QuietBarrier DEF IInv
    <2>3. \A a \in alloc : color[a] = Gray <=> a \in wl
      BY DEF IInv, Colors
    <2> QED
      BY <2>1, <2>2, <2>3 DEF IInv, MarkInv, NoBlackToWhite, Marked, Pins
  <1>2. ASSUME MarkInv PROVE IInv
    <2> USE <1>2 DEF MarkInv
    <2>1. Covered /\ Queued /\ EntriesOnce
      BY QuietBarrier
    <2>2. Forwarding /\ Colors /\ Worklist
      BY DEF Forwarding, Colors, Worklist
    <2>3. Snapshot /\ MinorClean /\ Compacted
      BY DEF Snapshot, MinorClean, Compacted
    <2>4. Marked /\ Pins
      BY DEF Marked, Pins, NoBlackToWhite, TypeOK
    <2> QED
      BY <2>1, <2>2, <2>3, <2>4 DEF IInv
  <1> QED
    BY <1>1, <1>2

\* The phases that mark: from MarkInv' to IInv'.
LEMMA ToMarkInv ==
  ASSUME TypeOK', (pc \in MarkPhases)', MarkInv'
  PROVE  IInv'
  <1>1. (TypeOK /\ pc \in MarkPhases)' => (IInv <=> MarkInv)'
    BY InMark, PTL
  <1> QED
    BY <1>1

\* The state marking does not touch.
Quiet == UNCHANGED <<alloc, epoch, slot, dirty, fwd, loc, remset, overflowed, todo, walk>>

\* Graying the white cells of S: cells of S are marked, no mark is lost, no
\* cell becomes black, and the worklist remains the set of gray cells.
LEMMA GrayFacts ==
  ASSUME TypeOK, NEW S \in SUBSET alloc, PushAndGray(S), Quiet, wl \subseteq alloc,
         \A a \in alloc : color[a] = Gray <=> a \in wl
  PROVE  /\ \A a \in S : ~IsWhite(a)'
         /\ \A a \in Addr : ~IsWhite(a) => ~IsWhite(a)'
         /\ \A a \in alloc : IsBlack(a)' => IsBlack(a)
         /\ (\A a \in alloc : color[a] = Gray <=> a \in wl)' /\ (wl \subseteq alloc)'
  <1>1. S \subseteq Addr /\ alloc \subseteq Addr /\ epoch \in 0..1 /\ color \in [Addr -> 0..2]
    BY DEF TypeOK
  <1>2. \A a \in Addr : color'[a] = IF a \in S /\ color[a] = 1 - epoch THEN 2 ELSE color[a]
    BY <1>1 DEF PushAndGray, Paint, Whites, IsWhite, Gray
  <1>3. wl' = wl \cup {a \in S : color[a] = 1 - epoch}
    BY <1>1 DEF PushAndGray, Whites, IsWhite
  <1>4. epoch' = epoch /\ alloc' = alloc
    BY DEF Quiet
  <1> QED
    BY <1>1, <1>2, <1>3, <1>4 DEF IsWhite, IsBlack, Gray

\* Graying keeps the parts of MarkInv that every marking phase shares.
LEMMA GrayInv ==
  ASSUME TypeOK, NEW S \in SUBSET alloc, PushAndGray(S), Quiet,
         SlotsLive, LocsLive, \A a \in Addr : fwd[a] = Null,
         \A a \in alloc : color[a] = Gray <=> a \in wl,
         wl \subseteq alloc, todo = {}, walk = FALSE, BarrierInv, NoBlackToWhite
  PROVE  /\ SlotsLive' /\ LocsLive' /\ (\A a \in Addr : fwd[a] = Null)'
         /\ (\A a \in alloc : color[a] = Gray <=> a \in wl)' /\ (wl \subseteq alloc)'
         /\ (todo = {} /\ walk = FALSE)' /\ BarrierInv' /\ NoBlackToWhite'
         /\ \A a \in S : ~IsWhite(a)'
         /\ \A a \in Addr : ~IsWhite(a) => ~IsWhite(a)'
  <1>1. /\ \A a \in S : ~IsWhite(a)'
        /\ \A a \in Addr : ~IsWhite(a) => ~IsWhite(a)'
        /\ \A a \in alloc : IsBlack(a)' => IsBlack(a)
        /\ (\A a \in alloc : color[a] = Gray <=> a \in wl)' /\ (wl \subseteq alloc)'
    BY GrayFacts
  <1>2. SlotsLive' /\ LocsLive' /\ (\A a \in Addr : fwd[a] = Null)' /\ (todo = {} /\ walk = FALSE)'
    BY DEF Quiet, SlotsLive, LocsLive
  <1>3. BarrierInv'
    BY DEF Quiet, BarrierInv
  <1>4. NoBlackToWhite'
    <2> SUFFICES ASSUME NEW a \in alloc, IsBlack(a)', NEW s \in Slots, slot[a][s] # Null
                 PROVE  ~IsWhite(slot[a][s])'
      BY DEF NoBlackToWhite, Quiet
    <2>1. ~IsWhite(slot[a][s]) /\ slot[a][s] \in Addr
      BY <1>1 DEF NoBlackToWhite, SlotsLive, TypeOK
    <2>2. slot'[a][s] = slot[a][s]
      BY DEF Quiet
    <2> QED
      BY <1>1, <2>1, <2>2 DEF IsWhite
  <1> QED
    BY <1>1, <1>2, <1>3, <1>4

\* The roots are marked first.
LEMMA InvFullRoots == ASSUME IInv, TypeOK', FullRoots PROVE IInv'
  <1>1. TypeOK /\ pc = "mutator" /\ pc' = "stacks" /\ Quiet /\ PushAndGray(Held(Roots) \cap alloc) /\ pinned' = pinned
    BY DEF IInv, FullRoots, Quiet
  <1>2. MutatorInv
    BY <1>1, InMutator
  <1>3. \A a \in alloc : color[a] = 1 - epoch /\ epoch \in 0..1
    BY <1>1, <1>2 DEF MutatorInv, IsWhite, TypeOK
  <1>4. /\ BarrierInv /\ NoBlackToWhite
        /\ \A a \in alloc : color[a] = Gray <=> a \in wl
    BY <1>2, <1>3 DEF MutatorInv, BarrierInv, NoBlackToWhite, IsBlack, Gray
  <1>5. Held(Roots) \cap alloc \in SUBSET alloc
    OBVIOUS
  <1>6. /\ SlotsLive' /\ LocsLive' /\ (\A a \in Addr : fwd[a] = Null)'
        /\ (\A a \in alloc : color[a] = Gray <=> a \in wl)' /\ (wl \subseteq alloc)'
        /\ (todo = {} /\ walk = FALSE)' /\ BarrierInv' /\ NoBlackToWhite'
        /\ \A a \in Held(Roots) \cap alloc : ~IsWhite(a)'
    BY <1>1, <1>2, <1>4, <1>5, GrayInv DEF MutatorInv
  <1>7. (\A l \in Roots : loc[l] # Null => ~IsWhite(loc[l]))'
    <2> SUFFICES ASSUME NEW l \in Roots, loc[l] # Null PROVE ~IsWhite(loc[l])'
      BY <1>1 DEF Quiet
    <2>1. loc[l] \in Held(Roots) \cap alloc /\ loc'[l] = loc[l]
      BY <1>1, <1>2 DEF MutatorInv, LocsLive, Locs, Held, Quiet
    <2> QED
      BY <1>6, <2>1 DEF IsWhite
  <1>8. (pinned \subseteq alloc)'
    BY <1>1, <1>2 DEF MutatorInv, Quiet
  <1>9. MarkInv'
    BY <1>1, <1>6, <1>7, <1>8 DEF MarkInv
  <1> QED
    BY <1>1, <1>9, ToMarkInv DEF MarkPhases

\* The stacks are scanned conservatively: what they name is marked and pinned.
LEMMA InvFullStacks == ASSUME IInv, TypeOK', NEW junk \in StaleWords, FullStacks(junk) PROVE IInv'
  <1> DEFINE hits == Ambiguous(CStack \cup Frames, junk)
  <1>1. TypeOK /\ pc = "stacks" /\ pc' = "dirtyRoots" /\ Quiet /\ PushAndGray(hits) /\ pinned' = pinned \cup hits
    BY DEF IInv, FullStacks, Quiet
  <1>2. MarkInv
    BY <1>1, InMark DEF MarkPhases
  <1>3. hits \in SUBSET alloc /\ \A l \in CStack \cup Frames : loc[l] # Null => loc[l] \in hits
    BY <1>2 DEF Ambiguous, Held, MarkInv, LocsLive, Locs
  <1> HIDE DEF hits
  <1>4. /\ SlotsLive' /\ LocsLive' /\ (\A a \in Addr : fwd[a] = Null)'
        /\ (\A a \in alloc : color[a] = Gray <=> a \in wl)' /\ (wl \subseteq alloc)'
        /\ (todo = {} /\ walk = FALSE)' /\ BarrierInv' /\ NoBlackToWhite'
        /\ \A a \in hits : ~IsWhite(a)'
        /\ \A a \in Addr : ~IsWhite(a) => ~IsWhite(a)'
    BY <1>1, <1>2, <1>3, GrayInv DEF MarkInv
  <1>5. \A l \in Locs : loc'[l] = loc[l] /\ loc[l] \in Addr \cup {Null}
    BY <1>1 DEF Quiet, TypeOK
  <1>6. (\A l \in Roots : loc[l] # Null => ~IsWhite(loc[l]))'
    BY <1>2, <1>4, <1>5 DEF MarkInv, IsWhite, Locs
  <1>7. (\A l \in CStack \cup Frames : loc[l] \in pinned \cup {Null} /\ (loc[l] # Null => ~IsWhite(loc[l])))'
    BY <1>1, <1>3, <1>4, <1>5 DEF IsWhite, Locs
  <1>8. (pinned \subseteq alloc)'
    BY <1>1, <1>2, <1>3 DEF MarkInv, Quiet
  <1>9. MarkInv'
    BY <1>1, <1>4, <1>6, <1>7, <1>8 DEF MarkInv
  <1> QED
    BY <1>1, <1>9, ToMarkInv DEF MarkPhases

\* The remembered owners are marked.
LEMMA InvFullDirtyRoots == ASSUME IInv, TypeOK', FullDirtyRoots PROVE IInv'
  <1>1. TypeOK /\ pc = "dirtyRoots" /\ pc' = "mark" /\ Quiet /\ PushAndGray(DirtyRoots) /\ pinned' = pinned
    BY DEF IInv, FullDirtyRoots, Quiet
  <1>2. MarkInv
    BY <1>1, InMark DEF MarkPhases
  <1>3. DirtyRoots \in SUBSET alloc /\ \A o \in Old : remset[o] > 0 => o \in DirtyRoots
    BY <1>2 DEF DirtyRoots, Entries, MarkInv, BarrierInv
  <1>4. /\ SlotsLive' /\ LocsLive' /\ (\A a \in Addr : fwd[a] = Null)'
        /\ (\A a \in alloc : color[a] = Gray <=> a \in wl)' /\ (wl \subseteq alloc)'
        /\ (todo = {} /\ walk = FALSE)' /\ BarrierInv' /\ NoBlackToWhite'
        /\ \A a \in DirtyRoots : ~IsWhite(a)'
        /\ \A a \in Addr : ~IsWhite(a) => ~IsWhite(a)'
    BY <1>1, <1>2, <1>3, GrayInv DEF MarkInv
  <1>5. \A l \in Locs : loc'[l] = loc[l] /\ loc[l] \in Addr \cup {Null}
    BY <1>1 DEF Quiet, TypeOK
  <1>6. (\A l \in Roots : loc[l] # Null => ~IsWhite(loc[l]))'
    BY <1>2, <1>4, <1>5 DEF MarkInv, IsWhite, Locs
  <1>7. (\A l \in CStack \cup Frames : loc[l] \in pinned \cup {Null} /\ (loc[l] # Null => ~IsWhite(loc[l])))'
    BY <1>1, <1>2, <1>4, <1>5 DEF MarkInv, IsWhite, Locs
  <1>8. (\A o \in Old : remset[o] > 0 => ~IsWhite(o))' /\ (pinned \subseteq alloc)'
    BY <1>1, <1>2, <1>3, <1>4 DEF MarkInv, Quiet, IsWhite
  <1>9. MarkInv'
    BY <1>1, <1>4, <1>6, <1>7, <1>8 DEF MarkInv
  <1> QED
    BY <1>1, <1>9, ToMarkInv DEF MarkPhases

\* process_worklist: blackening one object grays what it names.
LEMMA InvFullMark == ASSUME IInv, TypeOK', NEW o \in Addr, FullMark(o) PROVE IInv'
  <1>1. /\ TypeOK /\ pc = "mark" /\ pc' = "mark" /\ Quiet /\ pinned' = pinned /\ o \in wl
        /\ color' = [a \in Addr |-> IF a = o THEN epoch
                                    ELSE IF a \in Whites(Refs(o)) THEN Gray ELSE color[a]]
        /\ wl' = (wl \ {o}) \cup (Whites(Refs(o)) \ {o})
    BY DEF IInv, FullMark, Quiet, Popped
  <1>2. MarkInv
    BY <1>1, InMark DEF MarkPhases
  <1>3. epoch \in 0..1 /\ color \in [Addr -> 0..2] /\ alloc \subseteq Addr /\ o \in alloc /\ epoch' = epoch
        /\ alloc' = alloc /\ slot' = slot
    BY <1>1, <1>2 DEF TypeOK, MarkInv, Quiet
  <1>4. Whites(Refs(o)) \subseteq alloc /\ \A a \in Whites(Refs(o)) : color[a] = 1 - epoch
    <2>1. Refs(o) \subseteq alloc \cup {Null}
      BY <1>2, <1>3 DEF MarkInv, SlotsLive, Refs
    <2> QED
      BY <2>1, AddressAssumption DEF Whites, IsWhite, Addr, Old
  <1>5. \A a \in Addr : ~IsWhite(a) => ~IsWhite(a)'
    BY <1>1, <1>3 DEF IsWhite, Gray
  <1>6. (\A a \in alloc : color[a] = Gray <=> a \in wl)' /\ (wl \subseteq alloc)'
    BY <1>1, <1>2, <1>3, <1>4 DEF MarkInv, Gray
  <1>7. NoBlackToWhite'
    <2> SUFFICES ASSUME NEW a \in alloc, IsBlack(a)', NEW s \in Slots, slot[a][s] # Null
                 PROVE  ~IsWhite(slot[a][s])'
      BY <1>3 DEF NoBlackToWhite
    <2>1. slot[a][s] \in Addr /\ slot'[a][s] = slot[a][s]
      BY <1>2, <1>3 DEF MarkInv, SlotsLive
    <2>2. CASE a = o
      <3>1. slot[a][s] \in Whites(Refs(o)) \/ ~IsWhite(slot[a][s])
        BY <2>1, <2>2 DEF Whites, Refs
      <3> QED
        BY <1>1, <1>3, <1>5, <2>1, <3>1 DEF IsWhite, Gray
    <2>3. CASE a # o
      <3>1. IsBlack(a)
        BY <1>1, <1>3, <2>3 DEF IsBlack, Gray
      <3> QED
        BY <1>2, <1>5, <2>1, <3>1 DEF MarkInv, NoBlackToWhite, IsWhite
    <2> QED
      BY <2>2, <2>3
  <1>8. \A l \in Locs : loc'[l] = loc[l] /\ loc[l] \in Addr \cup {Null}
    BY <1>1 DEF Quiet, TypeOK
  <1>9. (\A l \in Roots : loc[l] # Null => ~IsWhite(loc[l]))'
    BY <1>2, <1>5, <1>8 DEF MarkInv, IsWhite, Locs
  <1>10. (\A l \in CStack \cup Frames : loc[l] \in pinned \cup {Null} /\ (loc[l] # Null => ~IsWhite(loc[l])))'
    BY <1>1, <1>2, <1>5, <1>8 DEF MarkInv, IsWhite, Locs
  <1>11. (\A p \in Old : remset[p] > 0 => ~IsWhite(p))'
    BY <1>1, <1>2, <1>5 DEF MarkInv, Quiet, IsWhite, Addr
  <1>12. SlotsLive' /\ LocsLive' /\ (\A a \in Addr : fwd[a] = Null)' /\ (todo = {} /\ walk = FALSE)'
         /\ BarrierInv' /\ (pinned \subseteq alloc)'
    BY <1>1, <1>2 DEF MarkInv, Quiet, SlotsLive, LocsLive, BarrierInv
  <1>13. MarkInv'
    BY <1>1, <1>6, <1>7, <1>9, <1>10, <1>11, <1>12 DEF MarkInv
  <1> QED
    BY <1>1, <1>13, ToMarkInv DEF MarkPhases

\* IInv as it reads after the sweep, while nothing is forwarded: every object
\* is black.
SweptInv ==
    /\ SlotsLive /\ LocsLive
    /\ \A a \in Addr : fwd[a] = Null
    /\ \A a \in alloc : IsBlack(a)
    /\ wl = {} /\ todo = {} /\ walk = FALSE
    /\ BarrierInv
    /\ pinned \subseteq alloc
    /\ pc = "compact" => \A l \in CStack \cup Frames : loc[l] \in pinned \cup {Null}

\* Before and after compaction IInv is SweptInv.
LEMMA InSwept ==
  ASSUME TypeOK, pc \in {"compact", "finish"}
  PROVE  IInv <=> SweptInv
  <1> USE DEF MarkPhases, MinorPhases, SweptPhases
  <1>1. ASSUME IInv PROVE SweptInv
    <2> USE <1>1
    <2>1. (\A a \in Addr : fwd[a] = Null) /\ todo = {} /\ walk = FALSE /\ wl = {}
      BY DEF IInv, Forwarding, Snapshot, Worklist
    <2>2. BarrierInv
      BY <2>1, QuietBarrier DEF IInv
    <2>3. \A a \in alloc : IsBlack(a)
      BY DEF IInv, Colors
    <2> QED
      BY <2>1, <2>2, <2>3 DEF IInv, SweptInv, Pins
  <1>2. ASSUME SweptInv PROVE IInv
    <2> USE <1>2 DEF SweptInv
    <2>1. Covered /\ Queued /\ EntriesOnce
      BY QuietBarrier
    <2>2. Forwarding /\ Colors /\ Worklist
      BY DEF Forwarding, Colors, Worklist
    <2>3. Snapshot /\ MinorClean /\ Compacted
      BY DEF Snapshot, MinorClean, Compacted
    <2>4. Marked /\ Pins
      BY DEF Marked, Pins, TypeOK
    <2> QED
      BY <2>1, <2>2, <2>3, <2>4 DEF IInv
  <1> QED
    BY <1>1, <1>2

\* From SweptInv' to IInv'.
LEMMA ToSweptInv ==
  ASSUME TypeOK', (pc \in {"compact", "finish"})', SweptInv'
  PROVE  IInv'
  <1>1. (TypeOK /\ pc \in {"compact", "finish"})' => (IInv <=> SweptInv)'
    BY InSwept, PTL
  <1> QED
    BY <1>1

\* With the worklist empty, everything a live object, a location or the
\* remembered set names is black, and survives the sweep.
LEMMA InvFullSweep == ASSUME IInv, TypeOK', FullSweep PROVE IInv'
  <1>1. /\ TypeOK /\ pc = "mark" /\ pc' = "compact" /\ wl = {}
        /\ alloc' = alloc \ FullDead /\ color' = Paint(FullDead, 0) /\ slot' = Blank(FullDead)
        /\ dirty' = dirty \ FullDead /\ pinned' = pinned \ FullDead
        /\ UNCHANGED <<epoch, fwd, loc, remset, overflowed, todo, walk, wl>>
    BY DEF IInv, FullSweep
  <1>2. MarkInv
    BY <1>1, InMark DEF MarkPhases
  <1>3. epoch \in 0..1 /\ color \in [Addr -> 0..2] /\ alloc \subseteq Addr
    BY <1>1 DEF TypeOK
  <1>4. \A a \in alloc : color[a] # 2
    BY <1>1, <1>2 DEF MarkInv, Gray
  <1>5. \A a \in alloc' : a \in alloc /\ IsBlack(a) /\ color'[a] = color[a] /\ slot'[a] = slot[a]
    BY <1>1, <1>3, <1>4 DEF FullDead, IsBlack, IsWhite, Paint, Blank
  <1>6. \A a \in alloc : ~IsWhite(a) => a \in alloc' /\ a \notin FullDead
    BY <1>1 DEF FullDead
  <1>7. SlotsLive'
    BY <1>2, <1>5, <1>6 DEF MarkInv, NoBlackToWhite, SlotsLive
  <1>8. LocsLive'
    BY <1>1, <1>2, <1>6 DEF MarkInv, LocsLive, Locs
  <1>9. (\A a \in alloc : IsBlack(a))'
    BY <1>1, <1>5 DEF IsBlack
  <1>10. (\A l \in CStack \cup Frames : loc[l] \in pinned \cup {Null})'
    <2> SUFFICES ASSUME NEW l \in CStack \cup Frames, loc[l] # Null PROVE loc[l] \in pinned'
      BY <1>1
    <2>1. loc[l] \in pinned /\ loc[l] \in alloc /\ ~IsWhite(loc[l])
      BY <1>1, <1>2 DEF MarkInv
    <2> QED
      BY <1>1, <1>6, <2>1
  <1>11. BarrierInv'
    <2>1. \A o \in Old : remset[o] > 0 => o \in alloc' /\ o \in dirty'
      BY <1>1, <1>2, <1>6 DEF MarkInv, BarrierInv
    <2> QED
      BY <1>1, <1>2, <1>5, <2>1 DEF MarkInv, BarrierInv
  <1>12. (pinned \subseteq alloc)' /\ (\A a \in Addr : fwd[a] = Null)' /\ (wl = {} /\ todo = {} /\ walk = FALSE)'
    BY <1>1, <1>2 DEF MarkInv
  <1>13. SweptInv'
    BY <1>1, <1>7, <1>8, <1>9, <1>10, <1>11, <1>12 DEF SweptInv
  <1> QED
    BY <1>1, <1>13, ToSweptInv

\* Evacuation: the copies take over the DIRTY bit, while the remembered set
\* still names the originals; nothing a stack word names moves.
LEMMA InvCompactEvacuate ==
  ASSUME IInv, TypeOK', NEW src \in SUBSET Compactable, CompactEvacuate(src)
  PROVE  IInv'
  <1>1. PICK f \in Injection(src, OldPage \ alloc) :
          /\ alloc' = alloc \cup Range(f)
          /\ color' = Paint(Range(f), CopyColor)
          /\ fwd' = [a \in Addr |-> IF a \in src THEN f[a] ELSE fwd[a]]
          /\ slot' = [a \in Addr |-> IF a \in Range(f) THEN slot[Source(f, a)] ELSE slot[a]]
          /\ dirty' = (dirty \ src) \cup {f[a] : a \in src \cap dirty}
    BY DEF CompactEvacuate
  <1>2. /\ TypeOK /\ pc = "compact" /\ pc' = "fixup"
        /\ UNCHANGED <<epoch, pinned, loc, remset, overflowed, todo, walk, wl>>
    BY DEF IInv, CompactEvacuate
  <1>3. SweptInv
    BY <1>2, InSwept
  <1>4. /\ f \in [src -> OldPage \ alloc] /\ \A a, b \in src : f[a] = f[b] => a = b
        /\ src \subseteq alloc \cap OldPage /\ src \cap pinned = {} /\ OldPage \subseteq Old
        /\ Old \subseteq Addr /\ alloc \subseteq Addr /\ Null \notin OldPage /\ OldPage \cap Young = {}
    BY <1>2, AddressAssumption DEF Injection, IsInjective, Compactable, TypeOK, Addr, Old
  <1>5. /\ Range(f) \cap alloc = {} /\ Range(f) \subseteq OldPage
        /\ \A a \in src : f[a] \in Range(f)
        /\ \A b \in Range(f) : Source(f, b) \in src /\ f[Source(f, b)] = b
    BY <1>4 DEF Range, Source
  <1>6. /\ \A a \in alloc : slot'[a] = slot[a] /\ color'[a] = color[a]
        /\ \A b \in Range(f) : slot'[b] = slot[Source(f, b)] /\ color'[b] = epoch
        /\ \A a \in Addr : fwd'[a] = IF a \in src THEN f[a] ELSE Null
    BY <1>1, <1>3, <1>4, <1>5 DEF SweptInv, Paint, CopyColor
  <1>7. SlotsLive' /\ LocsLive'
    BY <1>1, <1>2, <1>3, <1>4, <1>5, <1>6 DEF SweptInv, SlotsLive, LocsLive
  <1>8. Forwarding'
    BY <1>1, <1>2, <1>4, <1>5, <1>6 DEF Forwarding
  <1>9. Colors' /\ Worklist' /\ Snapshot'
    <2>1. (\A a \in alloc : IsBlack(a))'
      BY <1>1, <1>2, <1>3, <1>6 DEF SweptInv, IsBlack
    <2> QED
      BY <1>2, <1>3, <2>1 DEF Colors, Worklist, Snapshot, SweptInv, MinorPhases, MarkPhases, SweptPhases
  <1>10. Covered'
    <2> SUFFICES ASSUME NEW o \in alloc' \cap Old, fwd'[o] = Null, o \notin dirty', NEW s \in Slots
                 PROVE  slot'[o][s] \notin Young
      BY DEF Covered
    <2>1. CASE o \in Range(f)
      <3>1. Source(f, o) \in src /\ Source(f, o) \notin dirty
        BY <1>1, <1>5, <2>1
      <3> QED
        BY <1>3, <1>4, <1>6, <2>1, <3>1 DEF SweptInv, BarrierInv
    <2>2. CASE o \in alloc
      <3>1. o \notin src
        BY <1>4, <1>6
      <3> QED
        BY <1>1, <1>3, <1>6, <2>2, <3>1 DEF SweptInv, BarrierInv
    <2> QED
      BY <1>1, <2>1, <2>2
  <1>11. \A o \in dirty' : o \in alloc' \cap Old /\ fwd'[o] = Null
    BY <1>1, <1>3, <1>4, <1>5, <1>6 DEF SweptInv, BarrierInv
  <1>12. Queued'
    <2> SUFFICES ASSUME NEW o \in dirty', ~overflowed
                 PROVE  \E e \in Old : remset[e] > 0 /\ Fixed(e)' = o
      BY <1>2, <1>11 DEF Queued
    <2>1. CASE o \in dirty \ src
      <3>1. o \in Old /\ remset[o] > 0
        BY <1>3, <2>1 DEF SweptInv, BarrierInv
      <3> QED
        BY <1>4, <1>6, <2>1, <3>1 DEF Fixed
    <2>2. ASSUME NEW a \in src \cap dirty, o = f[a] PROVE \E e \in Old : remset[e] > 0 /\ Fixed(e)' = o
      <3>1. a \in Old /\ remset[a] > 0
        BY <1>3 DEF SweptInv, BarrierInv
      <3>2. fwd'[a] = f[a] /\ f[a] # Null /\ a \in Addr
        BY <1>4, <1>6, <3>1
      <3> QED
        BY <2>2, <3>1, <3>2 DEF Fixed
    <2> QED
      BY <1>1, <2>1, <2>2
  <1>13. EntriesOnce'
    <2> SUFFICES ASSUME NEW o \in Old
                 PROVE  remset[o] \in {0, 1} /\ (remset[o] > 0 => o \in alloc' /\ Fixed(o)' \in dirty' /\ o \notin todo)
      BY <1>2 DEF EntriesOnce
    <2>1. remset[o] \in {0, 1} /\ o \notin todo
      BY <1>3 DEF SweptInv, BarrierInv
    <2>2. ASSUME remset[o] > 0 PROVE o \in alloc' /\ Fixed(o)' \in dirty'
      <3>1. o \in alloc /\ o \in dirty
        BY <1>3, <2>2 DEF SweptInv, BarrierInv
      <3>2. CASE o \in src
        <4>1. fwd'[o] = f[o] /\ f[o] # Null
          BY <1>4, <1>6, <3>2
        <4> QED
          BY <1>1, <1>4, <3>1, <3>2, <4>1 DEF Fixed
      <3>3. CASE o \notin src
        BY <1>1, <1>4, <1>6, <3>1, <3>3 DEF Fixed
      <3> QED
        BY <3>2, <3>3
    <2> QED
      BY <2>1, <2>2
  <1>14. Pins'
    BY <1>1, <1>2, <1>3, <1>4, <1>6 DEF Pins, SweptInv
  <1>15. Compacted'
    <2>1. ASSUME NEW a \in Old, NEW b \in Old, fwd'[a] # Null
          PROVE  remset'[fwd'[a]] = 0 /\ (fwd'[a] = fwd'[b] => a = b)
      <3>1. a \in src /\ fwd'[a] = f[a] /\ f[a] \in OldPage \ alloc
        BY <1>4, <1>6, <2>1
      <3>2. remset[f[a]] = 0
        BY <1>3, <1>4, <3>1 DEF SweptInv, BarrierInv
      <3>3. fwd'[a] = fwd'[b] => a = b
        BY <1>4, <1>6, <3>1
      <3> QED
        BY <1>2, <3>1, <3>2, <3>3
    <2> QED
      BY <1>2, <2>1 DEF Compacted
  <1>16. MinorClean' /\ Marked'
    BY <1>2 DEF MinorClean, Marked, MinorPhases, MarkPhases
  <1> QED
    BY <1>7, <1>8, <1>9, <1>10, <1>12, <1>13, <1>14, <1>15, <1>16 DEF IInv

\* The fixup redirects every slot, root and remembered entry from an original
\* to its copy; stack words need none, what they name is pinned.
LEMMA InvCompactFixup ==
  ASSUME IInv, TypeOK', NEW junk \in StaleWords, NEW repinned \in Repinnable(junk), CompactFixup(repinned)
  PROVE  IInv'
  <1>1. /\ TypeOK /\ pc = "fixup" /\ pc' = "release" /\ pinned' = repinned
        /\ UNCHANGED <<alloc, color, epoch, dirty, fwd, overflowed, todo, walk, wl>>
        /\ loc' = [l \in Locs |-> IF l \in CStack THEN loc[l] ELSE Fixed(loc[l])]
        /\ slot' = [a \in Addr |-> IF a \in FixupObjects
                                   THEN [s \in Slots |-> Fixed(slot[a][s])] ELSE slot[a]]
    BY DEF IInv, CompactFixup
  <1>2. /\ \A a \in Addr : fwd[a] # Null => /\ a \in alloc /\ fwd[a] \in alloc \cap OldPage
                                            /\ a \in OldPage /\ fwd[fwd[a]] = Null
        /\ alloc \subseteq Addr /\ Old \subseteq Addr /\ OldPage \subseteq Old /\ Null \notin Addr
        /\ OldPage \cap Young = {}
    BY <1>1, AddressAssumption DEF IInv, Forwarding, TypeOK, Addr, Old
  <1>3. \A v \in alloc \cup {Null} : Fixed(v) \in alloc \cup {Null} /\ Unmoved(Fixed(v))
                                     /\ (v \notin Young => Fixed(v) \notin Young)
    BY <1>2 DEF Fixed, Unmoved
  <1>4. \A a \in alloc : fwd[a] = Null => \A s \in Slots : slot'[a][s] = Fixed(slot[a][s])
    BY <1>1, <1>2 DEF FixupObjects
  <1>5. \A a \in alloc : fwd[a] # Null => slot'[a] = slot[a]
    BY <1>1, <1>2 DEF FixupObjects
  <1>6. \A a \in alloc : \A s \in Slots : slot[a][s] \in alloc \cup {Null}
    BY DEF IInv, SlotsLive
  <1>7. SlotsLive'
    <2> SUFFICES ASSUME NEW a \in alloc, NEW s \in Slots PROVE slot'[a][s] \in alloc \cup {Null}
      BY <1>1 DEF SlotsLive
    <2>1. CASE fwd[a] = Null
      <3>1. slot'[a][s] = Fixed(slot[a][s])
        BY <1>4, <2>1
      <3> QED
        BY <1>3, <1>6, <3>1
    <2>2. CASE fwd[a] # Null
      BY <1>5, <1>6, <2>2
    <2> QED
      BY <2>1, <2>2
  <1>8. LocsLive' /\ \A l \in Locs : Unmoved(loc[l])'
    <2>1. ASSUME NEW l \in CStack PROVE loc'[l] = loc[l] /\ loc[l] \in alloc \cup {Null} /\ Unmoved(loc[l])
      <3>1. loc[l] \in pinned \cup {Null} /\ \A a \in pinned : fwd[a] = Null
        BY <1>1 DEF IInv, Pins, MinorPhases
      <3> QED
        BY <1>1, <3>1 DEF IInv, LocsLive, Locs, Unmoved
    <2>2. ASSUME NEW l \in Locs, l \notin CStack
          PROVE  loc'[l] = Fixed(loc[l]) /\ loc[l] \in alloc \cup {Null}
      BY <1>1, <2>2 DEF IInv, LocsLive
    <2> QED
      BY <1>1, <1>3, <2>1, <2>2 DEF LocsLive, Unmoved
  <1>9. Forwarding' /\ Colors' /\ Worklist' /\ Snapshot'
    BY <1>1 DEF IInv, Forwarding, Colors, Worklist, Snapshot, MinorPhases, MarkPhases, SweptPhases,
                IsBlack, IsWhite
  <1>10. todo = {} /\ walk = FALSE
    BY <1>1 DEF IInv, Snapshot, MinorPhases
  <1>11. Covered'
    <2> SUFFICES ASSUME NEW o \in alloc \cap Old, fwd[o] = Null, o \notin dirty, NEW s \in Slots
                 PROVE  slot'[o][s] \notin Young
      BY <1>1 DEF Covered
    <2>1. slot[o][s] \notin Young
      BY <1>1, <1>10 DEF IInv, Covered, Awaits, MinorPhases
    <2> QED
      BY <1>3, <1>4, <1>6, <2>1
  <1>12. /\ \A o \in Old : remset[o] \in {0, 1} /\ (remset[o] > 0 => o \in alloc /\ Fixed(o) \in dirty)
         /\ \A a, b \in Old : fwd[a] # Null => remset[fwd[a]] = 0 /\ (fwd[a] = fwd[b] => a = b)
         /\ remset \in [Old -> Nat]
    BY <1>1 DEF IInv, EntriesOnce, Compacted, TypeOK
  <1>13. \* the entry of a copy is the entry of its original
         /\ \A e \in Old : fwd[e] # Null => remset'[fwd[e]] = remset[e] /\ remset'[e] = 0
         /\ \A o \in Old : fwd[o] = Null /\ (\A e \in Old : fwd[e] # o) => remset'[o] = remset[o]
    <2>1. remset' = [o \in Old |-> IF fwd[o] # Null THEN 0
                                   ELSE IF \E e \in Old : fwd[e] = o
                                        THEN remset[o] + remset[CHOOSE e \in Old : fwd[e] = o]
                                        ELSE remset[o]]
      BY DEF CompactFixup
    <2>2. ASSUME NEW e \in Old, fwd[e] # Null PROVE remset'[fwd[e]] = remset[e] /\ remset'[e] = 0
      <3>1. fwd[e] \in Old /\ fwd[fwd[e]] = Null /\ remset[fwd[e]] = 0
        BY <1>2, <1>12, <2>2
      <3>2. (CHOOSE d \in Old : fwd[d] = fwd[e]) = e
        BY <1>12, <2>2
      <3>3. remset'[fwd[e]] = remset[fwd[e]] + remset[e]
        BY <2>1, <3>1, <3>2
      <3> QED
        BY <1>12, <2>1, <2>2, <3>1, <3>3
    <2>3. \A o \in Old : fwd[o] = Null /\ (\A e \in Old : fwd[e] # o) => remset'[o] = remset[o]
      BY <2>1
    <2> QED
      BY <2>2, <2>3
  <1>14. /\ \A o \in dirty : o \in alloc \cap Old /\ fwd[o] = Null
         /\ \A o \in dirty : overflowed \/ \E e \in Old : remset[e] > 0 /\ Fixed(e) = o
    BY <1>10 DEF IInv, Queued
  <1>15. Queued'
    <2> SUFFICES ASSUME NEW o \in dirty, ~overflowed
                 PROVE  remset'[o] > 0 /\ o \in Old /\ Fixed(o)' = o
      BY <1>1, <1>14 DEF Queued
    <2>1. PICK e \in Old : remset[e] > 0 /\ Fixed(e) = o
      BY <1>14
    <2>2. o \in Old /\ fwd[o] = Null /\ Fixed(o)' = o
      BY <1>1, <1>14 DEF Fixed
    <2>3. CASE fwd[e] # Null
      BY <1>2, <1>13, <2>1, <2>2, <2>3 DEF Fixed
    <2>4. CASE fwd[e] = Null
      <3>1. e = o
        BY <2>1, <2>4 DEF Fixed
      <3>2. \A d \in Old : fwd[d] # o
        BY <1>2, <1>12, <2>1, <3>1
      <3> QED
        BY <1>13, <2>1, <2>2, <3>1, <3>2
    <2> QED
      BY <2>2, <2>3, <2>4
  <1>16. ASSUME NEW o \in Old
         PROVE  remset'[o] \in {0, 1} /\ (remset'[o] > 0 => o \in alloc /\ o \in dirty /\ fwd[o] = Null)
    <2>1. CASE fwd[o] # Null
      BY <1>13, <2>1
    <2>2. CASE fwd[o] = Null /\ \E e \in Old : fwd[e] = o
      <3>1. PICK e \in Old : fwd[e] = o
        BY <2>2
      <3>2. fwd[e] # Null /\ Fixed(e) = o /\ remset'[o] = remset[e] /\ o \in alloc
        BY <1>2, <1>13, <3>1 DEF Fixed
      <3> QED
        BY <1>12, <2>2, <3>2
    <2>3. CASE fwd[o] = Null /\ \A e \in Old : fwd[e] # o
      BY <1>12, <1>13, <2>3 DEF Fixed
    <2> QED
      BY <2>1, <2>2, <2>3
  <1>17. EntriesOnce'
    BY <1>1, <1>10, <1>16 DEF EntriesOnce, Fixed
  <1>18. Pins' /\ MinorClean' /\ Marked'
    BY <1>1 DEF Pins, Repinnable, Ambiguous, MinorClean, Marked, MinorPhases, MarkPhases
  <1>19. Compacted'
    <2>1. ASSUME NEW a \in alloc, fwd[a] = Null, NEW s \in Slots PROVE Unmoved(slot[a][s])'
      <3>1. slot'[a][s] = Fixed(slot[a][s]) /\ slot[a][s] \in alloc \cup {Null}
        BY <1>4, <1>6, <2>1
      <3>2. Unmoved(Fixed(slot[a][s]))
        BY <1>3, <3>1
      <3> QED
        BY <1>1, <3>1, <3>2 DEF Unmoved
    <2> QED
      BY <1>1, <1>8, <1>16, <2>1 DEF Compacted
  <1> QED
    BY <1>7, <1>8, <1>9, <1>11, <1>15, <1>17, <1>18, <1>19 DEF IInv

\* Releasing the originals: nothing names them any more.
LEMMA InvCompactRelease == ASSUME IInv, TypeOK', CompactRelease PROVE IInv'
  <1> DEFINE gone == {a \in Addr : fwd[a] # Null}
  <1>1. /\ TypeOK /\ pc = "release" /\ pc' = "finish"
        /\ alloc' = alloc \ gone /\ color' = Paint(gone, 0) /\ slot' = Blank(gone)
        /\ (\A a \in Addr : fwd[a] = Null)'
        /\ UNCHANGED <<epoch, dirty, pinned, loc, remset, overflowed, todo, walk, wl>>
    BY DEF IInv, CompactRelease
  <1>2. /\ alloc \subseteq Addr /\ Old \subseteq Addr
        /\ todo = {} /\ walk = FALSE /\ wl = {}
    BY <1>1 DEF IInv, TypeOK, Addr, Snapshot, Worklist, MinorPhases, MarkPhases
  <1>3. \A a \in alloc : a \in alloc' <=> fwd[a] = Null
    BY <1>1, <1>2
  <1>4. \A a \in alloc' : a \in alloc /\ slot'[a] = slot[a] /\ color'[a] = color[a]
    BY <1>1, <1>2 DEF Blank, Paint
  <1>5. SlotsLive' /\ LocsLive'
    <2>1. \A a \in alloc' : \A s \in Slots : slot[a][s] \in alloc' \cup {Null}
      BY <1>1, <1>3, <1>4 DEF IInv, SlotsLive, Compacted, Unmoved
    <2>2. \A l \in Locs : loc[l] \in alloc' \cup {Null}
      BY <1>1, <1>3 DEF IInv, LocsLive, Compacted, Unmoved
    <2> QED
      BY <1>1, <1>4, <2>1, <2>2 DEF SlotsLive, LocsLive
  <1>6. (\A a \in alloc : IsBlack(a))'
    BY <1>1, <1>4 DEF IInv, Colors, SweptPhases, IsBlack
  <1>7. \A o \in Old : remset[o] > 0 => fwd[o] = Null /\ Fixed(o) = o
    BY <1>1 DEF IInv, Compacted, Fixed
  <1>8. BarrierInv'
    <2>1. \A o \in dirty : o \in alloc' /\ o \in Old
      BY <1>3 DEF IInv, Queued
    <2>2. \A o \in dirty : overflowed \/ remset[o] > 0
      BY <1>2, <1>7 DEF IInv, Queued
    <2>3. \A o \in Old : remset[o] \in {0, 1} /\ (remset[o] > 0 => o \in alloc' /\ o \in dirty)
      BY <1>3, <1>7 DEF IInv, EntriesOnce
    <2>4. \A o \in alloc' \cap Old : o \in dirty \/ \A s \in Slots : slot[o][s] \notin Young
      BY <1>1, <1>2, <1>3, <1>4 DEF IInv, Covered, Awaits, MinorPhases
    <2> QED
      BY <1>1, <1>4, <2>1, <2>2, <2>3, <2>4 DEF BarrierInv
  <1>9. (pinned \subseteq alloc)'
    BY <1>1, <1>3 DEF IInv, Pins, MinorPhases
  <1>10. SweptInv'
    BY <1>1, <1>2, <1>5, <1>6, <1>8, <1>9 DEF SweptInv
  <1> QED
    BY <1>1, <1>10, ToSweptInv

\* Advancing the epoch turns every survivor white at once.
LEMMA InvFullFinish == ASSUME IInv, TypeOK', FullFinish PROVE IInv'
  <1>1. /\ TypeOK /\ pc = "finish" /\ pc' = "mutator" /\ epoch' = 1 - epoch
        /\ remset' = [o \in Old |-> IF o \in alloc THEN remset[o] ELSE 0]
        /\ UNCHANGED <<alloc, color, slot, dirty, pinned, fwd, loc, overflowed, todo, walk, wl>>
    BY DEF IInv, FullFinish, NextEpoch
  <1>2. SweptInv
    BY <1>1, InSwept
  <1>3. epoch \in 0..1
    BY <1>1 DEF TypeOK
  <1>4. (\A a \in alloc : IsWhite(a))'
    BY <1>1, <1>2, <1>3 DEF SweptInv, IsBlack, IsWhite
  <1>5. BarrierInv'
    BY <1>1, <1>2 DEF SweptInv, BarrierInv
  <1>6. MutatorInv'
    BY <1>1, <1>2, <1>4, <1>5 DEF SweptInv, MutatorInv, BarrierInv, SlotsLive, LocsLive
  <1> QED
    BY <1>1, <1>6, ToMutatorInv

\* Every phase of a full collection keeps the invariant.
LEMMA InvFull == ASSUME IInv, TypeOK', Full PROVE IInv'
  BY InvFullRoots, InvFullStacks, InvFullDirtyRoots, InvFullMark, InvFullSweep, InvCompactEvacuate,
     InvCompactFixup, InvCompactRelease, InvFullFinish
  DEF Full

-----------------------------------------------------------------------------
(* The theorems *)

\* A step that changes nothing keeps the invariant.
LEMMA InvStutter == ASSUME IInv, UNCHANGED vars PROVE IInv'
  <1> USE DEF vars, heapVars
  <1>1. TypeOK' /\ SlotsLive' /\ LocsLive' /\ Forwarding' /\ Colors'
    BY DEF IInv, TypeOK, SlotsLive, LocsLive, Forwarding, Colors, IsWhite, IsBlack, Gray
  <1>2. Worklist' /\ Snapshot' /\ MinorClean'
    BY DEF IInv, Worklist, Snapshot, MinorClean, Awaits, Clean, IsBlack, Empty
  <1>3. Covered' /\ Queued' /\ EntriesOnce'
    BY DEF IInv, Covered, Queued, EntriesOnce, Awaits, Fixed
  <1>4. Marked' /\ Pins' /\ Compacted'
    BY DEF IInv, Marked, Pins, Compacted, Unmoved, IsWhite, IsBlack
  <1> QED
    BY <1>1, <1>2, <1>3, <1>4 DEF IInv

\* IInv is inductive.
LEMMA InvNext == ASSUME BarrieredFallback, IInv, [Next]_vars PROVE IInv'
  <1>1. CASE UNCHANGED vars
    BY <1>1, InvStutter
  <1>2. CASE Next
    <2>1. TypeOK'
      BY <1>2, TypeNext DEF IInv
    <2> QED
      BY <1>2, <2>1, InvMutator, InvMinor, InvFull DEF Next
  <1> QED
    BY <1>1, <1>2

\* The inductive invariant of the heap holds in every state, for every heap,
\* when no barrier-less store reaches an object born in an old page.
THEOREM Invariance == ASSUME BarrieredFallback PROVE Spec => []IInv
  <1>1. IInv /\ [Next]_vars => IInv'
    BY InvNext
  <1> QED
    BY <1>1, InvInit, PTL DEF Spec

\* NoDangling for every heap: between collections no root, stack word or field
\* of a live object names a freed or an evacuated cell.
THEOREM NothingDangles == ASSUME BarrieredFallback PROVE Spec => []NoDangling
  <1>1. ASSUME IInv PROVE NoDangling
    <2> SUFFICES ASSUME pc = "mutator", NEW v, v # Null,
                        v \in Held(Locs) \/ \E a \in alloc : v \in Refs(a)
                 PROVE  v \in alloc /\ fwd[v] = Null
      BY DEF NoDangling
    <2>1. MutatorInv /\ alloc \subseteq Addr
      BY <1>1, InMutator DEF IInv, TypeOK
    <2>2. v \in alloc
      BY <2>1 DEF MutatorInv, SlotsLive, LocsLive, Held, Refs
    <2> QED
      BY <2>1, <2>2 DEF MutatorInv
  <1>2. IInv => NoDangling
    BY <1>1
  <1> QED
    BY <1>2, Invariance, PTL

\* BarrierCoverage for every heap: the next minor visits every old object that
\* names a young one.
THEOREM BarrierCovers == ASSUME BarrieredFallback PROVE Spec => []BarrierCoverage
  <1>1. ASSUME IInv, pc = "mutator" PROVE BarrierCoverage
    <2>1. MutatorInv
      BY <1>1, InMutator DEF IInv
    <2> QED
      BY <2>1 DEF MutatorInv, BarrierCoverage, Refs, Entries
  <1>2. IInv => BarrierCoverage
    BY <1>1 DEF BarrierCoverage
  <1> QED
    BY <1>2, Invariance, PTL

\* RemsetDiscipline for every heap: no stale and no duplicate entry.
THEOREM RemsetDisciplined == ASSUME BarrieredFallback PROVE Spec => []RemsetDiscipline
  <1>1. ASSUME IInv, pc = "mutator" PROVE RemsetDiscipline
    <2>1. MutatorInv
      BY <1>1, InMutator DEF IInv
    <2> QED
      BY <2>1 DEF MutatorInv, RemsetDiscipline, Entries
  <1>2. IInv => RemsetDiscipline
    BY <1>1 DEF RemsetDiscipline
  <1> QED
    BY <1>2, Invariance, PTL

\* VerifyWalk for every heap: the walk of EJS_GC_VERIFY finds no missed edge.
THEOREM VerifyWalkPasses == ASSUME BarrieredFallback PROVE Spec => []VerifyWalk
  <1>1. ASSUME IInv, pc = "scan", todo = {}, wl = {} PROVE VerifyWalk
    <2>1. MinorInv
      BY <1>1, InMinor DEF IInv, MinorPhases
    <2>2. \A o \in alloc \cap Old : ~Awaits(o)
      BY <1>1 DEF Awaits
    <2> QED
      BY <2>1, <2>2 DEF MinorInv, OldScanned, VerifyWalk, Refs, Clean
  <1>2. IInv => VerifyWalk
    BY <1>1 DEF VerifyWalk
  <1> QED
    BY <1>2, Invariance, PTL

\* TriColor for every heap.
THEOREM TriColorHolds == ASSUME BarrieredFallback PROVE Spec => []TriColor
  <1>1. ASSUME IInv, pc = "mark" PROVE TriColor
    <2>1. MarkInv
      BY <1>1, InMark DEF IInv, MarkPhases
    <2>2. Null \notin Addr
      BY AddressAssumption DEF Addr, Old
    <2> QED
      BY <2>1, <2>2 DEF MarkInv, NoBlackToWhite, TriColor, Refs
  <1>2. IInv => TriColor
    BY <1>1 DEF TriColor
  <1> QED
    BY <1>2, Invariance, PTL

\* WhiteBetweenCycles for every heap.
THEOREM WhiteBetween == ASSUME BarrieredFallback PROVE Spec => []WhiteBetweenCycles
  <1>1. IInv => WhiteBetweenCycles
    BY InMutator DEF IInv, MutatorInv, WhiteBetweenCycles
  <1> QED
    BY <1>1, Invariance, PTL

\* FixupReadsLiveCells for every heap: compaction never reads a freed header.
THEOREM FixupIsSafe == ASSUME BarrieredFallback PROVE Spec => []FixupReadsLiveCells
  <1>1. ASSUME IInv, NEW v, v # Null,
               v \in Held(Locs) \/ (\E a \in alloc : v \in Refs(a)) \/ v \in Entries
        PROVE  v \in alloc
    <2>1. v \in Entries => v \in alloc
      BY <1>1 DEF IInv, EntriesOnce, Entries
    <2> QED
      BY <1>1, <2>1 DEF IInv, SlotsLive, LocsLive, Held, Refs
  <1>2. IInv => FixupReadsLiveCells
    <2> SUFFICES ASSUME IInv, NEW v \in Held(Locs) \cup Entries \cup UNION {Refs(a) : a \in alloc}, v # Null
                 PROVE  v \in alloc
      BY DEF FixupReadsLiveCells
    <2>1. CASE v \in UNION {Refs(a) : a \in alloc}
      <3>1. PICK a \in alloc : v \in Refs(a)
        BY <2>1
      <3> QED
        BY <1>1, <3>1
    <2>2. CASE v \in Held(Locs)
      BY <1>1, <2>2
    <2>3. CASE v \in Entries
      BY <1>1, <2>3
    <2> QED
      BY <2>1, <2>2, <2>3
  <1> QED
    BY <1>2, Invariance, PTL

\* In every phase, what a stack word names is allocated and has not moved.
LEMMA StackWordsLive ==
  ASSUME IInv, NEW l \in CStack, loc[l] # Null
  PROVE  loc[l] \in alloc /\ fwd[loc[l]] = Null
  <1>1. loc[l] \in alloc /\ alloc \subseteq Addr /\ pc \in Phases
    BY DEF IInv, LocsLive, Locs, TypeOK
  <1>2. CASE pc \in {"roots", "scan"}
    <2>1. Clean(loc[l])
      BY <1>2 DEF IInv, MinorClean, MinorPhases
    <2>2. fwd[loc[l]] # Null => loc[l] \in Young
      BY <1>1, <1>2 DEF IInv, Forwarding
    <2> QED
      BY <1>1, <2>1, <2>2 DEF Clean
  <1>3. CASE pc = "fixup"
    <2>1. loc[l] \in pinned
      BY <1>3 DEF IInv, Pins
    <2> QED
      BY <1>1, <1>3, <2>1 DEF IInv, Pins, MinorPhases
  <1>4. CASE pc = "release"
    BY <1>1, <1>4 DEF IInv, Compacted, Unmoved, Locs
  <1>5. CASE pc \notin {"roots", "scan", "fixup", "release"}
    BY <1>1, <1>5 DEF IInv, Forwarding
  <1> QED
    BY <1>1, <1>2, <1>3, <1>4, <1>5

\* No step of a collection writes a stack word.
LEMMA StackWordsUnwritten ==
  ASSUME TypeOK, Next, pc # "mutator", NEW l \in CStack
  PROVE  loc'[l] = loc[l]
  <1>1. l \in Locs /\ l \notin Frames /\ l \notin Roots
    BY LocationAssumption DEF Locs
  <1>2. CASE Mutator
    BY <1>2 DEF Mutator, AllocYoung, AllocLos, AllocFallback, Birth, Store, Load, Move
  <1>3. CASE Minor
    BY <1>1, <1>3 DEF Minor, MinorBegin, MinorPins, MinorFrames, MinorRoots, MinorSlots, MinorRemset, MinorDrain,
                      MinorSweep
  <1>4. CASE Full
    BY <1>1, <1>4 DEF Full, FullRoots, FullStacks, FullDirtyRoots, FullMark, FullSweep, CompactEvacuate,
                      CompactFixup, CompactRelease, FullFinish
  <1> QED
    BY <1>2, <1>3, <1>4 DEF Next

\* StackWordsStay for every heap: no collection moves or frees what a word of
\* a C stack names.
THEOREM StackWordsHold == ASSUME BarrieredFallback PROVE Spec => StackWordsStay
  <1> DEFINE Stay == \A l \in CStack :
          pc # "mutator" => /\ loc'[l] = loc[l]
                            /\ loc[l] \in alloc => loc[l] \in alloc' /\ fwd'[loc[l]] = Null
  <1>a. IInv => \A l \in CStack : loc[l] # Null => loc[l] \in alloc /\ fwd[loc[l]] = Null
    BY StackWordsLive
  <1>b. IInv' => (\A l \in CStack : loc[l] # Null => loc[l] \in alloc /\ fwd[loc[l]] = Null)'
    BY <1>a, PTL
  <1>1. ASSUME IInv, IInv', Next PROVE Stay
    <2> SUFFICES ASSUME NEW l \in CStack, pc # "mutator"
                 PROVE  /\ loc'[l] = loc[l]
                        /\ loc[l] \in alloc => loc[l] \in alloc' /\ fwd'[loc[l]] = Null
      OBVIOUS
    <2>1. loc'[l] = loc[l]
      BY <1>1, StackWordsUnwritten DEF IInv
    <2>3. Null \notin alloc
      BY <1>1, AddressAssumption DEF IInv, TypeOK, Addr, Old
    <2> QED
      BY <1>1, <1>b, <2>1, <2>3
  <1>2. IInv /\ IInv' /\ [Next]_vars => [Stay]_vars
    BY <1>1
  <1> QED
    BY <1>2, Invariance, PTL DEF Spec, StackWordsStay

-----------------------------------------------------------------------------
(* Collections end *)

\* how many phases are left before the mutator goes on
Stage == [mutator |-> 0,
          pins |-> 4, frames |-> 3, roots |-> 2, scan |-> 1,
          stacks |-> 7, dirtyRoots |-> 6, mark |-> 5,
          compact |-> 4, fixup |-> 3, release |-> 2, finish |-> 1]

\* the cells that the running phase may still push on the worklist
Unvisited == IF pc = "scan" THEN {y \in Young : fwd[y] = Null /\ ~IsBlack(y)}
                            ELSE {a \in Addr : IsWhite(a)}

\* a phase loses an owner of the snapshot, or else a cell that may be pushed, or
\* else one of the worklist
Shrinks ==
    \/ todo' \subseteq todo /\ todo' # todo
    \/ todo' = todo /\ Unvisited' \subseteq Unvisited /\ Unvisited' # Unvisited
    \/ todo' = todo /\ Unvisited' = Unvisited /\ wl' \subseteq wl /\ wl' # wl

\* A step of a collection goes to a later phase, or comes nearer to the end of
\* its phase: over finitely many cells no collection takes steps for ever.
CollectionAdvances ==
    [][pc # "mutator" => Stage[pc'] < Stage[pc] \/ (pc' = pc /\ Shrinks)]_vars

\* Scanning an object either moves a cell that could still be pushed, or
\* pushes nothing.
LEMMA EvacuateShrinks ==
  ASSUME TypeOK, pc = "scan", pc' = "scan", NEW V, NEW f \in Promotions(V), NEW own, NEW queue,
         Evacuate(f, own, queue)
  PROVE  \/ Unvisited' \subseteq Unvisited /\ Unvisited' # Unvisited
         \/ Unvisited' = Unvisited /\ wl' = queue
  <1>1. /\ DOMAIN f = Movable(V) /\ Range(f) \subseteq OldPage
        /\ \A y \in Movable(V) : f[y] \in OldPage
    BY DEF Promotions, Injection, Range
  <1>2. /\ epoch' = epoch /\ wl' = queue \cup Range(f)
        /\ \A a \in Addr : fwd'[a] = IF a \in DOMAIN f THEN f[a] ELSE fwd[a]
        /\ \A a \in Addr : a \notin Range(f) => color'[a] = color[a]
    BY DEF Evacuate, Paint
  <1>3. \A y \in Young : y \in Addr /\ y \notin OldPage
    BY AddressAssumption DEF Addr
  <1>4. /\ Unvisited = {y \in Young : fwd[y] = Null /\ ~IsBlack(y)}
        /\ Unvisited' = {y \in Young : fwd'[y] = Null /\ ~(color'[y] = epoch')}
    BY DEF Unvisited, IsBlack
  <1>5. Unvisited' = Unvisited \ Movable(V)
    BY <1>1, <1>2, <1>3, <1>4, AddressAssumption DEF IsBlack
  <1>6. Movable(V) \subseteq Unvisited
    BY <1>4 DEF Movable
  <1>7. CASE Movable(V) = {}
    BY <1>1, <1>2, <1>5, <1>7 DEF Range
  <1>8. CASE Movable(V) # {}
    BY <1>5, <1>6, <1>8
  <1> QED
    BY <1>7, <1>8

\* A minor collection advances.
LEMMA MinorAdvances ==
  ASSUME IInv, Minor, pc # "mutator"
  PROVE  Stage[pc'] < Stage[pc] \/ (pc' = pc /\ Shrinks)
  <1>1. CASE \E o \in Old : MinorRemset(o)
    BY <1>1 DEF MinorRemset, Shrinks
  <1>2. ASSUME NEW o \in Addr, MinorDrain(o) PROVE pc' = pc /\ Shrinks
    <2>1. PICK f \in Promotions(Refs(o)) : Evacuate(f, Scanned(f, o), Popped(o))
      BY <1>2 DEF MinorDrain
    <2>2. TypeOK /\ pc = "scan" /\ pc' = "scan" /\ todo' = todo /\ o \in wl
      BY <1>2 DEF IInv, MinorDrain
    <2>3. \/ Unvisited' \subseteq Unvisited /\ Unvisited' # Unvisited
          \/ Unvisited' = Unvisited /\ wl' = Popped(o)
      BY <2>1, <2>2, EvacuateShrinks
    <2> QED
      BY <2>2, <2>3 DEF Popped, Shrinks
  <1>3. CASE MinorSweep
    BY <1>3 DEF MinorSweep, Stage
  <1>4. CASE MinorFrames \/ MinorRoots
    BY <1>4 DEF MinorFrames, MinorRoots, Stage
  <1>5. CASE \E junk \in StaleWords : MinorPins(junk)
    BY <1>5 DEF MinorPins, Stage
  <1> QED
    BY <1>1, <1>2, <1>3, <1>4, <1>5 DEF Minor, MinorBegin

\* A full collection advances.
LEMMA FullAdvances ==
  ASSUME IInv, Full, pc # "mutator"
  PROVE  Stage[pc'] < Stage[pc] \/ (pc' = pc /\ Shrinks)
  <1>1. ASSUME NEW o \in Addr, FullMark(o) PROVE pc' = pc /\ Shrinks
    <2>1. /\ TypeOK /\ pc = "mark" /\ pc' = pc /\ todo' = todo /\ epoch' = epoch /\ o \in wl
          /\ color' = [a \in Addr |-> IF a = o THEN epoch
                                      ELSE IF a \in Whites(Refs(o)) THEN Gray ELSE color[a]]
          /\ wl' = Popped(o) \cup (Whites(Refs(o)) \ {o})
      BY <1>1 DEF IInv, FullMark
    <2>2. color[o] = Gray /\ epoch \in 0..1
      BY <2>1 DEF IInv, Colors, Worklist, MarkPhases, TypeOK
    <2>3. /\ Unvisited = {a \in Addr : color[a] = 1 - epoch}
          /\ Unvisited' = {a \in Addr : color'[a] = 1 - epoch}
      BY <2>1 DEF Unvisited, IsWhite
    <2>4. epoch # 1 - epoch /\ Gray # 1 - epoch
      BY <2>2 DEF Gray
    <2>5. Unvisited' = Unvisited \ Whites(Refs(o))
      BY <2>1, <2>2, <2>3, <2>4
    <2>6. Whites(Refs(o)) \subseteq Unvisited
      BY <2>3 DEF Whites, IsWhite
    <2>7. CASE Whites(Refs(o)) = {}
      BY <2>1, <2>5, <2>7 DEF Popped, Shrinks
    <2>8. CASE Whites(Refs(o)) # {}
      BY <2>1, <2>5, <2>6, <2>8 DEF Shrinks
    <2> QED
      BY <2>1, <2>7, <2>8
  <1>2. CASE (\E junk \in StaleWords : FullStacks(junk)) \/ FullDirtyRoots
    BY <1>2 DEF FullStacks, FullDirtyRoots, Stage
  <1>3. CASE FullSweep
    BY <1>3 DEF FullSweep, Stage
  <1>4. CASE \E src \in SUBSET Compactable : CompactEvacuate(src)
    BY <1>4 DEF CompactEvacuate, Stage
  <1>5. CASE \E junk \in StaleWords : \E repinned \in Repinnable(junk) : CompactFixup(repinned)
    BY <1>5 DEF CompactFixup, Stage
  <1>6. CASE CompactRelease \/ FullFinish
    BY <1>6 DEF CompactRelease, FullFinish, Stage
  <1> QED
    BY <1>1, <1>2, <1>3, <1>4, <1>5, <1>6 DEF Full, FullRoots

\* CollectionAdvances for every heap: the safety half of CollectionEnds.
THEOREM CollectionsAdvance == ASSUME BarrieredFallback PROVE Spec => CollectionAdvances
  <1> DEFINE Advance == pc # "mutator" => Stage[pc'] < Stage[pc] \/ (pc' = pc /\ Shrinks)
  <1>1. ASSUME IInv, Next PROVE Advance
    <2>1. CASE Mutator
      BY <2>1 DEF Mutator, AllocYoung, AllocLos, AllocFallback, Birth, Store, Load, Move
    <2> QED
      BY <1>1, <2>1, MinorAdvances, FullAdvances DEF Next
  <1>2. IInv /\ [Next]_vars => [Advance]_vars
    BY <1>1
  <1> QED
    BY <1>2, Invariance, PTL DEF Spec, CollectionAdvances

=============================================================================
