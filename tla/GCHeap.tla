------------------------------- MODULE GCHeap -------------------------------
(***************************************************************************)
(* The object graph of the echojs heap under its two stop-the-world        *)
(* collectors: the mostly-copying minor collection of the nursery          *)
(* (ejs-gc-minor.c) and the compacting mark-sweep full collection          *)
(* (ejs-gc-major.c, ejs-gc-mark.c), with the object-remembering write      *)
(* barrier (ejs-gc.h) that connects the mutator to them.                   *)
(*                                                                         *)
(* A cell is an address.  The nursery arena is Young, the paged old        *)
(* generation OldPage and the large-object store Los: as in the code,      *)
(* being young is a matter of address range.  Pages, size classes and      *)
(* headers that no property tells apart are left out.  The collectors run  *)
(* in phases (pc); the mutator only moves while pc = "mutator".            *)
(***************************************************************************)
EXTENDS Integers, FiniteSets, Functions

CONSTANTS
    Young,              \* the nursery's cells, one per nursery page
    OldPage,            \* cells of the paged old generation
    Los,                \* the large-object store: old at birth, never moved
    Slots,              \* the traced fields of an object
    Roots,              \* registered roots and module exports (precise)
    Frames,             \* gc-frame slots of compiled code (precise in a minor)
    CStack,             \* words of C stacks and registers (conservative)
    Null,               \* any value that is not a heap reference
    RemsetCapacity,     \* NURSERY_REMSET_CAPACITY
    MaxObjects,         \* bound: cells allocated at a time
    MaxRepins,          \* bound: pins that outlive a full collection
    StaleWords,         \* the sets of stale addresses a conservative scan of the
                        \* stacks may meet besides the program's references
    FallbackRawStores   \* may an object born old because the nursery is full
                        \* receive young values from barrier-less stores?

Old  == OldPage \cup Los
Addr == Young \cup Old
Locs == Roots \cup Frames \cup CStack

ASSUME AddressAssumption ==
    /\ Young \cap OldPage = {} /\ Young \cap Los = {} /\ OldPage \cap Los = {}
    /\ Null \notin Young \cup OldPage \cup Los

ASSUME LocationAssumption ==
    /\ Roots \cap Frames = {} /\ Roots \cap CStack = {} /\ Frames \cap CStack = {}

ASSUME BoundAssumption ==
    /\ RemsetCapacity \in Nat /\ MaxObjects \in Nat /\ MaxRepins \in Nat
    /\ StaleWords \subseteq SUBSET (Young \cup OldPage \cup Los)
    /\ FallbackRawStores \in BOOLEAN

VARIABLES
    alloc,      \* the cells that hold an object (bitmap FREE bit, bump rule)
    color,      \* the color bits of the bitmap: an epoch parity, or Gray
    epoch,      \* parity of mark_epoch: the color that reads as black
    slot,       \* the traced fields of every cell
    dirty,      \* cells whose header has DIRTY set
    pinned,     \* cells whose header has PINNED set
    fwd,        \* forwarding record of an evacuated cell, Null otherwise
    loc,        \* contents of roots, gc-frame slots and stack words
    remset,     \* entries of the live remembered-set buffer, per owner
    overflowed, \* remset_overflowed
    todo,       \* owners of the snapshot buffer the minor has still to visit
    walk,       \* snapshot_overflowed: the minor walks the old generation
    wl,         \* the worklist of the running collection
    pc          \* the phase

heapVars == <<alloc, color, epoch, slot, dirty, pinned, fwd>>
vars     == <<heapVars, loc, remset, overflowed, todo, walk, wl, pc>>

Gray   == 2
Phases == {"mutator", "pins", "frames", "roots", "scan",
           "stacks", "dirtyRoots", "mark", "compact", "fixup", "release", "finish"}

IsBlack(a) == color[a] = epoch
IsWhite(a) == color[a] = 1 - epoch

\* the colors after painting the cells of S: cells of a free list read 0
Paint(S, c) == [a \in Addr |-> IF a \in S THEN c ELSE color[a]]
Blank(S)    == [a \in Addr |-> IF a \in S THEN [s \in Slots |-> Null] ELSE slot[a]]

Refs(a)    == {slot[a][s] : s \in Slots}
Held(L)    == {loc[l] : l \in L}
Visible    == Held(Locs) \cup {Null}

\* the cells a conservative scan of L takes for referenced
Ambiguous(L, junk) == (Held(L) \cup junk) \cap alloc

Empty      == [o \in Old |-> 0]
Entries    == {o \in Old : remset[o] > 0}

-----------------------------------------------------------------------------
(* The write barrier *)

\* _ejs_gc_remember_slow on a heap whose DIRTY headers are d
RememberSlow(o, d) ==
    /\ dirty' = d \cup {o}
    /\ IF SumFunction(remset) < RemsetCapacity
       THEN remset' = [remset EXCEPT ![o] = @ + 1] /\ overflowed' = overflowed
       ELSE remset' = remset /\ overflowed' = TRUE

NotRemembered(d) ==
    /\ dirty' = d
    /\ UNCHANGED <<remset, overflowed>>

\* fault: the DIRTY test that deduplicates entries is missing
RememberAgain(o, v) ==
    IF v \in Young /\ o \notin Young THEN RememberSlow(o, dirty) ELSE NotRemembered(dirty)

\* _ejs_gc_remember: called after v has been stored in storage o owns
Remember(o, v) ==
    IF v \in Young /\ o \notin Young /\ o \notin dirty
    THEN RememberSlow(o, dirty)
    ELSE NotRemembered(dirty)

-----------------------------------------------------------------------------
(* The mutator: compiled code and the C runtime *)

Init ==
    /\ alloc = {}
    /\ color = [a \in Addr |-> 0]
    /\ epoch = 1
    /\ slot = [a \in Addr |-> [s \in Slots |-> Null]]
    /\ dirty = {} /\ pinned = {}
    /\ fwd = [a \in Addr |-> Null]
    /\ loc = [l \in Locs |-> Null]
    /\ remset = Empty /\ overflowed = FALSE
    /\ todo = {} /\ walk = FALSE /\ wl = {}
    /\ pc = "mutator"

\* a cell leaves the allocator white and zeroed; its constructor then fills
\* it with plain stores (no collection can intervene) and l receives it
Birth(a, init, l) ==
    /\ pc = "mutator"
    /\ a \notin alloc /\ Cardinality(alloc) < MaxObjects
    /\ alloc' = alloc \cup {a}
    /\ color' = Paint({a}, 1 - epoch)
    /\ slot' = [slot EXCEPT ![a] = init]
    /\ loc' = [loc EXCEPT ![l] = a]
    /\ UNCHANGED <<epoch, pinned, fwd, todo, walk, wl, pc>>

\* _ejs_gc_alloc, the bump path: young objects need no barrier
AllocYoung(a, init, l) ==
    /\ Birth(a, init, l)
    /\ NotRemembered(dirty)

\* _ejs_gc_alloc, the LOS path: born dirty, so that the plain construction
\* stores are revisited by the next minor
AllocLos(a, init, l) ==
    /\ Birth(a, init, l)
    /\ RememberSlow(a, dirty)

\* _ejs_gc_alloc when young_alloc_slow gave up because every nursery page
\* still held a pinned survivor after a minor: the object is born in an old
\* page, and is not remembered
AllocFallback(a, init, l) ==
    /\ \E junk \in StaleWords : Young \subseteq Ambiguous(CStack, junk)
    /\ FallbackRawStores \/ \A s \in Slots : init[s] \notin Young
    /\ Birth(a, init, l)
    /\ NotRemembered(dirty)

\* a store into an object, with the barrier after it
Store(o, s, v) ==
    /\ pc = "mutator"
    /\ slot' = [slot EXCEPT ![o][s] = v]
    /\ Remember(o, v)
    /\ UNCHANGED <<alloc, color, epoch, pinned, fwd, loc, todo, walk, wl, pc>>

SetLoc(l, v) ==
    /\ loc' = [loc EXCEPT ![l] = v]
    /\ UNCHANGED <<heapVars, remset, overflowed, todo, walk, wl, pc>>

\* a field read into a gc-frame slot or a C local
Load(l, o, s) ==
    /\ pc = "mutator"
    /\ SetLoc(l, slot[o][s])

\* a copy between locals and roots, or the end of a variable's life
Move(l, v) ==
    /\ pc = "mutator"
    /\ SetLoc(l, v)

Mutator ==
    \/ \E a \in Young, l \in Frames \cup CStack, init \in [Slots -> Visible] :
          AllocYoung(a, init, l)
    \/ \E a \in Los, l \in Frames \cup CStack, init \in [Slots -> Visible] :
          AllocLos(a, init, l)
    \/ \E a \in OldPage, l \in Frames \cup CStack, init \in [Slots -> Visible] :
          AllocFallback(a, init, l)
    \/ \E o \in Visible \ {Null}, s \in Slots, v \in Visible : Store(o, s, v)
    \/ \E l \in Frames \cup CStack, o \in Visible \ {Null}, s \in Slots : Load(l, o, s)
    \/ \E l \in Locs, v \in Visible : Move(l, v)

-----------------------------------------------------------------------------
(* The minor collection: pin, evacuate, forward, rewrite, sweep *)

\* step 0: swap the remembered-set buffers
MinorBegin ==
    /\ pc = "mutator"
    /\ todo' = Entries /\ walk' = overflowed
    /\ remset' = Empty /\ overflowed' = FALSE
    /\ pc' = "pins"
    /\ UNCHANGED <<heapVars, loc, wl>>

\* step 1: minor_conservative_hit on every stack word: black pins a young
\* cell for the rest of this minor
MinorPins(junk) ==
    LET hits == Ambiguous(CStack, junk) \cap Young IN
    /\ pc = "pins"
    /\ color' = Paint(hits, epoch)
    /\ wl' = hits
    /\ pc' = "frames"
    /\ UNCHANGED <<alloc, epoch, slot, dirty, pinned, fwd, loc, remset, overflowed, todo, walk>>

\* minor_process_slot over the values V of a set of slots: the young
\* referents that leave the nursery now, and where they go
MovableAgain(V) == {y \in V \cap Young : ~IsBlack(y)}    \* fault: forwarding ignored
Movable(V)      == {y \in V \cap Young : fwd[y] = Null /\ ~IsBlack(y)}
Promotions(V)   == Injection(Movable(V), OldPage \ alloc)

\* the value of a slot afterwards
ResolveMoved(f, v) == IF v \in DOMAIN f THEN f[v] ELSE v  \* fault: as above
Resolve(f, v) == IF v \in DOMAIN f THEN f[v]
                 ELSE IF v \in Young /\ fwd[v] # Null THEN fwd[v] ELSE v

\* minor_scan_saw_young: a pinned referent stays behind
SawNothing(V) == FALSE                                    \* fault: edge not carried
SawYoung(V)   == \E y \in V \cap Young : fwd[y] = Null /\ IsBlack(y)

\* taking an object off the worklist
Peeked(o) == wl                                           \* fault: not taken off
Popped(o) == wl \ {o}

Source(f, a) == CHOOSE y \in DOMAIN f : f[y] = a

\* the copies f makes: white, not DIRTY, queued for scanning; PINNED is copied
\* with the header, and the originals keep a forwarding record.  own[a] are the fields of a after the step,
\* for the cells that are not copies
Evacuate(f, own, queue) ==
    /\ alloc' = alloc \cup Range(f)
    /\ color' = Paint(Range(f), 1 - epoch)
    /\ fwd' = [a \in Addr |-> IF a \in DOMAIN f THEN f[a] ELSE fwd[a]]
    /\ slot' = [a \in Addr |-> IF a \in Range(f) THEN slot[Source(f, a)] ELSE own[a]]
    /\ wl' = queue \cup Range(f)
    /\ pinned' = pinned \cup {f[y] : y \in pinned \cap DOMAIN f}
    /\ UNCHANGED epoch

\* the fields of o after minor_scan_object
Scanned(f, o) == [slot EXCEPT ![o] = [s \in Slots |-> Resolve(f, slot[o][s])]]

\* a walk over precise slots outside the heap
MinorSlots(L, f) ==
    /\ Evacuate(f, slot, wl)
    /\ loc' = [l \in Locs |-> IF l \in L THEN Resolve(f, loc[l]) ELSE loc[l]]
    /\ NotRemembered(dirty \ Range(f))
    /\ UNCHANGED walk

\* step 1.5: walk_gc_frames, after the pins
MinorFrames ==
    /\ pc = "frames"
    /\ \E f \in Promotions(Held(Frames)) : MinorSlots(Frames, f)
    /\ pc' = "roots"
    /\ UNCHANGED todo

\* the owners step 3 visits: an overflowed snapshot stands for every live
\* old object
PendingEntries(live) == todo                              \* fault: overflow ignored
Pending(live)        == IF walk THEN live \cap Old ELSE todo

\* step 2: the root registry and the modules
MinorRoots ==
    /\ pc = "roots"
    /\ \E f \in Promotions(Held(Roots)) : MinorSlots(Roots, f)
    /\ pc' = "scan"
    /\ todo' = Pending(alloc')

\* step 3: one owner of the snapshot: clear DIRTY, scan, stay dirty while it
\* still names a pinned young object.  A freed owner is skipped
MinorRemset(o) ==
    /\ pc = "scan" /\ o \in todo
    /\ todo' = todo \ {o}
    /\ IF o \notin alloc
       THEN UNCHANGED <<heapVars, remset, overflowed, wl>>
       ELSE \E f \in Promotions(Refs(o)) :
               /\ Evacuate(f, Scanned(f, o), wl)
               /\ IF SawYoung(Refs(o))
                  THEN RememberSlow(o, dirty \ ({o} \cup Range(f)))
                  ELSE NotRemembered(dirty \ ({o} \cup Range(f)))
    /\ UNCHANGED <<loc, walk, pc>>

\* step 4: one object of the worklist
MinorDrain(o) ==
    /\ pc = "scan" /\ todo = {} /\ o \in wl
    /\ \E f \in Promotions(Refs(o)) :
          /\ Evacuate(f, Scanned(f, o), Popped(o))
          /\ IF SawYoung(Refs(o)) /\ o \notin Young /\ o \notin dirty
             THEN RememberSlow(o, dirty \ Range(f))
             ELSE NotRemembered(dirty \ Range(f))
    /\ UNCHANGED <<loc, todo, walk, pc>>

\* step 6: the young cells the sweep frees: the evacuated and the unpinned
MinorDead == {y \in alloc \cap Young : fwd[y] # Null \/ ~IsBlack(y)}

MinorSweep ==
    /\ pc = "scan" /\ todo = {} /\ wl = {}
    /\ alloc' = alloc \ MinorDead
    /\ color' = [a \in Addr |-> IF a \in MinorDead THEN 0
                                ELSE IF a \in alloc \cap Young THEN 1 - epoch
                                ELSE color[a]]
    /\ slot' = Blank(MinorDead)
    /\ fwd' = [a \in Addr |-> Null]
    /\ dirty' = dirty \ MinorDead /\ pinned' = pinned \ MinorDead
    /\ walk' = FALSE
    /\ pc' = "mutator"
    /\ UNCHANGED <<epoch, loc, remset, overflowed, todo, wl>>

Minor ==
    \/ MinorBegin
    \/ \E junk \in StaleWords : MinorPins(junk)
    \/ MinorFrames
    \/ MinorRoots
    \/ \E o \in Old : MinorRemset(o)
    \/ \E o \in Addr : MinorDrain(o)
    \/ MinorSweep

-----------------------------------------------------------------------------
(* The full collection: mark, sweep, compact, advance the epoch *)

OldWhites(S) == {a \in S \cap Old : IsWhite(a)}            \* fault: young cells skipped
Whites(S)    == {a \in S \cap Addr : IsWhite(a)}

\* WORKLIST_PUSH_AND_GRAY on every white cell of S
PushAndGray(S) ==
    /\ color' = Paint(Whites(S), Gray)
    /\ wl' = wl \cup Whites(S)

\* mark_from_roots and mark_from_modules
FullRoots ==
    /\ pc = "mutator"
    /\ PushAndGray(Held(Roots) \cap alloc)
    /\ pc' = "stacks"
    /\ UNCHANGED <<alloc, epoch, slot, dirty, pinned, fwd, loc, remset, overflowed, todo, walk>>

\* mark_thread_stack and mark_generator_stacks: a full collection never skips
\* the gc-frame records, and a hit pins whether or not it is already marked
FullStacks(junk) ==
    LET hits == Ambiguous(CStack \cup Frames, junk) IN
    /\ pc = "stacks"
    /\ pinned' = pinned \cup hits
    /\ PushAndGray(hits)
    /\ pc' = "dirtyRoots"
    /\ UNCHANGED <<alloc, epoch, slot, dirty, fwd, loc, remset, overflowed, todo, walk>>

NoDirtyRoots == {}                                        \* fault: not rooted
DirtyRoots   == Entries \cap alloc

\* dirty objects await their deferred minor scan: they are roots
FullDirtyRoots ==
    /\ pc = "dirtyRoots"
    /\ PushAndGray(DirtyRoots)
    /\ pc' = "mark"
    /\ UNCHANGED <<alloc, epoch, slot, dirty, pinned, fwd, loc, remset, overflowed, todo, walk>>

\* process_worklist: one object
FullMark(o) ==
    /\ pc = "mark" /\ o \in wl
    /\ color' = [a \in Addr |-> IF a = o THEN epoch
                                ELSE IF a \in Whites(Refs(o)) THEN Gray ELSE color[a]]
    /\ wl' = Popped(o) \cup (Whites(Refs(o)) \ {o})
    /\ UNCHANGED <<alloc, epoch, slot, dirty, pinned, fwd, loc, remset, overflowed, todo, walk, pc>>

\* sweep_heap: finalize and free the white cells of every generation
FullDeadCells == {a \in alloc \ Los : IsWhite(a)}         \* fault: LOS not swept
FullDead == {a \in alloc : IsWhite(a)}

FullSweep ==
    /\ pc = "mark" /\ wl = {}
    /\ alloc' = alloc \ FullDead
    /\ color' = Paint(FullDead, 0)
    /\ slot' = Blank(FullDead)
    /\ dirty' = dirty \ FullDead /\ pinned' = pinned \ FullDead
    /\ pc' = "compact"
    /\ UNCHANGED <<epoch, fwd, loc, remset, overflowed, todo, walk, wl>>

\* the cells compaction may move: pages with a pinned cell stay, and the
\* large-object store never moves
CompactableAny == alloc \cap OldPage                      \* fault: pins ignored
Compactable    == (alloc \cap OldPage) \ pinned

\* the color of a copy: it is live in this cycle
CopyWhite == 1 - epoch                                    \* fault: as a fresh cell
CopyColor == epoch

\* compact_old_gen, step 1: evacuate src.  The whole header is copied, DIRTY
\* included; the forwarding record overwrites the original's
CompactEvacuate(src) ==
    /\ pc = "compact"
    /\ \E f \in Injection(src, OldPage \ alloc) :
          /\ alloc' = alloc \cup Range(f)
          /\ color' = Paint(Range(f), CopyColor)
          /\ fwd' = [a \in Addr |-> IF a \in src THEN f[a] ELSE fwd[a]]
          /\ slot' = [a \in Addr |-> IF a \in Range(f) THEN slot[Source(f, a)] ELSE slot[a]]
          /\ dirty' = (dirty \ src) \cup {f[a] : a \in src \cap dirty}
    /\ pc' = "fixup"
    /\ UNCHANGED <<epoch, pinned, loc, remset, overflowed, todo, walk, wl>>

\* compact_fixup_slot
Fixed(v) == IF v \in Addr /\ fwd[v] # Null THEN fwd[v] ELSE v

\* the objects the fixup visits: all but the evacuated originals
FixupOld     == {a \in alloc \cap Old : fwd[a] = Null}    \* fault: young pages skipped
FixupObjects == {a \in alloc : fwd[a] = Null}

\* sets of cells that the stacks name and that were not moved
Repinnable(junk) ==
    {S \in SUBSET {a \in Ambiguous(CStack \cup Frames, junk) : fwd[a] = Null} : Cardinality(S) <= MaxRepins}

\* step 2: rewrite roots, gc-frame slots, the remembered set and every live
\* object that was not itself evacuated, clearing its pin.  The visit to a
\* suspended generator scans its stack again (conservative_range), and so pins
\* cells the walk has already passed: those pins outlive the cycle
CompactFixup(repinned) ==
    /\ pc = "fixup"
    /\ loc' = [l \in Locs |-> IF l \in CStack THEN loc[l] ELSE Fixed(loc[l])]
    /\ remset' = [o \in Old |-> IF fwd[o] # Null THEN 0
                               ELSE IF \E e \in Old : fwd[e] = o
                                    THEN remset[o] + remset[CHOOSE e \in Old : fwd[e] = o]
                                    ELSE remset[o]]
    /\ slot' = [a \in Addr |-> IF a \in FixupObjects
                               THEN [s \in Slots |-> Fixed(slot[a][s])] ELSE slot[a]]
    /\ pinned' = repinned
    /\ pc' = "release"
    /\ UNCHANGED <<alloc, color, epoch, dirty, fwd, overflowed, todo, walk, wl>>

\* step 3: the evacuated cells return to their arenas
CompactRelease ==
    LET gone == {a \in Addr : fwd[a] # Null} IN
    /\ pc = "release"
    /\ alloc' = alloc \ gone
    /\ color' = Paint(gone, 0)
    /\ slot' = Blank(gone)
    /\ fwd' = [a \in Addr |-> Null]
    /\ pc' = "finish"
    /\ UNCHANGED <<epoch, dirty, pinned, loc, remset, overflowed, todo, walk, wl>>

EpochUnmasked == epoch + 1                                \* fault: parity not taken
NextEpoch     == 1 - epoch

\* remset_rebuild_after_full_gc drops the entries of freed cells, then
\* mark_epoch_advance turns every black cell white
FullFinish ==
    /\ pc = "finish"
    /\ remset' = [o \in Old |-> IF o \in alloc THEN remset[o] ELSE 0]
    /\ epoch' = NextEpoch
    /\ pc' = "mutator"
    /\ UNCHANGED <<alloc, color, slot, dirty, pinned, fwd, loc, overflowed, todo, walk, wl>>

Full ==
    \/ FullRoots
    \/ \E junk \in StaleWords : FullStacks(junk)
    \/ FullDirtyRoots
    \/ \E o \in Addr : FullMark(o)
    \/ FullSweep
    \/ \E src \in SUBSET Compactable : CompactEvacuate(src)
    \/ \E junk \in StaleWords : \E repinned \in Repinnable(junk) : CompactFixup(repinned)
    \/ CompactRelease
    \/ FullFinish

-----------------------------------------------------------------------------
Next == Mutator \/ Minor \/ Full

Spec == Init /\ [][Next]_vars

\* a collection, once begun, runs to its end before the mutator goes on
Collecting == pc # "mutator" /\ (Minor \/ Full)
FairSpec   == Spec /\ WF_vars(Collecting)

-----------------------------------------------------------------------------
(* Properties *)

TypeOK ==
    /\ alloc \subseteq Addr
    /\ color \in [Addr -> 0..2] /\ epoch \in 0..1
    /\ slot \in [Addr -> [Slots -> Addr \cup {Null}]]
    /\ dirty \subseteq Addr /\ pinned \subseteq Addr
    /\ fwd \in [Addr -> OldPage \cup {Null}]
    /\ loc \in [Locs -> Addr \cup {Null}]
    /\ remset \in [Old -> Nat] /\ overflowed \in BOOLEAN
    /\ todo \subseteq Old /\ walk \in BOOLEAN
    /\ wl \subseteq Addr
    /\ pc \in Phases

\* EJS_GC_PARANOID: while the mutator runs, every reference in a root, on a
\* stack or in a live object resolves to an allocated, unforwarded cell.
NoDangling ==
    pc = "mutator" =>
        \A v \in Held(Locs) \cup UNION {Refs(a) : a \in alloc} :
            v # Null => v \in alloc /\ fwd[v] = Null

\* The barrier's contract: an old object that names a young one is DIRTY, and
\* a DIRTY object is queued for the next minor, or that minor walks the
\* whole old generation.
BarrierCoverage ==
    pc = "mutator" =>
        /\ \A o \in alloc \cap Old : Refs(o) \cap Young # {} => o \in dirty
        /\ \A o \in dirty : overflowed \/ o \in Entries

\* The remembered set holds only live, DIRTY, old objects, each at most once
\* per cycle: a stale entry would be read after its cell is freed, and a
\* duplicate would exhaust the buffer.
RemsetDiscipline ==
    pc = "mutator" => \A o \in Entries : o \in alloc /\ o \in dirty /\ remset[o] = 1

\* EJS_GC_VERIFY: once the remembered set and the worklist are processed, no
\* live old slot references an unforwarded, unpinned young object.
VerifyWalk ==
    pc = "scan" /\ todo = {} /\ wl = {} =>
        \A o \in alloc \cap Old : \A y \in Refs(o) \cap Young : fwd[y] = Null /\ IsBlack(y)

\* The tri-color invariant of the full collection: process_worklist never
\* leaves a black object that names a white one.
TriColor ==
    pc = "mark" => \A a \in alloc : IsBlack(a) =>
                      \A b \in Refs(a) \cap Addr : ~IsWhite(b)

\* the cells the references of S lead to: the least set that holds those of
\* S and what its own cells name
Reach(S) ==
    LET closed == {T \in SUBSET Addr : /\ S \cap Addr \subseteq T
                                       /\ \A b \in T : Refs(b) \cap Addr \subseteq T}
    IN  {a \in Addr : \A T \in closed : a \in T}

\* sweep_heap is exact: what survives a full sweep is what some root, stack
\* word or dirty object reaches, in either generation and in the LOS.
SweepExact ==
    pc = "compact" => alloc = Reach(Held(Roots) \cup pinned \cup Entries)

\* Compaction's fixup reads the header of whatever a slot, a root or the
\* remembered set names; a freed cell's poison (0xaf) would read as FORWARDED.
FixupReadsLiveCells ==
    pc \in {"compact", "fixup"} =>
        \A v \in Held(Locs) \cup Entries \cup UNION {Refs(a) : a \in alloc} :
            v # Null => v \in alloc

\* Between collections every object is white: one left black would be taken
\* for pinned or marked by the next collection and never scanned.
WhiteBetweenCycles ==
    pc = "mutator" => \A a \in alloc : IsWhite(a)

\* No collection moves or frees a cell that a stack word names: the word
\* cannot be rewritten.
StackWordsStay ==
    [][\A l \in CStack :
          pc # "mutator" => /\ loc'[l] = loc[l]
                            /\ loc[l] \in alloc => loc[l] \in alloc' /\ fwd'[loc[l]] = Null]_vars

\* ejs-gc.h on gc-frame slots: "a frame-held young object therefore MOVES
\* every minor".
FrameHeldMoves ==
    [][MinorSweep => \A l \in Frames : loc'[l] \notin Young]_vars

\* Every collection ends.
CollectionEnds == (pc # "mutator") ~> (pc = "mutator")

=============================================================================
