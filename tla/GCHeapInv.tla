----------------------------- MODULE GCHeapInv -----------------------------
(***************************************************************************)
(* The inductive invariant of GCHeap: what holds between any two steps of  *)
(* the mutator and of the collectors' phases.  TLC checks it on small      *)
(* heaps; GCHeapProofs proves it for every heap.                           *)
(***************************************************************************)
EXTENDS GCHeap

MinorPhases  == {"frames", "roots", "scan"}
MarkPhases   == {"stacks", "dirtyRoots", "mark"}
SweptPhases  == {"compact", "fixup", "release", "finish"}

\* the minor is still to scan o: it is queued, or the old generation is still
\* to be walked
Awaits(o) == (pc \in MinorPhases /\ o \in wl) \/ o \in todo \/ (walk /\ pc # "scan")

\* a slot the minor need not visit again: its referent is old, or pinned
Clean(v) == v \in Young => fwd[v] = Null /\ IsBlack(v)

Unmoved(v) == v # Null => fwd[v] = Null

\* every reference names an allocated cell, in every phase
SlotsLive == \A a \in alloc : \A s \in Slots : slot[a][s] \in alloc \cup {Null}
LocsLive  == \A l \in Locs : loc[l] \in alloc \cup {Null}

\* forwarding records exist only while a collection moves objects, and lead
\* from a cell that was moved to a copy that was not
Forwarding ==
    /\ pc \notin {"roots", "scan", "fixup", "release"} => \A a \in Addr : fwd[a] = Null
    /\ \A a \in Addr : fwd[a] # Null =>
          /\ a \in alloc /\ fwd[a] \in alloc \cap OldPage
          /\ pc \in {"roots", "scan"} => a \in Young /\ ~IsBlack(a)
          /\ pc \in {"fixup", "release"} => a \in OldPage /\ fwd[fwd[a]] = Null

\* the colors of allocated cells, phase by phase
Colors ==
    \A a \in alloc :
        /\ pc \in {"mutator", "pins"} => IsWhite(a)
        /\ pc \in MinorPhases => IsWhite(a) \/ (a \in Young /\ IsBlack(a))
        /\ pc \in MarkPhases => (color[a] = Gray <=> a \in wl)
        /\ pc \in SweptPhases => IsBlack(a)

\* the worklist is empty between cycles, and holds cells that stay put
Worklist ==
    /\ pc \notin MinorPhases \cup MarkPhases => wl = {}
    /\ wl \subseteq alloc
    /\ pc \in MinorPhases => \A y \in wl \cap Young : IsBlack(y)

\* the owners the minor has to visit are live
Snapshot ==
    /\ pc \notin {"pins"} \cup MinorPhases => todo = {} /\ walk = FALSE
    /\ todo \subseteq alloc
    /\ pc \in {"pins", "frames", "roots"} => remset = Empty /\ overflowed = FALSE

\* what the minor has processed so far holds no reference into the cells the
\* sweep will free
MinorClean ==
    /\ pc \in MinorPhases => \A l \in CStack : Clean(loc[l])
    /\ pc \in {"roots", "scan"} => \A l \in Frames : Clean(loc[l])
    /\ pc = "scan" => \A l \in Roots : Clean(loc[l])
    /\ pc \in MinorPhases =>
          /\ \A y \in alloc \cap Young : IsBlack(y) => y \in wl \/ \A s \in Slots : Clean(slot[y][s])
          /\ \A o \in alloc \cap Old : Awaits(o) \/ \A s \in Slots : Clean(slot[o][s])

\* an old object that names a young one is DIRTY, unless the minor is still to
\* scan it
Covered ==
    \A o \in alloc \cap Old : fwd[o] = Null =>
        Awaits(o) \/ o \in dirty \/ \A s \in Slots : slot[o][s] \notin Young

\* a DIRTY object is in the remembered set (through its original while the
\* compactor has moved it), or the next minor walks the old generation
Queued ==
    /\ dirty \subseteq alloc \cap Old
    /\ \A o \in dirty : fwd[o] = Null
    /\ \A o \in dirty :
          \/ overflowed \/ o \in todo \/ (walk /\ pc # "scan")
          \/ \E e \in Old : remset[e] > 0 /\ Fixed(e) = o

\* an entry of the remembered set is a live, DIRTY object, queued once
EntriesOnce ==
    \A o \in Old :
        /\ remset[o] \in {0, 1}
        /\ remset[o] > 0 => o \in alloc /\ Fixed(o) \in dirty /\ o \notin todo

\* marking: no black object names a white one, and what was visited is marked
Marked ==
    /\ pc \in MarkPhases =>
          /\ \A a \in alloc : IsBlack(a) => \A s \in Slots : slot[a][s] # Null => ~IsWhite(slot[a][s])
          /\ \A l \in Roots : loc[l] # Null => ~IsWhite(loc[l])
    /\ pc \in {"dirtyRoots", "mark"} =>
          \A l \in CStack \cup Frames : loc[l] # Null => ~IsWhite(loc[l])
    /\ pc = "mark" => \A o \in Old : remset[o] > 0 => ~IsWhite(o)

\* pins: every stack word and gc-frame slot of a full collection names a
\* pinned cell, and pinned cells are not moved
Pins ==
    /\ pinned \subseteq alloc
    /\ pc \in {"dirtyRoots", "mark", "compact", "fixup"} =>
          \A l \in CStack \cup Frames : loc[l] \in pinned \cup {Null}
    /\ \A a \in pinned : fwd[a] = Null \/ pc \in MinorPhases

\* compaction: one copy per original, entered in no buffer of its own; after
\* the fixup nothing names an original any more
Compacted ==
    /\ pc = "fixup" => \A a, b \in Old : fwd[a] # Null =>
          /\ remset[fwd[a]] = 0
          /\ fwd[a] = fwd[b] => a = b
    /\ pc = "release" =>
          /\ \A l \in Locs : Unmoved(loc[l])
          /\ \A a \in alloc : fwd[a] = Null => \A s \in Slots : Unmoved(slot[a][s])
          /\ \A o \in Old : remset[o] > 0 => fwd[o] = Null

\* The inductive invariant: the collectors' phases preserve it, and every
\* safety property of GCHeap follows from it.
IInv ==
    /\ TypeOK
    /\ SlotsLive /\ LocsLive
    /\ Forwarding /\ Colors
    /\ Worklist /\ Snapshot
    /\ MinorClean
    /\ Covered /\ Queued /\ EntriesOnce
    /\ Marked
    /\ Pins /\ Compacted

=============================================================================
