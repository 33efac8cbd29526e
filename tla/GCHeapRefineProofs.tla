------------------------- MODULE GCHeapRefineProofs -------------------------
(***************************************************************************)
(* The collected heap implements the plain object graph, for heaps of any  *)
(* size.  No step of a collection changes what the program can see of its  *)
(* objects, and every step of the program acts on the graph as if there    *)
(* were no collector.                                                      *)
(***************************************************************************)
EXTENDS GCHeapRefine, GCHeapProofs, FiniteSetTheorems

-----------------------------------------------------------------------------
(* Reachability in the object graph *)

\* What is reachable is closed, and within every closed set.
LEMMA ReachableLeast ==
  ASSUME NEW f, NEW h
  PROVE  /\ Graph!Reachable(f, h) \in Graph!Closed(f, h)
         /\ \A S \in Graph!Closed(f, h) : Graph!Reachable(f, h) \subseteq S
  BY DEF Graph!Reachable, Graph!Closed

\* Graphs that agree on a closed set reach the same objects.
LEMMA ReachableSame ==
  ASSUME NEW f, NEW g, NEW h, NEW S \in Graph!Closed(f, h), \A i \in S : g[i] = f[i]
  PROVE  Graph!Reachable(g, h) = Graph!Reachable(f, h)
  <1> DEFINE R == Graph!Reachable(f, h)
             Q == Graph!Reachable(g, h)
  <1>1. R \in Graph!Closed(f, h) /\ R \subseteq S
    BY ReachableLeast
  <1>2. R \in Graph!Closed(g, h)
    BY <1>1 DEF Graph!Closed
  <1>3. Q \in Graph!Closed(g, h) /\ Q \subseteq R
    BY <1>2, ReachableLeast
  <1>4. Q \in Graph!Closed(f, h)
    BY <1>1, <1>3 DEF Graph!Closed
  <1> QED
    BY <1>3, <1>4, ReachableLeast

\* Graphs that agree on a closed set are the same once the rest is forgotten.
LEMMA ForgetSame ==
  ASSUME NEW f, NEW g, NEW h, NEW S \in Graph!Closed(f, h), \A i \in S : g[i] = f[i]
  PROVE  Graph!Forget(g, h) = Graph!Forget(f, h)
  <1>1. Graph!Reachable(g, h) = Graph!Reachable(f, h) /\ Graph!Reachable(f, h) \subseteq S
    BY ReachableSame, ReachableLeast
  <1> QED
    BY <1>1 DEF Graph!Forget

\* Forgetting what is not reachable changes neither what is reachable nor its
\* fields.
LEMMA ForgetReachable ==
  ASSUME NEW f, NEW h
  PROVE  /\ \A i \in Graph!Reachable(f, h) : Graph!Forget(f, h)[i] = f[i]
         /\ Graph!Reachable(Graph!Forget(f, h), h) = Graph!Reachable(f, h)
  <1>1. Graph!Reachable(f, h) \in Graph!Closed(f, h) /\ Graph!Reachable(f, h) \subseteq Ids
    BY ReachableLeast DEF Graph!Closed
  <1>2. \A i \in Graph!Reachable(f, h) : Graph!Forget(f, h)[i] = f[i]
    BY <1>1 DEF Graph!Forget
  <1> QED
    BY <1>1, <1>2, ReachableSame

-----------------------------------------------------------------------------
(* The identities of cells *)

\* the cells that are up to date: what was not evacuated
Current == {a \in alloc : fwd[a] = Null}

\* Every allocated cell has an object; no two current cells have the same one,
\* and an evacuated cell has the object of its copy.
IdentInv ==
    /\ ident \in [Addr -> Ids \cup {Null}]
    /\ \A a \in alloc : ident[a] \in Ids
    /\ \A a, b \in Current : ident[a] = ident[b] => a = b
    /\ \A a \in alloc : fwd[a] # Null => ident[fwd[a]] = ident[a]

\* A forwarding record leads to a current cell: following it is enough.
LEMMA FixedCurrent ==
  ASSUME IInv, NEW a \in alloc
  PROVE  /\ Fixed(a) \in Current
         /\ IdentInv => ident[Fixed(a)] = ident[a]
  <1>1. a \in Addr /\ Null \notin Addr /\ OldPage \cap Young = {} /\ OldPage \subseteq Addr
    BY AddressAssumption DEF IInv, TypeOK, Addr, Old
  <1>2. CASE fwd[a] = Null
    BY <1>1, <1>2 DEF Fixed, Current
  <1>3. CASE fwd[a] # Null
    <2>1. fwd[a] \in alloc /\ fwd[fwd[a]] = Null
      BY <1>1, <1>3 DEF IInv, Forwarding
    <2> QED
      BY <1>1, <1>3, <2>1 DEF Fixed, Current, IdentInv
  <1> QED
    BY <1>2, <1>3

\* The home of a live object is the cell its forwarding leads to.
LEMMA HomeIs ==
  ASSUME IInv, IdentInv, NEW a \in alloc
  PROVE  Home(ident[a]) = {Fixed(a)}
  <1>1. Fixed(a) \in Current /\ ident[Fixed(a)] = ident[a]
    BY FixedCurrent
  <1> QED
    BY <1>1 DEF Home, Current, IdentInv

\* A current cell is the home of its object, and holds its fields.
LEMMA FieldsAre ==
  ASSUME IInv, IdentInv
  PROVE  \A a \in Current : FieldsOf(ident[a]) = [s \in Slots |-> IdOf(slot[a][s])]
  <1> TAKE a \in Current
  <1>1. Fixed(a) = a /\ a \in alloc
    BY DEF Fixed, Current
  <1>2. Home(ident[a]) = {a}
    BY <1>1, HomeIs
  <1> QED
    BY <1>2 DEF FieldsOf

\* The same after a step.
LEMMA FieldsNext ==
  ASSUME IInv', IdentInv'
  PROVE  (\A a \in Current : FieldsOf(ident[a]) = [s \in Slots |-> IdOf(slot[a][s])])'
  <1>1. (IInv /\ IdentInv => \A a \in Current : FieldsOf(ident[a]) = [s \in Slots |-> IdOf(slot[a][s])])'
    BY FieldsAre, PTL
  <1> QED
    BY <1>1

\* What the program can name stands for an object or for no reference.
LEMMA IdOfLive ==
  ASSUME IInv, IdentInv, NEW v \in alloc \cup {Null}
  PROVE  /\ v = Null => IdOf(v) = Null
         /\ v # Null => IdOf(v) = ident[v] /\ IdOf(v) \in Ids
  <1>1. Null \notin Addr /\ alloc \subseteq Addr
    BY AddressAssumption DEF IInv, TypeOK, Addr, Old
  <1> QED
    BY <1>1 DEF IdOf, IdentInv

\* OneHome as a consequence of the invariant.
LEMMA OneHomeFrom == IInv /\ IdentInv => OneHome
  <1> SUFFICES ASSUME IInv, IdentInv, NEW a \in alloc PROVE Cardinality(Home(ident[a])) = 1
    BY DEF OneHome
  <1> QED
    BY HomeIs, FS_Singleton

-----------------------------------------------------------------------------
(* The graph a heap stands for *)

HeldNow  == [l \in Locs |-> IdOf(loc[l])]
FieldNow == [i \in Ids |-> FieldsOf(i)]
LiveIds  == {ident[a] : a \in alloc}

LEMMA ViewIs == View = [held |-> HeldNow, field |-> Graph!Forget(FieldNow, HeldNow)]
  BY DEF View, HeldNow, FieldNow

\* Live objects are named by current cells.
LEMMA LiveCurrent ==
  ASSUME IInv, IdentInv
  PROVE  \A i \in LiveIds : \E a \in Current : ident[a] = i
  BY FixedCurrent DEF LiveIds

\* The live objects are closed: nothing leads out of the heap.
LEMMA LiveClosed ==
  ASSUME IInv, IdentInv
  PROVE  LiveIds \in Graph!Closed(FieldNow, HeldNow)
  <1>1. LiveIds \in SUBSET Ids
    BY DEF LiveIds, IdentInv
  <1>2. ASSUME NEW v \in alloc \cup {Null}, IdOf(v) \in Ids PROVE IdOf(v) \in LiveIds
    BY <1>2, IdOfLive, IdentityAssumption DEF LiveIds
  <1>3. ASSUME NEW l \in Locs, HeldNow[l] \in Ids PROVE HeldNow[l] \in LiveIds
    BY <1>2, <1>3 DEF HeldNow, IInv, LocsLive
  <1>4. ASSUME NEW i \in LiveIds, NEW s \in Slots, FieldNow[i][s] \in Ids
        PROVE  FieldNow[i][s] \in LiveIds
    <2>1. PICK a \in Current : ident[a] = i
      BY LiveCurrent
    <2>2. FieldNow[i][s] = IdOf(slot[a][s])
      BY <1>1, <2>1, FieldsAre DEF FieldNow
    <2>3. slot[a][s] \in alloc \cup {Null}
      BY DEF IInv, SlotsLive, Current
    <2> QED
      BY <1>2, <1>4, <2>2, <2>3
  <1> QED
    BY <1>1, <1>3, <1>4 DEF Graph!Closed

\* A step after which the locations stand for the same objects, and every
\* current cell for one that was current, with the same fields, is invisible.
LEMMA ViewKept ==
  ASSUME IInv, IdentInv, IInv', IdentInv',
         \A l \in Locs : IdOf(loc[l])' = IdOf(loc[l]),
         \A a \in Current' : \E c \in Current :
            ident[c] = ident'[a] /\ \A s \in Slots : IdOf(slot[c][s]) = IdOf(slot[a][s])'
  PROVE  View' = View
  <1>a. (\A i \in LiveIds : \E a \in Current : ident[a] = i)'
    <2>1. (IInv /\ IdentInv => \A i \in LiveIds : \E a \in Current : ident[a] = i)'
      BY LiveCurrent, PTL
    <2> QED
      BY <2>1
  <1>b. (\A a \in Current : FieldsOf(ident[a]) = [s \in Slots |-> IdOf(slot[a][s])])'
    BY FieldsNext
  <1>1. HeldNow' = HeldNow
    BY DEF HeldNow
  <1>2. LiveIds' \in Graph!Closed(FieldNow', HeldNow')
    <2>1. (IInv /\ IdentInv => LiveIds \in Graph!Closed(FieldNow, HeldNow))'
      BY LiveClosed, PTL
    <2> QED
      BY <2>1
  <1>3. ASSUME NEW i \in LiveIds' PROVE FieldNow[i] = FieldNow'[i]
    <2>1. PICK a \in Current' : ident'[a] = i
      BY <1>a
    <2>2. PICK c \in Current : ident[c] = i /\ \A s \in Slots : IdOf(slot[c][s]) = IdOf(slot[a][s])'
      BY <2>1
    <2>3. FieldsOf(i) = [s \in Slots |-> IdOf(slot[c][s])]
      BY <2>2, FieldsAre
    <2>4. FieldsOf(i)' = [s \in Slots |-> IdOf(slot[a][s])']
      BY <1>b, <2>1
    <2>5. i \in Ids
      BY <1>2 DEF Graph!Closed
    <2> QED
      BY <2>2, <2>3, <2>4, <2>5 DEF FieldNow
  <1>4. Graph!Forget(FieldNow, HeldNow') = Graph!Forget(FieldNow', HeldNow')
    BY <1>2, <1>3, ForgetSame
  <1>5. View' = [held |-> HeldNow', field |-> Graph!Forget(FieldNow', HeldNow')]
    BY DEF View, HeldNow, FieldNow
  <1> QED
    BY <1>1, <1>4, <1>5, ViewIs

-----------------------------------------------------------------------------
(* What the collectors' steps do to identities *)

\* A step that neither allocates, frees nor forwards leaves every cell its
\* object.
LEMMA StillIdent ==
  ASSUME IInv, IdentInv, TypeOK', Track, alloc' = alloc, fwd' = fwd
  PROVE  IdentInv' /\ \A v \in alloc \cup {Null} : IdOf(v)' = IdOf(v)
  <1>1. alloc \subseteq Addr /\ Null \notin Addr
    BY AddressAssumption DEF IInv, TypeOK, Addr, Old
  <1>2. \A a \in alloc : ident'[a] = ident[a]
    BY <1>1 DEF Track
  <1>3. ident' \in [Addr -> Ids \cup {Null}]
    BY <1>1 DEF Track, IdentInv
  <1>4. Current' = Current /\ \A a \in alloc : fwd[a] # Null => fwd[a] \in alloc
    BY <1>1 DEF Current, IInv, Forwarding
  <1>5. IdentInv'
    BY <1>2, <1>3, <1>4 DEF IdentInv, Current
  <1> QED
    BY <1>1, <1>2, <1>5 DEF IdOf

\* If in addition no reference changes its object, the step is invisible.
LEMMA StillView ==
  ASSUME IInv, IdentInv, IInv', Track, alloc' = alloc, fwd' = fwd,
         \A l \in Locs : IdOf(loc[l])' = IdOf(loc[l]),
         \A a \in Current : \A s \in Slots : IdOf(slot[a][s])' = IdOf(slot[a][s])
  PROVE  IdentInv' /\ View' = View
  <1>1. IdentInv'
    BY StillIdent DEF IInv
  <1>2. \A a \in Current' : a \in Current /\ ident[a] = ident'[a]
    BY DEF Current, Track, IInv, TypeOK
  <1> QED
    BY <1>1, <1>2, ViewKept

\* The marking steps, and the first and last steps of a collection.
LEMMA QuietView ==
  ASSUME IInv, IdentInv, IInv', Track, alloc' = alloc, fwd' = fwd, slot' = slot, loc' = loc
  PROVE  IdentInv' /\ View' = View
  <1>1. \A v \in alloc \cup {Null} : IdOf(v)' = IdOf(v)
    BY StillIdent DEF IInv
  <1>2. \A l \in Locs : IdOf(loc[l])' = IdOf(loc[l])
    <2> TAKE l \in Locs
    <2>1. loc[l] \in alloc \cup {Null} /\ loc'[l] = loc[l]
      BY DEF IInv, LocsLive
    <2> QED
      BY <1>1, <2>1 DEF IdOf
  <1>3. \A a \in Current : \A s \in Slots : IdOf(slot[a][s])' = IdOf(slot[a][s])
    <2> TAKE a \in Current
    <2> TAKE s \in Slots
    <2>1. slot[a][s] \in alloc \cup {Null} /\ slot'[a][s] = slot[a][s]
      BY DEF IInv, SlotsLive, Current
    <2> QED
      BY <1>1, <2>1 DEF IdOf
  <1> QED
    BY <1>2, <1>3, StillView

\* A sweep frees cells nothing current refers to.
LEMMA FreeView ==
  ASSUME IInv, IdentInv, IInv', Track, alloc' \subseteq Current, \A a \in Addr : fwd'[a] = Null,
         \A a \in alloc' : slot'[a] = slot[a], loc' = loc
  PROVE  IdentInv' /\ View' = View
  <1>1. alloc \subseteq Addr /\ Null \notin Addr /\ Current \subseteq alloc
    BY AddressAssumption DEF IInv, TypeOK, Addr, Old, Current
  <1>2. \A a \in alloc' : ident'[a] = ident[a]
    BY <1>1 DEF Track
  <1>3. ident' \in [Addr -> Ids \cup {Null}]
    BY <1>1 DEF Track, IdentInv
  <1>4. IdentInv'
    BY <1>1, <1>2, <1>3 DEF IdentInv, Current
  <1>5. \A v \in alloc' \cup {Null} : IdOf(v)' = IdOf(v)
    BY <1>1, <1>2 DEF IdOf
  <1>6. \A l \in Locs : IdOf(loc[l])' = IdOf(loc[l])
    <2> TAKE l \in Locs
    <2>1. loc'[l] \in alloc' \cup {Null} /\ loc'[l] = loc[l]
      BY DEF IInv, LocsLive
    <2> QED
      BY <1>5, <2>1 DEF IdOf
  <1>7. ASSUME NEW a \in Current'
        PROVE  a \in Current /\ ident[a] = ident'[a] /\ \A s \in Slots : IdOf(slot[a][s]) = IdOf(slot[a][s])'
    <2>1. a \in alloc'
      BY DEF Current
    <2>2. ASSUME NEW s \in Slots PROVE slot'[a][s] \in alloc' \cup {Null} /\ slot'[a][s] = slot[a][s]
      BY <2>1 DEF IInv, SlotsLive
    <2> QED
      BY <1>2, <1>5, <2>1, <2>2 DEF IdOf
  <1> QED
    BY <1>4, <1>6, <1>7, ViewKept

\* f records which cells a step copies, and where to.
Copies(f) ==
    /\ DOMAIN f \subseteq Current
    /\ \A y \in DOMAIN f : f[y] \in Addr \ alloc
    /\ \A y, z \in DOMAIN f : f[y] = f[z] => y = z
    /\ alloc' = alloc \cup Range(f)
    /\ \A a \in Addr : fwd'[a] = IF a \in DOMAIN f THEN f[a] ELSE fwd[a]

\* A copy takes over the object of its original, and every other cell keeps
\* its own.
LEMMA MoveIdent ==
  ASSUME IInv, IdentInv, Track, NEW f, Copies(f)
  PROVE  /\ IdentInv'
         /\ \A v \in alloc \cup {Null} : IdOf(v)' = IdOf(v)
         /\ \A y \in DOMAIN f : ident'[f[y]] = ident[y]
         /\ \A a \in Current' : (a \in Current /\ a \notin Range(f)) \/ \E y \in DOMAIN f : a = f[y]
  <1>1. alloc \subseteq Addr /\ Null \notin Addr /\ Current \subseteq alloc /\ fwd \in [Addr -> OldPage \cup {Null}]
    BY AddressAssumption DEF IInv, TypeOK, Addr, Old, Current
  <1>2. Range(f) = {f[y] : y \in DOMAIN f} /\ Range(f) \cap alloc = {} /\ Range(f) \subseteq Addr
    BY DEF Copies, Range
  <1>3. \A a \in alloc : ident'[a] = ident[a]
    BY <1>1 DEF Track, Copies
  <1>4. \A a \in Addr : fwd[a] # Null => a \in alloc /\ fwd[a] \in alloc
    BY DEF IInv, Forwarding
  <1>5. ASSUME NEW y \in DOMAIN f PROVE ident'[f[y]] = ident[y]
    <2>1. y \in Addr /\ fwd'[y] = f[y] /\ f[y] \in Addr /\ f[y] \notin alloc /\ f[y] \in alloc'
      BY <1>1, <1>2 DEF Copies
    <2>2. \A b \in Addr : fwd'[b] = f[y] => b = y
      BY <1>1, <1>4, <2>1 DEF Copies
    <2>3. (CHOOSE b \in Addr : fwd'[b] = f[y]) = y
      BY <2>1, <2>2
    <2> QED
      BY <2>1, <2>3 DEF Track
  <1>6. \A a \in Current' : (a \in Current /\ a \notin Range(f)) \/ \E y \in DOMAIN f : a = f[y]
    <2> SUFFICES ASSUME NEW a \in alloc, fwd'[a] = Null PROVE fwd[a] = Null /\ a \notin Range(f)
      BY <1>2 DEF Current, Copies
    <2> QED
      BY <1>1, <1>2 DEF Copies
  <1>7. \A v \in alloc \cup {Null} : IdOf(v)' = IdOf(v)
    BY <1>1, <1>3 DEF IdOf
  <1>8. \A a \in alloc' : ident'[a] \in Ids
    BY <1>1, <1>2, <1>3, <1>5 DEF IdentInv, Copies
  <1>9. ident' \in [Addr -> Ids \cup {Null}]
    <2>1. \A a \in Addr : a \notin alloc' => ident'[a] = Null
      BY DEF Track
    <2>2. DOMAIN ident' = Addr /\ ident' = [a \in Addr |-> ident'[a]]
      BY DEF Track
    <2> QED
      BY <1>8, <2>1, <2>2
  <1>10. ASSUME NEW a \in Current', NEW b \in Current', ident'[a] = ident'[b] PROVE a = b
    <2>1. ASSUME NEW x \in Current', x \in Current, x \notin Range(f) PROVE x \notin DOMAIN f /\ ident'[x] = ident[x]
      BY <1>1, <1>2, <1>3, <2>1 DEF Current, Copies
    <2>2. CASE a \in Current /\ a \notin Range(f) /\ b \in Current /\ b \notin Range(f)
      BY <1>10, <2>1, <2>2 DEF IdentInv
    <2>3. ASSUME NEW x \in Current', NEW z \in Current', x \in Current, x \notin Range(f),
                 NEW y \in DOMAIN f, z = f[y], ident'[x] = ident'[z]
          PROVE  FALSE
      BY <1>5, <2>1, <2>3 DEF IdentInv, Copies
    <2>4. ASSUME NEW y \in DOMAIN f, NEW z \in DOMAIN f, a = f[y], b = f[z] PROVE a = b
      BY <1>5, <1>10, <2>4 DEF IdentInv, Copies
    <2> QED
      BY <1>6, <1>10, <2>2, <2>3, <2>4
  <1>11. ASSUME NEW a \in alloc', fwd'[a] # Null PROVE ident'[fwd'[a]] = ident'[a]
    <2>1. CASE a \in DOMAIN f
      BY <1>1, <1>3, <1>5, <2>1 DEF Copies
    <2>2. CASE a \notin DOMAIN f
      <3>1. a \in Addr /\ fwd'[a] = fwd[a]
        BY <1>1, <1>2, <2>2 DEF Copies
      <3> QED
        BY <1>3, <1>4, <1>11, <3>1 DEF IdentInv
    <2> QED
      BY <2>1, <2>2
  <1> QED
    BY <1>5, <1>6, <1>7, <1>8, <1>9, <1>10, <1>11 DEF IdentInv

\* Copying is invisible when every reference still leads to its object.
LEMMA MoveView ==
  ASSUME IInv, IdentInv, IInv', Track, NEW f, Copies(f),
         \A y \in DOMAIN f : slot'[f[y]] = slot[y],
         \A a \in alloc : \A s \in Slots : IdOf(slot[a][s])' = IdOf(slot[a][s]),
         \A l \in Locs : IdOf(loc[l])' = IdOf(loc[l])
  PROVE  IdentInv' /\ View' = View
  <1>1. /\ IdentInv'
        /\ \A v \in alloc \cup {Null} : IdOf(v)' = IdOf(v)
        /\ \A y \in DOMAIN f : ident'[f[y]] = ident[y]
        /\ \A a \in Current' : (a \in Current /\ a \notin Range(f)) \/ \E y \in DOMAIN f : a = f[y]
    BY MoveIdent
  <1>2. ASSUME NEW a \in Current, a \notin Range(f), a \in Current'
        PROVE  ident[a] = ident'[a] /\ \A s \in Slots : IdOf(slot[a][s]) = IdOf(slot[a][s])'
    BY <1>2 DEF Track, Current, IInv, TypeOK
  <1>3. ASSUME NEW y \in DOMAIN f
        PROVE  /\ y \in Current /\ ident[y] = ident'[f[y]]
               /\ \A s \in Slots : IdOf(slot[y][s]) = IdOf(slot[f[y]][s])'
    <2>1. y \in Current /\ \A s \in Slots : slot[y][s] \in alloc \cup {Null}
      BY DEF Copies, Current, IInv, SlotsLive
    <2>2. ASSUME NEW s \in Slots PROVE IdOf(slot[y][s]) = IdOf(slot[f[y]][s])'
      <3>1. slot'[f[y]][s] = slot[y][s] /\ slot[y][s] \in alloc \cup {Null}
        BY <2>1
      <3> QED
        BY <1>1, <3>1 DEF IdOf
    <2> QED
      BY <1>1, <2>1, <2>2
  <1>4. \A a \in Current' : \E c \in Current :
           ident[c] = ident'[a] /\ \A s \in Slots : IdOf(slot[c][s]) = IdOf(slot[a][s])'
    <2> TAKE a \in Current'
    <2>1. CASE a \in Current /\ a \notin Range(f)
      BY <1>2, <2>1
    <2>2. ASSUME NEW y \in DOMAIN f, a = f[y]
          PROVE  \E c \in Current :
                    ident[c] = ident'[a] /\ \A s \in Slots : IdOf(slot[c][s]) = IdOf(slot[a][s])'
      BY <1>3, <2>2
    <2> QED
      BY <1>1, <2>1, <2>2
  <1> QED
    BY <1>1, <1>4, ViewKept

\* What minor_process_slot writes stands for the object the slot named.
LEMMA ResolveSame ==
  ASSUME IInv, MinorInv, IdentInv, Track, NEW V, NEW f \in Promotions(V), Copies(f),
         NEW v \in alloc \cup {Null}, NEW w, w = v \/ w = Resolve(f, v)
  PROVE  IdOf(w)' = IdOf(v)
  <1>1. /\ \A x \in alloc \cup {Null} : IdOf(x)' = IdOf(x)
        /\ \A y \in DOMAIN f : ident'[f[y]] = ident[y]
    BY MoveIdent
  <1>2. alloc \subseteq Addr /\ Null \notin Addr /\ Young \subseteq Addr /\ DOMAIN f \subseteq Addr
    BY AddressAssumption DEF IInv, TypeOK, Addr, Old, Copies, Current
  <1>3. CASE v \in DOMAIN f /\ w = f[v]
    BY <1>1, <1>2, <1>3 DEF IdOf, Copies
  <1>4. CASE v \in Young /\ fwd[v] # Null /\ w = fwd[v]
    <2>1. w \in alloc /\ ident[w] = ident[v] /\ v \in Addr
      BY <1>2, <1>4 DEF MinorInv, FwdYoung, IdentInv
    <2> QED
      BY <1>1, <1>2, <2>1 DEF IdOf
  <1>5. CASE w = v
    BY <1>1, <1>5
  <1> QED
    BY <1>3, <1>4, <1>5 DEF Resolve

\* One evacuation of a minor collection is invisible.
LEMMA EvacuateView ==
  ASSUME IInv, IdentInv, IInv', Track, MinorInv,
         NEW V \in SUBSET (alloc \cup {Null}), NEW f \in Promotions(V),
         NEW own, NEW queue, Evacuate(f, own, queue),
         \A a \in alloc : \A s \in Slots : own[a][s] = slot[a][s] \/ own[a][s] = Resolve(f, slot[a][s]),
         \A l \in Locs : loc'[l] = loc[l] \/ loc'[l] = Resolve(f, loc[l])
  PROVE  IdentInv' /\ View' = View
  <1>0. TypeOK
    BY DEF IInv
  <1>1. /\ DOMAIN f \subseteq alloc \cap Young
        /\ \A y \in DOMAIN f : fwd[y] = Null
        /\ Range(f) \subseteq OldPage /\ Range(f) \cap alloc = {}
        /\ alloc' = alloc \cup Range(f)
        /\ \A a \in alloc : slot'[a] = own[a]
        /\ \A a \in Addr : fwd'[a] = IF a \in DOMAIN f THEN f[a] ELSE fwd[a]
        /\ \A y \in DOMAIN f : f[y] \in Range(f)
    BY <1>0, EvacuateFacts
  <1>2. /\ \A a \in Range(f) : Source(f, a) \in DOMAIN f /\ f[Source(f, a)] = a
        /\ \A y, z \in DOMAIN f : f[y] = f[z] => y = z
    BY PromotionFacts
  <1>3. Copies(f)
    BY <1>1, <1>2 DEF Copies, Current, Addr, Old
  <1>4. \A y \in DOMAIN f : slot'[f[y]] = slot[y]
    <2> TAKE y \in DOMAIN f
    <2>1. f[y] \in Addr /\ f[y] \in Range(f) /\ Source(f, f[y]) = y
      BY <1>1, <1>2 DEF Addr, Old
    <2> QED
      BY <2>1 DEF Evacuate
  <1>5. \A a \in alloc : \A s \in Slots : IdOf(slot[a][s])' = IdOf(slot[a][s])
    <2> TAKE a \in alloc
    <2> TAKE s \in Slots
    <2>1. slot[a][s] \in alloc \cup {Null}
      BY DEF IInv, SlotsLive
    <2>2. slot'[a][s] = slot[a][s] \/ slot'[a][s] = Resolve(f, slot[a][s])
      BY <1>1
    <2>3. PICK w : w = slot'[a][s]
      OBVIOUS
    <2>4. IdOf(w)' = IdOf(slot[a][s])
      BY <1>3, <2>1, <2>2, <2>3, ResolveSame
    <2> QED
      BY <2>3, <2>4 DEF IdOf
  <1>6. \A l \in Locs : IdOf(loc[l])' = IdOf(loc[l])
    <2> TAKE l \in Locs
    <2>1. loc[l] \in alloc \cup {Null}
      BY DEF IInv, LocsLive
    <2>2. PICK w : w = loc'[l]
      OBVIOUS
    <2>3. IdOf(w)' = IdOf(loc[l])
      BY <1>3, <2>1, <2>2, ResolveSame
    <2> QED
      BY <2>2, <2>3 DEF IdOf
  <1> QED
    BY <1>3, <1>4, <1>5, <1>6, MoveView

-----------------------------------------------------------------------------
(* No step of a collection is visible *)

\* A walk over gc-frame slots or roots.
LEMMA SlotsInvisible ==
  ASSUME IInv, IdentInv, IInv', Track, pc \in MinorPhases,
         NEW L \in SUBSET Locs, NEW f \in Promotions(Held(L)), MinorSlots(L, f)
  PROVE  IdentInv' /\ View' = View
  <1>1. MinorInv
    BY InMinor DEF IInv
  <1>2. Held(L) \in SUBSET (alloc \cup {Null})
    BY DEF Held, IInv, LocsLive
  <1>3. Evacuate(f, slot, wl) /\ \A l \in Locs : loc'[l] = loc[l] \/ loc'[l] = Resolve(f, loc[l])
    BY DEF MinorSlots
  <1> QED
    BY <1>1, <1>2, <1>3, EvacuateView

\* The scan of one object.
LEMMA ScanInvisible ==
  ASSUME IInv, IdentInv, IInv', Track, pc \in MinorPhases, loc' = loc,
         NEW o \in alloc, NEW f \in Promotions(Refs(o)), NEW queue, Evacuate(f, Scanned(f, o), queue)
  PROVE  IdentInv' /\ View' = View
  <1>1. MinorInv
    BY InMinor DEF IInv
  <1>2. Refs(o) \in SUBSET (alloc \cup {Null})
    BY DEF Refs, IInv, SlotsLive
  <1>3. \A a \in alloc : \A s \in Slots :
           Scanned(f, o)[a][s] = slot[a][s] \/ Scanned(f, o)[a][s] = Resolve(f, slot[a][s])
    BY DEF Scanned, IInv, TypeOK
  <1> QED
    BY <1>1, <1>2, <1>3, EvacuateView

\* A minor collection moves objects, frees cells and rewrites references, and
\* the program sees nothing of it.
LEMMA MinorInvisible ==
  ASSUME IInv, IdentInv, IInv', Track, Minor
  PROVE  IdentInv' /\ View' = View
  <1>1. CASE MinorBegin
    BY <1>1, QuietView DEF MinorBegin, heapVars
  <1>2. ASSUME NEW junk \in StaleWords, MinorPins(junk) PROVE IdentInv' /\ View' = View
    BY <1>2, QuietView DEF MinorPins
  <1>3. CASE MinorFrames
    <2>1. PICK f \in Promotions(Held(Frames)) : MinorSlots(Frames, f)
      BY <1>3 DEF MinorFrames
    <2>2. pc \in MinorPhases /\ Frames \in SUBSET Locs
      BY <1>3 DEF MinorFrames, MinorPhases, Locs
    <2> QED
      BY <2>1, <2>2, SlotsInvisible
  <1>4. CASE MinorRoots
    <2>1. PICK f \in Promotions(Held(Roots)) : MinorSlots(Roots, f)
      BY <1>4 DEF MinorRoots
    <2>2. pc \in MinorPhases /\ Roots \in SUBSET Locs
      BY <1>4 DEF MinorRoots, MinorPhases, Locs
    <2> QED
      BY <2>1, <2>2, SlotsInvisible
  <1>5. ASSUME NEW o \in Old, MinorRemset(o) PROVE IdentInv' /\ View' = View
    <2>1. CASE o \notin alloc
      BY <1>5, <2>1, QuietView DEF MinorRemset, heapVars
    <2>2. CASE o \in alloc
      <3>1. PICK f \in Promotions(Refs(o)) : Evacuate(f, Scanned(f, o), wl)
        BY <1>5, <2>2 DEF MinorRemset
      <3>2. pc \in MinorPhases /\ loc' = loc
        BY <1>5 DEF MinorRemset, MinorPhases
      <3> QED
        BY <2>2, <3>1, <3>2, ScanInvisible
    <2> QED
      BY <2>1, <2>2
  <1>6. ASSUME NEW o \in Addr, MinorDrain(o) PROVE IdentInv' /\ View' = View
    <2>1. PICK f \in Promotions(Refs(o)) : Evacuate(f, Scanned(f, o), Popped(o))
      BY <1>6 DEF MinorDrain
    <2>2. pc \in MinorPhases /\ loc' = loc /\ o \in alloc
      BY <1>6 DEF MinorDrain, MinorPhases, IInv, Worklist
    <2> QED
      BY <2>1, <2>2, ScanInvisible
  <1>7. CASE MinorSweep
    <2>1. MinorInv /\ alloc \subseteq Addr
      BY <1>7, InMinor DEF IInv, MinorSweep, MinorPhases, TypeOK
    <2>2. alloc' \subseteq Current /\ \A a \in alloc' : slot'[a] = slot[a]
      BY <1>7, <2>1 DEF MinorSweep, MinorDead, Current, MinorInv, FwdYoung, Blank
    <2>3. loc' = loc /\ \A a \in Addr : fwd'[a] = Null
      BY <1>7 DEF MinorSweep
    <2> QED
      BY <2>2, <2>3, FreeView
  <1> QED
    BY <1>1, <1>2, <1>3, <1>4, <1>5, <1>6, <1>7 DEF Minor

\* A full collection moves objects, frees cells and rewrites references, and
\* the program sees nothing of it.
LEMMA FullInvisible ==
  ASSUME IInv, IdentInv, IInv', Track, Full
  PROVE  IdentInv' /\ View' = View
  <1>0. alloc \subseteq Addr /\ Null \notin Addr
    BY AddressAssumption DEF IInv, TypeOK, Addr, Old
  <1>1. CASE FullRoots
    BY <1>1, QuietView DEF FullRoots
  <1>2. ASSUME NEW junk \in StaleWords, FullStacks(junk) PROVE IdentInv' /\ View' = View
    BY <1>2, QuietView DEF FullStacks
  <1>3. CASE FullDirtyRoots
    BY <1>3, QuietView DEF FullDirtyRoots
  <1>4. ASSUME NEW o \in Addr, FullMark(o) PROVE IdentInv' /\ View' = View
    BY <1>4, QuietView DEF FullMark
  <1>5. CASE FullSweep
    <2>1. \A a \in Addr : fwd[a] = Null
      BY <1>5 DEF FullSweep, IInv, Forwarding
    <2>2. alloc' \subseteq Current /\ \A a \in alloc' : slot'[a] = slot[a]
      BY <1>0, <1>5, <2>1 DEF FullSweep, Current, Blank
    <2> QED
      BY <1>5, <2>1, <2>2, FreeView DEF FullSweep
  <1>6. ASSUME NEW src \in SUBSET Compactable, CompactEvacuate(src) PROVE IdentInv' /\ View' = View
    <2>1. \A a \in Addr : fwd[a] = Null
      BY <1>6 DEF CompactEvacuate, IInv, Forwarding
    <2>2. PICK f \in Injection(src, OldPage \ alloc) :
             /\ alloc' = alloc \cup Range(f)
             /\ fwd' = [a \in Addr |-> IF a \in src THEN f[a] ELSE fwd[a]]
             /\ slot' = [a \in Addr |-> IF a \in Range(f) THEN slot[Source(f, a)] ELSE slot[a]]
      BY <1>6 DEF CompactEvacuate
    <2>3. /\ f \in [src -> OldPage \ alloc] /\ DOMAIN f = src
          /\ \A y, z \in src : f[y] = f[z] => y = z
      BY DEF Injection, IsInjective
    <2>4. src \subseteq Current
      BY <1>0, <2>1 DEF Compactable, Current
    <2>5. Copies(f)
      BY <2>2, <2>3, <2>4 DEF Copies, Addr, Old
    <2>6. \A y \in DOMAIN f : slot'[f[y]] = slot[y]
      <3> TAKE y \in DOMAIN f
      <3>1. f[y] \in Addr /\ f[y] \in Range(f)
        BY <2>3 DEF Range, Addr, Old
      <3>2. Source(f, f[y]) = y
        BY <2>3 DEF Source
      <3> QED
        BY <2>2, <3>1, <3>2
    <2>7. \A v \in alloc \cup {Null} : IdOf(v)' = IdOf(v)
      BY <2>5, MoveIdent
    <2>8. \A a \in alloc : \A s \in Slots : IdOf(slot[a][s])' = IdOf(slot[a][s])
      <3> TAKE a \in alloc
      <3> TAKE s \in Slots
      <3>1. slot[a][s] \in alloc \cup {Null} /\ slot'[a] = slot[a]
        BY <1>0, <2>2, <2>3 DEF IInv, SlotsLive, Range
      <3> QED
        BY <2>7, <3>1 DEF IdOf
    <2>9. \A l \in Locs : IdOf(loc[l])' = IdOf(loc[l])
      <3> TAKE l \in Locs
      <3>1. loc[l] \in alloc \cup {Null} /\ loc' = loc
        BY <1>6 DEF CompactEvacuate, IInv, LocsLive
      <3> QED
        BY <2>7, <3>1 DEF IdOf
    <2> QED
      BY <2>5, <2>6, <2>8, <2>9, MoveView
  <1>7. ASSUME NEW junk \in StaleWords, NEW repinned \in Repinnable(junk), CompactFixup(repinned)
        PROVE  IdentInv' /\ View' = View
    <2>1. alloc' = alloc /\ fwd' = fwd
      BY <1>7 DEF CompactFixup
    <2>2. ASSUME NEW v \in alloc \cup {Null}, NEW w, w = v \/ w = Fixed(v) PROVE IdOf(w)' = IdOf(v)
      <3>1. \A x \in alloc \cup {Null} : IdOf(x)' = IdOf(x)
        BY <2>1, StillIdent DEF IInv
      <3>2. CASE w = v
        BY <3>1, <3>2
      <3>3. CASE w = Fixed(v) /\ v \in alloc
        BY <1>0, <3>1, <3>3, FixedCurrent DEF Current, IdOf
      <3>4. CASE w = Fixed(v) /\ v = Null
        BY <1>0, <3>1, <3>4 DEF Fixed
      <3> QED
        BY <2>2, <3>2, <3>3, <3>4
    <2>3. \A l \in Locs : IdOf(loc[l])' = IdOf(loc[l])
      <3> TAKE l \in Locs
      <3>1. loc[l] \in alloc \cup {Null} /\ (loc'[l] = loc[l] \/ loc'[l] = Fixed(loc[l]))
        BY <1>7 DEF CompactFixup, IInv, LocsLive
      <3>2. PICK w : w = loc'[l]
        OBVIOUS
      <3>3. IdOf(w)' = IdOf(loc[l])
        BY <2>2, <3>1, <3>2
      <3> QED
        BY <3>2, <3>3 DEF IdOf
    <2>4. \A a \in Current : \A s \in Slots : IdOf(slot[a][s])' = IdOf(slot[a][s])
      <3> TAKE a \in Current
      <3> TAKE s \in Slots
      <3>1. slot[a][s] \in alloc \cup {Null} /\ (slot'[a][s] = slot[a][s] \/ slot'[a][s] = Fixed(slot[a][s]))
        BY <1>0, <1>7 DEF CompactFixup, Current, IInv, SlotsLive
      <3>2. PICK w : w = slot'[a][s]
        OBVIOUS
      <3>3. IdOf(w)' = IdOf(slot[a][s])
        BY <2>2, <3>1, <3>2
      <3> QED
        BY <3>2, <3>3 DEF IdOf
    <2> QED
      BY <2>1, <2>3, <2>4, StillView
  <1>8. CASE CompactRelease
    <2>1. alloc' \subseteq Current /\ \A a \in alloc' : slot'[a] = slot[a]
      BY <1>0, <1>8 DEF CompactRelease, Current, Blank
    <2>2. loc' = loc /\ \A a \in Addr : fwd'[a] = Null
      BY <1>8 DEF CompactRelease
    <2> QED
      BY <2>1, <2>2, FreeView
  <1>9. CASE FullFinish
    BY <1>9, QuietView DEF FullFinish
  <1> QED
    BY <1>1, <1>2, <1>3, <1>4, <1>5, <1>6, <1>7, <1>8, <1>9 DEF Full

-----------------------------------------------------------------------------
(* The program's steps are steps of the object graph *)

\* While there is room for another cell there is an identity for it.
LEMMA FreshExists ==
  ASSUME IInv, IdentInv, Cardinality(alloc) < MaxObjects
  PROVE  \E i \in Ids : \A a \in alloc : ident[a] # i
  <1> SUFFICES ASSUME \A i \in Ids : \E a \in alloc : ident[a] = i PROVE FALSE
    OBVIOUS
  <1> DEFINE g == [a \in alloc |-> ident[a]]
  <1>1. IsFiniteSet(alloc)
    <2>1. alloc \in SUBSET (Young \cup OldPage \cup Los)
      BY DEF IInv, TypeOK, Addr, Old
    <2> QED
      BY <2>1, IdentityAssumption, FS_Subset
  <1>2. g \in Surjection(alloc, Ids)
    BY DEF Surjection, IdentInv
  <1>3. Cardinality(Ids) <= Cardinality(alloc)
    BY <1>1, <1>2, FS_Surjection
  <1>4. Cardinality(Ids) \in Nat /\ Cardinality(alloc) \in Nat
    BY <1>1, IdentityAssumption, FS_CardinalityType
  <1> QED
    BY <1>3, <1>4, IdentityAssumption, BoundAssumption

\* A new cell is a new object; the other cells keep theirs.
LEMMA BirthIdent ==
  ASSUME IInv, IdentInv, Track, NEW a \in Addr, NEW l, NEW init, Birth(a, init, l)
  PROVE  /\ IdentInv'
         /\ ident'[a] \in Ids /\ ident'[a] \notin LiveIds
         /\ \A b \in alloc : ident'[b] = ident[b]
         /\ \A b \in Addr : fwd[b] = Null /\ fwd'[b] = Null
  <1>1. /\ pc = "mutator" /\ a \notin alloc /\ Cardinality(alloc) < MaxObjects
        /\ alloc' = alloc \cup {a} /\ fwd' = fwd
    BY DEF Birth
  <1>2. \A b \in Addr : fwd[b] = Null
    BY <1>1 DEF IInv, Forwarding
  <1>3. Null \notin Addr /\ alloc \subseteq Addr
    BY AddressAssumption DEF IInv, TypeOK, Addr, Old
  <1> DEFINE fresh == CHOOSE i \in Ids : \A b \in alloc : ident[b] # i
  <1>4. fresh \in Ids /\ \A b \in alloc : ident[b] # fresh
    BY <1>1, FreshExists
  <1>5. ident'[a] = fresh /\ \A b \in alloc : ident'[b] = ident[b]
    BY <1>1, <1>2, <1>3 DEF Track
  <1> HIDE DEF fresh
  <1>6. ident'[a] \notin LiveIds
    BY <1>4, <1>5 DEF LiveIds
  <1>7. ident' \in [Addr -> Ids \cup {Null}]
    <2>1. \A b \in Addr : ident'[b] \in Ids \cup {Null}
      <3>1. \A b \in Addr : b \notin alloc' => ident'[b] = Null
        BY DEF Track
      <3> QED
        BY <1>1, <1>4, <1>5, <3>1 DEF IdentInv
    <2>2. ident' = [b \in Addr |-> ident'[b]]
      BY DEF Track
    <2> QED
      BY <2>1, <2>2
  <1>8. IdentInv'
    BY <1>1, <1>2, <1>3, <1>4, <1>5, <1>7 DEF IdentInv, Current
  <1> QED
    BY <1>1, <1>2, <1>4, <1>5, <1>6, <1>8

\* The objects the graph remembers
Known == Graph!Reachable(FieldNow, HeldNow)

\* What the program names is known, and known objects are live.
LEMMA KnownFacts ==
  ASSUME IInv, IdentInv, view = View
  PROVE  /\ view.held = HeldNow /\ view.field = Graph!Forget(FieldNow, HeldNow)
         /\ Known \subseteq LiveIds /\ Known \subseteq Ids
         /\ \A l \in Locs : HeldNow[l] \in Ids => HeldNow[l] \in Known
         /\ \A i \in Known, s \in Slots : FieldNow[i][s] \in Ids => FieldNow[i][s] \in Known
         /\ \A i \in Known : view.field[i] = FieldNow[i]
         /\ Graph!Reachable(view.field, view.held) = Known
         /\ DOMAIN view.field = Ids
  <1>1. view.held = HeldNow /\ view.field = Graph!Forget(FieldNow, HeldNow)
    BY ViewIs
  <1>2. Known \in Graph!Closed(FieldNow, HeldNow) /\ Known \subseteq LiveIds
    BY LiveClosed, ReachableLeast DEF Known
  <1>3. \A i \in Known : view.field[i] = FieldNow[i]
    BY <1>1, ForgetReachable DEF Known
  <1>4. Graph!Reachable(view.field, view.held) = Known
    BY <1>1, ForgetReachable DEF Known
  <1>5. DOMAIN view.field = Ids
    BY <1>1 DEF Graph!Forget
  <1> QED
    BY <1>1, <1>2, <1>3, <1>4, <1>5 DEF Graph!Closed

\* A value the program can name is a value of the graph.
LEMMA VisibleValue ==
  ASSUME IInv, IdentInv, view = View, NEW v \in Visible
  PROVE  /\ v \in alloc \cup {Null}
         /\ IdOf(v) \in Graph!Values
         /\ IdOf(v) \in Ids => IdOf(v) \in Known
         /\ v # Null => IdOf(v) # Null /\ IdOf(v) \in Known /\ IdOf(v) = ident[v]
  <1>1. v \in alloc \cup {Null}
    BY DEF Visible, Held, IInv, LocsLive
  <1>2. CASE v = Null
    BY <1>1, <1>2, IdOfLive, IdentityAssumption DEF Graph!Values
  <1>3. CASE v # Null
    <2>1. PICK l \in Locs : loc[l] = v
      BY <1>3 DEF Visible, Held
    <2>2. HeldNow[l] = IdOf(v) /\ view.held = HeldNow
      BY <2>1, KnownFacts DEF HeldNow
    <2>3. IdOf(v) = ident[v] /\ IdOf(v) \in Ids
      BY <1>1, <1>3, IdOfLive
    <2> QED
      BY <1>1, <2>2, <2>3, KnownFacts, IdentityAssumption DEF Graph!Values
  <1> QED
    BY <1>2, <1>3

\* The home of a known object while the program runs.
LEMMA KnownHome ==
  ASSUME IInv, IdentInv, view = View
  PROVE  \A i \in Known : \E c \in alloc : ident[c] = i /\ FieldNow[i] = [s \in Slots |-> IdOf(slot[c][s])]
  <1> TAKE i \in Known
  <1>1. PICK c \in Current : ident[c] = i
    BY KnownFacts, LiveCurrent
  <1>2. i \in Ids /\ c \in alloc
    BY KnownFacts DEF Current
  <1> QED
    BY <1>1, <1>2, FieldsAre DEF FieldNow

\* The view after a step, computed from any graph g that agrees with the heap
\* on a closed set of objects.
LEMMA GraphStep ==
  ASSUME view' = View', NEW S \in Graph!Closed(FieldNow', HeldNow'), NEW g,
         \A i \in S : g[i] = FieldNow'[i]
  PROVE  view'.held = HeldNow' /\ view'.field = Graph!Forget(g, HeldNow')
  <1>1. view' = [held |-> HeldNow', field |-> Graph!Forget(FieldNow', HeldNow')]
    BY DEF View, HeldNow, FieldNow
  <1>2. Graph!Forget(g, HeldNow') = Graph!Forget(FieldNow', HeldNow')
    BY ForgetSame
  <1> QED
    BY <1>1, <1>2

\* Allocation creates a new object.
LEMMA BirthSim ==
  ASSUME IInv, IdentInv, IInv', view = View, view' = View', Track,
         NEW a \in Addr, NEW l \in Frames \cup CStack, NEW init \in [Slots -> Visible], Birth(a, init, l)
  PROVE  Graph!Next
  <1> DEFINE i == ident'[a]
             w == [s \in Slots |-> IdOf(init[s])]
             g == [view.field EXCEPT ![i] = w]
  <1>1. /\ IdentInv' /\ i \in Ids /\ i \notin LiveIds
        /\ \A b \in alloc : ident'[b] = ident[b]
        /\ \A b \in Addr : fwd[b] = Null /\ fwd'[b] = Null
    BY BirthIdent
  <1>2. /\ a \notin alloc /\ alloc' = alloc \cup {a} /\ loc' = [loc EXCEPT ![l] = a]
        /\ slot' = [slot EXCEPT ![a] = init]
    BY DEF Birth
  <1>3. /\ alloc \subseteq Addr /\ Null \notin Addr /\ l \in Locs /\ loc \in [Locs -> Addr \cup {Null}]
        /\ slot \in [Addr -> [Slots -> Addr \cup {Null}]]
    BY AddressAssumption DEF IInv, TypeOK, Addr, Old, Locs
  <1>4. \A v \in alloc \cup {Null} : IdOf(v)' = IdOf(v)
    BY <1>1, <1>3 DEF IdOf
  <1>5. HeldNow' = [HeldNow EXCEPT ![l] = i]
    <2>1. ASSUME NEW k \in Locs, k # l PROVE IdOf(loc[k])' = IdOf(loc[k])
      <3>1. loc'[k] = loc[k] /\ loc[k] \in alloc \cup {Null}
        BY <1>2, <1>3, <2>1 DEF IInv, LocsLive
      <3> QED
        BY <1>4, <3>1 DEF IdOf
    <2>2. IdOf(loc[l])' = i
      BY <1>2, <1>3 DEF IdOf
    <2> QED
      BY <1>3, <2>1, <2>2 DEF HeldNow
  <1>6. FieldNow'[i] = w
    <2>1. (\A b \in Current : FieldsOf(ident[b]) = [s \in Slots |-> IdOf(slot[b][s])])'
      BY <1>1, FieldsNext
    <2>2. a \in Current'
      BY <1>1, <1>2 DEF Current
    <2>3. FieldNow'[i] = [s \in Slots |-> IdOf(slot[a][s])']
      BY <1>1, <2>1, <2>2 DEF FieldNow
    <2>4. ASSUME NEW s \in Slots PROVE IdOf(slot[a][s])' = IdOf(init[s])
      <3>1. slot'[a][s] = init[s] /\ init[s] \in alloc \cup {Null}
        BY <1>2, <1>3, VisibleValue
      <3> QED
        BY <1>4, <3>1 DEF IdOf
    <2> QED
      BY <2>3, <2>4
  <1>7. ASSUME NEW j \in Known PROVE FieldNow'[j] = FieldNow[j]
    <2>1. PICK c \in alloc : ident[c] = j /\ FieldNow[j] = [s \in Slots |-> IdOf(slot[c][s])]
      BY KnownHome
    <2>2. (\A b \in Current : FieldsOf(ident[b]) = [s \in Slots |-> IdOf(slot[b][s])])'
      BY <1>1, FieldsNext
    <2>3. c \in Current' /\ ident'[c] = j /\ j \in Ids
      BY <1>1, <1>2, <1>3, <2>1, KnownFacts DEF Current
    <2>4. FieldNow'[j] = [s \in Slots |-> IdOf(slot[c][s])']
      BY <2>2, <2>3 DEF FieldNow
    <2>5. ASSUME NEW s \in Slots PROVE IdOf(slot[c][s])' = IdOf(slot[c][s])
      <3>1. slot'[c][s] = slot[c][s] /\ slot[c][s] \in alloc \cup {Null}
        BY <1>2, <1>3 DEF IInv, SlotsLive
      <3> QED
        BY <1>4, <3>1 DEF IdOf
    <2> QED
      BY <2>1, <2>4, <2>5
  <1>8. w \in [Slots -> Graph!Values] /\ \A s \in Slots : w[s] \in Ids => w[s] \in Known
    BY VisibleValue
  <1> HIDE DEF i, w
  <1>9. Known \cup {i} \in Graph!Closed(FieldNow', HeldNow')
    <2>1. Known \cup {i} \in SUBSET Ids
      BY <1>1, KnownFacts
    <2>2. ASSUME NEW k \in Locs, HeldNow'[k] \in Ids PROVE HeldNow'[k] \in Known \cup {i}
      BY <1>5, <2>2, KnownFacts DEF HeldNow
    <2>3. ASSUME NEW j \in Known \cup {i}, NEW s \in Slots, FieldNow'[j][s] \in Ids
          PROVE  FieldNow'[j][s] \in Known \cup {i}
      BY <1>6, <1>7, <1>8, <2>3, KnownFacts
    <2> QED
      BY <2>1, <2>2, <2>3 DEF Graph!Closed
  <1>10. \A j \in Known \cup {i} : g[j] = FieldNow'[j]
    BY <1>1, <1>6, <1>7, KnownFacts
  <1>11. view'.held = HeldNow' /\ view'.field = Graph!Forget(g, HeldNow')
    <2> HIDE DEF g
    <2> QED
      BY <1>9, <1>10, GraphStep
  <1>12. i \notin Graph!Reachable(view.field, view.held)
    BY <1>1, KnownFacts
  <1>13. Graph!New(i, w, l)
    BY <1>5, <1>11, <1>12, KnownFacts DEF Graph!New
  <1> QED
    BY <1>1, <1>8, <1>13 DEF Graph!Next

\* The fields of the known objects before and after a step that neither
\* allocates nor frees.
LEMMA KnownFields ==
  ASSUME IInv, IdentInv, IInv', view = View, Track, alloc' = alloc, fwd' = fwd
  PROVE  /\ \A v \in alloc \cup {Null} : IdOf(v)' = IdOf(v)
         /\ \A i \in Known : \E c \in Current :
               /\ ident[c] = i
               /\ FieldNow[i] = [s \in Slots |-> IdOf(slot[c][s])]
               /\ FieldNow'[i] = [s \in Slots |-> IdOf(slot[c][s])']
  <1>1. IdentInv' /\ \A v \in alloc \cup {Null} : IdOf(v)' = IdOf(v)
    BY StillIdent DEF IInv
  <1> SUFFICES ASSUME NEW i \in Known
               PROVE  \E c \in Current :
                         /\ ident[c] = i
                         /\ FieldNow[i] = [s \in Slots |-> IdOf(slot[c][s])]
                         /\ FieldNow'[i] = [s \in Slots |-> IdOf(slot[c][s])']
    BY <1>1
  <1>2. i \in LiveIds /\ i \in Ids
    BY KnownFacts
  <1>3. PICK c \in Current : ident[c] = i
    BY <1>2, LiveCurrent
  <1>4. FieldNow[i] = [s \in Slots |-> IdOf(slot[c][s])]
    BY <1>2, <1>3, FieldsAre DEF FieldNow
  <1>5. c \in Current' /\ ident'[c] = i
    BY <1>3 DEF Current, Track, IInv, TypeOK
  <1>6. FieldNow'[i] = [s \in Slots |-> IdOf(slot[c][s])']
    BY <1>1, <1>2, <1>5, FieldsNext DEF FieldNow
  <1> QED
    BY <1>3, <1>4, <1>6

\* A store writes one field of one object.
LEMMA StoreSim ==
  ASSUME IInv, IdentInv, IInv', view = View, view' = View', Track,
         NEW o \in Visible \ {Null}, NEW t \in Slots, NEW v \in Visible, Store(o, t, v)
  PROVE  Graph!Next
  <1> DEFINE i == IdOf(o)
             w == IdOf(v)
             g == [view.field EXCEPT ![i][t] = w]
  <1>1. /\ pc = "mutator" /\ alloc' = alloc /\ fwd' = fwd /\ loc' = loc
        /\ slot' = [slot EXCEPT ![o][t] = v]
    BY DEF Store
  <1>2. /\ i \in Known /\ i \in Graph!Values /\ i # Null /\ i = ident[o] /\ o \in alloc
        /\ w \in Graph!Values /\ (w \in Ids => w \in Known) /\ v \in alloc \cup {Null}
    BY VisibleValue
  <1>3. alloc \subseteq Addr /\ slot \in [Addr -> [Slots -> Addr \cup {Null}]]
    BY DEF IInv, TypeOK
  <1>4. \A x \in alloc \cup {Null} : IdOf(x)' = IdOf(x)
    BY <1>1, KnownFields
  <1>5. HeldNow' = HeldNow
    <2>1. ASSUME NEW k \in Locs PROVE IdOf(loc[k])' = IdOf(loc[k])
      <3>1. loc'[k] = loc[k] /\ loc[k] \in alloc \cup {Null}
        BY <1>1 DEF IInv, LocsLive
      <3> QED
        BY <1>4, <3>1 DEF IdOf
    <2> QED
      BY <2>1 DEF HeldNow
  <1>6. ASSUME NEW j \in Known
        PROVE  FieldNow'[j] = IF j = i THEN [FieldNow[j] EXCEPT ![t] = w] ELSE FieldNow[j]
    <2>1. PICK c \in Current :
             /\ ident[c] = j
             /\ FieldNow[j] = [s \in Slots |-> IdOf(slot[c][s])]
             /\ FieldNow'[j] = [s \in Slots |-> IdOf(slot[c][s])']
      BY <1>1, KnownFields
    <2>2. c \in alloc /\ (j = i <=> c = o)
      <3>1. o \in Current
        BY <1>1, <1>2, <1>3 DEF Current, IInv, Forwarding
      <3> QED
        BY <1>2, <2>1, <3>1 DEF IdentInv, Current
    <2>3. ASSUME NEW s \in Slots
          PROVE  IdOf(slot[c][s])' = IF j = i /\ s = t THEN w ELSE IdOf(slot[c][s])
      <3>1. slot[c][s] \in alloc \cup {Null} /\ slot'[c][s] = IF j = i /\ s = t THEN v ELSE slot[c][s]
        BY <1>1, <1>3, <2>2 DEF IInv, SlotsLive
      <3>2. CASE j = i /\ s = t
        BY <1>2, <1>4, <3>1, <3>2 DEF IdOf
      <3>3. CASE ~(j = i /\ s = t)
        BY <1>4, <3>1, <3>3 DEF IdOf
      <3> QED
        BY <3>2, <3>3
    <2> HIDE DEF i, w
    <2> QED
      BY <2>1, <2>3
  <1> HIDE DEF i, w
  <1>7. Known \in Graph!Closed(FieldNow', HeldNow')
    <2>1. ASSUME NEW j \in Known, NEW s \in Slots, FieldNow'[j][s] \in Ids
          PROVE  FieldNow'[j][s] \in Known
      <3>1. DOMAIN FieldNow[j] = Slots
        BY <1>1, KnownFields
      <3>2. FieldNow'[j][s] = w \/ FieldNow'[j][s] = FieldNow[j][s]
        BY ONLY <1>6, <3>1
      <3>3. FieldNow[j][s] \in Ids => FieldNow[j][s] \in Known
        BY KnownFacts
      <3> QED
        BY ONLY <1>2, <2>1, <3>2, <3>3
    <2> QED
      BY <1>5, <2>1, KnownFacts DEF Graph!Closed
  <1>8. \A j \in Known : g[j] = FieldNow'[j]
    BY <1>2, <1>6, KnownFacts
  <1>9. view'.held = HeldNow' /\ view'.field = Graph!Forget(g, HeldNow')
    <2> HIDE DEF g
    <2> QED
      BY <1>7, <1>8, GraphStep
  <1>10. Graph!Write(i, t, w)
    BY <1>5, <1>9, KnownFacts DEF Graph!Write
  <1> QED
    BY <1>2, <1>10 DEF Graph!Next

\* Assigning a value of the graph to a location.
LEMMA AssignSim ==
  ASSUME IInv, IdentInv, IInv', view = View, view' = View', Track,
         NEW l \in Locs, NEW v \in alloc \cup {Null}, IdOf(v) \in Ids => IdOf(v) \in Known,
         pc = "mutator", SetLoc(l, v)
  PROVE  Graph!Assign(l, IdOf(v))
  <1>1. alloc' = alloc /\ fwd' = fwd /\ slot' = slot /\ loc' = [loc EXCEPT ![l] = v]
    BY DEF SetLoc, heapVars
  <1>2. \A x \in alloc \cup {Null} : IdOf(x)' = IdOf(x)
    BY <1>1, KnownFields
  <1>3. HeldNow' = [HeldNow EXCEPT ![l] = IdOf(v)]
    <2>1. ASSUME NEW k \in Locs
          PROVE  IdOf(loc[k])' = IF k = l THEN IdOf(v) ELSE IdOf(loc[k])
      <3>1. loc'[k] = (IF k = l THEN v ELSE loc[k]) /\ loc[k] \in alloc \cup {Null}
        BY <1>1 DEF IInv, LocsLive, TypeOK
      <3>2. CASE k = l
        BY <1>2, <3>1, <3>2 DEF IdOf
      <3>3. CASE k # l
        BY <1>2, <3>1, <3>3 DEF IdOf
      <3> QED
        BY <3>2, <3>3
    <2> QED
      BY <2>1 DEF HeldNow
  <1>4. ASSUME NEW j \in Known PROVE FieldNow'[j] = FieldNow[j]
    <2>1. PICK c \in Current :
             /\ ident[c] = j
             /\ FieldNow[j] = [s \in Slots |-> IdOf(slot[c][s])]
             /\ FieldNow'[j] = [s \in Slots |-> IdOf(slot[c][s])']
      BY <1>1, KnownFields
    <2>2. ASSUME NEW s \in Slots PROVE IdOf(slot[c][s])' = IdOf(slot[c][s])
      <3>1. slot[c][s] \in alloc \cup {Null} /\ slot'[c][s] = slot[c][s]
        BY <1>1 DEF IInv, SlotsLive, Current
      <3> QED
        BY <1>2, <3>1 DEF IdOf
    <2> QED
      BY <2>1, <2>2
  <1>5. Known \in Graph!Closed(FieldNow', HeldNow')
    <2>1. ASSUME NEW k \in Locs, HeldNow'[k] \in Ids PROVE HeldNow'[k] \in Known
      BY <1>3, <2>1, KnownFacts DEF HeldNow
    <2>2. ASSUME NEW j \in Known, NEW s \in Slots, FieldNow'[j][s] \in Ids PROVE FieldNow'[j][s] \in Known
      BY <1>4, <2>2, KnownFacts
    <2> QED
      BY <2>1, <2>2, KnownFacts DEF Graph!Closed
  <1>6. \A j \in Known : view.field[j] = FieldNow'[j]
    BY <1>4, KnownFacts
  <1>7. view'.held = HeldNow' /\ view'.field = Graph!Forget(view.field, HeldNow')
    BY <1>5, <1>6, GraphStep
  <1> QED
    BY <1>3, <1>7, KnownFacts DEF Graph!Assign

\* Every step of the program is a step of the object graph.
LEMMA MutatorSim ==
  ASSUME IInv, IdentInv, IInv', view = View, view' = View', Track, Mutator
  PROVE  IdentInv' /\ Graph!Next
  <1> USE DEF Locs
  <1>1. ASSUME NEW a \in Addr, NEW l \in Frames \cup CStack, NEW init \in [Slots -> Visible], Birth(a, init, l)
        PROVE  IdentInv' /\ Graph!Next
    BY <1>1, BirthIdent, BirthSim
  <1>2. CASE \E a \in Young, l \in Frames \cup CStack, init \in [Slots -> Visible] : AllocYoung(a, init, l)
    BY <1>1, <1>2 DEF AllocYoung, Addr
  <1>3. CASE \E a \in Los, l \in Frames \cup CStack, init \in [Slots -> Visible] : AllocLos(a, init, l)
    BY <1>1, <1>3 DEF AllocLos, Addr, Old
  <1>4. CASE \E a \in OldPage, l \in Frames \cup CStack, init \in [Slots -> Visible] :
                AllocFallback(a, init, l)
    BY <1>1, <1>4 DEF AllocFallback, Addr, Old
  <1>5. ASSUME NEW o \in Visible \ {Null}, NEW s \in Slots, NEW v \in Visible, Store(o, s, v)
        PROVE  IdentInv' /\ Graph!Next
    <2>1. IdentInv'
      BY <1>5, StillIdent DEF Store, IInv
    <2> QED
      BY <1>5, <2>1, StoreSim
  <1>6. ASSUME NEW l \in Frames \cup CStack, NEW o \in Visible \ {Null}, NEW s \in Slots, Load(l, o, s)
        PROVE  IdentInv' /\ Graph!Next
    <2>1. IdentInv' /\ pc = "mutator" /\ SetLoc(l, slot[o][s]) /\ l \in Locs
      BY <1>6, StillIdent DEF Load, SetLoc, heapVars, IInv
    <2>2. /\ IdOf(o) \in Known /\ IdOf(o) \in Graph!Values /\ IdOf(o) # Null /\ IdOf(o) = ident[o]
          /\ o \in alloc
      BY VisibleValue
    <2>3. slot[o][s] \in alloc \cup {Null}
      BY <2>2 DEF IInv, SlotsLive
    <2>4. view.field[IdOf(o)][s] = IdOf(slot[o][s])
      <3>1. o \in Current
        BY <2>1, <2>2 DEF Current, IInv, Forwarding, TypeOK
      <3>2. FieldNow[ident[o]] = [r \in Slots |-> IdOf(slot[o][r])]
        BY <2>2, <3>1, FieldsAre, KnownFacts DEF FieldNow
      <3> QED
        BY <2>2, <3>2, KnownFacts
    <2>5. IdOf(slot[o][s]) \in Ids => IdOf(slot[o][s]) \in Known
      BY <2>2, <2>4, KnownFacts
    <2>6. Graph!Assign(l, IdOf(slot[o][s]))
      BY <2>1, <2>3, <2>5, AssignSim
    <2> QED
      BY <2>1, <2>2, <2>4, <2>6 DEF Graph!Next
  <1>7. ASSUME NEW l \in Locs, NEW v \in Visible, Move(l, v) PROVE IdentInv' /\ Graph!Next
    <2>1. IdentInv' /\ pc = "mutator" /\ SetLoc(l, v)
      BY <1>7, StillIdent DEF Move, SetLoc, heapVars, IInv
    <2>2. v \in alloc \cup {Null} /\ IdOf(v) \in Graph!Values /\ (IdOf(v) \in Ids => IdOf(v) \in Known)
      BY VisibleValue
    <2>3. Graph!Assign(l, IdOf(v))
      BY <2>1, <2>2, AssignSim
    <2> QED
      BY <2>1, <2>2, <2>3 DEF Graph!Next
  <1> QED
    BY <1>2, <1>3, <1>4, <1>5, <1>6, <1>7 DEF Mutator

-----------------------------------------------------------------------------
(* The theorems *)

\* The inductive invariant of the refinement.
RefInv == IInv /\ IdentInv /\ view = View

LEMMA RefInvInit == RefInit => RefInv /\ Graph!Init
  <1> SUFFICES ASSUME RefInit PROVE RefInv /\ Graph!Init
    OBVIOUS
  <1>1. IInv /\ alloc = {} /\ loc = [l \in Locs |-> Null]
    BY InvInit DEF RefInit, Init
  <1>2. IdentInv
    BY <1>1 DEF RefInit, IdentInv, Current
  <1>3. HeldNow = [l \in Locs |-> Null]
    BY <1>1, <1>2, IdOfLive DEF HeldNow
  <1>4. FieldNow = [i \in Ids |-> [s \in Slots |-> Null]]
    BY <1>1 DEF FieldNow, FieldsOf, Home
  <1>5. view.held = HeldNow /\ view.field = Graph!Forget(FieldNow, HeldNow)
    BY ViewIs DEF RefInit
  <1>6. Graph!Forget(FieldNow, HeldNow) = FieldNow
    BY <1>4 DEF Graph!Forget
  <1> QED
    BY <1>1, <1>2, <1>3, <1>4, <1>5, <1>6 DEF RefInv, RefInit, Graph!Init

\* Every step of the heap is a step of the graph, or leaves it as it is.
LEMMA RefStepSim ==
  ASSUME BarrieredFallback, RefInv, [RefNext]_rvars
  PROVE  RefInv' /\ [Graph!Next]_<<view.field, view.held>>
  <1>1. CASE UNCHANGED rvars
    <2>1. UNCHANGED vars /\ ident' = ident /\ view' = view
      BY <1>1 DEF rvars
    <2>2. IInv'
      BY <2>1, InvNext DEF RefInv
    <2>3. alloc' = alloc /\ fwd' = fwd /\ slot' = slot /\ loc' = loc
      BY <2>1 DEF vars, heapVars
    <2>4. IdentInv' /\ view' = View'
      <3>1. IdentInv'
        BY <2>1, <2>3 DEF RefInv, IdentInv, Current
      <3>2. \A i : FieldsOf(i)' = FieldsOf(i)
        BY ONLY <2>1, <2>3 DEF IdOf, FieldsOf, Home
      <3>3. \A l \in Locs : IdOf(loc[l])' = IdOf(loc[l])
        BY ONLY <2>1, <2>3 DEF IdOf
      <3>4. View' = View
        BY ONLY <3>2, <3>3 DEF View
      <3> QED
        BY <2>1, <3>1, <3>4 DEF RefInv
    <2> QED
      BY <2>1, <2>2, <2>4 DEF RefInv
  <1>2. CASE RefNext
    <2>1. Next /\ Track /\ view' = View' /\ IInv /\ IdentInv /\ view = View
      BY <1>2 DEF RefNext, RefStep, RefInv
    <2>2. IInv'
      BY <2>1, InvNext
    <2>3. CASE Mutator
      BY <2>1, <2>2, <2>3, MutatorSim DEF RefInv
    <2>4. CASE Minor \/ Full
      <3>1. IdentInv' /\ View' = View
        BY <2>1, <2>2, <2>4, MinorInvisible, FullInvisible
      <3> QED
        BY <2>1, <2>2, <3>1 DEF RefInv
    <2> QED
      BY <2>1, <2>3, <2>4 DEF Next
  <1> QED
    BY <1>1, <1>2

\* OneHome for every heap: evacuation and compaction neither lose an object nor
\* leave two current copies of it.
THEOREM EveryObjectHasOneHome == ASSUME BarrieredFallback PROVE RefSpec => []OneHome
  <1>1. RefInit => RefInv
    BY RefInvInit
  <1>2. RefInv /\ [RefNext]_rvars => RefInv'
    BY RefStepSim
  <1>3. RefInv => OneHome
    BY OneHomeFrom DEF RefInv
  <1> QED
    BY <1>1, <1>2, <1>3, PTL DEF RefSpec

\* ImplementsObjectGraph for every heap: the program cannot tell that there is
\* a collector.
THEOREM HeapImplementsGraph == ASSUME BarrieredFallback PROVE RefSpec => ImplementsObjectGraph
  <1>1. RefInit => RefInv /\ Graph!Init
    BY RefInvInit
  <1>2. RefInv /\ [RefNext]_rvars => RefInv' /\ [Graph!Next]_<<view.field, view.held>>
    BY RefStepSim
  <1> QED
    BY <1>1, <1>2, PTL DEF RefSpec, ImplementsObjectGraph, Graph!Spec

=============================================================================
