---------------------------- MODULE GCHeapRefine ----------------------------
(***************************************************************************)
(* The collected heap implements the plain object graph: a history         *)
(* variable records which object lives in each cell, and under it every    *)
(* step of a collection leaves the program's view of its objects           *)
(* unchanged.                                                              *)
(***************************************************************************)
EXTENDS GCHeap

CONSTANT Ids    \* object identities

ASSUME IdentityAssumption ==
    /\ IsFiniteSet(Young \cup OldPage \cup Los)
    /\ IsFiniteSet(Ids) /\ Cardinality(Ids) >= MaxObjects /\ Null \notin Ids

VARIABLES
    ident,  \* the object in each cell, Null in a free cell
    view    \* the object graph the heap stands for (a function of the rest)

rvars == <<vars, ident, view>>

\* a cell keeps its object while it is allocated; a copy takes over the
\* object of the cell that forwards to it; any other new cell is a new object
Track ==
    LET fresh == CHOOSE i \in Ids : \A a \in alloc : ident[a] # i IN
    ident' = [a \in Addr |->
                 IF a \notin alloc' THEN Null
                 ELSE IF a \in alloc THEN ident[a]
                 ELSE IF \E b \in Addr : fwd'[b] = a
                      THEN ident[CHOOSE b \in Addr : fwd'[b] = a]
                      ELSE fresh]

IdOf(v) == IF v \in Addr THEN ident[v] ELSE Null

\* the cell where object i now lives
Home(i) == {a \in alloc : ident[a] = i /\ fwd[a] = Null}

FieldsOf(i) ==
    IF Home(i) = {} THEN [s \in Slots |-> Null]
    ELSE LET a == CHOOSE a \in Home(i) : TRUE IN [s \in Slots |-> IdOf(slot[a][s])]

Graph == INSTANCE ObjectGraph WITH
            Locals <- Frames \cup CStack, held <- view.held, field <- view.field

View == LET h == [l \in Locs |-> IdOf(loc[l])]
            f == [i \in Ids |-> FieldsOf(i)]
        IN  [held |-> h, field |-> Graph!Forget(f, h)]

RefInit == Init /\ ident = [a \in Addr |-> Null] /\ view = View
RefStep == Track /\ view' = View'
RefNext == Next /\ RefStep
RefSpec == RefInit /\ [][RefNext]_rvars /\ WF_rvars(Collecting /\ RefStep)

\* The program cannot tell that there is a collector: allocation, stores and
\* loads act as on the plain object graph, and no collector step changes it.
ImplementsObjectGraph == Graph!Spec

\* Every live object has exactly one home: evacuation neither loses an
\* object nor leaves two current copies of it.
OneHome == \A i \in {ident[a] : a \in alloc} : Cardinality(Home(i)) = 1

=============================================================================
