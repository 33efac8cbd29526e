----------------------------- MODULE ObjectGraph -----------------------------
(***************************************************************************)
(* What the heap promises a program: objects with an identity and fields,  *)
(* reached from the program's variables.  There are no addresses, no       *)
(* generations and no collections here; an object nobody can reach is      *)
(* forgotten, and its identity may be used again.  GCHeapRefine shows      *)
(* that the collected heap implements this.                                *)
(***************************************************************************)
CONSTANTS Ids, Slots, Locs, Locals, Null

VARIABLES
    field,  \* the fields of every object; Null in the forgotten ones
    held    \* what the program's variables hold

\* the sets of objects that hold what the variables h name and, with an
\* object, what its fields name
Closed(f, h) ==
    {S \in SUBSET Ids : /\ \A l \in Locs : h[l] \in Ids => h[l] \in S
                        /\ \A i \in S, s \in Slots : f[i][s] \in Ids => f[i][s] \in S}

Reachable(f, h) == LET closed == Closed(f, h) IN {i \in Ids : \A S \in closed : i \in S}

\* the graph without the objects that cannot be reached
Forget(f, h) ==
    [i \in Ids |-> IF i \in Reachable(f, h) THEN f[i] ELSE [s \in Slots |-> Null]]

Values == {held[l] : l \in Locs} \cup {Null}

Init ==
    /\ field = [i \in Ids |-> [s \in Slots |-> Null]]
    /\ held = [l \in Locs |-> Null]

New(i, init, l) ==
    /\ i \notin Reachable(field, held)
    /\ held' = [held EXCEPT ![l] = i]
    /\ field' = Forget([field EXCEPT ![i] = init], held')

Write(i, s, v) ==
    /\ field' = Forget([field EXCEPT ![i][s] = v], held)
    /\ UNCHANGED held

Assign(l, v) ==
    /\ held' = [held EXCEPT ![l] = v]
    /\ field' = Forget(field, held')

Next ==
    \/ \E i \in Ids, l \in Locals, init \in [Slots -> Values] : New(i, init, l)
    \/ \E i \in Values \ {Null}, s \in Slots, v \in Values : Write(i, s, v)
    \/ \E l \in Locals, i \in Values \ {Null}, s \in Slots : Assign(l, field[i][s])
    \/ \E l \in Locs, v \in Values : Assign(l, v)

Spec == Init /\ [][Next]_<<field, held>>

=============================================================================
