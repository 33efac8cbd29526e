------------------------------ MODULE MapData ------------------------------
(***************************************************************************)
(* [[MapData]] of a Map (ejs-map.c) and [[SetData]] of a Set (ejs-set.c):  *)
(* an insertion-ordered list that only grows.  Deleting an entry empties   *)
(* it in place, so that iterators and forEach calls that are under way can *)
(* go on.  What goes wrong goes wrong between two steps of a traversal:    *)
(* the program, a forEach callback or a getOrInsertComputed callback       *)
(* changes the list.  A Set is a Map whose values are of no interest.      *)
(*                                                                         *)
(* Keys are classes of SameValueZero, so -0 and +0 are one key.            *)
(***************************************************************************)
EXTENDS Integers, Sequences, FiniteSets

CONSTANTS
    Keys, Values,
    Iterators,      \* iterator objects
    Empty,          \* EJS_NO_ITER_VALUE, the magic value of a deleted entry
    MaxEntries,     \* bound: entries ever appended
    MaxDepth        \* bound: callbacks nested on the C stack

ASSUME EmptyAssumption == Empty \notin Keys \cup Values
ASSUME MapBounds       == MaxEntries \in Nat /\ MaxDepth \in Nat

VARIABLES
    entries,        \* the list from head_insert, deleted entries included
    iter,           \* the iterators: status and next_index
    stack,          \* the calls whose callback is running, innermost last
    seen,           \* history: the list positions an iterator has returned
    shrunk          \* history: a position an iterator had returned was
                    \* deleted before the iterator came to its end

vars == <<entries, iter, stack, seen, shrunk>>

Tombstone == [key |-> Empty, value |-> Empty]
Live      == {p \in DOMAIN entries : entries[p].key # Empty}
At(k)     == {p \in DOMAIN entries : entries[p].key = k}
Rank(p)   == Cardinality({q \in Live : q < p})
First(P)  == CHOOSE p \in P : \A q \in P : p <= q

Top       == stack[Len(stack)]
Pop       == SubSeq(stack, 1, Len(stack) - 1)

Init ==
    /\ entries = <<>>
    /\ iter = [i \in Iterators |-> [status |-> "unused", next |-> 0]]
    /\ stack = <<>>
    /\ seen = [i \in Iterators |-> {}]
    /\ shrunk = [i \in Iterators |-> FALSE]

-----------------------------------------------------------------------------
(* Changing the list *)

\* fault: the key is looked up once, before the callback, and not again
AppendEntry(k, v) == entries' = Append(entries, [key |-> k, value |-> v])

\* _ejs_map_set on the list: overwrite in place, or append
Upsert(k, v) ==
    IF At(k) # {}
    THEN entries' = [p \in DOMAIN entries |->
                        IF p \in At(k) THEN [key |-> k, value |-> v] ELSE entries[p]]
    ELSE entries' = Append(entries, [key |-> k, value |-> v])

Room(k) == At(k) # {} \/ Len(entries) < MaxEntries

Set(k, v) ==
    /\ Room(k)
    /\ Upsert(k, v)
    /\ UNCHANGED <<iter, stack, seen, shrunk>>

CutAt(P)      == [p \in {q \in DOMAIN entries : \A r \in P : q < r} |-> entries[p]]  \* fault: the rest is lost
KeyEmptied(P) == [p \in DOMAIN entries |->                    \* fault: the value stays
                     IF p \in P THEN [entries[p] EXCEPT !.key = Empty] ELSE entries[p]]
\* the list with the entries at the positions P emptied in place
Emptied(P)   == [p \in DOMAIN entries |-> IF p \in P THEN Tombstone ELSE entries[p]]

Shrink(P) ==
    /\ entries' = Emptied(P)
    /\ shrunk' = [i \in Iterators |->
                     shrunk[i] \/ (iter[i].status = "open" /\ seen[i] \cap P # {})]
    /\ UNCHANGED <<iter, stack, seen>>

\* _ejs_map_delete; a key that is not present changes nothing
Delete(k) == At(k) # {} /\ Shrink(At(k))

\* Map.prototype.clear
Clear == Shrink(Live)

-----------------------------------------------------------------------------
(* Iterators: next_index counts the live entries before the next one *)

\* _ejs_map_iterator_new
NewIterator(i) ==
    /\ iter[i].status = "unused"
    /\ iter' = [iter EXCEPT ![i].status = "open"]
    /\ UNCHANGED <<entries, stack, seen, shrunk>>

\* fault: the index is compared with the position, tombstones included
AtPosition(n)  == {p \in Live : p = n + 1}
\* fault: the scan counts an entry before it compares, not after
AtCounted(n)   == {p \in Live : Rank(p) = IF n = 0 THEN 0 ELSE n - 1}

\* the live entry that the scan for index n stops at
AtIndex(n) == {p \in Live : Rank(p) = n}

\* MapIterator.prototype.next that returns the entry at p
NextEntry(i, p) ==
    /\ iter[i].status = "open"
    /\ p \in AtIndex(iter[i].next)
    /\ iter' = [iter EXCEPT ![i].next = @ + 1]
    /\ seen' = [seen EXCEPT ![i] = @ \cup {p}]
    /\ UNCHANGED <<entries, stack, shrunk>>

\* MapIterator.prototype.next that reports done, for good
NextDone(i) ==
    /\ iter[i].status = "open"
    /\ AtIndex(iter[i].next) = {}
    /\ iter' = [iter EXCEPT ![i].status = "done"]
    /\ UNCHANGED <<entries, stack, seen, shrunk>>

-----------------------------------------------------------------------------
(* Calls that run a callback: the callback may do all of the above, and call *)
(* forEach again                                                             *)

\* the live entries behind position p
Behind(p) == {q \in Live : q > p}

\* fault: the traversal ends at an entry that its own callback deleted
IfStillLive(f) == {q \in Behind(f.at) : f.at \in Live}
\* the entries forEach has still to visit from frame f
Rest(f) == Behind(f.at)

Visit(f, p) == [f EXCEPT !.at = p, !.visited = @ \cup {p}]

\* forEach finds its first live entry and calls back
ForEachBegin ==
    /\ Len(stack) < MaxDepth /\ Live # {}
    /\ LET f == [kind |-> "forEach", key |-> Empty, at |-> 0, visited |-> {}]
       IN  stack' = Append(stack, Visit(f, First(Live)))
    /\ UNCHANGED <<entries, iter, seen, shrunk>>

\* the callback returns; forEach goes to the next live entry
ForEachNext ==
    /\ stack # <<>> /\ Top.kind = "forEach" /\ Rest(Top) # {}
    /\ stack' = [stack EXCEPT ![Len(stack)] = Visit(@, First(Rest(@)))]
    /\ UNCHANGED <<entries, iter, seen, shrunk>>

\* the callback returns and no live entry is left
ForEachReturn ==
    /\ stack # <<>> /\ Top.kind = "forEach" /\ Rest(Top) = {}
    /\ stack' = Pop
    /\ UNCHANGED <<entries, iter, seen, shrunk>>

\* the callback throws: forEach and getOrInsertComputed have nothing to undo
Throw ==
    /\ stack # <<>>
    /\ stack' = Pop
    /\ UNCHANGED <<entries, iter, seen, shrunk>>

\* getOrInsertComputed does not find the key and calls back
ComputeBegin(k) ==
    /\ Len(stack) < MaxDepth /\ At(k) = {}
    /\ stack' = Append(stack, [kind |-> "compute", key |-> k, at |-> 0, visited |-> {}])
    /\ UNCHANGED <<entries, iter, seen, shrunk>>

\* the callback returned v, which overwrites what it may have inserted
ComputeReturn(v) ==
    /\ stack # <<>> /\ Top.kind = "compute" /\ Room(Top.key)
    /\ Upsert(Top.key, v)
    /\ stack' = Pop
    /\ UNCHANGED <<iter, seen, shrunk>>

-----------------------------------------------------------------------------
Next ==
    \/ \E k \in Keys, v \in Values : Set(k, v)
    \/ \E k \in Keys : Delete(k)
    \/ Clear
    \/ \E i \in Iterators : NewIterator(i)
    \/ \E i \in Iterators : \E p \in DOMAIN entries : NextEntry(i, p)
    \/ \E i \in Iterators : NextDone(i)
    \/ ForEachBegin
    \/ ForEachNext
    \/ ForEachReturn
    \/ Throw
    \/ \E k \in Keys : ComputeBegin(k)
    \/ \E v \in Values : ComputeReturn(v)

Spec == Init /\ [][Next]_vars

-----------------------------------------------------------------------------
(* Properties *)

Frame == [kind : {"forEach"}, key : {Empty}, at : Nat, visited : SUBSET Nat]
            \cup [kind : {"compute"}, key : Keys, at : Nat, visited : SUBSET Nat]

\* a deleted entry keeps neither its key nor its value alive
MapTypeOK ==
    /\ entries \in Seq([key : Keys \cup {Empty}, value : Values \cup {Empty}])
    /\ \A p \in DOMAIN entries : entries[p].key = Empty <=> entries[p].value = Empty
    /\ iter \in [Iterators -> [status : {"unused", "open", "done"}, next : Nat]]
    /\ stack \in Seq(Frame)
    /\ seen \in [Iterators -> SUBSET Nat] /\ shrunk \in [Iterators -> BOOLEAN]

\* However sets, deletions and callbacks interleave, no key has two live
\* entries: get would find one of them and delete would leave the other.
KeysDistinct == \A p, q \in Live : entries[p].key = entries[q].key => p = q

\* The contents of the list as a function.
Contents == [k \in {entries[p].key : p \in Live} |-> entries[CHOOSE p \in At(k) : TRUE].value]

Abstract == INSTANCE PartialMap WITH m <- Contents

\* The entry list implements a partial map: set, delete, clear and
\* getOrInsertComputed change the one key they name, traversals change nothing.
ImplementsMap == Abstract!Spec

\* An iterator moves forward: next() never returns an entry that it, or one
\* inserted after it, has returned before, whatever was deleted in between.
IteratorForward ==
    [][\A i \in Iterators : \A p \in DOMAIN entries :
          NextEntry(i, p) => \A q \in seen[i] : q < p]_vars

\* An iterator that reports done has returned every live entry, unless an
\* entry it had already returned was deleted under it.
IteratorComplete ==
    [][\A i \in Iterators : NextDone(i) => shrunk[i] \/ Live \subseteq seen[i]]_vars

\* ejs-map.c on clear and delete: the list is preserved "because there may be
\* existing MapIterator objects that are suspended midway through iterating
\* over that List": such an iterator goes on to the entries it has not returned.
IteratorMissesNothing ==
    [][\A i \in Iterators : NextDone(i) => Live \subseteq seen[i]]_vars

\* forEach visits the entries that its callbacks append, and leaves out none
\* that is still live.
ForEachComplete == [][ForEachReturn => Live \subseteq Top.visited]_vars

-----------------------------------------------------------------------------
(* The invariant behind these properties *)

UpTo(p) == {q \in Live : q <= p}

\* next_index counts at least the live entries up to any that was returned;
\* while nothing returned was deleted, what was returned is a prefix of the
\* live entries and next_index counts it exactly.
Progress(i) ==
    /\ iter[i].status = "unused" => seen[i] = {} /\ iter[i].next = 0
    /\ seen[i] \subseteq DOMAIN entries
    /\ \A p \in seen[i] : Cardinality(UpTo(p)) <= iter[i].next
    /\ (~shrunk[i] /\ iter[i].status # "done") =>
           /\ seen[i] \subseteq Live
           /\ Cardinality(seen[i]) = iter[i].next
           /\ \A p \in seen[i] : UpTo(p) \subseteq seen[i]

\* A forEach under way has visited every live entry up to the one it is at.
FrameProgress(f) ==
    f.kind = "forEach" => f.at <= Len(entries) /\ UpTo(f.at) \subseteq f.visited

\* What ties the suspended traversals to the list: an index or a pointer that
\* was right when its call stopped is still right when the call goes on.
MapInv ==
    /\ MapTypeOK
    /\ KeysDistinct
    /\ \A i \in Iterators : Progress(i)
    /\ \A n \in DOMAIN stack : FrameProgress(stack[n])

=============================================================================
