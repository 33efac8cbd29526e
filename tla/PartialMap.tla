----------------------------- MODULE PartialMap -----------------------------
(***************************************************************************)
(* What a Map promises about its contents: a function from some of the     *)
(* keys to values.  Entry lists, tombstones and iterators are not part of  *)
(* the promise.                                                            *)
(***************************************************************************)
CONSTANTS Keys, Values

VARIABLE m      \* a function whose domain is the set of present keys

Init == m = [k \in {} |-> k]

Put(k, v)  == m' = [j \in DOMAIN m \cup {k} |-> IF j = k THEN v ELSE m[j]]
Remove(k)  == k \in DOMAIN m /\ m' = [j \in DOMAIN m \ {k} |-> m[j]]
RemoveAll  == m' = [k \in {} |-> k]

Next ==
    \/ \E k \in Keys, v \in Values : Put(k, v)
    \/ \E k \in Keys : Remove(k)
    \/ RemoveAll

Spec == Init /\ [][Next]_m

=============================================================================
