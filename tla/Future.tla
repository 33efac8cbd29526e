------------------------------- MODULE Future -------------------------------
(***************************************************************************)
(* What promises promise.  A promise is a cell that is opened once and      *)
(* settled once.  Instead of settling, an open cell may begin to follow     *)
(* another promise, and then takes over the outcome of that promise and no *)
(* other; or it may follow an object of the program's own, which opens it  *)
(* again.  Reactions, jobs, capabilities and resolving functions are not   *)
(* part of the promise.                                                    *)
(***************************************************************************)
CONSTANTS Promises, Reasons, Thenable, None

VARIABLE cell

Outcomes == {"fulfilled", "rejected"}

Empty       == [status |-> "none", value |-> None]
Open        == [status |-> "open", value |-> None]
Follower(q) == [status |-> "follows", value |-> q]
Settled(p)  == cell[p].status \in Outcomes

Init == cell = [p \in Promises |-> Empty]

Create(p) == cell[p] = Empty /\ cell' = [cell EXCEPT ![p] = Open]

\* an open cell, or one created for the purpose, is given an outcome
Settle(p) ==
    /\ cell[p] \in {Empty, Open}
    /\ \E s \in Outcomes, v \in Reasons :
          cell' = [cell EXCEPT ![p] = [status |-> s, value |-> v]]

Follow(p, q) ==
    /\ cell[p] \in {Empty, Open} /\ p # q
    /\ cell' = [cell EXCEPT ![p] = Follower(q)]

Adopt(p) ==
    \E q \in Promises :
        /\ cell[p] = Follower(q) /\ Settled(q)
        /\ cell' = [cell EXCEPT ![p] = cell[q]]

Reopen(p) == cell[p] = Follower(Thenable) /\ cell' = [cell EXCEPT ![p] = Open]

Next ==
    \E p \in Promises :
        \/ Create(p) \/ Settle(p) \/ Adopt(p) \/ Reopen(p)
        \/ \E q \in Promises \cup {Thenable} : Follow(p, q)

Spec == Init /\ [][Next]_cell

=============================================================================
