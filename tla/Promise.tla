------------------------------ MODULE Promise ------------------------------
(***************************************************************************)
(* Promises and their jobs (ejs-promise.c).  One thread: the program runs  *)
(* as the script or a timer callback, or as a handler a job has called;    *)
(* jobs run one at a time, when no program code is on the stack.  What     *)
(* makes it hard is time: a promise is resolved now, by a promise that is  *)
(* settled later, and the jobs in between are queued by whoever comes      *)
(* first.                                                                  *)
(*                                                                         *)
(* The queue is a log: jobs is only appended to and begun counts the jobs  *)
(* taken from it, so that properties can speak of the jobs that have run.  *)
(***************************************************************************)
EXTENDS Naturals, Sequences, FiniteSets

CONSTANTS
    Promises, Values,
    Thenable,           \* an object of the program's own whose then is callable
    TypeError,          \* the reason of a self resolution
    None,
    MaxReactions,       \* bound: reaction records ever allocated
    MaxPairs            \* bound: pairs of resolving functions per promise

ASSUME Kinds ==
    /\ Promises \cap (Values \cup {TypeError}) = {}
    /\ Thenable \notin Promises \cup Values \cup {TypeError, None}
    /\ None \notin Promises \cup Values \cup {TypeError}
ASSUME PromiseBounds == MaxReactions \in Nat /\ MaxPairs \in Nat

VARIABLES
    state, result,
    fulfillReactions, rejectReactions,  \* per promise: lists of reactions
    reactions,          \* every PromiseReaction record ever allocated
    freed,              \* the records that reaction_arg_dtor has freed
    pairs,              \* per promise: how often CreateResolvingFunctions ran
    alreadyResolved,    \* the pairs <<p, n>> whose shared flag is set
    held,               \* the pairs the program has been given
    jobs, begun,
    mode,               \* "idle"; "program"; "handler": program code is
                        \* running that the job jobs[begun] has called
    follows             \* history: the thenable a promise was resolved with

vars == <<state, result, fulfillReactions, rejectReactions, reactions, freed,
          pairs, alreadyResolved, held, jobs, begun, mode, follows>>

Plain     == Values \cup {TypeError}    \* values without a callable then
Objects   == Promises \cup {Thenable}
Outcomes  == {"fulfilled", "rejected"}
Settled(p) == state[p] \in Outcomes
Born(p)    == state[p] # "unborn"

Fn(kind, p, n) == [kind |-> kind, of |-> p, pair |-> n]
User      == Fn("user", None, 0)
Identity  == Fn("identity", None, 0)
Thrower   == Fn("thrower", None, 0)

Job(kind, who, arg)  == [kind |-> kind, who |-> who, arg |-> arg]
Reaction(p, s, h, d) == [of |-> p, side |-> s, handler |-> h, cap |-> d]
IsReaction(i)        == jobs[i].kind = "reaction"
Current              == jobs[begun]

Init ==
    /\ state = [p \in Promises |-> "unborn"]
    /\ result = [p \in Promises |-> None]
    /\ fulfillReactions = [p \in Promises |-> <<>>]
    /\ rejectReactions = [p \in Promises |-> <<>>]
    /\ reactions = <<>> /\ freed = {}
    /\ pairs = [p \in Promises |-> 0]
    /\ alreadyResolved = {} /\ held = {}
    /\ jobs = <<>> /\ begun = 0
    /\ mode = "program"
    /\ follows = [p \in Promises |-> None]

-----------------------------------------------------------------------------
(* Settling *)

Enqueue(new) == jobs' = jobs \o new

\* fault: the list is walked from its end
TriggeredBackwards(list, v) ==
    [i \in DOMAIN list |-> Job("reaction", list[Len(list) + 1 - i], v)]
\* EnqueuePromiseReactionTask for each reaction of a list
Triggered(list, v) == [i \in DOMAIN list |-> Job("reaction", list[i], v)]

\* fault: step 4 clears the list that step 5 is about
FulfillKeepsList(p, v) ==
    /\ state' = [state EXCEPT ![p] = "fulfilled"]
    /\ result' = [result EXCEPT ![p] = v]
    /\ rejectReactions' = [rejectReactions EXCEPT ![p] = <<>>]
    /\ Enqueue(Triggered(fulfillReactions[p], v))
    /\ UNCHANGED <<fulfillReactions, follows>>

FulfillPromise(p, v) ==
    /\ state' = [state EXCEPT ![p] = "fulfilled"]
    /\ result' = [result EXCEPT ![p] = v]
    /\ fulfillReactions' = [fulfillReactions EXCEPT ![p] = <<>>]
    /\ Enqueue(Triggered(fulfillReactions[p], v))
    /\ UNCHANGED <<rejectReactions, follows>>

\* clears fulfillReactions twice, and rejectReactions never
RejectPromise(p, v) ==
    /\ state' = [state EXCEPT ![p] = "rejected"]
    /\ result' = [result EXCEPT ![p] = v]
    /\ fulfillReactions' = [fulfillReactions EXCEPT ![p] = <<>>]
    /\ Enqueue(Triggered(rejectReactions[p], v))
    /\ UNCHANGED <<rejectReactions, follows>>

\* fault: the thenable is stored as the result before its then is called
FollowStored(p, v) ==
    /\ follows' = [follows EXCEPT ![p] = v]
    /\ state' = [state EXCEPT ![p] = "pending"]
    /\ result' = [result EXCEPT ![p] = v]
    /\ Enqueue(<<Job("thenable", p, v)>>)
    /\ UNCHANGED <<fulfillReactions, rejectReactions>>

\* resolved with an object whose then is callable.  A then that throws when
\* it is read leaves the promise as it is, without a job
FollowThenable(p, v) ==
    /\ follows' = [follows EXCEPT ![p] = v]
    /\ state' = [state EXCEPT ![p] = "pending"]
    /\ \/ Enqueue(<<Job("thenable", p, v)>>)
       \/ v = Thenable /\ UNCHANGED jobs
    /\ UNCHANGED <<result, fulfillReactions, rejectReactions>>

Unsettling == UNCHANGED <<state, result, fulfillReactions, rejectReactions, jobs, follows>>

\* fault: resolve and reject have a flag each, and only one is set
OnlyOnceEach(p, n, Effect) ==
    IF <<p, n>> \in alreadyResolved
    THEN Unsettling /\ UNCHANGED alreadyResolved
    ELSE Effect /\ alreadyResolved' \in {alreadyResolved, alreadyResolved \cup {<<p, n>>}}

\* the shared flag of a pair of resolving functions
OnlyOnce(p, n, Effect) ==
    IF <<p, n>> \in alreadyResolved
    THEN Unsettling /\ UNCHANGED alreadyResolved
    ELSE Effect /\ alreadyResolved' = alreadyResolved \cup {<<p, n>>}

\* the functions of CreateResolvingFunctions
Resolve(p, n, v) ==
    OnlyOnce(p, n,
        \/ v = p /\ RejectPromise(p, TypeError)
        \/ v \in Plain /\ FulfillPromise(p, v)
        \/ v \in Objects \ {p} /\ FollowThenable(p, v))
Reject(p, n, v) == OnlyOnce(p, n, RejectPromise(p, v))

-----------------------------------------------------------------------------
(* Promise.prototype.then with the capability of the promise d, or None when *)
(* nobody sees the derived promise                                           *)

\* fault: a promise that is already rejected is left alone
ThenIgnoresRejected(q, onFulfilled, onRejected, d) ==
    LET r == Len(reactions) + 1
    IN  \/ /\ state[q] = "pending"
           /\ reactions' = reactions \o <<Reaction(q, "fulfilled", onFulfilled, d),
                                         Reaction(q, "rejected", onRejected, d)>>
           /\ fulfillReactions' = [fulfillReactions EXCEPT ![q] = Append(@, r)]
           /\ rejectReactions' = [rejectReactions EXCEPT ![q] = Append(@, r + 1)]
           /\ UNCHANGED jobs
        \/ /\ state[q] = "fulfilled"
           /\ reactions' = Append(reactions, Reaction(q, "fulfilled", onFulfilled, d))
           /\ Enqueue(<<Job("reaction", r, result[q])>>)
           /\ UNCHANGED <<fulfillReactions, rejectReactions>>
        \/ /\ state[q] = "rejected"
           /\ UNCHANGED <<reactions, jobs, fulfillReactions, rejectReactions>>

PerformThen(q, onFulfilled, onRejected, d) ==
    LET r == Len(reactions) + 1
    IN  \/ /\ state[q] = "pending"
           /\ reactions' = reactions \o <<Reaction(q, "fulfilled", onFulfilled, d),
                                         Reaction(q, "rejected", onRejected, d)>>
           /\ fulfillReactions' = [fulfillReactions EXCEPT ![q] = Append(@, r)]
           /\ rejectReactions' = [rejectReactions EXCEPT ![q] = Append(@, r + 1)]
           /\ UNCHANGED jobs
        \/ /\ state[q] = "fulfilled"
           /\ reactions' = Append(reactions, Reaction(q, "fulfilled", onFulfilled, d))
           /\ Enqueue(<<Job("reaction", r, result[q])>>)
           /\ UNCHANGED <<fulfillReactions, rejectReactions>>
        \/ /\ state[q] = "rejected"
           /\ reactions' = Append(reactions, Reaction(q, "rejected", onRejected, d))
           /\ Enqueue(<<Job("reaction", r, result[q])>>)
           /\ UNCHANGED <<fulfillReactions, rejectReactions>>

-----------------------------------------------------------------------------
(* The program, in the script, in a timer callback or in a handler.  An      *)
(* executor is the program code that follows its new Promise.                *)

InProgram == mode # "idle"

\* the allocator's choice of a cell
Fresh == CHOOSE p \in Promises : ~Born(p)
Room  == \E p \in Promises : ~Born(p)

Waiting(p) == \E i \in begun + 1 .. Len(jobs) : jobs[i] = Job("thenable", p, follows[p])
Unstarted  == {p \in Promises : Waiting(p)}

\* bounds: a promise that starts to follow needs a pair and reactions
Affords(p, v) ==
    \/ v \in Plain
    \/ /\ pairs[p] < MaxPairs
       /\ Len(reactions) + 2 * (Cardinality(Unstarted) + 1) <= MaxReactions

Known == Plain \cup {p \in Promises : Born(p)} \cup {Thenable}

\* new Promise(executor)
NewPromise ==
    /\ InProgram /\ Room
    /\ state' = [state EXCEPT ![Fresh] = "pending"]
    /\ pairs' = [pairs EXCEPT ![Fresh] = 1]
    /\ held' = held \cup {<<Fresh, 1>>}
    /\ UNCHANGED <<result, fulfillReactions, rejectReactions, reactions, freed,
                   alreadyResolved, jobs, begun, mode, follows>>

\* Promise.resolve(v): always a new promise, its constructor field is never set
StaticResolve(v) ==
    /\ InProgram /\ Room /\ Affords(Fresh, v)
    /\ Resolve(Fresh, 1, v)
    /\ pairs' = [pairs EXCEPT ![Fresh] = 1]
    /\ UNCHANGED <<reactions, freed, held, begun, mode>>

\* Promise.reject(v)
StaticReject(v) ==
    /\ InProgram /\ Room
    /\ Reject(Fresh, 1, v)
    /\ pairs' = [pairs EXCEPT ![Fresh] = 1]
    /\ UNCHANGED <<reactions, freed, held, begun, mode>>

\* q.then(f, g) and q.catch(g)
Then(q, f, g) ==
    /\ InProgram /\ Room /\ Born(q)
    /\ Len(reactions) + 2 * (Cardinality(Unstarted) + 1) <= MaxReactions
    /\ PerformThen(q, f, g, Fresh)
    /\ state' = [state EXCEPT ![Fresh] = "pending"]
    /\ pairs' = [pairs EXCEPT ![Fresh] = 1]
    /\ UNCHANGED <<result, freed, alreadyResolved, held, begun, mode, follows>>

CallResolve(p, n, v) ==
    /\ InProgram /\ <<p, n>> \in held /\ Affords(p, v)
    /\ Resolve(p, n, v)
    /\ UNCHANGED <<reactions, freed, pairs, held, begun, mode>>

CallReject(p, n, v) ==
    /\ InProgram /\ <<p, n>> \in held
    /\ Reject(p, n, v)
    /\ UNCHANGED <<reactions, freed, pairs, held, begun, mode>>

\* a timer callback is called, and returns; the script returns
CallbackBegins == mode = "idle" /\ mode' = "program" /\ UNCHANGED <<state, result,
    fulfillReactions, rejectReactions, reactions, freed, pairs, alreadyResolved,
    held, jobs, begun, follows>>
ProgramReturns == mode = "program" /\ mode' = "idle" /\ UNCHANGED <<state, result,
    fulfillReactions, rejectReactions, reactions, freed, pairs, alreadyResolved,
    held, jobs, begun, follows>>

-----------------------------------------------------------------------------
(* Jobs *)

\* invoke_task takes the next task of the loop
Begin == mode = "idle" /\ begun < Len(jobs) /\ begun' = begun + 1
NextJob == jobs[begun + 1]

\* after the task: repeats is not initialised, so the destructor may not run
Finish(r) == freed' \in {freed, freed \cup {r}}

\* PromiseReactionTask whose handler is the runtime's own
ReactionTask(r) ==
    /\ Begin /\ NextJob.kind = "reaction" /\ NextJob.who = r
    /\ LET h == reactions[r].handler
           d == reactions[r].cap
           v == NextJob.arg
       IN  \/ h = Identity /\ Resolve(d, 1, v)
           \/ h = Thrower /\ Reject(d, 1, v)
           \/ h.kind = "resolve" /\ Resolve(h.of, h.pair, v)
           \/ h.kind = "reject" /\ Reject(h.of, h.pair, v)
    /\ Finish(r)
    /\ UNCHANGED <<reactions, pairs, held, mode>>

\* fault: the record is freed before its handler is called
HandlerBeginsFreed(r) ==
    /\ Begin /\ NextJob.kind = "reaction" /\ NextJob.who = r
    /\ reactions[r].handler = User
    /\ mode' = "handler" /\ freed' = freed \cup {r}
    /\ UNCHANGED <<state, result, fulfillReactions, rejectReactions, reactions,
                   pairs, alreadyResolved, held, jobs, follows>>

\* PromiseReactionTask calls a handler of the program
HandlerBegins(r) ==
    /\ Begin /\ NextJob.kind = "reaction" /\ NextJob.who = r
    /\ reactions[r].handler = User
    /\ mode' = "handler"
    /\ UNCHANGED <<state, result, fulfillReactions, rejectReactions, reactions, freed,
                   pairs, alreadyResolved, held, jobs, follows>>

InHandler(kind) == mode = "handler" /\ Current.kind = kind /\ mode' = "idle"

HandlerReturns(v) ==
    /\ InHandler("reaction")
    /\ LET r == Current.who
           d == reactions[r].cap
       IN  Affords(d, v) /\ Resolve(d, 1, v) /\ Finish(r)
    /\ UNCHANGED <<reactions, pairs, held, begun>>

HandlerThrows(v) ==
    /\ InHandler("reaction")
    /\ Reject(reactions[Current.who].cap, 1, v)
    /\ Finish(Current.who)
    /\ UNCHANGED <<reactions, pairs, held, begun>>

\* fault: the second argument of then is the resolve function again
ThenableTaskTwice(p, q) ==
    /\ Begin /\ NextJob = Job("thenable", p, q)
    /\ LET n == pairs[p] + 1
       IN  /\ pairs' = [pairs EXCEPT ![p] = n]
           /\ PerformThen(q, Fn("resolve", p, n), Fn("resolve", p, n), None)
    /\ UNCHANGED <<state, result, freed, alreadyResolved, held, mode, follows>>

\* PromiseResolveThenableTask: p follows the promise q, through a new pair
ThenableTask(p, q) ==
    /\ Begin /\ NextJob = Job("thenable", p, q)
    /\ LET n == pairs[p] + 1
       IN  /\ pairs' = [pairs EXCEPT ![p] = n]
           /\ PerformThen(q, Fn("resolve", p, n), Fn("reject", p, n), None)
    /\ UNCHANGED <<state, result, freed, alreadyResolved, held, mode, follows>>

\* the same for an object of the program's own: its then is called
ForeignThen(p) ==
    /\ Begin /\ NextJob = Job("thenable", p, Thenable)
    /\ pairs' = [pairs EXCEPT ![p] = @ + 1]
    /\ held' = held \cup {<<p, pairs[p] + 1>>}
    /\ follows' = [follows EXCEPT ![p] = None]
    /\ mode' = "handler"
    /\ UNCHANGED <<state, result, fulfillReactions, rejectReactions, reactions, freed,
                   alreadyResolved, jobs>>

ThenReturns ==
    /\ InHandler("thenable")
    /\ UNCHANGED <<state, result, fulfillReactions, rejectReactions, reactions, freed,
                   pairs, alreadyResolved, held, jobs, begun, follows>>

\* it throws: the job rejects with the pair it made
ThenThrows(v) ==
    /\ InHandler("thenable")
    /\ Reject(Current.who, pairs[Current.who], v)
    /\ UNCHANGED <<reactions, freed, pairs, held, begun>>

-----------------------------------------------------------------------------
Script ==
    \/ NewPromise \/ CallbackBegins \/ ProgramReturns
    \/ \E v \in Known : StaticResolve(v)
    \/ \E v \in Values : StaticReject(v)
    \/ \E q \in Promises, f \in {User, Identity}, g \in {User, Thrower} : Then(q, f, g)
    \/ \E p \in Promises, n \in 1..MaxPairs, v \in Known : CallResolve(p, n, v)
    \/ \E p \in Promises, n \in 1..MaxPairs, v \in Values : CallReject(p, n, v)

Returns ==
    \/ \E v \in Known : HandlerReturns(v)
    \/ \E v \in Values : HandlerThrows(v) \/ ThenThrows(v)
    \/ ThenReturns

RunTask ==
    \/ \E r \in DOMAIN reactions : ReactionTask(r) \/ HandlerBegins(r)
    \/ \E p, q \in Promises : ThenableTask(p, q)
    \/ \E p \in Promises : ForeignThen(p)

Next == Script \/ Returns \/ RunTask

\* The loop takes tasks in order, and each has finitely many before it; nothing
\* is assumed of the program.
Spec == Init /\ [][Next]_vars /\ SF_vars(RunTask)

-----------------------------------------------------------------------------
(* Properties *)

\* Type correctness of every variable.
TypeOK ==
    /\ state \in [Promises -> Outcomes \cup {"unborn", "pending"}]
    /\ result \in [Promises -> Plain \cup {None}]
    /\ \A p \in Promises :
          /\ fulfillReactions[p] \in Seq(DOMAIN reactions)
          /\ rejectReactions[p] \in Seq(DOMAIN reactions)
    /\ freed \subseteq DOMAIN reactions
    /\ pairs \in [Promises -> Nat]
    /\ alreadyResolved \subseteq Promises \X Nat /\ held \subseteq Promises \X Nat
    /\ begun \in 0..Len(jobs)
    /\ mode \in {"idle", "program", "handler"}
    /\ follows \in [Promises -> Objects \cup {None}]

\* The pairs that can still decide over a promise
Powers(p) == {n \in 1..pairs[p] : <<p, n>> \notin alreadyResolved}

\* CreateResolvingFunctions makes another pair for every thenable a promise is
\* resolved with.  Still at most one of them can decide: none once the promise
\* is settled, none while a job waits to make the next one, and a promise that
\* nobody can settle any more has such a job, or its thenable's then could not
\* be read.
OneResolver ==
    \A p \in Promises :
        /\ \A m, n \in Powers(p) : m = n
        /\ Settled(p) => Powers(p) = {}
        /\ Waiting(p) => state[p] = "pending" /\ Powers(p) = {}
        /\ state[p] = "pending" /\ Powers(p) = {} => Waiting(p) \/ follows[p] = Thenable

ReactionJobs == {i \in DOMAIN jobs : IsReaction(i)}
Of(i)        == reactions[jobs[i].who].of

\* EnqueuePromiseReactionTask is called for exactly the reactions of the side
\* the promise settled on, once for each, in the order of the then calls, and
\* with the promise's result: through the lists for a then that came before
\* the promise was settled, from then itself afterwards.
ReactionsInOrder ==
    /\ \A r \in DOMAIN reactions :
          state[reactions[r].of] = reactions[r].side
              <=> \E i \in ReactionJobs : jobs[i].who = r
    /\ \A i \in ReactionJobs :
          /\ jobs[i].arg = result[Of(i)]
          /\ \A j \in ReactionJobs : i < j /\ Of(i) = Of(j) => jobs[i].who < jobs[j].who

Elements(list) == {list[i] : i \in DOMAIN list}

\* What a collection reads while reactions move from the lists to the jobs and
\* are freed there: _ejs_promise_specop_scan meets no freed record in a promise
\* that is not rejected, and a job that is still to run finds its reaction.
ScanSafe ==
    /\ \A p \in Promises : state[p] # "rejected" =>
          Elements(fulfillReactions[p]) \cup Elements(rejectReactions[p]) \subseteq
              DOMAIN reactions \ freed
    /\ \A i \in ReactionJobs :
          i > begun \/ (i = begun /\ mode = "handler") => jobs[i].who \notin freed

\* The comment of RejectPromise's step 5: [[PromiseRejectReactions]] is set to
\* undefined, so that no list of a rejected promise leads to a record that its
\* job has freed.
NoFreedReaction ==
    \A p \in Promises :
        (Elements(fulfillReactions[p]) \cup Elements(rejectReactions[p])) \cap freed = {}

\* what Future sees of a promise
Cells ==
    [p \in Promises |->
        IF Settled(p) THEN [status |-> state[p], value |-> result[p]]
        ELSE IF ~Born(p) THEN [status |-> "none", value |-> None]
        ELSE IF follows[p] # None THEN [status |-> "follows", value |-> follows[p]]
        ELSE [status |-> "open", value |-> None]]

Abstract == INSTANCE Future WITH Reasons <- Plain, cell <- Cells

\* Whatever the interleaving of program, handlers and jobs, a promise settles
\* once, and one that was resolved with another promise settles as that one did
\* (resolve, reject, PromiseResolveThenableTask and PromiseReactionTask).
ImplementsFuture == Abstract!Spec

\* If every callback returns, a promise that was resolved with another promise
\* settles once that one has: no step of the chain of jobs is forgotten.
AdoptionCompletes ==
    []<>(mode = "idle") =>
        \A p \in Promises :
            (follows[p] \in Promises /\ Settled(follows[p])) ~> Settled(p)

-----------------------------------------------------------------------------
(* The inductive invariant *)

Handlers ==
    [kind : {"user", "identity", "thrower", "resolve", "reject"},
     of : Promises \cup {None}, pair : Nat]

ReactionRecords ==
    [of : Promises, side : Outcomes, handler : Handlers, cap : Promises \cup {None}]

JobRecords ==
    [kind : {"reaction"}, who : Nat, arg : Plain]
        \cup [kind : {"thenable"}, who : Promises, arg : Objects]

Records ==
    /\ state \in [Promises -> Outcomes \cup {"unborn", "pending"}]
    /\ result \in [Promises -> Plain \cup {None}]
    /\ reactions \in Seq(ReactionRecords)
    /\ fulfillReactions \in [Promises -> Seq(Nat)]
    /\ rejectReactions \in [Promises -> Seq(Nat)]
    /\ jobs \in Seq(JobRecords)

Resolvers ==
    /\ pairs \in [Promises -> Nat]
    /\ alreadyResolved \subseteq Promises \X Nat /\ held \subseteq Promises \X Nat
    /\ follows \in [Promises -> Objects \cup {None}]

Loop ==
    /\ begun \in 0..Len(jobs)
    /\ mode \in {"idle", "program", "handler"}

ListOf(p, s) == IF s = "fulfilled" THEN fulfillReactions[p] ELSE rejectReactions[p]
IsOf(r, p, s) == r \in DOMAIN reactions /\ reactions[r].of = p /\ reactions[r].side = s

\* An unsettled promise has exactly its reactions in its lists, in order; a settled
\* one has none of the side it settled on in the fulfill list.
Lists ==
    \A p \in Promises :
        /\ \A s \in Outcomes :
              /\ \A i \in DOMAIN ListOf(p, s) : IsOf(ListOf(p, s)[i], p, s)
              /\ ~Settled(p) =>
                    /\ \A i, j \in DOMAIN ListOf(p, s) : i < j => ListOf(p, s)[i] < ListOf(p, s)[j]
                    /\ \A r \in DOMAIN reactions :
                          IsOf(r, p, s) => \E i \in DOMAIN ListOf(p, s) : ListOf(p, s)[i] = r
        /\ Settled(p) => fulfillReactions[p] = <<>> /\ result[p] # None
        /\ state[p] = "unborn" => \A r \in DOMAIN reactions : reactions[r].of # p

\* The reactions of settled promises have had their jobs queued, and no others.
Queued ==
    /\ \A i \in ReactionJobs :
          /\ jobs[i].who \in DOMAIN reactions
          /\ state[Of(i)] = reactions[jobs[i].who].side /\ jobs[i].arg = result[Of(i)]
          /\ \A j \in ReactionJobs : i < j /\ Of(i) = Of(j) => jobs[i].who < jobs[j].who
    /\ \A r \in DOMAIN reactions :
          state[reactions[r].of] = reactions[r].side
              => \E i \in ReactionJobs : jobs[i].who = r

\* the pair that is left of a promise has been called
Called(p) == <<p, pairs[p]>> \in alreadyResolved

\* Only the last pair can be uncalled.  If it is, and the promise follows another,
\* it is one that the runtime made for the purpose.
LastPair ==
    /\ \A c \in alreadyResolved \cup held : c[2] \in 1..pairs[c[1]]
    /\ \A p \in Promises :
          /\ pairs[p] = 0 <=> state[p] = "unborn"
          /\ \A n \in 1..pairs[p] : n < pairs[p] => <<p, n>> \in alreadyResolved
          /\ Settled(p) => Called(p)
          /\ state[p] = "unborn" => follows[p] = None
          /\ follows[p] # p
          /\ follows[p] \in Promises => Born(follows[p])
          /\ Born(p) /\ ~Called(p) /\ follows[p] # None =>
                follows[p] \in Promises /\ pairs[p] >= 2 /\ <<p, pairs[p]>> \notin held

Thenables == {i \in begun + 1 .. Len(jobs) : jobs[i].kind = "thenable"}

\* Who waits for a job to make the next pair.
WaitingJobs ==
    /\ \A i \in Thenables :
          /\ state[jobs[i].who] = "pending" /\ Called(jobs[i].who)
          /\ follows[jobs[i].who] = jobs[i].arg
          /\ \A j \in Thenables : jobs[i].who = jobs[j].who => i = j
    /\ \A p \in Promises :
          state[p] = "pending" /\ Called(p) =>
              (\E i \in Thenables : jobs[i].who = p) \/ follows[p] = Thenable

\* What a reaction will call: the pair of the derived promise, or a pair of the
\* promise that follows this one, and of no other.
Fit(x) ==
    \/ /\ x.handler \in {User} \cup (IF x.side = "fulfilled" THEN {Identity} ELSE {Thrower})
       /\ x.cap \in Promises /\ Born(x.cap) /\ <<x.cap, 1>> \notin held
    \/ /\ x.handler.kind = IF x.side = "fulfilled" THEN "resolve" ELSE "reject"
       /\ x.handler.of \in Promises /\ x.handler.pair \in 2..pairs[x.handler.of]
       /\ <<x.handler.of, x.handler.pair>> \notin held
       /\ <<x.handler.of, x.handler.pair>> \notin alreadyResolved => follows[x.handler.of] = x.of

HandlersFit == \A r \in DOMAIN reactions : Fit(reactions[r])

\* job i has run to its end
Done(i) == i < begun \/ (i = begun /\ mode # "handler")

\* A record is freed after its job only.
FreedAfter == \A r \in freed : \E i \in ReactionJobs : jobs[i].who = r /\ Done(i)

\* A job that has called the program is where it was, and a thenable that is being
\* called has the last pair.
InCall ==
    mode = "handler" =>
        /\ begun > 0
        /\ Current.kind = "reaction" => reactions[Current.who].handler = User
        /\ Current.kind = "thenable" => <<Current.who, pairs[Current.who]>> \in held

\* Whichever of the script, a handler and the loop takes the next step, lists, jobs,
\* pairs, handlers and freed records fit together: TypeOK, OneResolver,
\* ReactionsInOrder, ScanSafe and ImplementsFuture follow from it.
PInv ==
    /\ Records /\ Resolvers /\ Loop
    /\ Lists /\ Queued /\ LastPair /\ WaitingJobs /\ HandlersFit
    /\ FreedAfter /\ InCall

=============================================================================
