----------------------------- MODULE Generator -----------------------------
(***************************************************************************)
(* Generators as coroutines on machine stacks of their own                 *)
(* (ejs-generator.c), and what the collector knows about those stacks: the *)
(* array generators[] of the running ones, with the extent of the stack    *)
(* suspended behind each, and the chains of gc-frame records               *)
(* (ejs-gc-mark.c) that compiled functions link and unlink (compiler.ts)   *)
(* and that exceptions unwind.                                             *)
(*                                                                         *)
(* A chain is the set of the records it links; a collection may start in   *)
(* every state.                                                            *)
(***************************************************************************)
EXTENDS Naturals, Sequences

CONSTANTS
    Generators,     \* generator objects
    Main,           \* the stack of the program
    MaxFrames,      \* bound: functions active on one stack
    MAX_GENERATORS

ASSUME StackBounds == MaxFrames \in Nat /\ MAX_GENERATORS \in Nat
ASSUME MainIsNone  == Main \notin Generators

Stacks  == Generators \cup {Main}
Records == Stacks \X (1..MaxFrames)

VARIABLES
    cur,        \* the stack the machine runs on
    frames,     \* per stack, the active functions: has it a record, what does its prev reach
    head,       \* gc_frame_head, the chain of the running stack
    raising,    \* an exception is unwinding the running stack
    registry,   \* _ejs_generator_registry: the generators not yet finalized
    generators, \* generators[0 .. generator_count)
    gen,        \* the fields of the generators
    status      \* "running"; "aborted"; "undefined" when a stack has been corrupted

vars == <<cur, frames, head, raising, registry, generators, gen, status>>

NewGenerator ==
    [started |-> FALSE, completed |-> FALSE, throwing |-> FALSE, returning |-> FALSE,
     context |-> "trampoline", caller |-> Main, stackTop |-> 0,
     parked |-> {}, callerHead |-> {}]

Init ==
    /\ cur = Main /\ frames = [s \in Stacks |-> <<>>] /\ head = {}
    /\ raising = FALSE
    /\ registry = {} /\ generators = <<>>
    /\ gen = [g \in Generators |-> NewGenerator]
    /\ status = "running"

Depth(s)  == Len(frames[s])
Active(g) == \E i \in DOMAIN generators : generators[i] = g
Running   == status = "running"

\* The chain as function k of stack s sees it: its own record, and what was
\* linked when it was called.
ChainAt(s, k) ==
    IF k = 0 THEN {}
    ELSE frames[s][k].prev \cup (IF frames[s][k].linked THEN {<<s, k>>} ELSE {})

LiveRecords ==
    {r \in Records : r[2] <= Depth(r[1]) /\ frames[r[1]][r[2]].linked}

-----------------------------------------------------------------------------
(* Compiled functions *)

\* A function links a record when one of its values lives across a safepoint.
Call(linked) ==
    /\ Running /\ ~raising /\ Depth(cur) < MaxFrames
    /\ frames' = [frames EXCEPT ![cur] = Append(@, [linked |-> linked, prev |-> head])]
    /\ head' = IF linked THEN head \cup {<<cur, Depth(cur) + 1>>} ELSE head
    /\ UNCHANGED <<cur, raising, registry, generators, gen, status>>

Return ==
    /\ Running /\ ~raising /\ Depth(cur) > 0
    /\ frames' = [frames EXCEPT ![cur] = SubSeq(@, 1, Depth(cur) - 1)]
    /\ head' = IF frames[cur][Depth(cur)].linked THEN frames[cur][Depth(cur)].prev ELSE head
    /\ UNCHANGED <<cur, raising, registry, generators, gen, status>>

\* Also throw() on a generator that has not started or has completed.
Throw ==
    /\ Running /\ ~raising
    /\ raising' = TRUE
    /\ UNCHANGED <<cur, frames, head, registry, generators, gen, status>>

UnwindTo(k) ==
    /\ Running /\ raising /\ k \in 0..Depth(cur)
    /\ raising' = FALSE
    /\ frames' = [frames EXCEPT ![cur] = SubSeq(@, 1, k)]
    /\ UNCHANGED <<cur, registry, generators, gen>>

\* _ejs_invoke_closure_catch, called by a native function that function k called
NativeCatch(k) ==
    /\ UnwindTo(k) /\ (k = 0 => cur = Main)
    /\ head' = ChainAt(cur, k)
    /\ UNCHANGED status

\* A catch block of function k links the record of its function again, if there
\* is one.  If not, the head stays: on a record that is gone, unless function k
\* had called none that has a record.
EmittedCatch(k) ==
    /\ UnwindTo(k) /\ k > 0
    /\ head' = IF frames[cur][k].linked THEN ChainAt(cur, k) ELSE head
    /\ status' = IF head' = ChainAt(cur, k) THEN status ELSE "undefined"

-----------------------------------------------------------------------------
(* Stack switches *)

New(g) ==
    /\ Running /\ ~raising
    /\ g \notin registry /\ gen[g] = NewGenerator
    /\ registry' = registry \cup {g}
    /\ UNCHANGED <<cur, frames, head, raising, generators, gen, status>>

\* _ejs_gc_pop_generator, and the switch to the stack that resumed the generator;
\* f is what the generator's fields become before it
Pop(chain, f) ==
    LET g == generators[Len(generators)] IN
    /\ generators' = SubSeq(generators, 1, Len(generators) - 1)
    /\ gen' = [gen EXCEPT ![g] = [f EXCEPT !.parked = chain, !.callerHead = {}]]
    /\ head' = gen[g].callerHead
    /\ cur' = gen[cur].caller

\* _ejs_gc_push_generator
Push(g, f) ==
    /\ generators' = Append(generators, g)
    /\ gen' = [gen EXCEPT ![g] = [f EXCEPT !.callerHead = head, !.parked = {}]]
    /\ head' = gen[g].parked

\* fault: one more than the array holds
NestedBeyond == Len(generators) > MAX_GENERATORS
Nested == Len(generators) >= MAX_GENERATORS

\* The generator is resumed: at its yield, where an order to throw or to return
\* is obeyed, or on the trampoline, where no order is looked at.
Land(g, f) ==
    IF f.context = "trampoline"
    THEN Push(g, f) /\ raising' = FALSE
    ELSE /\ Push(g, [f EXCEPT !.throwing = FALSE, !.returning = f.returning /\ f.throwing])
         /\ raising' = (f.throwing \/ f.returning)

\* fault: the extent of the caller's stack is that of the first resume
SwapKeepsTop(g, f) ==
    /\ ~Active(g) /\ ~Nested
    /\ Land(g, [f EXCEPT !.caller = cur,
                         !.stackTop = IF f.context = "yield" THEN @ ELSE Depth(cur)])
    /\ cur' = g /\ UNCHANGED <<frames, status>>
\* swapcontext to a generator that is not running
Swap(g, f) ==
    /\ ~Active(g) /\ ~Nested
    /\ Land(g, [f EXCEPT !.caller = cur, !.stackTop = Depth(cur)])
    /\ cur' = g /\ UNCHANGED <<frames, status>>

\* swapcontext to one that is: its context is that of its last yield, or the
\* trampoline, and what the stack holds now is overwritten.
Reenter(g, f) ==
    /\ Active(g) /\ ~Nested
    /\ Land(g, [f EXCEPT !.caller = cur, !.stackTop = Depth(cur)])
    /\ cur' = g /\ status' = "undefined"
    /\ UNCHANGED frames

\* The array of running generators is full.
Abort ==
    /\ Nested
    /\ status' = "aborted"
    /\ UNCHANGED <<cur, frames, head, raising, generators, gen>>

Resume(g, f) ==
    /\ (Swap(g, f) \/ Reenter(g, f) \/ Abort)
    /\ UNCHANGED registry

Callable(g) == Running /\ ~raising /\ g \in registry

\* Generator.prototype.next; on a completed generator it has no effect
Advance(g) ==
    /\ Callable(g) /\ ~gen[g].completed
    /\ Resume(g, [gen[g] EXCEPT !.started = TRUE])

\* fault: a generator that has not started is resumed too
ThrowIntoAny(g) ==
    /\ Callable(g) /\ ~gen[g].completed
    /\ Resume(g, [gen[g] EXCEPT !.throwing = TRUE])
\* Generator.prototype.throw
ThrowInto(g) ==
    /\ Callable(g) /\ gen[g].started /\ ~gen[g].completed
    /\ Resume(g, [gen[g] EXCEPT !.throwing = TRUE])

\* Generator.prototype.return
ReturnInto(g) ==
    /\ Callable(g) /\ gen[g].started /\ ~gen[g].completed
    /\ Resume(g, [gen[g] EXCEPT !.returning = TRUE])

ReturnUnstarted(g) ==
    /\ Callable(g) /\ ~gen[g].started
    /\ gen' = [gen EXCEPT ![g].completed = TRUE]
    /\ UNCHANGED <<cur, frames, head, raising, registry, generators, status>>

\* The body yields: _ejs_generator_yield up to the switch
Yield ==
    /\ Running /\ ~raising /\ cur # Main
    /\ Pop(head, [gen[cur] EXCEPT !.context = "yield"])
    /\ UNCHANGED <<frames, raising, registry, status>>

\* fault: the exception that ends the body is caught without restoring the head
CompleteKeepsHead ==
    /\ Running /\ cur # Main /\ (Depth(cur) = 0 \/ raising)
    /\ frames' = [frames EXCEPT ![cur] = <<>>]
    /\ Pop(head, [gen[cur] EXCEPT !.completed = TRUE])
    /\ UNCHANGED <<raising, registry, status>>
\* The body returns or throws, in which case the exception is caught and thrown
\* again on the stack that resumed the generator: _ejs_generator_start after the
\* body, _ejs_generator_resume_result
Complete ==
    /\ Running /\ cur # Main /\ (Depth(cur) = 0 \/ raising)
    /\ frames' = [frames EXCEPT ![cur] = <<>>]
    /\ Pop({}, [gen[cur] EXCEPT !.completed = TRUE])
    /\ UNCHANGED <<raising, registry, status>>

\* A collection finds the generator unreachable.  Those in generators[] are
\* roots (mark_generator_stacks).
Finalize(g) ==
    /\ Running /\ g \in registry /\ ~Active(g)
    /\ registry' = registry \ {g}
    /\ frames' = [frames EXCEPT ![g] = <<>>]
    /\ gen' = [gen EXCEPT ![g] = [NewGenerator EXCEPT !.completed = TRUE]]
    /\ UNCHANGED <<cur, head, raising, generators, status>>

Next ==
    \/ \E l \in BOOLEAN : Call(l)
    \/ Return \/ Throw \/ Yield \/ Complete
    \/ \E k \in 0..MaxFrames : NativeCatch(k) \/ EmittedCatch(k)
    \/ \E g \in Generators :
          \/ New(g) \/ Advance(g) \/ ThrowInto(g) \/ ReturnInto(g)
          \/ ReturnUnstarted(g) \/ Finalize(g)

Spec == Init /\ [][Next]_vars

-----------------------------------------------------------------------------
(* Properties *)

\* Type correctness of every variable; generators[] stays within its array.
GenTypeOK ==
    /\ cur \in Stacks
    /\ frames \in [Stacks -> Seq([linked : BOOLEAN, prev : SUBSET Records])]
    /\ head \in SUBSET Records /\ raising \in BOOLEAN
    /\ registry \in SUBSET Generators
    /\ generators \in Seq(Generators) /\ Len(generators) <= MAX_GENERATORS
    /\ gen \in [Generators ->
                   [started : BOOLEAN, completed : BOOLEAN, throwing : BOOLEAN,
                    returning : BOOLEAN, context : {"trampoline", "yield"},
                    caller : Stacks, stackTop : Nat,
                    parked : SUBSET Records, callerHead : SUBSET Records]]
    /\ status \in {"running", "aborted", "undefined"}

\* What walk_gc_frames visits, wherever a collection starts: the chains of the
\* running stack, of the generators in the registry, of the callers of those in
\* generators[].  They are disjoint, and together they hold the record of every
\* function that has not returned, of every stack, and of no other.
FramesWalkedOnce ==
    status # "undefined" =>
        LET Parked(g) == gen[g].parked
            Caller(i) == gen[generators[i]].callerHead
        IN  /\ LiveRecords = head \cup (UNION {Parked(g) : g \in registry})
                                  \cup (UNION {Caller(i) : i \in DOMAIN generators})
            /\ \A g \in registry : Parked(g) \cap head = {}
            /\ \A i \in DOMAIN generators : Caller(i) \cap head = {}
            /\ \A g, h \in registry : g # h => Parked(g) \cap Parked(h) = {}
            /\ \A i, j \in DOMAIN generators : i # j => Caller(i) \cap Caller(j) = {}
            /\ \A g \in registry, i \in DOMAIN generators : Parked(g) \cap Caller(i) = {}

\* The stack behind the i-th running generator, as the conservative scan takes it.
Below(i) == IF i = 1 THEN Main ELSE generators[i - 1]

\* The array generators[] is what the machine will return through: its last entry
\* runs, each switches back to the one below, and the extent recorded for the
\* stack below covers all the functions suspended there.
ChainIsStack ==
    status # "undefined" =>
        /\ cur = Below(Len(generators) + 1)
        /\ \A i \in DOMAIN generators :
              /\ gen[generators[i]].caller = Below(i)
              /\ gen[generators[i]].stackTop = Depth(Below(i))
              /\ generators[i] \in registry

\* An order to throw or to return is obeyed by the switch that brings it and
\* never found by a later one; a generator that has completed has left its stack
\* for good.
OrdersObeyed ==
    status # "undefined" => \A g \in Generators :
        /\ ~gen[g].throwing /\ ~gen[g].returning
        /\ gen[g].completed => ~Active(g) /\ frames[g] = <<>>

-----------------------------------------------------------------------------
(* The inductive invariant *)

\* the records of the functions 1 .. k of stack s, which holds the functions f
Own(s, f, k) == {<<s, i>> : i \in {j \in 1..k : f[j].linked}}
Chain(s)     == Own(s, frames[s], Len(frames[s]))

PrevIsOwn ==
    \A s \in Stacks :
        /\ Depth(s) <= MaxFrames
        /\ \A k \in 1..Depth(s) : frames[s][k].prev = Own(s, frames[s], k - 1)

ChainsAreHome ==
    /\ head = Chain(cur)
    /\ \A g \in registry : gen[g].parked = IF Active(g) THEN {} ELSE Chain(g)
    /\ \A i \in DOMAIN generators : gen[generators[i]].callerHead = Chain(Below(i))

Lives ==
    /\ \A i, j \in DOMAIN generators : generators[i] = generators[j] => i = j
    /\ \A g \in Generators :
          /\ g \notin registry => frames[g] = <<>> /\ (gen[g] = NewGenerator \/ gen[g].completed)
          /\ ~gen[g].started \/ gen[g].completed => frames[g] = <<>> /\ ~Active(g)
          /\ gen[g].started /\ ~gen[g].completed => Active(g) \/ gen[g].context = "yield"

\* Why the chains are right at every switch: each lists what its own stack linked
\* and nothing else, is in the place where the next switch looks for it, and a
\* generator's flags tell where its context is.
GenInv ==
    /\ GenTypeOK
    /\ status # "undefined" => PrevIsOwn /\ ChainsAreHome /\ Lives /\ ChainIsStack /\ OrdersObeyed

\* ejs-gc-mark.c: records "stay mapped for exactly as long as they are linked
\* (returns unlink, catches re-link their own frame past unwound callees ...)".
LinkedIsMapped ==
    \A r \in head : r[2] <= Depth(r[1])

=============================================================================
