--------------------------- MODULE PromiseProofs ---------------------------
(***************************************************************************)
(* Promise for any number of promises, reactions, pairs and jobs: PInv is  *)
(* inductive, the safety properties follow, and Promise implements Future. *)
(***************************************************************************)
EXTENDS Promise, SequenceTheorems, TLAPS

-----------------------------------------------------------------------------
(* Sequences *)

\* What a concatenation is.
LEMMA Concat ==
  ASSUME NEW S, NEW s \in Seq(S), NEW t \in Seq(S)
  PROVE  /\ s \o t \in Seq(S) /\ Len(s \o t) = Len(s) + Len(t)
         /\ DOMAIN (s \o t) = 1..(Len(s) + Len(t))
         /\ DOMAIN s = 1..Len(s) /\ DOMAIN t = 1..Len(t)
         /\ Len(s) \in Nat /\ Len(t) \in Nat
         /\ \A i \in 1..Len(s) : (s \o t)[i] = s[i]
         /\ \A i \in 1..Len(t) : (s \o t)[Len(s) + i] = t[i]
  <1>1. s \o t \in Seq(S) /\ Len(s \o t) = Len(s) + Len(t)
    BY ConcatProperties
  <1>2. /\ \A i \in 1..Len(s) : (s \o t)[i] = s[i]
        /\ \A i \in 1..Len(t) : (s \o t)[Len(s) + i] = t[i]
    BY ConcatProperties
  <1> QED
    BY <1>1, <1>2

\* What Append adds.
LEMMA Appended ==
  ASSUME NEW S, NEW s \in Seq(S), NEW e \in S
  PROVE  /\ Append(s, e) \in Seq(S) /\ Len(Append(s, e)) = Len(s) + 1
         /\ DOMAIN Append(s, e) = 1..(Len(s) + 1)
         /\ DOMAIN s = 1..Len(s) /\ Len(s) \in Nat
         /\ \A i \in 1..Len(s) : Append(s, e)[i] = s[i]
         /\ Append(s, e)[Len(s) + 1] = e
  BY AppendProperties

-----------------------------------------------------------------------------
(* Values *)

\* What a promise is settled with is no object that could be followed.
LEMMA PlainValues ==
         /\ Plain \cap Objects = {} /\ TypeError \in Plain /\ Values \subseteq Plain
         /\ Thenable \notin Promises /\ None \notin Promises /\ None \notin Objects
         /\ None \notin Plain /\ None # Thenable
  BY Kinds DEF Plain, Objects

\* What an index of the jobs finds.
LEMMA JobTypes ==
  ASSUME Records
  PROVE  /\ Len(jobs) \in Nat /\ DOMAIN jobs = 1..Len(jobs)
         /\ \A i \in DOMAIN jobs :
               \/ jobs[i].kind = "reaction" /\ jobs[i].who \in Nat /\ jobs[i].arg \in Plain
               \/ jobs[i].kind = "thenable" /\ jobs[i].who \in Promises /\ jobs[i].arg \in Objects
         /\ Len(reactions) \in Nat /\ DOMAIN reactions = 1..Len(reactions)
         /\ \A r \in DOMAIN reactions :
               /\ reactions[r].of \in Promises /\ reactions[r].side \in Outcomes
               /\ reactions[r].cap \in Promises \cup {None}
               /\ reactions[r].handler \in Handlers
  <1>1. jobs \in Seq(JobRecords) /\ reactions \in Seq(ReactionRecords)
    BY DEF Records
  <1>2. \A i \in DOMAIN jobs : jobs[i] \in JobRecords
    BY <1>1
  <1>3. \A r \in DOMAIN reactions : reactions[r] \in ReactionRecords
    BY <1>1
  <1> QED
    BY <1>1, <1>2, <1>3 DEF JobRecords, ReactionRecords

\* The records in the lists of a promise.
LEMMA ListTypes ==
  ASSUME Records, NEW p \in Promises, NEW s \in Outcomes
  PROVE  /\ ListOf(p, s) \in Seq(Nat) /\ Len(ListOf(p, s)) \in Nat
         /\ DOMAIN ListOf(p, s) = 1..Len(ListOf(p, s))
         /\ \A i \in DOMAIN ListOf(p, s) : ListOf(p, s)[i] \in Nat
  <1>1. ListOf(p, s) \in Seq(Nat)
    BY DEF Records, ListOf
  <1> QED
    BY <1>1

-----------------------------------------------------------------------------
(* Reactions, lists and jobs *)

\* FulfillPromise and RejectPromise
Settles(p, s, v) ==
    /\ state' = [state EXCEPT ![p] = s]
    /\ result' = [result EXCEPT ![p] = v]
    /\ fulfillReactions' = [fulfillReactions EXCEPT ![p] = <<>>]
    /\ jobs' = jobs \o Triggered(ListOf(p, s), v)
    /\ UNCHANGED <<rejectReactions, reactions, follows>>

\* The jobs of a list of reactions.
LEMMA TriggeredJobs ==
  ASSUME NEW list \in Seq(Nat), NEW v \in Plain
  PROVE  /\ Triggered(list, v) \in Seq(JobRecords)
         /\ Len(Triggered(list, v)) = Len(list) /\ Len(list) \in Nat
         /\ \A i \in 1..Len(list) : /\ Triggered(list, v)[i].kind = "reaction"
                                    /\ Triggered(list, v)[i].who = list[i]
                                    /\ Triggered(list, v)[i].arg = v
  <1> DEFINE n == Len(list)
  <1> DEFINE f == [i \in 1..n |-> Job("reaction", list[i], v)]
  <1>1. n \in Nat /\ DOMAIN list = 1..n /\ \A i \in 1..n : list[i] \in Nat
    OBVIOUS
  <1>2. \A i \in 1..n : Job("reaction", list[i], v) \in JobRecords
    BY <1>1 DEF Job, JobRecords
  <1>3. f \in [1..n -> JobRecords]
    BY <1>2
  <1>4. Triggered(list, v) = f
    BY <1>1 DEF Triggered
  <1>5. f \in Seq(JobRecords) /\ Len(f) = n
    <2> HIDE DEF f
    <2> QED
      BY <1>1, <1>3
  <1> QED
    BY <1>1, <1>4, <1>5 DEF Job

\* The jobs there were stay where they were.
LEMMA Grown ==
  ASSUME Records, NEW new \in Seq(JobRecords), jobs' = jobs \o new
  PROVE  /\ jobs' \in Seq(JobRecords)
         /\ Len(jobs) \in Nat /\ Len(new) \in Nat /\ Len(jobs') = Len(jobs) + Len(new)
         /\ DOMAIN jobs' = 1..(Len(jobs) + Len(new)) /\ DOMAIN jobs = 1..Len(jobs)
         /\ \A i \in 1..Len(jobs) : jobs'[i] = jobs[i]
         /\ \A i \in 1..Len(new) : jobs'[Len(jobs) + i] = new[i]
         /\ \A i \in DOMAIN jobs' :
               i \in 1..Len(jobs) \/ \E k \in 1..Len(new) : i = Len(jobs) + k
  <1>1. jobs \in Seq(JobRecords)
    BY DEF Records
  <1>2. /\ jobs' \in Seq(JobRecords)
        /\ Len(jobs) \in Nat /\ Len(new) \in Nat /\ Len(jobs') = Len(jobs) + Len(new)
        /\ DOMAIN jobs' = 1..(Len(jobs) + Len(new)) /\ DOMAIN jobs = 1..Len(jobs)
        /\ \A i \in 1..Len(jobs) : jobs'[i] = jobs[i]
        /\ \A i \in 1..Len(new) : jobs'[Len(jobs) + i] = new[i]
    BY <1>1, Concat
  <1>3. ASSUME NEW i \in DOMAIN jobs', i \notin 1..Len(jobs)
        PROVE  \E k \in 1..Len(new) : i = Len(jobs) + k
    <2>1. i - Len(jobs) \in 1..Len(new) /\ i = Len(jobs) + (i - Len(jobs))
      BY <1>2, <1>3
    <2> QED
      BY <2>1
  <1> QED
    BY <1>2, <1>3

\* Settling a promise hands its reactions of one side over to the jobs, in order.
LEMMA SettleLists ==
  ASSUME Records, Lists, Queued, NEW p \in Promises, ~Settled(p),
         NEW s \in Outcomes, NEW v \in Plain, Settles(p, s, v)
  PROVE  Records' /\ Lists' /\ Queued'
  <1> USE JobTypes
  <1>0. PICK list : list = ListOf(p, s)
    OBVIOUS
  <1> DEFINE new == Triggered(list, v)
  <1>1. /\ list \in Seq(Nat) /\ Len(list) \in Nat /\ DOMAIN list = 1..Len(list)
        /\ \A i \in 1..Len(list) : list[i] \in Nat
    BY <1>0, ListTypes
  <1>2. /\ new \in Seq(JobRecords) /\ Len(new) = Len(list)
        /\ \A i \in 1..Len(list) :
              new[i].kind = "reaction" /\ new[i].who = list[i] /\ new[i].arg = v
    BY <1>1, TriggeredJobs
  <1>3. jobs' = jobs \o new
    BY <1>0 DEF Settles
  <1> HIDE DEF new
  <1>4. PICK l, m : l = Len(jobs) /\ m = Len(list)
    OBVIOUS
  <1>5. /\ jobs' \in Seq(JobRecords) /\ l \in Nat /\ m \in Nat
        /\ DOMAIN jobs' = 1..(l + m) /\ DOMAIN jobs = 1..l
        /\ \A i \in 1..l : jobs'[i] = jobs[i]
        /\ \A i \in 1..m : /\ jobs'[l + i].kind = "reaction"
                           /\ jobs'[l + i].who = list[i] /\ jobs'[l + i].arg = v
        /\ \A i \in DOMAIN jobs' : i \in 1..l \/ \E k \in 1..m : i = l + k
    <2>1. /\ jobs' \in Seq(JobRecords)
          /\ Len(jobs) \in Nat /\ Len(new) \in Nat
          /\ DOMAIN jobs' = 1..(Len(jobs) + Len(new)) /\ DOMAIN jobs = 1..Len(jobs)
          /\ \A i \in 1..Len(jobs) : jobs'[i] = jobs[i]
          /\ \A i \in 1..Len(new) : jobs'[Len(jobs) + i] = new[i]
          /\ \A i \in DOMAIN jobs' :
                i \in 1..Len(jobs) \/ \E k \in 1..Len(new) : i = Len(jobs) + k
      BY <1>2, <1>3, Grown
    <2>2. Len(new) = m /\ Len(jobs) = l /\ Len(list) = m
      BY <1>2, <1>4
    <2>3. \A i \in 1..m : new[i].kind = "reaction" /\ new[i].who = list[i] /\ new[i].arg = v
      BY <1>2, <2>2
    <2>4. \A i \in 1..m : jobs'[l + i] = new[i]
      BY <2>1, <2>2
    <2>5. /\ jobs' \in Seq(JobRecords) /\ l \in Nat /\ m \in Nat
          /\ DOMAIN jobs' = 1..(l + m) /\ DOMAIN jobs = 1..l
          /\ \A i \in 1..l : jobs'[i] = jobs[i]
      BY ONLY <2>1, <2>2, Zenon
    <2>6. \A i \in DOMAIN jobs' : i \in 1..l \/ \E k \in 1..m : i = l + k
      BY ONLY <2>1, <2>2, Zenon
    <2>7. \A i \in 1..m : /\ jobs'[l + i].kind = "reaction"
                          /\ jobs'[l + i].who = list[i] /\ jobs'[l + i].arg = v
      BY ONLY <2>3, <2>4
    <2> QED
      BY ONLY <2>5, <2>6, <2>7
  <1>6. /\ state' \in [Promises -> Outcomes \cup {"unborn", "pending"}] /\ state'[p] = s
        /\ result' \in [Promises -> Plain \cup {None}] /\ result'[p] = v
        /\ fulfillReactions' \in [Promises -> Seq(Nat)] /\ fulfillReactions'[p] = <<>>
        /\ \A x \in Promises : x # p => /\ state'[x] = state[x] /\ result'[x] = result[x]
                                        /\ fulfillReactions'[x] = fulfillReactions[x]
        /\ rejectReactions' = rejectReactions /\ reactions' = reactions
    BY DEF Settles, Records
  <1>7. Records'
    BY <1>5, <1>6 DEF Records
  <1>8. /\ \A i \in 1..m : IsOf(list[i], p, s)
        /\ \A i, j \in 1..m : i < j => list[i] < list[j]
        /\ \A r \in DOMAIN reactions : IsOf(r, p, s) => \E i \in 1..m : list[i] = r
    <2>1. /\ \A i \in DOMAIN ListOf(p, s) : IsOf(ListOf(p, s)[i], p, s)
          /\ \A i, j \in DOMAIN ListOf(p, s) : i < j => ListOf(p, s)[i] < ListOf(p, s)[j]
          /\ \A r \in DOMAIN reactions :
                IsOf(r, p, s) => \E i \in DOMAIN ListOf(p, s) : ListOf(p, s)[i] = r
      BY DEF Lists
    <2>2. DOMAIN list = 1..m
      BY <1>1, <1>4
    <2> QED
      BY <2>1, <2>2, <1>0
  <1>9. Lists'
    <2> SUFFICES ASSUME NEW x \in Promises
                 PROVE  /\ \A t \in Outcomes :
                              /\ \A i \in DOMAIN ListOf(x, t)' : IsOf(ListOf(x, t)[i], x, t)'
                              /\ ~Settled(x)' =>
                                    /\ \A i, j \in DOMAIN ListOf(x, t)' :
                                          i < j => ListOf(x, t)'[i] < ListOf(x, t)'[j]
                                    /\ \A r \in DOMAIN reactions' :
                                          IsOf(r, x, t)' => \E i \in DOMAIN ListOf(x, t)' : ListOf(x, t)'[i] = r
                        /\ Settled(x)' => fulfillReactions'[x] = <<>> /\ result'[x] # None
                        /\ state'[x] = "unborn" => \A r \in DOMAIN reactions' : reactions'[r].of # x
      BY DEF Lists
    <2>1. CASE x = p
      BY <2>1, <1>6, PlainValues DEF Lists, ListOf, IsOf, Settled, Outcomes
    <2>2. CASE x # p
      <3>1. /\ state'[x] = state[x] /\ fulfillReactions'[x] = fulfillReactions[x]
            /\ rejectReactions'[x] = rejectReactions[x] /\ reactions' = reactions
            /\ result'[x] = result[x]
        BY <2>2, <1>6
      <3>2. \A t : ListOf(x, t)' = ListOf(x, t) /\ \A r : IsOf(r, x, t)' <=> IsOf(r, x, t)
        BY <3>1 DEF ListOf, IsOf
      <3>3. Settled(x)' <=> Settled(x)
        BY <3>1 DEF Settled
      <3> QED
        BY <3>1, <3>2, <3>3 DEF Lists
    <2> QED
      BY <2>1, <2>2
  <1>10. \A i \in ReactionJobs : /\ i \in 1..l /\ jobs[i].who \in DOMAIN reactions
                                 /\ Of(i) \in Promises /\ Of(i) # p /\ Of(i)' = Of(i)
    <2> TAKE i \in ReactionJobs
    <2>1. i \in 1..l /\ jobs[i].who \in DOMAIN reactions /\ state[Of(i)] = reactions[jobs[i].who].side
      BY <1>5 DEF ReactionJobs, Queued
    <2>2. state[Of(i)] \in Outcomes /\ Of(i) \in Promises
      BY <2>1 DEF Of
    <2> QED
      BY <2>1, <2>2, <1>5, <1>6 DEF Of, Settled
  <1>11. \A i \in ReactionJobs' : i \in ReactionJobs \/ \E k \in 1..m : i = l + k
    BY <1>5 DEF ReactionJobs, IsReaction
  <1>12. \A i \in ReactionJobs : i \in ReactionJobs' /\ jobs'[i] = jobs[i]
    BY <1>5 DEF ReactionJobs, IsReaction
  <1>13. \A k \in 1..m : /\ l + k \in ReactionJobs' /\ jobs'[l + k].who = list[k]
                         /\ jobs'[l + k].arg = v /\ Of(l + k)' = p
                         /\ list[k] \in DOMAIN reactions /\ reactions[list[k]].side = s
    BY <1>5, <1>6, <1>8 DEF ReactionJobs, IsReaction, IsOf, Of
  <1>14. ASSUME NEW i \in ReactionJobs'
         PROVE  /\ jobs'[i].who \in DOMAIN reactions'
                /\ state'[Of(i)'] = reactions'[jobs'[i].who].side /\ jobs'[i].arg = result'[Of(i)']
                /\ \A j \in ReactionJobs' : i < j /\ Of(i)' = Of(j)' => jobs'[i].who < jobs'[j].who
    <2>1. CASE i \in ReactionJobs
      <3>1. /\ jobs'[i].who \in DOMAIN reactions'
            /\ state'[Of(i)'] = reactions'[jobs'[i].who].side /\ jobs'[i].arg = result'[Of(i)']
        <4>1. /\ jobs[i].who \in DOMAIN reactions
              /\ state[Of(i)] = reactions[jobs[i].who].side /\ jobs[i].arg = result[Of(i)]
          BY <2>1 DEF Queued
        <4>2. jobs'[i] = jobs[i] /\ Of(i)' = Of(i) /\ Of(i) \in Promises /\ Of(i) # p
          BY <2>1, <1>10, <1>12
        <4>3. state'[Of(i)] = state[Of(i)] /\ result'[Of(i)] = result[Of(i)] /\ reactions' = reactions
          BY <4>2, <1>6
        <4> QED
          BY <4>1, <4>2, <4>3
      <3>2. ASSUME NEW j \in ReactionJobs', i < j, Of(i)' = Of(j)'
            PROVE  jobs'[i].who < jobs'[j].who
        <4>1. CASE j \in ReactionJobs
          BY <2>1, <3>2, <4>1, <1>10, <1>12 DEF Queued
        <4>2. CASE \E k \in 1..m : j = l + k
          BY <2>1, <3>2, <4>2, <1>10, <1>13
        <4> QED
          BY <4>1, <4>2, <1>11
      <3> QED
        BY <3>1, <3>2
    <2>2. ASSUME NEW k \in 1..m, i = l + k
          PROVE  /\ jobs'[i].who \in DOMAIN reactions'
                 /\ state'[Of(i)'] = reactions'[jobs'[i].who].side /\ jobs'[i].arg = result'[Of(i)']
                 /\ \A j \in ReactionJobs' : i < j /\ Of(i)' = Of(j)' => jobs'[i].who < jobs'[j].who
      <3>1. /\ jobs'[i].who \in DOMAIN reactions'
            /\ state'[Of(i)'] = reactions'[jobs'[i].who].side /\ jobs'[i].arg = result'[Of(i)']
        BY <2>2, <1>6, <1>13
      <3>2. ASSUME NEW j \in ReactionJobs', i < j
            PROVE  jobs'[i].who < jobs'[j].who
        <4>1. j \notin ReactionJobs
          BY <2>2, <3>2, <1>5, <1>10
        <4>2. PICK h \in 1..m : j = l + h
          BY <4>1, <1>11
        <4>3. k < h
          BY <2>2, <3>2, <4>2, <1>5
        <4> QED
          BY <2>2, <4>2, <4>3, <1>8, <1>13
      <3> QED
        BY <3>1, <3>2
    <2> QED
      BY <2>1, <2>2, <1>11
  <1>15. ASSUME NEW r \in DOMAIN reactions', state'[reactions'[r].of] = reactions'[r].side
         PROVE  \E i \in ReactionJobs' : jobs'[i].who = r
    <2>1. r \in DOMAIN reactions /\ reactions[r].of \in Promises /\ reactions[r].side \in Outcomes
      BY <1>6
    <2>2. CASE reactions[r].of = p
      <3>1. IsOf(r, p, s)
        BY <1>15, <2>1, <2>2, <1>6 DEF IsOf
      <3>2. PICK k \in 1..m : list[k] = r
        BY <2>1, <3>1, <1>8
      <3> QED
        BY ONLY <3>2, <1>13
    <2>3. CASE reactions[r].of # p
      <3>1. state[reactions[r].of] = reactions[r].side
        BY ONLY <1>15, <2>1, <2>3, <1>6
      <3>2. PICK i \in ReactionJobs : jobs[i].who = r
        BY ONLY Queued, <2>1, <3>1 DEF Queued
      <3> QED
        BY ONLY <3>2, <1>12
    <2> QED
      BY <2>2, <2>3
  <1>16. Queued'
    BY <1>14, <1>15 DEF Queued
  <1> QED
    BY <1>7, <1>9, <1>16

\* What does not change a reaction or its list, settles nothing and queues no reaction.
LEMMA QuietLists ==
  ASSUME Records, Lists, Queued, NEW p \in Promises, ~Settled(p),
         state' = [state EXCEPT ![p] = "pending"],
         UNCHANGED <<result, fulfillReactions, rejectReactions, reactions>>,
         NEW new \in Seq(JobRecords), jobs' = jobs \o new,
         \A i \in 1..Len(new) : new[i].kind # "reaction"
  PROVE  Records' /\ Lists' /\ Queued'
  <1> USE JobTypes
  <1>1. /\ jobs' \in Seq(JobRecords) /\ DOMAIN jobs = 1..Len(jobs)
        /\ \A i \in 1..Len(jobs) : i \in DOMAIN jobs' /\ jobs'[i] = jobs[i]
        /\ \A i \in DOMAIN jobs' : i \in 1..Len(jobs) \/ jobs'[i].kind # "reaction"
    BY Grown
  <1>2. /\ state' \in [Promises -> Outcomes \cup {"unborn", "pending"}] /\ state'[p] = "pending"
        /\ \A x \in Promises : x # p => state'[x] = state[x]
    BY DEF Records
  <1>3. Records'
    BY <1>1, <1>2 DEF Records
  <1>4. ReactionJobs' = ReactionJobs /\ \A i \in ReactionJobs : jobs'[i] = jobs[i]
    BY <1>1 DEF ReactionJobs, IsReaction
  <1>5. \A i \in ReactionJobs : Of(i)' = Of(i) /\ Of(i) # p /\ Of(i) \in Promises
    <2> TAKE i \in ReactionJobs
    <2>1. jobs[i].who \in DOMAIN reactions /\ state[Of(i)] = reactions[jobs[i].who].side
      BY DEF Queued
    <2> QED
      BY <2>1, <1>4 DEF Of, Settled
  <1>6. Lists'
    <2>1. \A x, t : ListOf(x, t)' = ListOf(x, t) /\ \A r : IsOf(r, x, t)' <=> IsOf(r, x, t)
      BY DEF ListOf, IsOf
    <2>2. \A x \in Promises : Settled(x)' <=> Settled(x)
      BY <1>2 DEF Settled, Outcomes
    <2>3. \A x \in Promises : state'[x] = "unborn" => state[x] = "unborn"
      BY <1>2
    <2> QED
      BY <2>1, <2>2, <2>3 DEF Lists
  <1>7. Queued'
    <2>1. ASSUME NEW i \in ReactionJobs'
          PROVE  /\ jobs'[i].who \in DOMAIN reactions'
                 /\ state'[Of(i)'] = reactions'[jobs'[i].who].side /\ jobs'[i].arg = result'[Of(i)']
                 /\ \A j \in ReactionJobs' : i < j /\ Of(i)' = Of(j)' => jobs'[i].who < jobs'[j].who
      <3>1. i \in ReactionJobs /\ jobs'[i] = jobs[i] /\ Of(i)' = Of(i) /\ Of(i) # p /\ Of(i) \in Promises
        BY <1>4, <1>5
      <3>2. /\ jobs[i].who \in DOMAIN reactions
            /\ state[Of(i)] = reactions[jobs[i].who].side /\ jobs[i].arg = result[Of(i)]
        BY <3>1 DEF Queued
      <3>3. state'[Of(i)] = state[Of(i)]
        BY <3>1, <1>2
      <3>4. ASSUME NEW j \in ReactionJobs', i < j, Of(i)' = Of(j)'
            PROVE  jobs'[i].who < jobs'[j].who
        <4>1. /\ j \in ReactionJobs /\ Of(j)' = Of(j)
              /\ jobs'[j].who = jobs[j].who /\ jobs'[i].who = jobs[i].who
          BY <3>1, <1>4, <1>5
        <4>2. i < j /\ Of(i) = Of(j)
          BY <3>1, <3>4, <4>1
        <4> QED
          BY <3>1, <4>1, <4>2 DEF Queued
      <3> QED
        BY <3>1, <3>2, <3>3, <3>4
    <2>2. ASSUME NEW r \in DOMAIN reactions', state'[reactions'[r].of] = reactions'[r].side
          PROVE  \E i \in ReactionJobs' : jobs'[i].who = r
      <3>1. reactions[r].of # p
        BY <2>2, <1>2 DEF Outcomes
      <3>2. r \in DOMAIN reactions /\ reactions[r].of \in Promises
        OBVIOUS
      <3>3. state[reactions[r].of] = reactions[r].side
        BY <2>2, <3>1, <3>2, <1>2
      <3>4. PICK i \in ReactionJobs : jobs[i].who = r
        BY <3>2, <3>3 DEF Queued
      <3> QED
        BY <3>4, <1>4
    <2> QED
      BY <2>1, <2>2 DEF Queued
  <1> QED
    BY <1>3, <1>6, <1>7

\* A promise that is derived by then is born in the same step.
Bears(c) ==
    state' = state \/ (state[c] = "unborn" /\ state' = [state EXCEPT ![c] = "pending"])

\* then on a pending promise: a reaction for each list, newer than all others.
LEMMA ThenPending ==
  ASSUME Records, Lists, Queued, NEW q \in Promises, state[q] = "pending",
         NEW f \in Handlers, NEW g \in Handlers, NEW d \in Promises \cup {None},
         NEW c \in Promises, Bears(c), UNCHANGED <<result, jobs>>,
         reactions' = reactions \o <<Reaction(q, "fulfilled", f, d), Reaction(q, "rejected", g, d)>>,
         fulfillReactions' = [fulfillReactions EXCEPT ![q] = Append(@, Len(reactions) + 1)],
         rejectReactions' = [rejectReactions EXCEPT ![q] = Append(@, Len(reactions) + 2)]
  PROVE  Records' /\ Lists' /\ Queued'
  <1> USE JobTypes
  <1>0. PICK n : n = Len(reactions)
    OBVIOUS
  <1>1. n \in Nat /\ DOMAIN reactions = 1..n
    BY <1>0
  <1> DEFINE new == <<Reaction(q, "fulfilled", f, d), Reaction(q, "rejected", g, d)>>
  <1>2. new \in Seq(ReactionRecords) /\ Len(new) = 2
    BY DEF Reaction, ReactionRecords, Outcomes
  <1>3. /\ reactions' \in Seq(ReactionRecords) /\ DOMAIN reactions' = 1..(n + 2)
        /\ \A r \in 1..n : reactions'[r] = reactions[r]
        /\ reactions'[n + 1].of = q /\ reactions'[n + 1].side = "fulfilled"
        /\ reactions'[n + 2].of = q /\ reactions'[n + 2].side = "rejected"
    <2>1. reactions \in Seq(ReactionRecords) /\ reactions' = reactions \o new
      BY DEF Records
    <2> HIDE DEF new
    <2>2. /\ reactions' \in Seq(ReactionRecords) /\ DOMAIN reactions' = 1..(n + 2)
          /\ \A r \in 1..n : reactions'[r] = reactions[r]
          /\ \A i \in 1..2 : reactions'[n + i] = new[i]
      <3>1. /\ reactions' \in Seq(ReactionRecords)
            /\ DOMAIN reactions' = 1..(Len(reactions) + Len(new))
            /\ \A r \in 1..Len(reactions) : reactions'[r] = reactions[r]
            /\ \A i \in 1..Len(new) : reactions'[Len(reactions) + i] = new[i]
        BY <1>2, <2>1, Concat
      <3> QED
        BY <1>0, <1>2, <3>1
    <2>3. /\ new[1].of = q /\ new[1].side = "fulfilled"
          /\ new[2].of = q /\ new[2].side = "rejected"
      BY DEF new, Reaction
    <2>4. reactions'[n + 1] = new[1] /\ reactions'[n + 2] = new[2]
      <3>1. \A i \in {1, 2} : i \in 1..2
        OBVIOUS
      <3>2. \A i \in {1, 2} : reactions'[n + i] = new[i]
        BY <2>2, <3>1
      <3> QED
        BY ONLY <3>2, Zenon
    <2> QED
      BY <2>2, <2>3, <2>4
  <1> HIDE DEF new
  <1>4. /\ state' \in [Promises -> Outcomes \cup {"unborn", "pending"}]
        /\ \A x \in Promises : /\ Settled(x)' <=> Settled(x)
                               /\ Settled(x) => state'[x] = state[x]
                               /\ state'[x] = "unborn" => state[x] = "unborn"
        /\ state'[q] = "pending"
    BY DEF Bears, Records, Settled, Outcomes
  <1>5. ASSUME NEW s \in Outcomes
        PROVE  /\ ListOf(q, s)' \in Seq(Nat)
               /\ \A x \in Promises : x # q => ListOf(x, s)' = ListOf(x, s)
               /\ DOMAIN ListOf(q, s)' = 1..(Len(ListOf(q, s)) + 1) /\ Len(ListOf(q, s)) \in Nat
               /\ \A i \in 1..Len(ListOf(q, s)) : ListOf(q, s)'[i] = ListOf(q, s)[i]
               /\ ListOf(q, s)'[Len(ListOf(q, s)) + 1] = IF s = "fulfilled" THEN n + 1 ELSE n + 2
    <2>1. CASE s = "fulfilled"
      <3>1. fulfillReactions[q] \in Seq(Nat) /\ n + 1 \in Nat
        BY <1>1 DEF Records
      <3>2. fulfillReactions'[q] = Append(fulfillReactions[q], n + 1)
        BY <1>0 DEF Records
      <3>3. \A x \in Promises : x # q => fulfillReactions'[x] = fulfillReactions[x]
        BY DEF Records
      <3> QED
        BY <2>1, <3>1, <3>2, <3>3, Appended DEF ListOf
    <2>2. CASE s = "rejected"
      <3>1. rejectReactions[q] \in Seq(Nat) /\ n + 2 \in Nat
        BY <1>1 DEF Records
      <3>2. rejectReactions'[q] = Append(rejectReactions[q], n + 2)
        BY <1>0 DEF Records
      <3>3. \A x \in Promises : x # q => rejectReactions'[x] = rejectReactions[x]
        BY DEF Records
      <3> QED
        BY <2>2, <3>1, <3>2, <3>3, Appended DEF ListOf
    <2> QED
      BY <2>1, <2>2 DEF Outcomes
  <1>6. Records'
    <2>1. /\ fulfillReactions' \in [Promises -> Seq(Nat)]
          /\ rejectReactions' \in [Promises -> Seq(Nat)]
      <3>1. /\ Append(fulfillReactions[q], n + 1) \in Seq(Nat)
            /\ Append(rejectReactions[q], n + 2) \in Seq(Nat)
        BY <1>1 DEF Records
      <3> QED
        BY <3>1, <1>0 DEF Records
    <2> QED
      BY <2>1, <1>3, <1>4 DEF Records
  <1>7. \A r, t : \A x \in Promises :
           /\ IsOf(r, x, t) => IsOf(r, x, t)'
           /\ IsOf(r, x, t)' => \/ IsOf(r, x, t)
                                \/ x = q /\ r = n + 1 /\ t = "fulfilled"
                                \/ x = q /\ r = n + 2 /\ t = "rejected"
    <2>1. \A r \in 1..(n + 2) : r \in 1..n \/ r = n + 1 \/ r = n + 2
      BY <1>1
    <2>2. 1..n \subseteq 1..(n + 2)
      BY <1>1
    <2>3. DOMAIN reactions = 1..n
      BY <1>1
    <2> QED
      BY ONLY <2>1, <2>2, <2>3, <1>3 DEF IsOf
  <1>8. Lists'
    <2> SUFFICES ASSUME NEW x \in Promises
                 PROVE  /\ \A t \in Outcomes :
                              /\ \A i \in DOMAIN ListOf(x, t)' : IsOf(ListOf(x, t)[i], x, t)'
                              /\ ~Settled(x)' =>
                                    /\ \A i, j \in DOMAIN ListOf(x, t)' :
                                          i < j => ListOf(x, t)'[i] < ListOf(x, t)'[j]
                                    /\ \A r \in DOMAIN reactions' :
                                          IsOf(r, x, t)' => \E i \in DOMAIN ListOf(x, t)' : ListOf(x, t)'[i] = r
                        /\ Settled(x)' => fulfillReactions'[x] = <<>> /\ result'[x] # None
                        /\ state'[x] = "unborn" => \A r \in DOMAIN reactions' : reactions'[r].of # x
      BY DEF Lists
    <2>1. CASE x = q
      <3>1. ~Settled(q)' /\ state'[q] # "unborn" /\ ~Settled(q)
        BY <1>4 DEF Settled, Outcomes
      <3>2. ASSUME NEW t \in Outcomes
            PROVE  /\ \A i \in DOMAIN ListOf(q, t)' : IsOf(ListOf(q, t)[i], q, t)'
                   /\ \A i, j \in DOMAIN ListOf(q, t)' :
                         i < j => ListOf(q, t)'[i] < ListOf(q, t)'[j]
                   /\ \A r \in DOMAIN reactions' :
                         IsOf(r, q, t)' => \E i \in DOMAIN ListOf(q, t)' : ListOf(q, t)'[i] = r
        <4>0. PICK list, more : list = ListOf(q, t) /\ more = ListOf(q, t)'
          OBVIOUS
        <4>1. PICK m : m = Len(list)
          OBVIOUS
        <4> DEFINE e == IF t = "fulfilled" THEN n + 1 ELSE n + 2
        <4>2. /\ m \in Nat /\ DOMAIN list = 1..m /\ DOMAIN more = 1..(m + 1)
              /\ \A i \in 1..m : more[i] = list[i]
              /\ more[m + 1] = e
          BY <4>0, <4>1, <1>5, ListTypes
        <4>3. /\ \A i \in 1..m : IsOf(list[i], q, t) /\ list[i] \in 1..n
              /\ \A i, j \in 1..m : i < j => list[i] < list[j]
              /\ \A r \in DOMAIN reactions : IsOf(r, q, t) => \E i \in 1..m : list[i] = r
          <5>1. /\ \A i \in DOMAIN ListOf(q, t) : IsOf(ListOf(q, t)[i], q, t)
                /\ \A i, j \in DOMAIN ListOf(q, t) : i < j => ListOf(q, t)[i] < ListOf(q, t)[j]
                /\ \A r \in DOMAIN reactions :
                      IsOf(r, q, t) => \E i \in DOMAIN ListOf(q, t) : ListOf(q, t)[i] = r
            BY <3>1 DEF Lists
          <5>2. /\ \A i \in 1..m : IsOf(list[i], q, t)
                /\ \A i, j \in 1..m : i < j => list[i] < list[j]
                /\ \A r \in DOMAIN reactions : IsOf(r, q, t) => \E i \in 1..m : list[i] = r
            BY <5>1, <4>0, <4>2
          <5> QED
            BY <5>2, <1>1 DEF IsOf
        <4>4. IsOf(e, q, t)'
          BY <1>1, <1>3 DEF IsOf, Outcomes
        <4>5. \A i \in 1..(m + 1) : IsOf(more[i], q, t)'
          <5>1. \A i \in 1..m : IsOf(list[i], q, t)'
            BY <4>3, <1>7
          <5>2. \A i \in 1..(m + 1) : i \in 1..m \/ i = m + 1
            BY <4>2
          <5> HIDE DEF e
          <5> QED
            BY <5>1, <5>2, <4>2, <4>4
        <4>6. \A i, j \in 1..(m + 1) : i < j => more[i] < more[j]
          <5> TAKE i, j \in 1..(m + 1)
          <5> HAVE i < j
          <5>1. i \in 1..m /\ (j \in 1..m \/ j = m + 1)
            BY <4>2
          <5>2. CASE j \in 1..m
            BY <5>1, <5>2, <4>2, <4>3
          <5>3. CASE j = m + 1
            <6>1. more[i] = list[i] /\ list[i] \in 1..n /\ more[j] = e /\ (e = n + 1 \/ e = n + 2)
              BY <5>1, <5>3, <4>2, <4>3
            <6> HIDE DEF e
            <6> QED
              BY <6>1, <1>1
          <5> QED
            BY <5>1, <5>2, <5>3
        <4>7. \A r \in DOMAIN reactions' : IsOf(r, q, t)' => \E i \in 1..(m + 1) : more[i] = r
          <5> TAKE r \in DOMAIN reactions'
          <5> HAVE IsOf(r, q, t)'
          <5>1. r = e \/ IsOf(r, q, t)
            BY <1>7
          <5>2. IsOf(r, q, t) => \E i \in 1..m : list[i] = r
            BY <4>3 DEF IsOf
          <5> QED
            BY <5>1, <5>2, <4>2
        <4> QED
          BY <4>0, <4>2, <4>5, <4>6, <4>7
      <3> QED
        BY <2>1, <3>1, <3>2
    <2>2. CASE x # q
      <3>1. \A t \in Outcomes : ListOf(x, t)' = ListOf(x, t)
        BY <2>2, <1>5
      <3>2. \A r, t : IsOf(r, x, t)' <=> IsOf(r, x, t)
        BY <2>2, <1>7
      <3>3. Settled(x)' <=> Settled(x)
        BY <1>4
      <3>4. fulfillReactions'[x] = fulfillReactions[x]
        BY <2>2 DEF Records
      <3>5. \A t \in Outcomes : \A r \in DOMAIN reactions' :
               IsOf(r, x, t)' /\ ~Settled(x) => \E i \in DOMAIN ListOf(x, t) : ListOf(x, t)[i] = r
        <4>1. \A t \in Outcomes : \A r \in DOMAIN reactions :
                 IsOf(r, x, t) /\ ~Settled(x) => \E i \in DOMAIN ListOf(x, t) : ListOf(x, t)[i] = r
          BY DEF Lists
        <4>2. \A r, t : IsOf(r, x, t) => r \in DOMAIN reactions
          BY DEF IsOf
        <4> QED
          BY <4>1, <4>2, <3>2
      <3>6. state'[x] = "unborn" => \A r \in DOMAIN reactions' : reactions'[r].of # x
        <4>1. \A r \in DOMAIN reactions' : r \in DOMAIN reactions \/ r = n + 1 \/ r = n + 2
          BY <1>1, <1>3
        <4>2. state[x] = "unborn" => \A r \in DOMAIN reactions : reactions[r].of # x
          BY DEF Lists
        <4>3. state'[x] = "unborn" => state[x] = "unborn"
          BY <1>4
        <4>4. /\ \A r \in DOMAIN reactions : reactions'[r] = reactions[r]
              /\ reactions'[n + 1].of = q /\ reactions'[n + 2].of = q
          BY <1>1, <1>3
        <4> QED
          BY ONLY <4>1, <4>2, <4>3, <4>4, <2>2
      <3>7. /\ \A t \in Outcomes : \A i \in DOMAIN ListOf(x, t) : IsOf(ListOf(x, t)[i], x, t)
            /\ \A t \in Outcomes : ~Settled(x) =>
                  \A i, j \in DOMAIN ListOf(x, t) : i < j => ListOf(x, t)[i] < ListOf(x, t)[j]
            /\ Settled(x) => fulfillReactions[x] = <<>> /\ result[x] # None
        BY DEF Lists
      <3>8. ASSUME NEW t \in Outcomes
            PROVE  /\ \A i \in DOMAIN ListOf(x, t)' : IsOf(ListOf(x, t)[i], x, t)'
                   /\ ~Settled(x)' =>
                         /\ \A i, j \in DOMAIN ListOf(x, t)' :
                               i < j => ListOf(x, t)'[i] < ListOf(x, t)'[j]
                         /\ \A r \in DOMAIN reactions' :
                               IsOf(r, x, t)' => \E i \in DOMAIN ListOf(x, t)' : ListOf(x, t)'[i] = r
        <4>0. PICK list : list = ListOf(x, t)
          OBVIOUS
        <4>1. ListOf(x, t)' = list
          BY <4>0, <3>1
        <4>2. \A i \in DOMAIN list : IsOf(list[i], x, t)
          BY <4>0, <3>7
        <4>3. ~Settled(x) => \A i, j \in DOMAIN list : i < j => list[i] < list[j]
          BY <4>0, <3>7
        <4>4. \A r \in DOMAIN reactions' :
                 IsOf(r, x, t)' /\ ~Settled(x) => \E i \in DOMAIN list : list[i] = r
          BY <4>0, <3>5
        <4> QED
          BY <4>1, <4>2, <4>3, <4>4, <3>2, <3>3
      <3>9. Settled(x)' => fulfillReactions'[x] = <<>> /\ result'[x] # None
        BY <3>3, <3>4, <3>7
      <3> QED
        BY <3>6, <3>8, <3>9
    <2> QED
      BY <2>1, <2>2
  <1>9. /\ ReactionJobs' = ReactionJobs
        /\ \A i \in ReactionJobs : /\ jobs[i].who \in DOMAIN reactions
                                   /\ Of(i)' = Of(i) /\ Of(i) \in Promises /\ Settled(Of(i))
                                   /\ reactions'[jobs[i].who] = reactions[jobs[i].who]
    <2>1. ReactionJobs' = ReactionJobs
      BY DEF ReactionJobs, IsReaction
    <2>2. \A i \in ReactionJobs : jobs[i].who \in DOMAIN reactions /\ state[Of(i)] = reactions[jobs[i].who].side
      BY DEF Queued
    <2>3. \A i \in ReactionJobs : reactions'[jobs[i].who] = reactions[jobs[i].who]
      BY <2>2, <1>1, <1>3
    <2> QED
      BY <2>1, <2>2, <2>3 DEF Of, Settled
  <1>10. Queued'
    <2>1. ASSUME NEW i \in ReactionJobs'
          PROVE  /\ jobs'[i].who \in DOMAIN reactions'
                 /\ state'[Of(i)'] = reactions'[jobs'[i].who].side /\ jobs'[i].arg = result'[Of(i)']
                 /\ \A j \in ReactionJobs' : i < j /\ Of(i)' = Of(j)' => jobs'[i].who < jobs'[j].who
      <3>1. /\ i \in ReactionJobs /\ jobs[i].who \in DOMAIN reactions
            /\ Of(i)' = Of(i) /\ Of(i) \in Promises /\ Settled(Of(i))
            /\ reactions'[jobs[i].who] = reactions[jobs[i].who]
        BY <1>9
      <3>2. state[Of(i)] = reactions[jobs[i].who].side /\ jobs[i].arg = result[Of(i)]
        BY <3>1 DEF Queued
      <3>3. state'[Of(i)] = state[Of(i)] /\ DOMAIN reactions \subseteq DOMAIN reactions'
        BY <3>1, <1>1, <1>3, <1>4
      <3>4. ASSUME NEW j \in ReactionJobs', i < j, Of(i)' = Of(j)'
            PROVE  jobs'[i].who < jobs'[j].who
        BY <3>1, <3>4, <1>9 DEF Queued
      <3> QED
        BY <3>1, <3>2, <3>3, <3>4
    <2>2. ASSUME NEW r \in DOMAIN reactions', state'[reactions'[r].of] = reactions'[r].side
          PROVE  \E i \in ReactionJobs' : jobs'[i].who = r
      <3>1. r \in DOMAIN reactions \/ r = n + 1 \/ r = n + 2
        BY <1>1, <1>3
      <3>2. r \in DOMAIN reactions
        BY <2>2, <3>1, <1>3, <1>4
      <3>3. reactions'[r] = reactions[r] /\ reactions[r].of \in Promises /\ reactions[r].side \in Outcomes
        BY <3>2, <1>1, <1>3
      <3>4. state[reactions[r].of] = reactions[r].side
        BY <2>2, <3>3, <1>4 DEF Settled
      <3> QED
        BY <3>2, <3>4, <1>9 DEF Queued
    <2> QED
      BY <2>1, <2>2 DEF Queued
  <1> QED
    BY <1>6, <1>8, <1>10

\* then on a settled promise: a reaction of its side, and the job at once.
LEMMA ThenSettled ==
  ASSUME Records, Lists, Queued, NEW q \in Promises, NEW s \in Outcomes, state[q] = s,
         NEW h \in Handlers, NEW d \in Promises \cup {None},
         NEW c \in Promises, Bears(c),
         reactions' = Append(reactions, Reaction(q, s, h, d)),
         jobs' = jobs \o <<Job("reaction", Len(reactions) + 1, result[q])>>,
         UNCHANGED <<result, fulfillReactions, rejectReactions>>
  PROVE  Records' /\ Lists' /\ Queued'
  <1> USE JobTypes
  <1>0. PICK n, l : n = Len(reactions) /\ l = Len(jobs)
    OBVIOUS
  <1>1. /\ n \in Nat /\ DOMAIN reactions = 1..n
        /\ l \in Nat /\ DOMAIN jobs = 1..l
    BY <1>0
  <1>2. /\ reactions' \in Seq(ReactionRecords) /\ DOMAIN reactions' = 1..(n + 1)
        /\ \A r \in 1..n : reactions'[r] = reactions[r]
        /\ reactions'[n + 1].of = q /\ reactions'[n + 1].side = s
    <2>1. reactions \in Seq(ReactionRecords) /\ Reaction(q, s, h, d) \in ReactionRecords
      BY DEF Records, Reaction, ReactionRecords
    <2>2. Reaction(q, s, h, d).of = q /\ Reaction(q, s, h, d).side = s
      BY DEF Reaction
    <2>3. PICK e : e = Reaction(q, s, h, d)
      OBVIOUS
    <2> QED
      BY <1>0, <2>1, <2>2, <2>3, Appended
  <1>3. result[q] \in Plain
    <2>1. result[q] # None
      BY DEF Lists, Settled
    <2> QED
      BY <2>1 DEF Records
  <1>4. PICK e : e = Job("reaction", n + 1, result[q])
    OBVIOUS
  <1>5. e \in JobRecords /\ e.kind = "reaction" /\ e.who = n + 1 /\ e.arg = result[q]
    BY <1>1, <1>3, <1>4 DEF Job, JobRecords
  <1>6. /\ jobs' \in Seq(JobRecords) /\ DOMAIN jobs' = 1..(l + 1)
        /\ \A i \in 1..l : jobs'[i] = jobs[i]
        /\ jobs'[l + 1] = e
    <2>1. jobs \in Seq(JobRecords) /\ <<e>> \in Seq(JobRecords) /\ Len(<<e>>) = 1 /\ <<e>>[1] = e
      BY <1>5 DEF Records
    <2>2. jobs' = jobs \o <<e>>
      BY <1>0, <1>4
    <2>3. 1 \in 1..Len(<<e>>)
      BY <2>1
    <2> QED
      BY <1>0, <2>1, <2>2, <2>3, Concat
  <1>7. /\ state' \in [Promises -> Outcomes \cup {"unborn", "pending"}]
        /\ \A x \in Promises : /\ Settled(x)' <=> Settled(x)
                               /\ Settled(x) => state'[x] = state[x]
                               /\ state'[x] = "unborn" => state[x] = "unborn"
        /\ state'[q] = s /\ Settled(q)
    BY DEF Bears, Records, Settled, Outcomes
  <1>8. Records'
    BY <1>2, <1>6, <1>7 DEF Records
  <1>9. /\ \A x, t : ListOf(x, t)' = ListOf(x, t)
        /\ \A x \in Promises : \A r, t : /\ IsOf(r, x, t) => IsOf(r, x, t)'
                                         /\ x # q /\ IsOf(r, x, t)' => IsOf(r, x, t)
        /\ \A r \in DOMAIN reactions' : r \in 1..n \/ r = n + 1
    BY <1>1, <1>2 DEF ListOf, IsOf
  <1>10. Lists'
    <2> SUFFICES ASSUME NEW x \in Promises
                 PROVE  /\ \A t \in Outcomes :
                              /\ \A i \in DOMAIN ListOf(x, t)' : IsOf(ListOf(x, t)[i], x, t)'
                              /\ ~Settled(x)' =>
                                    /\ \A i, j \in DOMAIN ListOf(x, t)' :
                                          i < j => ListOf(x, t)'[i] < ListOf(x, t)'[j]
                                    /\ \A r \in DOMAIN reactions' :
                                          IsOf(r, x, t)' => \E i \in DOMAIN ListOf(x, t)' : ListOf(x, t)'[i] = r
                        /\ Settled(x)' => fulfillReactions'[x] = <<>> /\ result'[x] # None
                        /\ state'[x] = "unborn" => \A r \in DOMAIN reactions' : reactions'[r].of # x
      BY DEF Lists
    <2>1. ASSUME NEW t \in Outcomes
          PROVE  /\ \A i \in DOMAIN ListOf(x, t)' : IsOf(ListOf(x, t)[i], x, t)'
                 /\ ~Settled(x)' =>
                       /\ \A i, j \in DOMAIN ListOf(x, t)' :
                             i < j => ListOf(x, t)'[i] < ListOf(x, t)'[j]
                       /\ \A r \in DOMAIN reactions' :
                             IsOf(r, x, t)' => \E i \in DOMAIN ListOf(x, t)' : ListOf(x, t)'[i] = r
      <3>0. PICK list : list = ListOf(x, t)
        OBVIOUS
      <3>1. ListOf(x, t)' = list
        BY <3>0, <1>9
      <3>2. /\ \A i \in DOMAIN list : IsOf(list[i], x, t)
            /\ ~Settled(x) =>
                  /\ \A i, j \in DOMAIN list : i < j => list[i] < list[j]
                  /\ \A r \in DOMAIN reactions : IsOf(r, x, t) => \E i \in DOMAIN list : list[i] = r
        BY <3>0 DEF Lists
      <3>3. ~Settled(x)' => ~Settled(x) /\ x # q
        BY <1>7
      <3>4. \A r : IsOf(r, x, t) => r \in DOMAIN reactions
        BY DEF IsOf
      <3> QED
        BY <3>1, <3>2, <3>3, <3>4, <1>9
    <2>2. Settled(x)' => fulfillReactions'[x] = <<>> /\ result'[x] # None
      BY <1>7 DEF Lists
    <2>3. state'[x] = "unborn" => \A r \in DOMAIN reactions' : reactions'[r].of # x
      <3>1. state[x] = "unborn" => \A r \in DOMAIN reactions : reactions[r].of # x
        BY DEF Lists
      <3>2. state'[x] = "unborn" => state[x] = "unborn" /\ x # q
        BY <1>7 DEF Outcomes
      <3> QED
        BY <3>1, <3>2, <1>1, <1>2, <1>9
    <2> QED
      BY <2>1, <2>2, <2>3
  <1>11. \A i \in ReactionJobs : /\ i \in ReactionJobs' /\ i \in 1..l /\ jobs'[i] = jobs[i]
                                 /\ jobs[i].who \in 1..n
                                 /\ Of(i)' = Of(i) /\ Of(i) \in Promises /\ Settled(Of(i))
                                 /\ reactions'[jobs[i].who] = reactions[jobs[i].who]
    <2> TAKE i \in ReactionJobs
    <2>1. i \in 1..l /\ jobs'[i] = jobs[i] /\ i \in ReactionJobs'
      BY <1>1, <1>6 DEF ReactionJobs, IsReaction
    <2>2. jobs[i].who \in 1..n /\ state[Of(i)] = reactions[jobs[i].who].side
      BY <1>1 DEF Queued
    <2>3. reactions'[jobs[i].who] = reactions[jobs[i].who]
      BY <2>2, <1>2
    <2> QED
      BY <2>1, <2>2, <2>3, <1>1 DEF Of, Settled
  <1>12. /\ \A i \in ReactionJobs' : i \in ReactionJobs \/ i = l + 1
         /\ l + 1 \in ReactionJobs' /\ jobs'[l + 1].who = n + 1 /\ Of(l + 1)' = q
    <2>1. \A i \in DOMAIN jobs' : i \in 1..l \/ i = l + 1
      BY <1>1, <1>6
    <2>2. l + 1 \in DOMAIN jobs'
      BY <1>1, <1>6
    <2> QED
      BY <2>1, <2>2, <1>1, <1>2, <1>5, <1>6 DEF ReactionJobs, IsReaction, Of
  <1>13. ASSUME NEW i \in ReactionJobs'
         PROVE  /\ jobs'[i].who \in DOMAIN reactions'
                /\ state'[Of(i)'] = reactions'[jobs'[i].who].side /\ jobs'[i].arg = result'[Of(i)']
                /\ \A j \in ReactionJobs' : i < j /\ Of(i)' = Of(j)' => jobs'[i].who < jobs'[j].who
    <2>1. CASE i \in ReactionJobs
      <3>1. /\ state[Of(i)] = reactions[jobs[i].who].side /\ jobs[i].arg = result[Of(i)]
            /\ \A j \in ReactionJobs : i < j /\ Of(i) = Of(j) => jobs[i].who < jobs[j].who
        BY <2>1 DEF Queued
      <3>2. state'[Of(i)] = state[Of(i)] /\ jobs[i].who \in DOMAIN reactions'
        BY <2>1, <1>1, <1>2, <1>7, <1>11
      <3>3. ASSUME NEW j \in ReactionJobs', i < j, Of(i)' = Of(j)'
            PROVE  jobs'[i].who < jobs'[j].who
        <4>1. CASE j \in ReactionJobs
          <5>1. Of(i)' = Of(i) /\ jobs'[i] = jobs[i]
            BY ONLY <2>1, <1>11
          <5>2. Of(j)' = Of(j) /\ jobs'[j] = jobs[j]
            BY ONLY <4>1, <1>11
          <5>3. Of(i) = Of(j)
            BY ONLY <5>1, <5>2, <3>3
          <5>4. jobs[i].who < jobs[j].who
            BY ONLY <3>1, <3>3, <4>1, <5>3
          <5> QED
            BY ONLY <5>1, <5>2, <5>4
        <4>2. CASE j = l + 1
          <5>1. jobs'[i].who \in 1..n /\ jobs'[j].who = n + 1
            BY <2>1, <4>2, <1>11, <1>12
          <5> QED
            BY ONLY <5>1, <1>1
        <4> QED
          BY <4>1, <4>2, <1>12
      <3> QED
        BY <2>1, <3>1, <3>2, <3>3, <1>11
    <2>2. CASE i = l + 1
      <3>1. /\ jobs'[i].who \in DOMAIN reactions'
            /\ state'[Of(i)'] = reactions'[jobs'[i].who].side /\ jobs'[i].arg = result'[Of(i)']
        <4>1. n + 1 \in DOMAIN reactions' /\ jobs'[i].who = n + 1 /\ Of(i)' = q /\ jobs'[i].arg = result[q]
          BY <2>2, <1>1, <1>2, <1>5, <1>6, <1>12
        <4> QED
          BY <4>1, <1>2, <1>7
      <3>2. \A j \in ReactionJobs' : ~(i < j)
        BY <2>2, <1>1, <1>11, <1>12
      <3> QED
        BY <3>1, <3>2
    <2> QED
      BY <2>1, <2>2, <1>12
  <1>14. ASSUME NEW r \in DOMAIN reactions', state'[reactions'[r].of] = reactions'[r].side
         PROVE  \E i \in ReactionJobs' : jobs'[i].who = r
    <2>1. CASE r = n + 1
      BY <2>1, <1>12
    <2>2. CASE r \in 1..n
      <3>1. reactions'[r] = reactions[r] /\ reactions[r].of \in Promises /\ reactions[r].side \in Outcomes
        BY <2>2, <1>1, <1>2
      <3>2. state[reactions[r].of] = reactions[r].side
        BY <3>1, <1>7, <1>14 DEF Settled
      <3>3. PICK i \in ReactionJobs : jobs[i].who = r
        BY <2>2, <3>2, <1>1 DEF Queued
      <3> QED
        BY <3>3, <1>11
    <2> QED
      BY <2>1, <2>2, <1>9
  <1>15. Queued'
    BY <1>13, <1>14 DEF Queued
  <1> QED
    BY <1>8, <1>10, <1>15

\* Nothing of what lists and jobs depend on changes.
LEMMA SameLists ==
  ASSUME Records, Lists, Queued,
         UNCHANGED <<state, result, fulfillReactions, rejectReactions, reactions, jobs>>
  PROVE  Records' /\ Lists' /\ Queued'
  <1>1. Records'
    BY DEF Records
  <1>2. Lists'
    BY DEF Lists, ListOf, IsOf, Settled
  <1>3. Queued'
    BY DEF Queued, ReactionJobs, IsReaction, Of
  <1> QED
    BY <1>1, <1>2, <1>3


-----------------------------------------------------------------------------
(* Resolving functions *)

ResolverInv == Resolvers /\ LastPair /\ WaitingJobs /\ HandlersFit

\* A pair that can still decide is the last one of a promise that is pending.
LEMMA Uncalled ==
  ASSUME Records, Resolvers, LastPair, NEW p \in Promises,
         NEW n \in 1..pairs[p], <<p, n>> \notin alreadyResolved
  PROVE  n = pairs[p] /\ state[p] = "pending" /\ ~Called(p)
  <1>1. pairs[p] \in Nat /\ n \in Nat /\ n >= 1 /\ n <= pairs[p]
    BY DEF Resolvers
  <1>2. ~(n < pairs[p])
    BY DEF LastPair
  <1>3. n = pairs[p] /\ pairs[p] # 0
    BY <1>1, <1>2
  <1>4. ~Called(p) /\ state[p] # "unborn" /\ ~Settled(p)
    BY <1>3 DEF LastPair, Called
  <1> QED
    BY <1>3, <1>4 DEF Records, Settled, Outcomes

\* The jobs that are still to make a pair, when jobs are queued and one may begin.
LEMMA ThenablesKept ==
  ASSUME Records, Loop, NEW new \in Seq(JobRecords), jobs' = jobs \o new,
         begun' = begun \/ (begun' = begun + 1 /\ begun < Len(jobs))
  PROVE  /\ begun' \in 0..Len(jobs')
         /\ \A i \in Thenables : i \in 1..Len(jobs) /\ (i = begun' \/ i \in Thenables') /\ jobs'[i] = jobs[i]
         /\ \A i \in Thenables' :
               \/ i \in Thenables /\ i # begun' /\ jobs'[i] = jobs[i]
               \/ \E k \in 1..Len(new) : i = Len(jobs) + k /\ jobs'[i] = new[k] /\ new[k].kind = "thenable"
         /\ \A k \in 1..Len(new) :
               new[k].kind = "thenable" => Len(jobs) + k \in Thenables' /\ jobs'[Len(jobs) + k] = new[k]
  <1>0. PICK l, m : l = Len(jobs) /\ m = Len(new)
    OBVIOUS
  <1> l \in Nat /\ m \in Nat
    BY <1>0, Grown
  <1>1. /\ Len(jobs') = l + m
        /\ \A i \in 1..l : jobs'[i] = jobs[i]
        /\ \A i \in 1..m : jobs'[l + i] = new[i]
        /\ \A i \in 1..(l + m) : i \in 1..l \/ \E k \in 1..m : i = l + k
    <2>1. /\ Len(jobs) \in Nat /\ Len(new) \in Nat /\ Len(jobs') = Len(jobs) + Len(new)
          /\ DOMAIN jobs' = 1..(Len(jobs) + Len(new))
          /\ \A i \in 1..Len(jobs) : jobs'[i] = jobs[i]
          /\ \A i \in 1..Len(new) : jobs'[Len(jobs) + i] = new[i]
          /\ \A i \in DOMAIN jobs' :
                i \in 1..Len(jobs) \/ \E k \in 1..Len(new) : i = Len(jobs) + k
      BY Grown
    <2> QED
      BY <1>0, <2>1
  <1>2. PICK b, c : b = begun /\ c = begun'
    OBVIOUS
  <1>3. /\ b \in Nat /\ c \in Nat /\ b <= l /\ c <= l /\ (c = b \/ c = b + 1)
        /\ begun' \in 0..Len(jobs')
    <2>1. b \in 0..l
      BY <1>0, <1>2 DEF Loop
    <2>2. c = b \/ (c = b + 1 /\ b < l)
      BY <1>0, <1>2
    <2>3. b \in Nat /\ c \in Nat /\ b <= l /\ c <= l
      BY ONLY <2>1, <2>2, l \in Nat
    <2>4. c \in 0..(l + m)
      BY ONLY <2>3, l \in Nat, m \in Nat
    <2> QED
      BY <2>2, <2>3, <2>4, <1>1, <1>2
  <1>4. /\ \A i : i \in Thenables <=> i \in (b + 1)..l /\ jobs[i].kind = "thenable"
        /\ \A i : i \in Thenables' <=> i \in (c + 1)..(l + m) /\ jobs'[i].kind = "thenable"
    BY <1>0, <1>1, <1>2 DEF Thenables
  <1>5. /\ \A i \in (b + 1)..l : i \in 1..l /\ (i = c \/ i \in (c + 1)..(l + m))
        /\ \A i \in (c + 1)..(l + m) : i \in 1..(l + m) /\ i # c /\ (i \in 1..l => i \in (b + 1)..l)
        /\ \A k \in 1..m : l + k \in (c + 1)..(l + m)
    BY ONLY l \in Nat, m \in Nat, <1>3
  <1>6. ASSUME NEW i \in Thenables
        PROVE  i \in 1..l /\ (i = c \/ i \in Thenables') /\ jobs'[i] = jobs[i]
    <2>1. i \in (b + 1)..l /\ jobs[i].kind = "thenable"
      BY <1>4
    <2> QED
      BY <2>1, <1>1, <1>4, <1>5
  <1>7. ASSUME NEW i \in Thenables'
        PROVE  \/ i \in Thenables /\ i # c /\ jobs'[i] = jobs[i]
               \/ \E k \in 1..m : i = l + k /\ jobs'[i] = new[k] /\ new[k].kind = "thenable"
    <2>1. i \in (c + 1)..(l + m) /\ jobs'[i].kind = "thenable"
      BY <1>4
    <2>2. i \in 1..(l + m) /\ i # c /\ (i \in 1..l => i \in (b + 1)..l)
      BY <2>1, <1>5
    <2>3. CASE i \in 1..l
      BY <2>1, <2>2, <2>3, <1>1, <1>4
    <2>4. CASE \E k \in 1..m : i = l + k
      BY <2>1, <2>4, <1>1
    <2> QED
      BY <2>2, <2>3, <2>4, <1>1
  <1>8. ASSUME NEW k \in 1..m, new[k].kind = "thenable"
        PROVE  l + k \in Thenables' /\ jobs'[l + k] = new[k]
    BY <1>1, <1>4, <1>5, <1>8
  <1> QED
    BY <1>0, <1>2, <1>3, <1>6, <1>7, <1>8

\* A pair is called for the first time: the promise is settled, or will follow f.
LEMMA Decided ==
  ASSUME Records, Loop, ResolverInv, NEW p \in Promises, NEW n \in Nat \ {0},
         \/ n = pairs[p] /\ pairs' = pairs
         \/ state[p] = "unborn" /\ n = 1 /\ pairs' = [pairs EXCEPT ![p] = 1],
         <<p, n>> \notin alreadyResolved,
         alreadyResolved' = alreadyResolved \cup {<<p, n>>},
         UNCHANGED <<held, reactions>>,
         state'[p] # "unborn", \A x \in Promises : x # p => state'[x] = state[x],
         NEW f \in Objects \cup {None}, follows' = [follows EXCEPT ![p] = f],
         f # p, f \in Promises => Born(f),
         \A i \in Thenables : i \in Thenables' /\ jobs'[i] = jobs[i],
         NEW l \in Nat,
         \A i \in Thenables' :
            \/ i \in Thenables
            \/ i = l /\ jobs'[i].who = p /\ jobs'[i].arg = f /\ state'[p] = "pending",
         state'[p] = "pending" => f = Thenable \/ \E i \in Thenables' : jobs'[i].who = p
  PROVE  ResolverInv'
  <1> USE JobTypes DEF ResolverInv
  <1>1. pairs \in [Promises -> Nat] /\ follows \in [Promises -> Objects \cup {None}]
    BY DEF Resolvers
  <1>2. /\ pairs' \in [Promises -> Nat] /\ pairs'[p] = n
        /\ \A x \in Promises : x # p => pairs'[x] = pairs[x]
        /\ follows' \in [Promises -> Objects \cup {None}] /\ follows'[p] = f
        /\ \A x \in Promises : x # p => follows'[x] = follows[x]
    BY <1>1
  <1>3. ~Called(p) /\ (state[p] # "unborn" => n = pairs[p]) /\ (state[p] = "unborn" => pairs[p] = 0 /\ n = 1)
    <2>1. /\ pairs[p] = 0 <=> state[p] = "unborn"
          /\ \A c \in alreadyResolved : c[2] \in 1..pairs[c[1]]
      BY DEF LastPair
    <2>2. state[p] # "unborn" => n = pairs[p]
      OBVIOUS
    <2>3. state[p] = "unborn" => pairs[p] = 0 /\ n = 1
      BY <2>1, <1>1
    <2>4. pairs[p] = 0 => <<p, 0>> \notin alreadyResolved
      BY <2>1
    <2> QED
      BY <2>2, <2>3, <2>4 DEF Called
  <1>4. Resolvers'
    BY <1>2 DEF Resolvers
  <1>5. \A x \in Promises : /\ Born(x) => Born(x)'
                            /\ x # p => (Called(x)' <=> Called(x)) /\ (Settled(x)' <=> Settled(x))
    BY <1>2 DEF Born, Called, Settled
  <1>6. Called(p)' /\ Born(p)'
    BY <1>2 DEF Called, Born
  <1>7. LastPair'
    <2>1. ASSUME NEW c \in alreadyResolved' \cup held'
          PROVE  c[2] \in 1..pairs'[c[1]]
      <3>1. CASE c = <<p, n>>
        BY <3>1, <1>2
      <3>2. CASE c \in alreadyResolved \cup held
        <4>1. c[2] \in 1..pairs[c[1]] /\ c[1] \in Promises
          BY <3>2 DEF LastPair, Resolvers
        <4>2. CASE c[1] = p
          BY <4>1, <4>2, <1>1, <1>2, <1>3
        <4>3. CASE c[1] # p
          BY <4>1, <4>3, <1>2
        <4> QED
          BY <4>2, <4>3
      <3> QED
        BY <2>1, <3>1, <3>2
    <2>2. ASSUME NEW x \in Promises
          PROVE  /\ pairs'[x] = 0 <=> state'[x] = "unborn"
                 /\ \A k \in 1..pairs'[x] : k < pairs'[x] => <<x, k>> \in alreadyResolved'
                 /\ Settled(x)' => Called(x)'
                 /\ state'[x] = "unborn" => follows'[x] = None
                 /\ follows'[x] # x
                 /\ follows'[x] \in Promises => state'[follows'[x]] # "unborn"
                 /\ Born(x)' /\ ~Called(x)' /\ follows'[x] # None =>
                       follows'[x] \in Promises /\ pairs'[x] >= 2 /\ <<x, pairs'[x]>> \notin held'
      <3>1. CASE x = p
        <4>1. \A k \in 1..pairs'[p] : k < pairs'[p] => <<p, k>> \in alreadyResolved'
          BY <1>1, <1>2, <1>3 DEF LastPair
        <4>2. f \in Promises => state'[f] # "unborn"
          BY <1>5 DEF Born
        <4>3. pairs'[p] # 0 /\ state'[p] # "unborn" /\ Called(x)' /\ follows'[x] # x
          BY <3>1, <1>2, <1>6
        <4> QED
          BY <3>1, <4>1, <4>2, <4>3, <1>2
      <3>2. CASE x # p
        <4>1. /\ pairs'[x] = pairs[x] /\ state'[x] = state[x] /\ follows'[x] = follows[x]
              /\ (Called(x)' <=> Called(x)) /\ (Settled(x)' <=> Settled(x))
          BY <3>2, <1>2, <1>5
        <4>2. /\ pairs[x] = 0 <=> state[x] = "unborn"
              /\ \A k \in 1..pairs[x] : k < pairs[x] => <<x, k>> \in alreadyResolved
              /\ Settled(x) => Called(x)
              /\ state[x] = "unborn" => follows[x] = None
              /\ follows[x] # x
              /\ follows[x] \in Promises => Born(follows[x])
              /\ Born(x) /\ ~Called(x) /\ follows[x] # None =>
                    follows[x] \in Promises /\ pairs[x] >= 2 /\ <<x, pairs[x]>> \notin held
          BY DEF LastPair
        <4>3. follows[x] \in Promises => state'[follows[x]] # "unborn"
          BY <4>2, <1>5 DEF Born
        <4>4. Born(x)' <=> Born(x)
          BY <4>1 DEF Born
        <4> QED
          BY <4>1, <4>2, <4>3, <4>4
      <3> QED
        BY <3>1, <3>2
    <2> QED
      BY <2>1, <2>2 DEF LastPair, Born
  <1>8. \A i \in Thenables : /\ jobs[i].who \in Promises /\ jobs[i].who # p
                             /\ state[jobs[i].who] = "pending" /\ Called(jobs[i].who)
                             /\ follows[jobs[i].who] = jobs[i].arg
    <2> TAKE i \in Thenables
    <2>1. /\ state[jobs[i].who] = "pending" /\ Called(jobs[i].who)
          /\ follows[jobs[i].who] = jobs[i].arg
      BY DEF WaitingJobs
    <2>2. jobs[i].who \in Promises
      <3>1. i \in DOMAIN jobs /\ jobs[i].kind = "thenable"
        BY DEF Thenables, Loop
      <3> QED
        BY <3>1
    <2> QED
      BY <2>1, <2>2, <1>3
  <1>9. \A i \in Thenables' :
           \/ i \in Thenables /\ jobs'[i] = jobs[i]
           \/ i = l /\ jobs'[i].who = p /\ jobs'[i].arg = f /\ state'[p] = "pending"
    OBVIOUS
  <1>10. WaitingJobs'
    <2>1. ASSUME NEW i \in Thenables'
          PROVE  /\ state'[jobs'[i].who] = "pending" /\ <<jobs'[i].who, pairs'[jobs'[i].who]>> \in alreadyResolved'
                 /\ follows'[jobs'[i].who] = jobs'[i].arg
                 /\ \A j \in Thenables' : jobs'[i].who = jobs'[j].who => i = j
      <3>1. CASE i \in Thenables /\ jobs'[i] = jobs[i]
        <4>1. /\ jobs[i].who \in Promises /\ jobs[i].who # p
              /\ state[jobs[i].who] = "pending" /\ Called(jobs[i].who)
              /\ follows[jobs[i].who] = jobs[i].arg
          BY <3>1, <1>8
        <4>2. /\ state'[jobs[i].who] = "pending" /\ <<jobs[i].who, pairs'[jobs[i].who]>> \in alreadyResolved'
              /\ follows'[jobs[i].who] = jobs[i].arg
          BY <4>1, <1>2 DEF Called
        <4>3. ASSUME NEW j \in Thenables', jobs'[i].who = jobs'[j].who
              PROVE  i = j
          <5>1. j \in Thenables /\ jobs'[j] = jobs[j]
            BY <3>1, <4>1, <4>3, <1>9
          <5>2. \A k \in Thenables : jobs[i].who = jobs[k].who => i = k
            BY <3>1 DEF WaitingJobs
          <5> QED
            BY <3>1, <4>3, <5>1, <5>2
        <4> QED
          BY <3>1, <4>2, <4>3
      <3>2. CASE i = l /\ jobs'[i].who = p /\ jobs'[i].arg = f /\ state'[p] = "pending"
        <4>1. <<p, pairs'[p]>> \in alreadyResolved' /\ follows'[p] = f
          BY <1>2
        <4>2. ASSUME NEW j \in Thenables', jobs'[i].who = jobs'[j].who
              PROVE  i = j
          BY <3>2, <4>2, <1>8, <1>9
        <4> QED
          BY <3>2, <4>1, <4>2
      <3> QED
        BY <3>1, <3>2, <1>9
    <2>2. ASSUME NEW x \in Promises, state'[x] = "pending", Called(x)'
          PROVE  (\E i \in Thenables' : jobs'[i].who = x) \/ follows'[x] = Thenable
      <3>1. CASE x = p
        BY <2>2, <3>1, <1>2
      <3>2. CASE x # p
        <4>1. (\E i \in Thenables : jobs[i].who = x) \/ follows[x] = Thenable
          BY <2>2, <3>2, <1>5 DEF WaitingJobs
        <4> QED
          BY <3>2, <4>1, <1>2
      <3> QED
        BY <3>1, <3>2
    <2> QED
      BY <2>1, <2>2 DEF WaitingJobs, Called
  <1>11. HandlersFit'
    <2> SUFFICES ASSUME NEW r \in DOMAIN reactions
                 PROVE  Fit(reactions[r])'
      BY DEF HandlersFit
    <2>0. PICK x : x = reactions[r]
      OBVIOUS
    <2>1. Fit(x) /\ reactions' = reactions
      BY <2>0 DEF HandlersFit
    <2>2. x.cap \in Promises /\ Born(x.cap) => Born(x.cap)'
      BY <1>5
    <2>3. ASSUME x.handler.of \in Promises, x.handler.pair \in 2..pairs[x.handler.of]
          PROVE  /\ x.handler.pair \in 2..pairs'[x.handler.of]
                 /\ <<x.handler.of, x.handler.pair>> \notin alreadyResolved' => follows'[x.handler.of] = follows[x.handler.of]
      <3>1. CASE x.handler.of = p
        <4>1. pairs[p] # 0 /\ n = pairs[p]
          BY <2>3, <3>1, <1>1, <1>3
        <4>2. x.handler.pair < n => <<p, x.handler.pair>> \in alreadyResolved
          BY <2>3, <3>1, <4>1, <1>1 DEF LastPair
        <4> QED
          BY <2>3, <3>1, <4>1, <4>2, <1>1, <1>2
      <3>2. CASE x.handler.of # p
        BY <2>3, <3>2, <1>2
      <3> QED
        BY <3>1, <3>2
    <2>4. Fit(x)'
      BY <2>1, <2>2, <2>3 DEF Fit
    <2>5. reactions'[r] = x
      BY <2>0, <2>1
    <2> QED
      BY ONLY <2>4, <2>5 DEF Fit
  <1> QED
    BY <1>4, <1>7, <1>10, <1>11

\* CreateResolvingFunctions makes the next pair: for a promise that is new, or for one
\* whose job for it begins.
LEMMA NewPair ==
  ASSUME Records, Loop, ResolverInv, NEW p \in Promises,
         state[p] = "unborn" \/ (state[p] = "pending" /\ Called(p)),
         pairs' = [pairs EXCEPT ![p] = pairs[p] + 1],
         state' = [state EXCEPT ![p] = "pending"], UNCHANGED alreadyResolved,
         held' = held \/ held' = held \cup {<<p, pairs[p] + 1>>},
         NEW f \in Objects \cup {None}, f = None \/ f = follows[p], follows' = [follows EXCEPT ![p] = f],
         f # None => f \in Promises /\ held' = held,
         \A r \in DOMAIN reactions' :
            \/ r \in DOMAIN reactions /\ reactions'[r] = reactions[r]
            \/ \E x : reactions'[r] = x /\ Fit(x)',
         \A i \in Thenables : jobs[i].who # p => i \in Thenables' /\ jobs'[i] = jobs[i],
         \A i \in Thenables' : i \in Thenables /\ jobs'[i] = jobs[i] /\ jobs[i].who # p
  PROVE  ResolverInv'
  <1> USE JobTypes DEF ResolverInv
  <1>0. PICK n : n = pairs[p] + 1
    OBVIOUS
  <1>1. /\ pairs \in [Promises -> Nat] /\ follows \in [Promises -> Objects \cup {None}]
        /\ state \in [Promises -> Outcomes \cup {"unborn", "pending"}]
        /\ alreadyResolved \subseteq Promises \X Nat /\ held \subseteq Promises \X Nat
        /\ n \in Nat /\ n >= 1 /\ (state[p] = "pending" => n >= 2) /\ pairs[p] < n
    <2>1. pairs \in [Promises -> Nat] /\ (pairs[p] = 0 <=> state[p] = "unborn")
      BY DEF Resolvers, LastPair
    <2>2. /\ follows \in [Promises -> Objects \cup {None}]
          /\ alreadyResolved \subseteq Promises \X Nat /\ held \subseteq Promises \X Nat
      BY DEF Resolvers
    <2>3. state \in [Promises -> Outcomes \cup {"unborn", "pending"}]
      BY DEF Records
    <2>4. pairs[p] \in Nat /\ n = pairs[p] + 1 /\ (state[p] = "pending" => pairs[p] # 0)
      BY ONLY <1>0, <2>1, p \in Promises
    <2>5. n \in Nat /\ n >= 1 /\ (state[p] = "pending" => n >= 2) /\ pairs[p] < n
      BY ONLY <2>4
    <2> QED
      BY ONLY <2>1, <2>2, <2>3, <2>5
  <1>2. /\ pairs' \in [Promises -> Nat] /\ pairs'[p] = n
        /\ \A x \in Promises : x # p => pairs'[x] = pairs[x]
        /\ follows' \in [Promises -> Objects \cup {None}] /\ follows'[p] = f
        /\ \A x \in Promises : x # p => follows'[x] = follows[x]
        /\ state'[p] = "pending"
        /\ \A x \in Promises : x # p => state'[x] = state[x]
    BY <1>0, <1>1
  <1>3. /\ \A c \in alreadyResolved \cup held : c[1] \in Promises /\ c[2] \in 1..pairs[c[1]]
        /\ <<p, n>> \notin alreadyResolved \cup held
        /\ \A k \in 1..(n - 1) : <<p, k>> \in alreadyResolved
    <2>1. \A c \in alreadyResolved \cup held : c[1] \in Promises /\ c[2] \in 1..pairs[c[1]]
      BY DEF LastPair, Resolvers
    <2>2. <<p, n>> \notin alreadyResolved \cup held
      BY <2>1, <1>0, <1>1
    <2>3. ASSUME NEW k \in 1..(n - 1)
          PROVE  <<p, k>> \in alreadyResolved
      <3>1. state[p] = "pending"
        <4>1. pairs[p] # 0
          BY <1>0, <1>1
        <4> QED
          BY <4>1 DEF LastPair
      <3>2. <<p, pairs[p]>> \in alreadyResolved
        BY <3>1 DEF Called
      <3>3. k = pairs[p] \/ (k \in 1..pairs[p] /\ k < pairs[p])
        BY <1>0, <1>1
      <3> QED
        BY <3>2, <3>3 DEF LastPair
    <2> QED
      BY <2>1, <2>2, <2>3
  <1>4. Resolvers'
    BY <1>0, <1>1, <1>2 DEF Resolvers
  <1>5. \A x \in Promises : /\ Born(x) => Born(x)'
                            /\ x # p => (Called(x)' <=> Called(x)) /\ (Settled(x)' <=> Settled(x))
    BY <1>2 DEF Born, Called, Settled
  <1>6. ~Called(p)' /\ Born(p)' /\ ~Settled(p)'
    BY <1>2, <1>3 DEF Called, Born, Settled, Outcomes
  <1>7. LastPair'
    <2>1. ASSUME NEW c \in alreadyResolved' \cup held'
          PROVE  c[2] \in 1..pairs'[c[1]]
      <3>1. CASE c = <<p, n>>
        BY <3>1, <1>1, <1>2
      <3>2. CASE c \in alreadyResolved \cup held
        <4>1. c[2] \in 1..pairs[c[1]] /\ c[1] \in Promises
          BY <3>2, <1>3
        <4>2. CASE c[1] = p
          BY <4>1, <4>2, <1>1, <1>2
        <4>3. CASE c[1] # p
          BY <4>1, <4>3, <1>2
        <4> QED
          BY <4>2, <4>3
      <3> QED
        BY <2>1, <3>1, <3>2, <1>0
    <2>2. ASSUME NEW x \in Promises
          PROVE  /\ pairs'[x] = 0 <=> state'[x] = "unborn"
                 /\ \A k \in 1..pairs'[x] : k < pairs'[x] => <<x, k>> \in alreadyResolved'
                 /\ Settled(x)' => Called(x)'
                 /\ state'[x] = "unborn" => follows'[x] = None
                 /\ follows'[x] # x
                 /\ follows'[x] \in Promises => state'[follows'[x]] # "unborn"
                 /\ Born(x)' /\ ~Called(x)' /\ follows'[x] # None =>
                       follows'[x] \in Promises /\ pairs'[x] >= 2 /\ <<x, pairs'[x]>> \notin held'
      <3>1. CASE x = p
        <4>1. \A k \in 1..n : k < n => <<p, k>> \in alreadyResolved'
          BY <1>1, <1>3
        <4>2. /\ follows[p] # p /\ (follows[p] \in Promises => Born(follows[p]))
              /\ state[p] = "unborn" => follows[p] = None
          BY DEF LastPair
        <4>3. f # p /\ (f \in Promises => state'[f] # "unborn")
          BY <4>2, <1>5, PlainValues DEF Born
        <4>4. f # None => f \in Promises /\ n >= 2 /\ <<p, n>> \notin held'
          BY <4>2, <1>1, <1>3
        <4>5. pairs'[x] # 0 /\ state'[x] = "pending"
          BY <3>1, <1>1, <1>2
        <4> QED
          BY <3>1, <4>1, <4>3, <4>4, <4>5, <1>2, <1>6
      <3>2. CASE x # p
        <4>1. /\ pairs'[x] = pairs[x] /\ state'[x] = state[x] /\ follows'[x] = follows[x]
              /\ (Called(x)' <=> Called(x)) /\ (Settled(x)' <=> Settled(x))
          BY <3>2, <1>2, <1>5
        <4>2. /\ pairs[x] = 0 <=> state[x] = "unborn"
              /\ \A k \in 1..pairs[x] : k < pairs[x] => <<x, k>> \in alreadyResolved
              /\ Settled(x) => Called(x)
              /\ state[x] = "unborn" => follows[x] = None
              /\ follows[x] # x
              /\ follows[x] \in Promises => Born(follows[x])
              /\ Born(x) /\ ~Called(x) /\ follows[x] # None =>
                    follows[x] \in Promises /\ pairs[x] >= 2 /\ <<x, pairs[x]>> \notin held
          BY DEF LastPair
        <4>3. follows[x] \in Promises => state'[follows[x]] # "unborn"
          BY <4>2, <1>5 DEF Born
        <4>4. (Born(x)' <=> Born(x)) /\ (<<x, pairs[x]>> \notin held => <<x, pairs[x]>> \notin held')
          BY <3>2, <4>1 DEF Born
        <4> QED
          BY <4>1, <4>2, <4>3, <4>4
      <3> QED
        BY <3>1, <3>2
    <2> QED
      BY <2>1, <2>2 DEF LastPair, Born
  <1>8. WaitingJobs'
    <2>1. ASSUME NEW i \in Thenables'
          PROVE  /\ state'[jobs'[i].who] = "pending" /\ <<jobs'[i].who, pairs'[jobs'[i].who]>> \in alreadyResolved'
                 /\ follows'[jobs'[i].who] = jobs'[i].arg
                 /\ \A j \in Thenables' : jobs'[i].who = jobs'[j].who => i = j
      <3>1. i \in Thenables /\ jobs'[i] = jobs[i] /\ jobs[i].who # p
        OBVIOUS
      <3>2. /\ state[jobs[i].who] = "pending" /\ Called(jobs[i].who)
            /\ follows[jobs[i].who] = jobs[i].arg
            /\ \A j \in Thenables : jobs[i].who = jobs[j].who => i = j
        BY <3>1 DEF WaitingJobs
      <3>3. jobs[i].who \in Promises
        <4>1. i \in DOMAIN jobs /\ jobs[i].kind = "thenable"
          BY <3>1 DEF Thenables, Loop
        <4> QED
          BY <4>1
      <3> QED
        BY <3>1, <3>2, <3>3, <1>2 DEF Called
    <2>2. ASSUME NEW x \in Promises, state'[x] = "pending", Called(x)'
          PROVE  (\E i \in Thenables' : jobs'[i].who = x) \/ follows'[x] = Thenable
      <3>1. x # p
        BY <2>2, <1>6
      <3>2. (\E i \in Thenables : jobs[i].who = x) \/ follows[x] = Thenable
        BY <2>2, <3>1, <1>2, <1>5 DEF WaitingJobs
      <3> QED
        BY <3>1, <3>2, <1>2
    <2> QED
      BY <2>1, <2>2 DEF WaitingJobs, Called
  <1>9. HandlersFit'
    <2> SUFFICES ASSUME NEW r \in DOMAIN reactions'
                 PROVE  Fit(reactions[r])'
      BY DEF HandlersFit
    <2>0. PICK x : x = reactions'[r]
      OBVIOUS
    <2>1. ASSUME r \in DOMAIN reactions, x = reactions[r]
          PROVE  Fit(x)'
      <3>1. Fit(x)
        BY <2>1 DEF HandlersFit
      <3>2. x.cap \in Promises /\ Born(x.cap) /\ <<x.cap, 1>> \notin held => Born(x.cap)' /\ <<x.cap, 1>> \notin held'
        <4> SUFFICES ASSUME x.cap \in Promises, Born(x.cap), <<x.cap, 1>> \notin held
                     PROVE  <<x.cap, 1>> \notin held'
          BY <1>5
        <4>1. x.cap = p => n # 1
          BY <1>1 DEF Born
        <4> QED
          BY <4>1, <1>0
      <3>3. ASSUME x.handler.of \in Promises, x.handler.pair \in 2..pairs[x.handler.of]
            PROVE  /\ x.handler.pair \in 2..pairs'[x.handler.of]
                   /\ <<x.handler.of, x.handler.pair>> \notin held => <<x.handler.of, x.handler.pair>> \notin held'
                   /\ <<x.handler.of, x.handler.pair>> \notin alreadyResolved' => follows'[x.handler.of] = follows[x.handler.of]
        <4>1. CASE x.handler.of = p
          <5>1. x.handler.pair \in 2..pairs'[p] /\ x.handler.pair \in 1..(n - 1) /\ x.handler.pair # n
            BY <3>3, <4>1, <1>0, <1>1, <1>2
          <5> QED
            BY <4>1, <5>1, <1>0, <1>3
        <4>2. CASE x.handler.of # p
          BY <3>3, <4>2, <1>2
        <4> QED
          BY <4>1, <4>2
      <3> QED
        BY <3>1, <3>2, <3>3 DEF Fit
    <2>2. (r \in DOMAIN reactions /\ x = reactions[r]) \/ \E y : x = y /\ Fit(y)'
      BY ONLY <2>0, r \in DOMAIN reactions',
         \A r_1 \in DOMAIN reactions' :
            \/ r_1 \in DOMAIN reactions /\ reactions'[r_1] = reactions[r_1]
            \/ \E y : reactions'[r_1] = y /\ Fit(y)'
    <2>3. Fit(x)'
      BY ONLY <2>1, <2>2
    <2> QED
      BY ONLY <2>0, <2>3 DEF Fit
  <1> QED
    BY <1>4, <1>7, <1>8, <1>9

\* Nothing is called and no pair is made.
LEMMA SameResolvers ==
  ASSUME Records, Loop, ResolverInv,
         UNCHANGED <<state, reactions, pairs, alreadyResolved, held, follows>>,
         Thenables' = Thenables, \A i \in Thenables : jobs'[i] = jobs[i]
  PROVE  ResolverInv'
  <1>1. Resolvers' /\ LastPair'
    BY DEF ResolverInv, Resolvers, LastPair, Born, Called, Settled
  <1>2. WaitingJobs'
    <2>1. \A i \in Thenables :
             /\ state[jobs[i].who] = "pending" /\ Called(jobs[i].who)
             /\ follows[jobs[i].who] = jobs[i].arg
             /\ \A j \in Thenables : jobs[i].who = jobs[j].who => i = j
      BY DEF ResolverInv, WaitingJobs
    <2>2. \A p \in Promises :
             state[p] = "pending" /\ Called(p) =>
                 (\E i \in Thenables : jobs[i].who = p) \/ follows[p] = Thenable
      BY DEF ResolverInv, WaitingJobs
    <2> QED
      BY <2>1, <2>2 DEF WaitingJobs, Called
  <1>3. HandlersFit'
    BY DEF ResolverInv, HandlersFit, Fit, Born
  <1> QED
    BY <1>1, <1>2, <1>3 DEF ResolverInv

-----------------------------------------------------------------------------
(* Steps *)

\* What a call of a resolving function comes to.
Outcome(p, n) ==
    \/ <<p, n>> \in alreadyResolved /\ Unsettling /\ UNCHANGED alreadyResolved
    \/ /\ <<p, n>> \notin alreadyResolved
       /\ alreadyResolved' = alreadyResolved \cup {<<p, n>>}
       /\ \/ \E s \in Outcomes, v \in Plain : Settles(p, s, v)
          \/ \E v \in Objects \ {p} : (v \in Promises => Born(v)) /\ FollowThenable(p, v)

\* The reject function of a pair.
LEMMA RejectOutcome ==
  ASSUME UNCHANGED reactions, NEW p \in Promises, NEW n, NEW v \in Plain, Reject(p, n, v)
  PROVE  Outcome(p, n)
  <1>1. "rejected" \in Outcomes /\ ListOf(p, "rejected") = rejectReactions[p]
    BY DEF Outcomes, ListOf
  <1>2. RejectPromise(p, v) => Settles(p, "rejected", v)
    BY <1>1 DEF RejectPromise, Settles, Enqueue
  <1> QED
    BY <1>1, <1>2 DEF Reject, OnlyOnce, Outcome

\* The resolve function of a pair.
LEMMA ResolveOutcome ==
  ASSUME UNCHANGED reactions, NEW p \in Promises, NEW n, NEW v \in Known, Resolve(p, n, v)
  PROVE  Outcome(p, n)
  <1>1. /\ "rejected" \in Outcomes /\ ListOf(p, "rejected") = rejectReactions[p]
        /\ "fulfilled" \in Outcomes /\ ListOf(p, "fulfilled") = fulfillReactions[p]
    BY DEF Outcomes, ListOf
  <1>2. \A w : /\ RejectPromise(p, w) => Settles(p, "rejected", w)
               /\ FulfillPromise(p, w) => Settles(p, "fulfilled", w)
    BY <1>1 DEF RejectPromise, FulfillPromise, Settles, Enqueue
  <1>3. TypeError \in Plain /\ (v \in Promises => Born(v))
    BY PlainValues, Kinds DEF Known, Plain
  <1>4. CASE <<p, n>> \in alreadyResolved
    BY <1>4 DEF Resolve, OnlyOnce, Outcome
  <1>5. CASE <<p, n>> \notin alreadyResolved
    <2>1. /\ alreadyResolved' = alreadyResolved \cup {<<p, n>>}
          /\ \/ v = p /\ RejectPromise(p, TypeError)
             \/ v \in Plain /\ FulfillPromise(p, v)
             \/ v \in Objects \ {p} /\ FollowThenable(p, v)
      BY <1>5 DEF Resolve, OnlyOnce
    <2>2. CASE v = p /\ RejectPromise(p, TypeError)
      BY <2>1, <2>2, <1>1, <1>2, <1>3, <1>5 DEF Outcome
    <2>3. CASE v \in Plain /\ FulfillPromise(p, v)
      BY <2>1, <2>3, <1>1, <1>2, <1>5 DEF Outcome
    <2>4. CASE v \in Objects \ {p} /\ FollowThenable(p, v)
      BY <2>1, <2>4, <1>3, <1>5 DEF Outcome
    <2> QED
      BY <2>1, <2>2, <2>3, <2>4
  <1> QED
    BY <1>4, <1>5

\* Jobs stay in the log, and reactions as they were made.
Kept ==
    /\ \A i \in DOMAIN jobs : i \in DOMAIN jobs' /\ jobs'[i] = jobs[i]
    /\ \A r \in DOMAIN reactions : r \in DOMAIN reactions' /\ reactions'[r] = reactions[r]

\* A call of a resolving function by the program or by a reaction job: of a pair that
\* there is, or of the first of a new promise.
LEMMA Deciding ==
  ASSUME PInv, UNCHANGED <<reactions, held>>, NEW p \in Promises, NEW n \in Nat \ {0}, Outcome(p, n),
         \/ n \in 1..pairs[p] /\ pairs' = pairs
         \/ state[p] = "unborn" /\ n = 1 /\ pairs' = [pairs EXCEPT ![p] = 1],
         \/ begun' = begun
         \/ begun' = begun + 1 /\ begun < Len(jobs) /\ jobs[begun + 1].kind = "reaction"
  PROVE  Records' /\ Lists' /\ Queued' /\ ResolverInv' /\ begun' \in 0..Len(jobs') /\ Kept
  <1> USE DEF PInv
  <1>0. ResolverInv
    BY DEF ResolverInv
  <1>1. begun \in Nat /\ \A i \in Thenables : i # begun'
    <2>1. begun \in Nat /\ Len(jobs) \in Nat
      BY JobTypes DEF Loop
    <2>2. \A i \in Thenables : i >= begun + 1 /\ jobs[i].kind = "thenable"
      BY <2>1 DEF Thenables
    <2> QED
      BY <2>1, <2>2
  <1>2. pairs \in [Promises -> Nat] /\ (state[p] = "unborn" <=> pairs[p] = 0)
    BY DEF Resolvers, LastPair
  <1>3. \A c \in alreadyResolved : c[2] \in 1..pairs[c[1]]
    BY DEF LastPair
  <1>4. CASE <<p, n>> \in alreadyResolved /\ Unsettling /\ UNCHANGED alreadyResolved
    <2>1. pairs' = pairs
      <3>1. n \in 1..pairs[p]
        BY <1>3, <1>4
      <3> QED
        BY <3>1, <1>2
    <2>2. /\ UNCHANGED <<state, result, fulfillReactions, rejectReactions, reactions, jobs, follows>>
          /\ UNCHANGED <<pairs, alreadyResolved, held>>
      BY <2>1, <1>4 DEF Unsettling
    <2>3. Records' /\ Lists' /\ Queued'
      BY ONLY <2>2, PInv, SameLists DEF PInv
    <2>4. PICK new : new \in Seq(JobRecords) /\ jobs' = jobs \o new /\ 1..Len(new) = {}
      <3>1. jobs \o <<>> = jobs /\ <<>> \in Seq(JobRecords) /\ 1..Len(<<>>) = {}
        BY DEF Records
      <3> QED
        BY <3>1, <2>2
    <2>5. /\ begun' \in 0..Len(jobs')
          /\ \A i \in Thenables : i \in 1..Len(jobs) /\ (i = begun' \/ i \in Thenables') /\ jobs'[i] = jobs[i]
          /\ \A i \in Thenables' : i \in Thenables \/ \E k \in 1..Len(new) : new[k].kind = "thenable"
      BY <2>4, ThenablesKept
    <2>6. Thenables' = Thenables /\ \A i \in Thenables : jobs'[i] = jobs[i]
      BY <2>4, <2>5, <1>1
    <2>7. ResolverInv'
      BY ONLY <2>2, <2>6, <1>0, PInv, SameResolvers DEF PInv
    <2> QED
      BY <2>2, <2>3, <2>5, <2>7 DEF Kept
  <1>5. ASSUME <<p, n>> \notin alreadyResolved
        PROVE  /\ ~Settled(p)
               /\ \/ n = pairs[p] /\ pairs' = pairs
                  \/ state[p] = "unborn" /\ n = 1 /\ pairs' = [pairs EXCEPT ![p] = 1]
    <2>1. n \in 1..pairs[p] => n = pairs[p] /\ state[p] = "pending"
      BY <1>5, Uncalled
    <2> QED
      BY <2>1 DEF Settled, Outcomes
  <1>6. ASSUME <<p, n>> \notin alreadyResolved, alreadyResolved' = alreadyResolved \cup {<<p, n>>},
               NEW s \in Outcomes, NEW v \in Plain, Settles(p, s, v)
        PROVE  Records' /\ Lists' /\ Queued' /\ ResolverInv' /\ begun' \in 0..Len(jobs') /\ Kept
    <2>1. Records' /\ Lists' /\ Queued'
      BY <1>5, <1>6, SettleLists
    <2>2. PICK new : new = Triggered(ListOf(p, s), v)
      OBVIOUS
    <2>3. /\ new \in Seq(JobRecords) /\ jobs' = jobs \o new
          /\ \A i \in 1..Len(new) : new[i].kind = "reaction"
      <3>1. PICK list : list = ListOf(p, s)
        OBVIOUS
      <3>2. list \in Seq(Nat)
        BY <3>1, ListTypes
      <3>3. /\ new \in Seq(JobRecords) /\ Len(new) = Len(list)
            /\ \A i \in 1..Len(list) : new[i].kind = "reaction"
        BY <2>2, <3>1, <3>2, TriggeredJobs
      <3> QED
        BY <2>2, <3>3, <1>6 DEF Settles
    <2>4. /\ begun' \in 0..Len(jobs')
          /\ \A i \in Thenables : i \in 1..Len(jobs) /\ (i = begun' \/ i \in Thenables') /\ jobs'[i] = jobs[i]
          /\ \A i \in Thenables' :
                i \in Thenables \/ \E k \in 1..Len(new) : new[k].kind = "thenable"
      BY <2>3, ThenablesKept
    <2>5. /\ \A i \in Thenables : i \in Thenables' /\ jobs'[i] = jobs[i]
          /\ \A i \in Thenables' : i \in Thenables
      BY <2>3, <2>4, <1>1
    <2>6. /\ follows[p] \in Objects \cup {None} /\ follows' = [follows EXCEPT ![p] = follows[p]]
          /\ follows[p] # p /\ (follows[p] \in Promises => Born(follows[p]))
      BY <1>6 DEF Resolvers, LastPair, Settles
    <2>7. /\ state'[p] # "unborn" /\ state'[p] # "pending"
          /\ \A x \in Promises : x # p => state'[x] = state[x]
      BY <1>6 DEF Settles, Records, Outcomes
    <2>8. ResolverInv'
      <3>1. 0 \in Nat
        OBVIOUS
      <3> QED
        BY <3>1, <1>0, <1>5, <1>6, <2>5, <2>6, <2>7, Decided
    <2>9. Kept
      BY <2>3, Grown DEF Kept
    <2> QED
      BY <2>1, <2>4, <2>8, <2>9
  <1>7. ASSUME <<p, n>> \notin alreadyResolved, alreadyResolved' = alreadyResolved \cup {<<p, n>>},
               NEW v \in Objects \ {p}, v \in Promises => Born(v), FollowThenable(p, v)
        PROVE  Records' /\ Lists' /\ Queued' /\ ResolverInv' /\ begun' \in 0..Len(jobs') /\ Kept
    <2>1. PICK new : /\ new = <<Job("thenable", p, v)>> \/ (new = <<>> /\ v = Thenable)
                     /\ jobs' = jobs \o new
      <3>1. jobs \o <<>> = jobs
        BY DEF Records
      <3> QED
        BY <3>1, <1>7 DEF FollowThenable, Enqueue
    <2>2. /\ new \in Seq(JobRecords) /\ \A i \in 1..Len(new) : i = 1 /\ new[i] = Job("thenable", p, v)
          /\ Job("thenable", p, v).kind = "thenable" /\ Job("thenable", p, v).who = p
          /\ v = Thenable \/ (Len(new) = 1 /\ new[1] = Job("thenable", p, v))
      <3>1. PICK e : e = Job("thenable", p, v)
        OBVIOUS
      <3>2. e \in JobRecords /\ e.kind = "thenable" /\ e.who = p
        BY <3>1 DEF Job, JobRecords
      <3>3. /\ <<e>> \in Seq(JobRecords) /\ Len(<<e>>) = 1 /\ <<e>>[1] = e /\ 1..1 = {1}
            /\ <<>> \in Seq(JobRecords) /\ Len(<<>>) = 0 /\ 1..0 = {}
        BY <3>2
      <3> QED
        BY <3>1, <3>2, <3>3, <2>1
    <2>3. state' = [state EXCEPT ![p] = "pending"] /\ follows' = [follows EXCEPT ![p] = v]
      BY <1>7 DEF FollowThenable
    <2>4. Records' /\ Lists' /\ Queued'
      <3>1. \A i \in 1..Len(new) : new[i].kind # "reaction"
        BY <2>2
      <3> QED
        BY <3>1, <2>1, <2>2, <2>3, <1>5, <1>7, QuietLists DEF FollowThenable
    <2>5. /\ begun' \in 0..Len(jobs')
          /\ \A i \in Thenables : i \in 1..Len(jobs) /\ (i = begun' \/ i \in Thenables') /\ jobs'[i] = jobs[i]
          /\ \A i \in Thenables' :
                i \in Thenables \/ \E k \in 1..Len(new) : i = Len(jobs) + k /\ jobs'[i] = new[k]
          /\ \A k \in 1..Len(new) :
                new[k].kind = "thenable" => Len(jobs) + k \in Thenables' /\ jobs'[Len(jobs) + k] = new[k]
      <3>1. begun' = begun \/ (begun' = begun + 1 /\ begun < Len(jobs))
        BY <1>7 DEF FollowThenable
      <3>2. /\ begun' \in 0..Len(jobs')
            /\ \A i \in Thenables : i \in 1..Len(jobs) /\ (i = begun' \/ i \in Thenables') /\ jobs'[i] = jobs[i]
            /\ \A i \in Thenables' :
                  \/ i \in Thenables /\ i # begun' /\ jobs'[i] = jobs[i]
                  \/ \E k \in 1..Len(new) : i = Len(jobs) + k /\ jobs'[i] = new[k] /\ new[k].kind = "thenable"
            /\ \A k \in 1..Len(new) :
                  new[k].kind = "thenable" => Len(jobs) + k \in Thenables' /\ jobs'[Len(jobs) + k] = new[k]
        BY ONLY Records, Loop, <2>1, <2>2, <3>1, ThenablesKept, Zenon
      <3> QED
        BY ONLY <3>2, Zenon
    <2>6. /\ \A i \in Thenables : i \in Thenables' /\ jobs'[i] = jobs[i]
          /\ \A i \in Thenables' :
                i \in Thenables \/ (i = Len(jobs) + 1 /\ jobs'[i] = Job("thenable", p, v))
          /\ v = Thenable \/ \E i \in Thenables' : jobs'[i].who = p
      <3>1. \A i \in Thenables : i \in Thenables' /\ jobs'[i] = jobs[i]
        BY <2>5, <1>1
      <3>2. \A i \in Thenables' :
                i \in Thenables \/ (i = Len(jobs) + 1 /\ jobs'[i] = Job("thenable", p, v))
        BY <2>2, <2>5
      <3>3. v = Thenable \/ \E i \in Thenables' : jobs'[i].who = p
        <4>1. 1 \in 1..1
          OBVIOUS
        <4> QED
          BY <4>1, <2>2, <2>5
      <3> QED
        BY <3>1, <3>2, <3>3
    <2>7. state'[p] = "pending" /\ \A x \in Promises : x # p => state'[x] = state[x]
      BY <2>3 DEF Records
    <2>8. v # p /\ v \in Objects \cup {None} /\ (v \in Promises => Born(v))
      BY <1>7
    <2>9. ResolverInv'
      <3>1. PICK l \in Nat : l = Len(jobs) + 1
        BY JobTypes
      <3>2. \A i \in Thenables' :
               \/ i \in Thenables
               \/ i = l /\ jobs'[i].who = p /\ jobs'[i].arg = v /\ state'[p] = "pending"
        BY <3>1, <2>6, <2>7 DEF Job
      <3>3. state'[p] # "unborn" /\ (state'[p] = "pending" => v = Thenable \/ \E i \in Thenables' : jobs'[i].who = p)
        BY <2>6, <2>7
      <3>4. /\ Records /\ Loop /\ UNCHANGED <<held, reactions>>
            /\ \/ n = pairs[p] /\ pairs' = pairs
               \/ state[p] = "unborn" /\ n = 1 /\ pairs' = [pairs EXCEPT ![p] = 1]
        BY <1>5, <1>7
      <3>5. v \in Objects \cup {None} /\ v # p /\ (v \in Promises => Born(v))
        BY <2>8
      <3>6. \A i \in Thenables : i \in Thenables' /\ jobs'[i] = jobs[i]
        BY <2>6
      <3>7. \A x \in Promises : x # p => state'[x] = state[x]
        BY <2>7
      <3>8. follows' = [follows EXCEPT ![p] = v]
        BY <2>3
      <3>9. <<p, n>> \notin alreadyResolved /\ alreadyResolved' = alreadyResolved \cup {<<p, n>>}
        BY <1>7
      <3> QED
        BY ONLY <1>0, l \in Nat, <3>2, <3>3, <3>4, <3>5, <3>6, <3>7, <3>8, <3>9, Decided, p \in Promises, n \in Nat \ {0}
    <2>10. Kept
      BY <2>1, <2>2, Grown DEF Kept
    <2> QED
      BY <2>4, <2>5, <2>9, <2>10
  <1> QED
    BY <1>4, <1>6, <1>7 DEF Outcome

\* A promise that is new.
LEMMA FreshPromise ==
  ASSUME Room
  PROVE  Fresh \in Promises /\ state[Fresh] = "unborn"
  BY DEF Room, Fresh, Born

\* then, on behalf of the program or of a thenable's job.
LEMMA PerformedThen ==
  ASSUME Records, Lists, Queued, NEW q \in Promises,
         NEW f \in Handlers, NEW g \in Handlers, NEW d \in Promises \cup {None},
         PerformThen(q, f, g, d), NEW c \in Promises, Bears(c), UNCHANGED result
  PROVE  /\ Records' /\ Lists' /\ Queued' /\ Kept
         /\ \A r \in DOMAIN reactions' :
               \/ r \in DOMAIN reactions /\ reactions'[r] = reactions[r]
               \/ reactions'[r] = Reaction(q, "fulfilled", f, d)
               \/ reactions'[r] = Reaction(q, "rejected", g, d)
         /\ \E new \in Seq(JobRecords) :
               jobs' = jobs \o new /\ \A k \in 1..Len(new) : new[k].kind = "reaction"
  <1>1. PICK rf, rr : rf = Reaction(q, "fulfilled", f, d) /\ rr = Reaction(q, "rejected", g, d)
    OBVIOUS
  <1>2. rf \in ReactionRecords /\ rr \in ReactionRecords /\ reactions \in Seq(ReactionRecords)
    BY <1>1 DEF Records, Reaction, ReactionRecords, Outcomes
  <1>3. ASSUME UNCHANGED jobs
        PROVE  \E new \in Seq(JobRecords) :
                  jobs' = jobs \o new /\ \A k \in 1..Len(new) : new[k].kind = "reaction"
    <2>1. jobs \o <<>> = jobs /\ <<>> \in Seq(JobRecords) /\ 1..Len(<<>>) = {}
      BY DEF Records
    <2> QED
      BY <2>1, <1>3
  <1>4. CASE /\ state[q] = "pending"
             /\ reactions' = reactions \o <<rf, rr>>
             /\ fulfillReactions' = [fulfillReactions EXCEPT ![q] = Append(@, Len(reactions) + 1)]
             /\ rejectReactions' = [rejectReactions EXCEPT ![q] = Append(@, Len(reactions) + 2)]
             /\ UNCHANGED jobs
    <2>1. Records' /\ Lists' /\ Queued'
      BY <1>1, <1>4, ThenPending
    <2>2. <<rf, rr>> \in Seq(ReactionRecords) /\ Len(<<rf, rr>>) = 2 /\ <<rf, rr>>[1] = rf /\ <<rf, rr>>[2] = rr
      BY <1>2
    <2>3. PICK n : n = Len(reactions)
      OBVIOUS
    <2>4. /\ n \in Nat /\ DOMAIN reactions' = 1..(n + 2) /\ DOMAIN reactions = 1..n
          /\ \A r \in 1..n : reactions'[r] = reactions[r]
          /\ \A r \in 1..2 : reactions'[n + r] = <<rf, rr>>[r]
      BY <1>2, <1>4, <2>2, <2>3, Concat
    <2>5. \A r \in 1..(n + 2) : r \in 1..n \/ (r = n + 1) \/ (r = n + 2)
      BY <2>4
    <2>6. reactions'[n + 1] = rf /\ reactions'[n + 2] = rr
      BY <2>2, <2>4
    <2>7. Kept
      BY <2>4, <1>4 DEF Kept
    <2> QED
      BY <2>1, <2>4, <2>5, <2>6, <2>7, <1>1, <1>3, <1>4
  <1>5. CASE \E s \in Outcomes, h \in Handlers, e \in {rf, rr} :
                 /\ state[q] = s /\ e = Reaction(q, s, h, d)
                 /\ reactions' = Append(reactions, e)
                 /\ jobs' = jobs \o <<Job("reaction", Len(reactions) + 1, result[q])>>
                 /\ UNCHANGED <<fulfillReactions, rejectReactions>>
    <2>0. PICK s \in Outcomes, h \in Handlers, e \in {rf, rr} :
             /\ state[q] = s /\ e = Reaction(q, s, h, d)
             /\ reactions' = Append(reactions, e)
             /\ jobs' = jobs \o <<Job("reaction", Len(reactions) + 1, result[q])>>
             /\ UNCHANGED <<fulfillReactions, rejectReactions>>
      BY ONLY <1>5
    <2>1. Records' /\ Lists' /\ Queued'
      BY <2>0, ThenSettled
    <2>2. e \in ReactionRecords
      BY <2>0 DEF Reaction, ReactionRecords
    <2>3. PICK n : n = Len(reactions)
      OBVIOUS
    <2>4. /\ n \in Nat /\ DOMAIN reactions' = 1..(n + 1) /\ DOMAIN reactions = 1..n
          /\ \A r \in 1..n : reactions'[r] = reactions[r]
          /\ reactions'[n + 1] = e
      BY <1>2, <2>0, <2>2, <2>3, Appended
    <2>5. \A r \in 1..(n + 1) : r \in 1..n \/ (r = n + 1)
      BY <2>4
    <2>6. result[q] \in Plain
      <3>1. result[q] # None
        BY <2>0 DEF Lists, Settled
      <3> QED
        BY <3>1 DEF Records
    <2>7. PICK j : j = Job("reaction", Len(reactions) + 1, result[q])
      OBVIOUS
    <2>8. j \in JobRecords /\ j.kind = "reaction"
      BY <2>3, <2>4, <2>6, <2>7 DEF Job, JobRecords
    <2>9. <<j>> \in Seq(JobRecords) /\ 1..Len(<<j>>) = {1} /\ <<j>>[1] = j
      BY ONLY <2>8
    <2>10. PICK new : new = <<j>>
      OBVIOUS
    <2>11. new \in Seq(JobRecords) /\ jobs' = jobs \o new /\ \A k \in 1..Len(new) : new[k].kind = "reaction"
      BY <2>0, <2>7, <2>8, <2>9, <2>10
    <2>12. Kept
      <3>1. \A i \in 1..Len(jobs) : jobs'[i] = jobs[i]
        BY <2>11, Grown
      <3>2. /\ 1..Len(jobs) \subseteq DOMAIN jobs'
            /\ DOMAIN jobs = 1..Len(jobs)
        BY <2>11, Grown
      <3> QED
        BY ONLY <2>4, <3>1, <3>2 DEF Kept
    <2> QED
      <3>1. \A r \in DOMAIN reactions' :
               \/ r \in DOMAIN reactions /\ reactions'[r] = reactions[r]
               \/ reactions'[r] = rf \/ reactions'[r] = rr
        BY ONLY <2>0, <2>4, <2>5
      <3> QED
        BY <1>1, <2>1, <2>11, <2>12, <3>1
  <1>6. CASE /\ state[q] = "fulfilled"
             /\ reactions' = Append(reactions, rf)
             /\ jobs' = jobs \o <<Job("reaction", Len(reactions) + 1, result[q])>>
             /\ UNCHANGED <<fulfillReactions, rejectReactions>>
    <2>1. "fulfilled" \in Outcomes /\ f \in Handlers /\ rf \in {rf, rr}
      BY DEF Outcomes
    <2>2. rf = Reaction(q, "fulfilled", f, d)
      BY <1>1
    <2>3. \E s \in Outcomes, h \in Handlers, e \in {rf, rr} :
             /\ state[q] = s /\ e = Reaction(q, s, h, d)
             /\ reactions' = Append(reactions, e)
             /\ jobs' = jobs \o <<Job("reaction", Len(reactions) + 1, result[q])>>
             /\ UNCHANGED <<fulfillReactions, rejectReactions>>
      BY ONLY <2>1, <2>2, <1>6
    <2> QED
      BY <2>3, <1>5
  <1>7. CASE /\ state[q] = "rejected"
             /\ reactions' = Append(reactions, rr)
             /\ jobs' = jobs \o <<Job("reaction", Len(reactions) + 1, result[q])>>
             /\ UNCHANGED <<fulfillReactions, rejectReactions>>
    <2>1. "rejected" \in Outcomes /\ g \in Handlers /\ rr \in {rf, rr}
      BY DEF Outcomes
    <2>2. rr = Reaction(q, "rejected", g, d)
      BY <1>1
    <2>3. \E s \in Outcomes, h \in Handlers, e \in {rf, rr} :
             /\ state[q] = s /\ e = Reaction(q, s, h, d)
             /\ reactions' = Append(reactions, e)
             /\ jobs' = jobs \o <<Job("reaction", Len(reactions) + 1, result[q])>>
             /\ UNCHANGED <<fulfillReactions, rejectReactions>>
      BY ONLY <2>1, <2>2, <1>7
    <2> QED
      BY <2>3, <1>5
  <1> QED
    <2>1. Len(reactions) + 1 + 1 = Len(reactions) + 2
      BY JobTypes
    <2> QED
      BY <2>1, <1>1, <1>4, <1>6, <1>7 DEF PerformThen, Enqueue

\* What was freed, or is freed now, is of a job that has ended.
LEMMA FreedKept ==
  ASSUME PInv, Kept,
         begun' = begun + 1 \/ (begun' = begun /\ (mode' = "handler" => mode = "handler")),
         \A r \in freed' : r \in freed \/ \E i \in ReactionJobs : jobs[i].who = r /\ Done(i)'
  PROVE  FreedAfter'
  <1>1. \A i \in ReactionJobs : i \in ReactionJobs' /\ jobs'[i] = jobs[i] /\ i \in Nat
    BY JobTypes DEF PInv, Kept, ReactionJobs, IsReaction
  <1>2. begun \in Nat
    BY JobTypes DEF PInv, Loop
  <1>3. \A i \in ReactionJobs : Done(i) => Done(i)'
    BY <1>1, <1>2 DEF Done
  <1>4. \A r \in freed : \E i \in ReactionJobs : jobs[i].who = r /\ Done(i)
    BY DEF PInv, FreedAfter
  <1>5. \A r \in freed' : \E i \in ReactionJobs' : jobs'[i].who = r /\ Done(i)'
    BY <1>1, <1>3, <1>4
  <1> QED
    BY <1>5 DEF FreedAfter

\* The call goes on, or the job returns.
LEMMA InCallKept ==
  ASSUME PInv, Kept, begun' = begun, held \subseteq held', mode' = "handler" => mode = "handler",
         \A x \in Promises : Born(x) => pairs'[x] = pairs[x]
  PROVE  InCall'
  <1> SUFFICES ASSUME mode' = "handler"
               PROVE  /\ begun > 0
                      /\ jobs'[begun].kind = "reaction" => reactions'[jobs'[begun].who].handler = User
                      /\ jobs'[begun].kind = "thenable" => <<jobs'[begun].who, pairs'[jobs'[begun].who]>> \in held'
    BY DEF InCall, Current
  <1>1. /\ begun > 0
        /\ jobs[begun].kind = "reaction" => reactions[jobs[begun].who].handler = User
        /\ jobs[begun].kind = "thenable" => <<jobs[begun].who, pairs[jobs[begun].who]>> \in held
    BY DEF PInv, InCall, Current
  <1>2. begun \in DOMAIN jobs /\ jobs'[begun] = jobs[begun]
    <2>1. begun \in 1..Len(jobs)
      BY <1>1, JobTypes DEF PInv, Loop
    <2> QED
      BY <2>1, JobTypes DEF PInv, Kept
  <1>3. jobs[begun].kind = "reaction" => reactions'[jobs[begun].who] = reactions[jobs[begun].who]
    <2>1. jobs[begun].kind = "reaction" => jobs[begun].who \in DOMAIN reactions
      BY <1>2 DEF PInv, Queued, ReactionJobs, IsReaction
    <2> QED
      BY <2>1 DEF Kept
  <1>4. jobs[begun].kind = "thenable" => pairs'[jobs[begun].who] = pairs[jobs[begun].who]
    <2> SUFFICES ASSUME jobs[begun].kind = "thenable"
                 PROVE  pairs'[jobs[begun].who] = pairs[jobs[begun].who]
      OBVIOUS
    <2>1. jobs[begun].who \in Promises
      BY <1>2, JobTypes DEF PInv
    <2>2. PICK x \in Promises : x = jobs[begun].who
      BY <2>1
    <2>3. pairs[x] \in 1..pairs[x]
      BY <1>1, <2>2 DEF PInv, LastPair
    <2>4. pairs[x] # 0
      BY <2>3
    <2> QED
      BY <2>2, <2>4 DEF PInv, LastPair, Born
  <1> QED
    BY <1>1, <1>2, <1>3, <1>4

\* A function is called in program code, and freed only once the job has ended.
LEMMA CalledInProgram ==
  ASSUME PInv, UNCHANGED <<reactions, held, begun>>,
         NEW p \in Promises, NEW n \in Nat \ {0}, Outcome(p, n),
         \/ n \in 1..pairs[p] /\ pairs' = pairs
         \/ state[p] = "unborn" /\ n = 1 /\ pairs' = [pairs EXCEPT ![p] = 1],
         mode' = mode \/ mode' = "idle",
         \A r \in freed' : r \in freed \/ \E i \in ReactionJobs : jobs[i].who = r /\ Done(i)'
  PROVE  PInv' /\ Kept
  <1>1. Records' /\ Lists' /\ Queued' /\ ResolverInv' /\ begun' \in 0..Len(jobs') /\ Kept
    BY Deciding
  <1>2. Loop'
    BY <1>1 DEF Loop, PInv
  <1>3. \A x \in Promises : Born(x) => pairs'[x] = pairs[x]
    BY DEF Born, PInv, Resolvers
  <1>4. FreedAfter'
    BY <1>1, FreedKept
  <1>5. InCall'
    BY <1>1, <1>3, InCallKept
  <1> QED
    BY <1>1, <1>2, <1>4, <1>5 DEF PInv, ResolverInv

\* Promise.resolve, Promise.reject and the functions that the program holds.
LEMMA ScriptDecides ==
  ASSUME PInv,
         \/ \E v \in Known : StaticResolve(v)
         \/ \E v \in Values : StaticReject(v)
         \/ \E p \in Promises, n \in 1..MaxPairs, v \in Known : CallResolve(p, n, v)
         \/ \E p \in Promises, n \in 1..MaxPairs, v \in Values : CallReject(p, n, v)
  PROVE  PInv' /\ Kept
  <1>1. /\ UNCHANGED <<reactions, held, begun>> /\ mode' = mode
        /\ \A r \in freed' : r \in freed
    BY DEF StaticResolve, StaticReject, CallResolve, CallReject
  <1>2. ASSUME Room, Outcome(Fresh, 1), pairs' = [pairs EXCEPT ![Fresh] = 1]
        PROVE  PInv' /\ Kept
    <2>1. Fresh \in Promises /\ state[Fresh] = "unborn" /\ 1 \in Nat \ {0}
      BY <1>2, FreshPromise
    <2> QED
      BY <1>1, <1>2, <2>1, CalledInProgram
  <1>3. ASSUME NEW p \in Promises, NEW n, <<p, n>> \in held, Outcome(p, n), pairs' = pairs
        PROVE  PInv' /\ Kept
    <2>1. n \in 1..pairs[p]
      BY <1>3 DEF PInv, LastPair
    <2>2. n \in Nat \ {0}
      BY <1>3, <2>1 DEF PInv, Resolvers
    <2> QED
      BY <1>1, <1>3, <2>1, <2>2, CalledInProgram
  <1>4. Values \subseteq Plain
    BY PlainValues
  <1>5. ASSUME NEW v \in Known, StaticResolve(v)
        PROVE  PInv' /\ Kept
    <2>1. Room /\ Resolve(Fresh, 1, v) /\ pairs' = [pairs EXCEPT ![Fresh] = 1] /\ UNCHANGED reactions
      BY <1>5 DEF StaticResolve
    <2>2. Fresh \in Promises
      BY <2>1, FreshPromise
    <2> QED
      BY <2>1, <2>2, <1>2, ResolveOutcome
  <1>6. ASSUME NEW v \in Values, StaticReject(v)
        PROVE  PInv' /\ Kept
    <2>1. Room /\ Reject(Fresh, 1, v) /\ pairs' = [pairs EXCEPT ![Fresh] = 1] /\ UNCHANGED reactions
      BY <1>6 DEF StaticReject
    <2>2. Fresh \in Promises /\ v \in Plain
      BY <2>1, <1>4, FreshPromise
    <2> QED
      BY <2>1, <2>2, <1>2, RejectOutcome
  <1>7. ASSUME NEW p \in Promises, NEW n, NEW v \in Known, CallResolve(p, n, v)
        PROVE  PInv' /\ Kept
    <2>1. <<p, n>> \in held /\ Resolve(p, n, v) /\ pairs' = pairs /\ UNCHANGED reactions
      BY <1>7 DEF CallResolve
    <2> QED
      BY <2>1, <1>3, ResolveOutcome
  <1>8. ASSUME NEW p \in Promises, NEW n, NEW v \in Values, CallReject(p, n, v)
        PROVE  PInv' /\ Kept
    <2>1. <<p, n>> \in held /\ Reject(p, n, v) /\ pairs' = pairs /\ UNCHANGED reactions
      BY <1>8 DEF CallReject
    <2> QED
      BY <2>1, <1>3, <1>4, RejectOutcome
  <1> QED
    BY <1>5, <1>6, <1>7, <1>8

\* The reaction that an index of the jobs names, and what it may call.
LEMMA ReactionOf ==
  ASSUME PInv, NEW i \in DOMAIN jobs, jobs[i].kind = "reaction"
  PROVE  /\ jobs[i].who \in DOMAIN reactions /\ jobs[i].arg \in Plain /\ i \in ReactionJobs
         /\ Fit(reactions[jobs[i].who])
         /\ reactions[jobs[i].who].handler \in {User, Identity, Thrower} =>
               reactions[jobs[i].who].cap \in Promises /\ 1 \in 1..pairs[reactions[jobs[i].who].cap]
         /\ reactions[jobs[i].who].handler.kind \in {"resolve", "reject"} =>
               /\ reactions[jobs[i].who].handler.of \in Promises
               /\ reactions[jobs[i].who].handler.pair \in 1..pairs[reactions[jobs[i].who].handler.of]
               /\ reactions[jobs[i].who].handler.pair \in Nat \ {0}
  <1>0. PICK r : r = jobs[i].who
    OBVIOUS
  <1>1. i \in ReactionJobs
    BY DEF ReactionJobs, IsReaction
  <1>2. r \in DOMAIN reactions
    BY <1>0, <1>1 DEF PInv, Queued
  <1>3. jobs[i].arg \in Plain
    BY JobTypes DEF PInv
  <1>4. PICK x : x = reactions[r]
    OBVIOUS
  <1>5. Fit(x)
    BY <1>2, <1>4 DEF PInv, HandlersFit
  <1>6. \A h \in {User, Identity, Thrower} : h.kind \notin {"resolve", "reject"}
    BY DEF User, Identity, Thrower, Fn
  <1>7. x.handler \in {User, Identity, Thrower} => x.cap \in Promises /\ 1 \in 1..pairs[x.cap]
    <2> SUFFICES ASSUME x.handler \in {User, Identity, Thrower}
                 PROVE  x.cap \in Promises /\ 1 \in 1..pairs[x.cap]
      OBVIOUS
    <2>1. x.cap \in Promises /\ Born(x.cap)
      <3>1. x.handler.kind # "resolve" /\ x.handler.kind # "reject"
        BY <1>6
      <3> QED
        BY <3>1, <1>5 DEF Fit
    <2>2. pairs[x.cap] # 0 /\ pairs[x.cap] \in Nat
      BY <2>1 DEF PInv, Resolvers, LastPair, Born
    <2> QED
      BY <2>1, <2>2
  <1>8. x.handler.kind \in {"resolve", "reject"} =>
           x.handler.of \in Promises /\ x.handler.pair \in 1..pairs[x.handler.of] /\ x.handler.pair \in Nat \ {0}
    <2> SUFFICES ASSUME x.handler.kind \in {"resolve", "reject"}
                 PROVE  x.handler.of \in Promises /\ x.handler.pair \in 1..pairs[x.handler.of] /\ x.handler.pair \in Nat \ {0}
      OBVIOUS
    <2>1. x.handler \notin {User, Identity, Thrower}
      BY <1>6
    <2>2. x.handler.of \in Promises /\ x.handler.pair \in 2..pairs[x.handler.of]
      BY <2>1, <1>5 DEF Fit
    <2>3. pairs[x.handler.of] \in Nat
      BY <2>2 DEF PInv, Resolvers
    <2> QED
      BY <2>2, <2>3
  <1> QED
    BY <1>0, <1>1, <1>2, <1>3, <1>4, <1>5, <1>7, <1>8 DEF Fit

\* What the callback that a job has called does to its promise.
LEMMA ReturnDecides ==
  ASSUME PInv,
         \/ \E v \in Known : HandlerReturns(v)
         \/ \E v \in Values : HandlerThrows(v) \/ ThenThrows(v)
  PROVE  PInv' /\ Kept
  <1>1. /\ UNCHANGED <<reactions, pairs, held, begun>> /\ mode = "handler" /\ mode' = "idle"
        /\ InCall /\ Loop
    BY DEF HandlerReturns, HandlerThrows, ThenThrows, InHandler, PInv
  <1>2. begun \in DOMAIN jobs
    <2>1. begun \in 1..Len(jobs)
      BY <1>1, JobTypes DEF PInv, InCall, Loop
    <2> QED
      BY <2>1, JobTypes DEF PInv
  <1>3. 1 \in Nat \ {0} /\ Values \subseteq Plain
    BY PlainValues
  <1>4. ASSUME jobs[begun].kind = "reaction", Finish(jobs[begun].who),
               Outcome(reactions[jobs[begun].who].cap, 1)
        PROVE  PInv' /\ Kept
    <2>1. /\ begun \in ReactionJobs
          /\ reactions[jobs[begun].who].cap \in Promises /\ 1 \in 1..pairs[reactions[jobs[begun].who].cap]
      <3>1. reactions[jobs[begun].who].handler = User
        BY <1>1, <1>4 DEF InCall, Current
      <3> QED
        BY <3>1, <1>2, <1>4, ReactionOf
    <2>2. Done(begun)'
      BY <1>1 DEF Done
    <2>3. \A r \in freed' : r \in freed \/ \E i \in ReactionJobs : jobs[i].who = r /\ Done(i)'
      <3>1. PICK b : b = begun
        OBVIOUS
      <3>2. Done(b)'
        BY <3>1, <1>1 DEF Done
      <3> QED
        BY <3>1, <3>2, <2>1, <1>4 DEF Finish
    <2> QED
      BY <2>1, <2>3, <1>1, <1>3, <1>4, CalledInProgram
  <1>5. ASSUME NEW v \in Known, HandlerReturns(v)
        PROVE  PInv' /\ Kept
    <2>1. /\ jobs[begun].kind = "reaction" /\ Finish(jobs[begun].who) /\ UNCHANGED reactions
          /\ Resolve(reactions[jobs[begun].who].cap, 1, v)
      BY <1>5 DEF HandlerReturns, InHandler, Current
    <2>2. reactions[jobs[begun].who].cap \in Promises
      <3>1. reactions[jobs[begun].who].handler = User
        BY <1>1, <2>1 DEF InCall, Current
      <3> QED
        BY <3>1, <1>2, <2>1, ReactionOf
    <2> QED
      BY <2>1, <2>2, <1>4, ResolveOutcome
  <1>6. ASSUME NEW v \in Values, HandlerThrows(v)
        PROVE  PInv' /\ Kept
    <2>1. /\ jobs[begun].kind = "reaction" /\ Finish(jobs[begun].who) /\ UNCHANGED reactions
          /\ Reject(reactions[jobs[begun].who].cap, 1, v)
      BY <1>6 DEF HandlerThrows, InHandler, Current
    <2>2. reactions[jobs[begun].who].cap \in Promises
      <3>1. reactions[jobs[begun].who].handler = User
        BY <1>1, <2>1 DEF InCall, Current
      <3> QED
        BY <3>1, <1>2, <2>1, ReactionOf
    <2> QED
      BY <2>1, <2>2, <1>3, <1>4, RejectOutcome
  <1>7. ASSUME NEW v \in Values, ThenThrows(v)
        PROVE  PInv' /\ Kept
    <2>1. PICK p, n : p = jobs[begun].who /\ n = pairs[p]
      OBVIOUS
    <2>2. jobs[begun].kind = "thenable" /\ Reject(p, n, v) /\ UNCHANGED <<reactions, freed>>
      BY <1>7, <2>1 DEF ThenThrows, InHandler, Current
    <2>3. p \in Promises
      BY <1>2, <2>1, <2>2, JobTypes DEF PInv
    <2>4. n \in 1..pairs[p] /\ n \in Nat \ {0}
      <3>1. <<p, n>> \in held
        BY <1>1, <2>1, <2>2 DEF InCall, Current
      <3>2. n \in 1..pairs[p]
        BY <3>1 DEF PInv, LastPair
      <3> QED
        BY <3>1, <3>2 DEF PInv, Resolvers
    <2>5. Outcome(p, n)
      BY <2>2, <2>3, <1>3, RejectOutcome
    <2> QED
      BY <2>2, <2>3, <2>4, <2>5, <1>1, CalledInProgram
  <1> QED
    BY <1>5, <1>6, <1>7

\* The job that begins.
LEMMA Beginning ==
  ASSUME PInv, Begin
  PROVE  /\ begun \in Nat /\ begun + 1 \in DOMAIN jobs /\ begun < Len(jobs)
         /\ begun' = begun + 1 /\ mode = "idle"
  <1>1. begun \in 0..Len(jobs) /\ Len(jobs) \in Nat /\ DOMAIN jobs = 1..Len(jobs)
    BY JobTypes DEF PInv, Loop
  <1> QED
    BY <1>1 DEF Begin

\* A reaction job whose handler is the runtime's own.
LEMMA ReactionTaskStep ==
  ASSUME PInv, NEW r \in DOMAIN reactions, ReactionTask(r)
  PROVE  PInv' /\ Kept
  <1>1. /\ begun \in Nat /\ begun + 1 \in DOMAIN jobs /\ begun < Len(jobs)
        /\ begun' = begun + 1 /\ mode = "idle"
    BY Beginning DEF ReactionTask
  <1>2. PICK i, x : i = begun + 1 /\ x = reactions[r]
    OBVIOUS
  <1>3. /\ jobs[i].kind = "reaction" /\ jobs[i].who = r /\ Finish(r)
        /\ UNCHANGED <<reactions, pairs, held, mode>>
        /\ \/ x.handler = Identity /\ Resolve(x.cap, 1, jobs[i].arg)
           \/ x.handler = Thrower /\ Reject(x.cap, 1, jobs[i].arg)
           \/ x.handler.kind = "resolve" /\ Resolve(x.handler.of, x.handler.pair, jobs[i].arg)
           \/ x.handler.kind = "reject" /\ Reject(x.handler.of, x.handler.pair, jobs[i].arg)
    BY <1>2 DEF ReactionTask, NextJob
  <1>4. /\ jobs[i].arg \in Plain /\ i \in ReactionJobs
        /\ x.handler \in {User, Identity, Thrower} => x.cap \in Promises /\ 1 \in 1..pairs[x.cap]
        /\ x.handler.kind \in {"resolve", "reject"} =>
              /\ x.handler.of \in Promises /\ x.handler.pair \in 1..pairs[x.handler.of]
              /\ x.handler.pair \in Nat \ {0}
    BY <1>1, <1>2, <1>3, ReactionOf
  <1>5. jobs[i].arg \in Known /\ 1 \in Nat \ {0}
    BY <1>4 DEF Known
  <1>6. PICK p \in Promises, n \in Nat \ {0} : n \in 1..pairs[p] /\ Outcome(p, n)
    <2>1. CASE x.handler = Identity /\ Resolve(x.cap, 1, jobs[i].arg)
      BY <2>1, <1>3, <1>4, <1>5, ResolveOutcome
    <2>2. CASE x.handler = Thrower /\ Reject(x.cap, 1, jobs[i].arg)
      BY <2>2, <1>3, <1>4, <1>5, RejectOutcome
    <2>3. CASE x.handler.kind = "resolve" /\ Resolve(x.handler.of, x.handler.pair, jobs[i].arg)
      BY <2>3, <1>3, <1>4, <1>5, ResolveOutcome
    <2>4. CASE x.handler.kind = "reject" /\ Reject(x.handler.of, x.handler.pair, jobs[i].arg)
      BY <2>4, <1>3, <1>4, <1>5, RejectOutcome
    <2> QED
      BY <1>3, <2>1, <2>2, <2>3, <2>4
  <1>7. Records' /\ Lists' /\ Queued' /\ ResolverInv' /\ begun' \in 0..Len(jobs') /\ Kept
    BY <1>1, <1>2, <1>3, <1>6, Deciding
  <1>8. FreedAfter'
    <2>1. Done(i)'
      BY <1>1, <1>2, <1>3 DEF Done
    <2>2. \A y \in freed' : y \in freed \/ \E j \in ReactionJobs : jobs[j].who = y /\ Done(j)'
      BY <2>1, <1>3, <1>4 DEF Finish
    <2> QED
      BY <2>2, <1>1, <1>7, FreedKept
  <1>9. Loop' /\ InCall'
    BY <1>1, <1>3, <1>7 DEF Loop, InCall
  <1> QED
    BY <1>7, <1>8, <1>9 DEF PInv, ResolverInv

\* new Promise
LEMMA NewPromiseStep ==
  ASSUME PInv, NewPromise
  PROVE  PInv' /\ Kept
  <1>1. PICK p \in Promises : p = Fresh /\ state[p] = "unborn"
    BY FreshPromise DEF NewPromise
  <1>2. /\ state' = [state EXCEPT ![p] = "pending"] /\ pairs' = [pairs EXCEPT ![p] = 1]
        /\ held' = held \cup {<<p, 1>>}
        /\ UNCHANGED <<result, fulfillReactions, rejectReactions, reactions, freed,
                       alreadyResolved, jobs, begun, mode, follows>>
    BY <1>1 DEF NewPromise
  <1>3. Records' /\ Lists' /\ Queued'
    <2>1. PICK new : new \in Seq(JobRecords) /\ jobs' = jobs \o new /\ 1..Len(new) = {}
      <3>1. jobs \o <<>> = jobs /\ <<>> \in Seq(JobRecords) /\ 1..Len(<<>>) = {}
        BY DEF PInv, Records
      <3> QED
        BY <3>1, <1>2
    <2>2. ~Settled(p) /\ \A i \in 1..Len(new) : new[i].kind # "reaction"
      BY <2>1, <1>1 DEF Settled, Outcomes
    <2> QED
      BY <2>1, <2>2, <1>2, QuietLists DEF PInv
  <1>4. Kept
    BY <1>2 DEF Kept
  <1>5. pairs[p] = 0 /\ pairs[p] + 1 = 1
    <2>1. pairs[p] = 0
      BY <1>1 DEF PInv, LastPair
    <2> QED
      BY ONLY <2>1
  <1>6. ResolverInv'
    <2>1. Thenables' = Thenables
      BY <1>2 DEF Thenables
    <2>2. \A i \in Thenables : jobs[i].who # p
      BY <1>1 DEF PInv, WaitingJobs
    <2>3. /\ follows[p] \in Objects \cup {None} /\ follows' = [follows EXCEPT ![p] = follows[p]]
          /\ follows[p] = None
      BY <1>1, <1>2 DEF PInv, Resolvers, LastPair
    <2>4. ResolverInv
      BY DEF PInv, ResolverInv
    <2>5. \A x \in DOMAIN reactions' : x \in DOMAIN reactions /\ reactions'[x] = reactions[x]
      BY <1>2
    <2>6. \A i \in Thenables : i \in Thenables' /\ jobs'[i] = jobs[i]
      BY <2>1, <1>2
    <2>7. /\ pairs' = [pairs EXCEPT ![p] = pairs[p] + 1] /\ held' = held \cup {<<p, pairs[p] + 1>>}
          /\ UNCHANGED alreadyResolved
      BY <1>2, <1>5
    <2> QED
      BY <2>1, <2>2, <2>3, <2>4, <2>5, <2>6, <2>7, <1>1, <1>2, NewPair DEF PInv
  <1>7. FreedAfter'
    BY <1>2, <1>4, FreedKept
  <1>8. InCall'
    <2>1. \A x \in Promises : Born(x) => pairs'[x] = pairs[x]
      BY <1>1, <1>2 DEF Born, PInv, Resolvers
    <2> QED
      BY <2>1, <1>2, <1>4, InCallKept
  <1>9. Loop'
    BY <1>2 DEF Loop, PInv
  <1> QED
    BY <1>3, <1>4, <1>6, <1>7, <1>8, <1>9 DEF PInv, ResolverInv

\* then, called by the program
LEMMA ThenStep ==
  ASSUME PInv, NEW q \in Promises, NEW f \in {User, Identity}, NEW g \in {User, Thrower}, Then(q, f, g)
  PROVE  PInv' /\ Kept
  <1>1. PICK p \in Promises : p = Fresh /\ state[p] = "unborn"
    BY FreshPromise DEF Then
  <1>2. /\ PerformThen(q, f, g, p)
        /\ state' = [state EXCEPT ![p] = "pending"] /\ pairs' = [pairs EXCEPT ![p] = 1]
        /\ UNCHANGED <<result, freed, alreadyResolved, held, begun, mode, follows>>
    BY <1>1 DEF Then
  <1>3. f \in Handlers /\ g \in Handlers
    BY DEF Handlers, User, Identity, Thrower, Fn
  <1>4. /\ Records' /\ Lists' /\ Queued' /\ Kept
        /\ \A r \in DOMAIN reactions' :
              \/ r \in DOMAIN reactions /\ reactions'[r] = reactions[r]
              \/ reactions'[r] = Reaction(q, "fulfilled", f, p)
              \/ reactions'[r] = Reaction(q, "rejected", g, p)
        /\ \E new \in Seq(JobRecords) :
              jobs' = jobs \o new /\ \A k \in 1..Len(new) : new[k].kind = "reaction"
    <2>1. Bears(p)
      BY <1>1, <1>2 DEF Bears
    <2>2. p \in Promises \cup {None}
      OBVIOUS
    <2> QED
      BY <2>1, <2>2, <1>2, <1>3, PerformedThen DEF PInv
  <1>5. PICK new \in Seq(JobRecords) :
           jobs' = jobs \o new /\ \A k \in 1..Len(new) : new[k].kind = "reaction"
    BY <1>4
  <1>6. /\ begun' \in 0..Len(jobs')
        /\ \A i \in Thenables : i \in 1..Len(jobs) /\ (i = begun' \/ i \in Thenables') /\ jobs'[i] = jobs[i]
        /\ \A i \in Thenables' :
              \/ i \in Thenables /\ i # begun' /\ jobs'[i] = jobs[i]
              \/ \E k \in 1..Len(new) : new[k].kind = "thenable"
    BY <1>2, <1>5, ThenablesKept DEF PInv
  <1>7. \A i \in Thenables : i # begun'
    <2>1. begun \in Nat
      BY JobTypes DEF PInv, Loop
    <2> QED
      BY <2>1, <1>2 DEF Thenables
  <1>8. ResolverInv'
    <2>1. pairs[p] = 0 /\ pairs[p] + 1 = 1
      <3>1. pairs[p] = 0
        BY <1>1 DEF PInv, LastPair
      <3> QED
        BY ONLY <3>1
    <2>2. \A i \in Thenables : jobs[i].who # p
      BY <1>1 DEF PInv, WaitingJobs
    <2>3. /\ follows[p] \in Objects \cup {None} /\ follows' = [follows EXCEPT ![p] = follows[p]]
          /\ follows[p] = None
      BY <1>1, <1>2 DEF PInv, Resolvers, LastPair
    <2>4. \A x : x = Reaction(q, "fulfilled", f, p) \/ x = Reaction(q, "rejected", g, p) => Fit(x)'
      <3>1. Born(p)' /\ <<p, 1>> \notin held'
        <4>1. <<p, 1>> \notin held
          BY <2>1 DEF PInv, LastPair
        <4> QED
          BY <4>1, <1>2 DEF Born, PInv, Records
      <3> QED
        BY <3>1 DEF Reaction, Fit
    <2>5. \A r \in DOMAIN reactions' :
             \/ r \in DOMAIN reactions /\ reactions'[r] = reactions[r]
             \/ \E x : reactions'[r] = x /\ Fit(x)'
      BY <2>4, <1>4
    <2>6. /\ \A i \in Thenables : i \in Thenables' /\ jobs'[i] = jobs[i]
          /\ \A i \in Thenables' : i \in Thenables /\ jobs'[i] = jobs[i] /\ jobs[i].who # p
      BY <2>2, <1>5, <1>6, <1>7
    <2>7. pairs' = [pairs EXCEPT ![p] = pairs[p] + 1] /\ held' = held /\ UNCHANGED alreadyResolved
      BY <2>1, <1>2
    <2>8. Records /\ Loop /\ ResolverInv
      BY DEF PInv, ResolverInv
    <2> QED
      BY ONLY <2>3, <2>5, <2>6, <2>7, <2>8, <1>1, <1>2, NewPair, p \in Promises
  <1>9. FreedAfter'
    BY <1>2, <1>4, FreedKept
  <1>10. InCall'
    <2>1. \A x \in Promises : Born(x) => pairs'[x] = pairs[x]
      BY <1>1, <1>2 DEF Born, PInv, Resolvers
    <2> QED
      BY <2>1, <1>2, <1>4, InCallKept
  <1>11. Loop'
    BY <1>2, <1>6 DEF Loop, PInv
  <1> QED
    BY <1>4, <1>8, <1>9, <1>10, <1>11 DEF PInv, ResolverInv

\* The thenable job that begins: its promise waits for it, and for no other job.
LEMMA BeginningThenable ==
  ASSUME PInv, Begin, NEW p \in Promises, NEW v, NextJob = Job("thenable", p, v)
  PROVE  /\ begun + 1 \in Thenables
         /\ state[p] = "pending" /\ Called(p) /\ follows[p] = v /\ state = [state EXCEPT ![p] = "pending"]
         /\ pairs[p] \in Nat \ {0} /\ pairs[p] + 1 \in Nat
         /\ jobs[begun + 1].kind = "thenable" /\ jobs[begun + 1].who = p
         /\ \A i \in Thenables : jobs[i].who = p <=> i = begun'
  <1>1. /\ begun \in Nat /\ begun + 1 \in DOMAIN jobs /\ begun' = begun + 1
        /\ DOMAIN jobs = 1..Len(jobs) /\ Len(jobs) \in Nat
    BY Beginning, JobTypes DEF PInv
  <1>2. PICK i : i = begun + 1
    OBVIOUS
  <1>3. jobs[i].kind = "thenable" /\ jobs[i].who = p /\ jobs[i].arg = v
    BY <1>2 DEF NextJob, Job
  <1>4. i \in Thenables
    BY <1>1, <1>2, <1>3 DEF Thenables
  <1>5. /\ state[p] = "pending" /\ Called(p) /\ follows[p] = v
        /\ \A j \in Thenables : jobs[j].who = p <=> i = j
    BY <1>3, <1>4 DEF PInv, WaitingJobs
  <1>6. state = [state EXCEPT ![p] = "pending"]
    BY <1>5 DEF PInv, Records
  <1>7. pairs[p] \in Nat /\ pairs[p] # 0
    BY <1>5 DEF PInv, Resolvers, LastPair
  <1> QED
    BY <1>1, <1>2, <1>3, <1>4, <1>5, <1>6, <1>7

\* PromiseResolveThenableTask for a promise: the next pair goes to its reactions.
LEMMA ThenableTaskStep ==
  ASSUME PInv, NEW p \in Promises, NEW q \in Promises, ThenableTask(p, q)
  PROVE  PInv' /\ Kept
  <1>1. /\ begun \in Nat /\ begun < Len(jobs) /\ begun' = begun + 1 /\ mode = "idle"
        /\ UNCHANGED <<state, result, freed, alreadyResolved, held, mode, follows>>
    BY Beginning DEF ThenableTask
  <1>2. PICK n : n = pairs[p] + 1
    OBVIOUS
  <1>3. /\ pairs' = [pairs EXCEPT ![p] = n]
        /\ PerformThen(q, Fn("resolve", p, n), Fn("reject", p, n), None)
    BY <1>2 DEF ThenableTask
  <1>4. /\ state[p] = "pending" /\ Called(p) /\ follows[p] = q /\ state = [state EXCEPT ![p] = "pending"]
        /\ pairs[p] \in Nat \ {0} /\ n \in Nat
        /\ \A i \in Thenables : jobs[i].who = p <=> i = begun'
    BY <1>2, BeginningThenable DEF ThenableTask
  <1>5. Fn("resolve", p, n) \in Handlers /\ Fn("reject", p, n) \in Handlers /\ None \in Promises \cup {None}
    BY <1>4 DEF Handlers, Fn
  <1>6. /\ Records' /\ Lists' /\ Queued' /\ Kept
        /\ \A r \in DOMAIN reactions' :
              \/ r \in DOMAIN reactions /\ reactions'[r] = reactions[r]
              \/ reactions'[r] = Reaction(q, "fulfilled", Fn("resolve", p, n), None)
              \/ reactions'[r] = Reaction(q, "rejected", Fn("reject", p, n), None)
        /\ \E new \in Seq(JobRecords) :
              jobs' = jobs \o new /\ \A k \in 1..Len(new) : new[k].kind = "reaction"
    <2>1. Bears(p)
      BY <1>1 DEF Bears
    <2> QED
      BY <2>1, <1>1, <1>3, <1>5, PerformedThen DEF PInv
  <1>7. PICK new \in Seq(JobRecords) :
           jobs' = jobs \o new /\ \A k \in 1..Len(new) : new[k].kind = "reaction"
    BY <1>6
  <1>8. /\ begun' \in 0..Len(jobs')
        /\ \A i \in Thenables : i \in 1..Len(jobs) /\ (i = begun' \/ i \in Thenables') /\ jobs'[i] = jobs[i]
        /\ \A i \in Thenables' :
              \/ i \in Thenables /\ i # begun' /\ jobs'[i] = jobs[i]
              \/ \E k \in 1..Len(new) : new[k].kind = "thenable"
    BY <1>1, <1>7, ThenablesKept DEF PInv
  <1>9. ResolverInv'
    <2>1. /\ q \in Objects \cup {None} /\ follows' = [follows EXCEPT ![p] = q]
          /\ state' = [state EXCEPT ![p] = "pending"]
      BY <1>1, <1>4 DEF PInv, Resolvers, Objects
    <2>2. \A x : \/ x = Reaction(q, "fulfilled", Fn("resolve", p, n), None)
                 \/ x = Reaction(q, "rejected", Fn("reject", p, n), None)
                 => Fit(x)'
      <3>1. /\ n \in 2..pairs'[p] /\ <<p, n>> \notin held' /\ follows'[p] = q
        <4>1. <<p, n>> \notin held
          <5>1. n \notin 1..pairs[p]
            BY <1>2, <1>4
          <5> QED
            BY <5>1 DEF PInv, LastPair
        <4>2. pairs'[p] = n /\ n >= 2
          BY <1>2, <1>3, <1>4 DEF PInv, Resolvers
        <4> QED
          BY <4>1, <4>2, <1>1, <1>4
      <3> TAKE x
      <3>2. CASE x = Reaction(q, "fulfilled", Fn("resolve", p, n), None)
        <4>1. x.side = "fulfilled" /\ x.of = q /\ x.handler.kind = "resolve" /\ x.handler.of = p /\ x.handler.pair = n
          BY <3>2 DEF Reaction, Fn
        <4> QED
          BY <3>1, <4>1 DEF Fit
      <3>3. CASE x = Reaction(q, "rejected", Fn("reject", p, n), None)
        <4>1. x.side = "rejected" /\ x.of = q /\ x.handler.kind = "reject" /\ x.handler.of = p /\ x.handler.pair = n
          BY <3>3 DEF Reaction, Fn
        <4> QED
          BY <3>1, <4>1 DEF Fit
      <3> QED
        BY <3>2, <3>3
    <2>3. \A r \in DOMAIN reactions' :
             \/ r \in DOMAIN reactions /\ reactions'[r] = reactions[r]
             \/ \E x : reactions'[r] = x /\ Fit(x)'
      BY <2>2, <1>6
    <2>4. /\ \A i \in Thenables : jobs[i].who # p => i \in Thenables' /\ jobs'[i] = jobs[i]
          /\ \A i \in Thenables' : i \in Thenables /\ jobs'[i] = jobs[i] /\ jobs[i].who # p
      BY <1>4, <1>7, <1>8
    <2>5. pairs' = [pairs EXCEPT ![p] = pairs[p] + 1] /\ held' = held /\ UNCHANGED alreadyResolved
      BY <1>1, <1>2, <1>3
    <2>6. Records /\ Loop /\ ResolverInv
      BY DEF PInv, ResolverInv
    <2> QED
      BY ONLY <2>1, <2>3, <2>4, <2>5, <2>6, <1>4, NewPair, p \in Promises, q \in Promises
  <1>10. FreedAfter'
    BY <1>1, <1>6, FreedKept
  <1>11. Loop' /\ InCall'
    BY <1>1, <1>8 DEF Loop, InCall
  <1> QED
    BY <1>6, <1>9, <1>10, <1>11 DEF PInv, ResolverInv

\* PromiseResolveThenableTask for an object of the program's own: it is given the next pair.
LEMMA ForeignThenStep ==
  ASSUME PInv, NEW p \in Promises, ForeignThen(p)
  PROVE  PInv' /\ Kept
  <1>1. /\ begun \in Nat /\ begun < Len(jobs) /\ begun' = begun + 1 /\ begun + 1 \in DOMAIN jobs
        /\ UNCHANGED <<state, result, fulfillReactions, rejectReactions, reactions, freed,
                       alreadyResolved, jobs>>
        /\ mode' = "handler"
    BY Beginning DEF ForeignThen
  <1>2. PICK n : n = pairs[p] + 1
    OBVIOUS
  <1>3. /\ pairs' = [pairs EXCEPT ![p] = n] /\ held' = held \cup {<<p, n>>}
        /\ follows' = [follows EXCEPT ![p] = None]
    BY <1>2 DEF ForeignThen
  <1>4. /\ state[p] = "pending" /\ Called(p) /\ state = [state EXCEPT ![p] = "pending"]
        /\ pairs[p] \in Nat \ {0} /\ n \in Nat
        /\ jobs[begun + 1].kind = "thenable" /\ jobs[begun + 1].who = p
        /\ \A i \in Thenables : jobs[i].who = p <=> i = begun'
    BY <1>2, BeginningThenable DEF ForeignThen
  <1>5. Records' /\ Lists' /\ Queued'
    BY <1>1, SameLists DEF PInv
  <1>6. Kept
    BY <1>1 DEF Kept
  <1>7. /\ begun' \in 0..Len(jobs')
        /\ \A i \in Thenables : i \in 1..Len(jobs) /\ (i = begun' \/ i \in Thenables') /\ jobs'[i] = jobs[i]
        /\ \A i \in Thenables' : i \in Thenables /\ i # begun' /\ jobs'[i] = jobs[i]
    <2>1. PICK new : new \in Seq(JobRecords) /\ jobs' = jobs \o new /\ 1..Len(new) = {}
      <3>1. jobs \o <<>> = jobs /\ <<>> \in Seq(JobRecords) /\ 1..Len(<<>>) = {}
        BY DEF PInv, Records
      <3> QED
        BY <3>1, <1>1
    <2> QED
      BY <2>1, <1>1, ThenablesKept DEF PInv
  <1>8. ResolverInv'
    <2>1. None \in Objects \cup {None} /\ state' = [state EXCEPT ![p] = "pending"]
      BY <1>1, <1>4
    <2>2. \A r \in DOMAIN reactions' : r \in DOMAIN reactions /\ reactions'[r] = reactions[r]
      BY <1>1
    <2>3. /\ \A i \in Thenables : jobs[i].who # p => i \in Thenables' /\ jobs'[i] = jobs[i]
          /\ \A i \in Thenables' : i \in Thenables /\ jobs'[i] = jobs[i] /\ jobs[i].who # p
      BY <1>4, <1>7
    <2>4. /\ pairs' = [pairs EXCEPT ![p] = pairs[p] + 1] /\ held' = held \cup {<<p, pairs[p] + 1>>}
          /\ UNCHANGED alreadyResolved
      BY <1>1, <1>2, <1>3
    <2>5. Records /\ Loop /\ ResolverInv
      BY DEF PInv, ResolverInv
    <2>6. PICK f \in Objects \cup {None} : f = None /\ follows' = [follows EXCEPT ![p] = f]
      BY <1>3
    <2>7. /\ f = None \/ f = follows[p]
          /\ f # None => f \in Promises /\ held' = held
          /\ state' = [state EXCEPT ![p] = "pending"]
          /\ state[p] = "unborn" \/ (state[p] = "pending" /\ Called(p))
          /\ held' = held \/ held' = held \cup {<<p, pairs[p] + 1>>}
      BY <2>1, <2>4, <2>6, <1>4
    <2>8. \A r \in DOMAIN reactions' :
             \/ r \in DOMAIN reactions /\ reactions'[r] = reactions[r]
             \/ \E x : reactions'[r] = x /\ Fit(x)'
      BY <2>2
    <2> QED
      BY ONLY f \in Objects \cup {None}, <2>3, <2>4, <2>5, <2>6, <2>7, <2>8, NewPair, p \in Promises
  <1>9. FreedAfter'
    BY <1>1, <1>6, FreedKept
  <1>10. InCall'
    <2>1. jobs'[begun'].kind = "thenable" /\ jobs'[begun'].who = p /\ begun' > 0
      BY <1>1, <1>4
    <2>2. <<p, pairs'[p]>> \in held'
      BY <1>3 DEF PInv, Resolvers
    <2> QED
      BY <2>1, <2>2 DEF InCall, Current
  <1>11. Loop'
    BY <1>1, <1>7 DEF Loop
  <1> QED
    BY <1>5, <1>6, <1>8, <1>9, <1>10, <1>11 DEF PInv, ResolverInv

\* A reaction job calls the program.
LEMMA HandlerBeginsStep ==
  ASSUME PInv, NEW r \in DOMAIN reactions, HandlerBegins(r)
  PROVE  PInv' /\ Kept
  <1>1. /\ begun \in Nat /\ begun < Len(jobs) /\ begun' = begun + 1 /\ begun + 1 \in DOMAIN jobs
        /\ UNCHANGED <<state, result, fulfillReactions, rejectReactions, reactions, freed,
                       pairs, alreadyResolved, held, jobs, follows>>
        /\ mode' = "handler"
    BY Beginning DEF HandlerBegins
  <1>2. /\ jobs[begun + 1].kind = "reaction" /\ jobs[begun + 1].who = r
        /\ reactions[r].handler = User
    BY DEF HandlerBegins, NextJob
  <1>3. Records' /\ Lists' /\ Queued'
    BY <1>1, SameLists DEF PInv
  <1>4. Kept
    BY <1>1 DEF Kept
  <1>5. /\ begun' \in 0..Len(jobs')
        /\ \A i \in Thenables : i = begun' \/ i \in Thenables'
        /\ \A i \in Thenables' : i \in Thenables
    <2>1. PICK new : new \in Seq(JobRecords) /\ jobs' = jobs \o new /\ 1..Len(new) = {}
      <3>1. jobs \o <<>> = jobs /\ <<>> \in Seq(JobRecords) /\ 1..Len(<<>>) = {}
        BY DEF PInv, Records
      <3> QED
        BY <3>1, <1>1
    <2> QED
      BY <2>1, <1>1, ThenablesKept DEF PInv
  <1>6. ResolverInv'
    <2>1. begun' \notin Thenables
      BY <1>1, <1>2 DEF Thenables
    <2>2. Thenables' = Thenables /\ \A i \in Thenables : jobs'[i] = jobs[i]
      BY <2>1, <1>1, <1>5
    <2>3. Records /\ Loop /\ ResolverInv
      BY DEF PInv, ResolverInv
    <2> QED
      BY ONLY <2>2, <2>3, <1>1, SameResolvers
  <1>7. FreedAfter'
    BY <1>1, <1>4, FreedKept
  <1>8. InCall' /\ Loop'
    <2>1. /\ jobs'[begun'].kind = "reaction" /\ jobs'[begun'].who = r /\ begun' > 0
          /\ reactions'[r].handler = User
      BY <1>1, <1>2
    <2> QED
      BY <2>1, <1>1, <1>5 DEF InCall, Current, Loop
  <1> QED
    BY <1>3, <1>4, <1>6, <1>7, <1>8 DEF PInv, ResolverInv

\* Program code begins or returns, and no promise is touched.
LEMMA ModeStep ==
  ASSUME PInv, UNCHANGED <<state, result, fulfillReactions, rejectReactions, reactions, freed,
                           pairs, alreadyResolved, held, jobs, begun, follows>>,
         mode' = mode \/ mode' \in {"idle", "program"}
  PROVE  PInv' /\ Kept
  <1>1. Records' /\ Lists' /\ Queued'
    BY SameLists DEF PInv
  <1>2. Kept
    BY DEF Kept
  <1>3. Thenables' = Thenables /\ \A i \in Thenables : jobs'[i] = jobs[i]
    BY DEF Thenables
  <1>4. ResolverInv'
    <2>1. Records /\ Loop /\ ResolverInv
      BY DEF PInv, ResolverInv
    <2> QED
      BY <1>3, <2>1, SameResolvers
  <1>5. mode' = "handler" => mode = "handler"
    OBVIOUS
  <1>6. FreedAfter'
    BY <1>2, <1>5, FreedKept
  <1>7. InCall'
    BY <1>2, <1>5, InCallKept
  <1>8. Loop'
    BY DEF PInv, Loop
  <1> QED
    BY <1>1, <1>2, <1>4, <1>6, <1>7, <1>8 DEF PInv, ResolverInv

-----------------------------------------------------------------------------
(* The invariant *)

\* No promise exists yet.
LEMMA PInitial ==
  ASSUME Init
  PROVE  PInv
  <1>1. /\ \A p \in Promises : /\ state[p] = "unborn" /\ result[p] = None /\ pairs[p] = 0
                               /\ fulfillReactions[p] = <<>> /\ rejectReactions[p] = <<>>
                               /\ follows[p] = None
        /\ reactions = <<>> /\ jobs = <<>> /\ freed = {} /\ begun = 0 /\ mode = "program"
        /\ alreadyResolved = {} /\ held = {}
    BY DEF Init
  <1>2. /\ \A S : <<>> \in Seq(S) /\ DOMAIN <<>> = {} /\ Len(<<>>) = 0
    OBVIOUS
  <1>3. Records
    BY <1>1, <1>2 DEF Init, Records
  <1>4. Resolvers /\ Loop
    BY <1>1, <1>2 DEF Init, Resolvers, Loop
  <1>5. Lists
    BY <1>1, <1>2 DEF Lists, ListOf, IsOf, Settled, Outcomes
  <1>6. Queued /\ FreedAfter /\ InCall /\ HandlersFit
    BY <1>1, <1>2 DEF Queued, ReactionJobs, FreedAfter, InCall, HandlersFit
  <1>7. LastPair
    BY <1>1, PlainValues DEF LastPair, Settled, Outcomes, Born
  <1>8. WaitingJobs
    BY <1>1, <1>2 DEF WaitingJobs, Thenables
  <1> QED
    BY <1>3, <1>4, <1>5, <1>6, <1>7, <1>8 DEF PInv

\* One case per action.
LEMMA PStep ==
  ASSUME PInv, [Next]_vars
  PROVE  PInv' /\ Kept
  <1>1. CASE NewPromise
    BY <1>1, NewPromiseStep
  <1>2. CASE CallbackBegins \/ ProgramReturns \/ ThenReturns \/ UNCHANGED vars
    <2>1. /\ UNCHANGED <<state, result, fulfillReactions, rejectReactions, reactions, freed,
                         pairs, alreadyResolved, held, jobs, begun, follows>>
          /\ mode' = mode \/ mode' \in {"idle", "program"}
      BY <1>2 DEF CallbackBegins, ProgramReturns, ThenReturns, InHandler, vars
    <2> QED
      BY <2>1, ModeStep
  <1>3. CASE \/ \E v \in Known : StaticResolve(v)
             \/ \E v \in Values : StaticReject(v)
             \/ \E p \in Promises, n \in 1..MaxPairs, v \in Known : CallResolve(p, n, v)
             \/ \E p \in Promises, n \in 1..MaxPairs, v \in Values : CallReject(p, n, v)
    BY <1>3, ScriptDecides
  <1>4. CASE \E q \in Promises, f \in {User, Identity}, g \in {User, Thrower} : Then(q, f, g)
    BY <1>4, ThenStep
  <1>5. CASE \/ \E v \in Known : HandlerReturns(v)
             \/ \E v \in Values : HandlerThrows(v) \/ ThenThrows(v)
    BY <1>5, ReturnDecides
  <1>6. CASE \E r \in DOMAIN reactions : ReactionTask(r)
    BY <1>6, ReactionTaskStep
  <1>7. CASE \E r \in DOMAIN reactions : HandlerBegins(r)
    BY <1>7, HandlerBeginsStep
  <1>8. CASE \E p, q \in Promises : ThenableTask(p, q)
    BY <1>8, ThenableTaskStep
  <1>9. CASE \E p \in Promises : ForeignThen(p)
    BY <1>9, ForeignThenStep
  <1> QED
    BY <1>1, <1>2, <1>3, <1>4, <1>5, <1>6, <1>7, <1>8, <1>9 DEF Next, Script, Returns, RunTask

\* The inductive invariant: lists, jobs, pairs, handlers and freed records fit together
\* after every step of the program, of a handler and of the loop.
THEOREM PInvariance == Spec => []PInv
  <1>1. Init => PInv
    BY PInitial
  <1>2. PInv /\ [Next]_vars => PInv'
    BY PStep
  <1> QED
    BY <1>1, <1>2, PTL DEF Spec

\* A reaction has one job.
LEMMA ReactionOnce ==
  ASSUME PInv, NEW i \in ReactionJobs, NEW j \in ReactionJobs, jobs[i].who = jobs[j].who
  PROVE  i = j
  <1>1. i \in Nat /\ j \in Nat /\ jobs[i].who \in Nat /\ Of(i) = Of(j)
    BY JobTypes DEF PInv, ReactionJobs, IsReaction, Of
  <1>2. /\ i < j => jobs[i].who < jobs[j].who
        /\ j < i => jobs[j].who < jobs[i].who
    BY <1>1 DEF PInv, Queued
  <1> QED
    BY <1>1, <1>2

\* Every variable keeps its type (TypeOK), the lists and the freed set refer to records.
THEOREM Types == Spec => []TypeOK
  <1>1. ASSUME PInv
        PROVE  TypeOK
    <2>1. ASSUME NEW p \in Promises, NEW s \in Outcomes
          PROVE  ListOf(p, s) \in Seq(DOMAIN reactions)
      <3>1. PICK list : list = ListOf(p, s)
        OBVIOUS
      <3>2. list \in Seq(Nat) /\ \A i \in DOMAIN list : list[i] \in DOMAIN reactions
        BY <1>1, <3>1, ListTypes DEF PInv, Lists, IsOf
      <3>3. Len(list) \in Nat /\ DOMAIN list = 1..Len(list)
        BY <3>2
      <3>4. list \in [1..Len(list) -> DOMAIN reactions]
        BY <3>2, <3>3
      <3> QED
        BY <3>1, <3>3, <3>4
    <2>2. \A p \in Promises : /\ fulfillReactions[p] \in Seq(DOMAIN reactions)
                              /\ rejectReactions[p] \in Seq(DOMAIN reactions)
      <3>1. TAKE p \in Promises
      <3>2. /\ "fulfilled" \in Outcomes /\ ListOf(p, "fulfilled") = fulfillReactions[p]
            /\ "rejected" \in Outcomes /\ ListOf(p, "rejected") = rejectReactions[p]
        BY DEF Outcomes, ListOf
      <3> QED
        BY <2>1, <3>2
    <2>3. freed \subseteq DOMAIN reactions
      BY <1>1 DEF PInv, FreedAfter, Queued
    <2> QED
      BY <1>1, <2>2, <2>3 DEF PInv, TypeOK, Records, Resolvers, Loop
  <1> QED
    BY <1>1, PInvariance, PTL

\* At most one of the resolving functions of a promise can still decide, and none is
\* lost (CreateResolvingFunctions, PromiseResolveThenableTask).
THEOREM OneDecides == Spec => []OneResolver
  <1>1. ASSUME PInv
        PROVE  OneResolver
    <2> SUFFICES ASSUME NEW p \in Promises
                 PROVE  /\ \A m, n \in Powers(p) : m = n
                        /\ Settled(p) => Powers(p) = {}
                        /\ Waiting(p) => state[p] = "pending" /\ Powers(p) = {}
                        /\ state[p] = "pending" /\ Powers(p) = {} => Waiting(p) \/ follows[p] = Thenable
      BY DEF OneResolver
    <2>1. \A m \in Powers(p) : m = pairs[p] /\ ~Called(p) /\ state[p] = "pending"
      BY <1>1, Uncalled DEF PInv, Powers
    <2>2. Called(p) => Powers(p) = {}
      BY <2>1
    <2>3. Settled(p) => Called(p)
      BY <1>1 DEF PInv, LastPair
    <2>4. Waiting(p) => state[p] = "pending" /\ Called(p)
      <3> SUFFICES ASSUME NEW i \in (begun + 1)..Len(jobs), jobs[i] = Job("thenable", p, follows[p])
                   PROVE  state[p] = "pending" /\ Called(p)
        BY DEF Waiting
      <3>1. jobs[i].kind = "thenable" /\ jobs[i].who = p
        BY DEF Job
      <3>2. i \in Thenables
        BY <3>1 DEF Thenables
      <3> QED
        BY <1>1, <3>1, <3>2 DEF PInv, WaitingJobs
    <2>5. ASSUME state[p] = "pending", Powers(p) = {}
          PROVE  Waiting(p) \/ follows[p] = Thenable
      <3>1. pairs[p] \in 1..pairs[p]
        <4>1. pairs[p] \in Nat /\ pairs[p] # 0
          BY <1>1, <2>5 DEF PInv, Resolvers, LastPair
        <4> QED
          BY <4>1
      <3>2. Called(p)
        BY <2>5, <3>1 DEF Powers, Called
      <3>3. ASSUME NEW i \in Thenables, jobs[i].who = p
            PROVE  Waiting(p)
        <4>1. i \in (begun + 1)..Len(jobs) /\ i \in DOMAIN jobs /\ jobs[i].kind = "thenable"
          BY <1>1, JobTypes DEF PInv, Loop, Thenables
        <4>2. jobs[i].arg = follows[p]
          BY <1>1, <3>3 DEF PInv, WaitingJobs
        <4>3. jobs[i] = Job("thenable", p, follows[p])
          <5>1. jobs[i] \in JobRecords
            BY <1>1, <4>1 DEF PInv, Records
          <5> QED
            BY <3>3, <4>1, <4>2, <5>1 DEF JobRecords, Job
        <4> QED
          BY <4>1, <4>3 DEF Waiting
      <3> QED
        BY <1>1, <2>5, <3>2, <3>3 DEF PInv, WaitingJobs
    <2> QED
      BY <2>1, <2>2, <2>3, <2>4, <2>5
  <1> QED
    BY <1>1, PInvariance, PTL

\* Exactly the reactions of the side a promise settled on get a job, in the order of the
\* then calls, with its result (EnqueuePromiseReactionTask).
THEOREM JobsInOrder == Spec => []ReactionsInOrder
  <1>1. ASSUME PInv
        PROVE  ReactionsInOrder
    <2>1. ASSUME NEW r \in DOMAIN reactions, NEW i \in ReactionJobs, jobs[i].who = r
          PROVE  state[reactions[r].of] = reactions[r].side
      BY <1>1, <2>1 DEF PInv, Queued, Of
    <2>2. \A r \in DOMAIN reactions :
             state[reactions[r].of] = reactions[r].side => \E i \in ReactionJobs : jobs[i].who = r
      BY <1>1 DEF PInv, Queued
    <2>3. \A i \in ReactionJobs :
             /\ jobs[i].arg = result[Of(i)]
             /\ \A j \in ReactionJobs : i < j /\ Of(i) = Of(j) => jobs[i].who < jobs[j].who
      BY <1>1 DEF PInv, Queued
    <2> QED
      BY <2>1, <2>2, <2>3 DEF ReactionsInOrder
  <1> QED
    BY <1>1, PInvariance, PTL

\* A collection never scans a freed reaction in a promise that is not rejected, and no
\* job that is still to run has lost its reaction (reaction_arg_dtor).
THEOREM ScansAreSafe == Spec => []ScanSafe
  <1>1. ASSUME PInv
        PROVE  ScanSafe
    <2>1. ASSUME NEW r \in freed
          PROVE  \E i \in ReactionJobs : /\ jobs[i].who = r /\ Done(i)
                                         /\ state[reactions[r].of] = reactions[r].side
      <3>1. PICK i \in ReactionJobs : jobs[i].who = r /\ Done(i)
        BY <1>1 DEF PInv, FreedAfter
      <3> QED
        BY <1>1, <3>1 DEF PInv, Queued, Of
    <2>2. ASSUME NEW p \in Promises, state[p] # "rejected"
          PROVE  Elements(fulfillReactions[p]) \cup Elements(rejectReactions[p]) \subseteq DOMAIN reactions \ freed
      <3>1. /\ \A i \in DOMAIN fulfillReactions[p] : IsOf(fulfillReactions[p][i], p, "fulfilled")
            /\ \A i \in DOMAIN rejectReactions[p] : IsOf(rejectReactions[p][i], p, "rejected")
            /\ Settled(p) => fulfillReactions[p] = <<>>
        <4>1. "fulfilled" \in Outcomes /\ "rejected" \in Outcomes
          BY DEF Outcomes
        <4>2. ListOf(p, "fulfilled") = fulfillReactions[p] /\ ListOf(p, "rejected") = rejectReactions[p]
          BY DEF ListOf
        <4> QED
          BY <1>1, <4>1, <4>2 DEF PInv, Lists
      <3>2. ASSUME NEW r \in Elements(fulfillReactions[p])
            PROVE  r \in DOMAIN reactions \ freed
        <4>1. IsOf(r, p, "fulfilled") /\ ~Settled(p)
          <5>1. PICK i \in DOMAIN fulfillReactions[p] : r = fulfillReactions[p][i]
            BY <3>2 DEF Elements
          <5>2. fulfillReactions[p] # <<>>
            BY <5>1
          <5> QED
            BY <3>1, <5>1, <5>2
        <4> QED
          BY <4>1, <2>1 DEF IsOf, Settled, Outcomes
      <3>3. ASSUME NEW r \in Elements(rejectReactions[p])
            PROVE  r \in DOMAIN reactions \ freed
        <4>1. IsOf(r, p, "rejected")
          BY <3>1, <3>3 DEF Elements
        <4> QED
          BY <4>1, <2>1, <2>2 DEF IsOf
      <3> QED
        BY <3>2, <3>3
    <2>3. ASSUME NEW i \in ReactionJobs, i > begun \/ (i = begun /\ mode = "handler"), jobs[i].who \in freed
          PROVE  FALSE
      <3>1. PICK j \in ReactionJobs : jobs[j].who = jobs[i].who /\ Done(j)
        BY <2>1, <2>3
      <3>2. Done(i)
        BY <1>1, <3>1, ReactionOnce
      <3>3. i \in Nat /\ begun \in Nat
        BY <1>1, JobTypes DEF PInv, Loop, ReactionJobs
      <3> QED
        BY <2>3, <3>2, <3>3 DEF Done
    <2> QED
      BY <2>2, <2>3 DEF ScanSafe
  <1> QED
    BY <1>1, PInvariance, PTL

-----------------------------------------------------------------------------
(* Promise implements Future *)

\* one cell of the mapping
Cell(p) ==
    IF Settled(p) THEN [status |-> state[p], value |-> result[p]]
    ELSE IF ~Born(p) THEN [status |-> "none", value |-> None]
    ELSE IF follows[p] # None THEN [status |-> "follows", value |-> follows[p]]
    ELSE [status |-> "open", value |-> None]

\* The mapping, cell by cell.
LEMMA CellsAre == Cells = [p \in Promises |-> Cell(p)]
  BY DEF Cells, Cell

\* A step that touches one promise changes one cell.
LEMMA OneCell ==
  ASSUME NEW p \in Promises,
         \A x \in Promises : x # p => /\ state'[x] = state[x] /\ result'[x] = result[x]
                                      /\ follows'[x] = follows[x],
         NEW c, Cell(p)' = c
  PROVE  Cells' = [Cells EXCEPT ![p] = c]
  <1>1. \A x \in Promises : x # p => Cell(x)' = Cell(x)
    BY DEF Cell, Settled, Born
  <1>2. Cells = [x \in Promises |-> Cell(x)]
    BY DEF Cells, Cell
  <1>3. Cells' = [x \in Promises |-> Cell(x)']
    BY DEF Cells, Cell
  <1> HIDE DEF Cell, Cells
  <1> QED
    BY <1>1, <1>2, <1>3

\* A step that touches no promise is a stutter.
LEMMA SameCells ==
  ASSUME UNCHANGED <<state, result, follows>>
  PROVE  UNCHANGED Cells
  BY DEF Cells, Settled, Born

\* Abstractly, a pair that can decide is one of a promise that is open, or not created yet.
LEMMA MapsDecision ==
  ASSUME PInv, NEW p \in Promises, NEW n, Outcome(p, n),
         <<p, n>> \notin alreadyResolved => state[p] = "unborn" \/ (state[p] = "pending" /\ follows[p] = None)
  PROVE  Abstract!Next \/ UNCHANGED Cells
  <1> USE DEF PInv, Records, Resolvers
  <1>1. CASE <<p, n>> \in alreadyResolved /\ Unsettling /\ UNCHANGED alreadyResolved
    BY <1>1, SameCells DEF Unsettling
  <1>2. ASSUME <<p, n>> \notin alreadyResolved
        PROVE  Cells[p] \in {Abstract!Empty, Abstract!Open}
    <2>1. Cell(p) \in {Abstract!Empty, Abstract!Open}
      BY <1>2 DEF Cell, Settled, Born, Outcomes, Abstract!Empty, Abstract!Open
    <2> QED
      BY <2>1, CellsAre
  <1>3. ASSUME <<p, n>> \notin alreadyResolved, NEW s \in Outcomes, NEW v \in Plain, Settles(p, s, v)
        PROVE  Abstract!Settle(p)
    <2>1. /\ state'[p] = s /\ result'[p] = v
          /\ \A x \in Promises : x # p => /\ state'[x] = state[x] /\ result'[x] = result[x]
                                          /\ follows'[x] = follows[x]
      BY <1>3 DEF Settles
    <2>2. PICK c : c = [status |-> s, value |-> v]
      OBVIOUS
    <2>3. Cell(p)' = c
      BY <2>1, <2>2 DEF Cell, Settled
    <2>4. Cells' = [Cells EXCEPT ![p] = c]
      BY <2>1, <2>3, OneCell
    <2> QED
      BY <1>2, <1>3, <2>2, <2>4 DEF Abstract!Settle, Abstract!Outcomes, Outcomes
  <1>4. ASSUME <<p, n>> \notin alreadyResolved, NEW v \in Objects \ {p}, FollowThenable(p, v)
        PROVE  Abstract!Follow(p, v) /\ v \in Promises \cup {Thenable}
    <2>1. /\ state'[p] = "pending" /\ follows'[p] = v
          /\ \A x \in Promises : x # p => /\ state'[x] = state[x] /\ result'[x] = result[x]
                                          /\ follows'[x] = follows[x]
      BY <1>4 DEF FollowThenable
    <2>2. PICK c : c = [status |-> "follows", value |-> v]
      OBVIOUS
    <2>3. Cell(p)' = c
      <3>1. v # None
        BY PlainValues DEF Objects
      <3> QED
        BY <2>1, <2>2, <3>1 DEF Cell, Settled, Born, Outcomes
    <2>4. Cells' = [Cells EXCEPT ![p] = c]
      BY <2>1, <2>3, OneCell
    <2> QED
      BY <1>2, <1>4, <2>2, <2>4 DEF Abstract!Follow, Abstract!Follower, Objects
  <1> QED
    BY <1>1, <1>3, <1>4 DEF Outcome, Abstract!Next

\* a promise that is created opens its cell
LEMMA MapsBirth ==
  ASSUME PInv, NEW p \in Promises, state[p] = "unborn",
         state' = [state EXCEPT ![p] = "pending"], UNCHANGED <<result, follows>>
  PROVE  Abstract!Next
  <1>1. follows[p] = None /\ state'[p] = "pending" /\ \A x \in Promises : x # p => state'[x] = state[x]
    BY DEF PInv, Records, LastPair
  <1>2. Cell(p)' = Abstract!Open /\ Cell(p) = Abstract!Empty
    BY <1>1 DEF Cell, Settled, Born, Outcomes, Abstract!Open, Abstract!Empty
  <1>3. PICK c : c = Abstract!Open
    OBVIOUS
  <1>4. Cells' = [Cells EXCEPT ![p] = c]
    BY <1>1, <1>2, <1>3, OneCell
  <1>5. Cells[p] = Abstract!Empty
    BY <1>2, CellsAre
  <1> QED
    BY <1>3, <1>4, <1>5 DEF Abstract!Next, Abstract!Create

\* A pair that the program holds, and the first of a promise, is not one that adopts.
LEMMA DecidesItself ==
  ASSUME PInv, NEW p \in Promises, NEW n \in 1..pairs[p], <<p, n>> \in held \/ n = 1,
         <<p, n>> \notin alreadyResolved
  PROVE  state[p] = "pending" /\ follows[p] = None
  <1>1. n = pairs[p] /\ state[p] = "pending" /\ ~Called(p)
    BY Uncalled DEF PInv
  <1>2. follows[p] # None => pairs[p] >= 2 /\ <<p, pairs[p]>> \notin held
    BY <1>1 DEF PInv, LastPair, Born
  <1> QED
    BY <1>1, <1>2

\* What the program calls settles an open cell, or makes it follow.
LEMMA MapsScript ==
  ASSUME PInv,
         \/ \E v \in Known : StaticResolve(v)
         \/ \E v \in Values : StaticReject(v)
         \/ \E p \in Promises, n \in 1..MaxPairs, v \in Known : CallResolve(p, n, v)
         \/ \E p \in Promises, n \in 1..MaxPairs, v \in Values : CallReject(p, n, v)
  PROVE  Abstract!Next \/ UNCHANGED Cells
  <1>1. ASSUME Room
        PROVE  Fresh \in Promises /\ state[Fresh] = "unborn"
    BY <1>1, FreshPromise
  <1>2. ASSUME NEW p \in Promises, NEW n, <<p, n>> \in held, <<p, n>> \notin alreadyResolved
        PROVE  state[p] = "pending" /\ follows[p] = None
    <2>1. n \in 1..pairs[p]
      BY <1>2 DEF PInv, LastPair
    <2> QED
      BY <2>1, <1>2, DecidesItself
  <1>3. Values \subseteq Plain
    BY PlainValues
  <1>4. ASSUME NEW v \in Known, StaticResolve(v)
        PROVE  Abstract!Next \/ UNCHANGED Cells
    BY <1>1, <1>4, ResolveOutcome, MapsDecision DEF StaticResolve
  <1>5. ASSUME NEW v \in Values, StaticReject(v)
        PROVE  Abstract!Next \/ UNCHANGED Cells
    BY <1>1, <1>3, <1>5, RejectOutcome, MapsDecision DEF StaticReject
  <1>6. ASSUME NEW p \in Promises, NEW n, NEW v \in Known, CallResolve(p, n, v)
        PROVE  Abstract!Next \/ UNCHANGED Cells
    <2>1. <<p, n>> \in held /\ Outcome(p, n)
      BY <1>6, ResolveOutcome DEF CallResolve
    <2> QED
      BY <2>1, <1>2, MapsDecision
  <1>7. ASSUME NEW p \in Promises, NEW n, NEW v \in Values, CallReject(p, n, v)
        PROVE  Abstract!Next \/ UNCHANGED Cells
    <2>1. <<p, n>> \in held /\ Outcome(p, n)
      BY <1>3, <1>7, RejectOutcome DEF CallReject
    <2> QED
      BY <2>1, <1>2, MapsDecision
  <1> QED
    BY <1>4, <1>5, <1>6, <1>7

\* So does what a callback comes to.
LEMMA MapsReturn ==
  ASSUME PInv,
         \/ \E v \in Known : HandlerReturns(v)
         \/ \E v \in Values : HandlerThrows(v) \/ ThenThrows(v)
  PROVE  Abstract!Next \/ UNCHANGED Cells
  <1>1. UNCHANGED reactions /\ mode = "handler" /\ InCall
    BY DEF HandlerReturns, HandlerThrows, ThenThrows, InHandler, PInv
  <1>2. begun \in DOMAIN jobs
    <2>1. begun \in 1..Len(jobs)
      BY <1>1, JobTypes DEF PInv, InCall, Loop
    <2> QED
      BY <2>1, JobTypes DEF PInv
  <1>3. Values \subseteq Plain
    BY PlainValues
  <1>4. PICK d : d = reactions[jobs[begun].who].cap
    OBVIOUS
  <1>5. ASSUME jobs[begun].kind = "reaction", <<d, 1>> \notin alreadyResolved
        PROVE  state[d] = "pending" /\ follows[d] = None
    <2>1. d \in Promises /\ 1 \in 1..pairs[d]
      <3>1. reactions[jobs[begun].who].handler = User
        BY <1>1, <1>5 DEF InCall, Current
      <3> QED
        BY <3>1, <1>2, <1>4, <1>5, ReactionOf
    <2> QED
      BY <2>1, <1>5, DecidesItself
  <1>6. jobs[begun].kind = "reaction" => d \in Promises
    <2>1. jobs[begun].kind = "reaction" => reactions[jobs[begun].who].handler = User
      BY <1>1 DEF InCall, Current
    <2> QED
      BY <2>1, <1>2, <1>4, ReactionOf
  <1>7. ASSUME NEW v \in Known, HandlerReturns(v)
        PROVE  Abstract!Next \/ UNCHANGED Cells
    <2>1. jobs[begun].kind = "reaction" /\ Resolve(d, 1, v)
      BY <1>4, <1>7 DEF HandlerReturns, InHandler, Current
    <2> QED
      BY <2>1, <1>1, <1>5, <1>6, ResolveOutcome, MapsDecision
  <1>8. ASSUME NEW v \in Values, HandlerThrows(v)
        PROVE  Abstract!Next \/ UNCHANGED Cells
    <2>1. jobs[begun].kind = "reaction" /\ Reject(d, 1, v)
      BY <1>4, <1>8 DEF HandlerThrows, InHandler, Current
    <2> QED
      BY <2>1, <1>1, <1>3, <1>5, <1>6, RejectOutcome, MapsDecision
  <1>9. ASSUME NEW v \in Values, ThenThrows(v)
        PROVE  Abstract!Next \/ UNCHANGED Cells
    <2>1. PICK p, n : p = jobs[begun].who /\ n = pairs[p]
      OBVIOUS
    <2>2. jobs[begun].kind = "thenable" /\ Reject(p, n, v)
      BY <1>9, <2>1 DEF ThenThrows, InHandler, Current
    <2>3. p \in Promises
      BY <1>2, <2>1, <2>2, JobTypes DEF PInv
    <2>4. <<p, n>> \in held /\ n \in 1..pairs[p]
      <3>1. <<p, n>> \in held
        BY <1>1, <2>1, <2>2 DEF InCall, Current
      <3> QED
        BY <3>1 DEF PInv, LastPair
    <2>5. Outcome(p, n)
      BY <1>1, <1>3, <2>2, <2>3, RejectOutcome
    <2> QED
      BY <2>3, <2>4, <2>5, DecidesItself, MapsDecision
  <1> QED
    BY <1>7, <1>8, <1>9

\* The reaction job of a promise that is followed: the follower takes over its outcome.
LEMMA MapsAdoption ==
  ASSUME PInv, NEW p \in Promises, NEW q \in Promises, follows[p] = q, state[p] = "pending",
         NEW s \in Outcomes, state[q] = s, NEW v \in Plain, result[q] = v, Settles(p, s, v)
  PROVE  Abstract!Next
  <1>1. /\ state'[p] = s /\ result'[p] = v
        /\ \A x \in Promises : x # p => /\ state'[x] = state[x] /\ result'[x] = result[x]
                                        /\ follows'[x] = follows[x]
    BY DEF Settles, PInv, Records
  <1>2. PICK c : c = [status |-> s, value |-> v]
    OBVIOUS
  <1>3. Cell(p)' = c /\ Cell(q) = c /\ Cell(p) = Abstract!Follower(q)
    <2>1. Cell(p)' = c
      BY <1>1, <1>2 DEF Cell, Settled
    <2>2. Cell(q) = c
      BY <1>2 DEF Cell, Settled
    <2>3. Cell(p) = Abstract!Follower(q)
      BY PlainValues DEF Cell, Settled, Born, Outcomes, Abstract!Follower
    <2> QED
      BY <2>1, <2>2, <2>3
  <1>4. Cells' = [Cells EXCEPT ![p] = c]
    BY <1>1, <1>3, OneCell
  <1>5. Cells[p] = Abstract!Follower(q) /\ Cells[q] = c
    BY <1>3, CellsAre
  <1>6. c.status \in Abstract!Outcomes
    BY <1>2 DEF Outcomes, Abstract!Outcomes
  <1> QED
    BY <1>4, <1>5, <1>6 DEF Abstract!Next, Abstract!Adopt, Abstract!Settled

\* A job whose handler is the runtime's own settles an open cell, or one that adopts.
LEMMA MapsReaction ==
  ASSUME PInv, NEW r \in DOMAIN reactions, ReactionTask(r)
  PROVE  Abstract!Next \/ UNCHANGED Cells
  <1>1. begun + 1 \in DOMAIN jobs
    BY Beginning DEF ReactionTask
  <1>2. PICK i, x, v : i = begun + 1 /\ x = reactions[r] /\ v = jobs[i].arg
    OBVIOUS
  <1>3. /\ jobs[i].kind = "reaction" /\ jobs[i].who = r /\ UNCHANGED reactions
        /\ \/ x.handler = Identity /\ Resolve(x.cap, 1, v)
           \/ x.handler = Thrower /\ Reject(x.cap, 1, v)
           \/ x.handler.kind = "resolve" /\ Resolve(x.handler.of, x.handler.pair, v)
           \/ x.handler.kind = "reject" /\ Reject(x.handler.of, x.handler.pair, v)
    BY <1>2 DEF ReactionTask, NextJob
  <1>4. /\ v \in Plain /\ i \in ReactionJobs
        /\ x.handler \in {User, Identity, Thrower} => x.cap \in Promises /\ 1 \in 1..pairs[x.cap]
        /\ x.handler.kind \in {"resolve", "reject"} =>
              /\ x.handler.of \in Promises /\ x.handler.pair \in 1..pairs[x.handler.of]
    BY <1>1, <1>2, <1>3, ReactionOf
  <1>5. Fit(x) /\ x.of \in Promises /\ x.side \in Outcomes
    BY <1>2, JobTypes DEF PInv, HandlersFit
  <1>6. state[x.of] = x.side /\ v = result[x.of]
    BY <1>2, <1>3, <1>4 DEF PInv, Queued, Of
  <1>7. v \in Known
    BY <1>4 DEF Known
  <1>8. CASE x.handler \in {Identity, Thrower}
    <2>1. PICK d \in Promises : d = x.cap
      BY <1>4, <1>8
    <2>2. 1 \in 1..pairs[d]
      BY <1>4, <1>8, <2>1
    <2>3. Outcome(d, 1)
      <3>1. x.handler.kind # "resolve" /\ x.handler.kind # "reject"
        BY <1>8 DEF Identity, Thrower, Fn
      <3> QED
        BY <3>1, <1>3, <1>4, <1>7, <2>1, ResolveOutcome, RejectOutcome
    <2> QED
      BY <2>2, <2>3, DecidesItself, MapsDecision
  <1>9. CASE x.handler.kind \in {"resolve", "reject"}
    <2>1. x.handler \notin {User, Identity, Thrower}
      BY <1>9 DEF User, Identity, Thrower, Fn
    <2>2. PICK p \in Promises, n \in Nat : p = x.handler.of /\ n = x.handler.pair /\ n \in 1..pairs[p]
      BY <1>4, <1>5, <1>9 DEF Fit, PInv, Resolvers
    <2>3. /\ x.handler.kind = IF x.side = "fulfilled" THEN "resolve" ELSE "reject"
          /\ <<p, n>> \notin alreadyResolved => follows[p] = x.of
      BY <1>5, <2>1, <2>2 DEF Fit
    <2>4. CASE <<p, n>> \in alreadyResolved
      <3>1. Unsettling
        BY <1>3, <2>1, <2>2, <2>4 DEF Resolve, Reject, OnlyOnce
      <3> QED
        BY <3>1, SameCells DEF Unsettling
    <2>5. CASE <<p, n>> \notin alreadyResolved
      <3>1. state[p] = "pending" /\ follows[p] = x.of
        BY <2>2, <2>3, <2>5, Uncalled DEF PInv
      <3>2. Settles(p, x.side, v)
        <4>1. v # p /\ v \notin Objects
          BY <1>4, PlainValues DEF Objects
        <4>2. CASE x.side = "fulfilled"
          <5>1. Resolve(p, n, v)
            BY <1>3, <2>1, <2>2, <2>3, <4>2
          <5>2. FulfillPromise(p, v)
            BY <5>1, <4>1, <2>5 DEF Resolve, OnlyOnce
          <5> QED
            BY <5>2, <4>2, <1>3 DEF FulfillPromise, Settles, Enqueue, ListOf
        <4>3. CASE x.side = "rejected"
          <5>1. Reject(p, n, v)
            BY <1>3, <2>1, <2>2, <2>3, <4>3
          <5>2. RejectPromise(p, v)
            BY <5>1, <2>5 DEF Reject, OnlyOnce
          <5> QED
            BY <5>2, <4>3, <1>3 DEF RejectPromise, Settles, Enqueue, ListOf
        <4> QED
          BY <1>5, <4>2, <4>3 DEF Outcomes
      <3> QED
        BY <3>1, <3>2, <1>4, <1>5, <1>6, MapsAdoption
    <2> QED
      BY <2>4, <2>5
  <1> QED
    BY <1>3, <1>8, <1>9

\* The pair that a foreign then is given opens the cell again.
LEMMA MapsForeignThen ==
  ASSUME PInv, NEW p \in Promises, ForeignThen(p)
  PROVE  Abstract!Next
  <1>1. state[p] = "pending" /\ follows[p] = Thenable
    BY BeginningThenable DEF ForeignThen
  <1>2. UNCHANGED <<state, result>> /\ follows' = [follows EXCEPT ![p] = None]
    BY DEF ForeignThen
  <1>3. follows'[p] = None /\ \A x \in Promises : x # p => follows'[x] = follows[x]
    BY <1>2 DEF PInv, Resolvers
  <1>4. Cell(p)' = Abstract!Open /\ Cell(p) = Abstract!Follower(Thenable)
    BY <1>1, <1>2, <1>3, PlainValues DEF Cell, Settled, Born, Outcomes, Abstract!Open, Abstract!Follower
  <1>5. PICK c : c = Abstract!Open
    OBVIOUS
  <1>6. Cells' = [Cells EXCEPT ![p] = c]
    BY <1>2, <1>3, <1>4, <1>5, OneCell
  <1>7. Cells[p] = Abstract!Follower(Thenable)
    BY <1>4, CellsAre
  <1> QED
    BY <1>5, <1>6, <1>7 DEF Abstract!Next, Abstract!Reopen

\* Promise implements Future: whatever the interleaving of program, handlers and jobs, a
\* promise settles once, and one that follows another settles as that one did.
THEOREM PromiseImplementsFuture == Spec => ImplementsFuture
  <1>1. Init => Abstract!Init
    BY DEF Init, Abstract!Init, Cells, Settled, Born, Outcomes, Abstract!Empty
  <1>2. PInv /\ [Next]_vars => [Abstract!Next]_Cells
    <2> SUFFICES ASSUME PInv, [Next]_vars
                 PROVE  Abstract!Next \/ UNCHANGED Cells
      OBVIOUS
    <2>1. CASE NewPromise
      <3>1. Room /\ state' = [state EXCEPT ![Fresh] = "pending"] /\ UNCHANGED <<result, follows>>
        BY <2>1 DEF NewPromise
      <3> QED
        BY <3>1, FreshPromise, MapsBirth
    <2>2. CASE \/ CallbackBegins \/ ProgramReturns \/ ThenReturns \/ UNCHANGED vars
               \/ \E r \in DOMAIN reactions : HandlerBegins(r)
               \/ \E p, q \in Promises : ThenableTask(p, q)
      <3>1. UNCHANGED <<state, result, follows>>
        BY <2>2 DEF CallbackBegins, ProgramReturns, ThenReturns, HandlerBegins, ThenableTask, vars
      <3> QED
        BY <3>1, SameCells
    <2>3. CASE \/ \E v \in Known : StaticResolve(v)
               \/ \E v \in Values : StaticReject(v)
               \/ \E p \in Promises, n \in 1..MaxPairs, v \in Known : CallResolve(p, n, v)
               \/ \E p \in Promises, n \in 1..MaxPairs, v \in Values : CallReject(p, n, v)
      BY <2>3, MapsScript
    <2>4. CASE \E q \in Promises, f \in {User, Identity}, g \in {User, Thrower} : Then(q, f, g)
      <3>1. Room /\ state' = [state EXCEPT ![Fresh] = "pending"] /\ UNCHANGED <<result, follows>>
        BY <2>4 DEF Then
      <3> QED
        BY <3>1, FreshPromise, MapsBirth
    <2>5. CASE \/ \E v \in Known : HandlerReturns(v)
               \/ \E v \in Values : HandlerThrows(v) \/ ThenThrows(v)
      BY <2>5, MapsReturn
    <2>6. CASE \E r \in DOMAIN reactions : ReactionTask(r)
      BY <2>6, MapsReaction
    <2>7. CASE \E p \in Promises : ForeignThen(p)
      BY <2>7, MapsForeignThen
    <2> QED
      BY <2>1, <2>2, <2>3, <2>4, <2>5, <2>6, <2>7 DEF Next, Script, Returns, RunTask
  <1> QED
    BY <1>1, <1>2, PInvariance, PTL DEF Spec, ImplementsFuture, Abstract!Spec
=============================================================================
