-------------------------- MODULE SchedulerProofs --------------------------
(***************************************************************************)
(* Proofs about the scheduler for any number of jobs and slots, any        *)
(* dependency maps and any options.                                        *)
(***************************************************************************)
EXTENDS SchedulerProperties, FiniteSetTheorems, TLAPS

-----------------------------------------------------------------------------
(* Finite sets and queues. *)

\* A set that loses or gains an element has one element less or more.
LEMMA CardRemove ==
    ASSUME NEW S, IsFiniteSet(S), NEW x \in S
    PROVE  /\ IsFiniteSet(S \ {x})
           /\ Cardinality(S \ {x}) = Cardinality(S) - 1
           /\ Cardinality(S) \in Nat \ {0}
<1>1. Cardinality(S) \in Nat BY FS_CardinalityType
<1>2. Cardinality(S) # 0 BY FS_EmptySet
<1>3. QED BY <1>1, <1>2, FS_RemoveElement

\* A set that gains a new element has one element more.
LEMMA CardAdd ==
    ASSUME NEW S, IsFiniteSet(S), NEW x, x \notin S
    PROVE  /\ IsFiniteSet(S \cup {x})
           /\ Cardinality(S \cup {x}) = Cardinality(S) + 1
BY FS_AddElement

\* The head of a queue without duplicates is not in its tail.
LEMMA QueueTail ==
    ASSUME NEW q \in Seq(Job), q # <<>>, NoDuplicates(q)
    PROVE  /\ Head(q) \in Job /\ InQueue(q, Head(q))
           /\ Tail(q) \in Seq(Job) /\ NoDuplicates(Tail(q))
           /\ \A x : InQueue(Tail(q), x) <=> InQueue(q, x) /\ x # Head(q)
<1>1. Len(q) \in Nat \ {0} /\ q[1] = Head(q) /\ DOMAIN q = 1..Len(q) OBVIOUS
<1>2. Tail(q) \in Seq(Job) /\ DOMAIN Tail(q) = 1..(Len(q) - 1) OBVIOUS
<1>3. \A i \in 1..(Len(q) - 1) : Tail(q)[i] = q[i + 1] OBVIOUS
<1>4. NoDuplicates(Tail(q))
    <2> SUFFICES ASSUME NEW i \in DOMAIN Tail(q), NEW k \in DOMAIN Tail(q),
                        Tail(q)[i] = Tail(q)[k]
                 PROVE  i = k
        BY DEF NoDuplicates
    <2>1. i + 1 \in DOMAIN q /\ k + 1 \in DOMAIN q BY <1>1, <1>2
    <2>2. i + 1 = k + 1 BY <2>1, <1>2, <1>3 DEF NoDuplicates
    <2>3. QED BY <2>2, <1>2
<1>5. ASSUME NEW x PROVE InQueue(Tail(q), x) <=> InQueue(q, x) /\ x # Head(q)
    <2>1. ASSUME InQueue(Tail(q), x) PROVE InQueue(q, x) /\ x # Head(q)
        <3>1. PICK i \in DOMAIN Tail(q) : Tail(q)[i] = x BY <2>1 DEF InQueue
        <3>2. i + 1 \in DOMAIN q /\ q[i + 1] = x /\ i + 1 # 1 BY <3>1, <1>1, <1>2, <1>3
        <3>3. QED BY <3>2, <1>1 DEF InQueue, NoDuplicates
    <2>2. ASSUME InQueue(q, x), x # Head(q) PROVE InQueue(Tail(q), x)
        <3>1. PICK i \in DOMAIN q : q[i] = x BY <2>2 DEF InQueue
        <3>2. i # 1 BY <3>1, <1>1, <2>2
        <3>3. i - 1 \in DOMAIN Tail(q) /\ Tail(q)[i - 1] = x
            BY <3>1, <3>2, <1>1, <1>2, <1>3
        <3>4. QED BY <3>3 DEF InQueue
    <2>3. QED BY <2>1, <2>2
<1>6. Head(q) \in Job /\ InQueue(q, Head(q)) BY <1>1 DEF InQueue
<1>7. QED BY <1>2, <1>4, <1>5, <1>6

\* InOrder(S) holds sequences that list S once each.
LEMMA InOrderLists ==
    ASSUME NEW S \in SUBSET Job, NEW r \in InOrder(S)
    PROVE  r \in Seq(Job) /\ NoDuplicates(r) /\ \A x : InQueue(r, x) <=> x \in S
<1>1. IsFiniteSet(Job) BY NumJobsAssumption, FS_Interval DEF Job
<1>2. Cardinality(S) \in Nat BY <1>1, FS_Subset, FS_CardinalityType
<1> DEFINE n == Cardinality(S)
<1> HIDE DEF n
<1>3. /\ r \in [1..n -> S] /\ n \in Nat
      /\ \A x \in S : \E i \in 1..n : r[i] = x
      /\ \A i, k \in 1..n : i < k => r[i] < r[k]
    BY <1>2 DEF InOrder, n
<1>4. r \in Seq(Job) /\ DOMAIN r = 1..n BY <1>3
<1>5. NoDuplicates(r)
    <2> SUFFICES ASSUME NEW i \in 1..n, NEW k \in 1..n, r[i] = r[k] PROVE i = k
        BY <1>4 DEF NoDuplicates
    <2>1. r[i] \in S /\ r[k] \in S BY <1>3
    <2>2. Job \subseteq Nat BY NumJobsAssumption DEF Job
    <2>3. r[i] \in Nat BY <2>1, <2>2
    <2>4. ~(i < k) /\ ~(k < i) BY <2>3, <1>3
    <2>5. QED BY <2>4, <1>3
<1>6. \A x : InQueue(r, x) <=> x \in S BY <1>3, <1>4 DEF InQueue
<1>7. QED BY <1>4, <1>5, <1>6

\* Two disjoint queues without duplicates join into one.
LEMMA QueueJoin ==
    ASSUME NEW q \in Seq(Job), NEW r \in Seq(Job), NoDuplicates(q), NoDuplicates(r),
           \A x : ~(InQueue(q, x) /\ InQueue(r, x))
    PROVE  /\ q \o r \in Seq(Job) /\ NoDuplicates(q \o r)
           /\ \A x : InQueue(q \o r, x) <=> InQueue(q, x) \/ InQueue(r, x)
<1> DEFINE m == Len(q)  n == Len(r)
<1>1. /\ m \in Nat /\ n \in Nat /\ DOMAIN q = 1..m /\ DOMAIN r = 1..n
      /\ q \o r \in Seq(Job) /\ DOMAIN (q \o r) = 1..(m + n)
    OBVIOUS
<1>2. /\ \A i \in 1..m : (q \o r)[i] = q[i]
      /\ \A i \in 1..(m + n) : i \notin 1..m => i - m \in 1..n /\ (q \o r)[i] = r[i - m]
    OBVIOUS
<1>3. \A k \in 1..n : m + k \in 1..(m + n) /\ (q \o r)[m + k] = r[k] OBVIOUS
<1> HIDE DEF m, n
<1>4. ASSUME NEW x PROVE InQueue(q \o r, x) <=> InQueue(q, x) \/ InQueue(r, x)
    <2>1. ASSUME InQueue(q \o r, x) PROVE InQueue(q, x) \/ InQueue(r, x)
        <3>1. PICK i \in 1..(m + n) : (q \o r)[i] = x BY <2>1, <1>1 DEF InQueue
        <3>2. QED BY <3>1, <1>1, <1>2 DEF InQueue
    <2>2. ASSUME InQueue(q, x) PROVE InQueue(q \o r, x)
        <3>1. PICK i \in 1..m : q[i] = x BY <2>2, <1>1 DEF InQueue
        <3>2. i \in 1..(m + n) BY <1>1
        <3>3. QED BY <3>1, <3>2, <1>1, <1>2 DEF InQueue
    <2>3. ASSUME InQueue(r, x) PROVE InQueue(q \o r, x)
        <3>1. PICK k \in 1..n : r[k] = x BY <2>3, <1>1 DEF InQueue
        <3>2. QED BY <3>1, <1>1, <1>3 DEF InQueue
    <2>4. QED BY <2>1, <2>2, <2>3
<1>5. NoDuplicates(q \o r)
    <2> SUFFICES ASSUME NEW i \in 1..(m + n), NEW k \in 1..(m + n),
                        (q \o r)[i] = (q \o r)[k]
                 PROVE  i = k
        BY <1>1 DEF NoDuplicates
    <2>1. CASE i \in 1..m /\ k \in 1..m BY <2>1, <1>1, <1>2 DEF NoDuplicates
    <2>2. CASE i \notin 1..m /\ k \notin 1..m
        <3>1. i - m \in 1..n /\ k - m \in 1..n /\ r[i - m] = r[k - m] BY <2>2, <1>2
        <3>2. i - m = k - m BY <3>1, <1>1 DEF NoDuplicates
        <3>3. QED BY <3>2, <1>1
    <2>3. CASE i \in 1..m /\ k \notin 1..m
        <3>1. InQueue(q, q[i]) /\ InQueue(r, q[i]) BY <2>3, <1>1, <1>2 DEF InQueue
        <3>2. QED BY <3>1
    <2>4. CASE i \notin 1..m /\ k \in 1..m
        <3>1. InQueue(q, q[k]) /\ InQueue(r, q[k]) BY <2>4, <1>1, <1>2 DEF InQueue
        <3>2. QED BY <3>1
    <2>5. QED BY <2>1, <2>2, <2>3, <2>4
<1>6. QED BY <1>1, <1>4, <1>5
-----------------------------------------------------------------------------
(***************************************************************************)
(* The inductive invariant.  Beside the exactness of the queue and of the  *)
(* counts it says what holds a slot: a job with a live or unreaped process *)
(* and no verdict, in one slot only.                                       *)
(***************************************************************************)
HasProcess(j) == proc[j] \in {"live", "dying", "exit0", "exit1"}

SlotInv ==
    /\ \A s \in Slots : slots[s] # NoJob =>
            outcome[slots[s]] = "none" /\ HasProcess(slots[s])
    /\ \A s, t \in Slots : slots[s] = slots[t] /\ slots[s] # NoJob => s = t
    /\ \A j \in Job : HasProcess(j) => j \in RunningJobs

NeedsMet ==
    \A j \in Job : Started(j) => \A i \in Needs(j) : outcome[i] = "success"

OutputsThere ==
    \A j \in Job : outcome[j] = "success" => options.dry_run \/ j \in written

IInv == TypeOK /\ QueueExact /\ CountsAgree /\ SlotInv /\ NeedsMet /\ OutputsThere

-----------------------------------------------------------------------------
(* Facts about a single state. *)

\* What TypeOK and the assumptions say of jobs and slots: sets that are finite.
LEMMA Basics ==
    ASSUME TypeOK
    PROVE  /\ dependents \in [Job -> SUBSET Job]
           /\ options.jobs \in Nat \ {0}
           /\ MaxSlots \in Nat \ {0} /\ Slots = 1..MaxSlots
           /\ NoJob \notin Job
           /\ IsFiniteSet(Job) /\ IsFiniteSet(Slots) /\ IsFiniteSet(Active)
           /\ \A P \in SUBSET Job : IsFiniteSet(P) /\ Cardinality(P) \in Nat
<1>1. dependents \in [Job -> SUBSET Job] BY MapsAssumption DEF TypeOK
<1>2. options.jobs \in Nat \ {0}
    <2>1. options \in [jobs : Nat \ {0}, keep_going : BOOLEAN,
                        dry_run : BOOLEAN, timeout : BOOLEAN]
        BY OptionsAssumption DEF TypeOK
    <2>2. QED BY <2>1
<1>3. MaxSlots \in Nat \ {0} BY <1>2, NumJobsAssumption DEF MaxSlots
<1>4. IsFiniteSet(Job) BY NumJobsAssumption, FS_Interval DEF Job
<1>5. IsFiniteSet(Slots) BY <1>3, FS_Interval DEF Slots
<1>6. IsFiniteSet(Active) BY <1>5, FS_Subset DEF Active
<1>7. \A P \in SUBSET Job : IsFiniteSet(P) /\ Cardinality(P) \in Nat
    BY <1>4, FS_Subset, FS_CardinalityType
<1>8. NoJob \notin Job BY NumJobsAssumption DEF NoJob, Job
<1>9. QED BY <1>1, <1>2, <1>3, <1>4, <1>5, <1>6, <1>7, <1>8 DEF Slots

\* The head of the ready queue is unstarted, needs nothing more, and holds
\* no slot.
LEMMA HeadFacts ==
    ASSUME IInv, ready # <<>>
    PROVE  /\ Head(ready) \in Job /\ ~Started(Head(ready))
           /\ \A i \in Needs(Head(ready)) : outcome[i] = "success"
           /\ Head(ready) \notin RunningJobs
           /\ Tail(ready) \in Seq(Job) /\ NoDuplicates(Tail(ready))
           /\ \A x : InQueue(Tail(ready), x) <=> InQueue(ready, x) /\ x # Head(ready)
<1> DEFINE h == Head(ready)
<1>1. /\ h \in Job /\ InQueue(ready, h)
      /\ Tail(ready) \in Seq(Job) /\ NoDuplicates(Tail(ready))
      /\ \A x : InQueue(Tail(ready), x) <=> InQueue(ready, x) /\ x # h
    BY QueueTail DEF IInv, TypeOK, QueueExact
<1>2. in_degree[h] = 0 /\ ~Started(h) BY <1>1 DEF IInv, QueueExact
<1>3. Unmet(h) \in SUBSET Job BY DEF Unmet, Needs
<1>4. Unmet(h) = {} BY <1>1, <1>2, <1>3, Basics, FS_EmptySet DEF IInv, QueueExact
<1>5. \A i \in Needs(h) : outcome[i] = "success" BY <1>4 DEF Unmet
<1>6. h \notin RunningJobs
    BY <1>1, <1>2, Basics DEF IInv, SlotInv, RunningJobs, HasProcess, Started
<1>7. QED BY <1>1, <1>2, <1>5, <1>6

-----------------------------------------------------------------------------
(***************************************************************************)
(* A verdict.  Whatever else the step does, when job j without a verdict,  *)
(* whose needs are met and which is not queued in `queue`, succeeds or     *)
(* fails, the queue and the job counts stay exact.                         *)
(***************************************************************************)
Pending(j, queue) ==
    /\ j \in Job /\ outcome[j] = "none"
    /\ \A i \in Needs(j) : outcome[i] = "success"
    /\ queue \in Seq(Job) /\ NoDuplicates(queue)
    /\ \A x \in Job : InQueue(queue, x) <=> InQueue(ready, x) /\ x # j

\* Only j may become started in the step.
OnlyStarts(j) == \A x \in Job : Started(x)' <=> Started(x) \/ x = j

JobCounts ==
    /\ completed_jobs = Cardinality({j \in Job : outcome[j] = "success"})
    /\ failed_jobs = Cardinality({j \in Job : outcome[j] = "failure"})
    /\ finished_count = completed_jobs + failed_jobs

QueueTypes ==
    /\ in_degree \in [Job -> Nat] /\ ready \in Seq(Job)
    /\ finished_count \in Nat /\ completed_jobs \in Nat /\ failed_jobs \in Nat
    /\ failed \in BOOLEAN /\ outcome \in [Job -> {"none", "success", "failure"}]

\* A failure keeps the queue, the counts and the order exact.
LEMMA FailKeeps ==
    ASSUME IInv, NEW j, NEW queue, Pending(j, queue), Fail(j, queue), OnlyStarts(j),
           UNCHANGED plan
    PROVE  QueueTypes' /\ QueueExact' /\ JobCounts' /\ NeedsMet'
<1>1. /\ outcome' = [outcome EXCEPT ![j] = "failure"] /\ ready' = queue
      /\ in_degree' = in_degree /\ failed' = TRUE
      /\ failed_jobs' = failed_jobs + 1 /\ finished_count' = finished_count + 1
      /\ completed_jobs' = completed_jobs
    BY DEF Fail
<1>2. outcome \in [Job -> {"none", "success", "failure"}] /\ j \in Job
    BY DEF IInv, TypeOK, Pending
<1>3. \A x \in Job : Needs(x)' = Needs(x) /\ Unmet(x)' = Unmet(x)
    BY <1>1, <1>2 DEF plan, Needs, Unmet, Pending
<1>4. QueueTypes' BY <1>1, <1>2 DEF QueueTypes, IInv, TypeOK, Pending
<1>5. QueueExact'
    <2>1. \A x \in Job : in_degree'[x] = Cardinality(Unmet(x)')
        BY <1>1, <1>3 DEF IInv, QueueExact
    <2>2. \A x \in Job : InQueue(ready', x) <=> in_degree'[x] = 0 /\ ~Started(x)'
        BY <1>1 DEF IInv, QueueExact, Pending, OnlyStarts
    <2>3. QED BY <2>1, <2>2, <1>1 DEF QueueExact, Pending, InQueue, NoDuplicates
<1>6. JobCounts'
    <2>1. {x \in Job : outcome'[x] = "success"} = {x \in Job : outcome[x] = "success"}
        BY <1>1, <1>2 DEF Pending
    <2>2. {x \in Job : outcome'[x] = "failure"}
            = {x \in Job : outcome[x] = "failure"} \cup {j}
        BY <1>1, <1>2
    <2>3. IsFiniteSet({x \in Job : outcome[x] = "failure"})
          /\ j \notin {x \in Job : outcome[x] = "failure"}
        BY Basics DEF IInv, Pending
    <2>4. Cardinality({x \in Job : outcome'[x] = "failure"}) = failed_jobs + 1
        BY <2>2, <2>3, CardAdd DEF IInv, CountsAgree
    <2>5. /\ completed_jobs = Cardinality({x \in Job : outcome[x] = "success"})
          /\ failed_jobs = Cardinality({x \in Job : outcome[x] = "failure"})
          /\ finished_count = completed_jobs + failed_jobs
          /\ completed_jobs \in Nat /\ failed_jobs \in Nat
        BY DEF IInv, CountsAgree, TypeOK
    <2>6. finished_count' = completed_jobs' + failed_jobs' BY <2>5, <1>1
    <2>7. completed_jobs' = Cardinality({x \in Job : outcome'[x] = "success"})
        BY <2>1, <2>4, <2>5, <1>1
    <2>8. failed_jobs' = Cardinality({x \in Job : outcome'[x] = "failure"})
        BY <2>1, <2>4, <2>5, <1>1
    <2>9. QED BY <2>6, <2>7, <2>8 DEF JobCounts
<1>7. NeedsMet' BY <1>1, <1>2, <1>3 DEF NeedsMet, IInv, Pending, OnlyStarts, Needs
<1>8. QED BY <1>4, <1>5, <1>6, <1>7

\* So does a success, which queues the jobs that waited for it alone.
LEMMA SucceedKeeps ==
    ASSUME IInv, NEW j, NEW queue, Pending(j, queue), Succeed(j, queue), OnlyStarts(j),
           UNCHANGED plan
    PROVE  QueueTypes' /\ QueueExact' /\ JobCounts' /\ NeedsMet'
<1> DEFINE freed == {d \in dependents[j] : in_degree[d] = 1}
<1>1. /\ outcome' = [outcome EXCEPT ![j] = "success"]
      /\ in_degree' = [d \in Job |-> IF d \in dependents[j] THEN in_degree[d] - 1
                                                             ELSE in_degree[d]]
      /\ failed' = failed /\ completed_jobs' = completed_jobs + 1
      /\ finished_count' = finished_count + 1 /\ failed_jobs' = failed_jobs
    BY DEF Succeed
<1>2. PICK released \in InOrder(freed) : ready' = queue \o released
    BY DEF Succeed
<1>3. /\ outcome \in [Job -> {"none", "success", "failure"}] /\ j \in Job
      /\ in_degree \in [Job -> Nat] /\ dependents \in [Job -> SUBSET Job]
    BY Basics DEF IInv, TypeOK, Pending
<1>4. \A x \in Job : Needs(x)' = Needs(x) /\ Needs(x) \in SUBSET Job
                      /\ (j \in Needs(x) <=> x \in dependents[j])
    BY <1>3 DEF plan, Needs
<1>5. \A x \in dependents[j] :
        /\ x \in Job /\ ~Started(x) /\ x # j
        /\ Unmet(x)' = Unmet(x) \ {j} /\ j \in Unmet(x)
    <2>1. TAKE x \in dependents[j]
    <2>2. x \in Job /\ j \in Needs(x) BY <1>3, <1>4
    <2>3. ~Started(x) BY <2>2 DEF IInv, NeedsMet, Pending
    <2>4. x # j BY <2>2 DEF Pending
    <2>5. Unmet(x)' = Unmet(x) \ {j} /\ j \in Unmet(x)
        BY <2>2, <1>1, <1>3, <1>4 DEF Unmet, Pending
    <2>6. QED BY <2>2, <2>3, <2>4, <2>5
<1>6. \A x \in Job \ dependents[j] : Unmet(x)' = Unmet(x)
    BY <1>1, <1>3, <1>4 DEF Unmet
<1>7. \A x \in dependents[j] : /\ in_degree[x] \in Nat \ {0}
                               /\ in_degree[x] - 1 = Cardinality(Unmet(x)')
    <2>1. TAKE x \in dependents[j]
    <2>2. x \in Job /\ j \in Unmet(x) /\ Unmet(x)' = Unmet(x) \ {j} BY <1>5
    <2>3. Unmet(x) \in SUBSET Job BY <1>4, <2>2 DEF Unmet
    <2>4. IsFiniteSet(Unmet(x)) BY <2>3, Basics DEF IInv
    <2>5. in_degree[x] = Cardinality(Unmet(x)) BY <2>2 DEF IInv, QueueExact
    <2>6. QED BY <2>2, <2>4, <2>5, CardRemove
<1>8. \A x \in Job : in_degree'[x] = Cardinality(Unmet(x)')
    BY <1>1, <1>3, <1>6, <1>7 DEF IInv, QueueExact
<1>9. /\ freed \in SUBSET Job
      /\ released \in Seq(Job) /\ NoDuplicates(released)
      /\ \A x : InQueue(released, x) <=> x \in freed
    BY <1>2, <1>5, InOrderLists
<1>10. \A x : ~(InQueue(queue, x) /\ InQueue(released, x))
    BY <1>9 DEF IInv, QueueExact, Pending
<1>11. /\ ready' \in Seq(Job) /\ NoDuplicates(ready')
       /\ \A x : InQueue(ready', x) <=> InQueue(queue, x) \/ InQueue(released, x)
    BY <1>2, <1>9, <1>10, QueueJoin DEF Pending
<1>12. QueueTypes'
    <2>1. in_degree' \in [Job -> Nat] BY <1>1, <1>3, <1>7
    <2>2. QED BY <1>1, <1>3, <1>11, <2>1 DEF QueueTypes, IInv, TypeOK
<1>13. QueueExact'
    <2>1. ASSUME NEW x \in Job
          PROVE  InQueue(ready', x) <=> in_degree'[x] = 0 /\ ~Started(x)'
        <3>1. CASE x \in dependents[j]
            <4>1. ~InQueue(queue, x) BY <3>1, <1>7 DEF IInv, QueueExact, Pending
            <4>2. ~Started(x)' BY <3>1, <1>5 DEF OnlyStarts
            <4>3. in_degree'[x] = 0 <=> x \in freed BY <3>1, <1>1, <1>3, <1>7
            <4>4. QED BY <4>1, <4>2, <4>3, <1>9, <1>11
        <3>2. CASE x \notin dependents[j]
            <4>1. ~InQueue(released, x) BY <3>2, <1>9
            <4>2. in_degree'[x] = in_degree[x] BY <3>2, <1>1
            <4>3. QED BY <4>1, <4>2, <1>11 DEF IInv, QueueExact, Pending, OnlyStarts
        <3>3. QED BY <3>1, <3>2
    <2>2. QED BY <2>1, <1>8, <1>11 DEF QueueExact, InQueue, NoDuplicates
<1>14. JobCounts'
    <2>1. {x \in Job : outcome'[x] = "failure"} = {x \in Job : outcome[x] = "failure"}
        BY <1>1, <1>3 DEF Pending
    <2>2. {x \in Job : outcome'[x] = "success"}
            = {x \in Job : outcome[x] = "success"} \cup {j}
        BY <1>1, <1>3
    <2>3. IsFiniteSet({x \in Job : outcome[x] = "success"})
          /\ j \notin {x \in Job : outcome[x] = "success"}
        BY Basics DEF IInv, Pending
    <2>4. Cardinality({x \in Job : outcome'[x] = "success"}) = completed_jobs + 1
        BY <2>2, <2>3, CardAdd DEF IInv, CountsAgree
    <2>5. /\ completed_jobs = Cardinality({x \in Job : outcome[x] = "success"})
          /\ failed_jobs = Cardinality({x \in Job : outcome[x] = "failure"})
          /\ finished_count = completed_jobs + failed_jobs
          /\ completed_jobs \in Nat /\ failed_jobs \in Nat
        BY DEF IInv, CountsAgree, TypeOK
    <2>6. finished_count' = completed_jobs' + failed_jobs' BY <2>5, <1>1
    <2>7. completed_jobs' = Cardinality({x \in Job : outcome'[x] = "success"})
        BY <2>1, <2>4, <2>5, <1>1
    <2>8. failed_jobs' = Cardinality({x \in Job : outcome'[x] = "failure"})
        BY <2>1, <2>4, <2>5, <1>1
    <2>9. QED BY <2>6, <2>7, <2>8 DEF JobCounts
<1>15. NeedsMet'
    <2>1. \A x \in Job : outcome[x] = "success" => outcome'[x] = "success"
        BY <1>1, <1>3
    <2>2. QED BY <2>1, <1>4 DEF NeedsMet, IInv, Pending, OnlyStarts
<1>16. QED BY <1>12, <1>13, <1>14, <1>15
-----------------------------------------------------------------------------
(***************************************************************************)
(* Steps of the control flow and of the children: nothing is launched,     *)
(* settled or reaped.                                                      *)
(***************************************************************************)
ControlTypes ==
    /\ cancelled \in BOOLEAN
    /\ pc \in {"launch", "poll", "reap", "check", "done"}
    /\ cursor \in 1..(MaxSlots + 1)
    /\ proc \in [Job -> {"none", "live", "dying", "exit0", "exit1", "reaped"}]
    /\ pipe \in [Job -> {"none", "quiet", "data", "hup", "closed"}]
    /\ overdue \in SUBSET Job
    /\ written \in SUBSET Job

SameProcesses ==
    \A j \in Job : /\ HasProcess(j)' <=> HasProcess(j)
                   /\ (proc'[j] = "none") <=> (proc[j] = "none")

\* A step that neither starts, settles nor moves a job keeps IInv.
LEMMA QuietKeeps ==
    ASSUME IInv, UNCHANGED plan, UNCHANGED queueing, ControlTypes', SameProcesses,
           written \subseteq written'
    PROVE  IInv'
<1>1. /\ options' = options /\ dependents' = dependents
      /\ in_degree' = in_degree /\ ready' = ready /\ slots' = slots
      /\ running' = running /\ finished_count' = finished_count
      /\ completed_jobs' = completed_jobs /\ failed_jobs' = failed_jobs
      /\ failed' = failed /\ outcome' = outcome
    BY DEF plan, queueing, counters
<1>2. Slots' = Slots /\ MaxSlots' = MaxSlots BY <1>1 DEF Slots, MaxSlots
<1>3. \A j \in Job : Started(j)' <=> Started(j) BY <1>1 DEF SameProcesses, Started
<1>4. \A j \in Job : Needs(j)' = Needs(j) /\ Unmet(j)' = Unmet(j)
    BY <1>1 DEF Needs, Unmet
<1>5. TypeOK' BY <1>1, <1>2 DEF ControlTypes, IInv, TypeOK
<1>6. QueueExact' BY <1>1, <1>3, <1>4 DEF IInv, QueueExact, InQueue, NoDuplicates
<1>7. CountsAgree' BY <1>1, <1>2 DEF IInv, CountsAgree, Active
<1>8. SlotInv'
    <2>1. RunningJobs' = RunningJobs BY <1>1, <1>2 DEF RunningJobs
    <2>2. \A t \in Slots : slots[t] # NoJob => slots[t] \in Job
        BY DEF IInv, TypeOK
    <2>3. QED BY <2>1, <2>2, <1>1, <1>2 DEF IInv, SlotInv, SameProcesses
<1>9. NeedsMet' BY <1>1, <1>3, <1>4 DEF IInv, NeedsMet
<1>10. OutputsThere' BY <1>1 DEF IInv, OutputsThere
<1>11. QED BY <1>5, <1>6, <1>7, <1>8, <1>9, <1>10 DEF IInv

\* The steps that only move the program counter keep it.
LEMMA ControlKeeps ==
    ASSUME IInv,
           \/ SkipSlot \/ EndLaunch \/ Poll \/ SkipEmpty \/ EndReap \/ Loop \/ Cancel
           \/ \E j \in Job : KillOverdue(j) \/ StillRunning(j)
    PROVE  IInv'
<1>1. /\ MaxSlots \in Nat \ {0} /\ Slots = 1..MaxSlots BY Basics DEF IInv
<1>2. ControlTypes BY DEF ControlTypes, IInv, TypeOK
<1>3. UNCHANGED plan => MaxSlots' = MaxSlots BY DEF plan, MaxSlots
<1> USE DEF ControlTypes, SameProcesses, HasProcess
<1>4. CASE SkipSlot
    BY <1>4, <1>1, <1>2, <1>3, QuietKeeps DEF SkipSlot, world
<1>5. CASE EndLaunch
    BY <1>5, <1>1, <1>2, <1>3, QuietKeeps DEF EndLaunch, world
<1>6. CASE Poll
    <2>1. pipe' \in [Job -> {"none", "quiet", "data", "hup", "closed"}]
        BY <1>6, <1>2 DEF Poll, Drained
    <2>2. QED BY <2>1, <1>6, <1>1, <1>2, <1>3, QuietKeeps DEF Poll
<1>7. CASE SkipEmpty
    BY <1>7, <1>1, <1>2, <1>3, QuietKeeps DEF SkipEmpty, world
<1>8. CASE EndReap
    BY <1>8, <1>1, <1>2, <1>3, QuietKeeps DEF EndReap, world
<1>9. CASE Loop
    BY <1>9, <1>1, <1>2, <1>3, QuietKeeps DEF Loop, world
<1>10. CASE Cancel
    BY <1>10, <1>1, <1>2, <1>3, QuietKeeps DEF Cancel, world
<1>11. ASSUME NEW j \in Job, KillOverdue(j) PROVE IInv'
    <2>1. SameProcesses /\ proc' \in [Job -> {"none", "live", "dying", "exit0", "exit1", "reaped"}]
        BY <1>11, <1>2 DEF KillOverdue
    <2>2. QED BY <2>1, <1>11, <1>1, <1>2, <1>3, QuietKeeps DEF KillOverdue, AtSlotOf
<1>12. ASSUME NEW j \in Job, StillRunning(j) PROVE IInv'
    BY <1>12, <1>1, <1>2, <1>3, QuietKeeps DEF StillRunning, AtSlotOf
<1>13. QED BY <1>4, <1>5, <1>6, <1>7, <1>8, <1>9, <1>10, <1>11, <1>12

\* Whatever the children do keeps it.
LEMMA ChildKeeps ==
    ASSUME IInv, NEW j \in Job, ChildStep(j)
    PROVE  IInv'
<1>1. ControlTypes BY DEF ControlTypes, IInv, TypeOK
<1>2. ChildFrame BY DEF ChildStep, WriteOutputs, WritePipe, CloseOutput, Exit, Die, Expire
<1>3. UNCHANGED <<plan, queueing, cancelled, pc, cursor>> BY <1>2 DEF ChildFrame
<1>4. MaxSlots' = MaxSlots BY <1>3 DEF plan, MaxSlots
<1>5. /\ proc' \in [Job -> {"none", "live", "dying", "exit0", "exit1", "reaped"}]
      /\ SameProcesses
    BY <1>1 DEF ChildStep, WriteOutputs, WritePipe, CloseOutput, Exit, Die, Expire,
                ControlTypes, SameProcesses, HasProcess
<1>6. /\ pipe' \in [Job -> {"none", "quiet", "data", "hup", "closed"}]
      /\ overdue' \in SUBSET Job /\ written' \in SUBSET Job
      /\ written \subseteq written'
    BY <1>1 DEF ChildStep, WriteOutputs, WritePipe, CloseOutput, Exit, Die, Expire,
                ControlTypes
<1>7. ControlTypes' BY <1>1, <1>3, <1>4, <1>5, <1>6 DEF ControlTypes
<1>8. QED BY <1>3, <1>5, <1>6, <1>7, QuietKeeps
-----------------------------------------------------------------------------
(* Steps that launch, settle or reap. *)

\* The head of the queue may be started or settled.
LEMMA HeadPending ==
    ASSUME IInv, ready # <<>>
    PROVE  Pending(Head(ready), Tail(ready))
BY HeadFacts DEF Pending, Started

\* A job settled in the launch phase never held a slot.
LEMMA SettleAtLaunchKeeps ==
    ASSUME IInv, AtFreeSlot, UNCHANGED <<slots, running, proc, pipe>>,
           \/ Fail(Head(ready), Tail(ready))
           \/ Succeed(Head(ready), Tail(ready)) /\ options.dry_run
    PROVE  IInv'
<1> DEFINE j == Head(ready)
<1>1. /\ j \in Job /\ ~Started(j) /\ j \notin RunningJobs /\ Pending(j, Tail(ready))
    BY HeadFacts, HeadPending DEF AtFreeSlot
<1>2. /\ UNCHANGED <<plan, cancelled, pc, overdue, written, slots, running, proc, pipe>>
      /\ cursor' = cursor + 1 /\ cursor \in Slots
    BY DEF AtFreeSlot
<1>3. /\ outcome \in [Job -> {"none", "success", "failure"}]
      /\ slots \in [Slots -> Job \cup {NoJob}]
      /\ \E v \in {"success", "failure"} : outcome' = [outcome EXCEPT ![j] = v]
    BY DEF IInv, TypeOK, Fail, Succeed
<1>4. OnlyStarts(j) BY <1>1, <1>2, <1>3 DEF OnlyStarts, Started
<1>5. QueueTypes' /\ QueueExact' /\ JobCounts' /\ NeedsMet'
    BY <1>1, <1>2, <1>4, FailKeeps, SucceedKeeps
<1>6. Slots' = Slots /\ MaxSlots' = MaxSlots BY <1>2 DEF plan, Slots, MaxSlots
<1>7. cursor' \in 1..(MaxSlots' + 1) BY <1>2, <1>6, Basics DEF IInv
<1>8. TypeOK' BY <1>2, <1>3, <1>5, <1>6, <1>7 DEF plan, QueueTypes, IInv, TypeOK
<1>9. CountsAgree' BY <1>2, <1>5, <1>6 DEF JobCounts, IInv, CountsAgree, Active
<1>10. SlotInv'
    <2>1. \A s \in Slots : slots[s] # NoJob => slots[s] \in Job /\ slots[s] # j
        BY <1>1, <1>3 DEF RunningJobs
    <2>2. RunningJobs' = RunningJobs BY <1>2, <1>6 DEF RunningJobs
    <2>3. \A x \in Job : HasProcess(x)' <=> HasProcess(x) BY <1>2 DEF HasProcess
    <2>4. \A x \in Job : x # j => outcome'[x] = outcome[x] BY <1>3
    <2>5. QED BY <2>1, <2>2, <2>3, <2>4, <1>2, <1>6 DEF IInv, SlotInv
<1>11. OutputsThere'
    BY <1>1, <1>2, <1>3 DEF plan, IInv, OutputsThere, Fail, Succeed
<1>12. QED BY <1>5, <1>8, <1>9, <1>10, <1>11 DEF IInv

\* Launching a job keeps IInv.
LEMMA LaunchKeeps ==
    ASSUME IInv, Launch
    PROVE  IInv'
<1> DEFINE j == Head(ready)
<1>1. /\ j \in Job /\ ~Started(j) /\ j \notin RunningJobs
      /\ \A i \in Needs(j) : outcome[i] = "success"
      /\ Tail(ready) \in Seq(Job) /\ NoDuplicates(Tail(ready))
      /\ \A x : InQueue(Tail(ready), x) <=> InQueue(ready, x) /\ x # j
    BY HeadFacts DEF Launch, AtFreeSlot
<1>2. /\ UNCHANGED <<plan, cancelled, pc, overdue, written, in_degree, finished_count,
                     completed_jobs, failed_jobs, failed, outcome>>
      /\ cursor' = cursor + 1 /\ cursor \in Slots /\ slots[cursor] = NoJob
      /\ ready' = Tail(ready) /\ slots' = [slots EXCEPT ![cursor] = j]
      /\ running' = running + 1 /\ proc' = [proc EXCEPT ![j] = "live"]
      /\ pipe' = [pipe EXCEPT ![j] = "quiet"]
    BY DEF Launch, AtFreeSlot
<1>3. /\ slots \in [Slots -> Job \cup {NoJob}]
      /\ proc \in [Job -> {"none", "live", "dying", "exit0", "exit1", "reaped"}]
      /\ pipe \in [Job -> {"none", "quiet", "data", "hup", "closed"}]
      /\ NoJob \notin Job /\ IsFiniteSet(Active)
    BY Basics DEF IInv, TypeOK
<1>4. /\ Slots' = Slots /\ MaxSlots' = MaxSlots
      /\ \A x \in Job : Needs(x)' = Needs(x) /\ Unmet(x)' = Unmet(x)
    BY <1>2 DEF plan, Slots, MaxSlots, Needs, Unmet
<1>5. OnlyStarts(j) BY <1>1, <1>2, <1>3 DEF OnlyStarts, Started
<1>6. cursor' \in 1..(MaxSlots' + 1) BY <1>2, <1>4, Basics DEF IInv
<1>7. TypeOK' BY <1>1, <1>2, <1>3, <1>4, <1>6 DEF plan, IInv, TypeOK
<1>8. QueueExact'
    <2>1. \A x \in Job : in_degree'[x] = Cardinality(Unmet(x)')
        BY <1>2, <1>4 DEF IInv, QueueExact
    <2>2. \A x \in Job : InQueue(ready', x) <=> in_degree'[x] = 0 /\ ~Started(x)'
        BY <1>1, <1>2, <1>5 DEF IInv, QueueExact, OnlyStarts
    <2>3. QED BY <2>1, <2>2, <1>1, <1>2 DEF QueueExact, InQueue, NoDuplicates
<1>9. CountsAgree'
    <2>1. Active' = Active \cup {cursor} /\ cursor \notin Active
        BY <1>1, <1>2, <1>3, <1>4 DEF Active
    <2>2. Cardinality(Active') = Cardinality(Active) + 1 BY <2>1, <1>3, CardAdd
    <2>3. running' = Cardinality(Active') BY <2>2, <1>2 DEF IInv, CountsAgree
    <2>4. QED BY <2>3, <1>2 DEF IInv, CountsAgree
<1>10. SlotInv'
    <2>1. RunningJobs' = RunningJobs \cup {j}
        BY <1>1, <1>2, <1>3, <1>4 DEF RunningJobs
    <2>2. \A x \in Job : HasProcess(x)' <=> HasProcess(x) \/ x = j
        BY <1>2, <1>3 DEF HasProcess
    <2>3. \A s \in Slots : slots[s] # j BY <1>1 DEF RunningJobs
    <2>4. outcome[j] = "none" BY <1>1 DEF Started
    <2>5. \A s \in Slots : slots'[s] = IF s = cursor THEN j ELSE slots[s]
        BY <1>2, <1>3
    <2>6. \A s \in Slots : slots'[s] # NoJob =>
            outcome'[slots'[s]] = "none" /\ HasProcess(slots[s])'
        BY <2>2, <2>4, <2>5, <1>1, <1>2, <1>3 DEF IInv, SlotInv, HasProcess
    <2>7. \A s, t \in Slots : slots'[s] = slots'[t] /\ slots'[s] # NoJob => s = t
        BY <2>3, <2>5 DEF IInv, SlotInv
    <2>8. \A x \in Job : HasProcess(x)' => x \in RunningJobs'
        BY <2>1, <2>2 DEF IInv, SlotInv
    <2>9. QED BY <2>6, <2>7, <2>8, <1>4 DEF SlotInv, HasProcess
<1>11. NeedsMet' BY <1>1, <1>2, <1>4, <1>5 DEF IInv, NeedsMet, OnlyStarts
<1>12. OutputsThere' BY <1>2 DEF plan, IInv, OutputsThere
<1>13. QED BY <1>7, <1>8, <1>9, <1>10, <1>11, <1>12 DEF IInv

\* Reaping a job, to whichever verdict, keeps IInv.
LEMMA ReapKeeps ==
    ASSUME IInv, NEW j \in Job, Reap(j)
    PROVE  IInv'
<1>1. /\ UNCHANGED <<plan, cancelled, pc, overdue, written>>
      /\ cursor' = cursor + 1 /\ cursor \in Slots /\ slots[cursor] = j
      /\ slots' = [slots EXCEPT ![cursor] = NoJob] /\ running' = running - 1
      /\ proc' = [proc EXCEPT ![j] = "reaped"] /\ pipe' = [pipe EXCEPT ![j] = "closed"]
      /\ proc[j] \in {"exit0", "exit1"}
      /\ (Succeed(j, ready) /\ j \in written) \/ Fail(j, ready)
    BY DEF Reap, AtSlotOf, Exited, JobSuccess
<1>2. /\ slots \in [Slots -> Job \cup {NoJob}]
      /\ proc \in [Job -> {"none", "live", "dying", "exit0", "exit1", "reaped"}]
      /\ pipe \in [Job -> {"none", "quiet", "data", "hup", "closed"}]
      /\ outcome \in [Job -> {"none", "success", "failure"}]
      /\ NoJob \notin Job /\ IsFiniteSet(Active)
    BY Basics DEF IInv, TypeOK
<1>3. Started(j) /\ outcome[j] = "none" BY <1>1, <1>2 DEF Started, IInv, SlotInv
<1>4. Pending(j, ready)
    BY <1>3 DEF Pending, IInv, TypeOK, QueueExact, NeedsMet
<1>5. \E v \in {"success", "failure"} : outcome' = [outcome EXCEPT ![j] = v]
    BY <1>1 DEF Fail, Succeed
<1>6. OnlyStarts(j) BY <1>1, <1>2, <1>5 DEF OnlyStarts, Started
<1>7. QueueTypes' /\ QueueExact' /\ JobCounts' /\ NeedsMet'
    BY <1>1, <1>4, <1>6, FailKeeps, SucceedKeeps
<1>8. Slots' = Slots /\ MaxSlots' = MaxSlots BY <1>1 DEF plan, Slots, MaxSlots
<1>9. cursor' \in 1..(MaxSlots' + 1) BY <1>1, <1>8, Basics DEF IInv
<1>10. Active' = Active \ {cursor} /\ cursor \in Active
    BY <1>1, <1>2, <1>8 DEF Active
<1>11. running' = Cardinality(Active') /\ running' \in Nat
    BY <1>1, <1>2, <1>10, CardRemove DEF IInv, CountsAgree
<1>12. TypeOK' BY <1>1, <1>2, <1>7, <1>8, <1>9, <1>11 DEF plan, QueueTypes, IInv, TypeOK
<1>13. CountsAgree' BY <1>7, <1>11 DEF JobCounts, CountsAgree
<1>14. SlotInv'
    <2>1. \A s \in Slots : slots'[s] = IF s = cursor THEN NoJob ELSE slots[s]
        BY <1>1, <1>2
    <2>2. \A s \in Slots : slots'[s] # NoJob => slots[s] \in Job /\ slots[s] # j
        BY <2>1, <1>1, <1>2 DEF IInv, SlotInv
    <2>3. \A x \in Job : x # j => /\ outcome'[x] = outcome[x]
                                  /\ HasProcess(x)' <=> HasProcess(x)
        BY <1>1, <1>2, <1>5 DEF HasProcess
    <2>4. \A s \in Slots : slots'[s] # NoJob =>
            outcome'[slots'[s]] = "none" /\ HasProcess(slots[s])'
        BY <2>1, <2>2, <2>3 DEF IInv, SlotInv
    <2>5. \A s, t \in Slots : slots'[s] = slots'[t] /\ slots'[s] # NoJob => s = t
        BY <2>1 DEF IInv, SlotInv
    <2>6. ~HasProcess(j)' BY <1>1, <1>2 DEF HasProcess
    <2>7. \A x \in Job : HasProcess(x)' => x \in RunningJobs'
        BY <2>1, <2>3, <2>6, <1>1, <1>8 DEF IInv, SlotInv, RunningJobs
    <2>8. QED BY <2>1, <2>4, <2>5, <2>7, <1>8 DEF SlotInv, HasProcess
<1>15. OutputsThere'
    BY <1>1, <1>2 DEF plan, IInv, OutputsThere, Fail, Succeed
<1>16. QED BY <1>7, <1>12, <1>13, <1>14, <1>15 DEF IInv

\* Killing and reaping what still runs keeps IInv.
LEMMA TerminateKeeps ==
    ASSUME IInv, Terminate
    PROVE  IInv'
<1>1. /\ UNCHANGED <<plan, in_degree, ready, finished_count, completed_jobs, failed_jobs,
                     failed, outcome, cancelled, cursor, overdue, written>>
      /\ slots' = [s \in Slots |-> NoJob] /\ running' = running - Cardinality(Active)
      /\ proc' = [x \in Job |-> IF x \in RunningJobs THEN "reaped" ELSE proc[x]]
      /\ pipe' = [x \in Job |-> IF x \in RunningJobs THEN "closed" ELSE pipe[x]]
      /\ pc' = "done"
    BY DEF Terminate
<1>2. /\ proc \in [Job -> {"none", "live", "dying", "exit0", "exit1", "reaped"}]
      /\ pipe \in [Job -> {"none", "quiet", "data", "hup", "closed"}]
      /\ slots \in [Slots -> Job \cup {NoJob}] /\ NoJob \notin Job
    BY Basics DEF IInv, TypeOK
<1>3. /\ Slots' = Slots /\ MaxSlots' = MaxSlots
      /\ \A x \in Job : Needs(x)' = Needs(x) /\ Unmet(x)' = Unmet(x)
    BY <1>1 DEF plan, Slots, MaxSlots, Needs, Unmet
<1>4. Active' = {} BY <1>1, <1>3 DEF Active
<1>5. running' = 0 /\ running' = Cardinality(Active')
    BY <1>1, <1>4, FS_EmptySet DEF IInv, CountsAgree, TypeOK
<1>6. \A x \in Job : Started(x)' <=> Started(x)
    <2>1. \A x \in RunningJobs : HasProcess(x)
        BY <1>2 DEF IInv, SlotInv, RunningJobs
    <2>2. QED BY <2>1, <1>1, <1>2 DEF Started, HasProcess
<1>7. TypeOK' BY <1>1, <1>2, <1>3, <1>5 DEF plan, IInv, TypeOK
<1>8. QueueExact' BY <1>1, <1>3, <1>6 DEF IInv, QueueExact, InQueue, NoDuplicates
<1>9. CountsAgree' BY <1>1, <1>5 DEF IInv, CountsAgree
<1>10. SlotInv'
    <2>1. \A x \in Job : ~HasProcess(x)'
        BY <1>1, <1>2 DEF IInv, SlotInv, HasProcess
    <2>2. QED BY <2>1, <1>1, <1>3 DEF SlotInv
<1>11. NeedsMet' BY <1>1, <1>3, <1>6 DEF IInv, NeedsMet
<1>12. OutputsThere' BY <1>1 DEF plan, IInv, OutputsThere
<1>13. QED BY <1>7, <1>8, <1>9, <1>10, <1>11, <1>12 DEF IInv

\* IInv holds when the loop starts.
LEMMA InitIInv == Init => IInv
<1> SUFFICES ASSUME Init PROVE IInv OBVIOUS
<1> USE DEF Init
<1>1. IsFiniteSet(Job) /\ NoJob \notin Job
    BY NumJobsAssumption, FS_Interval DEF Job, NoJob
<1>2. dependents \in [Job -> SUBSET Job] /\ options.jobs \in Nat \ {0}
    BY MapsAssumption, OptionsAssumption
<1>3. MaxSlots \in Nat \ {0} BY <1>2, NumJobsAssumption DEF MaxSlots
<1>4. \A j \in Job : /\ Needs(j) \in SUBSET Job /\ Unmet(j) = Needs(j)
                     /\ Cardinality(Needs(j)) \in Nat
                     /\ (Cardinality(Needs(j)) = 0 <=> Needs(j) = {})
    <2>1. TAKE j \in Job
    <2>2. Needs(j) \in SUBSET Job /\ Unmet(j) = Needs(j) BY DEF Needs, Unmet
    <2>3. IsFiniteSet(Needs(j)) BY <2>2, <1>1, FS_Subset
    <2>4. QED BY <2>2, <2>3, FS_CardinalityType, FS_EmptySet
<1>5. /\ ready \in Seq(Job) /\ NoDuplicates(ready)
      /\ \A x : InQueue(ready, x) <=> x \in {j \in Job : Needs(j) = {}}
    BY InOrderLists
<1>6. Active = {} /\ Cardinality({}) = 0 BY FS_EmptySet DEF Active
<1>7. /\ {j \in Job : outcome[j] = "success"} = {}
      /\ {j \in Job : outcome[j] = "failure"} = {}
    OBVIOUS
<1>8. TypeOK
    <2>1. in_degree \in [Job -> Nat] BY <1>4
    <2>2. cursor \in 1..(MaxSlots + 1) BY <1>3
    <2>3. slots \in [Slots -> Job \cup {NoJob}] OBVIOUS
    <2>4. QED BY <2>1, <2>2, <2>3, <1>5 DEF TypeOK
<1>9. QueueExact BY <1>4, <1>5 DEF QueueExact, Started
<1>10. CountsAgree BY <1>6, <1>7 DEF CountsAgree
<1>11. SlotInv BY <1>1 DEF SlotInv, HasProcess
<1>12. NeedsMet /\ OutputsThere BY DEF NeedsMet, OutputsThere, Started
<1>13. QED BY <1>8, <1>9, <1>10, <1>11, <1>12 DEF IInv

\* A step that changes no variable keeps IInv.
LEMMA StutterKeeps ==
    ASSUME IInv, UNCHANGED vars
    PROVE  IInv'
<1>1. UNCHANGED plan /\ UNCHANGED queueing
      /\ UNCHANGED <<cancelled, pc, cursor, proc, pipe, overdue, written>>
    BY DEF vars, world
<1>2. ControlTypes' /\ SameProcesses
    BY <1>1 DEF ControlTypes, SameProcesses, HasProcess, IInv, TypeOK, plan, MaxSlots
<1>3. QED BY <1>1, <1>2, QuietKeeps

-----------------------------------------------------------------------------
(***************************************************************************)
(* IInv is an invariant of the scheduler.                                  *)
(***************************************************************************)
THEOREM Invariance == Spec => []IInv
<1>1. IInv /\ [Next]_vars => IInv'
    <2> SUFFICES ASSUME IInv, [Next]_vars PROVE IInv' OBVIOUS
    <2>1. CASE LoopStep
        <3>1. CASE Launch BY <3>1, LaunchKeeps
        <3>2. CASE LaunchFails BY <3>2, SettleAtLaunchKeeps DEF LaunchFails
        <3>3. CASE LaunchDry BY <3>3, SettleAtLaunchKeeps DEF LaunchDry
        <3>4. CASE \E j \in Job : Reap(j) BY <3>4, ReapKeeps
        <3>5. CASE Terminate BY <3>5, TerminateKeeps
        <3>6. QED BY <3>1, <3>2, <3>3, <3>4, <3>5, <2>1, ControlKeeps DEF LoopStep
    <2>2. CASE Cancel BY <2>2, ControlKeeps
    <2>3. CASE \E j \in Job : ChildStep(j) BY <2>3, ChildKeeps
    <2>4. CASE UNCHANGED vars BY <2>4, StutterKeeps
    <2>5. QED BY <2>1, <2>2, <2>3, <2>4 DEF Next, Returned
<1>2. QED BY <1>1, InitIInv, PTL DEF Spec

(***************************************************************************)
(* Type correctness of the scheduler, for every number of jobs and slots.  *)
(***************************************************************************)
THEOREM TypeCorrect == Spec => []TypeOK
<1>1. IInv => TypeOK BY DEF IInv
<1>2. QED BY <1>1, Invariance, PTL

(***************************************************************************)
(* No command is started before every command it waits for has exited zero *)
(* and left its declared outputs on disk.                                  *)
(***************************************************************************)
THEOREM OrderKept == Spec => []DependencyOrder
<1>1. IInv => DependencyOrder
    BY DEF IInv, DependencyOrder, NeedsMet, OutputsThere, Needs
<1>2. QED BY <1>1, Invariance, PTL

(***************************************************************************)
(* in_degree counts the unmet dependencies, the ready queue holds what may *)
(* start, and the counts agree with the verdicts and the occupied slots.   *)
(***************************************************************************)
THEOREM BooksAreKept == Spec => []Bookkeeping
<1>1. IInv => Bookkeeping BY DEF IInv, Bookkeeping
<1>2. QED BY <1>1, Invariance, PTL

-----------------------------------------------------------------------------
(***************************************************************************)
(* How a build ends, and that the scheduler implements JobOrder.           *)
(***************************************************************************)
(***************************************************************************)
(* The run ends with all slots empty, and only because it was stopped, or  *)
(* nothing is ready, or every job has its verdict.  Only a stopped run     *)
(* leaves a job that was started without one.                              *)
(***************************************************************************)
NoSlotTaken == \A s \in Slots : slots[s] = NoJob

Stopped == cancelled \/ (failed /\ ~options.keep_going)

EndReason ==
    \/ Stopped
    \/ ready = <<>>
    \/ \A j \in Job : outcome[j] # "none"

EndInv ==
    /\ pc = "done" => NoSlotTaken /\ EndReason
    /\ \A j \in Job : outcome[j] = "failure" => failed
    /\ \A j \in Job : proc[j] = "reaped" /\ outcome[j] = "none"
                         => pc = "done" /\ Stopped

\* A pass with no child left and none to launch.
LEMMA EndLaunchEnds ==
    ASSUME IInv, EndInv, EndLaunch
    PROVE  EndInv'
<1>1. UNCHANGED <<plan, queueing, cancelled, proc>> /\ pc # "done"
    BY DEF EndLaunch, world
<1>2. Slots' = Slots BY <1>1 DEF plan, Slots, MaxSlots
<1>3. ASSUME pc' = "done" PROVE NoSlotTaken /\ ready = <<>>
    <2>1. running = 0 /\ ready = <<>> BY <1>3 DEF EndLaunch
    <2>2. Active = {} BY <2>1, Basics, FS_EmptySet DEF IInv, CountsAgree
    <2>3. QED BY <2>1, <2>2 DEF Active, NoSlotTaken
<1>4. QED BY <1>1, <1>2, <1>3 DEF EndInv, NoSlotTaken, EndReason, Stopped, plan, queueing, counters

\* When the counts have reached the number of jobs, every job has a verdict.
LEMMA AllCounted ==
    ASSUME IInv, finished_count >= NumJobs
    PROVE  \A j \in Job : outcome[j] # "none"
<1> DEFINE won == {j \in Job : outcome[j] = "success"}
           lost == {j \in Job : outcome[j] = "failure"}
<1>1. IsFiniteSet(won) /\ IsFiniteSet(lost) /\ IsFiniteSet(Job) BY Basics DEF IInv
<1>2. Cardinality(Job) = NumJobs BY NumJobsAssumption, FS_Interval DEF Job
<1>3. won \cap lost = {} OBVIOUS
<1>4. Cardinality(won \cup lost) = Cardinality(won) + Cardinality(lost) - Cardinality(won \cap lost)
    BY <1>1, FS_Union
<1>5. Cardinality(won \cap lost) = 0 BY <1>3, FS_EmptySet
<1>6. /\ Cardinality(won) \in Nat /\ Cardinality(lost) \in Nat
      /\ finished_count = Cardinality(won) + Cardinality(lost)
    BY <1>1, FS_CardinalityType DEF IInv, CountsAgree
<1>7. Cardinality(won \cup lost) >= Cardinality(Job)
    BY <1>2, <1>4, <1>5, <1>6, NumJobsAssumption
<1>8. won \cup lost = Job BY <1>1, <1>7, FS_Subset, FS_CardinalityType
<1>9. QED BY <1>8

\* The loop condition fails.
LEMMA LoopEnds ==
    ASSUME IInv, EndInv, Loop
    PROVE  EndInv'
<1>1. UNCHANGED <<plan, queueing, cancelled, proc>> /\ pc # "done"
    BY DEF Loop, world
<1>2. Slots' = Slots BY <1>1 DEF plan, Slots, MaxSlots
<1>3. ASSUME pc' = "done" PROVE NoSlotTaken /\ \A j \in Job : outcome[j] # "none"
    <2>1. finished_count >= NumJobs
        BY <1>3, NumJobsAssumption DEF Loop, IInv, TypeOK
    <2>2. \A j \in Job : outcome[j] # "none" BY <2>1, AllCounted
    <2>3. \A s \in Slots : slots[s] # NoJob => slots[s] \in Job BY DEF IInv, TypeOK
    <2>4. QED BY <2>2, <2>3 DEF IInv, SlotInv, NoSlotTaken
<1>4. QED BY <1>1, <1>2, <1>3 DEF EndInv, NoSlotTaken, EndReason, Stopped, plan, queueing, counters

\* A step that settles a job leaves the loop running.
LEMMA SettlingEnds ==
    ASSUME IInv, EndInv, pc # "done", pc' = pc, NEW j \in Job, NEW queue,
           Succeed(j, queue) \/ Fail(j, queue),
           \A x \in Job : x # j => proc'[x] = proc[x]
    PROVE  EndInv'
<1>1. /\ outcome' \in [Job -> {"none", "success", "failure"}] /\ outcome'[j] # "none"
      /\ \A x \in Job : x # j => outcome'[x] = outcome[x]
    BY DEF Succeed, Fail, IInv, TypeOK
<1>2. \A x \in Job : outcome'[x] = "failure" => failed'
    BY <1>1 DEF EndInv, Succeed, Fail, IInv, TypeOK
<1>3. QED BY <1>1, <1>2 DEF EndInv

\* EndInv is preserved, given IInv.
LEMMA EndStep ==
    ASSUME IInv, EndInv, [Next]_vars
    PROVE  EndInv'
<1>1. CASE UNCHANGED vars \/ \E j \in Job : ChildStep(j)
    <2>1. UNCHANGED <<plan, queueing, cancelled, pc>>
        BY <1>1 DEF vars, ChildStep, WriteOutputs, WritePipe, CloseOutput, Exit, Die,
                    Expire, ChildFrame
    <2>2. \A x \in Job : proc'[x] = "reaped" => proc[x] = "reaped"
        BY <1>1 DEF vars, world, ChildStep, WriteOutputs, WritePipe, CloseOutput, Exit,
                    Die, Expire, IInv, TypeOK
    <2>3. QED BY <2>1, <2>2 DEF EndInv, NoSlotTaken, EndReason, Stopped, Slots,
                                MaxSlots, plan, queueing, counters
<1>2. CASE Launch
    <2>1. pc = "launch" /\ pc' = pc /\ failed' = failed /\ outcome' = outcome
        BY <1>2 DEF Launch, AtFreeSlot
    <2>2. \A x \in Job : proc'[x] = "reaped" => proc[x] = "reaped"
        BY <1>2 DEF Launch, IInv, TypeOK
    <2>3. QED BY <2>1, <2>2 DEF EndInv
<1>3. CASE LaunchFails \/ LaunchDry
    <2>1. /\ Succeed(Head(ready), Tail(ready)) \/ Fail(Head(ready), Tail(ready))
          /\ pc # "done" /\ pc' = pc /\ ready # <<>> /\ proc' = proc
        BY <1>3 DEF LaunchFails, LaunchDry, AtFreeSlot
    <2>2. QED BY <2>1, HeadFacts, SettlingEnds
<1>4. CASE \E j \in Job : Reap(j)
    <2>1. PICK j \in Job : Reap(j) BY <1>4
    <2>2. pc # "done" /\ pc' = pc /\ (Succeed(j, ready) \/ Fail(j, ready))
        BY <2>1 DEF Reap, AtSlotOf
    <2>3. \A x \in Job : x # j => proc'[x] = proc[x]
        BY <2>1 DEF Reap, IInv, TypeOK
    <2>4. QED BY <2>2, <2>3, SettlingEnds
<1>5. CASE \/ SkipSlot \/ Poll \/ SkipEmpty \/ EndReap \/ Cancel
           \/ \E j \in Job : KillOverdue(j) \/ StillRunning(j)
    <2>1. pc # "done" /\ pc' # "done" /\ UNCHANGED queueing
        BY <1>5 DEF SkipSlot, Poll, SkipEmpty, EndReap, Cancel, KillOverdue,
                    StillRunning, AtSlotOf
    <2>2. \A x \in Job : proc'[x] = "reaped" => proc[x] = "reaped"
        BY <1>5 DEF SkipSlot, Poll, SkipEmpty, EndReap, Cancel, KillOverdue,
                    StillRunning, world, IInv, TypeOK
    <2>3. QED BY <2>1, <2>2 DEF EndInv, queueing
<1>6. CASE Terminate
    <2>1. Stopped' BY <1>6 DEF Terminate, MustStop, Stopped, plan
    <2>2. NoSlotTaken' BY <1>6 DEF Terminate, NoSlotTaken, Slots, MaxSlots, plan
    <2>3. QED BY <1>6, <2>1, <2>2 DEF EndInv, EndReason, Terminate
<1>7. CASE EndLaunch BY <1>7, EndLaunchEnds
<1>8. CASE Loop BY <1>8, LoopEnds
<1>9. QED BY <1>1, <1>2, <1>3, <1>4, <1>5, <1>6, <1>7, <1>8 DEF Next, LoopStep, Returned

(***************************************************************************)
(* How every build ends: EndInv beside IInv is inductive.                  *)
(***************************************************************************)
THEOREM Ending == Spec => [](IInv /\ EndInv)
<1>1. Init => IInv /\ EndInv
    <2>1. Init => EndInv BY DEF Init, EndInv
    <2>2. QED BY <2>1, InitIInv
<1>2. IInv /\ EndInv /\ [Next]_vars => EndInv' BY EndStep
<1>3. Spec => []IInv BY Invariance
<1>4. QED BY <1>1, <1>2, <1>3, PTL DEF Spec

(***************************************************************************)
(* When build() returns no command it launched is still running, and none  *)
(* is left unreaped.                                                       *)
(***************************************************************************)
THEOREM AllReaped == Spec => []NoChildLeft
<1>1. IInv /\ EndInv => NoChildLeft
    <2> SUFFICES ASSUME IInv, EndInv, pc = "done", NEW j \in Job
                 PROVE  proc[j] \in {"none", "reaped"}
        BY DEF NoChildLeft
    <2>1. j \notin RunningJobs BY Basics DEF EndInv, NoSlotTaken, RunningJobs, IInv
    <2>2. QED BY <2>1 DEF IInv, SlotInv, HasProcess, TypeOK
<1>2. QED BY <1>1, Ending, PTL

\* A job without a verdict at the end of a run nobody stopped waits for one that
\* did not succeed.
LEMMA UnrunWaits ==
    ASSUME IInv, EndInv, pc = "done", ~Stopped, NEW j \in Job, outcome[j] = "none"
    PROVE  \E i \in Needs(j) : outcome[i] # "success"
<1>1. ~Started(j)
    <2>1. j \notin RunningJobs BY Basics DEF EndInv, NoSlotTaken, RunningJobs, IInv
    <2>2. ~HasProcess(j) BY <2>1 DEF IInv, SlotInv
    <2>3. QED BY <2>2 DEF EndInv, HasProcess, IInv, TypeOK, Started
<1>2. ready = <<>> BY DEF EndInv, EndReason
<1>3. ~InQueue(ready, j) BY <1>2 DEF InQueue
<1>4. in_degree[j] # 0 BY <1>1, <1>3 DEF IInv, QueueExact
<1>5. Unmet(j) # {}
    <2>1. in_degree[j] = Cardinality(Unmet(j)) BY DEF IInv, QueueExact
    <2>2. QED BY <2>1, <1>4, FS_EmptySet
<1>6. QED BY <1>5 DEF Unmet

(***************************************************************************)
(* Under keep_going, a job is left unrun only because one it waits for did *)
(* not succeed.                                                            *)
(***************************************************************************)
THEOREM KeepsGoing == Spec => []KeepGoingRunsTheRest
<1>1. IInv /\ EndInv => KeepGoingRunsTheRest
    BY UnrunWaits DEF KeepGoingRunsTheRest, Stopped
<1>2. QED BY <1>1, Ending, PTL

\* In every set of jobs one waits for none of the others.  MCJobGraph checks that
\* the maps build_dependency_map is left with are such (NeverStalls).
AcyclicMap(map) ==
    \A T \in SUBSET Job : T # {} => \E j \in T : \A i \in T : j \notin map[i]

(***************************************************************************)
(* On acyclic dependency maps, a build that nothing failed and nobody      *)
(* cancelled has run every job: the ready queue never stalls.              *)
(***************************************************************************)
THEOREM NothingLeftOut ==
    ASSUME \A map \in DependencyMaps : AcyclicMap(map)
    PROVE  Spec => []SuccessIsComplete
<1>1. IInv /\ EndInv => SuccessIsComplete
    <2> SUFFICES ASSUME IInv, EndInv, pc = "done", ~failed, ~cancelled
                 PROVE  \A j \in Job : outcome[j] = "success"
        BY DEF SuccessIsComplete
    <2> DEFINE unrun == {j \in Job : outcome[j] = "none"}
    <2>1. \A j \in Job : outcome[j] \in {"none", "success"}
        BY DEF EndInv, IInv, TypeOK
    <2>2. AcyclicMap(dependents) BY DEF IInv, TypeOK
    <2>3. ASSUME unrun # {} PROVE FALSE
        <3>1. PICK j \in unrun : \A i \in unrun : j \notin dependents[i]
            BY <2>2, <2>3 DEF AcyclicMap
        <3>2. PICK i \in Needs(j) : outcome[i] # "success"
            BY <3>1, UnrunWaits DEF Stopped
        <3>3. i \in unrun /\ j \in dependents[i] BY <3>2, <2>1 DEF Needs
        <3>4. QED BY <3>1, <3>3
    <2>4. QED BY <2>1, <2>3
<1>2. QED BY <1>1, Ending, PTL
-----------------------------------------------------------------------------
(***************************************************************************)
(* Between a failed command and the next launch pass stands phase 6: once  *)
(* a failure was reaped the thread is no longer where it launches.         *)
(***************************************************************************)
FailureClosesLaunch ==
    (\E j \in Job : CommandFailed(j)) /\ ~options.keep_going
        => pc \in {"reap", "check", "done"}

\* A step after which no more commands have failed, and which does not go back to
\* launching, keeps it.
LEMMA ClosedStays ==
    ASSUME FailureClosesLaunch, UNCHANGED options,
           \A x \in Job : CommandFailed(x)' => CommandFailed(x),
           pc' = pc \/ pc' \in {"reap", "check", "done"}
    PROVE  FailureClosesLaunch'
BY DEF FailureClosesLaunch

\* FailureClosesLaunch is preserved, given IInv and EndInv.
LEMMA FailureStep ==
    ASSUME IInv, EndInv, FailureClosesLaunch, [Next]_vars
    PROVE  FailureClosesLaunch'
<1>1. UNCHANGED options
    BY DEF Next, LoopStep, Launch, LaunchFails, LaunchDry, AtFreeSlot, SkipSlot, EndLaunch,
           Poll, Reap, KillOverdue, StillRunning, AtSlotOf, SkipEmpty, EndReap, Terminate,
           Loop, Cancel, ChildStep, WriteOutputs, WritePipe, CloseOutput, Exit, Die, Expire,
           ChildFrame, Returned, plan, vars
<1>2. CASE UNCHANGED vars \/ \E j \in Job : ChildStep(j)
    <2>1. UNCHANGED <<outcome, pc>>
        BY <1>2 DEF vars, queueing, ChildStep, WriteOutputs, WritePipe, CloseOutput, Exit,
                    Die, Expire, ChildFrame
    <2>2. \A x \in Job : proc'[x] = "reaped" => proc[x] = "reaped"
        BY <1>2 DEF vars, world, ChildStep, WriteOutputs, WritePipe, CloseOutput, Exit,
                    Die, Expire, IInv, TypeOK
    <2>3. QED BY <2>1, <2>2, <1>1, ClosedStays DEF CommandFailed
<1>3. CASE Launch
    <2>1. UNCHANGED <<outcome, pc>> BY <1>3 DEF Launch, AtFreeSlot
    <2>2. \A x \in Job : proc'[x] = "reaped" => proc[x] = "reaped"
        BY <1>3 DEF Launch, IInv, TypeOK
    <2>3. QED BY <2>1, <2>2, <1>1, ClosedStays DEF CommandFailed
<1>4. CASE LaunchFails \/ LaunchDry
    <2>1. UNCHANGED <<proc, pc>> BY <1>4 DEF LaunchFails, LaunchDry, AtFreeSlot
    <2>2. PICK j \in Job : j = Head(ready) /\ ~Started(j)
        BY <1>4, HeadFacts DEF LaunchFails, LaunchDry, AtFreeSlot
    <2>3. /\ proc[j] # "reaped"
          /\ \A x \in Job : x # j => outcome'[x] = outcome[x]
        BY <1>4, <2>2 DEF LaunchFails, LaunchDry, Succeed, Fail, Started, IInv, TypeOK
    <2>4. QED BY <2>1, <2>3, <1>1, ClosedStays DEF CommandFailed
<1>5. CASE \E j \in Job : Reap(j)
    <2>1. pc' = "reap" BY <1>5 DEF Reap, AtSlotOf
    <2>2. QED BY <2>1 DEF FailureClosesLaunch
<1>6. CASE \/ SkipSlot \/ EndLaunch \/ Poll \/ SkipEmpty \/ EndReap \/ Cancel
           \/ \E j \in Job : KillOverdue(j) \/ StillRunning(j)
    <2>1. UNCHANGED outcome
        BY <1>6 DEF SkipSlot, EndLaunch, Poll, SkipEmpty, EndReap, Cancel, KillOverdue,
                    StillRunning, queueing
    <2>2. \A x \in Job : proc'[x] = "reaped" => proc[x] = "reaped"
        BY <1>6 DEF SkipSlot, EndLaunch, Poll, SkipEmpty, EndReap, Cancel, KillOverdue,
                    StillRunning, world, IInv, TypeOK
    <2>3. pc' = pc \/ pc' \in {"reap", "check", "done"} \/ EndLaunch
        BY <1>6 DEF SkipSlot, Poll, SkipEmpty, EndReap, Cancel, KillOverdue,
                    StillRunning, AtSlotOf
    <2>4. CASE EndLaunch
        <3>1. ~(\E j \in Job : CommandFailed(j)) \/ options.keep_going
            BY <2>4 DEF EndLaunch, FailureClosesLaunch
        <3>2. QED BY <3>1, <2>1, <2>2, <1>1 DEF FailureClosesLaunch, CommandFailed
    <2>5. QED BY <2>1, <2>2, <2>3, <2>4, <1>1, ClosedStays DEF CommandFailed
<1>7. CASE Terminate BY <1>7 DEF Terminate, FailureClosesLaunch
<1>8. CASE Loop
    <2>1. UNCHANGED <<outcome, proc>> /\ ~MustStop
        BY <1>8 DEF Loop, queueing, world
    <2>2. (\A j \in Job : ~CommandFailed(j)) \/ options.keep_going
        BY <2>1 DEF MustStop, EndInv, CommandFailed
    <2>3. QED BY <2>1, <2>2, <1>1 DEF FailureClosesLaunch, CommandFailed
<1>9. QED BY <1>2, <1>3, <1>4, <1>5, <1>6, <1>7, <1>8 DEF Next, LoopStep, Returned

(***************************************************************************)
(* After a command failed and was reaped no other is started, unless       *)
(* keep_going is set.                                                      *)
(***************************************************************************)
THEOREM FailureStopsLaunching == Spec => NoStartAfterFailure
<1> DEFINE Quiet == (\E j \in Job : CommandFailed(j)) /\ ~options.keep_going =>
                        \A j \in Job : proc'[j] = "live" => proc[j] = "live"
<1>1. Init => FailureClosesLaunch BY DEF Init, FailureClosesLaunch, CommandFailed
<1>2. IInv /\ EndInv /\ FailureClosesLaunch /\ [Next]_vars => FailureClosesLaunch'
    BY FailureStep
<1>3. IInv /\ FailureClosesLaunch /\ [Next]_vars => [Quiet]_vars
    <2> SUFFICES ASSUME IInv, FailureClosesLaunch, Next,
                        \E j \in Job : CommandFailed(j), ~options.keep_going,
                        NEW j \in Job, proc'[j] = "live"
                 PROVE  proc[j] = "live"
        OBVIOUS
    <2>1. ~Launch BY DEF Launch, AtFreeSlot, FailureClosesLaunch
    <2>2. QED
        BY <2>1 DEF Next, LoopStep, LaunchFails, LaunchDry, AtFreeSlot, SkipSlot, EndLaunch,
           Poll, Reap, KillOverdue, StillRunning, AtSlotOf, SkipEmpty, EndReap, Terminate,
           Loop, Cancel, ChildStep, WriteOutputs, WritePipe, CloseOutput, Exit, Die, Expire,
           ChildFrame, Returned, world, vars, IInv, TypeOK
<1>4. QED BY <1>1, <1>2, <1>3, Ending, PTL DEF Spec, NoStartAfterFailure

(***************************************************************************)
(* The scheduler implements JobOrder: its initial states are initial       *)
(* states of JobOrder, and each step is a step of JobOrder or leaves what  *)
(* JobOrder sees unchanged.                                                *)
(***************************************************************************)
JobsRunning == Order!RunningSet

\* JobOrder counts as this module does.
LEMMA SameCardinality == ASSUME NEW S PROVE Order!Cardinality(S) = Cardinality(S)
BY DEF Order!Cardinality, Cardinality

\* How the states of jobs are seen while the loop runs.
LEMMA StatusSeen ==
    ASSUME IInv, EndInv, NEW j \in Job
    PROVE  /\ AbstractStatus(j) = "running" <=> j \in RunningJobs
           /\ \A v \in {"success", "failure"} :
                AbstractStatus(j) = v <=> outcome[j] = v
           /\ pc # "done" => (AbstractStatus(j) = "waiting" <=> ~Started(j))
           /\ j \in RunningJobs => outcome[j] = "none"
<1>1. outcome[j] \in {"none", "success", "failure"} BY DEF IInv, TypeOK
<1>2. j \in RunningJobs => outcome[j] = "none" /\ HasProcess(j)
    BY Basics DEF IInv, SlotInv, RunningJobs
<1>3. HasProcess(j) => j \in RunningJobs BY DEF IInv, SlotInv
<1>4. proc[j] \in {"none", "live", "dying", "exit0", "exit1", "reaped"}
    BY DEF IInv, TypeOK
<1>5. proc[j] = "reaped" /\ outcome[j] = "none" => pc = "done" BY DEF EndInv
<1>6. QED BY <1>1, <1>2, <1>3, <1>4, <1>5 DEF AbstractStatus, Started, HasProcess

LEMMA RunningSeen ==
    ASSUME IInv, EndInv
    PROVE  JobsRunning = RunningJobs
BY StatusSeen DEF JobsRunning, Order!RunningSet, RunningJobs

\* Each running job holds a slot of its own, so there are no more than slots.
LEMMA RunningFit ==
    ASSUME IInv
    PROVE  Cardinality(RunningJobs) <= Cardinality(Active)
<1> DEFINE held == [s \in Active |-> slots[s]]
<1>1. held \in Surjection(Active, RunningJobs)
    BY Basics DEF Surjection, Active, RunningJobs, IInv, TypeOK
<1>2. QED BY <1>1, Basics, FS_Surjection DEF IInv

\* A job JobOrder lets start is one the ready queue holds, and the other way
\* round.
LEMMA MayStartSeen ==
    ASSUME IInv, EndInv, pc # "done", NEW j \in Job
    PROVE  Order!MayStart(j) <=> InQueue(ready, j)
<1>1. Order!MayStart(j)
        <=> AbstractStatus(j) = "waiting"
            /\ \A i \in Needs(j) : AbstractStatus(i) = "success"
    BY DEF Order!MayStart, Needs
<1>2. \A i \in Needs(j) : AbstractStatus(i) = "success" <=> outcome[i] = "success"
    BY StatusSeen DEF Needs
<1>3. (\A i \in Needs(j) : outcome[i] = "success") <=> Unmet(j) = {} BY DEF Unmet
<1>4. Unmet(j) = {} <=> in_degree[j] = 0
    <2>1. Unmet(j) \in SUBSET Job BY DEF Unmet, Needs
    <2>2. IsFiniteSet(Unmet(j)) BY <2>1, Basics DEF IInv
    <2>3. QED BY <2>2, FS_EmptySet DEF IInv, QueueExact
<1>5. QED BY <1>1, <1>2, <1>3, <1>4, StatusSeen DEF IInv, QueueExact
-----------------------------------------------------------------------------
(* Steps. *)

\* A step that settles, launches and ends nothing is not seen.
LEMMA UnseenStep ==
    ASSUME UNCHANGED <<plan, slots, outcome, failed, cancelled>>,
           (pc' = "done") <=> (pc = "done"),
           \A x \in Job : (proc'[x] = "reaped") <=> (proc[x] = "reaped")
    PROVE  UNCHANGED Order!jvars
<1>1. Slots' = Slots BY DEF plan, Slots, MaxSlots
<1>2. \A x \in Job : (x \in RunningJobs)' <=> x \in RunningJobs BY <1>1 DEF RunningJobs
<1>3. \A x \in Job : AbstractStatus(x)' = AbstractStatus(x) BY <1>2 DEF AbstractStatus
<1>4. \A x \in Job : Needs(x)' = Needs(x) BY DEF plan, Needs
<1>5. QED BY <1>3, <1>4 DEF plan, Order!jvars

\* The plan is fixed.
LEMMA PlanSeen ==
    ASSUME UNCHANGED plan
    PROVE  /\ [x \in Job |-> Needs(x)]' = [x \in Job |-> Needs(x)]
           /\ (options.jobs)' = options.jobs
<1>1. \A x \in Job : Needs(x)' = Needs(x) BY DEF plan, Needs
<1>2. QED BY <1>1 DEF plan

\* A launch is a start: a free slot leaves room for one job more.
LEMMA LaunchSeen ==
    ASSUME IInv, EndInv, Launch
    PROVE  \E j \in Job : Order!Start(j)
<1>0. PICK j \in Job : j = Head(ready) BY HeadFacts DEF Launch, AtFreeSlot
<1>1. j \notin RunningJobs /\ InQueue(ready, j) /\ ~Started(j)
    BY <1>0, HeadFacts, QueueTail DEF Launch, AtFreeSlot, IInv, TypeOK, QueueExact
<1>2. /\ UNCHANGED <<plan, cancelled, pc, outcome, failed>> /\ pc = "launch"
      /\ cursor \in Slots /\ slots[cursor] = NoJob
      /\ slots' = [slots EXCEPT ![cursor] = j]
      /\ proc' = [proc EXCEPT ![j] = "live"]
    BY <1>0 DEF Launch, AtFreeSlot
<1>3. Order!MayStart(j) BY <1>1, <1>2, MayStartSeen
<1>4. Cardinality(JobsRunning) < options.jobs
    <2>1. Active \in SUBSET Slots /\ Active # Slots BY <1>2 DEF Active
    <2>2. IsFiniteSet(Slots) /\ Cardinality(Slots) = MaxSlots
        BY Basics, FS_Interval DEF IInv
    <2>3. Cardinality(Active) < MaxSlots
        BY <2>1, <2>2, FS_Subset, FS_CardinalityType
    <2>4. MaxSlots <= options.jobs BY Basics, NumJobsAssumption DEF MaxSlots, IInv
    <2>5. RunningJobs \in SUBSET Job BY DEF RunningJobs
    <2>6. /\ Cardinality(RunningJobs) \in Nat /\ Cardinality(Active) \in Nat
          /\ MaxSlots \in Nat /\ options.jobs \in Nat
        BY <2>5, Basics, FS_CardinalityType DEF IInv
    <2>7. QED BY <2>3, <2>4, <2>6, RunningFit, RunningSeen
<1>5. /\ AbstractStatus(j)' = "running"
      /\ \A x \in Job : x # j => AbstractStatus(x)' = AbstractStatus(x)
    <2>1. Slots' = Slots BY <1>2 DEF plan, Slots, MaxSlots
    <2>2. slots \in [Slots -> Job \cup {NoJob}] BY DEF IInv, TypeOK
    <2>3. RunningJobs' = RunningJobs \cup {j}
        BY <1>1, <1>2, <2>1, <2>2, Basics DEF RunningJobs, IInv
    <2>4. outcome'[j] = "none" BY <1>1, <1>2 DEF Started
    <2>5. \A x \in Job : x # j => proc'[x] = proc[x] BY <1>2 DEF IInv, TypeOK
    <2>6. j \in RunningJobs' /\ \A x \in Job : x # j => (x \in RunningJobs' <=> x \in RunningJobs)
        BY <2>3
    <2>7. AbstractStatus(j)' = "running" BY <2>4, <2>6 DEF AbstractStatus
    <2>8. \A x \in Job : x # j => AbstractStatus(x)' = AbstractStatus(x)
        BY <1>2, <2>5, <2>6 DEF AbstractStatus
    <2>9. QED BY <2>7, <2>8
<1>6. Order!Become(j, "running")
    BY <1>2, <1>5, PlanSeen DEF Order!Become
<1>7. QED BY <1>1, <1>2, <1>3, <1>4, <1>6, SameCardinality
          DEF Order!Start, JobsRunning

\* A verdict is seen as one, whether the job ran or not.
LEMMA VerdictSeen ==
    ASSUME IInv, EndInv, pc # "done", UNCHANGED <<plan, cancelled, pc>>,
           NEW j \in Job, NEW queue, Succeed(j, queue) \/ Fail(j, queue),
           \A x \in Job : x # j => /\ proc'[x] = proc[x]
                                   /\ (x \in RunningJobs)' <=> x \in RunningJobs
    PROVE  /\ \E s \in {"success", "failure"} : Order!Become(j, s)
           /\ (failed \/ cancelled)' \in {failed \/ cancelled, TRUE}
<1>1. PICK s \in {"success", "failure"} : outcome' = [outcome EXCEPT ![j] = s]
    BY DEF Succeed, Fail
<1>2. outcome \in [Job -> {"none", "success", "failure"}] BY DEF IInv, TypeOK
<1>3. AbstractStatus(j)' = s BY <1>1, <1>2 DEF AbstractStatus
<1>4. \A x \in Job : x # j => AbstractStatus(x)' = AbstractStatus(x)
    BY <1>1, <1>2 DEF AbstractStatus
<1>5. Order!Become(j, s) BY <1>3, <1>4, PlanSeen DEF Order!Become
<1>6. failed' = failed \/ failed' = TRUE BY DEF Succeed, Fail
<1>7. (failed \/ cancelled)' \in {failed \/ cancelled, TRUE}
    <2>1. CASE failed' = failed BY <2>1
    <2>2. CASE failed' = TRUE BY <2>2
    <2>3. QED BY <1>6, <2>1, <2>2
<1>8. QED BY <1>5, <1>7

\* A failed fork and a dry run settle a job that JobOrder lets start.
LEMMA SettledAtLaunchSeen ==
    ASSUME IInv, EndInv, LaunchFails \/ LaunchDry
    PROVE  \E j \in Job : Order!SettleUnstarted(j)
<1>1. PICK j \in Job : j = Head(ready)
    BY HeadFacts DEF LaunchFails, LaunchDry, AtFreeSlot
<1>2. /\ UNCHANGED <<plan, cancelled, pc, slots, proc>> /\ pc = "launch"
      /\ Succeed(j, Tail(ready)) \/ Fail(j, Tail(ready))
    BY <1>1 DEF LaunchFails, LaunchDry, AtFreeSlot
<1>3. InQueue(ready, j)
    BY <1>1, QueueTail DEF LaunchFails, LaunchDry, AtFreeSlot, IInv, TypeOK, QueueExact
<1>4. Order!MayStart(j) BY <1>2, <1>3, MayStartSeen
<1>5. RunningJobs' = RunningJobs BY <1>2 DEF plan, RunningJobs, Slots, MaxSlots
<1>6. /\ \E s \in {"success", "failure"} : Order!Become(j, s)
      /\ (failed \/ cancelled)' \in {failed \/ cancelled, TRUE}
    BY <1>2, <1>5, VerdictSeen
<1>7. QED BY <1>4, <1>6 DEF Order!SettleUnstarted

\* A reaped command is a running job settled.
LEMMA ReapSeen ==
    ASSUME IInv, EndInv, NEW j \in Job, Reap(j)
    PROVE  Order!Settle(j)
<1>1. /\ UNCHANGED <<plan, cancelled, pc>> /\ pc = "reap" /\ cursor \in Slots
      /\ slots[cursor] = j /\ slots' = [slots EXCEPT ![cursor] = NoJob]
      /\ proc' = [proc EXCEPT ![j] = "reaped"]
      /\ Succeed(j, ready) \/ Fail(j, ready)
    BY DEF Reap, AtSlotOf
<1>2. /\ slots \in [Slots -> Job \cup {NoJob}] /\ NoJob \notin Job
      /\ \A x \in Job : x # j => proc'[x] = proc[x]
    BY <1>1, Basics DEF IInv, TypeOK
<1>3. Slots' = Slots BY <1>1 DEF plan, Slots, MaxSlots
<1>4. \A x \in Job : x # j => ((x \in RunningJobs)' <=> x \in RunningJobs)
    BY <1>1, <1>2, <1>3 DEF RunningJobs
<1>5. AbstractStatus(j) = "running" BY <1>1, StatusSeen DEF RunningJobs
<1>6. /\ \E s \in {"success", "failure"} : Order!Become(j, s)
      /\ (failed \/ cancelled)' \in {failed \/ cancelled, TRUE}
    BY <1>1, <1>2, <1>4, VerdictSeen
<1>7. QED BY <1>1, <1>5, <1>6 DEF Order!Settle

\* Killing what still runs is stopping: the killed jobs have no verdict.
LEMMA TerminateSeen ==
    ASSUME IInv, EndInv, Terminate
    PROVE  Order!Stop
<1>1. /\ UNCHANGED <<plan, outcome, failed, cancelled>>
      /\ pc = "check" /\ pc' = "done" /\ (failed \/ cancelled)
      /\ slots' = [s \in Slots |-> NoJob]
      /\ proc' = [x \in Job |-> IF x \in RunningJobs THEN "reaped" ELSE proc[x]]
    BY DEF Terminate, MustStop
<1>2. RunningJobs' = {}
    BY <1>1, Basics DEF plan, RunningJobs, Slots, MaxSlots, IInv
<1>3. \A x \in Job : AbstractStatus(x)'
                        = IF AbstractStatus(x) = "running" THEN "abandoned"
                                                           ELSE AbstractStatus(x)
    <2>1. TAKE x \in Job
    <2>2. CASE x \in RunningJobs
        BY <1>1, <1>2, <2>2, StatusSeen DEF AbstractStatus
    <2>3. CASE x \notin RunningJobs
        BY <1>1, <1>2, <2>3, StatusSeen DEF AbstractStatus
    <2>4. QED BY <2>2, <2>3
<1>4. QED BY <1>1, <1>3, PlanSeen DEF Order!Stop

\* A run nobody stopped ends with nothing running and nothing left to start.
LEMMA EndSeen ==
    ASSUME IInv, EndInv, EndLaunch \/ Loop, pc' = "done"
    PROVE  Order!Finish
<1>1. /\ UNCHANGED <<plan, queueing, cancelled, proc>> /\ pc # "done"
      /\ UNCHANGED <<slots, outcome, failed>>
    BY DEF EndLaunch, Loop, world, queueing
<1>2. Order!RunningSet = {}
    <2>1. CASE EndLaunch
        <3>1. Active = {}
            BY <2>1, Basics, FS_EmptySet DEF EndLaunch, IInv, CountsAgree
        <3>2. QED BY <3>1, Basics, RunningSeen DEF JobsRunning, RunningJobs, Active, IInv
    <2>2. CASE Loop
        <3>1. finished_count >= NumJobs
            BY <2>2, NumJobsAssumption DEF Loop, IInv, TypeOK
        <3>2. RunningJobs = {} BY <3>1, AllCounted, StatusSeen DEF RunningJobs
        <3>3. QED BY <3>2, RunningSeen DEF JobsRunning
    <2>3. QED BY <2>1, <2>2
<1>3. ASSUME NEW j \in Job PROVE ~Order!MayStart(j)
    <2>1. CASE EndLaunch
        <3>1. ready = <<>> BY <2>1 DEF EndLaunch
        <3>2. ~InQueue(ready, j) BY <3>1 DEF InQueue
        <3>3. QED BY <3>2, <1>1, MayStartSeen
    <2>2. CASE Loop
        <3>1. finished_count >= NumJobs
            BY <2>2, NumJobsAssumption DEF Loop, IInv, TypeOK
        <3>2. AbstractStatus(j) # "waiting"
            BY <3>1, <1>1, AllCounted, StatusSeen DEF Started
        <3>3. QED BY <3>2 DEF Order!MayStart
    <2>3. QED BY <2>1, <2>2
<1>4. \A x \in Job : AbstractStatus(x)' = AbstractStatus(x)
    BY <1>1 DEF AbstractStatus, RunningJobs, plan, Slots, MaxSlots
<1>5. QED BY <1>1, <1>2, <1>3, <1>4, PlanSeen DEF Order!Finish
-----------------------------------------------------------------------------
\* Every step of the scheduler is one of JobOrder, or is not seen.
LEMMA EachStepSeen ==
    ASSUME IInv, EndInv, [Next]_vars
    PROVE  [Order!JobNext]_(Order!jvars)
<1>1. \A x \in Job : proc[x] \in {"none", "live", "dying", "exit0", "exit1", "reaped"}
    BY DEF IInv, TypeOK
<1>2. CASE UNCHANGED vars \/ \E j \in Job : ChildStep(j)
    <2>1. UNCHANGED <<plan, queueing, cancelled, pc>>
        BY <1>2 DEF vars, ChildStep, WriteOutputs, WritePipe, CloseOutput, Exit, Die,
                    Expire, ChildFrame
    <2>2. \A x \in Job : (proc'[x] = "reaped") <=> (proc[x] = "reaped")
        BY <1>2 DEF vars, world, ChildStep, WriteOutputs, WritePipe, CloseOutput, Exit,
                    Die, Expire, IInv, TypeOK
    <2>3. QED BY <2>1, <2>2, UnseenStep DEF queueing
<1>3. CASE \/ SkipSlot \/ Poll \/ SkipEmpty \/ EndReap
           \/ (EndLaunch \/ Loop) /\ pc' # "done"
           \/ \E j \in Job : KillOverdue(j) \/ StillRunning(j)
    <2>1. UNCHANGED <<plan, queueing, cancelled>> /\ pc # "done" /\ pc' # "done"
        BY <1>3 DEF SkipSlot, Poll, SkipEmpty, EndReap, EndLaunch, Loop, KillOverdue,
                    StillRunning, AtSlotOf
    <2>2. \A x \in Job : (proc'[x] = "reaped") <=> (proc[x] = "reaped")
        BY <1>3 DEF SkipSlot, Poll, SkipEmpty, EndReap, EndLaunch, Loop, KillOverdue,
                    StillRunning, world, IInv, TypeOK
    <2>3. QED BY <2>1, <2>2, UnseenStep DEF queueing
<1>4. CASE Launch BY <1>4, LaunchSeen DEF Order!JobNext
<1>5. CASE LaunchFails \/ LaunchDry BY <1>5, SettledAtLaunchSeen DEF Order!JobNext
<1>6. CASE \E j \in Job : Reap(j) BY <1>6, ReapSeen DEF Order!JobNext
<1>7. CASE Terminate BY <1>7, TerminateSeen DEF Order!JobNext
<1>8. CASE (EndLaunch \/ Loop) /\ pc' = "done" BY <1>8, EndSeen DEF Order!JobNext
<1>9. CASE Cancel
    <2>1. /\ UNCHANGED <<plan, slots, outcome, proc, pc>> /\ pc # "done"
          /\ cancelled' = TRUE
        BY <1>9 DEF Cancel, queueing, world
    <2>2. RunningJobs' = RunningJobs BY <2>1 DEF plan, RunningJobs, Slots, MaxSlots
    <2>3. \A x \in Job : AbstractStatus(x)' = AbstractStatus(x)
        BY <2>1, <2>2 DEF AbstractStatus
    <2>4. Order!AskToStop BY <2>1, <2>3, PlanSeen DEF Order!AskToStop
    <2>5. QED BY <2>4 DEF Order!JobNext
<1>10. QED BY <1>2, <1>3, <1>4, <1>5, <1>6, <1>7, <1>8, <1>9 DEF Next, LoopStep, Returned

\* JobOrder's initial states.
LEMMA InitSeen == Init => Order!JobInit
<1> SUFFICES ASSUME Init PROVE Order!JobInit OBVIOUS
<1>1. IInv BY InitIInv
<1>2. RunningJobs = {} BY <1>1, Basics DEF Init, RunningJobs, IInv
<1>3. \A j \in Job : AbstractStatus(j) = "waiting" BY <1>2 DEF Init, AbstractStatus
<1>4. [j \in Job |-> Needs(j)] \in [Job -> SUBSET Job] BY DEF Needs
<1>5. options.jobs \in Nat \ {0} BY <1>1, Basics DEF IInv
<1>6. QED BY <1>3, <1>4, <1>5 DEF Init, Order!JobInit

(***************************************************************************)
(* The scheduler implements JobOrder, whatever order its commands exit in, *)
(* whichever of them fail, cannot be started, are killed or are cancelled. *)
(***************************************************************************)
THEOREM Implementation == Spec => ImplementsJobOrder
<1>1. IInv /\ EndInv /\ [Next]_vars => [Order!JobNext]_(Order!jvars)
    BY EachStepSeen
<1>2. QED BY <1>1, InitSeen, Ending, PTL DEF Spec, ImplementsJobOrder, Order!JobSpec
=============================================================================
