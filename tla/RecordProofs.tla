---------------------------- MODULE RecordProofs ----------------------------
(***************************************************************************)
(* A command that has to run is not forgotten, whatever is invoked: the    *)
(* marks of the record.  And the record tells a stale output from a fresh  *)
(* one: the invariants of IncrementalProperties, proved for every project  *)
(* and every history of edits, during builds too, of failed commands and   *)
(* of builds that died.  First where every invocation builds the whole     *)
(* project, --rerun or not, whatever a command is found to open; then, at  *)
(* the end, where some build a directory and a command opens only what it  *)
(* declares.  The restrictions are needed: runs of MCIncremental show that *)
(* a build of a target, or of a directory, can lose what the record knew.  *)
(*                                                                         *)
(* The argument.  The record, where it trusts all that leads to an output, *)
(* states what the output was made of (RecordIsTrue).  So if the comparison*)
(* leaves a command out, each of its files is as recorded, and its output  *)
(* is what it would make now (SameIsFresh).  During a build this has to    *)
(* survive edits, failures and commands that open what another is still to *)
(* write: PlanHolds says what is known of the commands left out, RunHolds  *)
(* of those that succeeded.                                                *)
(***************************************************************************)
EXTENDS IncrementalProperties, TLAPS, FiniteSetTheorems, WellFoundedInduction

(***************************************************************************)
(* The marks.  A build marks what it is about to run and                   *)
(* keeps the marks of what it parsed; the marks of the record are on       *)
(* commands it holds, so those that are not parsed are merged with it.     *)
(***************************************************************************)
MarksKept ==
    /\ record.must_rerun \subseteq record.cmds
    /\ pc # "running" => executed = {}
    /\ pc = "running" =>
        /\ record.must_rerun \cap Parsed(run) \subseteq plan.must_rerun
        /\ plan.must_rerun \subseteq Parsed(run)
        /\ plan.filter \subseteq plan.must_rerun
        /\ executed \subseteq plan.filter

\* The next record owes every command that was owed and did not succeed.
LEMMA OwedCovers ==
    ASSUME MarksKept, pc = "running"
    PROVE  (record.must_rerun \cup plan.filter) \ executed \subseteq Owed
BY DEF MarksKept, Owed, Merged

\* It owes only what it holds.
LEMMA OwedIsHeld ==
    ASSUME MarksKept, pc = "running"
    PROVE  Owed \subseteq record.cmds \cup Parsed(run)
BY DEF MarksKept, Owed, Merged

\* The user and the exits leave the marks alone.
LEMMA QuietMarks ==
    ASSUME MarksKept, record' = record,
           \/ pc' # "running" /\ executed' = {}
           \/ UNCHANGED <<pc, run, plan, executed>>
    PROVE  MarksKept'
BY DEF MarksKept, Parsed, InScope

(***************************************************************************)
(* MarksKept is an invariant of the build.                                 *)
(***************************************************************************)
THEOREM MarksInvariance == Spec => []MarksKept
<1>1. Init => MarksKept
    BY DEF Init, NoRecord, MarksKept
<1>2. MarksKept /\ [Next]_vars => MarksKept'
    <2> SUFFICES ASSUME MarksKept, [Next]_vars PROVE MarksKept' OBVIOUS
    <2>1. CASE UserStep \/ UNCHANGED vars
        <3>1. record' = record /\ UNCHANGED <<pc, run, plan, executed>>
            BY <2>1 DEF UserStep, EditSource, EditRule, vars, build
        <3>2. QED BY <3>1, QuietMarks
    <2>2. CASE Refuse \/ UpToDate \/ Crash \/ \E o \in Runs : Start(o)
        <3>1. record' = record /\ pc' # "running" /\ executed' = {}
            BY <2>2 DEF Refuse, UpToDate, Crash, Start, Exit, MarksKept
        <3>2. QED BY <3>1, QuietMarks
    <2>3. CASE Scan
        <3>1. /\ record' = record /\ run' = run /\ executed' = executed
              /\ plan'.must_rerun = Marked(run) /\ plan'.filter = Selected(run)
            BY <2>3 DEF Scan
        <3>2. Parsed(run)' = Parsed(run) BY <3>1 DEF Parsed, InScope
        <3>3. Selected(run) \subseteq Parsed(run) BY DEF Selected
        <3>4. executed = {} BY <2>3 DEF Scan, MarksKept
        <3>5. QED BY <3>1, <3>2, <3>3, <3>4 DEF MarksKept, Marked
    <2>4. CASE \E c \in Cmd : CommandSucceeds(c) \/ CommandFails(c)
        <3>1. /\ record' = record /\ run' = run /\ plan' = plan
              /\ pc = "running" /\ pc' = pc
              /\ executed' \subseteq executed \cup plan.filter
            BY <2>4 DEF CommandSucceeds, CommandFails, Ready
        <3>2. Parsed(run)' = Parsed(run) BY <3>1 DEF Parsed, InScope
        <3>3. QED BY <3>1, <3>2 DEF MarksKept
    <2>5. CASE Finish
        <3>1. /\ pc = "running" /\ pc' = "idle" /\ executed' = {}
              /\ record'.must_rerun = Owed
              /\ record'.cmds = record.cmds \cup Parsed(run)
            BY <2>5 DEF Finish, Exit, NewRecord
        <3>2. QED BY <3>1, OwedIsHeld DEF MarksKept
    <2>6. QED BY <2>1, <2>2, <2>3, <2>4, <2>5 DEF Next, BuildStep
<1>3. QED BY <1>1, <1>2, PTL DEF Spec

(***************************************************************************)
(* Only a build that brought it to success takes a command's mark away,    *)
(* and a command that was scheduled and did not succeed gets one.          *)
(***************************************************************************)
THEOREM OwedStayOwed == Spec => OwedRunsKept
<1>1. MarksKept /\ [Next]_vars =>
        [record' # record =>
            (record.must_rerun \cup plan.filter) \ executed
                \subseteq record'.must_rerun]_vars
    <2> SUFFICES ASSUME MarksKept, Next, record' # record
                 PROVE  (record.must_rerun \cup plan.filter) \ executed
                            \subseteq record'.must_rerun
        BY DEF vars
    <2>1. Finish
        BY DEF Next, UserStep, EditSource, EditRule, BuildStep, Refuse, UpToDate,
               Scan, CommandSucceeds, Crash, Start, CommandFails
    <2>2. pc = "running" /\ record'.must_rerun = Owed
        BY <2>1 DEF Finish, NewRecord
    <2>3. QED BY <2>2, OwedCovers
<1>2. QED BY <1>1, MarksInvariance, PTL DEF Spec, OwedRunsKept
-----------------------------------------------------------------------------
\* A set of numbers has a least element: how induction is used below.
LEMMA LeastOf ==
    ASSUME NEW T \in SUBSET Nat, T # {}
    PROVE  \E n \in T : \A m \in T : n <= m
<1>1. PICK n \in T : \A m \in T : ~(<<m, n>> \in OpToRel(<, Nat))
    BY NatLessThanWellFounded, WFMin
<1>2. \A m \in T : m \in Nat /\ n \in Nat /\ (m < n => <<m, n>> \in OpToRel(<, Nat))
    BY Zenon DEF OpToRel
<1>3. \A m \in T : ~(m < n) BY <1>1, <1>2, Zenon
<1>4. QED BY <1>3

(***************************************************************************)
(* Closure.  Its recursion is unrolled: the sequence of sets exists, is the*)
(* one the definition chooses, and stops growing within Cardinality(Node)  *)
(* steps, so that Closure(S, next) is the least set that holds S and is    *)
(* closed under next.                                                      *)
(***************************************************************************)
More(S, next) == S \cup UNION {next[n] : n \in S}
Steps(S, next, N) ==
    {f \in [0..N -> SUBSET Node] :
        f[0] = S /\ \A k \in 1..N : f[k] = More(f[k - 1], next)}

\* The sequence of sets exists.
LEMMA StepsExist ==
    ASSUME NEW S \in SUBSET Node, NEW next \in [Node -> SUBSET Node], NEW N \in Nat
    PROVE  Steps(S, next, N) # {}
<1> DEFINE T == {n \in Nat : Steps(S, next, n) = {}}
<1> SUFFICES ASSUME T # {} PROVE FALSE OBVIOUS
<1>1. PICK n \in T : \A m \in T : n <= m BY LeastOf
<1>2. CASE n = 0
    <2> DEFINE g == [k \in 0..0 |-> S]
    <2>1. g \in Steps(S, next, 0) BY DEF Steps
    <2>2. QED BY <2>1, <1>1, <1>2
<1>3. CASE n # 0
    <2>1. n - 1 \in Nat /\ n - 1 \notin T BY <1>1, <1>3
    <2>2. PICK f \in Steps(S, next, n - 1) : TRUE BY <2>1
    <2>3. /\ f \in [0..(n - 1) -> SUBSET Node] /\ f[0] = S
          /\ \A k \in 1..(n - 1) : f[k] = More(f[k - 1], next)
        BY <2>2 DEF Steps
    <2> DEFINE g == [k \in 0..n |-> IF k = n THEN More(f[n - 1], next) ELSE f[k]]
    <2>4. n \in Nat /\ n - 1 \in 0..(n - 1) BY <1>1, <1>3
    <2>5. More(f[n - 1], next) \in SUBSET Node BY <2>3, <2>4 DEF More
    <2>6. g \in [0..n -> SUBSET Node]
        <3>1. \A k \in 0..n : k # n => k \in 0..(n - 1) BY <2>4
        <3>2. QED BY <3>1, <2>3, <2>5
    <2>7. g[0] = S BY <1>3, <2>3, <2>4
    <2>8. ASSUME NEW k \in 1..n PROVE g[k] = More(g[k - 1], next)
        <3>1. k \in 0..n /\ k - 1 \in 0..n /\ k - 1 # n BY <2>4
        <3>2. g[k - 1] = f[k - 1] BY <3>1
        <3>3. CASE k = n BY <3>1, <3>2, <3>3
        <3>4. CASE k # n
            <4>1. k \in 1..(n - 1) BY <3>4, <2>4
            <4>2. g[k] = f[k] BY <3>1, <3>4
            <4>3. QED BY <4>1, <4>2, <3>2, <2>3
        <3>5. QED BY <3>3, <3>4
    <2> HIDE DEF g
    <2>9. g \in Steps(S, next, n) BY <2>6, <2>7, <2>8 DEF Steps
    <2>10. QED BY <2>9, <1>1
<1>4. QED BY <1>2, <1>3

\* The definition of Closure picks it.
LEMMA ClosureIs ==
    ASSUME NEW S \in SUBSET Node, NEW next \in [Node -> SUBSET Node]
    PROVE  \E f \in Steps(S, next, Cardinality(Node)) :
                Closure(S, next) = f[Cardinality(Node)]
<1> DEFINE N == Cardinality(Node)
           Eqn(f) == f = [k \in 0..N |->
                            IF k = 0 THEN S
                            ELSE f[k - 1] \cup UNION {next[n] : n \in f[k - 1]}]
<1>1. N \in Nat BY FiniteAssumption, FS_CardinalityType
<1>2. PICK h \in Steps(S, next, N) : TRUE BY <1>1, StepsExist
<1>3. Eqn(h)
    <2>1. /\ h \in [0..N -> SUBSET Node] /\ h[0] = S
          /\ \A k \in 1..N : h[k] = h[k - 1] \cup UNION {next[n] : n \in h[k - 1]}
        BY <1>2 DEF Steps, More
    <2>2. \A k \in 0..N : h[k] = IF k = 0 THEN S
                            ELSE h[k - 1] \cup UNION {next[n] : n \in h[k - 1]}
        BY <2>1, <1>1
    <2> HIDE DEF N
    <2>3. QED BY <2>1, <2>2
<1>4. PICK g : g = CHOOSE f : Eqn(f) OBVIOUS
<1>5. Eqn(g) BY <1>3, <1>4
<1>6. Closure(S, next) = g[N] BY <1>4 DEF Closure
<1>7. g = h
    <2>1. /\ DOMAIN g = 0..N /\ g = [k \in 0..N |-> g[k]] /\ g[0] = S
          /\ \A k \in 1..N : g[k] = g[k - 1] \cup UNION {next[n] : n \in g[k - 1]}
        <3> HIDE DEF N
        <3>1. g = [k \in 0..N |-> IF k = 0 THEN S
                                  ELSE g[k - 1] \cup UNION {next[n] : n \in g[k - 1]}]
            BY <1>5
        <3>2. DOMAIN g = 0..N BY <3>1
        <3>3. \A k \in 0..N : g[k] = IF k = 0 THEN S
                                  ELSE g[k - 1] \cup UNION {next[n] : n \in g[k - 1]}
            BY <3>1
        <3>4. g = [k \in 0..N |-> g[k]] BY <3>1, <3>2
        <3>5. 0 \in 0..N /\ \A k \in 1..N : k \in 0..N /\ k # 0 BY <1>1
        <3>6. g[0] = S BY <3>3, <3>5
        <3>7. \A k \in 1..N : g[k] = g[k - 1] \cup UNION {next[n] : n \in g[k - 1]}
            BY <3>3, <3>5
        <3>8. QED BY <3>2, <3>4, <3>6, <3>7, Zenon
    <2>2. /\ h \in [0..N -> SUBSET Node] /\ h[0] = S
          /\ \A k \in 1..N : h[k] = h[k - 1] \cup UNION {next[n] : n \in h[k - 1]}
        BY <1>2 DEF Steps, More
    <2> HIDE DEF N
    <2>3. \A k \in 0..N : g[k] = h[k]
        <3> DEFINE T == {k \in 0..N : g[k] # h[k]}
        <3> SUFFICES ASSUME T # {} PROVE FALSE OBVIOUS
        <3>1. PICK k \in T : \A m \in T : k <= m
            <4>1. T \in SUBSET Nat OBVIOUS
            <4> HIDE DEF T
            <4>2. QED BY <4>1, LeastOf
        <3>2. k # 0 BY <2>1, <2>2
        <3>3. k \in 1..N /\ k - 1 \in 0..N /\ k - 1 \notin T BY <3>1, <3>2, <1>1
        <3>4. g[k - 1] = h[k - 1] BY <3>3
        <3>5. g[k] = h[k] BY <3>3, <3>4, <2>1, <2>2
        <3>6. QED BY <3>1, <3>5
    <2>4. QED BY <2>1, <2>2, <2>3
<1>8. QED BY <1>2, <1>6, <1>7

\* Closure(S, next) is the least set that holds S and is closed under next.
LEMMA ClosureHolds ==
    ASSUME NEW S \in SUBSET Node, NEW next \in [Node -> SUBSET Node]
    PROVE  /\ Closure(S, next) \in SUBSET Node /\ S \subseteq Closure(S, next)
           /\ \A n \in Closure(S, next) : next[n] \subseteq Closure(S, next)
           /\ \A U : S \subseteq U /\ (\A n \in U \cap Node : next[n] \subseteq U)
                        => Closure(S, next) \subseteq U
<1> DEFINE N == Cardinality(Node)
<1>1. N \in Nat BY FiniteAssumption, FS_CardinalityType
<1>2. PICK f \in Steps(S, next, N) : Closure(S, next) = f[N] BY ClosureIs
<1>3. /\ f \in [0..N -> SUBSET Node] /\ f[0] = S
      /\ \A k \in 1..N : f[k] = More(f[k - 1], next)
    BY <1>2 DEF Steps
<1>4. \A k \in 0..N : IsFiniteSet(f[k]) /\ Cardinality(f[k]) \in Nat /\ Cardinality(f[k]) <= N
    <2>1. \A k \in 0..N : f[k] \subseteq Node BY <1>3
    <2>2. QED BY <2>1, FiniteAssumption, FS_Subset, FS_CardinalityType
<1>5. f[N] \in SUBSET Node BY <1>1, <1>3
<1> HIDE DEF N
<1>6. S \subseteq f[N]
    <2> DEFINE T == {k \in 0..N : ~(S \subseteq f[k])}
    <2>1. T \in SUBSET Nat /\ (T = {} => S \subseteq f[N]) BY <1>1
    <2> SUFFICES ASSUME T # {} PROVE FALSE BY <2>1
    <2> HIDE DEF T
    <2>2. PICK k \in T : \A m \in T : k <= m BY <2>1, LeastOf
    <2> USE DEF T
    <2>3. k # 0 BY <1>3
    <2>4. k \in 1..N /\ k - 1 \in 0..N /\ k - 1 \notin T BY <2>2, <2>3, <1>1
    <2>5. QED BY <2>2, <2>4, <1>3 DEF More
<1>7. ASSUME NEW U, S \subseteq U, \A n \in U \cap Node : next[n] \subseteq U
      PROVE  f[N] \subseteq U
    <2> DEFINE T == {k \in 0..N : ~(f[k] \subseteq U)}
    <2>1. T \in SUBSET Nat /\ (T = {} => f[N] \subseteq U) BY <1>1
    <2> SUFFICES ASSUME T # {} PROVE FALSE BY <2>1
    <2> HIDE DEF T
    <2>2. PICK k \in T : \A m \in T : k <= m BY <2>1, LeastOf
    <2> USE DEF T
    <2>3. k # 0 BY <1>3, <1>7
    <2>4. k \in 1..N /\ k - 1 \in 0..N /\ k - 1 \notin T BY <2>2, <2>3, <1>1
    <2>5. f[k - 1] \subseteq U /\ f[k - 1] \subseteq Node BY <2>4, <1>3
    <2>6. More(f[k - 1], next) \subseteq U BY <2>5, <1>7 DEF More
    <2>7. QED BY <2>2, <2>4, <2>6, <1>3
<1>8. More(f[N], next) = f[N]
    <2> DEFINE Still(k) == More(f[k], next) = f[k]
               T == {k \in 0..N : ~(Still(k) \/ Cardinality(f[k]) >= k + 1)}
    <2>1. CASE S = {}
        <3>1. f[N] \subseteq {} BY <2>1, <1>7
        <3>2. QED BY <3>1 DEF More
    <2>2. CASE S # {} /\ T = {}
        <3>1. Still(N) \/ Cardinality(f[N]) >= N + 1 BY <2>2, <1>1
        <3>2. ~(Cardinality(f[N]) >= N + 1) BY <1>1, <1>4
        <3>3. QED BY <3>1, <3>2
    <2>3. CASE S # {} /\ T # {}
        <3>1. T \in SUBSET Nat OBVIOUS
        <3> HIDE DEF T
        <3>2. PICK k \in T : \A m \in T : k <= m BY <2>3, <3>1, LeastOf
        <3> USE DEF T
        <3>3. k # 0
            <4>1. Cardinality(S) # 0 /\ Cardinality(S) \in Nat
                BY <2>3, <1>3, <1>4, FS_EmptySet, <1>1
            <4>2. 0 \notin T BY <4>1, <1>3
            <4>3. QED BY <3>2, <4>2
        <3>4. k \in 1..N /\ k - 1 \in 0..N /\ k - 1 \notin T BY <3>2, <3>3, <1>1
        <3>5. f[k] = More(f[k - 1], next) BY <3>4, <1>3
        <3>6. ~Still(k - 1) BY <3>2, <3>5
        <3>7. f[k - 1] \subseteq f[k] /\ f[k - 1] # f[k] BY <3>5, <3>6 DEF More
        <3>8. Cardinality(f[k - 1]) < Cardinality(f[k])
            <4>1. IsFiniteSet(f[k]) /\ k \in 0..N BY <1>4, <3>4
            <4>2. Cardinality(f[k - 1]) <= Cardinality(f[k])
                  /\ Cardinality(f[k - 1]) # Cardinality(f[k])
                BY <4>1, <3>7, FS_Subset
            <4>3. QED BY <4>1, <4>2, <1>4, <3>4
        <3>9. Cardinality(f[k - 1]) >= k BY <3>4, <3>6
        <3>10. QED BY <3>2, <3>4, <3>8, <3>9, <1>4
    <2>4. QED BY <2>1, <2>2, <2>3
<1>9. \A n \in f[N] : next[n] \subseteq f[N] BY <1>8 DEF More
<1>10. QED BY <1>2, <1>5, <1>6, <1>7, <1>9
-----------------------------------------------------------------------------
\* The next record is one.
LEMMA NewRecordTypes ==
    ASSUME TypeOK
    PROVE  NewRecord \in
               [saved : BOOLEAN, cmds : SUBSET Cmd, files : SUBSET Node,
                hash : [Node -> Content], must_rerun : SUBSET Cmd,
                   rule : [Cmd -> Version], deps : [Cmd -> SUBSET Node]]
<1>1. /\ record.cmds \in SUBSET Cmd /\ record.files \in SUBSET Node
      /\ record.hash \in [Node -> Content] /\ record.must_rerun \in SUBSET Cmd
      /\ record.rule \in [Cmd -> Version] /\ record.deps \in [Cmd -> SUBSET Node]
      /\ plan.must_rerun \in SUBSET Cmd
      /\ source \in [Source -> Version] /\ rule \in [Cmd -> Version]
      /\ made \in [Cmd -> Content] /\ discovered \in [Cmd -> SUBSET Node]
      /\ executed \in SUBSET Cmd
    BY DEF TypeOK
<1>2. Parsed(run) \in SUBSET Cmd BY DEF Parsed
<1>3. GraphFiles \in SUBSET Node
    BY <1>2, ReadsAssumption DEF GraphFiles, GraphNodes, Node
<1>4. /\ FoundFiles \in SUBSET Node /\ MergedFiles \in SUBSET Node
      /\ KeptFiles \in SUBSET Node
    BY <1>1, ReadsAssumption DEF FoundFiles, MergedFiles, KeptFiles, Merged, Node
<1>5. \A n \in Node : ContentOf(n) \in Content
    BY <1>1 DEF ContentOf, Content, Node
<1>6. {} \in Content BY DEF Content
<1>7. \A n \in Node : NewHash(n) \in Content
    BY <1>1, <1>5, <1>6 DEF NewHash, Observed, MergedHash
<1>8. Owed \in SUBSET Cmd BY <1>1 DEF Owed, Merged
<1>9. QED BY <1>1, <1>2, <1>3, <1>4, <1>7, <1>8 DEF NewRecord

\* What putup leaves in memory.
LEMMA ExitTypes ==
    /\ FullRun \in Runs \cup {FullRun}
    /\ NoPlan \in [examined : SUBSET Node, before : SUBSET (Source \X Version),
                   filter : SUBSET Cmd, injected : SUBSET (Cmd \X Cmd),
                   must_rerun : SUBSET Cmd]
    /\ [c \in Cmd |-> {}] \in [Cmd -> SUBSET Node]
BY DEF NoPlan

\* One more edit or fault is still within the bounds.
LEMMA BoundsHold ==
    ASSUME TypeOK
    PROVE  /\ edits < MaxEdits => edits + 1 \in 0..MaxEdits
           /\ faults < MaxFaults => faults + 1 \in 0..MaxFaults
BY BoundsAssumption DEF TypeOK

(***************************************************************************)
(* Type correctness, for every set of invocations.                         *)
(***************************************************************************)
THEOREM TypeCorrect == Spec => []TypeOK
<1>1. Init => TypeOK
    <2> SUFFICES ASSUME Init PROVE TypeOK OBVIOUS
    <2>1. record \in [saved : BOOLEAN, cmds : SUBSET Cmd, files : SUBSET Node,
                   hash : [Node -> Content], must_rerun : SUBSET Cmd,
                   rule : [Cmd -> Version], deps : [Cmd -> SUBSET Node]]
        BY DEF Init, NoRecord, Content
    <2>2. [c \in Cmd |-> {}] \in [Cmd -> Content] BY DEF Content
    <2>3. edits \in 0..MaxEdits /\ faults \in 0..MaxFaults
        BY BoundsAssumption DEF Init
    <2>4. QED BY <2>1, <2>2, <2>3, ExitTypes DEF Init, TypeOK
<1>2. TypeOK /\ [Next]_vars => TypeOK'
    <2> SUFFICES ASSUME TypeOK, [Next]_vars PROVE TypeOK' OBVIOUS
    <2>1. CASE UNCHANGED vars BY <2>1 DEF vars, disk, build, budget, TypeOK
    <2>2. ASSUME NEW s \in Source, NEW v \in Version, EditSource(s, v) PROVE TypeOK'
        BY <2>2, BoundsHold DEF EditSource, Edit, TypeOK
    <2>3. ASSUME NEW c \in Cmd, NEW v \in Version, EditRule(c, v) PROVE TypeOK'
        BY <2>3, BoundsHold DEF EditRule, Edit, TypeOK, build
    <2>4. CASE Refuse \/ UpToDate
        BY <2>4, ExitTypes DEF Refuse, UpToDate, Exit, TypeOK, disk, budget
    <2>5. CASE Crash
        BY <2>5, BoundsHold, ExitTypes DEF Crash, Fault, Exit, TypeOK, disk
    <2>6. ASSUME NEW o \in Runs, Start(o) PROVE TypeOK'
        BY <2>6 DEF Start, TypeOK, disk, budget
    <2>7. CASE Scan
        <3>1. /\ Examined(run) \in SUBSET Node
              /\ Selected(run) \in SUBSET Cmd
              /\ Injected(run) \in SUBSET (Cmd \X Cmd)
              /\ Marked(run) \in SUBSET Cmd
            BY DEF TypeOK, Examined, Selected, Injected, Marked, Parsed
        <3>2. {<<s, source[s]>> : s \in Examined(run) \cap touched} \in SUBSET (Source \X Version)
            BY DEF TypeOK
        <3>3. QED BY <2>7, <3>1, <3>2 DEF Scan, TypeOK, disk, budget
    <2>8. ASSUME NEW c \in Cmd, CommandSucceeds(c) PROVE TypeOK'
        <3>1. Included(c) \in SUBSET Node
            BY IncludesAssumption DEF TypeOK, Included
        <3>2. Opened(c) \in SUBSET Node BY <3>1, ReadsAssumption DEF Opened
        <3>3. \A n \in Node : ContentOf(n) \in Content
            BY DEF TypeOK, ContentOf, Content, Node
        <3>4. Result(c) \in Content
            BY <3>2, <3>3 DEF Result, Content, TypeOK, Node
        <3>5. QED BY <2>8, <3>1, <3>4 DEF CommandSucceeds, TypeOK, budget
    <2>9. ASSUME NEW c \in Cmd, CommandFails(c) PROVE TypeOK'
        <3>1. Partial(c) \in Content BY DEF Partial, Content, Node
        <3>2. \A left \in {made[c], Partial(c), {}} : left \in Content
            BY <3>1 DEF TypeOK, Content
        <3>3. QED BY <2>9, <3>2, BoundsHold DEF CommandFails, Fault, TypeOK
    <2>10. CASE Finish
        BY <2>10, NewRecordTypes, ExitTypes DEF Finish, Exit, TypeOK, disk, budget
    <2>11. QED BY <2>1, <2>2, <2>3, <2>4, <2>5, <2>6, <2>7, <2>8, <2>9, <2>10
               DEF Next, UserStep, BuildStep
<1>3. QED BY <1>1, <1>2, PTL DEF Spec
-----------------------------------------------------------------------------
\* A run of the whole project, with or without --rerun.
Whole(o) == o.scope = {} /\ o.target = {}

\* The files whose recorded contents say whether c is to run.
Leads(c) == {c} \cup Reads[c] \cup record.deps[c]

\* What the record covers.
RecordHolds ==
    IF record.saved
    THEN /\ record.cmds = Cmd
         /\ \A c \in Cmd : Leads(c) \subseteq record.files
         /\ \A n \in record.files : \E c \in Cmd : n \in Leads(c)
    ELSE \A c \in Cmd : record.deps[c] = {}

\* What the record says c made of what, and which files that led it to open.
Made(c, r) ==
    {<<c, r.rule[c]>>} \cup UNION {r.hash[n] : n \in Reads[c] \cup r.deps[c]}
Found(c, r) ==
    UNION {UNION {Includes[s][v] : v \in {w \in Version : <<s, w>> \in r.hash[s]}} :
              s \in Reads[c] \cap Source}

(***************************************************************************)
(* A record that trusts the output of c and all that led to it says truly  *)
(* what the output was made of, and which files c opened.                  *)
(***************************************************************************)
RecordIsTrue ==
    record.saved =>
        \A c \in Cmd :
            (\A n \in Leads(c) : record.hash[n] # {} /\ n \notin record.must_rerun) =>
                record.hash[c] = Made(c, record) /\ record.deps[c] = Found(c, record)

\* As recorded, and trusted.
Same(n) == /\ ContentOf(n) # {} /\ record.hash[n] = ContentOf(n)
           /\ n \notin record.must_rerun

\* What a run of the whole project parses, compares and selects.
LEMMA WholeRuns ==
    ASSUME TypeOK, NEW o, Whole(o)
    PROVE  /\ Parsed(o) = Cmd /\ GraphNodes(o) \in SUBSET Node
           /\ Cmd \subseteq GraphNodes(o) /\ \A c \in Cmd : Reads[c] \subseteq GraphNodes(o)
           /\ Examined(o) = record.files
           /\ Selected(o) = {c \in Cmd : record.saved => c \in Affected(o)}
           /\ Injected(o) = {e \in Cmd \X Cmd : e[1] # e[2] /\ e[1] \in record.deps[e[2]]}
<1>1. Parsed(o) = Cmd BY DEF Whole, Parsed
<1>2. GraphNodes(o) \in SUBSET Node
      /\ Cmd \subseteq GraphNodes(o) /\ \A c \in Cmd : Reads[c] \subseteq GraphNodes(o)
    BY <1>1, ReadsAssumption DEF GraphNodes, Node
<1>3. Examined(o) = record.files BY DEF Examined, Whole
<1>4. Selected(o) = {c \in Cmd : record.saved => c \in Affected(o)}
    BY <1>1 DEF Selected, Whole
<1>5. QED BY <1>1, <1>2, <1>3, <1>4 DEF Injected

\* What a changed file leads to.
LEMMA AffectedGrows ==
    ASSUME TypeOK, NEW o, Whole(o)
    PROVE  /\ Changed(o) \cap GraphNodes(o) \subseteq Affected(o)
           /\ \A n \in Affected(o), c \in Cmd :
                n \in Reads[c] \/ <<n, c>> \in Injected(o) => c \in Affected(o)
           /\ Changed(o) = {} /\ Forced(o) = {} => Affected(o) = {}
<1> DEFINE S == Changed(o) \cap GraphNodes(o)
           next == Downward(Parsed(o), Injected(o))
<1>1. S \in SUBSET Node /\ next \in [Node -> SUBSET Node]
    BY WholeRuns DEF Downward, Node
<1>2. /\ S \subseteq Closure(S, next) /\ Closure(S, next) \in SUBSET Node
      /\ \A n \in Closure(S, next) : next[n] \subseteq Closure(S, next)
      /\ \A U : S \subseteq U /\ (\A n \in U \cap Node : next[n] \subseteq U)
                   => Closure(S, next) \subseteq U
    <2> HIDE DEF S, next
    <2>1. QED BY <1>1, ClosureHolds
<1>3. Affected(o) = Closure(S, next) \cup Forced(o) BY DEF Affected
<1>4. Forced(o) = {} \/ Forced(o) = Cmd BY WholeRuns DEF Forced, Whole
<1>5. \A n \in Node, c \in Cmd : n \in Reads[c] \/ <<n, c>> \in Injected(o) => c \in next[n]
    BY WholeRuns DEF Downward
<1>6. ASSUME Changed(o) = {} PROVE Closure(S, next) = {}
    <2>1. S = {} BY <1>6
    <2>2. S \subseteq {} /\ \A n \in {} \cap Node : next[n] \subseteq {} BY <2>1
    <2> HIDE DEF S, next
    <2>3. Closure(S, next) \subseteq {} BY <2>2, <1>2
    <2>4. QED BY <2>3
<1>7. Cmd \subseteq Node BY DEF Node
<1>8. S \subseteq Affected(o) BY <1>2, <1>3
<1>9. ASSUME NEW n \in Affected(o), NEW c \in Cmd,
             n \in Reads[c] \/ <<n, c>> \in Injected(o)
      PROVE  c \in Affected(o)
    <2>1. CASE Forced(o) = Cmd BY <2>1, <1>3
    <2>2. CASE Forced(o) = {}
        <3>1. n \in Closure(S, next) /\ n \in Node BY <2>2, <1>2, <1>3
        <3>2. c \in next[n] BY <3>1, <1>5, <1>9
        <3> HIDE DEF S, next
        <3>3. QED BY <3>1, <3>2, <1>2, <1>3
    <2>3. QED BY <2>1, <2>2, <1>4
<1>10. QED BY <1>3, <1>6, <1>8, <1>9

\* A command that a run of the whole project leaves out: nothing about it changed.
LEMMA LeftOut ==
    ASSUME TypeOK, RecordHolds, NEW o, Whole(o), NEW c \in Cmd, c \notin Selected(o)
    PROVE  /\ record.saved /\ record.rule[c] = rule[c]
           /\ \A n \in Leads(c) : Same(n) /\ n \in record.files /\ n \notin Selected(o)
<1>1. record.saved /\ c \notin Affected(o) BY WholeRuns
<1>2. record.cmds = Cmd /\ Leads(c) \subseteq record.files BY <1>1 DEF RecordHolds
<1>3. /\ \A n \in Changed(o) : n \in GraphNodes(o) => n \in Affected(o)
      /\ \A n \in Affected(o) : n \notin Reads[c] /\ <<n, c>> \notin Injected(o)
    BY <1>1, AffectedGrows
<1>4. c \notin Changed(o) /\ \A n \in Reads[c] : n \notin Changed(o)
    BY <1>1, <1>3, WholeRuns
<1>5. \A n \in record.files : Differs(n) => n \in Changed(o) /\ n \notin record.deps[c]
    <2>1. TAKE n \in record.files
    <2>2. ASSUME Differs(n) PROVE n \in Changed(o) /\ n \notin record.deps[c]
        <3> DEFINE seen == {m \in Examined(o) : Differs(m)} \cup NewSources(o)
        <3>1. n \in seen BY <2>2, WholeRuns
        <3>2. Changed(o) = seen \cup {d \in Parsed(o) : record.deps[d] \cap seen # {}}
                                \cup Unverified(o)
            BY DEF Changed
        <3>3. c \in Parsed(o) BY WholeRuns
        <3> HIDE DEF seen
        <3>4. QED BY <3>1, <3>2, <3>3, <1>4
    <2>3. QED BY <2>2
<1>6. \A p \in Cmd : p \in record.must_rerun => p \in Changed(o) /\ p \in Affected(o)
    BY <1>3, WholeRuns DEF Changed, Unverified
<1>7. record.rule[c] = rule[c]
    BY <1>4, WholeRuns DEF Changed, Unverified
<1>8. \A p \in Affected(o) : p \in Cmd => p \notin Leads(c)
    BY <1>1, <1>3, WholeRuns DEF Leads
<1>9. \A n \in Leads(c) : ~Differs(n) BY <1>2, <1>4, <1>5 DEF Leads
<1>10. record.must_rerun \subseteq Cmd BY DEF TypeOK
<1>11. \A n \in Leads(c) : Same(n) BY <1>6, <1>8, <1>9, <1>10 DEF Same, Differs
<1>12. \A n \in Leads(c) : n \notin Selected(o) BY <1>1, <1>8, WholeRuns
<1>13. QED BY <1>1, <1>2, <1>7, <1>11, <1>12

\* A record that holds the contents as they are says what c would now make.
LEMMA RecordedNow ==
    ASSUME TypeOK, NEW r, NEW c \in Cmd, r.rule[c] = rule[c],
           \A n \in Reads[c] \cup r.deps[c] : r.hash[n] = ContentOf(n)
    PROVE  /\ Found(c, r) = Included(c)
           /\ r.deps[c] = Included(c) => Made(c, r) = Result(c)
<1> DEFINE F(s) == UNION {Includes[s][v] : v \in {w \in Version : <<s, w>> \in r.hash[s]}}
           G(s) == Includes[s][source[s]]
<1>1. \A s \in Reads[c] \cap Source : F(s) = G(s)
    <2>1. TAKE s \in Reads[c] \cap Source
    <2>2. r.hash[s] = {<<s, source[s]>>} BY DEF ContentOf
    <2>3. source[s] \in Version BY DEF TypeOK
    <2>4. {w \in Version : <<s, w>> \in r.hash[s]} = {source[s]} BY <2>2, <2>3
    <2>5. QED BY <2>4
<1>2. Found(c, r) = UNION {F(s) : s \in Reads[c] \cap Source} BY DEF Found
<1>3. Included(c) = UNION {G(s) : s \in Reads[c] \cap Source} BY DEF Included
<1> HIDE DEF F, G
<1>4. {F(s) : s \in Reads[c] \cap Source} = {G(s) : s \in Reads[c] \cap Source}
    BY <1>1
<1>5. Found(c, r) = Included(c) BY <1>2, <1>3, <1>4
<1>6. ASSUME r.deps[c] = Included(c) PROVE Made(c, r) = Result(c)
    <2>1. Opened(c) = Reads[c] \cup r.deps[c] BY <1>6 DEF Opened
    <2>2. {r.hash[n] : n \in Opened(c)} = {ContentOf(n) : n \in Opened(c)} BY <2>1
    <2>3. QED BY <2>1, <2>2 DEF Made, Result
<1>7. QED BY <1>5, <1>6

\* If all that led to a trusted output is as it was, the output is fresh.
LEMMA SameIsFresh ==
    ASSUME TypeOK, RecordIsTrue, record.saved, NEW c \in Cmd, record.rule[c] = rule[c],
           \A n \in Leads(c) : Same(n)
    PROVE  made[c] = Result(c) /\ record.deps[c] = Included(c)
<1>1. record.hash[c] = Made(c, record) /\ record.deps[c] = Found(c, record)
    BY DEF RecordIsTrue, Same
<1>2. record.hash[c] = made[c]
    BY NodeAssumption DEF Leads, Same, ContentOf
<1>3. \A n \in Reads[c] \cup record.deps[c] : record.hash[n] = ContentOf(n)
    BY DEF Leads, Same
<1>4. PICK r : r = record OBVIOUS
<1>5. /\ Found(c, r) = Included(c)
      /\ r.deps[c] = Included(c) => Made(c, r) = Result(c)
    BY <1>3, <1>4, RecordedNow
<1>6. QED BY <1>1, <1>2, <1>4, <1>5
-----------------------------------------------------------------------------
\* A command the plan leaves out is as the record says, but for later edits.
Unscheduled(c) ==
    /\ record.saved /\ record.rule[c] = rule[c]
    /\ \A n \in Leads(c) :
        /\ n \in Cmd => n \notin plan.filter /\ Same(n)
        /\ n \in Source => n \in Overtaken \/ Same(n)

\* What is known of a command that succeeded.
Vouched(c) ==
    \/ \E s \in Reads[c] \cup discovered[c] : s \in Overtaken
    \/ discovered[c] \cap failed # {}
    \/ Raced(c)
    \/ made[c] = Result(c) /\ discovered[c] = Included(c)

\* What the scan decided: the commands it left out are fresh, and none of
\* them follows one it selected.
PlanHolds ==
    /\ plan.examined = record.files
    /\ \A e \in plan.injected : e[1] \in plan.filter => e[2] \in plan.filter
    /\ \A c \in plan.filter, d \in Cmd : c \in Reads[d] => d \in plan.filter
    /\ \A c \in Cmd : c \in plan.filter \/ Unscheduled(c)

\* What ran, ran after all it waits for.
RunHolds ==
    /\ failed \subseteq plan.filter \ executed
    /\ \A c \in executed : made[c] # {} /\ Needs(c) \subseteq executed /\ Vouched(c)

\* After a full build that reported success, and until the next edit.
CleanHolds ==
    /\ record.saved
    /\ pc = "running" /\ ~run.rerun => record.must_rerun # {}
    /\ pc # "running" =>
        \A c \in Cmd :
            /\ record.rule[c] = rule[c]
            /\ c \in record.must_rerun \/ ~Stale(c)
            /\ \A n \in Leads(c) : n \in record.must_rerun \/ Same(n)

(***************************************************************************)
(* The inductive invariant.                                                *)
(***************************************************************************)
WholeInv ==
    /\ Whole(run)
    /\ RecordHolds /\ RecordIsTrue
    /\ pc = "running" => PlanHolds /\ RunHolds
    /\ pc # "running" => failed = {}
    /\ clean => CleanHolds

\* What is said of the record alone stands as long as it does.
LEMMA RecordStands ==
    ASSUME record' = record
    PROVE  /\ RecordHolds => RecordHolds'
           /\ RecordIsTrue => RecordIsTrue'
           /\ \A c \in Cmd : Leads(c)' = Leads(c)
<1>1. \A c \in Cmd : Leads(c)' = Leads(c) BY DEF Leads
<1>2. \A c \in Cmd : Made(c, record)' = Made(c, record) /\ Found(c, record)' = Found(c, record)
    BY DEF Made, Found
<1>3. RecordHolds => RecordHolds' BY <1>1 DEF RecordHolds
<1>4. RecordIsTrue => RecordIsTrue' BY <1>1, <1>2 DEF RecordIsTrue
<1>5. QED BY <1>1, <1>3, <1>4

\* A text the scan hashed never comes back once it was edited away.
LEMMA EditOvertakes ==
    ASSUME TypeOK, NEW s \in Source, NEW v \in Version, EditSource(s, v), pc = "running"
    PROVE  /\ Overtaken \cup {s} \subseteq Overtaken'
           /\ \A n \in Node : n # s => ContentOf(n)' = ContentOf(n)
<1>1. /\ source' = [source EXCEPT ![s] = v] /\ <<s, v>> \notin plan.before
      /\ touched' = touched \cup {s} /\ plan' = plan /\ made' = made
      /\ source \in [Source -> Version]
    BY DEF EditSource, TypeOK
<1>2. \A n \in Source : n # s => source'[n] = source[n] BY <1>1
<1>3. source'[s] = v BY <1>1
<1>4. touched \subseteq Source BY DEF TypeOK
<1>5. QED BY <1>1, <1>2, <1>3, <1>4 DEF Overtaken, ContentOf

\* An edit takes away what was known of the file, and marks it overtaken.
LEMMA EditKeeps ==
    ASSUME TypeOK, WholeInv, NEW s \in Source, NEW v \in Version, EditSource(s, v)
    PROVE  WholeInv'
<1>1. /\ clean' = FALSE /\ UNCHANGED <<rule, made, record, pc, run, plan, executed, failed, discovered>>
    BY DEF EditSource, Edit
<1>2. CASE pc # "running"
    BY <1>1, <1>2, RecordStands DEF WholeInv, Whole
<1>3. CASE pc = "running"
    <2>1. /\ Overtaken \cup {s} \subseteq Overtaken'
          /\ \A n \in Node : n # s => ContentOf(n)' = ContentOf(n)
        BY <1>3, EditOvertakes
    <2>2. \A n \in Node : n # s => (Same(n) => Same(n)')
        BY <1>1, <2>1 DEF Same
    <2>3. \A c \in Cmd : Leads(c)' = Leads(c) /\ Leads(c) \subseteq Node
        BY <1>1, RecordStands, ReadsAssumption DEF Leads, TypeOK, Node
    <2>4. s \notin Cmd BY NodeAssumption
    <2>5. \A c \in Cmd : Unscheduled(c) => Unscheduled(c)'
        <3>1. TAKE c \in Cmd
        <3>2. ASSUME Unscheduled(c), NEW n \in Leads(c)
              PROVE  /\ n \in Cmd => n \notin plan'.filter /\ Same(n)'
                     /\ n \in Source => n \in Overtaken' \/ Same(n)'
            BY <3>2, <2>1, <2>2, <2>3, <2>4, <1>1 DEF Unscheduled
        <3>3. QED BY <3>2, <2>3, <1>1 DEF Unscheduled
    <2>6. PlanHolds' BY <2>5, <1>1, <1>3 DEF PlanHolds, WholeInv
    <2>7. ASSUME NEW c \in executed, Vouched(c) PROVE Vouched(c)'
        <3>1. CASE \E n \in Reads[c] \cup discovered[c] : n \in Overtaken
            BY <3>1, <2>1, <1>1 DEF Vouched
        <3>2. CASE discovered[c] \cap failed # {} BY <3>2, <1>1 DEF Vouched
        <3>3. CASE Raced(c)
            <4>1. Raced(c)' = Raced(c) BY <1>1 DEF Raced, Parsed, InScope, Enforced, Contradictory
            <4>2. QED BY <4>1, <3>3 DEF Vouched
        <3>4. CASE made[c] = Result(c) /\ discovered[c] = Included(c)
            <4>1. CASE s \in Reads[c] \cup discovered[c]
                BY <4>1, <2>1, <1>1 DEF Vouched
            <4>2. CASE s \notin Reads[c] \cup discovered[c]
                <5>1. c \in Cmd BY DEF TypeOK
                <5>2. \A r \in Reads[c] \cap Source : source'[r] = source[r]
                    BY <4>2 DEF EditSource, TypeOK
                <5>3. Included(c)' = Included(c) BY <5>2 DEF Included
                <5>4. Opened(c)' = Opened(c) /\ Opened(c) \subseteq Node /\ s \notin Opened(c)
                    BY <3>4, <4>2, <5>1, <5>3, ReadsAssumption DEF Opened, TypeOK
                <5>5. \A n \in Opened(c) : ContentOf(n)' = ContentOf(n) BY <5>4, <2>1
                <5>6. Result(c)' = Result(c)
                    <6>1. {ContentOf(n)' : n \in Opened(c)} = {ContentOf(n) : n \in Opened(c)}
                        BY <5>5
                    <6>2. Result(c)' = {<<c, rule[c]>>} \cup UNION {ContentOf(n)' : n \in Opened(c)}
                        BY <5>4, <1>1 DEF Result
                    <6>3. QED BY <6>1, <6>2 DEF Result
                <5>7. QED BY <5>3, <5>6, <3>4, <1>1 DEF Vouched
            <4>3. QED BY <4>1, <4>2
        <3>5. QED BY <2>7, <3>1, <3>2, <3>3, <3>4 DEF Vouched
    <2>8. RunHolds'
        <3>1. \A c \in Cmd : Needs(c)' = Needs(c) BY <1>1 DEF Needs, Enforced, Contradictory
        <3>2. executed \subseteq Cmd BY DEF TypeOK
        <3>3. QED BY <3>1, <3>2, <2>7, <1>1, <1>3 DEF RunHolds, WholeInv
    <2>9. QED BY <2>6, <2>8, <1>1, <1>3, RecordStands DEF WholeInv, Whole
<1>4. QED BY <1>2, <1>3
-----------------------------------------------------------------------------
\* Where no command runs, what is known of a clean project stands.
LEMMA CleanStands ==
    ASSUME TypeOK, UNCHANGED <<disk, record>>, pc # "running", pc' # "running", CleanHolds
    PROVE  CleanHolds'
<1>1. UNCHANGED <<source, rule, made, record>> BY DEF disk
<1>2. \A n : ContentOf(n)' = ContentOf(n) /\ Same(n)' = Same(n)
    BY <1>1 DEF ContentOf, Same
<1>3. \A c \in Cmd : Result(c)' = Result(c)
    <2>1. TAKE c \in Cmd
    <2>2. Opened(c)' = Opened(c) BY <1>1 DEF Opened, Included
    <2>3. {ContentOf(n)' : n \in Opened(c)} = {ContentOf(n) : n \in Opened(c)} BY <1>2
    <2>4. Result(c)' = {<<c, rule[c]>>} \cup UNION {ContentOf(n)' : n \in Opened(c)}
        BY <2>2, <1>1 DEF Result
    <2>5. QED BY <2>3, <2>4 DEF Result
<1>4. \A c \in Cmd : Stale(c)' = Stale(c) BY <1>1, <1>3 DEF Stale
<1>5. \A c \in Cmd : Leads(c)' = Leads(c) BY <1>1 DEF Leads
<1>6. QED BY <1>1, <1>2, <1>4, <1>5 DEF CleanHolds

\* Between builds, and where one is refused or dies, the record stands.
LEMMA IdleKeeps ==
    ASSUME TypeOK, WholeInv, \A o \in Runs : Whole(o),
           \/ Refuse \/ Crash \/ \E o \in Runs : Start(o)
           \/ \E c \in Cmd, v \in Version : EditRule(c, v)
    PROVE  WholeInv'
<1>1. /\ record' = record /\ pc' # "running" /\ failed' = {} /\ Whole(run')
      /\ clean' = FALSE \/ (clean' = clean /\ pc # "running" /\ UNCHANGED disk)
    BY DEF Refuse, Crash, Start, EditRule, Edit, Exit, Whole, FullRun, WholeInv, build
<1>2. Whole(run)' BY <1>1 DEF Whole
<1>3. QED BY <1>1, <1>2, RecordStands, CleanStands DEF WholeInv

\* A run that finds nothing to do vouches for every output.
LEMMA UpToDateKeeps ==
    ASSUME TypeOK, WholeInv, UpToDate
    PROVE  WholeInv'
<1>1. /\ record.saved /\ Changed(run) = {} /\ Forced(run) = {} /\ Whole(run)
      /\ pc = "starting" /\ pc' = "idle" /\ failed' = {} /\ run' = FullRun
      /\ UNCHANGED <<disk, record>> /\ RecordHolds /\ RecordIsTrue
    BY DEF UpToDate, NothingToDo, Exit, WholeInv
<1>2. Affected(run) = {} BY <1>1, AffectedGrows
<1>3. \A c \in Cmd : c \notin Selected(run) BY <1>1, <1>2, WholeRuns
<1>4. ASSUME NEW c \in Cmd
      PROVE  record.rule[c] = rule[c] /\ ~Stale(c) /\ \A n \in Leads(c) : Same(n)
    <2>1. record.rule[c] = rule[c] /\ \A n \in Leads(c) : Same(n)
        BY <1>1, <1>3, LeftOut
    <2>2. made[c] = Result(c) BY <2>1, <1>1, SameIsFresh
    <2>3. QED BY <2>1, <2>2 DEF Stale
<1>5. CleanHolds BY <1>1, <1>4 DEF CleanHolds
<1>6. CleanHolds' BY <1>1, <1>5, CleanStands
<1>7. Whole(run)' BY <1>1 DEF Whole, FullRun
<1>8. QED BY <1>1, <1>6, <1>7, RecordStands DEF WholeInv

\* What the scan leaves out is fresh, by LeftOut.
LEMMA ScanKeeps ==
    ASSUME TypeOK, MarksKept, WholeInv, Scan
    PROVE  WholeInv'
<1>1. /\ pc = "starting" /\ pc' = "running" /\ ~NothingToDo(run) /\ Whole(run)
      /\ plan'.examined = Examined(run) /\ plan'.filter = Selected(run)
      /\ plan'.injected = Injected(run)
      /\ plan'.before = {<<s, source[s]>> : s \in Examined(run) \cap touched}
      /\ UNCHANGED <<disk, record, run, touched, executed, failed, clean>>
      /\ executed = {} /\ failed = {} /\ RecordHolds /\ RecordIsTrue
    BY DEF Scan, WholeInv, MarksKept
<1>2. UNCHANGED <<source, rule, made, record>> BY <1>1 DEF disk
<1>3. \A n : Same(n)' = Same(n) BY <1>2 DEF ContentOf, Same
<1>4. PlanHolds'
    <2>1. \A c \in Cmd : c \in Selected(run) \/ Unscheduled(c)'
        <3>1. SUFFICES ASSUME NEW c \in Cmd, c \notin Selected(run) PROVE Unscheduled(c)'
            OBVIOUS
        <3>2. /\ record.saved /\ record.rule[c] = rule[c]
              /\ \A n \in Leads(c) : Same(n) /\ n \notin Selected(run)
            BY <3>1, <1>1, LeftOut
        <3>3. Leads(c)' = Leads(c) BY <1>1, RecordStands
        <3>4. QED BY <3>2, <3>3, <1>1, <1>2, <1>3 DEF Unscheduled
    <2>2. \A e \in Injected(run) : e[1] \in Selected(run) => e[2] \in Selected(run)
        <3>1. SUFFICES ASSUME NEW e \in Injected(run), e[1] \in Selected(run)
                       PROVE  e[2] \in Selected(run)
            OBVIOUS
        <3>2. e = <<e[1], e[2]>> /\ e[1] \in Cmd /\ e[2] \in Cmd BY <1>1, WholeRuns
        <3>3. record.saved => e[1] \in Affected(run) BY <3>1, <1>1, WholeRuns
        <3>4. record.saved => e[2] \in Affected(run) BY <3>1, <3>2, <3>3, <1>1, AffectedGrows
        <3>5. QED BY <3>2, <3>4, <1>1, WholeRuns
    <2>3. \A c \in Selected(run), d \in Cmd : c \in Reads[d] => d \in Selected(run)
        <3>1. SUFFICES ASSUME NEW c \in Selected(run), NEW d \in Cmd, c \in Reads[d]
                       PROVE  d \in Selected(run)
            OBVIOUS
        <3>2. record.saved => c \in Affected(run) BY <3>1, <1>1, WholeRuns
        <3>3. record.saved => d \in Affected(run) BY <3>1, <3>2, <1>1, AffectedGrows
        <3>4. QED BY <3>3, <1>1, WholeRuns
    <2>4. QED BY <2>1, <2>2, <2>3, <1>1, WholeRuns DEF PlanHolds
<1>5. RunHolds' BY <1>1 DEF RunHolds
<1>6. clean => CleanHolds'
    <2> SUFFICES ASSUME clean PROVE CleanHolds' OBVIOUS
    <2>1. /\ record.saved
          /\ \A c \in Cmd : /\ record.rule[c] = rule[c]
                            /\ \A n \in Leads(c) : n \in record.must_rerun \/ Same(n)
        BY <1>1 DEF WholeInv, CleanHolds
    <2>2. ASSUME ~run.rerun, record.must_rerun = {} PROVE FALSE
        <3>1. /\ record.cmds = Cmd
              /\ \A c \in Cmd : Leads(c) \subseteq record.files
              /\ \A n \in record.files : \E c \in Cmd : n \in Leads(c)
            BY <2>1, <1>1 DEF RecordHolds
        <3>2. \A c \in Cmd : \A n \in Leads(c) : Same(n) BY <2>1, <2>2
        <3>3. Forced(run) = {} BY <2>2 DEF Forced
        <3>4. Changed(run) # {} BY <2>1, <3>3, <1>1 DEF NothingToDo
        <3>5. Unverified(run) = {} BY <2>1, <2>2, <3>1, <1>1, WholeRuns DEF Unverified
        <3>6. \A n \in GraphNodes(run) : \E c \in Cmd : n \in Leads(c)
            BY <1>1, WholeRuns DEF GraphNodes, Leads
        <3>7. NewSources(run) = {} BY <3>1, <3>6 DEF NewSources
        <3>8. PICK n \in Examined(run) : Differs(n)
            BY <3>4, <3>5, <3>7 DEF Changed
        <3>9. Same(n) BY <3>1, <3>2, <3>8, <1>1, WholeRuns
        <3>10. QED BY <3>8, <3>9 DEF Differs, Same
    <2>3. QED BY <2>1, <2>2, <1>1, <1>2 DEF CleanHolds
<1>7. Whole(run)' BY <1>1 DEF Whole
<1>8. QED BY <1>1, <1>4, <1>5, <1>6, <1>7, RecordStands DEF WholeInv
-----------------------------------------------------------------------------
\* A command that succeeded does not come after one still to run.
LEMMA LateIsRaced ==
    ASSUME TypeOK, WholeInv, pc = "running", NEW c \in executed,
           NEW p \in plan.filter \ executed
    PROVE  c \notin Closure({p}, Downward(Parsed(run), Enforced))
<1> DEFINE U == plan.filter \ executed
           next == Downward(Parsed(run), Enforced)
<1>1. /\ PlanHolds /\ RunHolds /\ Parsed(run) = Cmd /\ plan.filter \subseteq Cmd
      /\ p \in Cmd /\ Cmd \subseteq Node
    BY WholeRuns DEF WholeInv, TypeOK, Node
<1>2. {p} \in SUBSET Node /\ next \in [Node -> SUBSET Node]
    BY <1>1 DEF Downward
<1>3. ASSUME NEW n \in U \cap Node, NEW m \in next[n] PROVE m \in U
    <2>1. m \in Cmd /\ (n \in Reads[m] \/ <<n, m>> \in Enforced)
        BY <1>1, <1>3 DEF Downward
    <2>2. m \in plan.filter BY <2>1, <1>1, <1>3 DEF PlanHolds, Enforced
    <2>3. n \in Needs(m) BY <2>1, <1>1, <1>3 DEF Needs
    <2>4. m \notin executed BY <2>3, <1>1, <1>3 DEF RunHolds
    <2>5. QED BY <2>2, <2>4
<1>4. {p} \subseteq U OBVIOUS
<1> HIDE DEF U, next
<1>5. Closure({p}, next) \subseteq U BY <1>2, <1>3, <1>4, ClosureHolds
<1>6. QED BY <1>5 DEF U, next

\* What the end of one command leaves of the others.
LEMMA OthersStand ==
    ASSUME TypeOK, MarksKept, WholeInv, NEW d \in Cmd, Ready(d),
           \/ CommandSucceeds(d) \/ CommandFails(d)
    PROVE  /\ PlanHolds'
           /\ \A c \in executed : made'[c] # {} /\ Needs(c)' \subseteq executed /\ Vouched(c)'
<1>1. /\ pc = "running" /\ pc' = "running" /\ d \in plan.filter /\ d \notin executed
      /\ PlanHolds /\ RunHolds /\ Parsed(run) = Cmd
      /\ UNCHANGED <<source, rule, record, run, touched, plan>>
      /\ executed \subseteq executed' /\ failed \subseteq failed'
      /\ d \in executed' \/ d \in failed'
      /\ \A c \in Cmd : c # d => made'[c] = made[c] /\ discovered'[c] = discovered[c]
    BY WholeRuns DEF CommandSucceeds, CommandFails, Ready, WholeInv, TypeOK
<1>2. \A n \in Node : n # d => ContentOf(n)' = ContentOf(n)
    BY <1>1 DEF ContentOf, Node
<1>3. Overtaken' = Overtaken BY <1>1 DEF Overtaken
<1>4. Enforced' = Enforced /\ \A c \in Cmd : Needs(c)' = Needs(c)
    BY <1>1 DEF Enforced, Contradictory, Needs
<1>5. \A c \in Cmd : Unscheduled(c) => Unscheduled(c)'
    <2>1. SUFFICES ASSUME NEW c \in Cmd, Unscheduled(c) PROVE Unscheduled(c)'
        OBVIOUS
    <2>2. Leads(c)' = Leads(c) /\ Leads(c) \subseteq Node
        BY <1>1, RecordStands, ReadsAssumption DEF Leads, TypeOK, Node
    <2>3. d \notin Leads(c) BY <2>1, <1>1 DEF Unscheduled
    <2>4. \A n \in Leads(c) : Same(n) => Same(n)' BY <2>2, <2>3, <1>1, <1>2 DEF Same
    <2>5. QED BY <2>1, <2>2, <2>4, <1>1, <1>3 DEF Unscheduled
<1>6. PlanHolds' BY <1>1, <1>5 DEF PlanHolds
<1>7. ASSUME NEW c \in executed PROVE Vouched(c)'
    <2>1. c \in Cmd /\ c # d /\ Vouched(c) /\ discovered'[c] = discovered[c]
          /\ made'[c] = made[c]
        BY <1>1, <1>7 DEF TypeOK, RunHolds
    <2>2. CASE \E s \in Reads[c] \cup discovered[c] : s \in Overtaken
        BY <2>1, <2>2, <1>3 DEF Vouched
    <2>3. CASE discovered[c] \cap failed # {} BY <2>1, <2>3, <1>1 DEF Vouched
    <2>4. CASE Raced(c)
        <3>1. Raced(c)'
            BY <2>1, <2>4, <1>1, <1>4 DEF Raced, Parsed, InScope
        <3>2. QED BY <3>1 DEF Vouched
    <2>5. CASE made[c] = Result(c) /\ discovered[c] = Included(c)
        <3>1. d \notin Reads[c]
            <4>1. Needs(c) \subseteq executed BY <1>1 DEF RunHolds
            <4>2. QED BY <4>1, <1>1 DEF Needs
        <3>2. CASE d \in discovered[c] /\ d \in failed'
            BY <3>2, <2>1 DEF Vouched
        <3>3. CASE d \in discovered[c] /\ d \in executed'
            <4>1. c \notin Closure({d}, Downward(Parsed(run), Enforced))
                BY <1>1, LateIsRaced
            <4>2. (Parsed(run))' = Parsed(run) BY <1>1 DEF Parsed, InScope
            <4>3. Raced(c)' BY <4>1, <4>2, <3>3, <2>1, <1>4 DEF Raced
            <4>4. QED BY <4>3 DEF Vouched
        <3>4. CASE d \notin discovered[c]
            <4>1. Included(c)' = Included(c) BY <1>1 DEF Included
            <4>2. Opened(c)' = Opened(c) /\ Opened(c) \subseteq Node /\ d \notin Opened(c)
                BY <4>1, <3>1, <3>4, <2>1, <2>5, ReadsAssumption DEF Opened, TypeOK
            <4>3. {ContentOf(n)' : n \in Opened(c)} = {ContentOf(n) : n \in Opened(c)}
                BY <4>2, <1>2
            <4>4. Result(c)' = {<<c, rule[c]>>} \cup UNION {ContentOf(n)' : n \in Opened(c)}
                BY <4>2, <1>1 DEF Result
            <4>5. Result(c)' = Result(c) BY <4>3, <4>4 DEF Result
            <4>6. QED BY <4>1, <4>5, <2>1, <2>5 DEF Vouched
        <3>5. QED BY <3>2, <3>3, <3>4, <1>1
    <2>6. QED BY <2>1, <2>2, <2>3, <2>4, <2>5 DEF Vouched
<1>8. \A c \in executed : c \in Cmd /\ c # d BY <1>1 DEF TypeOK
<1>9. \A c \in executed : made'[c] # {} /\ Needs(c)' \subseteq executed
    BY <1>1, <1>4, <1>8 DEF RunHolds
<1>10. QED BY <1>6, <1>7, <1>9

\* A command that ends vouches for its output, or counts as failed.
LEMMA CommandKeeps ==
    ASSUME TypeOK, MarksKept, WholeInv, NEW d \in Cmd, CommandSucceeds(d) \/ CommandFails(d)
    PROVE  WholeInv'
<1>1. /\ Ready(d) /\ pc = "running" /\ pc' = "running" /\ d \in plan.filter
      /\ d \notin executed \cup failed /\ Needs(d) \subseteq executed
      /\ UNCHANGED <<source, rule, record, run, touched, plan, clean>>
      /\ RunHolds /\ PlanHolds
    BY DEF CommandSucceeds, CommandFails, Ready, WholeInv
<1>2. /\ PlanHolds'
      /\ \A c \in executed : made'[c] # {} /\ Needs(c)' \subseteq executed /\ Vouched(c)'
    BY <1>1, OthersStand
<1>3. RunHolds'
    <2>1. CASE CommandFails(d)
        <3>1. executed' = executed /\ failed' = failed \cup {d} /\ plan' = plan
            BY <2>1 DEF CommandFails
        <3>2. QED BY <3>1, <1>1, <1>2 DEF RunHolds
    <2>2. CASE CommandSucceeds(d)
        <3>1. /\ executed' = executed \cup {d} /\ failed' = failed /\ plan' = plan
              /\ made' = [made EXCEPT ![d] = Result(d)]
              /\ discovered' = [discovered EXCEPT ![d] = Included(d)]
            BY <2>2 DEF CommandSucceeds
        <3>2. made'[d] = Result(d) /\ discovered'[d] = Included(d)
            BY <3>1 DEF TypeOK
        <3>3. Included(d)' = Included(d) /\ Opened(d)' = Opened(d)
            BY <1>1 DEF Included, Opened
        <3>4. Opened(d) \subseteq Node
            BY ReadsAssumption, IncludesAssumption DEF Opened, Included, TypeOK
        <3>5. \A n \in Node : n # d => ContentOf(n)' = ContentOf(n)
            BY <3>1, <1>1 DEF ContentOf, Node, TypeOK
        <3>6. ContentOf(d)' = Result(d) /\ ContentOf(d) = made[d]
            BY <3>2, NodeAssumption DEF ContentOf
        <3>7. Result(d)' = Result(d)
            <4>1. Result(d)' = {<<d, rule[d]>>} \cup UNION {ContentOf(n)' : n \in Opened(d)}
                BY <3>3, <1>1 DEF Result
            <4>2. Result(d) = {<<d, rule[d]>>} \cup UNION {ContentOf(n) : n \in Opened(d)}
                BY DEF Result
            <4>3. \A n \in Opened(d) : ContentOf(n)' \subseteq Result(d)
                BY <4>2, <3>4, <3>5, <3>6
            <4>4. \A n \in Opened(d) : ContentOf(n) \subseteq Result(d)' 
                <5>1. TAKE n \in Opened(d)
                <5>2. CASE n = d
                    BY <5>2, <4>1, <4>2, <3>6
                <5>3. CASE n # d BY <5>3, <4>1, <3>4, <3>5
                <5>4. QED BY <5>2, <5>3
            <4>5. QED BY <4>1, <4>2, <4>3, <4>4
        <3>8. Vouched(d)' BY <3>2, <3>3, <3>7 DEF Vouched
        <3>9. Needs(d)' = Needs(d) BY <1>1 DEF Needs, Enforced, Contradictory
        <3>10. made'[d] # {} BY <3>2 DEF Result
        <3>11. QED BY <3>1, <3>8, <3>9, <3>10, <1>1, <1>2 DEF RunHolds
    <2>3. QED BY <2>1, <2>2
<1>4. clean => CleanHolds'
    BY <1>1 DEF WholeInv, CleanHolds
<1>5. Whole(run)' BY <1>1 DEF Whole, WholeInv
<1>6. QED BY <1>1, <1>2, <1>3, <1>4, <1>5, RecordStands DEF WholeInv
-----------------------------------------------------------------------------
\* A run of the whole project records what it saw of every file.
LEMMA RecordedAsSeen ==
    ASSUME TypeOK, WholeInv, pc = "running"
    PROVE  /\ \A n \in NewRecord.files : n \in Node /\ NewHash(n) = Observed(n)
           /\ Merged = {}
           /\ \A c \in Cmd : {c} \cup Reads[c] \subseteq NewRecord.files
           /\ \A n \in NewRecord.files :
                \/ \E c \in Cmd : n \in {c} \cup Reads[c]
                \/ \E c \in executed : n \in discovered[c]
                \/ \E c \in Cmd \ executed : n \in record.deps[c]
<1>1. /\ Parsed(run) = Cmd /\ GraphFiles \in SUBSET Node
      /\ \A c \in Cmd : {c} \cup Reads[c] \subseteq GraphFiles
      /\ plan.examined = record.files /\ record.cmds \in SUBSET Cmd
    BY WholeRuns DEF GraphFiles, WholeInv, PlanHolds, TypeOK
<1>2. Merged = {} /\ MergedFiles = {} BY <1>1 DEF Merged, MergedFiles
<1>3. NewRecord.files = GraphFiles \cup FoundFiles \cup KeptFiles
    BY <1>2 DEF NewRecord
<1>4. FoundFiles \cap GraphFiles = {} /\ KeptFiles \cap GraphFiles = {}
    BY DEF FoundFiles, KeptFiles
<1>5. FoundFiles \in SUBSET Node /\ KeptFiles \in SUBSET Node
    BY DEF FoundFiles, KeptFiles, TypeOK
<1>6. \A n \in GraphFiles : n \in GraphFiles \cap Cmd \/ n \in GraphFiles \cap Source
    BY <1>1 DEF Node
<1>7. \A n : ~Carried(n) BY <1>1 DEF Carried
<1>8. ASSUME NEW n \in GraphFiles PROVE NewHash(n) = Observed(n)
    <2>1. n \in GraphFiles \cap Parsed(run) \/ n \in GraphFiles \cap Source BY <1>1, <1>6
    <2>2. n \notin FoundFiles \cup KeptFiles /\ n \notin MergedFiles BY <1>2, <1>4
    <2>3. n \notin GraphFiles \ (Parsed(run) \cup Source) BY <2>1
    <2>4. QED BY <2>1, <2>2, <2>3, <1>7 DEF NewHash
<1>9. ASSUME NEW n \in FoundFiles \cup KeptFiles PROVE NewHash(n) = Observed(n)
    <2>1. n \notin GraphFiles /\ n \notin MergedFiles BY <1>2, <1>4
    <2>2. QED BY <2>1 DEF NewHash
<1>10. \A n \in GraphFiles : \E c \in Cmd : n \in {c} \cup Reads[c]
    BY <1>1 DEF GraphFiles, GraphNodes
<1>11. \A n \in FoundFiles : \E c \in executed : n \in discovered[c]
    BY DEF FoundFiles
<1>12. \A n \in KeptFiles : \E c \in Cmd \ executed : n \in record.deps[c]
    BY <1>1 DEF KeptFiles
<1>13. QED BY <1>1, <1>2, <1>3, <1>5, <1>8, <1>9, <1>10, <1>11, <1>12

\* The next record is true: a file it trusts is as it was when it was read, and
\* a command it does not owe was left out, or succeeded and was vouched for.
LEMMA FinishKeeps ==
    ASSUME TypeOK, MarksKept, WholeInv, Finish
    PROVE  WholeInv'
<1>1. /\ pc = "running" /\ pc' = "idle" /\ record' = NewRecord
      /\ run' = FullRun /\ failed' = {} /\ UNCHANGED <<source, rule, made>>
      /\ Whole(run) /\ RecordHolds /\ RecordIsTrue /\ PlanHolds /\ RunHolds
      /\ plan.filter \subseteq plan.must_rerun /\ Parsed(run) = Cmd
    BY WholeRuns DEF Finish, Exit, WholeInv, MarksKept, disk
<1>2. /\ record'.saved /\ record'.cmds = Cmd /\ record'.files = NewRecord.files
      /\ \A n \in Node : record'.hash[n] = NewHash(n)
      /\ record'.must_rerun = Owed
      /\ \A c \in Cmd : /\ record'.rule[c] = rule[c]
                        /\ record'.deps[c] = IF c \in executed THEN discovered[c]
                                                               ELSE record.deps[c]
    BY <1>1 DEF NewRecord, TypeOK
<1>3. /\ \A n \in NewRecord.files : n \in Node /\ NewHash(n) = Observed(n)
      /\ Merged = {}
      /\ \A c \in Cmd : {c} \cup Reads[c] \subseteq NewRecord.files
      /\ \A n \in NewRecord.files :
            \/ \E c \in Cmd : n \in {c} \cup Reads[c]
            \/ \E c \in executed : n \in discovered[c]
            \/ \E c \in Cmd \ executed : n \in record.deps[c]
    BY <1>1, RecordedAsSeen
<1>4. \A c \in Cmd : record'.deps[c] \subseteq NewRecord.files
    <2>1. SUFFICES ASSUME NEW c \in Cmd PROVE record'.deps[c] \subseteq NewRecord.files
        OBVIOUS
    <2>2. FoundFiles \cup GraphFiles \cup KeptFiles \cup MergedFiles \subseteq NewRecord.files
        BY DEF NewRecord
    <2>3. CASE c \in executed
        <3>1. discovered[c] \subseteq FoundFiles \cup GraphFiles BY <2>3 DEF FoundFiles
        <3>2. QED BY <3>1, <2>2, <2>3, <1>2
    <2>4. CASE c \notin executed /\ c \in record.cmds
        <3>1. record.deps[c] \subseteq KeptFiles \cup GraphFiles \cup FoundFiles \cup MergedFiles
            BY <2>4 DEF KeptFiles
        <3>2. QED BY <3>1, <2>2, <2>4, <1>2
    <2>5. CASE c \notin executed /\ c \notin record.cmds
        BY <2>5, <1>1, <1>2 DEF RecordHolds
    <2>6. QED BY <2>3, <2>4, <2>5
<1>5. \A c \in Cmd : Leads(c)' = {c} \cup Reads[c] \cup record'.deps[c]
    BY DEF Leads
<1>6. RecordHolds'
    <2>1. \A n \in NewRecord.files : \E c \in Cmd : n \in Leads(c)'
        <3>1. executed \subseteq Cmd BY DEF TypeOK
        <3>2. QED BY <3>1, <1>2, <1>3, <1>5
    <2>2. \A c \in Cmd : Leads(c)' \subseteq record'.files BY <1>2, <1>3, <1>4, <1>5
    <2>3. QED BY <2>1, <2>2, <1>2 DEF RecordHolds
\* What is owed is what was to run and did not succeed, and the raced.
<1>7. /\ \A c \in plan.filter : c \in executed \/ c \in Owed
      /\ \A c \in executed : Raced(c) => c \in Owed
    BY <1>1 DEF Owed
<1>8. \A n \in Node : ContentOf(n)' = ContentOf(n) BY <1>1 DEF ContentOf
<1>9. \A n \in NewRecord.files : n \in Overtaken \/ record'.hash[n] = ContentOf(n)
    <2>1. \A n \in touched : n \in Source BY DEF TypeOK
    <2>2. QED BY <2>1, <1>2, <1>3 DEF Observed, Overtaken
<1>10. \A n \in NewRecord.files : n \in Overtaken => record'.hash[n] = {}
    BY <1>2, <1>3 DEF Observed, Overtaken
<1>11. \A c \in Cmd : c \notin Overtaken BY NodeAssumption DEF Overtaken, TypeOK
\* A command neither owed nor overtaken is fresh.
<1>12. ASSUME NEW c \in Cmd, c \notin Owed,
              \A n \in Leads(c)' : n \notin Overtaken /\ n \notin failed
       PROVE  made[c] = Result(c) /\ record'.deps[c] = Included(c)
    <2>1. CASE c \in executed
        <3>1. Vouched(c) /\ ~Raced(c) BY <2>1, <1>1, <1>7, <1>12 DEF RunHolds
        <3>2. \A n \in Reads[c] \cup discovered[c] : n \notin Overtaken /\ n \notin failed
            BY <2>1, <1>2, <1>5, <1>12
        <3>3. QED BY <3>1, <3>2, <2>1, <1>2 DEF Vouched
    <2>2. CASE c \notin executed
        <3>1. c \notin plan.filter BY <2>2, <1>7, <1>12
        <3>2. Unscheduled(c) BY <3>1, <1>1 DEF PlanHolds
        <3>3. Leads(c)' = Leads(c) BY <2>2, <1>2, <1>5 DEF Leads
        <3>4. Leads(c) \subseteq Node BY <3>3, <1>2, <1>3, <1>4, <1>5
        <3>5. \A n \in Leads(c) : Same(n)
            BY <3>2, <3>3, <3>4, <1>12 DEF Unscheduled, Node
        <3>6. record.saved /\ record.rule[c] = rule[c] BY <3>2 DEF Unscheduled
        <3>7. QED BY <3>5, <3>6, <2>2, <1>1, <1>2, SameIsFresh
    <2>3. QED BY <2>1, <2>2
<1>13. \A c \in Cmd : Result(c)' = Result(c)
    <2>1. TAKE c \in Cmd
    <2>2. Opened(c)' = Opened(c) BY <1>1 DEF Opened, Included
    <2>3. Opened(c) \subseteq Node
        BY ReadsAssumption, IncludesAssumption DEF Opened, Included, TypeOK
    <2>4. {ContentOf(n)' : n \in Opened(c)} = {ContentOf(n) : n \in Opened(c)}
        BY <2>3, <1>8
    <2>5. Result(c)' = {<<c, rule[c]>>} \cup UNION {ContentOf(n)' : n \in Opened(c)}
        BY <2>2, <1>1 DEF Result
    <2>6. QED BY <2>4, <2>5 DEF Result
<1>14. failed \subseteq Owed
    <2>1. failed \subseteq plan.filter \ executed BY <1>1 DEF RunHolds
    <2>2. QED BY <2>1, <1>7
<1>15. RecordIsTrue'
    <2>1. SUFFICES ASSUME NEW c \in Cmd,
                          \A n \in Leads(c)' : record'.hash[n] # {} /\ n \notin Owed
                   PROVE  /\ record'.hash[c] = Made(c, record')
                          /\ record'.deps[c] = Found(c, record')
        BY <1>2 DEF RecordIsTrue
    <2>2. Leads(c)' \subseteq NewRecord.files BY <1>3, <1>4, <1>5
    <2>3. \A n \in Leads(c)' : n \notin Overtaken /\ n \notin failed
        BY <2>1, <2>2, <1>10, <1>14
    <2>4. made[c] = Result(c) /\ record'.deps[c] = Included(c)
        BY <2>1, <2>3, <1>5, <1>12
    <2>5. \A n \in Leads(c)' : record'.hash[n] = ContentOf(n) BY <2>2, <2>3, <1>9
    <2>6. record'.hash[c] = made[c] BY <2>5, <1>5, NodeAssumption DEF ContentOf
    <2>7. PICK r : r = record' OBVIOUS
    <2>8. /\ Found(c, r) = Included(c)
          /\ r.deps[c] = Included(c) => Made(c, r) = Result(c)
        BY <2>5, <2>7, <1>2, <1>5, RecordedNow
    <2>9. QED BY <2>4, <2>6, <2>7, <2>8
<1>16. ASSUME clean' PROVE CleanHolds'
    <2>1. failed = {} /\ touched = {} BY <1>16 DEF Finish
    <2>2. Overtaken = {} BY <2>1 DEF Overtaken
    <2>3. \A c \in Cmd : Leads(c)' \subseteq NewRecord.files /\ Leads(c)' \subseteq Node
        BY <1>3, <1>4, <1>5
    <2>4. \A c \in Cmd : c \in Owed \/ made[c] = Result(c)
        BY <2>1, <2>2, <1>12
    <2>5. \A c \in Cmd : c \in Owed \/ ~Stale(c)'
        BY <2>4, <1>1, <1>13 DEF Stale
    <2>6. \A n \in NewRecord.files : n \in Owed \/ ContentOf(n) # {}
        <3>1. \A n \in Source : ContentOf(n) # {} BY DEF ContentOf
        <3>2. \A c \in Cmd : ContentOf(c) = made[c] BY NodeAssumption DEF ContentOf
        <3>3. \A c \in executed : made[c] # {} BY <1>1 DEF RunHolds
        <3>4. \A c \in Cmd \ plan.filter : ContentOf(c) # {}
            BY <1>1 DEF PlanHolds, Unscheduled, Same, Leads
        <3>5. QED BY <3>1, <3>2, <3>3, <3>4, <1>3, <1>7 DEF Node
    <2>7. \A n \in NewRecord.files : n \in Owed \/ Same(n)'
        BY <2>2, <2>6, <1>2, <1>3, <1>8, <1>9 DEF Same
    <2>8. \A c \in Cmd : \A n \in Leads(c)' : n \in record'.must_rerun \/ Same(n)'
        BY <2>3, <2>7, <1>2
    <2>9. QED BY <2>5, <2>8, <1>1, <1>2 DEF CleanHolds
<1>17. Whole(run)' BY <1>1 DEF Whole, FullRun
<1>18. QED BY <1>1, <1>6, <1>15, <1>16, <1>17 DEF WholeInv

\* A step that changes nothing.
LEMMA StutterKeeps ==
    ASSUME WholeInv, UNCHANGED vars PROVE WholeInv'
<1>1. /\ record' = record /\ run' = run /\ pc' = pc /\ failed' = failed /\ clean' = clean
      /\ rule' = rule /\ source' = source /\ made' = made /\ plan' = plan
      /\ executed' = executed /\ discovered' = discovered /\ touched' = touched
    BY DEF vars, disk, build
<1>2. \A n : ContentOf(n)' = ContentOf(n) BY <1>1 DEF ContentOf
<1>3. \A n : Same(n)' = Same(n) BY <1>1, <1>2 DEF Same
<1>4. \A c : Leads(c)' = Leads(c) BY <1>1 DEF Leads
<1>5. Overtaken' = Overtaken BY <1>1 DEF Overtaken
<1>6. \A c : /\ Raced(c)' = Raced(c) /\ Needs(c)' = Needs(c)
    BY <1>1 DEF Raced, Needs, Parsed, InScope, Enforced, Contradictory
<1>7. \A c : Included(c)' = Included(c) /\ Opened(c)' = Opened(c)
    BY <1>1 DEF Included, Opened
<1>8. \A c : Result(c)' = Result(c) BY <1>1, <1>2, <1>7 DEF Result
<1>9. \A c : Unscheduled(c)' = Unscheduled(c) BY <1>1, <1>3, <1>4, <1>5 DEF Unscheduled
<1>10. \A c : Vouched(c)' = Vouched(c) BY <1>1, <1>5, <1>6, <1>7, <1>8 DEF Vouched
<1>11. \A c : Stale(c)' = Stale(c) BY <1>1, <1>8 DEF Stale
<1>12. PlanHolds => PlanHolds' BY <1>1, <1>9 DEF PlanHolds
<1>13. RunHolds => RunHolds' BY <1>1, <1>6, <1>10 DEF RunHolds
<1>14. CleanHolds => CleanHolds' BY <1>1, <1>3, <1>4, <1>11 DEF CleanHolds
<1>15. QED BY <1>1, <1>12, <1>13, <1>14, RecordStands DEF WholeInv, Whole

(***************************************************************************)
(* WholeInv is an invariant where every run is of the whole project.       *)
(***************************************************************************)
THEOREM WholeInvariance ==
    ASSUME \A o \in Runs : Whole(o) PROVE Spec => []WholeInv
<1>1. Init => WholeInv
    BY DEF Init, WholeInv, NoRecord, FullRun, Whole, RecordHolds, RecordIsTrue
<1>2. TypeOK /\ MarksKept /\ WholeInv /\ [Next]_vars => WholeInv'
    <2> SUFFICES ASSUME TypeOK, MarksKept, WholeInv, [Next]_vars PROVE WholeInv' OBVIOUS
    <2>1. CASE \E s \in Source, v \in Version : EditSource(s, v) BY <2>1, EditKeeps
    <2>2. CASE \/ Refuse \/ Crash \/ \E o \in Runs : Start(o)
               \/ \E c \in Cmd, v \in Version : EditRule(c, v)
        BY <2>2, IdleKeeps
    <2>3. CASE UpToDate BY <2>3, UpToDateKeeps
    <2>4. CASE Scan BY <2>4, ScanKeeps
    <2>5. CASE \E c \in Cmd : CommandSucceeds(c) \/ CommandFails(c) BY <2>5, CommandKeeps
    <2>6. CASE Finish BY <2>6, FinishKeeps
    <2>7. CASE UNCHANGED vars BY <2>7, StutterKeeps
    <2>8. QED BY <2>1, <2>2, <2>3, <2>4, <2>5, <2>6, <2>7 DEF Next, UserStep, BuildStep
<1>3. QED BY <1>1, <1>2, TypeCorrect, MarksInvariance, PTL DEF Spec
-----------------------------------------------------------------------------
\* What the next full build would leave out is fresh, and trusted by the record.
UnselectedTrusted ==
    \A c \in Cmd : c \notin Selected(FullRun) =>
        ~Stale(c) /\ \A n \in Leads(c) : record.hash[n] # {}

\* It follows from the invariant: LeftOut and SameIsFresh.
LEMMA UnselectedAreTrusted ==
    ASSUME TypeOK, WholeInv PROVE UnselectedTrusted
<1> SUFFICES ASSUME NEW c \in Cmd, c \notin Selected(FullRun)
             PROVE  ~Stale(c) /\ \A n \in Leads(c) : record.hash[n] # {}
    BY DEF UnselectedTrusted
<1>1. Whole(FullRun) BY DEF Whole, FullRun
<1>2. /\ record.saved /\ record.rule[c] = rule[c]
      /\ \A n \in Leads(c) : Same(n)
    BY <1>1, LeftOut DEF WholeInv
<1>3. made[c] = Result(c) BY <1>2, SameIsFresh DEF WholeInv
<1>4. QED BY <1>2, <1>3 DEF Stale, Same

(***************************************************************************)
(* A stale output is always seen by the next full build.                   *)
(***************************************************************************)
THEOREM NothingIsForgotten ==
    ASSUME \A o \in Runs : Whole(o) PROVE Spec => []NothingForgotten
<1>1. TypeOK /\ WholeInv => NothingForgotten
    BY UnselectedAreTrusted DEF UnselectedTrusted, NothingForgotten
<1>2. QED BY <1>1, TypeCorrect, WholeInvariance, PTL

(***************************************************************************)
(* After a full build that reported success every output is fresh, but for *)
(* recorded races.                                                         *)
(***************************************************************************)
THEOREM CleanIsFresh ==
    ASSUME \A o \in Runs : Whole(o) PROVE Spec => []FreshWhenClean
<1>1. WholeInv => FreshWhenClean BY DEF WholeInv, CleanHolds, FreshWhenClean
<1>2. QED BY <1>1, WholeInvariance, PTL

(***************************************************************************)
(* Nothing runs again when nothing changed since, but for recorded races.  *)
(***************************************************************************)
THEOREM NothingRunsNeedlessly ==
    ASSUME \A o \in Runs : Whole(o) PROVE Spec => []NoNeedlessRun
<1>1. WholeInv => NoNeedlessRun BY DEF WholeInv, CleanHolds, NoNeedlessRun
<1>2. QED BY <1>1, WholeInvariance, PTL

\* Only a build that comes to its end writes the record.
LEMMA OnlyFinishRecords ==
    ASSUME [Next]_vars, record' # record PROVE Finish
BY DEF Next, UserStep, BuildStep, EditSource, EditRule, Refuse, UpToDate, Scan, Crash,
       Start, CommandSucceeds, CommandFails, vars

\* It leaves no hash of a source that was edited under a command that read it.
LEMMA OvertakenIsDistrusted ==
    ASSUME TypeOK, MarksKept, WholeInv, Finish, WholeInv',
           NEW c \in executed, NEW s \in (Reads[c] \cup discovered[c]) \cap Overtaken
    PROVE  c \in Cmd /\ s \in Leads(c)' /\ record'.hash[s] = {}
<1>1. pc = "running" /\ record' = NewRecord /\ c \in Cmd BY DEF Finish, TypeOK
<1>2. record'.deps[c] = discovered[c] /\ \A n \in Node : record'.hash[n] = NewHash(n)
    BY <1>1 DEF NewRecord
<1>3. s \in Leads(c)' BY <1>2 DEF Leads
<1>4. record'.saved BY <1>1 DEF NewRecord
<1>5. s \in NewRecord.files BY <1>1, <1>3, <1>4 DEF WholeInv, RecordHolds
<1>6. s \in Node /\ NewHash(s) = Observed(s) BY <1>1, <1>5, RecordedAsSeen
<1>7. QED BY <1>1, <1>2, <1>3, <1>6 DEF Observed, Overtaken

(***************************************************************************)
(* Commands whose inputs were edited during the build run in the next one. *)
(***************************************************************************)
THEOREM MidBuildEditsAreSeen ==
    ASSUME \A o \in Runs : Whole(o) PROVE Spec => MidBuildEditsSeen
<1> DEFINE Seen == record' # record =>
            \A c \in executed :
                (Reads[c] \cup discovered[c]) \cap Overtaken # {}
                    => c \in Selected(FullRun)'
<1>1. TypeOK /\ WholeInv => UnselectedTrusted BY UnselectedAreTrusted
<1>2. TypeOK /\ MarksKept /\ WholeInv /\ WholeInv' /\ UnselectedTrusted' /\ [Next]_vars => [Seen]_vars
    <2> SUFFICES ASSUME TypeOK, MarksKept, WholeInv, WholeInv', UnselectedTrusted', [Next]_vars,
                        record' # record, NEW c \in executed,
                        (Reads[c] \cup discovered[c]) \cap Overtaken # {}
                 PROVE  c \in Selected(FullRun)'
        OBVIOUS
    <2>1. PICK s \in (Reads[c] \cup discovered[c]) \cap Overtaken : TRUE OBVIOUS
    <2>2. c \in Cmd /\ s \in Leads(c)' /\ record'.hash[s] = {}
        BY <2>1, OnlyFinishRecords, OvertakenIsDistrusted
    <2>3. QED BY <2>2 DEF UnselectedTrusted
<1>3. QED BY <1>1, <1>2, TypeCorrect, MarksInvariance, WholeInvariance, PTL
      DEF Spec, MidBuildEditsSeen
-----------------------------------------------------------------------------
(***************************************************************************)
(* Builds of a directory.  Once whole builds recorded every command, builds*)
(* of some directories, among builds of the whole, forget nothing either,  *)
(* where commands open what they declare and nothing else, and no build is *)
(* of a target or takes -a: run IncrementalHeader, IncrementalTarget and   *)
(* IncrementalMidBuild show that each of these conditions is needed.       *)
(*                                                                         *)
(* The argument is about the record, not the disk.  A scoped build carries *)
(* the records of the commands it does not parse; it may record a new      *)
(* content of a file they read, and then it marks them.  So what the record*)
(* says an unmarked output was made of stays what it says of those files.  *)
(***************************************************************************)
Plain(o) == ~o.all_deps /\ o.target = {}
NothingIncluded == \A s \in Source, v \in Version : Includes[s][v] = {}

\* Every command and every input: what a record of the whole project holds.
AllFiles == Cmd \cup UNION {Reads[c] : c \in Cmd}
Near(c) == {c} \cup Reads[c]

\* What the record says c was made of.
Stated(c, r) == {<<c, r.rule[c]>>} \cup UNION {r.hash[n] : n \in Reads[c]}
Trusted(c, r) == c \notin r.must_rerun /\ \A n \in Near(c) : r.hash[n] # {}

\* The record is of the whole project, and true of every command it does not mark.
RecordIsWhole ==
    /\ \A c \in Cmd : record.deps[c] = {}
    /\ IF record.saved THEN record.cmds = Cmd /\ record.files = AllFiles
                       ELSE record.cmds = {} /\ record.files = {}
    /\ record.saved => \A c \in Cmd : Trusted(c, record) => record.hash[c] = Stated(c, record)

\* An invocation the record allows.
MayRun(o) == Plain(o) /\ (o.scope # {} => record.cmds = Cmd)

Recorded(n) == ContentOf(n) # {} /\ record.hash[n] = ContentOf(n)

\* A parsed command that was left out: all it reads was compared and found as recorded.
Spared(c) ==
    /\ record.saved /\ record.rule[c] = rule[c]
    /\ \A n \in Near(c) : n \notin plan.filter /\ (n \in Overtaken \/ Recorded(n))

ScopedPlan ==
    /\ plan.examined = Examined(run) /\ plan.injected = {}
    /\ \A c \in plan.filter, d \in Parsed(run) : c \in Reads[d] => d \in plan.filter
    /\ \A c \in Parsed(run) : c \in plan.filter \/ Spared(c)

ScopedProgress ==
    /\ failed \subseteq plan.filter \ executed
    /\ \A c \in executed :
        /\ Reads[c] \cap plan.filter \subseteq executed
        /\ Reads[c] \cap Overtaken # {} \/ made[c] = Result(c)

(***************************************************************************)
(* The inductive invariant of scoped builds.                               *)
(***************************************************************************)
ScopedInv ==
    /\ MayRun(run) /\ RecordIsWhole
    /\ \A c \in Cmd : discovered[c] = {}
    /\ pc = "running" => ScopedPlan /\ ScopedProgress
    /\ pc # "running" => failed = {}

\* Commands open what they declare.
LEMMA OpensWhatItReads ==
    ASSUME TypeOK, NothingIncluded, NEW c \in Cmd
    PROVE  Included(c) = {} /\ Opened(c) = Reads[c]
<1>1. \A s \in Reads[c] \cap Source : Includes[s][source[s]] = {}
    BY DEF TypeOK, NothingIncluded
<1>2. Included(c) = {} BY <1>1 DEF Included
<1>3. QED BY <1>2 DEF Opened

\* What a scoped build parses, it compares.
LEMMA PlainRuns ==
    ASSUME TypeOK, RecordIsWhole, NEW o, MayRun(o)
    PROVE  /\ Parsed(o) \subseteq Cmd /\ \A c \in Parsed(o) : Near(c) \subseteq GraphNodes(o)
           /\ GraphNodes(o) \in SUBSET Node /\ GraphNodes(o) \subseteq AllFiles
           /\ record.saved => GraphNodes(o) \subseteq Examined(o)
           /\ ~record.saved => Parsed(o) = Cmd
           /\ Injected(o) = {} /\ Forced(o) \in {{}, Parsed(o)}
           /\ Selected(o) = {c \in Parsed(o) : record.saved => c \in Affected(o)}
<1>1. Parsed(o) = IF o.scope = {} THEN Cmd ELSE Cmd \cap InScope(o)
    BY DEF Parsed, MayRun, Plain
<1>2. /\ Parsed(o) \subseteq Cmd /\ \A c \in Parsed(o) : Near(c) \subseteq GraphNodes(o)
      /\ GraphNodes(o) \in SUBSET Node /\ GraphNodes(o) \subseteq AllFiles
    BY <1>1, ReadsAssumption DEF GraphNodes, Near, Node, AllFiles
<1>3. ASSUME record.saved PROVE GraphNodes(o) \subseteq Examined(o)
    <2>1. record.cmds = Cmd /\ record.files = AllFiles BY <1>3 DEF RecordIsWhole
    <2>2. CASE o.scope = {} BY <2>1, <2>2, <1>2 DEF Examined
    <2>3. CASE o.scope # {}
        <3>1. SUFFICES ASSUME NEW n \in GraphNodes(o) PROVE n \in InScope(o) \cup Crossing(o)
            BY <1>2, <2>1 DEF Examined
        <3>2. CASE n \in Parsed(o) BY <3>2, <2>3, <1>1
        <3>3. CASE \E c \in Parsed(o) : n \in Reads[c]
            BY <3>3, <2>1, <2>3, <1>1 DEF Crossing
        <3>4. QED BY <3>2, <3>3 DEF GraphNodes
    <2>4. QED BY <2>2, <2>3
<1>4. ~record.saved => Parsed(o) = Cmd BY <1>1 DEF RecordIsWhole, MayRun
<1>5. Injected(o) = {} BY <1>2 DEF Injected, RecordIsWhole
<1>6. Forced(o) \in {{}, Parsed(o)} BY <1>1 DEF Forced
<1>7. Selected(o) = {c \in Parsed(o) : record.saved => c \in Affected(o)}
    BY DEF Selected, MayRun, Plain
<1>8. QED BY <1>2, <1>3, <1>4, <1>5, <1>6, <1>7

\* What is selected takes its readers along; what is left out was found as recorded.
LEMMA PlainSelects ==
    ASSUME TypeOK, RecordIsWhole, NEW o, MayRun(o)
    PROVE  /\ \A c \in Selected(o), d \in Parsed(o) : c \in Reads[d] => d \in Selected(o)
           /\ \A c \in Parsed(o) \ Selected(o) :
                /\ record.saved /\ record.rule[c] = rule[c]
                /\ \A n \in Near(c) : n \notin Selected(o) /\ Recorded(n)
<1> DEFINE S == Changed(o) \cap GraphNodes(o)
           next == Downward(Parsed(o), Injected(o))
<1>1. S \in SUBSET Node /\ next \in [Node -> SUBSET Node]
    BY PlainRuns DEF Downward, Node
<1>2. /\ S \subseteq Closure(S, next) /\ Closure(S, next) \in SUBSET Node
      /\ \A n \in Closure(S, next) : next[n] \subseteq Closure(S, next)
    <2> HIDE DEF S, next
    <2>1. QED BY <1>1, ClosureHolds
<1>3. Affected(o) = Closure(S, next) \cup Forced(o) BY DEF Affected
<1>4. \A n \in Node, d \in Parsed(o) : n \in Reads[d] => d \in next[n]
    BY DEF Downward
<1> HIDE DEF next
<1>5. ASSUME NEW n \in Affected(o), NEW d \in Parsed(o), n \in Reads[d]
      PROVE  d \in Affected(o)
    <2>1. CASE Forced(o) = Parsed(o) BY <2>1, <1>3
    <2>2. CASE Forced(o) = {}
        <3>1. n \in Closure(S, next) /\ n \in Node BY <2>2, <1>2, <1>3
        <3>2. d \in next[n] BY <3>1, <1>4, <1>5
        <3> HIDE DEF S
        <3>3. QED BY <3>1, <3>2, <1>2, <1>3
    <2>3. QED BY <2>1, <2>2, PlainRuns
<1>6. \A c \in Selected(o), d \in Parsed(o) : c \in Reads[d] => d \in Selected(o)
    BY <1>5, PlainRuns
<1>7. ASSUME NEW c \in Parsed(o) \ Selected(o)
      PROVE  /\ record.saved /\ record.rule[c] = rule[c]
             /\ \A n \in Near(c) : n \notin Selected(o) /\ Recorded(n)
    <2>1. record.saved /\ c \notin Affected(o) BY <1>7, PlainRuns
    <2>2. \A n \in Near(c) : n \in GraphNodes(o) /\ n \in Examined(o) BY <2>1, PlainRuns
    <2>3. \A n \in Near(c) : n \notin Affected(o) BY <2>1, <1>5 DEF Near
    <2>4. \A n \in Near(c) : n \notin Changed(o) BY <2>2, <2>3, <1>2, <1>3
    <2>5. \A n \in Near(c) : ~Differs(n) BY <2>2, <2>4 DEF Changed
    <2>6. c \notin Unverified(o) BY <2>4 DEF Near, Changed
    <2>7. record.rule[c] = rule[c] BY <2>6 DEF Unverified
    <2>8. \A n \in Near(c) : n \notin Selected(o) BY <2>1, <2>3, PlainRuns
    <2>9. QED BY <2>1, <2>5, <2>7, <2>8 DEF Differs, Recorded
<1>8. QED BY <1>6, <1>7

\* What is said of the record alone stands as long as it does.
LEMMA WholeRecordStands ==
    ASSUME record' = record
    PROVE  /\ RecordIsWhole => RecordIsWhole'
           /\ \A o : MayRun(o)' = MayRun(o)
<1>1. \A c \in Cmd : Stated(c, record)' = Stated(c, record) /\ Trusted(c, record)' = Trusted(c, record)
    BY DEF Stated, Trusted
<1>2. RecordIsWhole => RecordIsWhole' BY <1>1 DEF RecordIsWhole
<1>3. QED BY <1>2 DEF MayRun

\* Nothing is in progress before the scan, and nothing after the exit.
LEMMA ScopedIdle ==
    ASSUME ScopedInv, record' = record, pc' # "running", failed' = {},
           MayRun(run'), \A c \in Cmd : discovered'[c] = {}
    PROVE  ScopedInv'
BY WholeRecordStands DEF ScopedInv, MayRun

LEMMA FullRunIsPlain == MayRun(FullRun)
BY DEF MayRun, Plain, FullRun

\* Every way a build ends without a record, and every way it begins.
LEMMA ScopedQuiet ==
    ASSUME TypeOK, ScopedInv, \A o \in Runs : Plain(o),
           \/ Refuse \/ UpToDate \/ Crash
           \/ \E o \in Runs : Allowed(o) /\ Start(o)
           \/ \E c \in Cmd, v \in Version : EditRule(c, v)
           \/ pc # "running" /\ \E s \in Source, v \in Version : EditSource(s, v)
    PROVE  ScopedInv'
<1>1. CASE Refuse \/ UpToDate \/ Crash
    <2>1. /\ record' = record /\ pc' = "idle" /\ run' = FullRun /\ failed' = {}
          /\ \A c \in Cmd : discovered'[c] = {}
        BY <1>1 DEF Refuse, UpToDate, Crash, Exit
    <2>2. QED BY <2>1, ScopedIdle, FullRunIsPlain
<1>2. CASE \E o \in Runs : Allowed(o) /\ Start(o)
    <2>1. PICK o \in Runs : Allowed(o) /\ Start(o) BY <1>2
    <2>2. MayRun(o)
        <3>1. o.scope # {} => o # FullRun BY DEF FullRun
        <3>2. QED BY <2>1, <3>1 DEF Allowed, MayRun
    <2>3. /\ record' = record /\ pc' = "starting" /\ run' = o /\ UNCHANGED <<failed, discovered>>
          /\ pc = "idle"
        BY <2>1 DEF Start
    <2>4. QED BY <2>2, <2>3, ScopedIdle DEF ScopedInv
<1>3. CASE \E c \in Cmd, v \in Version : EditRule(c, v)
    <2>1. /\ record' = record /\ pc = "idle" /\ UNCHANGED <<pc, run, failed, discovered>>
        BY <1>3 DEF EditRule, build
    <2>2. QED BY <2>1, ScopedIdle DEF ScopedInv
<1>4. CASE pc # "running" /\ \E s \in Source, v \in Version : EditSource(s, v)
    <2>1. /\ record' = record /\ UNCHANGED <<pc, run, failed, discovered>>
        BY <1>4 DEF EditSource
    <2>2. QED BY <2>1, <1>4, ScopedIdle DEF ScopedInv
<1>5. QED BY <1>1, <1>2, <1>3, <1>4

\* The scan leaves out only what it compared and found as recorded.
LEMMA ScopedScan ==
    ASSUME TypeOK, MarksKept, ScopedInv, Scan
    PROVE  ScopedInv'
<1>1. /\ pc = "starting" /\ pc' = "running"
      /\ UNCHANGED <<source, rule, made, record, run, touched, executed, failed, discovered>>
      /\ plan'.examined = Examined(run) /\ plan'.filter = Selected(run)
      /\ plan'.injected = Injected(run)
    BY DEF Scan, disk
<1>2. executed = {} /\ failed = {} BY <1>1 DEF MarksKept, ScopedInv
<1>3. /\ Parsed(run)' = Parsed(run) /\ Examined(run)' = Examined(run)
    BY <1>1 DEF Parsed, InScope, Examined, Crossing, Upstream
<1>4. MayRun(run) /\ RecordIsWhole BY DEF ScopedInv
<1>5. PICK o : o = run OBVIOUS
<1>6. /\ Injected(o) = {} /\ \A c \in Selected(o), d \in Parsed(o) : c \in Reads[d] => d \in Selected(o)
      /\ \A c \in Parsed(o) \ Selected(o) :
            /\ record.saved /\ record.rule[c] = rule[c]
            /\ \A n \in Near(c) : n \notin Selected(o) /\ Recorded(n)
    BY <1>4, <1>5, PlainRuns, PlainSelects
<1>7. \A n : Recorded(n)' = Recorded(n) BY <1>1 DEF Recorded, ContentOf
<1>8. \A c \in Parsed(run) : c \notin plan'.filter => Spared(c)'
    BY <1>1, <1>5, <1>6, <1>7 DEF Spared, Near
<1>9. ScopedPlan' BY <1>1, <1>3, <1>5, <1>6, <1>8 DEF ScopedPlan
<1>10. ScopedProgress' BY <1>1, <1>2 DEF ScopedProgress
<1>11. QED BY <1>1, <1>4, <1>9, <1>10, WholeRecordStands DEF ScopedInv, MayRun

\* What a command made stands while none of its inputs moves.
LEMMA ResultStands ==
    ASSUME TypeOK, TypeOK', NothingIncluded, NEW c \in Cmd, rule' = rule,
           \A n \in Reads[c] : ContentOf(n)' = ContentOf(n)
    PROVE  Result(c)' = Result(c)
<1>1. Opened(c) = Reads[c] BY OpensWhatItReads
<1>2. Opened(c)' = Reads[c]
    <2>1. \A s \in Reads[c] \cap Source : Includes[s][source'[s]] = {}
        BY DEF TypeOK, NothingIncluded
    <2>2. Included(c)' = {} BY <2>1 DEF Included
    <2>3. QED BY <2>2 DEF Opened
<1>3. {ContentOf(n)' : n \in Reads[c]} = {ContentOf(n) : n \in Reads[c]} OBVIOUS
<1>4. Result(c) = {<<c, rule[c]>>} \cup UNION {ContentOf(n) : n \in Reads[c]}
    BY <1>1 DEF Result
<1>5. Result(c)' = {<<c, rule[c]>>} \cup UNION {ContentOf(n)' : n \in Reads[c]}
    BY <1>2 DEF Result
<1>6. QED BY <1>3, <1>4, <1>5

\* An edit overtakes those who read the file, and moves no other content.
LEMMA ScopedEdit ==
    ASSUME TypeOK, TypeOK', NothingIncluded, ScopedInv, MarksKept, pc = "running",
           NEW s \in Source, NEW v \in Version, EditSource(s, v)
    PROVE  ScopedInv'
<1>1. UNCHANGED <<rule, made, record, pc, run, plan, executed, failed, discovered>>
    BY DEF EditSource
<1>2. /\ Overtaken \cup {s} \subseteq Overtaken'
      /\ \A n \in Node : n # s => ContentOf(n)' = ContentOf(n)
    BY EditOvertakes
<1>3. /\ Parsed(run)' = Parsed(run) /\ Examined(run)' = Examined(run)
    BY <1>1 DEF Parsed, InScope, Examined, Crossing, Upstream
<1>4. Parsed(run) \subseteq Cmd BY DEF Parsed
<1>5. \A n \in Node : Recorded(n) => n \in Overtaken' \/ Recorded(n)'
    BY <1>1, <1>2 DEF Recorded
<1>6. \A c \in Cmd : Near(c) \subseteq Node BY ReadsAssumption DEF Near, Node
<1>7. \A c \in Parsed(run) : Spared(c) => Spared(c)'
    BY <1>1, <1>2, <1>4, <1>5, <1>6 DEF Spared, Near
<1>8. ScopedPlan' BY <1>1, <1>3, <1>7 DEF ScopedInv, ScopedPlan
<1>9. ASSUME NEW c \in executed PROVE (Reads[c] \cap Overtaken # {})' \/ (made[c] = Result(c))'
    <2>1. c \in Cmd BY DEF TypeOK
    <2>2. CASE s \in Reads[c] BY <2>2, <1>2
    <2>3. CASE s \notin Reads[c]
        <3>1. \A n \in Reads[c] : ContentOf(n)' = ContentOf(n)
            BY <2>1, <2>3, <1>2, <1>6 DEF Near
        <3>2. Result(c)' = Result(c) BY <3>1, <2>1, <1>1, ResultStands
        <3>3. Reads[c] \cap Overtaken # {} \/ made[c] = Result(c)
            BY DEF ScopedInv, ScopedProgress
        <3>4. QED BY <3>2, <3>3, <1>1, <1>2
    <2>4. QED BY <2>2, <2>3
<1>10. ScopedProgress' BY <1>1, <1>9 DEF ScopedInv, ScopedProgress
<1>11. QED BY <1>1, <1>8, <1>10, WholeRecordStands DEF ScopedInv, MayRun

\* A command runs, to success or not: those that ran before it do not read what it
\* writes, for they would have waited.
LEMMA ScopedCommand ==
    ASSUME TypeOK, TypeOK', NothingIncluded, MarksKept, ScopedInv, NEW c \in Cmd,
           CommandSucceeds(c) \/ CommandFails(c)
    PROVE  ScopedInv'
<1>1. /\ pc = "running" /\ c \in plan.filter \ (executed \cup failed)
      /\ UNCHANGED <<source, rule, record, pc, run, touched, plan>>
      /\ Needs(c) \subseteq executed
    BY DEF CommandSucceeds, CommandFails, Ready
<1>2. ScopedPlan /\ ScopedProgress BY <1>1 DEF ScopedInv
<1>3. /\ \A n \in Node : n # c => ContentOf(n)' = ContentOf(n)
      /\ \A d \in Cmd : d # c => made'[d] = made[d]
    BY <1>1, NodeAssumption DEF CommandSucceeds, CommandFails, ContentOf, TypeOK, Node
<1>4. Reads[c] \cap plan.filter \subseteq executed
    <2>1. plan.filter \subseteq Cmd BY DEF TypeOK
    <2>2. QED BY <2>1, <1>1 DEF Needs
<1>5. \A d \in Cmd : Near(d) \subseteq Node BY ReadsAssumption DEF Near, Node
<1>6. \A d \in executed \cup {c} : d \in Cmd /\ c \notin Reads[d]
    BY <1>1, <1>2, <1>4 DEF ScopedProgress, TypeOK
<1>7. \A d \in executed \cup {c} : Result(d)' = Result(d)
    <2>1. TAKE d \in executed \cup {c}
    <2>2. \A n \in Reads[d] : ContentOf(n)' = ContentOf(n) BY <1>3, <1>5, <1>6 DEF Near
    <2>3. QED BY <2>2, <1>1, <1>6, ResultStands
<1>8. Overtaken' = Overtaken BY <1>1 DEF Overtaken
<1>9. /\ Parsed(run)' = Parsed(run) /\ Examined(run)' = Examined(run)
    BY <1>1 DEF Parsed, InScope, Examined, Crossing, Upstream
<1>10. ASSUME NEW d \in Parsed(run), Spared(d) PROVE Spared(d)'
    <2>1. \A n \in Near(d) : n \in Node /\ n # c
        BY <1>1, <1>5, <1>10 DEF Spared, Parsed
    <2>2. \A n \in Near(d) : Recorded(n)' = Recorded(n) BY <2>1, <1>1, <1>3 DEF Recorded
    <2>3. QED BY <2>2, <1>1, <1>8, <1>10 DEF Spared, Near
<1>11. ScopedPlan' BY <1>1, <1>2, <1>9, <1>10 DEF ScopedPlan
<1>12. \A d \in executed : d # c BY <1>1
<1>13. \A d \in executed : Reads[d] \cap Overtaken # {} \/ made'[d] = Result(d)'
    BY <1>2, <1>3, <1>6, <1>7, <1>12 DEF ScopedProgress
<1>14. CASE CommandSucceeds(c)
    <2>1. /\ made'[c] = Result(c) /\ executed' = executed \cup {c} /\ failed' = failed
          /\ discovered'[c] = Included(c) /\ \A d \in Cmd : d # c => discovered'[d] = discovered[d]
        BY <1>14 DEF CommandSucceeds, TypeOK
    <2>2. made'[c] = Result(c)' BY <2>1, <1>7
    <2>3. ScopedProgress'
        BY <2>1, <2>2, <1>1, <1>2, <1>4, <1>8, <1>13 DEF ScopedProgress
    <2>4. \A d \in Cmd : discovered'[d] = {}
        BY <2>1, OpensWhatItReads DEF ScopedInv
    <2>5. QED BY <2>3, <2>4, <1>1, <1>11, WholeRecordStands DEF ScopedInv, MayRun
<1>15. CASE CommandFails(c)
    <2>1. executed' = executed /\ failed' = failed \cup {c} /\ discovered' = discovered
        BY <1>15 DEF CommandFails
    <2>2. ScopedProgress' BY <2>1, <1>1, <1>2, <1>8, <1>13 DEF ScopedProgress
    <2>3. QED BY <2>1, <2>2, <1>1, <1>11, WholeRecordStands DEF ScopedInv, MayRun
<1>16. QED BY <1>14, <1>15

\* The next record: what was parsed is recorded as seen, all else as it was.
LEMMA ScopedRecorded ==
    ASSUME TypeOK, ScopedInv, pc = "running"
    PROVE  /\ GraphFiles \subseteq Node /\ GraphFiles \cap record.files \subseteq plan.examined
           /\ Parsed(run) \subseteq Cmd /\ \A c \in Parsed(run) : Near(c) \subseteq GraphFiles
           /\ Parsed(run) \cup Merged = Cmd
           /\ NewRecord.files = AllFiles
           /\ \A n \in AllFiles : NewHash(n) = IF n \in GraphFiles THEN Observed(n) ELSE record.hash[n]
           /\ \A c \in Cmd : NewRecord.deps[c] = {}
<1>1. /\ MayRun(run) /\ RecordIsWhole /\ ScopedPlan /\ \A c \in Cmd : discovered[c] = {}
      /\ executed \subseteq Cmd /\ touched \subseteq Source
    BY DEF ScopedInv, TypeOK
<1>2. PICK o : o = run OBVIOUS
<1>3. /\ Parsed(o) \subseteq Cmd /\ \A c \in Parsed(o) : Near(c) \subseteq GraphNodes(o)
      /\ GraphNodes(o) \in SUBSET Node /\ GraphNodes(o) \subseteq AllFiles
      /\ record.saved => GraphNodes(o) \subseteq Examined(o)
      /\ ~record.saved => Parsed(o) = Cmd
    BY <1>1, <1>2, PlainRuns
<1>4. GraphFiles = GraphNodes(o) /\ plan.examined = Examined(o)
    BY <1>1, <1>2 DEF GraphFiles, ScopedPlan
<1>5. /\ ~record.saved => record.files = {} /\ record.cmds = {}
      /\ record.saved => record.files = AllFiles /\ record.cmds = Cmd
    BY <1>1 DEF RecordIsWhole
<1>6. GraphFiles \cap record.files \subseteq plan.examined BY <1>3, <1>4, <1>5
<1>7. Parsed(run) \cup Merged = Cmd BY <1>2, <1>3, <1>5 DEF Merged
<1>8. FoundFiles = {} /\ KeptFiles = {}
    <2>1. \A c \in executed : discovered[c] = {} BY <1>1
    <2>2. record.cmds \subseteq Cmd BY DEF TypeOK
    <2>3. \A c \in record.cmds \ executed : record.deps[c] = {} BY <2>2, <1>1 DEF RecordIsWhole
    <2>4. QED BY <2>1, <2>3 DEF FoundFiles, KeptFiles
<1>9. MergedFiles = AllFiles \ GraphFiles
    <2>1. MergedFiles = (Merged \cup UNION {Reads[c] : c \in Merged}) \ GraphFiles
        BY <1>8 DEF MergedFiles
    <2>2. Merged \cup UNION {Reads[c] : c \in Merged} \subseteq AllFiles
        BY <1>7 DEF AllFiles
    <2>3. ASSUME NEW n \in AllFiles \ GraphFiles
          PROVE  n \in Merged \cup UNION {Reads[c] : c \in Merged}
        <3>1. PICK c \in Cmd : n \in Near(c) BY DEF AllFiles, Near
        <3>2. c \notin Parsed(run) BY <3>1, <1>2, <1>3, <1>4
        <3>3. QED BY <3>1, <3>2, <1>7 DEF Near
    <2>4. QED BY <2>1, <2>2, <2>3
<1>10. NewRecord.files = AllFiles
    <2>1. NewRecord.files = GraphFiles \cup FoundFiles \cup MergedFiles \cup KeptFiles
        BY DEF NewRecord
    <2>2. QED BY <2>1, <1>3, <1>4, <1>8, <1>9
<1>11. ASSUME NEW n \in AllFiles
       PROVE  NewHash(n) = IF n \in GraphFiles THEN Observed(n) ELSE record.hash[n]
    <2>1. CASE n \in GraphFiles /\ (n \in Parsed(run) \/ n \in Source)
        <3>1. ~Carried(n) BY <2>1, <1>6 DEF Carried
        <3>2. n \in GraphFiles \cap Parsed(run) \/ n \in GraphFiles \cap Source BY <2>1
        <3>3. n \notin GraphFiles \ (Parsed(run) \cup Source) BY <2>1
        <3>4. n \notin FoundFiles \cup KeptFiles /\ n \notin MergedFiles BY <2>1, <1>8, <1>9
        <3>5. NewHash(n) = Observed(n) BY <3>1, <3>2, <3>3, <3>4 DEF NewHash
        <3>6. QED BY <2>1, <3>5
    <2>2. CASE n \in GraphFiles /\ n \notin Parsed(run) \cup Source
        <3>1. n \in GraphFiles \ (Parsed(run) \cup Source) BY <2>2
        <3>2. n \notin GraphFiles \cap Parsed(run) /\ n \notin GraphFiles \cap Source BY <2>2
        <3>3. n \notin FoundFiles \cup KeptFiles /\ n \notin MergedFiles BY <2>2, <1>8, <1>9
        <3>4. NewHash(n) = ContentOf(n) BY <3>1, <3>2, <3>3 DEF NewHash
        <3>5. n \notin touched BY <2>2, <1>1
        <3>6. QED BY <2>2, <3>4, <3>5 DEF Observed
    <2>3. CASE n \notin GraphFiles
        <3>1. n \in MergedFiles BY <2>3, <1>9
        <3>2. QED BY <2>3, <3>1, <1>8 DEF NewHash, MergedHash
    <2>4. QED BY <2>1, <2>2, <2>3
<1>12. \A c \in Cmd : NewRecord.deps[c] = {}
    BY <1>1 DEF NewRecord, RecordIsWhole
<1>13. QED BY <1>2, <1>3, <1>4, <1>6, <1>7, <1>10, <1>11, <1>12

\* The next record is true: of what ran by its success, of what was left out because
\* it was found as recorded, and of what was not parsed because a change marks it.
LEMMA ScopedFinish ==
    ASSUME TypeOK, NothingIncluded, MarksKept, ScopedInv, Finish
    PROVE  ScopedInv'
<1>1. /\ pc = "running" /\ pc' = "idle" /\ record' = NewRecord /\ run' = FullRun
      /\ failed' = {} /\ \A c \in Cmd : discovered'[c] = {}
      /\ ScopedPlan /\ ScopedProgress /\ RecordIsWhole
    BY DEF Finish, Exit, ScopedInv
<1>2. /\ GraphFiles \subseteq Node /\ Parsed(run) \cup Merged = Cmd
      /\ \A c \in Parsed(run) : Near(c) \subseteq GraphFiles
      /\ NewRecord.files = AllFiles
      /\ \A n \in AllFiles : NewHash(n) = IF n \in GraphFiles THEN Observed(n) ELSE record.hash[n]
      /\ \A c \in Cmd : NewRecord.deps[c] = {}
    BY <1>1, ScopedRecorded
<1>3. AllFiles \subseteq Node /\ \A c \in Cmd : Near(c) \subseteq AllFiles
    BY ReadsAssumption DEF AllFiles, Near, Node
<1>4. /\ record'.saved /\ record'.cmds = record.cmds \cup Parsed(run) /\ record'.files = AllFiles
      /\ record'.must_rerun = Owed
      /\ \A n \in Node : record'.hash[n] = NewHash(n)
      /\ \A c \in Cmd : record'.deps[c] = {}
      /\ \A c \in Cmd : record'.rule[c] = IF c \in Parsed(run) THEN rule[c] ELSE record.rule[c]
    BY <1>1, <1>2 DEF NewRecord
<1>5. record'.cmds = Cmd
    <2>1. record.cmds \subseteq Cmd BY DEF TypeOK
    <2>2. QED BY <2>1, <1>2, <1>4 DEF Merged
<1>6. ASSUME NEW c \in Cmd, Trusted(c, record') PROVE record'.hash[c] = Stated(c, record')
    <2>1. c \notin Owed /\ \A n \in Near(c) : n \in AllFiles /\ n \in Node /\ NewHash(n) # {}
        BY <1>3, <1>4, <1>6 DEF Trusted
    <2>2. CASE c \in Parsed(run)
        <3>1. \A n \in Near(c) : NewHash(n) = Observed(n) BY <2>1, <2>2, <1>2
        <3>2. \A n \in Near(c) : n \notin Overtaken /\ NewHash(n) = ContentOf(n)
            BY <2>1, <3>1 DEF Observed, Overtaken
        <3>3. c \notin plan.must_rerun \ executed BY <2>1 DEF Owed
        <3>4. {record'.hash[n] : n \in Reads[c]} = {ContentOf(n) : n \in Reads[c]}
            BY <2>1, <3>2, <1>4 DEF Near
        <3>5. Stated(c, record') = {<<c, rule[c]>>} \cup UNION {ContentOf(n) : n \in Reads[c]}
            BY <3>4, <2>2, <1>4 DEF Stated
        <3>6. record'.hash[c] = ContentOf(c) BY <2>1, <3>2, <1>4 DEF Near
        <3>7. CASE c \in executed
            <4>1. made[c] = Result(c) BY <3>2, <3>7, <1>1 DEF ScopedProgress, Near
            <4>2. Result(c) = {<<c, rule[c]>>} \cup UNION {ContentOf(n) : n \in Reads[c]}
                BY OpensWhatItReads DEF Result
            <4>3. ContentOf(c) = made[c] BY NodeAssumption DEF ContentOf
            <4>4. QED BY <4>1, <4>2, <4>3, <3>5, <3>6
        <3>8. CASE c \notin executed
            <4>1. c \notin plan.filter /\ c \notin record.must_rerun
                BY <3>3, <3>8, <2>2, <1>1 DEF MarksKept
            <4>2. Spared(c) BY <4>1, <2>2, <1>1 DEF ScopedPlan
            <4>3. \A n \in Near(c) : Recorded(n) BY <4>2, <3>2 DEF Spared
            <4>4. record.saved /\ record.rule[c] = rule[c] BY <4>2 DEF Spared
            <4>5. Trusted(c, record) BY <4>1, <4>3 DEF Trusted, Recorded
            <4>6. record.hash[c] = Stated(c, record) BY <4>4, <4>5, <1>1 DEF RecordIsWhole
            <4>7. {record.hash[n] : n \in Reads[c]} = {ContentOf(n) : n \in Reads[c]}
                BY <4>3 DEF Near, Recorded
            <4>8. record.hash[c] = ContentOf(c) BY <4>3 DEF Near, Recorded
            <4>9. QED BY <4>4, <4>6, <4>7, <4>8, <3>5, <3>6 DEF Stated
        <3>9. QED BY <3>7, <3>8
    <2>3. CASE c \notin Parsed(run)
        <3>1. c \in Merged BY <2>3, <1>2
        <3>2. record.saved /\ record.files = AllFiles
            BY <3>1, <1>1 DEF Merged, RecordIsWhole
        <3>3. c \notin record.must_rerun /\ ~DependencyChanged(c) BY <2>1, <3>1 DEF Owed
        <3>4. record.deps[c] = {} BY <1>1 DEF RecordIsWhole
        <3>5. \A n \in Near(c) : NewHash(n) = record.hash[n]
            BY <2>1, <3>2, <3>3, <3>4, <1>2 DEF DependencyChanged, Near
        <3>6. Trusted(c, record) BY <2>1, <3>3, <3>5 DEF Trusted
        <3>7. record.hash[c] = Stated(c, record) BY <3>2, <3>6, <1>1 DEF RecordIsWhole
        <3>8. {record'.hash[n] : n \in Reads[c]} = {record.hash[n] : n \in Reads[c]}
            BY <2>1, <3>5, <1>4 DEF Near
        <3>9. record'.hash[c] = record.hash[c] BY <2>1, <3>5, <1>4 DEF Near
        <3>10. QED BY <2>3, <3>7, <3>8, <3>9, <1>4 DEF Stated
    <2>4. QED BY <2>2, <2>3
<1>7. RecordIsWhole' BY <1>4, <1>5, <1>6 DEF RecordIsWhole
<1>8. MayRun(run)' BY <1>1 DEF MayRun, Plain, FullRun
<1>9. QED BY <1>1, <1>7, <1>8 DEF ScopedInv

\* A step that changes nothing.
LEMMA ScopedStutter ==
    ASSUME ScopedInv, UNCHANGED vars PROVE ScopedInv'
<1>1. /\ record' = record /\ run' = run /\ pc' = pc /\ failed' = failed
      /\ rule' = rule /\ source' = source /\ made' = made /\ plan' = plan
      /\ executed' = executed /\ discovered' = discovered /\ touched' = touched
    BY DEF vars, disk, build
<1>2. \A n : ContentOf(n)' = ContentOf(n) BY <1>1 DEF ContentOf
<1>3. \A n : Recorded(n)' = Recorded(n) BY <1>1, <1>2 DEF Recorded
<1>4. Overtaken' = Overtaken BY <1>1 DEF Overtaken
<1>5. \A c : Opened(c)' = Opened(c) BY <1>1 DEF Included, Opened
<1>6. \A c : Result(c)' = Result(c) BY <1>1, <1>2, <1>5 DEF Result
<1>7. \A c : Spared(c)' = Spared(c) BY <1>1, <1>3, <1>4 DEF Spared
<1>8. Parsed(run)' = Parsed(run) /\ Examined(run)' = Examined(run)
    BY <1>1 DEF Parsed, InScope, Examined, Crossing, Upstream
<1>9. ScopedPlan => ScopedPlan' BY <1>1, <1>7, <1>8 DEF ScopedPlan
<1>10. ScopedProgress => ScopedProgress' BY <1>1, <1>4, <1>6 DEF ScopedProgress
<1>11. QED BY <1>1, <1>9, <1>10, WholeRecordStands DEF ScopedInv, MayRun

\* Whole builds first is still a way to use the program.
LEMMA FullFirstIsAllowed == FullFirstSpec => Spec
<1>1. [FullFirst]_vars => [Next]_vars BY DEF FullFirst, Next
<1>2. QED BY <1>1, PTL DEF FullFirstSpec, Spec

(***************************************************************************)
(* ScopedInv is an invariant of builds of the whole and of directories.    *)
(***************************************************************************)
THEOREM ScopedInvariance ==
    ASSUME NothingIncluded, \A o \in Runs : Plain(o) PROVE FullFirstSpec => []ScopedInv
<1>1. Init => ScopedInv
    BY DEF Init, ScopedInv, NoRecord, FullRun, MayRun, Plain, RecordIsWhole
<1>2. TypeOK /\ TypeOK' /\ MarksKept /\ ScopedInv /\ [FullFirst]_vars => ScopedInv'
    <2> SUFFICES ASSUME TypeOK, TypeOK', MarksKept, ScopedInv, [FullFirst]_vars PROVE ScopedInv'
        OBVIOUS
    <2>1. CASE \E s \in Source, v \in Version : EditSource(s, v)
        BY <2>1, ScopedEdit, ScopedQuiet
    <2>2. CASE \/ Refuse \/ UpToDate \/ Crash
               \/ \E o \in Runs : Allowed(o) /\ Start(o)
               \/ \E c \in Cmd, v \in Version : EditRule(c, v)
        BY <2>2, ScopedQuiet
    <2>3. CASE Scan BY <2>3, ScopedScan
    <2>4. CASE \E c \in Cmd : CommandSucceeds(c) \/ CommandFails(c) BY <2>4, ScopedCommand
    <2>5. CASE Finish BY <2>5, ScopedFinish
    <2>6. CASE UNCHANGED vars BY <2>6, ScopedStutter
    <2>7. QED BY <2>1, <2>2, <2>3, <2>4, <2>5, <2>6 DEF FullFirst, UserStep, BuildStep
<1>3. QED BY <1>1, <1>2, FullFirstIsAllowed, TypeCorrect, MarksInvariance, PTL DEF FullFirstSpec

\* What the next full build would leave out is fresh, and trusted by the record.
LEMMA SparedAreTrusted ==
    ASSUME TypeOK, NothingIncluded, ScopedInv PROVE UnselectedTrusted
<1> SUFFICES ASSUME NEW c \in Cmd, c \notin Selected(FullRun)
             PROVE  ~Stale(c) /\ \A n \in Leads(c) : record.hash[n] # {}
    BY DEF UnselectedTrusted
<1>1. RecordIsWhole BY DEF ScopedInv
<1>2. Parsed(FullRun) = Cmd BY DEF Parsed, FullRun
<1>3. PICK o : o = FullRun OBVIOUS
<1>4. /\ record.saved /\ record.rule[c] = rule[c]
      /\ \A n \in Near(c) : n \notin Selected(FullRun) /\ Recorded(n)
    BY <1>1, <1>2, <1>3, FullRunIsPlain, PlainSelects
<1>5. c \notin record.must_rerun
    <2>1. c \notin Affected(FullRun) BY <1>1, <1>3, FullRunIsPlain, PlainRuns, <1>2
    <2>2. Whole(FullRun) BY DEF Whole, FullRun
    <2>3. c \notin Changed(FullRun)
        BY <2>1, <2>2, <1>3, AffectedGrows, WholeRuns
    <2>4. QED BY <2>3, <1>2 DEF Changed, Unverified
<1>6. record.hash[c] = Stated(c, record)
    BY <1>1, <1>4, <1>5 DEF RecordIsWhole, Trusted, Recorded
<1>7. {record.hash[n] : n \in Reads[c]} = {ContentOf(n) : n \in Reads[c]}
    BY <1>4 DEF Near, Recorded
<1>8. record.hash[c] = made[c] BY <1>4, NodeAssumption DEF Near, Recorded, ContentOf
<1>9. Result(c) = {<<c, rule[c]>>} \cup UNION {ContentOf(n) : n \in Reads[c]}
    BY OpensWhatItReads DEF Result
<1>10. made[c] = Result(c) BY <1>4, <1>6, <1>7, <1>8, <1>9 DEF Stated
<1>11. Leads(c) = Near(c) BY <1>1 DEF Leads, Near, RecordIsWhole
<1>12. QED BY <1>4, <1>10, <1>11 DEF Stale, Recorded

(***************************************************************************)
(* Builds of directories lose no change either: a stale output, inside the *)
(* scopes that were built or outside them, is seen by the next full build  *)
(* (merge_out_of_scope_commands, carry_for).                               *)
(***************************************************************************)
THEOREM ScopesForgetNothing ==
    ASSUME NothingIncluded, \A o \in Runs : Plain(o) PROVE FullFirstSpec => []NothingForgotten
<1>1. TypeOK /\ ScopedInv => NothingForgotten
    BY SparedAreTrusted DEF UnselectedTrusted, NothingForgotten
<1>2. QED BY <1>1, FullFirstIsAllowed, TypeCorrect, ScopedInvariance, PTL

(***************************************************************************)
(* What a build did not examine keeps its recorded state (carry_for,       *)
(* merge_out_of_scope_commands).                                           *)
(***************************************************************************)
THEOREM UnexaminedStays ==
    ASSUME NothingIncluded, \A o \in Runs : Plain(o) PROVE FullFirstSpec => UnexaminedKept
<1> DEFINE Kept == record' # record =>
            \A n \in (record.files \cap record'.files) \ (plan.examined \cup executed) :
                record'.hash[n] = record.hash[n]
<1>1. TypeOK /\ ScopedInv /\ [Next]_vars => [Kept]_vars
    <2> SUFFICES ASSUME TypeOK, ScopedInv, [Next]_vars, record' # record,
                        NEW n \in (record.files \cap record'.files) \ (plan.examined \cup executed)
                 PROVE  record'.hash[n] = record.hash[n]
        OBVIOUS
    <2>1. pc = "running" /\ record' = NewRecord BY OnlyFinishRecords DEF Finish
    <2>2. record'.files = AllFiles /\ n \in AllFiles /\ n \notin GraphFiles
          /\ NewHash(n) = record.hash[n]
        BY <2>1, ScopedRecorded
    <2>3. n \in Node BY <2>2, ReadsAssumption DEF AllFiles, Node
    <2>4. QED BY <2>1, <2>2, <2>3 DEF NewRecord
<1>2. QED BY <1>1, FullFirstIsAllowed, TypeCorrect, ScopedInvariance, PTL DEF Spec, UnexaminedKept

(***************************************************************************)
(* A command whose input was edited under it, in a build of a directory,   *)
(* runs again in the next build of the whole (recorded_content).           *)
(***************************************************************************)
THEOREM ScopesSeeMidBuildEdits ==
    ASSUME NothingIncluded, \A o \in Runs : Plain(o) PROVE FullFirstSpec => MidBuildEditsSeen
<1> DEFINE Seen == record' # record =>
            \A c \in executed :
                (Reads[c] \cup discovered[c]) \cap Overtaken # {}
                    => c \in Selected(FullRun)'
<1>1. TypeOK /\ ScopedInv => UnselectedTrusted BY SparedAreTrusted
<1>2. TypeOK /\ MarksKept /\ ScopedInv /\ UnselectedTrusted' /\ [Next]_vars => [Seen]_vars
    <2> SUFFICES ASSUME TypeOK, MarksKept, ScopedInv, UnselectedTrusted', [Next]_vars,
                        record' # record, NEW c \in executed,
                        (Reads[c] \cup discovered[c]) \cap Overtaken # {}
                 PROVE  c \in Selected(FullRun)'
        OBVIOUS
    <2>1. pc = "running" /\ record' = NewRecord BY OnlyFinishRecords DEF Finish
    <2>2. c \in Cmd /\ c \in Parsed(run) BY <2>1 DEF TypeOK, MarksKept
    <2>3. PICK s \in Reads[c] \cap Overtaken : TRUE BY <2>2 DEF ScopedInv
    <2>4. s \in GraphFiles /\ s \in AllFiles /\ s \in Node
        BY <2>1, <2>2, ScopedRecorded DEF Near, AllFiles
    <2>5. NewHash(s) = Observed(s) BY <2>1, <2>4, ScopedRecorded
    <2>6. record'.hash[s] = {} BY <2>1, <2>3, <2>4, <2>5 DEF NewRecord, Observed, Overtaken
    <2>7. s \in Leads(c)' BY <2>3 DEF Leads
    <2>8. QED BY <2>2, <2>6, <2>7 DEF UnselectedTrusted
<1>3. QED BY <1>1, <1>2, FullFirstIsAllowed, TypeCorrect, MarksInvariance, ScopedInvariance, PTL
      DEF Spec, MidBuildEditsSeen
=============================================================================
