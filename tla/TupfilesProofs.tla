--------------------------- MODULE TupfilesProofs ---------------------------
(***************************************************************************)
(* What a parse promises, proved for any directories, order of a pass and  *)
(* limit of rounds, and all projects.                                      *)
(***************************************************************************)
EXTENDS TupfilesProperties, FiniteSetTheorems, TLAPS

-----------------------------------------------------------------------------
(* Sequences that grow and shrink at their end. *)

LEMMA EmptySequence == IsSequence(<<>>) /\ Len(<<>>) = 0
BY DEF IsSequence

LEMMA Appended ==
    ASSUME NEW s, IsSequence(s), NEW e
    PROVE  /\ IsSequence(Append(s, e))
           /\ DOMAIN s = 1..Len(s) /\ Len(s) \in Nat
           /\ DOMAIN Append(s, e) = DOMAIN s \cup {Len(s) + 1}
           /\ Len(Append(s, e)) = Len(s) + 1
           /\ Append(s, e)[Len(s) + 1] = e
           /\ \A i \in DOMAIN s : Append(s, e)[i] = s[i] /\ i # Len(s) + 1
<1> DEFINE S == Range(s) \cup {e}
<1>1. s \in Seq(Range(s)) BY DEF IsSequence
<1>2. s \in Seq(S) BY <1>1
<1> HIDE DEF S
<1>3. e \in S BY DEF S
<1>4. /\ Append(s, e) \in Seq(S) /\ Len(Append(s, e)) = Len(s) + 1 /\ Len(s) \in Nat
      /\ \A i \in 1..Len(s) : Append(s, e)[i] = s[i]
      /\ Append(s, e)[Len(s) + 1] = e
    BY <1>2, <1>3
<1>5. DOMAIN s = 1..Len(s) /\ DOMAIN Append(s, e) = 1..(Len(s) + 1) BY <1>2, <1>4
<1>6. \A t : t \in Seq(S) => t \in Seq(Range(t)) BY DEF Range
<1>7. IsSequence(Append(s, e)) BY <1>4, <1>6 DEF IsSequence
<1>8. QED BY <1>4, <1>5, <1>7

\* The sequence with its last element replaced, and without it.
LEMMA Replaced ==
    ASSUME NEW s, IsSequence(s), s # <<>>, NEW e
    PROVE  LET t == [s EXCEPT ![Len(s)] = e] IN
           /\ IsSequence(t)
           /\ DOMAIN s = 1..Len(s) /\ Len(s) \in Nat \ {0} /\ Len(t) = Len(s)
           /\ DOMAIN t = DOMAIN s
           /\ t[Len(s)] = e
           /\ \A i \in DOMAIN s : i # Len(s) => t[i] = s[i]
<1> DEFINE t == [s EXCEPT ![Len(s)] = e]
           S == Range(s) \cup {e}
<1>1. s \in Seq(Range(s)) BY DEF IsSequence
<1>2. s \in Seq(S) BY <1>1
<1> HIDE DEF S
<1>3. e \in S BY DEF S
<1>4. Len(s) \in Nat \ {0} /\ DOMAIN s = 1..Len(s) BY <1>2
<1>5. t \in Seq(S) BY <1>2, <1>3, <1>4
<1>6. Len(t) = Len(s) /\ DOMAIN t = DOMAIN s /\ t[Len(s)] = e
    BY <1>2, <1>4, <1>5
<1>7. \A i \in DOMAIN s : i # Len(s) => t[i] = s[i] BY <1>4
<1>8. \A u : u \in Seq(S) => u \in Seq(Range(u)) BY DEF Range
<1>9. IsSequence(t) BY <1>5, <1>8 DEF IsSequence
<1>10. QED BY <1>4, <1>6, <1>7, <1>9

LEMMA Shortened ==
    ASSUME NEW s, IsSequence(s), s # <<>>
    PROVE  /\ IsSequence(Front(s))
           /\ DOMAIN s = 1..Len(s) /\ Len(s) \in Nat \ {0}
           /\ DOMAIN Front(s) = 1..(Len(s) - 1) /\ Len(Front(s)) = Len(s) - 1
           /\ \A i \in 1..(Len(s) - 1) : Front(s)[i] = s[i]
           /\ Last(s) = s[Len(s)]
<1> DEFINE S == Range(s)
<1>1. s \in Seq(S) BY DEF IsSequence
<1> HIDE DEF S
<1>2. Len(s) \in Nat \ {0} /\ DOMAIN s = 1..Len(s) BY <1>1
<1>3. /\ Front(s) \in Seq(S) /\ Len(Front(s)) = Len(s) - 1
      /\ \A i \in 1..(Len(s) - 1) : Front(s)[i] = s[i]
    BY <1>1, <1>2 DEF Front
<1>4. DOMAIN Front(s) = 1..(Len(s) - 1) BY <1>3
<1>5. \A u : u \in Seq(S) => u \in Seq(Range(u)) BY DEF Range
<1>6. QED BY <1>2, <1>3, <1>4, <1>5 DEF IsSequence, Last

-----------------------------------------------------------------------------
(***************************************************************************)
(* The invariant of the graph of a round, of project p: no two rules claim *)
(* one file unless their guards exclude each other, every output of a rule *)
(* with a group is a member of it, and every input is bound to the place   *)
(* of a generated file unless there is a source.  Its commands come from   *)
(* the directories D.                                                      *)
(***************************************************************************)
GraphFields == {"nodes", "cmds", "decls", "globs", "absent", "members"}
CommandFields == {"dir", "at", "cmd", "guards", "files", "ins", "outs", "groups", "order"}

GraphShape(g) ==
    /\ DOMAIN g = GraphFields
    /\ IsSequence(g.cmds) /\ IsSequence(g.decls)
    /\ \A i \in DOMAIN g.cmds : DOMAIN g.cmds[i] = CommandFields

OwnersApart(g) ==
    /\ \A i, j \in DOMAIN g.cmds : \A n \in g.cmds[i].outs \cap g.cmds[j].outs :
          i # j => Exclusive(g.cmds[i].guards, g.cmds[j].guards)
    /\ \A i, j \in DOMAIN g.decls :
          i # j /\ g.decls[i].out = g.decls[j].out
            => Exclusive(g.decls[i].guards, g.decls[j].guards)
    /\ \A i \in DOMAIN g.cmds : \A j \in DOMAIN g.decls :
          g.decls[j].out \in g.cmds[i].outs
            => Exclusive(g.cmds[i].guards, g.decls[j].guards)

GroupOf(p, c) == p.tup[c.dir][c.at].group

MembersListed(p, g) ==
    \A i \in DOMAIN g.cmds :
        /\ NoGroup \notin g.cmds[i].groups
        /\ GroupOf(p, g.cmds[i]) # NoGroup
            => g.cmds[i].outs \subseteq MembersOf(g, GroupOf(p, g.cmds[i]))

BuiltNode(p, f) == <<IF p.variant THEN "build" ELSE "tree", f>>

SourcesAreThere(p, g) ==
    p.variant => \A f : <<"source", f>> \in DOMAIN g.nodes => f \in p.disk

InputsBuilt(p, g) ==
    \A i \in DOMAIN g.cmds : \A f \in g.cmds[i].files :
        BuiltNode(p, f) \in g.cmds[i].ins \/ (p.variant /\ f \in p.disk)

MadeIn(g, D) == \A i \in DOMAIN g.cmds : g.cmds[i].dir \in D

GraphInv(p, g, D) ==
    /\ GraphShape(g) /\ OwnersApart(g) /\ MembersListed(p, g)
    /\ SourcesAreThere(p, g) /\ InputsBuilt(p, g) /\ MadeIn(g, D)

LEMMA EmptyGraphKeeps == ASSUME NEW p, NEW D PROVE GraphInv(p, EmptyGraph, D)
<1>1. /\ DOMAIN EmptyGraph = GraphFields
      /\ EmptyGraph.cmds = <<>> /\ EmptyGraph.decls = <<>> /\ EmptyGraph.nodes = <<>>
      /\ DOMAIN <<>> = {}
    BY DEF EmptyGraph, GraphFields
<1>2. GraphShape(EmptyGraph) BY <1>1, EmptySequence DEF GraphShape
<1>3. OwnersApart(EmptyGraph) BY <1>1 DEF OwnersApart
<1>4. MembersListed(p, EmptyGraph) BY <1>1 DEF MembersListed
<1>5. SourcesAreThere(p, EmptyGraph) BY <1>1 DEF SourcesAreThere
<1>6. InputsBuilt(p, EmptyGraph) /\ MadeIn(EmptyGraph, D) BY <1>1 DEF InputsBuilt, MadeIn
<1>7. QED BY <1>2, <1>3, <1>4, <1>5, <1>6 DEF GraphInv

LEMMA Wider ==
    ASSUME NEW p, NEW g, NEW D, NEW E, D \subseteq E, GraphInv(p, g, D)
    PROVE  GraphInv(p, g, E)
BY DEF GraphInv, MadeIn

LEMMA ExclusiveBothWays ==
    ASSUME NEW a, NEW b, Exclusive(a, b) PROVE Exclusive(b, a)
BY DEF Exclusive

\* Guards that exclude each other do not hold in one configuration.
LEMMA ExclusiveDoNotHold ==
    ASSUME NEW a, NEW b, NEW config, Exclusive(a, b)
    PROVE  ~(Holds(a, config) /\ Holds(b, config))
BY DEF Exclusive, Holds

-----------------------------------------------------------------------------
(* What becomes of the graph when an operand is bound or a node is made.   *)

\* h has more nodes than g, none of them a source that is not there.
MoreNodes(p, g, h) ==
    /\ DOMAIN h = GraphFields
    /\ h.cmds = g.cmds /\ h.decls = g.decls /\ h.members = g.members
    /\ SourcesAreThere(p, h)

LEMMA MoreNodesKeep ==
    ASSUME NEW p, NEW g, NEW h, NEW D, GraphInv(p, g, D), MoreNodes(p, g, h)
    PROVE  GraphInv(p, h, D)
BY DEF GraphInv, MoreNodes, GraphShape, OwnersApart, MembersListed, MembersOf, InputsBuilt, MadeIn

LEMMA NodesOfBindAll ==
    ASSUME NEW g, DOMAIN g = GraphFields, NEW fs
    PROVE  /\ DOMAIN BindAll(g, fs) = GraphFields
           /\ BindAll(g, fs).cmds = g.cmds /\ BindAll(g, fs).decls = g.decls
           /\ BindAll(g, fs).members = g.members
           /\ DOMAIN BindAll(g, fs).nodes = DOMAIN g.nodes \cup Bound(g, fs)
<1> DEFINE made == {Resolve(g, f) : f \in fs}
           new == [n \in {r[1] : r \in made} |-> (CHOOSE r \in made : r[1] = n)[2]]
<1>1. BindAll(g, fs) = [g EXCEPT !.nodes = Extended(@, new)] BY DEF BindAll
<1>2. DOMAIN new = Bound(g, fs) BY DEF Bound
<1> HIDE DEF new
<1>3. DOMAIN Extended(g.nodes, new) = DOMAIN g.nodes \cup Bound(g, fs) BY <1>2 DEF Extended
<1>4. QED BY <1>1, <1>3 DEF GraphFields

\* The node of an operand is where a rule would make it, or a source that is there.
LEMMA ResolvedTo ==
    ASSUME NEW g, SourcesAreThere(project, g), NEW f
    PROVE  \/ Resolve(g, f)[1] = BuiltNode(project, f)
           \/ project.variant /\ f \in project.disk /\ Resolve(g, f)[1] = <<"source", f>>
<1>1. Node("build", f) = BuiltNode(project, f) BY DEF Node, BuiltNode
<1>2. \/ Resolve(g, f)[1] = Node("build", f)
      \/ /\ Resolve(g, f)[1] = Node("source", f)
         /\ Node("source", f) \in DOMAIN g.nodes \/ OnDisk(f)
    BY DEF Resolve
<1>3. CASE project.variant
    <2>1. Node("source", f) = <<"source", f>> BY <1>3 DEF Node
    <2>2. QED BY <1>1, <1>2, <1>3, <2>1 DEF SourcesAreThere, OnDisk
<1>4. CASE ~project.variant
    <2>1. Node("source", f) = Node("build", f) BY <1>4 DEF Node
    <2>2. QED BY <1>1, <1>2, <2>1
<1>5. QED BY <1>3, <1>4

LEMMA BindAllKeeps ==
    ASSUME NEW g, NEW fs, NEW D, GraphInv(project, g, D)
    PROVE  /\ MoreNodes(project, g, BindAll(g, fs))
           /\ GraphInv(project, BindAll(g, fs), D)
<1> DEFINE h == BindAll(g, fs)
<1>1. DOMAIN g = GraphFields /\ SourcesAreThere(project, g) BY DEF GraphInv, GraphShape
<1>2. /\ DOMAIN h = GraphFields /\ h.cmds = g.cmds /\ h.decls = g.decls
      /\ h.members = g.members /\ DOMAIN h.nodes = DOMAIN g.nodes \cup Bound(g, fs)
    BY <1>1, NodesOfBindAll
<1>3. ASSUME project.variant, NEW f, <<"source", f>> \in DOMAIN h.nodes
      PROVE  f \in project.disk
    <2>1. CASE <<"source", f>> \in DOMAIN g.nodes BY <2>1, <1>1, <1>3 DEF SourcesAreThere
    <2>2. CASE <<"source", f>> \in Bound(g, fs)
        <3>1. PICK e \in fs : <<"source", f>> = Resolve(g, e)[1] BY <2>2 DEF Bound
        <3>2. <<"source", f>> # BuiltNode(project, e) BY <1>3 DEF BuiltNode
        <3>3. \/ Resolve(g, e)[1] = BuiltNode(project, e)
              \/ e \in project.disk /\ Resolve(g, e)[1] = <<"source", e>>
            BY <1>1, ResolvedTo
        <3>4. e \in project.disk /\ <<"source", f>> = <<"source", e>> BY <3>1, <3>2, <3>3
        <3>5. QED BY <3>4
    <2>3. QED BY <1>2, <1>3, <2>1, <2>2
<1>4. SourcesAreThere(project, h) BY <1>3 DEF SourcesAreThere
<1>5. MoreNodes(project, g, h) BY <1>2, <1>4 DEF MoreNodes
<1>6. QED BY <1>5, MoreNodesKeep

LEMMA EnsureKeeps ==
    ASSUME NEW g, NEW D, GraphInv(project, g, D), NEW f, NEW type
    PROVE  MoreNodes(project, g, Ensure(g, Node("build", f), type))
<1> DEFINE n == Node("build", f)
           h == Ensure(g, n, type)
<1>1. DOMAIN g = GraphFields /\ SourcesAreThere(project, g) BY DEF GraphInv, GraphShape
<1>2. project.variant => \A e : <<"source", e>> # n BY DEF Node
<1> HIDE DEF n
<1>3. /\ DOMAIN h = GraphFields /\ h.cmds = g.cmds /\ h.decls = g.decls
      /\ h.members = g.members /\ DOMAIN h.nodes \subseteq DOMAIN g.nodes \cup {n}
    <2>1. CASE n \notin DOMAIN g.nodes
        <3>1. h = [g EXCEPT !.nodes = Extended(@, [m \in {n} |-> type])] BY <2>1 DEF Ensure
        <3>2. DOMAIN Extended(g.nodes, [m \in {n} |-> type]) = DOMAIN g.nodes \cup {n}
            BY DEF Extended
        <3> HIDE DEF h
        <3>3. QED BY <1>1, <3>1, <3>2 DEF GraphFields
    <2>2. CASE n \in DOMAIN g.nodes
        <3>1. h = g \/ h = [g EXCEPT !.nodes[n] = "Generated"] BY <2>2 DEF Ensure
        <3> HIDE DEF h
        <3>2. QED BY <1>1, <3>1 DEF GraphFields
    <2>3. QED BY <2>1, <2>2
<1> HIDE DEF h
<1>4. SourcesAreThere(project, h) BY <1>1, <1>2, <1>3 DEF SourcesAreThere
<1>5. QED BY <1>3, <1>4 DEF MoreNodes, h, n
-----------------------------------------------------------------------------
(* What becomes of the graph when a rule makes a command.                  *)

\* A command, or a declaration, of rule s for the files of a frame fr.
RuleOf(p, fr, s, D) ==
    /\ s = p.tup[fr.dir][fr.at]
    /\ fr.dir \in D /\ NoGroup \notin fr.groups

AddCommand(g, c) == [g EXCEPT !.cmds = Append(@, c)]

LEMMA CommandKeeps ==
    ASSUME NEW g, NEW D, GraphInv(project, g, D),
           NEW fr, NEW s, RuleOf(project, fr, s, D), NEW files,
           NEW c, c = Command(g, fr, s, files),
           NEW h, h = AddCommand(g, c)
    PROVE  /\ GraphInv(project, h, D)
           /\ h.cmds = Append(g.cmds, c) /\ h.decls = g.decls
           /\ Len(h.cmds) = Len(g.cmds) + 1 /\ Len(g.cmds) \in Nat
           /\ DOMAIN h.cmds = DOMAIN g.cmds \cup {Len(h.cmds)}
           /\ h.cmds[Len(h.cmds)] = c /\ c.outs = {} /\ c.guards = s.guards
           /\ \A i \in DOMAIN g.cmds : h.cmds[i] = g.cmds[i] /\ i # Len(h.cmds)
<1> DEFINE k == Len(g.cmds) + 1
<1>1. /\ GraphShape(g) /\ OwnersApart(g) /\ MembersListed(project, g)
      /\ SourcesAreThere(project, g) /\ InputsBuilt(project, g) /\ MadeIn(g, D)
    BY DEF GraphInv
<1>2. /\ DOMAIN c = CommandFields /\ c.dir = fr.dir /\ c.at = fr.at /\ c.guards = s.guards
      /\ c.files = files /\ c.ins = Bound(g, files) /\ c.outs = {} /\ c.groups = fr.groups
    BY DEF Command, CommandFields
<1>3. /\ IsSequence(Append(g.cmds, c)) /\ DOMAIN g.cmds = 1..Len(g.cmds)
      /\ Len(g.cmds) \in Nat /\ Len(Append(g.cmds, c)) = k
      /\ DOMAIN Append(g.cmds, c) = DOMAIN g.cmds \cup {k} /\ Append(g.cmds, c)[k] = c
      /\ \A i \in DOMAIN g.cmds : Append(g.cmds, c)[i] = g.cmds[i] /\ i # k
    BY <1>1, Appended DEF GraphShape
<1>4. /\ DOMAIN h = GraphFields /\ h.cmds = Append(g.cmds, c) /\ h.decls = g.decls
      /\ h.members = g.members /\ h.nodes = g.nodes
    BY <1>1 DEF GraphShape, GraphFields, AddCommand
<1>5. /\ DOMAIN h.cmds = DOMAIN g.cmds \cup {k} /\ h.cmds[k] = c
      /\ \A i \in DOMAIN g.cmds : h.cmds[i] = g.cmds[i] /\ i # k
    BY <1>3, <1>4
<1>6. GraphShape(h) BY <1>1, <1>2, <1>3, <1>4, <1>5 DEF GraphShape
<1>7. OwnersApart(h) BY <1>1, <1>2, <1>4, <1>5 DEF OwnersApart
<1>8. MembersListed(project, h)
    <2>1. NoGroup \notin h.cmds[k].groups /\ h.cmds[k].outs = {} BY <1>2, <1>5 DEF RuleOf
    <2>2. \A grp : MembersOf(h, grp) = MembersOf(g, grp) BY <1>4 DEF MembersOf
    <2>3. QED BY <1>1, <1>5, <2>1, <2>2 DEF MembersListed
<1>9. SourcesAreThere(project, h) BY <1>1, <1>4 DEF SourcesAreThere
<1>10. InputsBuilt(project, h)
    <2>1. ASSUME NEW f \in files
          PROVE  BuiltNode(project, f) \in c.ins \/ (project.variant /\ f \in project.disk)
        BY <1>1, <1>2, ResolvedTo DEF Bound
    <2>2. QED BY <1>1, <1>2, <1>5, <2>1 DEF InputsBuilt
<1>11. MadeIn(h, D) BY <1>1, <1>2, <1>5 DEF MadeIn, RuleOf
<1>12. GraphInv(project, h, D) BY <1>6, <1>7, <1>8, <1>9, <1>10, <1>11 DEF GraphInv
<1>13. QED BY <1>2, <1>3, <1>4, <1>5, <1>12

\* The last command waits for the order-only inputs.
LEMMA OrderAfterKeeps ==
    ASSUME NEW g, NEW D, GraphInv(project, g, D), NEW fr, NEW s,
           Active(s) => g.cmds # <<>>
    PROVE  GraphInv(project, OrderAfter(g, fr, s), D)
<1> DEFINE h == BindAll(g, fr.order)
           k == Len(g.cmds)
           X == Bound(g, fr.order)
           r == [h EXCEPT !.cmds[k].order = X]
<1>1. GraphInv(project, h, D) /\ h.cmds = g.cmds BY BindAllKeeps DEF MoreNodes
<1>2. OrderAfter(g, fr, s) = IF Active(s) THEN r ELSE h BY DEF OrderAfter
<1>3. CASE ~Active(s) BY <1>1, <1>2, <1>3
<1>4. CASE Active(s)
    <2>1. g.cmds # <<>> BY <1>4
    <2> HIDE DEF h, X
    <2>2. /\ GraphShape(h) /\ OwnersApart(h) /\ MembersListed(project, h)
          /\ SourcesAreThere(project, h) /\ InputsBuilt(project, h) /\ MadeIn(h, D)
        BY <1>1 DEF GraphInv
    <2> DEFINE c == [h.cmds[k] EXCEPT !.order = X]
               t == [h.cmds EXCEPT ![k] = c]
    <2>3. /\ IsSequence(t) /\ DOMAIN t = DOMAIN h.cmds /\ k \in DOMAIN h.cmds /\ t[k] = c
          /\ \A i \in DOMAIN h.cmds : i # k => t[i] = h.cmds[i]
        <3> HIDE DEF c
        <3>1. IsSequence(h.cmds) /\ h.cmds # <<>> /\ k = Len(h.cmds)
            BY <1>1, <2>1, <2>2 DEF GraphShape
        <3> DEFINE u == [h.cmds EXCEPT ![Len(h.cmds)] = c]
        <3>2. /\ IsSequence(u) /\ DOMAIN u = DOMAIN h.cmds /\ u[Len(h.cmds)] = c
              /\ DOMAIN h.cmds = 1..Len(h.cmds) /\ Len(h.cmds) \in Nat \ {0}
              /\ \A i \in DOMAIN h.cmds : i # Len(h.cmds) => u[i] = h.cmds[i]
            BY <3>1, Replaced
        <3>3. t = u BY <3>1
        <3> HIDE DEF k, t, u
        <3>4. QED BY <3>1, <3>2, <3>3
    <2>4. DOMAIN h.cmds[k] = CommandFields BY <2>2, <2>3 DEF GraphShape
    <2>5. /\ DOMAIN c = CommandFields
          /\ c.dir = h.cmds[k].dir /\ c.at = h.cmds[k].at /\ c.guards = h.cmds[k].guards
          /\ c.files = h.cmds[k].files /\ c.ins = h.cmds[k].ins /\ c.outs = h.cmds[k].outs
          /\ c.groups = h.cmds[k].groups
        BY <2>4 DEF CommandFields
    <2>6. r = [h EXCEPT !.cmds = t] OBVIOUS
    <2> HIDE DEF t, r, c, k
    <2>7. /\ DOMAIN r = GraphFields /\ r.cmds = t /\ r.decls = h.decls
          /\ r.members = h.members /\ r.nodes = h.nodes
        BY <2>2, <2>6 DEF GraphShape, GraphFields
    <2>8. \A i \in DOMAIN h.cmds :
             /\ DOMAIN t[i] = CommandFields /\ t[i].dir = h.cmds[i].dir
             /\ t[i].at = h.cmds[i].at /\ t[i].guards = h.cmds[i].guards
             /\ t[i].files = h.cmds[i].files /\ t[i].ins = h.cmds[i].ins
             /\ t[i].outs = h.cmds[i].outs /\ t[i].groups = h.cmds[i].groups
        BY <2>2, <2>3, <2>5 DEF GraphShape
    <2>9. GraphShape(r) BY <2>2, <2>3, <2>7, <2>8 DEF GraphShape
    <2>10. OwnersApart(r) BY <2>2, <2>3, <2>7, <2>8 DEF OwnersApart
    <2>11. MembersListed(project, r)
        BY <2>2, <2>3, <2>7, <2>8 DEF MembersListed, MembersOf, GroupOf
    <2>12. SourcesAreThere(project, r) /\ InputsBuilt(project, r) /\ MadeIn(r, D)
        BY <2>2, <2>3, <2>7, <2>8 DEF SourcesAreThere, InputsBuilt, MadeIn
    <2>13. GraphInv(project, r, D) BY <2>9, <2>10, <2>11, <2>12 DEF GraphInv
    <2>14. QED BY <1>2, <1>4, <2>13
<1>5. QED BY <1>3, <1>4
\* An output that has no owner yet is claimed, and joins the group of its rule: by
\* the command made last, or by a declaration.
LEMMA ClaimKeeps ==
    ASSUME NEW g, NEW D, GraphInv(project, g, D), NEW s, NEW node,
           Active(s) =>
               /\ g.cmds # <<>>
               /\ g.cmds[Len(g.cmds)].guards = s.guards
               /\ g.cmds[Len(g.cmds)].outs = {}
               /\ GroupOf(project, g.cmds[Len(g.cmds)]) = s.group,
           \A i \in DOMAIN g.cmds : node \in g.cmds[i].outs => Exclusive(g.cmds[i].guards, s.guards),
           \A i \in DOMAIN g.decls : g.decls[i].out = node => Exclusive(g.decls[i].guards, s.guards)
    PROVE  LET h == JoinGroup(Claim(g, s, node), s, node)
           IN  GraphInv(project, h, D) /\ (Active(s) => h.cmds # <<>>)
<1> DEFINE h == JoinGroup(Claim(g, s, node), s, node)
<1>1. /\ GraphShape(g) /\ OwnersApart(g) /\ MembersListed(project, g)
      /\ SourcesAreThere(project, g) /\ InputsBuilt(project, g) /\ MadeIn(g, D)
    BY DEF GraphInv
<1>2. CASE Active(s)
    <2> DEFINE k == Len(g.cmds)
               c == [g.cmds[k] EXCEPT !.outs = @ \cup {node}]
               t == [g.cmds EXCEPT ![Len(g.cmds)] = c]
               r == Claim(g, s, node)
    <2>1. r = [g EXCEPT !.cmds = t] BY <1>2 DEF Claim
    <2>2. /\ IsSequence(t) /\ DOMAIN t = DOMAIN g.cmds /\ k \in DOMAIN g.cmds /\ t[k] = c
          /\ \A i \in DOMAIN g.cmds : i # k => t[i] = g.cmds[i]
        <3>1. IsSequence(g.cmds) /\ g.cmds # <<>> BY <1>1, <1>2 DEF GraphShape
        <3> HIDE DEF c
        <3>2. /\ IsSequence(t) /\ DOMAIN t = DOMAIN g.cmds /\ t[Len(g.cmds)] = c
              /\ DOMAIN g.cmds = 1..Len(g.cmds) /\ Len(g.cmds) \in Nat \ {0}
              /\ \A i \in DOMAIN g.cmds : i # Len(g.cmds) => t[i] = g.cmds[i]
            BY <3>1, Replaced
        <3> HIDE DEF t
        <3>3. QED BY <3>2
    <2>3. DOMAIN g.cmds[k] = CommandFields BY <1>1, <2>2 DEF GraphShape
    <2>4. /\ DOMAIN c = CommandFields
          /\ c.dir = g.cmds[k].dir /\ c.at = g.cmds[k].at /\ c.guards = s.guards
          /\ c.files = g.cmds[k].files /\ c.ins = g.cmds[k].ins /\ c.outs = {node}
          /\ c.groups = g.cmds[k].groups
        BY <1>2, <2>3 DEF CommandFields
    <2> HIDE DEF t, c
    <2>5. /\ DOMAIN r = GraphFields /\ r.cmds = t /\ r.decls = g.decls
          /\ r.members = g.members /\ r.nodes = g.nodes
        BY <1>1, <2>1 DEF GraphShape, GraphFields
    <2>6. /\ DOMAIN h = GraphFields /\ h.cmds = t /\ h.decls = g.decls /\ h.nodes = g.nodes
          /\ h.members = IF s.group = NoGroup THEN g.members
                         ELSE Extended([grp \in {s.group} |-> MembersOf(r, grp) \cup {node}], g.members)
        <3>1. JoinGroup(r, s, node) =
                IF s.group # NoGroup
                THEN [r EXCEPT !.members =
                        Extended([grp \in {s.group} |-> MembersOf(r, grp) \cup {node}], @)]
                ELSE r
            BY <1>2 DEF JoinGroup
        <3> HIDE DEF r
        <3>2. QED BY <2>5, <3>1 DEF r, GraphFields
    <2>7. /\ \A grp : MembersOf(g, grp) \subseteq MembersOf(h, grp)
          /\ s.group # NoGroup => node \in MembersOf(h, s.group)
        <3>1. \A grp : MembersOf(r, grp) = MembersOf(g, grp) BY <2>5 DEF MembersOf
        <3> HIDE DEF r
        <3>2. CASE s.group = NoGroup BY <2>6, <3>2 DEF MembersOf
        <3>3. CASE s.group # NoGroup
            <4> DEFINE new == [grp \in {s.group} |-> MembersOf(g, grp) \cup {node}]
                       m == Extended(new, g.members)
            <4>1. h.members = m BY <2>6, <3>1, <3>3
            <4>2. DOMAIN m = {s.group} \cup DOMAIN g.members BY DEF Extended
            <4>3. m[s.group] = MembersOf(g, s.group) \cup {node} BY DEF Extended
            <4>4. \A grp \in DOMAIN g.members : grp # s.group => m[grp] = g.members[grp]
                BY DEF Extended
            <4> HIDE DEF m
            <4>5. QED BY <4>1, <4>2, <4>3, <4>4 DEF MembersOf
        <3>4. QED BY <3>2, <3>3
    <2> HIDE DEF h, r
    <2>8. GraphShape(h) BY <1>1, <2>2, <2>4, <2>6 DEF GraphShape
    <2>9. OwnersApart(h)
        <3>1. ASSUME NEW i \in DOMAIN h.cmds, NEW j \in DOMAIN h.cmds, i # j,
                     NEW n \in h.cmds[i].outs \cap h.cmds[j].outs
              PROVE  Exclusive(h.cmds[i].guards, h.cmds[j].guards)
            <4>1. CASE i # k /\ j # k BY <1>1, <2>2, <2>6, <3>1, <4>1 DEF OwnersApart
            <4>2. CASE j = k BY <2>2, <2>4, <2>6, <3>1, <4>2
            <4>3. CASE i = k
                <5>1. Exclusive(h.cmds[j].guards, h.cmds[i].guards)
                    BY <2>2, <2>4, <2>6, <3>1, <4>3
                <5>2. QED BY <5>1, ExclusiveBothWays
            <4>4. QED BY <4>1, <4>2, <4>3
        <3>2. ASSUME NEW i \in DOMAIN h.cmds, NEW j \in DOMAIN h.decls,
                     h.decls[j].out \in h.cmds[i].outs
              PROVE  Exclusive(h.cmds[i].guards, h.decls[j].guards)
            <4>1. CASE i # k BY <1>1, <2>2, <2>6, <3>2, <4>1 DEF OwnersApart
            <4>2. CASE i = k
                <5>1. Exclusive(h.decls[j].guards, h.cmds[i].guards)
                    BY <2>2, <2>4, <2>6, <3>2, <4>2
                <5>2. QED BY <5>1, ExclusiveBothWays
            <4>3. QED BY <4>1, <4>2
        <3>3. QED BY <1>1, <2>6, <3>1, <3>2 DEF OwnersApart
    <2>10. MembersListed(project, h)
        <3>1. ASSUME NEW i \in DOMAIN h.cmds
              PROVE  /\ NoGroup \notin h.cmds[i].groups
                     /\ GroupOf(project, h.cmds[i]) # NoGroup
                        => h.cmds[i].outs \subseteq MembersOf(h, GroupOf(project, h.cmds[i]))
            <4>1. CASE i # k
                <5>1. h.cmds[i] = g.cmds[i] /\ i \in DOMAIN g.cmds BY <2>2, <2>6, <4>1
                <5>2. QED BY <1>1, <2>7, <5>1 DEF MembersListed
            <4>2. CASE i = k
                <5>1. /\ h.cmds[i].groups = g.cmds[k].groups /\ h.cmds[i].outs = {node}
                      /\ GroupOf(project, h.cmds[i]) = s.group
                    BY <1>2, <2>2, <2>4, <2>6, <4>2 DEF GroupOf
                <5>2. QED BY <1>1, <2>2, <2>7, <5>1 DEF MembersListed
            <4>3. QED BY <4>1, <4>2
        <3>2. QED BY <3>1 DEF MembersListed
    <2>11. SourcesAreThere(project, h) BY <1>1, <2>6 DEF SourcesAreThere
    <2>12. InputsBuilt(project, h) /\ MadeIn(h, D)
        BY <1>1, <2>2, <2>4, <2>6 DEF InputsBuilt, MadeIn
    <2>13. GraphInv(project, h, D) BY <2>8, <2>9, <2>10, <2>11, <2>12 DEF GraphInv
    <2>14. h.cmds # <<>> BY <2>2, <2>6
    <2>15. QED BY <2>13, <2>14 DEF h
<1>3. CASE ~Active(s)
    <2> DEFINE e == [out |-> node, guards |-> s.guards]
               t == Append(g.decls, e)
               k == Len(g.decls) + 1
    <2>1. h = [g EXCEPT !.decls = t] BY <1>3 DEF JoinGroup, Claim
    <2>2. e.out = node /\ e.guards = s.guards OBVIOUS
    <2> HIDE DEF e
    <2>3. /\ IsSequence(t) /\ DOMAIN t = DOMAIN g.decls \cup {k} /\ t[k] = e
          /\ \A i \in DOMAIN g.decls : t[i] = g.decls[i] /\ i # k
        BY <1>1, Appended DEF GraphShape
    <2> HIDE DEF t, h, k
    <2>4. /\ DOMAIN h = GraphFields /\ h.decls = t /\ h.cmds = g.cmds
          /\ h.members = g.members /\ h.nodes = g.nodes
        BY <1>1, <2>1 DEF GraphShape, GraphFields
    <2>5. GraphShape(h) BY <1>1, <2>3, <2>4 DEF GraphShape
    <2>6. OwnersApart(h)
        <3>1. ASSUME NEW i \in DOMAIN h.decls, NEW j \in DOMAIN h.decls,
                     i # j, h.decls[i].out = h.decls[j].out
              PROVE  Exclusive(h.decls[i].guards, h.decls[j].guards)
            <4>1. CASE i # k /\ j # k BY <1>1, <2>3, <2>4, <3>1, <4>1 DEF OwnersApart
            <4>2. CASE j = k BY <2>2, <2>3, <2>4, <3>1, <4>2
            <4>3. CASE i = k
                <5>1. Exclusive(h.decls[j].guards, h.decls[i].guards)
                    BY <2>2, <2>3, <2>4, <3>1, <4>3
                <5>2. QED BY <5>1, ExclusiveBothWays
            <4>4. QED BY <4>1, <4>2, <4>3
        <3>2. ASSUME NEW i \in DOMAIN h.cmds, NEW j \in DOMAIN h.decls,
                     h.decls[j].out \in h.cmds[i].outs
              PROVE  Exclusive(h.cmds[i].guards, h.decls[j].guards)
            BY <1>1, <2>2, <2>3, <2>4, <3>2 DEF OwnersApart
        <3>3. QED BY <1>1, <2>4, <3>1, <3>2 DEF OwnersApart
    <2>7. MembersListed(project, h) BY <1>1, <2>4 DEF MembersListed, MembersOf
    <2>8. SourcesAreThere(project, h) /\ InputsBuilt(project, h) /\ MadeIn(h, D)
        BY <1>1, <2>4 DEF SourcesAreThere, InputsBuilt, MadeIn
    <2>9. GraphInv(project, h, D) BY <2>5, <2>6, <2>7, <2>8 DEF GraphInv
    <2>10. QED BY <1>3, <2>9 DEF h
<1>4. QED BY <1>2, <1>3
LEMMA ExpandRuleKeeps ==
    ASSUME NEW g, NEW D, GraphInv(project, g, D),
           NEW fr, NEW s, RuleOf(project, fr, s, D), NEW files, NEW out
    PROVE  GraphInv(project, ExpandRule(g, fr, s, files, out).g, D)
<1> DEFINE inputs == BindAll(g, files)
           c == Command(inputs, fr, s, files)
           begun == IF Active(s) THEN [inputs EXCEPT !.cmds = Append(@, c)] ELSE inputs
           node == Node("build", out)
           typed == Ensure(begun, node, IF Active(s) THEN "Generated" ELSE "Ghost")
           joined == JoinGroup(Claim(typed, s, node), s, node)
           result == ExpandRule(g, fr, s, files, out)
<1>1. GraphInv(project, inputs, D) BY BindAllKeeps
<1>2. /\ GraphInv(project, begun, D) /\ begun.decls = inputs.decls
      /\ ~Active(s) => begun.cmds = inputs.cmds
      /\ Active(s) =>
            /\ begun.cmds # <<>>
            /\ begun.cmds[Len(begun.cmds)].guards = s.guards
            /\ begun.cmds[Len(begun.cmds)].outs = {}
            /\ GroupOf(project, begun.cmds[Len(begun.cmds)]) = s.group
      /\ \A i \in DOMAIN begun.cmds :
            \/ i \in DOMAIN inputs.cmds /\ begun.cmds[i] = inputs.cmds[i]
            \/ begun.cmds[i].outs = {}
    <2> HIDE DEF inputs
    <2>1. CASE ~Active(s) BY <1>1, <2>1
    <2>2. CASE Active(s)
        <3>1. PICK h : h = AddCommand(inputs, c) OBVIOUS
        <3>2. c = Command(inputs, fr, s, files) /\ c.dir = fr.dir /\ c.at = fr.at
            BY DEF Command
        <3>3. begun = h BY <2>2, <3>1 DEF AddCommand
        <3> HIDE DEF begun, c
        <3>4. /\ GraphInv(project, h, D) /\ h.decls = inputs.decls
              /\ Len(h.cmds) = Len(inputs.cmds) + 1 /\ Len(inputs.cmds) \in Nat
              /\ DOMAIN h.cmds = DOMAIN inputs.cmds \cup {Len(h.cmds)}
              /\ h.cmds[Len(h.cmds)] = c /\ c.outs = {} /\ c.guards = s.guards
              /\ \A i \in DOMAIN inputs.cmds : h.cmds[i] = inputs.cmds[i] /\ i # Len(h.cmds)
            BY <1>1, <3>1, <3>2, CommandKeeps
        <3>5. GroupOf(project, c) = s.group BY <3>2 DEF GroupOf, RuleOf
        <3>6. h.cmds # <<>> BY <3>4
        <3>7. QED BY <2>2, <3>3, <3>4, <3>5, <3>6
    <2>3. QED BY <2>1, <2>2
<1> HIDE DEF inputs, begun, c
<1>3. MoreNodes(project, begun, typed) BY <1>2, EnsureKeeps
<1>4. GraphInv(project, typed, D) /\ typed.cmds = begun.cmds /\ typed.decls = begun.decls
    BY <1>2, <1>3, MoreNodesKeep DEF MoreNodes
<1> HIDE DEF typed
<1>5. result = IF out = NoFile THEN [ok |-> TRUE, g |-> OrderAfter(begun, fr, s)]
               ELSE IF Owned(inputs, node, s.guards) THEN [ok |-> FALSE, g |-> typed]
               ELSE [ok |-> TRUE, g |-> OrderAfter(joined, fr, s)]
    BY DEF ExpandRule, inputs, c, begun, typed
<1> HIDE DEF result, node
<1>6. CASE out = NoFile
    <2>1. result.g = OrderAfter(begun, fr, s) BY <1>5, <1>6
    <2>2. QED BY <1>2, <2>1, OrderAfterKeeps DEF result
<1>7. CASE out # NoFile /\ Owned(inputs, node, s.guards)
    <2>1. result.g = typed BY <1>5, <1>7
    <2>2. QED BY <1>4, <2>1 DEF result
<1>8. CASE out # NoFile /\ ~Owned(inputs, node, s.guards)
    <2>1. result.g = OrderAfter(joined, fr, s) BY <1>5, <1>8
    <2>2. /\ \A i \in DOMAIN inputs.cmds :
                node \in inputs.cmds[i].outs => Exclusive(inputs.cmds[i].guards, s.guards)
          /\ \A i \in DOMAIN inputs.decls :
                inputs.decls[i].out = node => Exclusive(inputs.decls[i].guards, s.guards)
        BY <1>8 DEF Owned
    <2>3. \A i \in DOMAIN typed.cmds :
             node \in typed.cmds[i].outs => Exclusive(typed.cmds[i].guards, s.guards)
        BY <1>2, <1>4, <2>2
    <2>4. \A i \in DOMAIN typed.decls :
             typed.decls[i].out = node => Exclusive(typed.decls[i].guards, s.guards)
        BY <1>2, <1>4, <2>2
    <2>5. GraphInv(project, joined, D) /\ (Active(s) => joined.cmds # <<>>)
        BY <1>2, <1>4, <2>3, <2>4, ClaimKeeps
    <2> HIDE DEF joined
    <2>6. QED BY <2>1, <2>5, OrderAfterKeeps DEF result
<1>9. QED BY <1>6, <1>7, <1>8

LEMMA ApplyRuleKeeps ==
    ASSUME NEW g, NEW D, GraphInv(project, g, D),
           NEW fr, NEW s, RuleOf(project, fr, s, D), NEW files
    PROVE  GraphInv(project, ApplyRule(g, fr, s, files).g, D)
<1> DEFINE one == OutOf(s.out, CHOOSE f \in files : TRUE)
           other == IF s.ins # <<>> /\ files = {} /\ ~fr.named THEN s.empty ELSE s.out
<1>1. \/ ApplyRule(g, fr, s, files) = [ok |-> ~Active(s), g |-> g]
      \/ ApplyRule(g, fr, s, files) = [ok |-> TRUE, g |-> g]
      \/ ApplyRule(g, fr, s, files) = ExpandRule(g, fr, s, files, one)
      \/ ApplyRule(g, fr, s, files) = ExpandRule(g, fr, s, files, other)
    BY DEF ApplyRule
<1> HIDE DEF one, other
<1>2. /\ GraphInv(project, ExpandRule(g, fr, s, files, one).g, D)
      /\ GraphInv(project, ExpandRule(g, fr, s, files, other).g, D)
    BY ExpandRuleKeeps
<1>3. /\ [ok |-> ~Active(s), g |-> g].g = g
      /\ [ok |-> TRUE, g |-> g].g = g
    OBVIOUS
<1>4. QED BY <1>1, <1>2, <1>3
-----------------------------------------------------------------------------
(***************************************************************************)
(* The inductive invariant of the parse.  The stack holds each directory   *)
(* once, and none that is done with; what was refused before the round is  *)
(* still refused, and made nothing in it; and each directory of the pass   *)
(* is to come, is done with, or is being parsed.                           *)
(***************************************************************************)
FrameFields == {"dir", "at", "op", "asked", "files", "order", "groups", "named"}

Typed ==
    /\ project \in Projects
    /\ phase \in {"pass", "done", "error"} /\ round \in 1..MaxRounds
    /\ available \subseteq Dirs /\ pruned \subseteq Dirs /\ known \subseteq Dirs
    /\ parsed \subseteq Dirs /\ refused \subseteq Dirs /\ before \subseteq Dirs
    /\ todo \subseteq Dirs

\* A stack of frames none of whose directories is done.
StackOf(st, done) ==
    /\ IsSequence(st)
    /\ \A i \in DOMAIN st :
          /\ DOMAIN st[i] = FrameFields
          /\ st[i].dir \in Dirs \ done
          /\ st[i].at \in Nat \ {0} /\ st[i].op \in Nat \ {0}
          /\ NoGroup \notin st[i].groups
    /\ \A i, j \in DOMAIN st : st[i].dir = st[j].dir => i = j

StackInv == StackOf(stack, parsed \cup refused)

RoundInv ==
    /\ parsed \cap refused = {}
    /\ before \subseteq refused
    /\ \A d \in known : InScope(d) => d \in todo \cup parsed \cup refused \cup Parsing
    /\ phase = "done" =>
          refused = before /\ known = available /\ todo = {} /\ stack = <<>>

Sites == (parsed \cup refused \cup Parsing) \ before

Ordered ==
    phase = "done" =>
        \A i \in DOMAIN graph.cmds : \A grp \in graph.cmds[i].groups :
            MembersOf(graph, grp) \subseteq graph.cmds[i].order

PInv == Typed /\ StackInv /\ RoundInv /\ GraphInv(project, graph, Sites) /\ Ordered
-----------------------------------------------------------------------------
(* Frames are pushed, changed and popped.                                  *)

DirsOf(st) == {st[i].dir : i \in DOMAIN st}

LEMMA FrameShape ==
    ASSUME NEW d
    PROVE  /\ DOMAIN Frame(d) = FrameFields /\ Frame(d).dir = d
           /\ Frame(d).at = 1 /\ Frame(d).op = 1
           /\ Frame(d).groups = {}
BY DEF Frame, FrameFields

LEMMA Emptied == ASSUME NEW done PROVE StackOf(<<>>, done) /\ DirsOf(<<>>) = {}
BY EmptySequence DEF StackOf, DirsOf

LEMMA Pushed ==
    ASSUME NEW st, NEW done, NEW d, NEW t,
           StackOf(st, done), d \in Dirs, d \notin done, d \notin DirsOf(st),
           t = Append(st, Frame(d))
    PROVE  StackOf(t, done) /\ DirsOf(t) = DirsOf(st) \cup {d}
<1>1. /\ IsSequence(t) /\ DOMAIN t = DOMAIN st \cup {Len(st) + 1} /\ t[Len(st) + 1] = Frame(d)
      /\ \A i \in DOMAIN st : t[i] = st[i] /\ i # Len(st) + 1
    BY Appended DEF StackOf
<1>2. t[Len(st) + 1].dir = d /\ \A i \in DOMAIN st : st[i].dir # d
    BY <1>1, FrameShape DEF DirsOf
<1>3. StackOf(t, done) BY <1>1, <1>2, FrameShape DEF StackOf
<1>4. DirsOf(t) = DirsOf(st) \cup {d} BY <1>1, <1>2 DEF DirsOf
<1>5. QED BY <1>3, <1>4

LEMMA PushedOnNone ==
    ASSUME NEW done, NEW d \in Dirs \ done
    PROVE  StackOf(<<Frame(d)>>, done) /\ DirsOf(<<Frame(d)>>) = {d}
<1>1. <<Frame(d)>> = Append(<<>>, Frame(d)) OBVIOUS
<1>2. StackOf(<<>>, done) /\ DirsOf(<<>>) = {} BY Emptied
<1>3. PICK st, t : st = <<>> /\ t = Append(st, Frame(d)) OBVIOUS
<1>4. StackOf(t, done) /\ DirsOf(t) = DirsOf(st) \cup {d} BY <1>2, <1>3, Pushed
<1>5. QED BY <1>1, <1>2, <1>3, <1>4

LEMMA Changed ==
    ASSUME NEW st, NEW done, StackOf(st, done), st # <<>>,
           NEW fr, DOMAIN fr = FrameFields, fr.dir = st[Len(st)].dir,
           fr.at \in Nat \ {0}, fr.op \in Nat \ {0},
           NoGroup \notin fr.groups,
           NEW t, t = [st EXCEPT ![Len(st)] = fr]
    PROVE  StackOf(t, done) /\ DirsOf(t) = DirsOf(st)
<1> DEFINE u == [st EXCEPT ![Len(st)] = fr]
<1>0. /\ IsSequence(u) /\ DOMAIN u = DOMAIN st /\ u[Len(st)] = fr
      /\ DOMAIN st = 1..Len(st) /\ Len(st) \in Nat \ {0}
      /\ \A i \in DOMAIN st : i # Len(st) => u[i] = st[i]
    BY Replaced DEF StackOf
<1>1. /\ IsSequence(t) /\ DOMAIN t = DOMAIN st /\ Len(st) \in DOMAIN st /\ t[Len(st)] = fr
      /\ \A i \in DOMAIN st : i # Len(st) => t[i] = st[i]
    BY <1>0
<1>2. \A i \in DOMAIN st : t[i].dir = st[i].dir BY <1>1
<1>3. StackOf(t, done) BY <1>1, <1>2 DEF StackOf
<1>4. DirsOf(t) = DirsOf(st) BY <1>1, <1>2 DEF DirsOf
<1>5. QED BY <1>3, <1>4

LEMMA Popped ==
    ASSUME NEW st, NEW done, StackOf(st, done), st # <<>>
    PROVE  LET e == Last(st).dir IN
           /\ StackOf(Front(st), done \cup {e}) /\ DirsOf(Front(st)) = DirsOf(st) \ {e}
           /\ e \in DirsOf(st) /\ e \in Dirs \ done
<1> DEFINE e == Last(st).dir
           t == Front(st)
<1>1. /\ IsSequence(t) /\ DOMAIN t = 1..(Len(st) - 1) /\ DOMAIN st = 1..Len(st)
      /\ Len(st) \in Nat \ {0} /\ \A i \in 1..(Len(st) - 1) : t[i] = st[i]
      /\ Last(st) = st[Len(st)]
    BY Shortened DEF StackOf
<1> HIDE DEF t
<1>2. e = st[Len(st)].dir /\ Len(st) \in DOMAIN st BY <1>1
<1>3. \A i \in DOMAIN t : i \in DOMAIN st /\ i # Len(st) /\ t[i] = st[i] BY <1>1
<1>4. \A i \in DOMAIN st : i = Len(st) \/ i \in DOMAIN t BY <1>1
<1> HIDE DEF e
<1>5. \A i \in DOMAIN t : t[i].dir # e BY <1>2, <1>3 DEF StackOf
<1>6. StackOf(t, done \cup {e}) BY <1>1, <1>3, <1>5 DEF StackOf
<1>7. DirsOf(t) = DirsOf(st) \ {e} BY <1>2, <1>3, <1>4, <1>5 DEF DirsOf
<1>8. e \in DirsOf(st) /\ e \in Dirs \ done BY <1>2 DEF DirsOf, StackOf
<1>9. QED BY <1>6, <1>7, <1>8 DEF e, t

LEMMA StackOfParsing == Parsing = DirsOf(stack)
BY DEF Parsing, DirsOf
\* What the innermost Tupfile is at.
LEMMA TopIs ==
    ASSUME StackInv, stack # <<>>
    PROVE  /\ Top = stack[Len(stack)] /\ Len(stack) \in DOMAIN stack
           /\ DOMAIN Top = FrameFields /\ Top.dir \in Dirs \ (parsed \cup refused)
           /\ Top.at \in Nat \ {0} /\ Top.op \in Nat \ {0} /\ NoGroup \notin Top.groups
           /\ Top.dir \in Parsing
<1>1. Top = stack[Len(stack)] /\ Len(stack) \in DOMAIN stack
    BY Shortened DEF StackInv, StackOf, Top
<1>2. QED BY <1>1 DEF StackInv, StackOf, Parsing

LEMMA OperandIs ==
    ASSUME Typed, StackInv, AtOperand
    PROVE  Operand \in Range(Operands(TopRule))
<1> DEFINE s == TopRule
           d == Top.dir
<1>1. stack # <<>> /\ Top.at <= Len(project.tup[d])
      /\ Top.op <= Len(IF Makes(Top, s) THEN Operands(s) ELSE s.ins)
    BY DEF AtOperand, TopRule
<1>2. d \in Dirs /\ Top.at \in Nat \ {0} /\ Top.op \in Nat \ {0} BY <1>1, TopIs
<1>3. IsSequence(project.tup[d]) BY <1>2, ProjectsAssumption DEF Typed
<1>4. Top.at \in DOMAIN project.tup[d] BY <1>1, <1>2, <1>3 DEF IsSequence
<1>5. IsSequence(s.ins) /\ IsSequence(s.order)
    BY <1>2, <1>4, ProjectsAssumption DEF Typed, TopRule
<1> HIDE DEF s, d
<1>6. DOMAIN Operands(s) = 1..(Len(s.ins) + Len(s.order)) /\ Len(Operands(s)) = Len(s.ins) + Len(s.order)
      /\ Len(s.ins) \in Nat /\ Len(s.order) \in Nat
    <2> DEFINE S == Range(s.ins) \cup Range(s.order)
    <2>1. s.ins \in Seq(Range(s.ins)) /\ s.order \in Seq(Range(s.order)) BY <1>5 DEF IsSequence
    <2>2. s.ins \in Seq(S) /\ s.order \in Seq(S) BY <2>1
    <2> HIDE DEF S
    <2>3. QED BY <2>2 DEF Operands
<1>7. Top.op \in DOMAIN Operands(s)
    <2>1. PICK op, m, n : op = Top.op /\ m = Len(s.ins) /\ n = Len(s.order) OBVIOUS
    <2>2. op \in Nat \ {0} /\ m \in Nat /\ n \in Nat BY <1>2, <1>6, <2>1
    <2>3. op <= m + n \/ op <= m BY <1>1, <1>6, <2>1
    <2>4. op \in 1..(m + n) BY <2>2, <2>3
    <2>5. QED BY <1>6, <2>1, <2>4
<1>8. Operand = Operands(s)[Top.op] BY DEF Operand, s, TopRule
<1>9. QED BY <1>7, <1>8 DEF Range, s

LEMMA OperandIsNamed ==
    ASSUME Typed, StackInv, AtOperand, Operand.k = "group"
    PROVE  <<Operand.dir, Operand.name>> # NoGroup
<1>1. stack # <<>> /\ Top.at <= Len(project.tup[Top.dir]) BY DEF AtOperand
<1>2. Top.dir \in Dirs /\ Top.at \in Nat \ {0} BY <1>1, TopIs
<1>3. IsSequence(project.tup[Top.dir]) BY <1>2, ProjectsAssumption DEF Typed
<1>4. Top.at \in DOMAIN project.tup[Top.dir] BY <1>1, <1>2, <1>3 DEF IsSequence
<1>5. QED BY <1>2, <1>4, OperandIs, ProjectsAssumption DEF Typed, TopRule

\* What Take and Rule make of the frame on top.
LEMMA ExpandedFrame ==
    ASSUME Typed, StackInv, AtOperand
    PROVE  LET fr == Expand(Top, Operand) IN
           /\ DOMAIN fr = FrameFields /\ fr.dir = Top.dir /\ fr.at \in Nat \ {0}
           /\ fr.op \in Nat \ {0} /\ NoGroup \notin fr.groups
<1> DEFINE p == Operand
           next == [Top EXCEPT !.op = @ + 1, !.asked = FALSE]
           fr == Expand(Top, p)
<1>1. stack # <<>> BY DEF AtOperand
<1>2. /\ DOMAIN Top = FrameFields /\ Top.at \in Nat \ {0} /\ Top.op \in Nat \ {0}
      /\ NoGroup \notin Top.groups
    BY <1>1, TopIs
<1>3. p.k = "group" => <<p.dir, p.name>> # NoGroup BY OperandIsNamed
<1> HIDE DEF p
<1>4. /\ DOMAIN next = FrameFields /\ next.dir = Top.dir /\ next.at = Top.at
      /\ next.op = Top.op + 1 /\ next.groups = Top.groups
    BY <1>2 DEF FrameFields
<1> DEFINE inputs == Top.op <= Len(project.tup[Top.dir][Top.at].ins)
           found == CASE p.k = "glob"  -> GlobMatches(graph, Top.dir, p)
                      [] p.k = "file"  -> {p.file}
                      [] OTHER         -> {}
<1>5. fr = CASE p.k = "not" /\ inputs  -> [next EXCEPT !.files = Excluded(p, @)]
             [] p.k = "not" /\ ~inputs -> [next EXCEPT !.order = Excluded(p, @)]
             [] p.k = "group" -> [next EXCEPT !.groups = @ \cup {<<p.dir, p.name>>},
                                              !.named = @ \/ inputs]
             [] inputs        -> [next EXCEPT !.files = @ \cup found]
             [] OTHER         -> [next EXCEPT !.order = @ \cup found]
    BY DEF Expand
<1> HIDE DEF inputs, found
<1>6. CASE p.k = "group"
    <2>1. p.k # "not" BY <1>6
    <2>2. CASE inputs
        <3>1. \/ fr = [next EXCEPT !.groups = @ \cup {<<p.dir, p.name>>}, !.named = @ \/ inputs]
              \/ fr = [next EXCEPT !.files = @ \cup found]
            BY <1>5, <1>6, <2>1, <2>2
        <3> HIDE DEF fr, next
        <3>2. CASE fr = [next EXCEPT !.files = @ \cup found]
            BY <1>2, <1>4, <3>2 DEF FrameFields, fr, p
        <3>3. CASE fr = [next EXCEPT !.groups = @ \cup {<<p.dir, p.name>>}, !.named = @ \/ inputs]
            BY <1>2, <1>3, <1>4, <1>6, <3>3 DEF FrameFields, fr, p
        <3>4. QED BY <3>1, <3>2, <3>3
    <2>3. CASE ~inputs
        <3>1. fr = [next EXCEPT !.groups = @ \cup {<<p.dir, p.name>>}, !.named = @ \/ inputs]
            BY <1>5, <1>6, <2>1, <2>3
        <3> HIDE DEF fr, next
        <3>2. QED BY <1>2, <1>3, <1>4, <1>6, <3>1 DEF FrameFields, fr, p
    <2>4. QED BY <2>2, <2>3
<1>7. CASE p.k # "group"
    <2>1. \/ fr = [next EXCEPT !.files = Excluded(p, @)]
          \/ fr = [next EXCEPT !.order = Excluded(p, @)]
          \/ fr = [next EXCEPT !.files = @ \cup found]
          \/ fr = [next EXCEPT !.order = @ \cup found]
        BY <1>5, <1>7
    <2> HIDE DEF fr, next
    <2>2. QED BY <1>2, <1>4, <2>1 DEF FrameFields, fr, p
<1>8. QED BY <1>6, <1>7

LEMMA OnwardFrame ==
    ASSUME StackInv, stack # <<>>, NEW files
    PROVE  LET fr == Onward(Top, TopRule, files) IN
           /\ DOMAIN fr = FrameFields /\ fr.dir = Top.dir /\ fr.at \in Nat \ {0}
           /\ fr.op \in Nat \ {0} /\ NoGroup \notin fr.groups
<1> DEFINE fr == Onward(Top, TopRule, files)
           first == Frame(Top.dir)
<1>1. /\ DOMAIN Top = FrameFields /\ Top.at \in Nat \ {0} /\ Top.op \in Nat \ {0}
      /\ NoGroup \notin Top.groups
    BY TopIs
<1>2. /\ DOMAIN first = FrameFields /\ first.dir = Top.dir /\ first.op = 1 /\ first.groups = {}
    BY FrameShape
<1> HIDE DEF first
<1>3. \/ fr = [Top EXCEPT !.files = @ \ files]
      \/ fr = [first EXCEPT !.at = Top.at + 1]
    BY DEF Onward, first
<1> HIDE DEF fr
<1>4. QED BY <1>1, <1>2, <1>3 DEF FrameFields, fr
-----------------------------------------------------------------------------
(* The invariant holds at the start, and each action preserves it.         *)

LEMMA Begins == Init => PInv
<1> SUFFICES ASSUME Init PROVE PInv OBVIOUS
<1>1. project \in Projects /\ project.nested \subseteq Dirs
    BY ProjectsAssumption DEF Init
<1>2. Discovered \subseteq Dirs BY DEF Discovered
<1>3. Typed BY <1>1, <1>2, RoundsAssumption DEF Init, Typed
<1>4. StackInv BY Emptied DEF Init, StackInv
<1>5. RoundInv BY DEF Init, RoundInv
<1>6. GraphInv(project, graph, Sites) BY EmptyGraphKeeps DEF Init
<1>7. Ordered BY DEF Init, Ordered
<1>8. QED BY <1>3, <1>4, <1>5, <1>6, <1>7 DEF PInv

LEMMA NextDirKeeps == ASSUME PInv, NextDir PROVE PInv'
<1>1. Typed /\ StackInv /\ RoundInv /\ GraphInv(project, graph, Sites) BY DEF PInv
<1>2. PICK d \in todo :
        /\ todo' = todo \ {d}
        /\ IF d \in parsed \/ ~InScope(d)
           THEN UNCHANGED <<phase, stack, refused>>
           ELSE IF d \in refused \cup project.broken
           THEN refused' = refused \cup {d} /\ Outcome(TRUE) /\ UNCHANGED stack
           ELSE stack' = <<Frame(d)>> /\ UNCHANGED <<phase, refused>>
    BY DEF NextDir
<1>3. /\ phase = "pass" /\ stack = <<>> /\ d \in Dirs
      /\ UNCHANGED <<project, round, available, pruned, parsed, before, known, graph, seed>>
    BY <1>1 DEF NextDir, Typed
<1>4. Parsing = DirsOf(stack) /\ Parsing' = DirsOf(stack') BY DEF Parsing, DirsOf
<1>5. /\ refused' \in {refused, refused \cup {d}} /\ parsed \cap refused' = {}
      /\ phase' \in {"pass", "error"} /\ StackInv'
      /\ Parsing \subseteq Parsing'
      /\ InScope(d) => d \in parsed \cup refused' \cup Parsing'
    <2>1. CASE d \in parsed \/ ~InScope(d)
        BY <1>1, <1>2, <1>3, <1>4, <2>1 DEF RoundInv, StackInv
    <2>2. CASE ~(d \in parsed \/ ~InScope(d)) /\ d \in refused \cup project.broken
        <3>1. refused' = refused \cup {d} /\ stack' = stack /\ phase' \in {"pass", "error"}
            BY <1>2, <2>2 DEF Outcome
        <3>2. StackOf(stack', parsed' \cup refused') BY <1>3, <3>1, Emptied
        <3>3. QED BY <1>1, <1>3, <1>4, <2>2, <3>1, <3>2 DEF RoundInv, StackInv
    <2>3. CASE ~(d \in parsed \/ ~InScope(d)) /\ d \notin refused \cup project.broken
        <3>1. stack' = <<Frame(d)>> /\ phase' = phase /\ refused' = refused BY <1>2, <2>3
        <3>2. d \in Dirs \ (parsed \cup refused) BY <1>3, <2>3
        <3>3. StackOf(stack', parsed' \cup refused') /\ DirsOf(stack') = {d}
            BY <1>3, <3>1, <3>2, PushedOnNone
        <3>4. DirsOf(stack) = {} BY <1>3, Emptied
        <3>5. QED BY <1>1, <1>3, <1>4, <3>1, <3>3, <3>4 DEF RoundInv, StackInv
    <2>4. QED BY <2>1, <2>2, <2>3
<1>6. Typed' BY <1>1, <1>2, <1>3, <1>5 DEF Typed
<1>7. RoundInv'
    <2>1. ASSUME NEW e \in known', InScope(e)'
          PROVE  e \in todo' \cup parsed' \cup refused' \cup Parsing'
        BY <1>1, <1>2, <1>3, <1>5, <2>1 DEF RoundInv, InScope
    <2>2. QED BY <1>1, <1>3, <1>5, <2>1 DEF RoundInv
<1>8. Sites \subseteq Sites' BY <1>3, <1>5 DEF Sites
<1>9. GraphInv(project, graph, Sites') BY <1>1, <1>8, Wider
<1>10. QED BY <1>3, <1>5, <1>6, <1>7, <1>9 DEF PInv, Ordered

LEMMA AskKeeps == ASSUME PInv, Ask PROVE PInv'
<1> DEFINE d == Operand.dir
           asked == [stack EXCEPT ![Len(stack)].asked = TRUE]
<1>1. /\ Typed /\ StackInv /\ RoundInv /\ GraphInv(project, graph, Sites)
      /\ project.nested \subseteq Dirs
    BY ProjectsAssumption DEF PInv, Typed
<1>2. /\ AtOperand /\ phase = "pass" /\ stack # <<>>
      /\ available' \in {available, available \cup project.nested}
      /\ pruned' \in {pruned, pruned \ project.nested}
      /\ IF NothingToParse(d, available')
         THEN stack' = asked /\ UNCHANGED refused
         ELSE IF d \in project.broken
         THEN stack' = asked /\ refused' = refused \cup {d}
         ELSE stack' = Append(asked, Frame(d)) /\ UNCHANGED refused
      /\ UNCHANGED <<project, phase, round, todo, parsed, before, known, graph, seed>>
    BY DEF Ask, AtOperand
<1> HIDE DEF d
<1>3. Parsing = DirsOf(stack) /\ Parsing' = DirsOf(stack') BY DEF Parsing, DirsOf
<1>4. available' \subseteq Dirs /\ pruned' \subseteq Dirs BY <1>1, <1>2 DEF Typed
<1>5. StackOf(asked, parsed \cup refused) /\ DirsOf(asked) = DirsOf(stack)
    <2> DEFINE fr == [stack[Len(stack)] EXCEPT !.asked = TRUE]
    <2>1. /\ DOMAIN Top = FrameFields /\ Top.at \in Nat \ {0} /\ Top.op \in Nat \ {0}
          /\ NoGroup \notin Top.groups /\ Top = stack[Len(stack)] /\ Len(stack) \in DOMAIN stack
        BY <1>1, <1>2, TopIs
    <2>2. /\ DOMAIN fr = FrameFields /\ fr.dir = stack[Len(stack)].dir
          /\ fr.at \in Nat \ {0} /\ fr.op \in Nat \ {0} /\ NoGroup \notin fr.groups
        BY <2>1 DEF FrameFields
    <2>3. asked = [stack EXCEPT ![Len(stack)] = fr] BY <2>1
    <2> HIDE DEF fr, asked
    <2>4. QED BY <1>1, <1>2, <2>2, <2>3, Changed DEF StackInv
<1> HIDE DEF asked
<1>6. /\ refused' \in {refused, refused \cup {d}} /\ refused' \subseteq Dirs
      /\ parsed \cap refused' = {} /\ StackInv' /\ Parsing \subseteq Parsing'
    <2>1. CASE NothingToParse(d, available')
        BY <1>1, <1>2, <1>3, <1>5, <2>1 DEF RoundInv, StackInv, Typed
    <2>2. CASE ~NothingToParse(d, available')
        <3>1. d \in Dirs \ (parsed \cup refused) /\ d \notin DirsOf(asked)
            BY <1>3, <1>4, <1>5, <2>2 DEF NothingToParse
        <3>2. CASE d \in project.broken
            <4>1. stack' = asked /\ refused' = refused \cup {d} BY <1>2, <2>2, <3>2
            <4>2. StackOf(asked, parsed \cup (refused \cup {d}))
                BY <1>5, <3>1 DEF StackOf, DirsOf
            <4>3. QED BY <1>1, <1>2, <1>3, <1>5, <3>1, <4>1, <4>2 DEF RoundInv, StackInv, Typed
        <3>3. CASE d \notin project.broken
            <4>1. stack' = Append(asked, Frame(d)) /\ refused' = refused BY <1>2, <2>2, <3>3
            <4>2. StackOf(stack', parsed \cup refused) /\ DirsOf(stack') = DirsOf(asked) \cup {d}
                <5>1. PICK st, done, e, t : /\ st = asked /\ done = parsed \cup refused /\ e = d
                                            /\ t = Append(st, Frame(e))
                    OBVIOUS
                <5>2. StackOf(st, done) /\ e \in Dirs /\ e \notin done /\ e \notin DirsOf(st)
                    BY <1>5, <3>1, <5>1
                <5>3. StackOf(t, done) /\ DirsOf(t) = DirsOf(st) \cup {e} BY <5>1, <5>2, Pushed
                <5>4. QED BY <4>1, <5>1, <5>3
            <4>3. QED BY <1>1, <1>2, <1>3, <1>5, <4>1, <4>2 DEF RoundInv, StackInv, Typed
        <3>4. QED BY <3>2, <3>3
    <2>3. QED BY <2>1, <2>2
<1>7. Typed' BY <1>1, <1>2, <1>4, <1>6 DEF Typed
<1>8. RoundInv'
    <2>1. ASSUME NEW e \in known', InScope(e)'
          PROVE  e \in todo' \cup parsed' \cup refused' \cup Parsing'
        BY <1>1, <1>2, <1>6, <2>1 DEF RoundInv, InScope
    <2>2. QED BY <1>1, <1>2, <1>6, <2>1 DEF RoundInv
<1>9. Sites \subseteq Sites' BY <1>2, <1>6 DEF Sites
<1>10. GraphInv(project, graph, Sites') BY <1>1, <1>9, Wider
<1>11. QED BY <1>2, <1>6, <1>7, <1>8, <1>10 DEF PInv, Ordered

LEMMA TakeKeeps == ASSUME PInv, Take PROVE PInv'
<1> DEFINE fr == Expand(Top, Operand)
<1>1. Typed /\ StackInv /\ RoundInv /\ GraphInv(project, graph, Sites) BY DEF PInv
<1>2. /\ AtOperand /\ phase = "pass" /\ stack # <<>>
      /\ stack' = [stack EXCEPT ![Len(stack)] = fr]
      /\ graph' = Recorded(graph, Top.dir, Operand)
      /\ UNCHANGED <<project, phase, round, todo, available, pruned, parsed, refused,
                     before, known, seed>>
    BY DEF Take, AtOperand
<1>3. StackInv' /\ Parsing' = Parsing
    <2>1. /\ DOMAIN fr = FrameFields /\ fr.dir = Top.dir /\ fr.at \in Nat \ {0}
          /\ fr.op \in Nat \ {0} /\ NoGroup \notin fr.groups
        BY <1>1, <1>2, ExpandedFrame
    <2>2. Top = stack[Len(stack)] BY <1>1, <1>2, TopIs
    <2> HIDE DEF fr
    <2>3. PICK t : t = [stack EXCEPT ![Len(stack)] = fr] OBVIOUS
    <2>4. StackOf(t, parsed \cup refused) /\ DirsOf(t) = DirsOf(stack)
        BY <1>1, <1>2, <2>1, <2>2, <2>3, Changed DEF StackInv
    <2>5. Parsing = DirsOf(stack) /\ Parsing' = DirsOf(stack') BY DEF Parsing, DirsOf
    <2>6. QED BY <1>2, <2>3, <2>4, <2>5 DEF StackInv
<1>4. GraphInv(project, graph', Sites)
    <2>1. DOMAIN graph = GraphFields /\ SourcesAreThere(project, graph)
        BY <1>1 DEF GraphInv, GraphShape
    <2>2. /\ DOMAIN graph' = GraphFields /\ graph'.cmds = graph.cmds
          /\ graph'.decls = graph.decls /\ graph'.members = graph.members
          /\ graph'.nodes = graph.nodes
        BY <1>2, <2>1 DEF Recorded, GraphFields
    <2>3. MoreNodes(project, graph, graph') BY <2>1, <2>2 DEF MoreNodes, SourcesAreThere
    <2>4. PICK g, h, D : g = graph /\ h = graph' /\ D = Sites OBVIOUS
    <2>5. GraphInv(project, h, D) BY <1>1, <2>3, <2>4, MoreNodesKeep
    <2>6. QED BY <2>4, <2>5
<1> HIDE DEF fr
<1>5. Typed' BY <1>1, <1>2 DEF Typed
<1>6. RoundInv' BY <1>1, <1>2, <1>3 DEF RoundInv, InScope
<1>7. Sites' = Sites BY <1>2, <1>3 DEF Sites
<1>8. QED BY <1>2, <1>3, <1>4, <1>5, <1>6, <1>7 DEF PInv, Ordered

\* What a rule makes of the graph, whether it is accepted or refused.
LEMMA AppliedKeeps ==
    ASSUME PInv, AtRule, NEW files
    PROVE  GraphInv(project, Applied(files).g, Sites)
<1>1. Typed /\ StackInv /\ RoundInv /\ GraphInv(project, graph, Sites) BY DEF PInv
<1>2. /\ Top.dir \in Dirs \ (parsed \cup refused) /\ Top.dir \in Parsing
      /\ NoGroup \notin Top.groups
    BY <1>1, TopIs DEF AtRule
<1>3. Top.dir \in Sites BY <1>1, <1>2 DEF RoundInv, Sites
<1>4. RuleOf(project, Top, TopRule, Sites) BY <1>2, <1>3 DEF RuleOf, TopRule
<1>5. QED BY <1>1, <1>4, ApplyRuleKeeps DEF Applied

LEMMA RuleKeeps == ASSUME PInv, Rule PROVE PInv'
<1>1. Typed /\ StackInv /\ RoundInv /\ GraphInv(project, graph, Sites) BY DEF PInv
<1>2. PICK files \in Batches(Top, TopRule) :
        /\ graph' = Applied(files).g
        /\ stack' = [stack EXCEPT ![Len(stack)] = Onward(Top, TopRule, files)]
    BY DEF Rule
<1>3. /\ AtRule /\ phase = "pass" /\ stack # <<>>
      /\ UNCHANGED <<project, phase, round, todo, available, pruned, parsed, refused,
                     before, known, seed>>
    BY DEF Rule, AtRule
<1> DEFINE fr == Onward(Top, TopRule, files)
<1>4. StackInv' /\ Parsing' = Parsing
    <2>1. /\ DOMAIN fr = FrameFields /\ fr.dir = Top.dir /\ fr.at \in Nat \ {0}
          /\ fr.op \in Nat \ {0} /\ NoGroup \notin fr.groups
        BY <1>1, <1>3, OnwardFrame
    <2>2. Top = stack[Len(stack)] BY <1>1, <1>3, TopIs
    <2> HIDE DEF fr
    <2>3. PICK t : t = [stack EXCEPT ![Len(stack)] = fr] OBVIOUS
    <2>4. StackOf(t, parsed \cup refused) /\ DirsOf(t) = DirsOf(stack)
        BY <1>1, <1>3, <2>1, <2>2, <2>3, Changed DEF StackInv
    <2>5. Parsing = DirsOf(stack) /\ Parsing' = DirsOf(stack') BY DEF Parsing, DirsOf
    <2>6. stack' = t BY <1>2, <2>3 DEF fr
    <2>7. QED BY <1>3, <2>4, <2>5, <2>6 DEF StackInv
<1>5. GraphInv(project, graph', Sites) BY <1>2, <1>3, AppliedKeeps
<1> HIDE DEF fr
<1>6. Typed' BY <1>1, <1>3 DEF Typed
<1>7. RoundInv' BY <1>1, <1>3, <1>4 DEF RoundInv, InScope
<1>8. Sites' = Sites BY <1>3, <1>4 DEF Sites
<1>9. QED BY <1>3, <1>4, <1>5, <1>6, <1>7, <1>8 DEF PInv, Ordered

LEMMA RefuseKeeps == ASSUME PInv, Refuse PROVE PInv'
<1> DEFINE e == Top.dir
<1>1. Typed /\ StackInv /\ RoundInv /\ GraphInv(project, graph, Sites) BY DEF PInv
<1>2. PICK files \in Batches(Top, TopRule) : graph' = Applied(files).g BY DEF Refuse
<1>3. /\ AtRule /\ phase = "pass" /\ stack # <<>>
      /\ refused' = refused \cup {e} /\ stack' = Front(stack)
      /\ phase' \in {"pass", "error"}
      /\ UNCHANGED <<project, round, todo, available, pruned, parsed, before, known, seed>>
    BY DEF Refuse, AtRule, Outcome
<1>4. /\ StackOf(Front(stack), parsed \cup refused \cup {e})
      /\ DirsOf(Front(stack)) = DirsOf(stack) \ {e}
      /\ e \in DirsOf(stack) /\ e \in Dirs \ (parsed \cup refused)
    BY <1>1, <1>3, Popped DEF StackInv, Top
<1> HIDE DEF e
<1>5. Parsing = DirsOf(stack) /\ Parsing' = DirsOf(stack') BY DEF Parsing, DirsOf
<1>6. StackInv'
    <2>1. parsed \cup refused \cup {e} = parsed' \cup refused' BY <1>3
    <2>2. QED BY <1>3, <1>4, <2>1 DEF StackInv
<1>7. GraphInv(project, graph', Sites) BY <1>2, <1>3, AppliedKeeps
<1>8. Typed' BY <1>1, <1>3, <1>4 DEF Typed
<1>9. RoundInv' BY <1>1, <1>3, <1>4, <1>5 DEF RoundInv, InScope
<1>10. Sites' = Sites BY <1>3, <1>4, <1>5 DEF Sites
<1>11. QED BY <1>3, <1>6, <1>7, <1>8, <1>9, <1>10 DEF PInv, Ordered

LEMMA EndTupfileKeeps == ASSUME PInv, EndTupfile PROVE PInv'
<1> DEFINE e == Top.dir
<1>1. Typed /\ StackInv /\ RoundInv /\ GraphInv(project, graph, Sites) BY DEF PInv
<1>2. /\ phase = "pass" /\ stack # <<>>
      /\ parsed' = parsed \cup {e} /\ stack' = Front(stack)
      /\ UNCHANGED <<project, phase, round, todo, available, pruned, refused, before,
                     known, graph, seed>>
    BY DEF EndTupfile
<1>3. /\ StackOf(Front(stack), parsed \cup refused \cup {e})
      /\ DirsOf(Front(stack)) = DirsOf(stack) \ {e}
      /\ e \in DirsOf(stack) /\ e \in Dirs \ (parsed \cup refused)
    BY <1>1, <1>2, Popped DEF StackInv, Top
<1> HIDE DEF e
<1>4. Parsing = DirsOf(stack) /\ Parsing' = DirsOf(stack') BY DEF Parsing, DirsOf
<1>5. StackInv'
    <2>1. parsed \cup refused \cup {e} = parsed' \cup refused' BY <1>2
    <2>2. QED BY <1>2, <1>3, <2>1 DEF StackInv
<1>6. Typed' BY <1>1, <1>2, <1>3 DEF Typed
<1>7. RoundInv' BY <1>1, <1>2, <1>3, <1>4 DEF RoundInv, InScope
<1>8. Sites' = Sites BY <1>2, <1>3, <1>4 DEF Sites
<1>9. QED BY <1>1, <1>2, <1>5, <1>6, <1>7, <1>8 DEF PInv, Ordered

LEMMA AnotherPassKeeps == ASSUME PInv, AnotherPass PROVE PInv'
<1>1. Typed /\ StackInv /\ RoundInv /\ GraphInv(project, graph, Sites) BY DEF PInv
<1>2. /\ phase = "pass" /\ known' = available /\ todo' = available
      /\ UNCHANGED <<project, phase, round, available, pruned, parsed, refused, before,
                     stack, graph, seed>>
    BY DEF AnotherPass, AtPassEnd
<1>3. Typed' BY <1>1, <1>2 DEF Typed
<1>4. StackInv' /\ Sites' = Sites BY <1>1, <1>2 DEF StackInv, Sites, Parsing
<1>5. RoundInv' BY <1>1, <1>2 DEF RoundInv
<1>6. QED BY <1>1, <1>2, <1>3, <1>4, <1>5 DEF PInv, Ordered

\* What finalize_graph makes of an accepted graph.
LEMMA FinalizedKeeps ==
    ASSUME NEW D, GraphInv(project, graph, D)
    PROVE  /\ GraphInv(project, Finalized, D)
           /\ \A i \in DOMAIN Finalized.cmds : \A grp \in Finalized.cmds[i].groups :
                 MembersOf(Finalized, grp) \subseteq Finalized.cmds[i].order
<1> DEFINE g == graph
           late(i) == UNION {MembersOf(graph, grp) : grp \in graph.cmds[i].groups}
           cs == [i \in DOMAIN graph.cmds |-> [graph.cmds[i] EXCEPT !.order = @ \cup late(i)]]
           h == Finalized
<1>1. /\ GraphShape(g) /\ OwnersApart(g) /\ MembersListed(project, g)
      /\ SourcesAreThere(project, g) /\ InputsBuilt(project, g) /\ MadeIn(g, D)
    BY DEF GraphInv
<1>2. h = [graph EXCEPT !.cmds = cs] BY DEF Finalized
<1>3. \A i : late(i) = UNION {MembersOf(graph, grp) : grp \in graph.cmds[i].groups} OBVIOUS
<1>4. DOMAIN cs = DOMAIN g.cmds
      /\ \A i \in DOMAIN g.cmds : cs[i] = [g.cmds[i] EXCEPT !.order = @ \cup late(i)]
    OBVIOUS
<1> HIDE DEF late, cs, h
<1>5. \A i \in DOMAIN g.cmds :
         /\ DOMAIN cs[i] = CommandFields /\ cs[i].order = g.cmds[i].order \cup late(i)
         /\ cs[i].dir = g.cmds[i].dir /\ cs[i].at = g.cmds[i].at
         /\ cs[i].guards = g.cmds[i].guards /\ cs[i].files = g.cmds[i].files
         /\ cs[i].ins = g.cmds[i].ins /\ cs[i].outs = g.cmds[i].outs
         /\ cs[i].groups = g.cmds[i].groups
    <2> SUFFICES ASSUME NEW i \in DOMAIN g.cmds
                 PROVE  /\ DOMAIN cs[i] = CommandFields /\ cs[i].order = g.cmds[i].order \cup late(i)
                        /\ cs[i].dir = g.cmds[i].dir /\ cs[i].at = g.cmds[i].at
                        /\ cs[i].guards = g.cmds[i].guards /\ cs[i].files = g.cmds[i].files
                        /\ cs[i].ins = g.cmds[i].ins /\ cs[i].outs = g.cmds[i].outs
                        /\ cs[i].groups = g.cmds[i].groups
        OBVIOUS
    <2>1. DOMAIN g.cmds[i] = CommandFields BY <1>1 DEF GraphShape
    <2>2. cs[i] = [g.cmds[i] EXCEPT !.order = @ \cup late(i)] BY <1>4
    <2>3. QED BY <2>1, <2>2 DEF CommandFields
<1>6. IsSequence(cs)
    <2>1. g.cmds \in Seq(Range(g.cmds)) BY <1>1 DEF GraphShape, IsSequence
    <2>2. PICK n \in Nat : DOMAIN g.cmds = 1..n BY <2>1
    <2>3. DOMAIN cs = 1..n /\ cs = [i \in 1..n |-> cs[i]] BY <1>4, <2>2 DEF cs
    <2>4. \A i \in 1..n : cs[i] \in Range(cs) BY <2>3 DEF Range
    <2>5. cs \in Seq(Range(cs)) BY <2>3, <2>4
    <2>6. QED BY <2>5 DEF IsSequence
<1>7. /\ DOMAIN h = GraphFields /\ h.cmds = cs /\ h.decls = g.decls
      /\ h.members = g.members /\ h.nodes = g.nodes
    BY <1>1, <1>2 DEF GraphShape, GraphFields
<1> HIDE DEF g
<1>8. GraphShape(h) BY <1>1, <1>4, <1>5, <1>6, <1>7 DEF GraphShape
<1>9. OwnersApart(h) BY <1>1, <1>4, <1>5, <1>7 DEF OwnersApart
<1>10. \A grp : MembersOf(h, grp) = MembersOf(g, grp) BY <1>7 DEF MembersOf
<1>11. MembersListed(project, h) BY <1>1, <1>4, <1>5, <1>7, <1>10 DEF MembersListed, GroupOf
<1>12. SourcesAreThere(project, h) /\ InputsBuilt(project, h) /\ MadeIn(h, D)
    BY <1>1, <1>4, <1>5, <1>7 DEF SourcesAreThere, InputsBuilt, MadeIn
<1>13. GraphInv(project, h, D) BY <1>8, <1>9, <1>11, <1>12 DEF GraphInv
<1>14. \A i \in DOMAIN h.cmds : \A grp \in h.cmds[i].groups :
          MembersOf(h, grp) \subseteq h.cmds[i].order
    BY <1>3, <1>4, <1>5, <1>7, <1>10 DEF g
<1>15. QED BY <1>13, <1>14 DEF h

LEMMA SettleKeeps == ASSUME PInv, Settle PROVE PInv'
<1>1. Typed /\ StackInv /\ RoundInv /\ GraphInv(project, graph, Sites) BY DEF PInv
<1>2. /\ phase = "pass" /\ stack = <<>> /\ todo = {} /\ known = available /\ refused = before
      /\ \/ phase' = "error" /\ graph' = graph
         \/ phase' = "done" /\ graph' = Finalized
      /\ UNCHANGED <<project, round, todo, available, pruned, parsed, refused, before,
                     known, stack, seed>>
    BY DEF Settle, AtPassEnd, NewRefusals
<1>3. Typed' BY <1>1, <1>2 DEF Typed
<1>4. StackInv' /\ Sites' = Sites BY <1>1, <1>2 DEF StackInv, Sites, Parsing
<1>5. RoundInv' BY <1>1, <1>2 DEF RoundInv, InScope, Parsing
<1>6. GraphInv(project, graph', Sites) BY <1>1, <1>2, FinalizedKeeps
<1>7. Ordered' BY <1>1, <1>2, FinalizedKeeps DEF Ordered
<1>8. QED BY <1>2, <1>3, <1>4, <1>5, <1>6, <1>7 DEF PInv

LEMMA GiveUpKeeps == ASSUME PInv, GiveUp PROVE PInv'
<1>1. Typed /\ StackInv /\ RoundInv /\ GraphInv(project, graph, Sites) BY DEF PInv
<1>2. /\ phase' = "error"
      /\ UNCHANGED <<project, round, todo, available, pruned, parsed, refused, before,
                     known, stack, graph, seed>>
    BY DEF GiveUp
<1>3. Typed' BY <1>1, <1>2 DEF Typed
<1>4. StackInv' /\ Sites' = Sites BY <1>1, <1>2 DEF StackInv, Sites, Parsing
<1>5. RoundInv' BY <1>1, <1>2 DEF RoundInv, InScope, Parsing
<1>6. QED BY <1>1, <1>2, <1>3, <1>4, <1>5 DEF PInv, Ordered

LEMMA NextRoundKeeps == ASSUME PInv, NextRound PROVE PInv'
<1>1. Typed /\ StackInv /\ RoundInv BY DEF PInv
<1>2. /\ phase = "pass" /\ stack = <<>> /\ known = available /\ round < MaxRounds
      /\ round' = round + 1 /\ refused' \in {refused, {}} /\ before' = refused'
      /\ parsed' = {} /\ graph' = EmptyGraph /\ todo' = available
      /\ UNCHANGED <<project, phase, available, pruned, known, stack>>
    BY DEF NextRound, AtPassEnd
<1>3. Typed' BY <1>1, <1>2, RoundsAssumption DEF Typed
<1>4. StackInv' BY <1>2, Emptied DEF StackInv
<1>5. RoundInv' BY <1>1, <1>2 DEF RoundInv
<1>6. GraphInv(project, graph', Sites') BY <1>2, EmptyGraphKeeps
<1>7. QED BY <1>2, <1>3, <1>4, <1>5, <1>6 DEF PInv, Ordered

THEOREM Kept == Spec => []PInv
<1>1. PInv /\ [Next]_vars => PInv'
    <2> SUFFICES ASSUME PInv, [Next]_vars PROVE PInv' OBVIOUS
    <2>1. CASE UNCHANGED vars
        BY <2>1 DEF PInv, vars, Typed, StackInv, RoundInv, Sites, Parsing, Ordered, InScope
    <2>2. CASE Ended
        BY <2>2 DEF Ended, PInv, vars, Typed, StackInv, RoundInv, Sites, Parsing, Ordered, InScope
    <2>3. QED
        BY <2>1, <2>2, NextDirKeeps, AskKeeps, TakeKeeps, RuleKeeps, RefuseKeeps, EndTupfileKeeps,
           AnotherPassKeeps, SettleKeeps, GiveUpKeeps, NextRoundKeeps DEF Next, Step
<1>2. QED BY Begins, <1>1, PTL DEF Spec

(***************************************************************************)
(* What the runs check of a parse, for every project.                      *)
(***************************************************************************)

\* Every variable of the driver stays in its set, and only known directories
\* are parsed, whatever the project, the order of a pass and the rounds.
THEOREM TypeCorrect == Spec => []TypeOK
<1>1. PInv => TypeOK
    <2>1. ASSUME PInv PROVE TypeOK
        BY <2>1 DEF PInv, Typed, StackInv, StackOf, Parsing, TypeOK
    <2>2. QED BY <2>1
<1>2. QED BY Kept, <1>1, PTL

\* No directory waits for itself and none is evaluated twice in a round,
\* however rules of one directory ask for another.
THEOREM EvaluatedOnce == Spec => []EachOnce
<1>1. PInv => EachOnce
    <2>1. ASSUME PInv PROVE EachOnce
        BY <2>1 DEF PInv, StackInv, StackOf, Parsing, EachOnce
    <2>2. QED BY <2>1
<1>2. QED BY Kept, <1>1, PTL

\* An accepted graph holds the commands of directories parsed to their end
\* only, and every directory in scope was parsed or refused: the rounds that
\* follow a refusal leave nothing of a Tupfile that stopped half way.
THEOREM WholeTupfiles == Spec => []NothingHalfParsed
<1>1. PInv => NothingHalfParsed
    <2> SUFFICES ASSUME PInv, phase = "done"
                 PROVE  /\ parsed \cap refused = {}
                        /\ \A i \in DOMAIN graph.cmds : graph.cmds[i].dir \in parsed
                        /\ \A d \in available : InScope(d) => d \in parsed \cup refused
        BY DEF NothingHalfParsed
    <2>1. /\ RoundInv /\ MadeIn(graph, Sites) /\ refused = before /\ known = available
          /\ todo = {} /\ stack = <<>>
        BY DEF PInv, RoundInv, GraphInv
    <2>2. Parsing = {} BY <2>1 DEF Parsing
    <2>3. Sites \subseteq parsed BY <2>1, <2>2 DEF Sites
    <2>4. QED BY <2>1, <2>2, <2>3 DEF RoundInv, MadeIn
<1>2. QED BY Kept, <1>1, PTL

\* A command that names a group waits for every output that joined it, in
\* whatever order the members and the command were met.
THEOREM WholeGroups == Spec => []GroupsAreComplete
<1>1. PInv => GroupsAreComplete
    <2> SUFFICES ASSUME PInv, phase = "done", NEW i \in DOMAIN graph.cmds, NEW j \in DOMAIN graph.cmds,
                        GroupOf(project, graph.cmds[j]) \in graph.cmds[i].groups
                 PROVE  graph.cmds[j].outs \subseteq graph.cmds[i].order
        BY DEF GroupsAreComplete, GroupOf
    <2>1. MembersListed(project, graph) /\ Ordered BY DEF PInv, GraphInv
    <2>2. GroupOf(project, graph.cmds[j]) # NoGroup BY <2>1 DEF MembersListed
    <2>3. graph.cmds[j].outs \subseteq MembersOf(graph, GroupOf(project, graph.cmds[j]))
        BY <2>1, <2>2 DEF MembersListed
    <2>4. MembersOf(graph, GroupOf(project, graph.cmds[j])) \subseteq graph.cmds[i].order
        BY <2>1 DEF Ordered
    <2>5. QED BY <2>3, <2>4
<1>2. QED BY Kept, <1>1, PTL

\* A command that reads what a rule generates is linked to that rule's node
\* and not to a node of the source tree, also when it was parsed first.
THEOREM InputsAreLinked == Spec => []InputsMeetTheirProducer
<1>1. PInv => InputsMeetTheirProducer
    <2> SUFFICES ASSUME PInv, NEW i \in DOMAIN graph.cmds, NEW f \in graph.cmds[i].files, ~Twin(f)
                 PROVE  Node("build", f) \in graph.cmds[i].ins
        BY DEF InputsMeetTheirProducer
    <2>1. InputsBuilt(project, graph) BY DEF PInv, GraphInv
    <2>2. Node("build", f) = BuiltNode(project, f) BY DEF Node, BuiltNode
    <2>3. QED BY <2>1, <2>2 DEF InputsBuilt, Twin
<1>2. QED BY Kept, <1>1, PTL

LEMMA AtMostOne ==
    ASSUME NEW S, \A x, y \in S : x = y
    PROVE  Cardinality(S) \in {0, 1} /\ (S = {} => Cardinality(S) = 0)
<1>1. CASE S = {} BY <1>1, FS_EmptySet
<1>2. CASE S # {}
    <2>1. PICK x \in S : TRUE BY <1>2
    <2>2. S = {x} BY <2>1
    <2>3. Cardinality({x}) = 1 BY FS_Singleton
    <2>4. QED BY <1>2, <2>2, <2>3
<1>3. QED BY <1>1, <1>2

\* In no configuration do two rules of an accepted project write one file:
\* the branch not taken is held against the one that is.
THEOREM OneOwner == Spec => []OneOwnerInEveryConfiguration
<1>1. PInv => OneOwnerInEveryConfiguration
    <2> SUFFICES ASSUME PInv, NEW config, NEW n
                 PROVE  Cardinality({i \in DOMAIN graph.cmds :
                                n \in graph.cmds[i].outs /\ Holds(graph.cmds[i].guards, config)})
                      + Cardinality({i \in DOMAIN graph.decls :
                                graph.decls[i].out = n /\ Holds(graph.decls[i].guards, config)}) <= 1
        BY DEF OneOwnerInEveryConfiguration
    <2> DEFINE C == {i \in DOMAIN graph.cmds :
                        n \in graph.cmds[i].outs /\ Holds(graph.cmds[i].guards, config)}
               E == {i \in DOMAIN graph.decls :
                        graph.decls[i].out = n /\ Holds(graph.decls[i].guards, config)}
    <2>1. OwnersApart(graph) BY DEF PInv, GraphInv
    <2>2. \A x, y \in C : x = y BY <2>1, ExclusiveDoNotHold DEF OwnersApart
    <2>3. \A x, y \in E : x = y BY <2>1, ExclusiveDoNotHold DEF OwnersApart
    <2>4. C = {} \/ E = {} BY <2>1, ExclusiveDoNotHold DEF OwnersApart
    <2> HIDE DEF C, E
    <2>5. /\ Cardinality(C) \in {0, 1} /\ (C = {} => Cardinality(C) = 0)
          /\ Cardinality(E) \in {0, 1} /\ (E = {} => Cardinality(E) = 0)
        BY <2>2, <2>3, AtMostOne
    <2>6. Cardinality(C) + Cardinality(E) <= 1 BY <2>4, <2>5
    <2>7. QED BY <2>6 DEF C, E
<1>2. QED BY Kept, <1>1, PTL
=============================================================================
