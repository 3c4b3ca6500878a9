------------------------------- MODULE Walks -------------------------------
(***************************************************************************)
(* The walks up the graph that decide what a build of a target, a build of *)
(* a scope (src/src/graph/dag.cpp) and a configuration                     *)
(* (src/src/cli/config_commands.cpp) have to run first.                    *)
(***************************************************************************)
EXTENDS JobGraph

\* What add_edge is called with: the outputs of a command and its inputs, the files of a
\* group and the commands that follow it, a scan and the command it is for.
ASSUME EdgesAssumption ==
    /\ IsFiniteSet(Node)
    /\ \A g \in Graphs :
          /\ g.data \subseteq (Command \X File) \cup (File \X (Command \cup Group)) \cup (Command \X Command)
          /\ g.order \subseteq (File \cup Group) \X Command

\* What a worklist holds in the end that starts with ids: a walk has no more steps
\* than there are nodes.
Walked(ids, upward) ==
    LET steps == Cardinality(Node) + 1
        found[k \in 1..steps] ==
            IF k = 1 THEN ids ELSE found[k - 1] \cup UNION {upward[n] : n \in found[k - 1]}
    IN  found[steps]

Upward == [n \in Node |-> Into(n, graph.data) \cup Into(n, graph.order)]
CollectRequiredCommands(ids) == Walked(ids, Upward) \cap Command
WalkUpstreamFromScope(inScope) == inScope \cup Walked(UNION {Upward[c] : c \in inScope}, Upward)
CollectScopeWithUpstreamCommands(inScope) == WalkUpstreamFromScope(inScope) \cap Command
CollectUpstreamFiles(inScope) == WalkUpstreamFromScope(inScope) \cap File

\* The commands that write a configuration, and those they need.
FindConfigCommands(configs) == {c \in Command : \E f \in configs : <<c, f>> \in graph.data}
Writers(n) == Into(n, graph.data) \cap Command
\* Mutant: a group is taken for a file.
AddedWithoutMembers(c) ==
    LET inputs == Into(c, graph.data)
    IN  (inputs \cap Command) \cup UNION {Writers(n) : n \in (inputs \ Command) \cup Into(c, graph.order)}
Added(c) ==
    LET inputs  == Into(c, graph.data)
        ordered == UNION {Members(n) : n \in Into(c, graph.order)}
    IN  (inputs \cap Command) \cup UNION {Writers(n) : n \in (inputs \ Command) \cup ordered}
CollectCommandDependencies(commands) == Walked(commands, [n \in Node |-> Added(n)])

(***************************************************************************)
(* A configuration runs the commands its own wait for, to the last one and *)
(* no other, and so do a build of their outputs and one of their scope;    *)
(* the files such a build examines are all that these commands read.       *)
(***************************************************************************)
WaitedFor(commands) ==
    {c \in Command : \A S \in SUBSET Command :
        (commands \subseteq S /\ \A j \in S : Declared(j) \subseteq S) => c \in S}
WalksAgree ==
    (pc = "ready" /\ Jobs = Command /\ ordering = {}) =>
        \A configs \in SUBSET File :
            LET commands == FindConfigCommands(configs)
                needed   == WaitedFor(commands)
            IN  /\ CollectCommandDependencies(commands) = needed
                /\ CollectRequiredCommands(commands) = needed
                /\ CollectScopeWithUpstreamCommands(commands) = needed
                /\ (UNION {Into(c, graph.data) : c \in needed}) \cap File \subseteq CollectUpstreamFiles(commands)
=============================================================================
