----------------------------- MODULE FileNodes -----------------------------
(***************************************************************************)
(* The nodes of files, and the paths that lead to them (make_graph,        *)
(* add_file_node, ensure_file_node, set_build_root_name and the spelling   *)
(* of paths, src/src/graph/dag.cpp).  A path is [root, names], what its id *)
(* in the pool stands for (module Interner).                               *)
(***************************************************************************)
EXTENDS Integers, FiniteSets, SequencesExt

CONSTANTS
    Asked,        \* the paths that may be asked for
    GroupNames,
    BuildName,    \* what the build root may be called
    NoName,
    MaxFiles      \* bound

VARIABLES
    files,   \* the nodes, from id 0: [type, name, parent, path]
    where    \* path_to_node

vars == <<files, where>>

Ungrounded == "ungrounded"
SourceRoot == "source"
BuildRoot  == "build"
Path(root, names) == [root |-> root, names |-> names]
NotFound == -1
-----------------------------------------------------------------------------
\* The graph g = [files, where, ok, id]: ok and id are what the last call returned.
Here == [files |-> files, where |-> where, ok |-> TRUE, id |-> NotFound]
Node(g, id) == g.files[id + 1]
Answer(g, id) == [g EXCEPT !.ok = TRUE, !.id = id]
Refuse(g) == [g EXCEPT !.ok = FALSE, !.id = NotFound]
Lookup(g, path) == IF path \in DOMAIN g.where THEN g.where[path] ELSE NotFound
Enter(g, path, id) == [g EXCEPT !.where = (path :> id) @@ @]

\* find_by_dir_name: the child of a directory, by that directory's own path.
ChildPath(g, dir, name) == Path(Node(g, dir).path.root, Append(Node(g, dir).path.names, name))
FindByDirName(g, dir, name) == Lookup(g, ChildPath(g, dir, name))

Addressable(type) == type # "Variable"
AddFileNode(g, dir, name, type) ==
    LET path == ChildPath(g, dir, name)
        id   == Len(g.files)
        node == [type |-> type, name |-> name, parent |-> dir, path |-> path]
        more == [g EXCEPT !.files = Append(@, node)]
    IN  CASE Node(g, dir).type # "Directory" -> Refuse(g)
          [] Node(g, dir).type = "Directory" /\ ~Addressable(type) -> Answer(more, id)
          [] OTHER -> IF Lookup(g, path) # NotFound THEN Refuse(g)
                      ELSE Answer(Enter(more, path, id), id)

\* A node found; one asked for as an output becomes one, if it is a file or a ghost.
ResolveHit(g, id, type) ==
    Answer(IF type = "Generated" /\ Node(g, id).type \in {"Ghost", "File"}
           THEN [g EXCEPT !.files[id + 1].type = "Generated"] ELSE g, id)

Parent(path) == Path(path.root, Front(path.names))
Ground(path, root) == Path(root, path.names)
RootFor(type) == IF type \in {"File", "Directory"} THEN SourceRoot ELSE BuildRoot

\* Mutant: the name is not looked for below the node the directory came to.
EnsureBelowUnseen(g, path, type) ==
    LET added == AddFileNode(g, g.id, Last(path.names), type)
    IN  IF g.ok /\ added.ok THEN Enter(added, path, added.id) ELSE Refuse(g)

\* Below the directory it is in, under the name that directory's node knows it by.
EnsureBelow(g, path, type) ==
    LET name  == Last(path.names)
        found == FindByDirName(g, g.id, name)
        added == AddFileNode(g, g.id, name, type)
    IN  IF ~g.ok THEN g
        ELSE IF found # NotFound THEN ResolveHit(Enter(g, path, found), found, type)
        ELSE IF added.ok THEN Enter(added, path, added.id) ELSE added

RECURSIVE Ensure(_, _, _)
Ensure(g, path, type) ==
    LET build  == Ground(path, BuildRoot)
        source == Ground(path, SourceRoot)
    IN  CASE path.names = <<>> -> Answer(g, IF path \in DOMAIN g.where THEN g.where[path] ELSE 0)
          [] path.names # <<>> /\ Lookup(g, path) # NotFound -> ResolveHit(g, g.where[path], type)
          [] OTHER ->
               IF path.root # Ungrounded
               THEN EnsureBelow(Ensure(g, Parent(path), "Directory"), path, type)
               ELSE IF Lookup(g, build) # NotFound
               THEN ResolveHit(Enter(g, path, g.where[build]), g.where[build], type)
               ELSE IF Lookup(g, source) # NotFound
               THEN ResolveHit(Enter(g, path, g.where[source]), g.where[source], type)
               ELSE Ensure(g, Ground(path, RootFor(type)), type)

\* The root of the build goes by a name below the source root, and by its own path.
NameBuildRoot(g, name) ==
    LET path == Path(SourceRoot, <<name>>)
    IN  IF Lookup(g, path) \notin {NotFound, 1} THEN Refuse(g)
        ELSE Answer([g EXCEPT !.files[2].name = name,
                              !.where = (path :> 1) @@ (Path(BuildRoot, <<>>) :> 1) @@ @], 1)

\* materialize_path
Spelled(g, path) ==
    IF path.root = BuildRoot /\ Node(g, 1).name # NoName THEN <<Node(g, 1).name>> \o path.names
    ELSE path.names
FullPath(g, id) == Spelled(g, Node(g, id).path)
-----------------------------------------------------------------------------
Root(root) == [type |-> "Directory", name |-> NoName, parent |-> 0, path |-> Path(root, <<>>)]
MakeGraph ==
    [files |-> <<Root(SourceRoot), Root(BuildRoot)>>,
     where |-> (Path(SourceRoot, <<>>) :> 0) @@ (Path(BuildRoot, <<>>) :> 0),
     ok |-> TRUE, id |-> 0]
\* In place, or in a build directory that is named before anything is parsed.
Init == \E g \in {MakeGraph, NameBuildRoot(MakeGraph, BuildName)} : files = g.files /\ where = g.where

Become(g) == Len(g.files) <= MaxFiles /\ files' = g.files /\ where' = g.where

Types == {"File", "Ghost", "Generated", "Directory"}
EnsureFile == \E path \in Asked, type \in Types : Become(Ensure(Here, path, type))

\* A group stands in a directory, under a name of its own.
AddGroup ==
    \E path \in Asked, name \in GroupNames :
        LET dir == Ensure(Here, path, "Directory")
        IN  IF ~dir.ok \/ FindByDirName(dir, dir.id, name) # NotFound THEN Become(dir)
            ELSE Become(AddFileNode(dir, dir.id, name, "Group"))

\* A variable is a node, but no path leads to it.
AddVariable ==
    \E name \in {Last(path.names) : path \in Asked} :
        /\ ~\E i \in DOMAIN files : files[i].type = "Variable" /\ files[i].name = name
        /\ Become(AddFileNode(Here, 0, name, "Variable"))

Next == EnsureFile \/ AddGroup \/ AddVariable
Spec == Init /\ [][Next]_vars
-----------------------------------------------------------------------------
Addressables == {i \in DOMAIN files : Addressable(files[i].type)}
\* No two nodes for one path: in a tree built in place a file of the build and one
\* of the source are the same, and in a build directory what is asked for by the
\* directory's name below the source root is what the build root holds.
OneNodeForAPath ==
    \A i, j \in Addressables \ {1, 2} :
        FullPath(Here, i - 1) = FullPath(Here, j - 1) => i = j
\* A path leads to a node that is spelled as it is; one without a root to one
\* below either.
PathsLeadToTheirNodes ==
    \A path \in DOMAIN where \ {Path(BuildRoot, <<>>)} :
        /\ where[path] \in 0..(Len(files) - 1)
        /\ FullPath(Here, where[path]) \in
               IF path.root = Ungrounded
               THEN {Spelled(Here, Ground(path, r)) : r \in {SourceRoot, BuildRoot}}
               ELSE {Spelled(Here, path)}
\* A node is below the node of its directory, and that is a directory.
NodesAreInDirectories ==
    \A i \in DOMAIN files \ {1, 2} :
        /\ files[files[i].parent + 1].type = "Directory"
        /\ files[i].path = ChildPath(Here, files[i].parent, files[i].name)
\* Only what is not a directory refuses what is asked for below it.
RefusedForAFile ==
    \A path \in Asked, type \in Types :
        \/ Ensure(Here, path, type).ok
        \/ \E k \in 1..(Len(path.names) - 1), i \in Addressables, r \in {SourceRoot, BuildRoot} :
               /\ FullPath(Here, i - 1) = Spelled(Here, Path(r, SubSeq(path.names, 1, k)))
               /\ files[i].type # "Directory" /\ path.root \in {r, Ungrounded}
\* What a path led to it leads to for good, and a node made for an output stays one.
AnswersStand ==
    /\ \A path \in DOMAIN where : path \in DOMAIN where' /\ where'[path] = where[path]
    /\ \A i \in DOMAIN files :
           \/ files'[i] = files[i]
           \/ files[i].type \in {"File", "Ghost"} /\ files'[i].type = "Generated"

(***************************************************************************)
(* All of this, in whatever order files, ghosts, outputs, directories and  *)
(* groups are asked for (ensure_file_node and its callers).                *)
(***************************************************************************)
NodesAgree ==
    OneNodeForAPath /\ PathsLeadToTheirNodes /\ NodesAreInDirectories /\ RefusedForAFile
=============================================================================
