------------------------------ MODULE Targets ------------------------------
(***************************************************************************)
(* From the words of a command line to the build directories it is about:  *)
(* the roots of the project, the targets and patterns, and the directory   *)
(* one stands in (src/src/core/layout.cpp, src/src/cli/target.cpp and the  *)
(* first half of src/src/cli/multi_variant.cpp).  A path is a sequence of  *)
(* names from the root of the file system, a name a sequence of letters.   *)
(***************************************************************************)
EXTENDS SequencesExt

CONSTANTS
    Trees,       \* [dirs, files]: sets of paths
    Commands,    \* [targets, builds, source, build, config, env, cwd]: what was asked and where
    SourceNames, \* names with an extension of a source file
    IniName, TupfileName, ConfigName, PupName,
    None         \* no value

VARIABLES
    tree, command,
    answer  \* what for_each_variant hands to its handler

vars == <<tree, command, answer>>
-----------------------------------------------------------------------------
Exists(t, path) == path \in t.dirs \cup t.files
Parent(path) == IF path = <<>> THEN <<>> ELSE Front(path)
Upward(path) == {SubSeq(path, 1, k) : k \in 0..Len(path)}
Longest(paths) == CHOOSE p \in paths : \A q \in paths : Len(q) <= Len(p)
Shortest(paths) == CHOOSE p \in paths : \A q \in paths : Len(p) <= Len(q)
Refused == [refused |-> TRUE]
IsRefused(x) == "refused" \in DOMAIN x

\* find_project_root: the nearest Tupfile.ini, or the farthest Tupfile.
FindProjectRoot(t, start) ==
    LET marked  == {p \in Upward(start) : Exists(t, Append(p, IniName))}
        written == {p \in Upward(start) : Exists(t, Append(p, TupfileName))}
    IN  IF marked # {} THEN Longest(marked)
        ELSE IF written # {} THEN Shortest(written) ELSE None

HasMarkers(t, dir) == Exists(t, Append(dir, ConfigName)) \/ Append(dir, PupName) \in t.dirs
Children(t, dir) == {p \in t.dirs : p # <<>> /\ Parent(p) = dir}
DiscoverVariants(t, root) == {p \in Children(t, root) : HasMarkers(t, p)}
\* find_enclosing_build_dir: the farthest marked directory below the root.
\* Mutant: the nearest one.
EnclosingNearest(t, cwd, root) ==
    LET marked == {p \in Upward(cwd) : Len(root) < Len(p) /\ HasMarkers(t, p)}
    IN  IF root \in Upward(cwd) /\ marked # {} THEN Longest(marked) ELSE None
Enclosing(t, cwd, root) ==
    LET marked == {p \in Upward(cwd) : Len(root) < Len(p) /\ HasMarkers(t, p)}
    IN  IF root \in Upward(cwd) /\ marked # {} THEN Shortest(marked) ELSE None

\* A root named on the command line, or else in the environment, must exist.
Named(option, variable) == IF option # None THEN option ELSE variable
SourceRoot(t, c) ==
    LET named == Named(c.source, c.env.source)
    IN  IF named = None THEN FindProjectRoot(t, c.cwd) ELSE IF Exists(t, named) THEN named ELSE None
OutputRoot(t, c, source) ==
    LET named == Named(c.build, c.env.build)
    IN  IF named # None THEN named
        ELSE IF Exists(t, Append(c.cwd, ConfigName)) /\ c.cwd # source THEN c.cwd
        ELSE source
ConfigRoot(t, c, source, output) ==
    LET named == Named(c.config, c.env.config)
        IsProject(p) == Exists(t, Append(p, IniName))
    IN  IF named # None THEN IF Exists(t, named) /\ IsProject(named) THEN named ELSE None
        ELSE IF ~IsProject(source) /\ IsProject(output) THEN output ELSE source
DiscoverLayout(t, c) ==
    LET source == SourceRoot(t, c)
        output == OutputRoot(t, c, source)
        config == ConfigRoot(t, c, source, output)
    IN  IF source = None \/ config = None THEN Refused
        ELSE [source |-> source, output |-> output, config |-> config]

Names == UNION {ToSet(p) : p \in UNION {t.dirs \cup t.files : t \in Trees}}
             \cup UNION {ToSet(x.rest) \cup {x.head, x.tail} : x \in UNION {c.targets : c \in Commands}}
Paths == Seq(Names)
Target == [head : Names, tail : Names, glob : BOOLEAN, rest : Paths, star : BOOLEAN]
Root == Paths \cup {None}
\* The build directory of a run is for the driver to fill in.
CommandLine ==
    [targets : SUBSET Target, builds : SUBSET Paths, source : Root, build : {None}, config : Root,
     env : [source : Root, build : Root, config : Root], cwd : Paths]
\* A tree holds the directories of what it holds, and no file is a directory.
TargetsAssumption ==
    /\ \A t \in Trees :
          /\ t.dirs \cup t.files \subseteq Paths /\ t.dirs \cap t.files = {}
          /\ \A p \in t.dirs : Upward(p) \subseteq t.dirs
    /\ Commands \subseteq CommandLine /\ None \notin Paths
-----------------------------------------------------------------------------
\* A target is [head, tail, glob, rest, star]: its first component is head, or a
\* pattern, head and tail with a star between, and rest the other components, which
\* may have a star as well.
FnmatchSimple(p, name) ==
    /\ Len(p.head) + Len(p.tail) <= Len(name)
    /\ IsPrefix(p.head, name) /\ IsSuffix(p.tail, name)
IsVariantDir(t, dir) == Exists(t, Append(dir, ConfigName))
IsSource(path) == path # <<>> /\ Last(path) \in SourceNames

ParseTarget(t, root, target) ==
    LET within  == IsVariantDir(t, Append(root, target.head))
        path    == <<target.head>> \o target.rest
        full    == root \o path
        parsed  == [variant |-> IF within THEN target.head ELSE None,
                    what |-> IF within THEN target.rest ELSE path,
                    output |-> full \notin t.dirs]
        missing == ~Exists(t, full) /\ ~Exists(t, Parent(full))
    IN  IF full \notin t.dirs /\ (IsSource(full) \/ missing) THEN Refused ELSE parsed

Expanded(t, root, target) ==
    {[variant |-> Last(dir), what |-> target.rest,
      output |->
          LET full == dir \o target.rest
          IN  /\ target.rest # <<>>
              /\ \/ full \in t.files
                 \/ full \notin t.dirs /\ ~IsSource(full) /\ Exists(t, Parent(full))] :
        dir \in {p \in Children(t, root) : FnmatchSimple(target, Last(p)) /\ IsVariantDir(t, p)}}
ExpandGlob(t, root, target) ==
    IF target.glob THEN Expanded(t, root, target)
    ELSE {ParseTarget(t, root, target)} \ {Refused}

IsPattern(target) == target.glob \/ target.star
Resolved(t, root, target) ==
    IF IsPattern(target) THEN ExpandGlob(t, root, target) ELSE {ParseTarget(t, root, target)}
\* All targets name variants, or none does.
Validated(t, root, targets) ==
    LET each == {Resolved(t, root, target) : target \in targets}
        all  == UNION each
    IN  IF {} \in each \/ Refused \in all \/ Cardinality({r.variant = None : r \in all}) > 1 THEN Refused
        ELSE [parsed |-> all]

WithVariants(all) == {r \in all : r.variant # None}
ParseTargets(t, root, targets) ==
    LET valid == Validated(t, root, targets)
    IN  IF IsRefused(valid) THEN Refused
        ELSE LET kept == {r \in valid.parsed : r.variant = None \/ r.what # <<>>}
             IN  [variants |-> {r.variant : r \in WithVariants(valid.parsed)},
                  scopes |-> {r.what : r \in {x \in kept : ~x.output}},
                  outputs |-> {r.what : r \in {x \in kept : x.output}}]

\* The build directories: those the targets name, those of -B, the one that
\* encloses the current directory, or none when the project is built in its tree.
Chosen(t, c, root, parsed) ==
    LET enclosing == Enclosing(t, c.cwd, root)
        loose == ~Exists(t, Append(root, ConfigName)) /\ DiscoverVariants(t, root) # {}
    IN  IF parsed.variants # {} THEN [dirs |-> {c.cwd \o <<v>> : v \in parsed.variants}]
        ELSE IF c.builds # {} THEN [dirs |-> c.builds]
        ELSE IF enclosing # None THEN [dirs |-> {enclosing}]
        ELSE IF loose THEN Refused ELSE [dirs |-> {}]
\* What each run of the handler finds.
Handed(t, c, dirs) ==
    IF dirs = {} THEN {DiscoverLayout(t, c)} ELSE {DiscoverLayout(t, [c EXCEPT !.build = d]) : d \in dirs}
ForEachVariant(t, c) ==
    LET layout == DiscoverLayout(t, [c EXCEPT !.build = IF c.builds = {} THEN None ELSE CHOOSE b \in c.builds : TRUE])
        parsed == ParseTargets(t, layout.source, c.targets)
        chosen == Chosen(t, c, layout.source, parsed)
    IN  IF IsRefused(layout) \/ IsRefused(parsed) \/ IsRefused(chosen) THEN Refused
        ELSE [layouts |-> Handed(t, c, chosen.dirs), scopes |-> parsed.scopes, outputs |-> parsed.outputs]
-----------------------------------------------------------------------------
Init == tree \in Trees /\ command \in Commands /\ command.cwd \in tree.dirs /\ answer = None
Resolve ==
    /\ answer = None /\ answer' = ForEachVariant(tree, command)
    /\ UNCHANGED <<tree, command>>
Next == Resolve
Spec == Init /\ [][Next]_vars
-----------------------------------------------------------------------------
Answered == answer # None /\ ~IsRefused(answer)
Inside(path, dir) == dir \in Upward(path)

(***************************************************************************)
(* One who stands in a build directory, however deep and whatever         *)
(* configuration lies between, builds that directory and no other; one who *)
(* stands outside all of them and names none is refused or builds the      *)
(* source tree, never a directory found by looking (find_enclosing_build_  *)
(* dir, discover_layout).                                                  *)
(***************************************************************************)
Outermost(root) == {p \in tree.dirs : HasMarkers(tree, p) /\ Len(root) < Len(p) /\ Inside(command.cwd, p)
                        /\ \A q \in Upward(Parent(p)) : Len(root) < Len(q) => ~HasMarkers(tree, q)}
PlaceDecides ==
    (Answered /\ command.targets = {} /\ command.builds = {} /\ command.env.build = None) =>
        \A l \in {x \in answer.layouts : ~IsRefused(x)} :
            IF Inside(command.cwd, l.source)
            THEN l.output \in IF Outermost(l.source) = {} THEN {l.source} ELSE Outermost(l.source)
            ELSE l.output \in {l.source, command.cwd}

(***************************************************************************)
(* A pattern means what its matches mean when each is written out, where   *)
(* each may be written (expand_glob_target, parse_target).                 *)
(***************************************************************************)
PatternsMeanTheirMatches ==
    \A target \in {x \in command.targets : x.glob} :
        LET root == SourceRoot(tree, command)
            each == {ParseTarget(tree, root, [target EXCEPT !.head = r.variant]) :
                        r \in Expanded(tree, root, target)}
        IN  (root # None /\ Refused \notin each) => each = Expanded(tree, root, target)
=============================================================================
