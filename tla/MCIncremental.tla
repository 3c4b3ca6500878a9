--------------------------- MODULE MCIncremental ---------------------------
(* Instances of IncrementalProperties for TLC. *)
EXTENDS IncrementalProperties

\* gen makes a header from a.  obj compiles b, which at v1 includes the header
\* h and the generated one.  app links obj, and names a itself.
MCReads == [c \in Cmd |-> CASE c = "gen" -> {"a"} \cap Node
                            [] c = "obj" -> {"b"}
                            [] c = "app" -> {"gen", "b"} \cap Node]
MCIncludes == [s \in Source |-> [v \in Version |->
                  IF s = "b" /\ v = "v1" THEN {"h", "gen"} \cap Node ELSE {}]]
NoIncludes == [s \in Source |-> [v \in Version |-> {}]]

\* gen's directory is x, the others' y.
MCDir == [n \in Node |-> IF n \in {"a", "gen"} THEN "x" ELSE "y"]

MCFull == {FullRun}
ScopedRun(d, all) == [FullRun EXCEPT !.scope = {d}, !.all_deps = all]
MCScoped == {FullRun, [ScopedRun("x", FALSE) EXCEPT !.rerun = TRUE]}
                \cup {ScopedRun(d, FALSE) : d \in {"x", "y"}}
MCAllDeps == {FullRun, ScopedRun("x", TRUE)}
MCTargets == {FullRun} \cup {[FullRun EXCEPT !.target = {c}] : c \in Cmd}
=============================================================================
