----------------------------- MODULE MCOutputs -----------------------------
(* An instance of Outputs whose user writes a file before a rule makes it. *)
EXTENDS Outputs

MCDirOf == [p \in Paths |-> "a"]
MCRules == {[dir |-> "a", ins |-> {"src"}, outs |-> {"out"}],
            [dir |-> "a", ins |-> {"src"}, outs |-> {"two"}]}
=============================================================================
