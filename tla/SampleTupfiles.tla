--------------------------- MODULE SampleTupfiles ---------------------------
(***************************************************************************)
(* Projects for Variables: two statements of every kind in every order, or *)
(* one and a conditional with rules in both its branches, then two rules.  *)
(***************************************************************************)
EXTENDS Integers, Sequences

Txt(w) == [kind |-> "text", words |-> <<w>>]
Ref(k, n) == [kind |-> k, name |-> n]
Set(op, k, n, v) == [op |-> op, kind |-> k, name |-> n, value |-> v]
If(t, th, el) == [op |-> "if", test |-> t, then |-> th, otherwise |-> el]
Eq(l, r) == [test |-> "ifeq", left |-> l, right |-> r]
RuleOf(n, t) == [op |-> "rule", name |-> n, macro |-> "", text |-> t]
Calls(n, m) == [op |-> "rule", name |-> n, macro |-> m, text |-> <<>>]
V == Set("=", "$", "V", <<Ref("@", "A")>>)
Plain == Set("=", "$", "V", <<Txt("v")>>)
VW == Set("+=", "$", "V", <<Ref("$", "W"), Ref("$", "E")>>)
Soft == Set("?=", "$", "W", <<Txt("soft")>>)
Weak == Set("??=", "$", "W", <<Ref("@", "A")>>)
Weak2 == Set("??=", "$", "W", <<Txt("weak")>>)
Node == Set("=", "&", "N", <<Ref("$", "V")>>)
Imp(n, d) == [op |-> "import", name |-> n, default |-> d]
Exp(n) == [op |-> "export", name |-> n]
Mac == [op |-> "macro", name |-> "m", text |-> <<Txt("mac"), Ref("$", "V")>>]
Mac2 == [op |-> "macro", name |-> "m", text |-> <<Txt("other")>>]
Ali == [op |-> "alias", name |-> "n", target |-> "m"]
OnA == Eq(<<Ref("@", "A")>>, <<Txt("a")>>)
OnE == Eq(<<Ref("$", "E")>>, <<Txt("e")>>)
OnV == Eq(<<Ref("$", "V")>>, <<Txt("a")>>)
Def(n) == [test |-> "ifdef", name |-> n]
NDef(n) == [test |-> "ifndef", name |-> n]
Inc == [op |-> "include", file |-> "f"]
Err == [op |-> "error"]
InRule == RuleOf("in", <<Txt("in"), Ref("$", "W"), Ref("$", "V")>>)
Alphabet ==
    <<V, Plain, VW, Soft, Weak2, Node, Imp("E", <<>>), Imp("F", <<Txt("d")>>), Exp("X"),
      If(OnA, <<Plain, Mac2, Node>>, <<Soft, Exp("X")>>),
      If(NDef("A"), <<Inc, Err>>, <<Weak>>),
      If(OnE, <<If(Def("W"), <<V>>, <<Set("=", "$", "W", <<Txt("w")>>)>>), Exp("X")>>, <<Inc>>),
      If(OnV, <<VW, Weak, Inc>>, <<Mac, Ali>>),
      Inc>>
Weakly == {5, 11, 13}  \* the statements that hold a weak assignment
Inner == If(OnA, <<Soft, InRule, Plain>>, <<VW, InRule>>)
End ==
    <<RuleOf("out", <<Txt("out"), Ref("$", "V"), Ref("$", "W"), Ref("&", "N"), Ref("$", "E"),
                      Ref("$", "F"), Ref("$", "P")>>), Calls("mac", "m")>>
Second == <<VW, RuleOf("other", <<Ref("$", "V")>>)>>
Pairs == {<<<<Mac, Alphabet[i], Alphabet[j]>> \o End, Second>> : i, j \in DOMAIN Alphabet}
WithRules(is) == {<<<<Mac, Alphabet[i], Inner>> \o End>> : i \in is}
Projects == Pairs \cup WithRules(DOMAIN Alphabet \ Weakly)
WeakProjects == WithRules(Weakly)

Absent == [n \in {} |-> <<>>]
IncludedFiles == [f |-> <<Set("=", "$", "W", <<Txt("inc")>>), Mac2>>]
Environs == {Absent, [E |-> <<"e">>, X |-> <<"x">>], [F |-> <<"f">>, X |-> <<"y">>, P |-> <<"p">>]}
Configs == {Absent, [A |-> <<"a">>], [A |-> <<"b">>, P |-> <<"q">>]}
Builtins == {"P"}
=============================================================================
