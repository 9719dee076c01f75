---------------------------- MODULE MCAttackList ----------------------------
(* Attack lists as text.  *)
EXTENDS AttackList, AttackEffect

Star      == [kind |-> "star", n |-> 0, m |-> 0]
Ver(x)    == [kind |-> "int", n |-> x, m |-> 0]
Dotted(y) == [kind |-> "dotted", n |-> 1, m |-> y]
AnyType       == [kind |-> "star", n |-> 0, name |-> "?"]
Type(x)   == [kind |-> "int", n |-> x, name |-> "?"]
Alias(a)  == [kind |-> "alias", n |-> 0, name |-> a]
None      == [kind |-> "none", n |-> 0]
Arg(k, x) == [kind |-> k, n |-> x]

Row(v, t, a, x) == [fields |-> 8, ver |-> v, type |-> t, action |-> a, arg |-> x]

Plain(s)        == [text |-> s, quote |-> NUL, before |-> 0, after |-> 0]
Spaced(s, b, a) == [text |-> s, quote |-> NUL, before |-> b, after |-> a]
Quoted(q, s)    == [text |-> s, quote |-> q, before |-> 1, after |-> 1]

(* LEN, CID, SID and FIELD are not looked at.                              *)
Line(v, t, a, x, r) ==
  [fields |-> <<Plain(<<"9">>), Plain(<<"*">>), Plain(<<>>), v, t, Plain(<<>>), a, x>>,
   row    |-> r]

Head8 == [fields |-> [i \in 1 .. 8 |-> Plain(<<"LEN">>)], row |-> NoRow(8)]

DROP == Plain(<<"DROP">>)
DUP  == Spaced(<<"DUP">>, 1, 0)
All  == Plain(<<"*">>)

(* Overlapping rules of both kinds with wildcards in either column, the    *)
(* boundaries of p and r, whitespace and quotes around every column, and   *)
(* rows of every reason to be rejected.                                    *)
RuleLines ==
  { Line(All, All, DROP, Plain(<<>>), Row(Star, AnyType, "DROP", None)),
    Line(Plain(<<"2", "x">>), All, DROP, Plain(<<"p", "=", "0">>), Row(Ver(2), AnyType, "DROP", Arg("int", 0))),
    Line(All, Quoted("'", <<"Hello">>), DROP, Plain(<<"p", "=", "1", "0", "0">>),
         Row(Star, Alias("Hello"), "DROP", Arg("int", 100))),
    Line(Spaced(<<"1", ".", "4">>, 2, 1), Plain(<<"3", "4">>), Plain(<<"0">>),
         Quoted("\"", <<"q", "&", "p", " ", "=", " ", "1", "0", "1", "&", "p", "=", "7">>),
         Row(Dotted(4), Type(34), "DROP", Arg("int", 101))),
    Line(Plain(<<"1">>), Plain(<<"FlowMod">>), DROP, Plain(<<"p", "=", "0", ".", "5">>),
         Row(Ver(1), Alias("FlowMod"), "DROP", Arg("float", 0))),
    Line(Plain(<<"1">>), Plain(<<"4">>), DROP, Plain(<<"p", "=", "2", "0", "0", " ">>),
         Row(Ver(1), Type(4), "DROP", Arg("int", 200))),
    Line(All, All, DUP, Spaced(<<"r", "=", "2">>, 1, 0), Row(Star, AnyType, "DUP", Arg("int", 2))),
    Line(Plain(<<"5">>), Plain(<<"0">>), Plain(<<"2">>), Plain(<<"p", "&", "r", "=", "2", "5", "5">>),
         Row(Ver(5), Type(0), "DUP", Arg("int", 255))),
    Line(Plain(<<"1">>), All, DUP, Plain(<<"r", "=", "1">>), Row(Ver(1), AnyType, "DUP", Arg("int", 1))),
    Line(Plain(<<"3">>), All, DUP, Plain(<<"r", "=", "x">>), Row(Ver(3), AnyType, "DUP", Arg("other", 0))),
    Line(All, All, Plain(<<"LIE">>), Plain(<<>>), Row(Star, AnyType, "LIE", None)),
    Line(All, All, Plain(<<"4">>), Plain(<<>>), Row(Star, AnyType, "?", None)),
    Line(Plain(<<"6">>), All, DROP, Plain(<<>>), Row(Ver(6), AnyType, "DROP", None)),
    Line(Plain(<<"-", "1">>), All, DUP, Plain(<<"r", "=", "2">>), Row(Ver(-1), AnyType, "DUP", Arg("int", 2))),
    Line(Plain(<<"4">>), Plain(<<"3">>), DUP, Plain(<<"r", "=", "0">>), Row(Ver(4), Type(3), "DUP", Arg("int", 0))),
    Line(Plain(<<"1">>), Plain(<<"2", "3">>), DROP, Plain(<<>>), Row(Ver(1), Type(23), "DROP", None)),
    Line(Plain(<<"1">>), Plain(<<"2", "2">>), DROP, Plain(<<>>), Row(Ver(1), Type(22), "DROP", None)),
    Line(Plain(<<"1">>), Plain(<<"GroupMod">>), DROP, Plain(<<>>), Row(Ver(1), Alias("GroupMod"), "DROP", None)),
    Line(All, Plain(<<"1", "5">>), DROP, Plain(<<>>), Row(Star, Type(15), "DROP", None)),
    [fields |-> <<Plain(<<"#">>), Plain(<<"DROP">>), Plain(<<>>)>>, row |-> NoRow(3)],
    [fields |-> <<Quoted("\"", <<"a", ",", "\\", "\"", "b">>), Plain(<<>>), Spaced(<<"c">>, 1, 0)>>,
     row |-> NoRow(3)] }

(* Rows with two columns in quotes, and a longer comment before them.      *)
QuotedLines ==
  { Line(All, Quoted("'", <<"Hello">>), Quoted("\"", <<"DROP">>), Plain(x),
         Row(Star, Alias("Hello"), "DROP", None)) : x \in {<<>>, <<"q">>} }
  \cup { [fields |-> [i \in 1 .. 15 |-> Plain(IF i = 1 THEN <<"#">> ELSE <<"x">>)], row |-> NoRow(15)] }

WrittenRows == {l.row : l \in Lines}
=============================================================================
