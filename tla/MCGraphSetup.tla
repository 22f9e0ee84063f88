----------------------------- MODULE MCGraphSetup -----------------------------
(* Instances of GraphSetup for TLC: a resident node that carries content, a   *)
(* stochastic one, a declassifier and a pure one.  A port is left open, or    *)
(* wired to any of the four; the second node may also be wired to a node that *)
(* is never added, and the last by a port it does not have.                   *)
EXTENDS GraphSetup

MCNodes == 1 .. 4
MCInputs == <<<<>>, [a |-> "str"], [a |-> "Any", b |-> "str"], [a |-> "object", b |-> "int"]>>
MCOutput == <<"Digest", "str", "bool", "list[int]">>
MCKind == <<"resident", "stochastic", "pure", "pure">>
MCContentBearing == <<TRUE, FALSE, FALSE, FALSE>>
MCDeclassifies == <<FALSE, FALSE, TRUE, FALSE>>
MCClasses == {"str", "int", "bool"}
MCNewTypes == [Digest |-> "str"]
MCSubclass == {<<"bool", "int">>}

MCWirings ==
  [n \in MCNodes |->
     UNION {[wired -> MCNodes] : wired \in SUBSET DOMAIN MCInputs[n]}
       \cup (CASE n = 2 -> {[a |-> 9]} [] n = 4 -> {[a |-> 1, z |-> 1]} [] OTHER -> {})]

MCKeyTexts == <<<<49>>, <<97>>>>
MCKeys == {Number(<<49>>), Text(<<49>>), Text(<<97>>)}
MCValues == {Text(<<49>>), List(<<Text(<<49>>), Text(<<>>)>>), List(<<Text(<<49, 115>>)>>),
             List(<<Value("set", {Text(<<49>>), Text(<<>>)}),
                    Dict(<<<<Text(<<97>>), NoneValue>>>>), Value("object", NoneValue)>>)}
MCPorts == {<<97>>, <<98>>}
=============================================================================
