---------------------------- MODULE MCExtensions ----------------------------
(* Instances of the parts of Extensions. *)
EXTENDS Extensions

CONSTANTS i1, i2

SomeForms == {[prompt |-> "a"], [prompt |-> "", photos |-> 12], [keep |-> "no"]}

Own == [i \in {i1, i2} |-> IF i = i1 THEN "p1" ELSE "p2"]

SomeKeys == <<"k1", "k2", "k3">>

SomeEdits ==
    {[storage |-> "untyped", url |-> "plain", rest |-> "auth",
      writes |-> FALSE, off |-> {"imageproc", "printer"}],
     [storage |-> "file", url |-> "plain", rest |-> "two backends",
      writes |-> TRUE, off |-> {"printer"}],
     [storage |-> "memory", url |-> "missing", rest |-> "auth", writes |-> TRUE, off |-> {}]}

FourElements == <<"a", "b", "c", "d">>

SomePrompts ==
    {<<<<1>>>>, <<<<2, 1>>, <<3>>>>, <<<<4>>, <<2, 1, 1>>, <<1>>, <<3, 2>>>>, <<<<1>>, <<>>>>}

SomeSeeds ==
    [kind : {"list"}, of : {<<>>, <<7, 5, 7>>}] \cup [kind : {"range"}, of : {<<3, 5>>, <<5, 3>>}]
=============================================================================
