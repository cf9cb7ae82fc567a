----------------------------- MODULE MCResolve -----------------------------
(***************************************************************************)
(* Two small images: one with relative and absolute links, a cycle, names  *)
(* that differ in case and a link without a target; one where every link   *)
(* leads through two others, so that depth and count of links differ.      *)
(***************************************************************************)
EXTENDS Resolve

Dir(name, node) == [name |-> name, kind |-> "dir", node |-> node, target |-> << >>, absolute |-> FALSE]
File(name) == [name |-> name, kind |-> "file", node |-> "none", target |-> << >>, absolute |-> FALSE]
Link(name, target) == [name |-> name, kind |-> "link", node |-> "none", target |-> target, absolute |-> FALSE]
AbsLink(name, target) == [Link(name, target) EXCEPT !.absolute = TRUE]

A == <<"A">>  a == <<"a">>  b == <<"b">>  c == <<"c">>  o == <<"o">>
Up == <<".", ".">>

MixedVolume ==
  [root |-> Dir(<< >>, "root"),
   entries |->
     [root |-> << Link(A, <<c>>), File(b), Link(a, <<c, <<".">>, o>>), Dir(c, "inner"),
                  Link(o, <<o>>) >>,
      inner |-> << File(A), AbsLink(a, << << >>, c, A>>), Link(b, << << >> >>),
                   AbsLink(c, <<a>>), Link(o, <<Up, b>>) >>]]

NestedVolume ==
  [root |-> Dir(<< >>, "root"),
   entries |->
     [root |-> << Link(a, <<c>>), Link(b, <<a, o>>), Dir(c, "inner"), AbsLink(o, <<b>>) >>,
      inner |-> << AbsLink(a, <<c>>), File(b), AbsLink(o, <<a>>) >>]]

MCVolumes == {MixedVolume, NestedVolume}

Parts == {A, a, b, <<"B">>, c, o, Up}
MCPaths == UNION {[1..n -> Parts] : n \in 0..3}
=============================================================================
