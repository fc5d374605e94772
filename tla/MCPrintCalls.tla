---------------------------- MODULE MCPrintCalls ----------------------------
(***************************************************************************)
(* What is printed: each kind of directive by itself, and pairs of the     *)
(* kinds that the kernel uses.                                             *)
(***************************************************************************)
EXTENDS Printf, TLC

MCBits == [hh |-> 2, h |-> 4, l |-> 8, ll |-> 12] @@ ("" :> 8)
Directive(flags, widths, precs, lengths, convs, args) ==
  [flags : flags, width : widths, prec : precs, length : lengths, conv : convs, arg : args]
AllFlags == {"zero", "left", "plus", "space", "hash"}
Numeric == Directive(SUBSET AllFlags, {0, 3, 5}, {UNGIVEN, 0, 2, 4}, {""}, {"d", "u", "x", "o"}, {0, 5, 75, -13})
Sized == Directive({{}, {"zero"}, {"plus", "hash"}}, {-4, 0, 4, 9}, {UNGIVEN, -1}, {"hh", "h", "", "l", "ll"},
                   {"d", "X", "b"}, {-128, -2, 0, 1, 100, 255, 2047, -2048})
Literal(c) == [flags |-> {}, width |-> 0, prec |-> UNGIVEN, length |-> "", conv |-> "", arg |-> c]
Worded == Directive({{}, {"left"}}, {0, 3, -3}, {UNGIVEN, 0, 1, 9}, {""}, {"s"}, {UNGIVEN, <<>>, <<"a", "b">>})
Usual == {Literal("lf"), Literal("%")}
  \union Directive({{}}, {0}, {UNGIVEN}, {""}, {"c"}, {"y", NUL}) \union Directive({{"left"}}, {2}, {UNGIVEN}, {""}, {"c"}, {"y"})
  \union Directive({{"left"}, {"zero"}, {"plus"}}, {4}, {UNGIVEN}, {""}, {"d"}, {-7, 7})
  \union Directive({{"zero"}, {}}, {2}, {UNGIVEN}, {""}, {"X"}, {10})
  \union Directive({{}}, {0, 3}, {UNGIVEN, 1}, {""}, {"s"}, {<<"a", "b">>})
  \union Directive({{}}, {0}, {UNGIVEN}, {"l"}, {"p"}, {0, 10, 255})
Float(kind, num) == [kind |-> kind, num |-> num]
Floats == Directive({{}, {"zero"}, {"plus"}, {"left", "zero"}, {"zero", "space"}, {"hash"}}, {0, 7}, {UNGIVEN, 0, 1, 2, 4, 5}, {""}, {"f"},
                    {Float("finite", n) : n \in {0, 1, 8, 16, 24, 31, 48, 80, 319, -4, -20, -31, -2000}}
                    \union {Float("nan", 0), Float("inf", 1), Float("inf", -1)})
MCFormat == {<<d>> : d \in Numeric} \union {<<d>> : d \in Sized} \union {<<d>> : d \in Worded \union Floats} \union {<<c, d>> : c \in Usual, d \in Usual}
MCStream == {"log", "serial", "string", "none"}
=============================================================================
