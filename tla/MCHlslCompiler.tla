--------------------------- MODULE MCHlslCompiler ---------------------------
(***************************************************************************)
(* Families of small entry functions for HlslCompiler.  A fragment is a    *)
(* block with ids of its own; the last node of some has their value.       *)
(***************************************************************************)
EXTENDS HlslCompiler

Types ==
    [v \in {"u", "temp-u", "a", "b", "c"} |-> [len |-> 0, dim |-> 2]] @@
    [v \in {"o", "O"} |-> [len |-> 0, dim |-> 4]] @@
    [v \in {"x", "y"} |-> [len |-> 3, dim |-> 2]]
InputVectors == {<<0, 2, 0, 0>>, <<1, 0, 0, 0>>, <<2, 1, 0, 0>>, <<1, 1, 0, 0>>}

Then(f, g) == f \o Clone(g, Fresh(f))
Block(fragments) == FoldLeft(Then, <<>>, fragments)

Value(n) == <<ConstantNode(1, <<n>>)>>
Whole(v) == <<LoadNode(1, v, <<>>)>>
Part(v, comps) == <<LoadNode(1, v, <<>>), SwizzleNode(2, 1, comps)>>
Compute(fn, f, g) ==
    LET h == Then(f, g)
    IN  Append(h, ExprNode(Fresh(h), fn, <<Fresh(f) - 1, Fresh(h) - 1>>, Dim(Last(f))))
Set(v, mask, f) == Append(f, StoreNode(Fresh(f), v, <<>>, mask, Fresh(f) - 1))
\* v[index] := f
SetElement(v, index, f) ==
    LET h == Then(index, f) IN Append(h, StoreNode(Fresh(h), v, <<Fresh(index) - 1>>, 1 .. TypeOf(v).dim, Fresh(h) - 1))
GetElement(v, index) == Append(index, LoadNode(Fresh(index), v, <<Fresh(index) - 1>>))
If(cond, then, else) ==
    LET n == Fresh(cond)
    IN  Append(cond, IfNode(n, n - 1, Clone(then, n + 1), Clone(else, n + 1 + CloneSize(then))))
\* unroll is <<attribute, its number or 0>>.
Loop(type, cond, iter, body, unroll) ==
    LET n == 2 + CloneSize(cond)
        m == n + CloneSize(iter)
    IN  <<SourceLoop(1, type, Clone(cond, 2), Clone(iter, n), Clone(body, m), unroll[1], unroll[2])>>
Switch(selector, labels, cases) ==
    LET n == Fresh(selector)
    IN  Append(selector, SwitchNode(n, n - 1, labels, [k \in DOMAIN cases |-> Clone(cases[k], n + 100 * k)]))
Jump(kind) == <<JumpNode(1, kind)>>

-----------------------------------------------------------------------------
(* Control flow: o.x tells which statements were executed, in which order. *)

Trace(k) == Set("o", {1}, Compute("add", Compute("mul", Part("o", <<1>>), Value(4)), Value(k)))
Input(k) == Part("u", <<k>>)
Count(v) == Set(v, {1}, Compute("add", Whole(v), Value(1)))
Below(v, bound) == Compute("less", Whole(v), bound)
For(v, bound, body, unroll) == Block(<<Set(v, {1}, Value(0)), Loop("for", Below(v, bound), Count(v), body, unroll)>>)
DoWhile(v, bound, body, unroll) ==
    Block(<<Set(v, {1}, Value(0)), Loop("do", Below(v, bound), <<>>, Block(<<Count(v), body>>), unroll)>>)
Traced(body) == Block(<<Set("o", {1}, Value(0)), body, Trace(3)>>)

AsLoop == <<"force_loop", 0>>
Tried == <<"unroll", 0>>
\* From the iteration on that the input says, or up to it.
Exit(v, kind) == If(Compute("less", Input(1), Whole(v)), Block(<<Trace(1), Jump(kind)>>), <<>>)
Skip(v) == If(Below(v, Input(1)), Block(<<Trace(1), Jump("unresolved_continue")>>), <<>>)
Exits(v) == {Exit(v, "break"), Exit(v, "return"), Skip(v), Trace(2)}

\* Two conditional jumps in a loop of two iterations.
LoopPrograms ==
    {Traced(For("i", Value(2), Block(<<f, g>>), Tried)) : f, g \in Exits("i")} \cup
    {Traced(DoWhile("i", Input(2), Block(<<f, g>>), AsLoop)) : f, g \in Exits("i")}
\* A loop in a loop, where either is unrolled or kept.
NestedPrograms ==
    {Traced(For("i", Value(2), Block(<<For("j", Value(2), f[1], u[1]), f[2]>>), u[2])) :
        f \in {<<Exit("j", "break"), Skip("i")>>, <<Exit("i", "return"), Exit("i", "break")>>},
        u \in {<<Tried, Tried>>, <<AsLoop, Tried>>, <<AsLoop, AsLoop>>}}
\* The number of iterations depends on the input, or is limited.
BoundedPrograms ==
    {Traced(For("i", bound, f, unroll)) :
        f \in Exits("i"), bound \in {Input(2), Value(2)}, unroll \in {Tried, <<"force_unroll", 3>>}}

\* Switches with their default case, if any, in any place, alone or in a loop.
Case(k) == {<<>>, Block(<<Trace(k), Jump("break")>>)}
Leaving(v, kind) == Block(<<Exit(v, kind), Jump("break")>>)
Labels == {<<0, 1, 2>>, <<0, 1, Default>>, <<0, Default, 1>>, <<Default, 0, 1>>}
SwitchPrograms ==
    {Traced(Block(<<Set("s", {1}, Input(2)), Switch(Input(1), labels, <<f, g, h>>), Trace(2)>>)) :
        labels \in Labels, f \in Case(0), g \in Case(1) \cup {Leaving("s", "return")}, h \in Case(2) \ {<<>>}}
    \cup {Traced(For("i", Value(2), Switch(Whole("i"), labels, <<Leaving("i", kind), <<>>, Block(<<Trace(2), Jump("break")>>)>>), unroll)) :
            labels \in Labels, kind \in {"break", "return"}, unroll \in {Tried, AsLoop}}

-----------------------------------------------------------------------------
(* Data flow: copies of vectors and elements of arrays.                    *)

Copies ==
    {Set("a", {1, 2}, Part("b", <<2, 1>>)), Set("a", {1}, Part("b", <<2>>)), Set("b", {2}, Part("a", <<1>>)),
     Set("u", {1}, Part("b", <<2>>)),
     SetElement("x", Value(1), Whole("a")), SetElement("x", Input(1), Whole("b")),
     Set("b", {1, 2}, GetElement("x", Input(2)))}
Choice == Compute("less", Input(1), Value(1))
Wraps(f, g) == {Block(<<If(Choice, f, g)>>), Block(<<f, If(Choice, g, <<>>)>>), For("i", Value(2), Block(<<f, g>>), AsLoop)}
FilledWith(v, f(_)) == Block(<<SetElement(v, Value(0), f(0)), SetElement(v, Value(1), f(1)), SetElement(v, Value(2), f(2))>>)
Sum(f, n, m) == Compute("add", f, <<ConstantNode(1, <<n, m>>)>>)
Shown(body) == Block(<<Set("a", {1, 2}, Whole("u")), Set("b", {1, 2}, Sum(Whole("u"), 1, 2)),
                       FilledWith("x", LAMBDA e : <<ConstantNode(1, <<e + 4, e + 7>>)>>), body,
                       Set("o", {1, 2}, Whole("a")), Set("o", {3, 4}, Whole("b"))>>)
CopyPrograms == UNION {{Shown(Block(<<w, Set("a", {1, 2}, GetElement("x", Value(1)))>>)) : w \in Wraps(f, g)} : f, g \in Copies}
\* A copy, then a store to what was copied, then the copy again; what is
\* copied depends on the input.
OldPrograms ==
    {Shown(Block(<<If(Choice, Set("a", {k}, Value(7)), <<>>), Set("c", {1, 2}, Whole("a")), f, Set("b", {1, 2}, Part("c", <<2, 1>>))>>)) :
        k \in 1 .. 2, f \in Copies}
\* The elements of an array are copies of those of another one, which
\* depend on the input.
IndexPrograms ==
    {Shown(Block(<<If(Choice, FilledWith("x", LAMBDA e : <<ConstantNode(1, <<e, e + 1>>)>>), <<>>),
                   FilledWith("y", LAMBDA e : GetElement("x", Value(f[e + 1]))), Set("a", {1, 2}, GetElement("y", Input(2)))>>)) :
        f \in [1 .. 3 -> 0 .. 2]}

-----------------------------------------------------------------------------
(* Expressions with constants, and vectors by components.                  *)

Leaves == {Whole("s"), Input(2), Value(2)}
Small(fn) == {Compute(fn, f, g) : f, g \in Leaves}
ExprPrograms ==
    {Block(<<Set("s", {1}, Compute("add", Input(1), Input(2))),
             Set("o", {1}, Compute(fn, f, g)), Set("o", {2}, Compute("add", f, Input(2)))>>) :
        fn \in {"add", "mul", "max"}, f \in Small("add") \cup Small("mul") \cup Small("min"),
        g \in {Value(3)} \cup {Compute(h, Whole("s"), Value(1)) : h \in {"add", "mul", "min"}}}
SumOf(k, j) == Set("a", {k}, Compute("add", Part("b", <<j>>), Input(k)))
SumPrograms == {Shown(Block(<<SumOf(1, j), f, SumOf(k, 2), Set("a", {2}, Input(1))>>)) :
                    j, k \in 1 .. 2, f \in {<<>>} \cup Copies}
\* Stores of the parts of a vector to the parts of another, in a loop, where
\* the values from before are not known.
PartPrograms ==
    {Shown(Block(<<Set("c", {1, 2}, Sum(Whole("u"), 3, 5)),
                   For("i", Value(2), Block(<<Set("a", {1}, Part("c", <<j>>)), f, Set("a", {2}, Part("c", <<2>>)), g>>), AsLoop)>>)) :
        j \in 1 .. 2, f \in Copies \cup {Set("b", {1, 2}, Whole("a"))}, g \in {<<>>, Set("a", {1}, Part("c", <<2>>))}}

\* Variables that live for a loop, or only for an iteration of an inner one.
Unsure(v, k) == Block(<<Set(v, {1}, Value(k)), If(Below("i", Input(1)), Set(v, {1}, Value(3)), <<>>)>>)
Add(v) == Set("o", {1}, Compute("add", Part("o", <<1>>), Whole(v)))
LivePrograms ==
    {Block(<<Set("v", {1}, Value(1)), Set("o", {1}, Value(0)),
             For("i", Value(2), Block(<<For("j", Value(2), Block(<<Add("v"), Count("v")>>), AsLoop),
                                        For("j", Value(1), Block(<<Unsure("w", k), Unsure("q", n), Add("w"), Trace(0), Add("q")>>), AsLoop)>>),
                 AsLoop)>>) : k \in 0 .. 1, n \in 1 .. 2}

EntryFunctions ==
    UNION {SwitchPrograms, ExprPrograms, SumPrograms, PartPrograms, IndexPrograms, CopyPrograms, OldPrograms,
           LoopPrograms, BoundedPrograms, NestedPrograms, LivePrograms}
=============================================================================
