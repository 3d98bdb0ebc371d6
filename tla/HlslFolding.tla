---------------------------- MODULE HlslFolding ----------------------------
(***************************************************************************)
(* The passes of the HLSL compiler that rewrite single nodes               *)
(* (libs/vkd3d-shader/hlsl_constant_ops.c and hlsl_codegen.c): constants,  *)
(* binary expressions, swizzles, conditional branches and dead code.       *)
(*                                                                         *)
(* A rule says for a node which nodes take its place and which of them has *)
(* its value: [block, as].  The context c of a walk holds the nodes as     *)
(* they are now by id, the next free id, which id each replaced node stands for, *)
(* and whether there was progress; facts holds what a pass computed first. *)
(***************************************************************************)
EXTENDS HlslIr

Kept(i) == [block |-> <<i>>, as |-> i.id]
\* hlsl_replace_node(): the last of the new nodes has the value.
By(nodes) == [block |-> nodes, as |-> Last(nodes).id]
\* The node goes, and its uses become uses of another one.
Alias(id) == [block |-> <<>>, as |-> id]

IsConst(i) == i.op = "constant"

FoldConstantExprs(i, c) ==
    IF i.op = "expr" /\ \A a \in Range(i.args) : IsConst(c.nodes[a])
    THEN By(<<ConstantNode(c.next, EvalExpr(i, [a \in DOMAIN i.args |-> c.nodes[i.args[a]].vals]))>>)
    ELSE Kept(i)

FoldConstantIdentities(i, c) ==
    LET const(a) == IsConst(c.nodes[i.args[a]])
        k == IF const(1) THEN 1 ELSE 2
        all(n) == Range(c.nodes[i.args[k]].vals) = {n}
        mut == i.args[3 - k]
    IN  IF i.op # "expr" \/ Len(i.args) # 2 THEN Kept(i)
        ELSE IF ~const(1) /\ ~const(2) THEN Kept(i)
        ELSE IF \/ i.fn \in {"add", "or"} /\ all(0)
                \/ i.fn \in {"mul", "and"} /\ all(1) THEN Alias(mut)
        ELSE IF \/ i.fn = "and" /\ all(0)
                \/ i.fn = "or" /\ all(1) THEN Alias(i.args[k])
        ELSE Kept(i)

Associative == {"add", "mul", "max", "min", "and", "or"}
Commutative == Associative
\* <<opl, opr>>: x opl (y opr z) = (x opl y) opr (x opl z).
LeftDistributive == {<<"mul", "add">>, <<"max", "min">>, <<"min", "max">>}

Binary(i, fn) == i.op = "expr" /\ Len(i.args) = 2 /\ i.fn = fn

\* collect_exprs(): (x OPL a) OPR (x OPL b) -> x OPL (a OPR b).
Collects(opr, c, x, y) ==
    LET e1 == c.nodes[x]
        e2 == c.nodes[y]
    IN  /\ e1.op = "expr" /\ e2.op = "expr" /\ e1.fn = e2.fn /\ <<e1.fn, opr>> \in LeftDistributive
        /\ e1.args[1] = e2.args[1] /\ IsConst(c.nodes[e1.args[2]]) /\ IsConst(c.nodes[e2.args[2]])
Collected(opr, c, x, y) ==
    LET e1 == c.nodes[x]
        e2 == c.nodes[y]
    IN  <<ExprNode(c.next, opr, <<e1.args[2], e2.args[2]>>, e1.dim),
          ExprNode(c.next + 1, e1.fn, <<e1.args[1], c.next>>, e1.dim)>>

NormalizeBinaryExprs(i, c) ==
    LET n(x) == c.nodes[x]
        const(x) == IsConst(n(x))
        op == i.fn
        swap == op \in Commutative /\ const(i.args[1]) /\ ~const(i.args[2])
        a == IF swap THEN i.args[2] ELSE i.args[1]
        b == IF swap THEN i.args[1] ELSE i.args[2]
        same(x) == op \in Associative /\ Binary(n(x), op)
        \* x is (y OP constant), and y is not a constant
        ends(x) == same(x) /\ ~const(n(x).args[1]) /\ const(n(x).args[2])
        new(x, y) == ExprNode(c.next, op, <<x, y>>, i.dim)
        then(nodes, x, y) == By(Append(nodes, ExprNode(c.next + Len(nodes), op, <<x, y>>, i.dim)))
    IN  IF i.op # "expr" \/ Len(i.args) # 2 THEN Kept(i)
        ELSE IF Collects(op, c, i.args[1], i.args[2]) THEN By(Collected(op, c, i.args[1], i.args[2]))
        ELSE IF ends(a) /\ const(b)                      \* x OP (a OP b)
        THEN then(<<new(n(a).args[2], b)>>, n(a).args[1], c.next)
        ELSE IF ends(a)                                  \* (x OP y) OP a
        THEN then(<<new(n(a).args[1], b)>>, c.next, n(a).args[2])
        ELSE IF swap THEN then(<<>>, a, b)               \* x OP a
        ELSE IF ~const(a) /\ ends(b)                     \* (x OP y) OP a
        THEN then(<<new(a, n(b).args[1])>>, c.next, n(b).args[2])
        ELSE IF same(a) /\ Collects(op, c, n(a).args[2], b)
        THEN then(Collected(op, c, n(a).args[2], b), n(a).args[1], c.next + 1)
        ELSE IF same(a) /\ Collects(op, c, n(a).args[1], b)
        THEN then(Collected(op, c, n(a).args[1], b), c.next + 1, n(a).args[2])
        ELSE IF same(b) /\ Collects(op, c, a, n(b).args[1])
        THEN then(Collected(op, c, a, n(b).args[1]), c.next + 1, n(b).args[2])
        ELSE IF same(b) /\ Collects(op, c, a, n(b).args[2])
        THEN then(Collected(op, c, a, n(b).args[2]), c.next + 1, n(b).args[1])
        ELSE Kept(i)

FoldConstantSwizzles(i, c) ==
    IF i.op = "swizzle" /\ IsConst(c.nodes[i.args[1]])
    THEN By(<<ConstantNode(c.next, CombineSwizzles(c.nodes[i.args[1]].vals, i.comps))>>)
    ELSE Kept(i)

FoldSwizzleChains(i, c) ==
    IF i.op = "swizzle" /\ c.nodes[i.args[1]].op = "swizzle"
    THEN LET inner == c.nodes[i.args[1]]
         IN  By(<<SwizzleNode(c.next, inner.args[1], CombineSwizzles(inner.comps, i.comps))>>)
    ELSE Kept(i)

RemoveTrivialSwizzles(i, c) ==
    IF i.op = "swizzle" /\ i.comps = Identity(Dim(c.nodes[i.args[1]])) THEN Alias(i.args[1]) ELSE Kept(i)

RemoveTrivialConditionalBranches(i, c) ==
    IF i.op = "if" /\ IsConst(c.nodes[i.args[1]])
    THEN [block |-> i.kids[IF c.nodes[i.args[1]].vals[1] # 0 THEN 1 ELSE 2], as |-> i.id]
    ELSE Kept(i)

-----------------------------------------------------------------------------
(* Liveness and dead code.                                                 *)

RECURSIVE Accesses(_, _, _)
\* compute_liveness_recurse(): the accesses of variables in order, as
\* [op, var, index, first, last].  In a loop an access counts for the whole
\* outermost loop: it may be the first write when the loop begins, and the
\* last read when it ends.
Accesses(block, index, loop) ==
    Joined([k \in DOMAIN block |->
        LET i == block[k]
            n == index[i.id]
            inner == IF loop # <<>> \/ i.op # "loop" THEN loop ELSE <<n, n + 1 + Len(Flat(i.kids[1]))>>
        IN  IF i.op \in {"load", "store"}
            THEN <<[op |-> i.op, var |-> i.var, first |-> IF loop = <<>> THEN n ELSE loop[1],
                    last |-> IF loop = <<>> THEN n ELSE loop[2]]>>
            ELSE Joined([j \in DOMAIN Walked(i) |-> Accesses(Walked(i)[j], index, inner)])])

\* compute_liveness(): first_write and last_read of each variable, 0 for never.
ComputeLiveness(block) ==
    LET s == Accesses(block, IndexOf(block, 1), <<>>)
        of(v, op) == SelectSeq(s, LAMBDA a : a.var = v /\ a.op = op)
    IN  Stored([v \in {s[k].var : k \in DOMAIN s} |->
            [first_write |-> IF of(v, "store") = <<>> THEN 0 ELSE of(v, "store")[1].first,
             last_read |-> FoldLeft(LAMBDA m, a : IF a.last > m THEN a.last ELSE m, 0, of(v, "load"))]])

Outputs == {"O"}    \* variables with is_output_semantic

\* What dce() reads: the liveness, the indices, and which nodes have uses.
DceFacts(block) ==
    [life |-> ComputeLiveness(block), index |-> IndexOf(block, 1), used |-> UsedIn(block)]

Dce(i, c) ==
    LET dead == \/ i.op \in {"constant", "expr", "swizzle", "load"} /\ i.id \notin c.facts.used
                \/ i.op = "store" /\ i.var \notin Outputs
                   /\ c.facts.life[i.var].last_read < c.facts.index[i.id]
    IN  IF dead THEN Alias(i.id) ELSE Kept(i)

-----------------------------------------------------------------------------
(* hlsl_transform_ir()                                                     *)

Rule(pass, i, c) ==
    CASE pass = "fold_constant_exprs" -> FoldConstantExprs(i, c)
      [] pass = "normalize_binary_exprs" -> NormalizeBinaryExprs(i, c)
      [] pass = "fold_constant_identities" -> FoldConstantIdentities(i, c)
      [] pass = "fold_constant_swizzles" -> FoldConstantSwizzles(i, c)
      [] pass = "fold_swizzle_chains" -> FoldSwizzleChains(i, c)
      [] pass = "remove_trivial_swizzles" -> RemoveTrivialSwizzles(i, c)
      [] pass = "remove_trivial_conditional_branches" -> RemoveTrivialConditionalBranches(i, c)
      [] pass = "dce" -> Dce(i, c)

\* The node with the operands that stand for replaced ones.
Resolved(i, c) == [i EXCEPT !.args = [a \in DOMAIN @ |-> Renamed(c.subst, @[a])],
                            !.path = [a \in DOMAIN @ |-> Renamed(c.subst, @[a])]]

\* c after i was replaced as a rule says.
Replaced(c, i, r) ==
    LET new == SelectSeq(r.block, LAMBDA n : n.id \notin DOMAIN c.nodes \/ n.id = i.id)
        changed == r.block # <<i>>
    IN  [c EXCEPT !.nodes = [id \in {new[k].id : k \in DOMAIN new} |->
                                CHOOSE n \in Range(new) : n.id = id] @@ @,
                  !.next = FoldLeft(LAMBDA m, n : IF n.id >= m THEN n.id + 1 ELSE m, @, new),
                  !.subst = IF r.as = i.id THEN @ ELSE (i.id :> r.as) @@ @,
                  !.progress = @ \/ changed]

RECURSIVE Transform(_, _, _)
Transform(pass, block, c) ==
    IF block = <<>> THEN [block |-> <<>>, c |-> c]
    ELSE LET i == Resolved(Head(block), c)
             inner == FoldLeft(LAMBDA s, kid :
                                    LET t == Transform(pass, kid, s.c)
                                    IN  [kids |-> Append(s.kids, t.block), c |-> t.c],
                               [kids |-> <<>>, c |-> c], Walked(i))
             visited == [i EXCEPT !.kids = inner.kids \o SubSeq(@, Len(inner.kids) + 1, Len(@))]
             r == Rule(pass, visited, inner.c)
             rest == Transform(pass, Tail(block), Replaced(inner.c, visited, r))
         IN  [block |-> r.block \o rest.block, c |-> rest.c]

\* "outside" holds nodes that are not in the block but that it may use.
Context(block, outside, next, facts) ==
    [nodes |-> NodesOf(block) @@ outside, next |-> next, subst |-> <<>>, progress |-> FALSE, facts |-> facts]

\* A program p is [block, next, progress, error]: next is above all ids in use.
After(p, t) == [p EXCEPT !.block = Rename(t.block, t.c.subst), !.next = t.c.next,
                         !.progress = @ \/ t.c.progress]
TransformIr(pass, p, outside) == After(p, Transform(pass, p.block, Context(p.block, outside, p.next, <<>>)))
Passes(names, p, outside) == FoldLeft(LAMBDA q, pass : TransformIr(pass, q, outside), p, names)

DeadCodePass(p) == After(p, Transform("dce", p.block, Context(p.block, <<>>, p.next, DceFacts(p.block))))

\* A round of simplify_exprs(), and what hlsl_run_folding_passes() and
\* loop_unrolling_simplify() do behind copy propagation.
SimplifyRound(p, outside) ==
    Passes(<<"fold_constant_exprs", "normalize_binary_exprs", "fold_constant_identities",
             "fold_constant_swizzles">>, p, outside)
FoldSwizzlesAndBranches(p, outside) ==
    Passes(<<"fold_swizzle_chains", "remove_trivial_swizzles", "remove_trivial_conditional_branches">>, p, outside)

RECURSIVE SimplifyExprs(_, _)
SimplifyExprs(p, outside) ==
    LET q == SimplifyRound([p EXCEPT !.progress = FALSE], outside)
    IN  IF q.progress THEN [SimplifyExprs(q, outside) EXCEPT !.progress = TRUE] ELSE p
=============================================================================
