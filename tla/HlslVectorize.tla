--------------------------- MODULE HlslVectorize ---------------------------
(***************************************************************************)
(* The vectorization passes of the HLSL compiler (hlsl_codegen.c):         *)
(* expressions, and stores to a vector, of one block with the same sources *)
(* become one.                                                             *)
(*                                                                         *)
(* A block is told by its place: the node it belongs to and its number     *)
(* there.                                                                  *)
(***************************************************************************)
EXTENDS HlslControlFlow

RECURSIVE Placed(_, _)
\* The nodes in the order of the walks, each with the block it is in.
Placed(block, place) ==
    Joined([k \in DOMAIN block |->
        <<[node |-> block[k], place |-> place]>> \o
        Joined([j \in DOMAIN Walked(block[k]) |->
            Placed(Walked(block[k])[j], [parent |-> block[k].id, kid |-> j])])])
Top == [parent |-> 0, kid |-> 0]

\* What a node is a swizzle of, and which components.
UltimateSource(x, nodes) == IF nodes[x].op = "swizzle" THEN nodes[x].args[1] ELSE x
SourceComponents(x, nodes) == IF nodes[x].op = "swizzle" THEN nodes[x].comps ELSE Identity(Dim(nodes[x]))

-----------------------------------------------------------------------------
(* vectorize_exprs()                                                       *)

\* find_vectorizable_expr_groups(): an expression joins the first group with
\* room of its block, operation and sources, or begins a new one.
VectorizableExprs(block) ==
    LET nodes == NodesOf(block)
        exprs == SelectSeq(Placed(block, Top), LAMBDA t : t.node.op = "expr")
    IN  Stored([k \in DOMAIN exprs |->
            LET e == exprs[k].node
            IN  [id |-> e.id, dim |-> e.dim, place |-> exprs[k].place, fn |-> e.fn,
                 sources |-> [a \in DOMAIN e.args |-> UltimateSource(e.args[a], nodes)]]])

RecordVectorizableExpr(groups, e) ==
    LET fits == {g \in DOMAIN groups : /\ e.dim + groups[g].count <= 4
                                       /\ groups[g].place = e.place
                                       /\ groups[g].fn = e.fn
                                       /\ groups[g].sources = e.sources}
    IN  IF fits = {}
        THEN Append(groups, [place |-> e.place, fn |-> e.fn, sources |-> e.sources,
                             exprs |-> <<e.id>>, count |-> e.dim])
        ELSE [groups EXCEPT ![Min(fits)].exprs = Append(@, e.id), ![Min(fits)].count = @ + e.dim]

\* The group becomes one expression in the place of its first member, and
\* each member a swizzle of it.  An operand may be a swizzle of a group
\* before.
CombineExprs(p, g) ==
    LET nodes == NodesOf(p.block)
        e(n) == nodes[g.exprs[n]]
        operand(a) == SwizzleNode(p.next + a - 1, UltimateSource(e(1).args[a], nodes),
                                  Joined([n \in DOMAIN g.exprs |-> SourceComponents(e(n).args[a], nodes)]))
        operands == [a \in DOMAIN e(1).args |-> operand(a)]
        id == p.next + Len(operands)
        combined == ExprNode(id, e(1).fn, [a \in DOMAIN operands |-> operands[a].id], g.count)
        offset(n) == FoldLeft(LAMBDA m, k : m + e(k).dim, 0, Identity(n - 1))
        part(n) == SwizzleNode(e(n).id, id, [k \in 1 .. e(n).dim |-> offset(n) + k])
        number(x) == CHOOSE n \in DOMAIN g.exprs : g.exprs[n] = x
    IN  [p EXCEPT !.block = Substitute(@, [x \in Range(g.exprs) |->
                                IF x = g.exprs[1] THEN operands \o <<combined, part(1)>> ELSE <<part(number(x))>>]),
                  !.next = id + 1, !.progress = TRUE]

VectorizeExprs(p) ==
    FoldLeft(LAMBDA q, g : IF Len(g.exprs) = 1 THEN q ELSE CombineExprs(q, g), p,
             FoldLeft(RecordVectorizableExpr, <<>>, VectorizableExprs(p.block)))

-----------------------------------------------------------------------------
(* vectorize_stores()                                                      *)

\* can_vectorize_store(): into a vector; an element of an array is one.
CanVectorizeStore(s) == TypeOf(s.var).dim > 1

\* find_vectorizable_store_groups(): a load makes the groups of its variable
\* dirty, and so does a store that cannot be vectorized.
StoresAndLoads(block) ==
    LET nodes == NodesOf(block)
        seq == SelectSeq(Placed(block, Top), LAMBDA t : t.node.op \in {"load", "store"})
    IN  Stored([k \in DOMAIN seq |->
            LET i == seq[k].node
                vector == i.op = "store" /\ CanVectorizeStore(i)
            IN  [id |-> i.id, var |-> i.var, path |-> i.path, place |-> seq[k].place, vector |-> vector,
                 source |-> IF vector THEN UltimateSource(i.args[1], nodes) ELSE 0]])

\* record_vectorizable_store(): a store joins the first group of its vector,
\* block and source; those it passes by become dirty if they are of the
\* same variable.
RecordVectorizableStore(groups, s) ==
    LET same(g) == /\ groups[g].var = s.var /\ groups[g].path = s.path
                   /\ groups[g].place = s.place /\ groups[g].source = s.source
        takes == {g \in DOMAIN groups :
                    s.vector /\ ~groups[g].dirty /\ same(g) /\ Len(groups[g].stores) < 4}
        taker == IF takes = {} THEN Len(groups) + 1 ELSE Min(takes)
        spoils(g) == g < taker /\ groups[g].var = s.var /\ ~(s.vector /\ same(g))
        marked == [g \in DOMAIN groups |-> [groups[g] EXCEPT !.dirty = @ \/ spoils(g)]]
    IN  IF ~s.vector THEN marked
        ELSE IF takes = {}
        THEN Append(marked, [place |-> s.place, var |-> s.var, path |-> s.path, source |-> s.source,
                             stores |-> <<s.id>>, dirty |-> FALSE])
        ELSE [marked EXCEPT ![taker].stores = Append(@, s.id)]

\* The group becomes one store in the place of its last member; of stores to
\* the same component the last one counts.
CombineStores(p, g) ==
    LET nodes == NodesOf(p.block)
        s(n) == nodes[g.stores[n]]
        mask == UNION {s(n).mask : n \in DOMAIN g.stores}
        position(n, k) == Cardinality({j \in s(n).mask : j <= k})
        component(k) == LET n == Max({m \in DOMAIN g.stores : k \in s(m).mask})
                        IN  SourceComponents(s(n).args[1], nodes)[position(n, k)]
        rhs == SwizzleNode(p.next, UltimateSource(s(1).args[1], nodes),
                           [n \in DOMAIN Ordered(mask) |-> component(Ordered(mask)[n])])
        store == StoreNode(p.next + 1, g.var, g.path, mask, p.next)
    IN  [p EXCEPT !.block = Substitute(@, [x \in Range(g.stores) |->
                                IF x = Last(g.stores) THEN <<rhs, store>> ELSE <<>>]),
                  !.next = @ + 2, !.progress = TRUE]

VectorizeStores(p) ==
    FoldLeft(LAMBDA q, g : IF Len(g.stores) = 1 THEN q ELSE CombineStores(q, g), p,
             FoldLeft(RecordVectorizableStore, <<>>, StoresAndLoads(p.block)))
=============================================================================
