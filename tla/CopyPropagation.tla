-------------------------- MODULE CopyPropagation --------------------------
(***************************************************************************)
(* Copy propagation of the HLSL compiler (hlsl_codegen.c): a load of a     *)
(* variable becomes the value stored last, a constant, or a load from      *)
(* where the value was loaded.                                             *)
(*                                                                         *)
(* scopes is a stack: a scope maps a component of a variable <<v, e, k>>   *)
(* to its trace, the records [time, node, comp] of what it was given; node *)
(* 0 is an unknown value.  A node knows its time from c.index; nodes made  *)
(* by the pass have none.  The walk ends at the node c.stop and leaves its *)
(* scopes as they are there.                                               *)
(***************************************************************************)
EXTENDS HlslFolding

None == [time |-> 0, node |-> 0, comp |-> 0]
Forever == 1000000

PushScope(c) == [c EXCEPT !.scopes = Append(@, <<>>)]
PopScope(c) == [c EXCEPT !.scopes = Front(@)]

\* copy_propagation_get_value(): the last record before the time in the
\* innermost scope that has one.
GetValue(scopes, place, time) ==
    LET before(s) == IF place \in DOMAIN s THEN SelectSeq(s[place], LAMBDA r : r.time < time) ELSE <<>>
        having == {n \in DOMAIN scopes : before(scopes[n]) # <<>>}
    IN  IF having = {} THEN None ELSE Last(before(scopes[Max(having)]))

RecordValue(c, place, record) ==
    LET top == Last(c.scopes)
        trace == IF place \in DOMAIN top THEN top[place] ELSE <<>>
    IN  [c EXCEPT !.scopes[Len(c.scopes)] = (place :> Append(trace, record)) @@ top]

\* copy_propagation_invalidate_variable()
InvalidatePlace(c, place, time) ==
    LET top == Last(c.scopes)
    IN  IF place \in DOMAIN top /\ Last(top[place]).time = time THEN c
        ELSE RecordValue(c, place, [time |-> time, node |-> 0, comp |-> 0])

\* The elements a path may reach; none if a constant is out of range.
Constant(i, c) == i.path = <<>> \/ IsConst(c.nodes[i.path[1]])
Elements(i, c) ==
    IF i.path = <<>> THEN {0}
    ELSE IF Constant(i, c) THEN {c.nodes[i.path[1]].vals[1]} \cap (0 .. TypeOf(i.var).len - 1)
    ELSE 0 .. TypeOf(i.var).len - 1

InvalidateStore(c, i, time) ==
    FoldSet(LAMBDA place, d : InvalidatePlace(d, place, time), c, {i.var} \X Elements(i, c) \X i.mask)

\* copy_propagation_invalidate_from_block(); of a nested loop only the body.
InvalidateFromBlock(c, block, time) ==
    FoldLeft(LAMBDA d, i : InvalidateStore(d, Resolved(i, d), time), c,
             SelectSeq(Flat(block), LAMBDA i : i.op = "store"))
\* Mutant: only the first block is looked at.
InvalidateFirst(c, blocks, time) == InvalidateFromBlock(c, blocks[1], time)
InvalidateFromBlocks(c, blocks, time) ==
    FoldLeft(LAMBDA d, b : InvalidateFromBlock(d, b, time), c, blocks)

RecordStore(c, i) ==
    LET time == c.index[i.id]
        comps == Ordered(i.mask)
    IN  IF ~Constant(i, c) \/ Elements(i, c) = {} THEN InvalidateStore(c, i, time)
        ELSE FoldLeft(LAMBDA d, n : RecordValue(d, <<i.var, CHOOSE e \in Elements(i, c) : TRUE, comps[n]>>,
                                                [time |-> time, node |-> i.args[1], comp |-> n]),
                      c, Identity(Len(comps)))

-----------------------------------------------------------------------------
(* copy_propagation_transform_load(), .._transform_swizzle(): i is a load  *)
(* or a swizzle of one, comps the components of the load it takes.         *)

\* What the component k of element e had when the load was made.
TimeOf(c, id) == IF id \in DOMAIN c.index THEN c.index[id] ELSE 0
ValueAt(c, load, e, k) == GetValue(c.scopes, <<load.var, e, k>>, TimeOf(c, load.id))

\* new_affine_path_index(): the nodes that compute index * a + d, from an id on.
AffineIndex(index, a, d, id) ==
    IF a = 0 THEN <<ConstantNode(id, <<d>>)>>
    ELSE <<ConstantNode(id, <<a>>), ConstantNode(id + 1, <<d>>),
           ExprNode(id + 2, "mul", <<index, id>>, 1), ExprNode(id + 3, "add", <<id + 2, id + 1>>, 1)>>

\* copy_propagation_replace_with_deref(): if every element of the variable
\* is a load of x[a * element + d], a load with an index that is not constant
\* is one of x[a * index + d].  sources has, for each element, the record of
\* the first component.
DerefSources(c, load, comps) == [e \in 0 .. TypeOf(load.var).len - 1 |-> ValueAt(c, load, e, comps[1])]

CanReplaceWithDeref(c, load, comps, from) ==
    LET x(e) == from[e].node
        node(e) == c.nodes[x(e)]
        d(e) == c.nodes[node(e).path[1]].vals[1]
        shape(e) == [n \in DOMAIN comps |-> ValueAt(c, load, e, comps[n])]
    IN  /\ \A e \in DOMAIN from :
            /\ x(e) # 0
            /\ node(e).op = "load" /\ node(e).var = node(0).var
            /\ Len(node(e).path) = Len(node(0).path) /\ Constant(node(e), c)
            /\ \A n \in DOMAIN comps : /\ shape(e)[n].node = x(e)
                                       /\ shape(e)[n].comp = shape(0)[n].comp
        /\ node(0).path # <<>> => \A e \in DOMAIN from : e > 1 => d(e) = d(0) + e * (d(1) - d(0))

ReplacedWithDeref(c, load, comps, from) ==
    LET first == c.nodes[from[0].node]
        d(e) == c.nodes[c.nodes[from[e].node].path[1]].vals[1]
        step == IF Cardinality(DOMAIN from) > 1 THEN d(1) - d(0) ELSE 0
        index == IF first.path = <<>> THEN <<>> ELSE AffineIndex(load.path[1], step, d(0), c.next)
        id == c.next + Len(index)
        path == IF index = <<>> THEN <<>> ELSE <<Last(index).id>>
    IN  By(index \o <<LoadNode(id, first.var, path),
                      SwizzleNode(id + 1, id, [n \in DOMAIN comps |-> ValueAt(c, load, 0, comps[n]).comp])>>)

ReplaceLoad(i, load, comps, c) ==
    LET values == [n \in DOMAIN comps |->
                    ValueAt(c, load, CHOOSE e \in Elements(load, c) : TRUE, comps[n])]
        node(n) == c.nodes[values[n].node]
        from == DerefSources(c, load, comps)
        known == \A n \in DOMAIN comps : values[n].node # 0
    IN  IF Constant(load, c)
        THEN IF Elements(load, c) = {} THEN Kept(i)
             ELSE IF ~known THEN Kept(i)
             ELSE IF \A n \in DOMAIN comps : IsConst(node(n))
             THEN By(<<ConstantNode(c.next, [n \in DOMAIN comps |-> node(n).vals[values[n].comp]])>>)
             ELSE IF \A n \in DOMAIN comps : values[n].node = values[1].node
             THEN By(<<SwizzleNode(c.next, values[1].node, [n \in DOMAIN comps |-> values[n].comp])>>)
             ELSE Kept(i)
        ELSE IF CanReplaceWithDeref(c, load, comps, from)
        THEN ReplacedWithDeref(c, load, comps, from)
        ELSE Kept(i)

TransformLoad(i, c) ==
    CASE i.op = "load" -> ReplaceLoad(i, i, Identity(Dim(i)), c)
      [] i.op = "swizzle" /\ c.nodes[i.args[1]].op = "load" -> ReplaceLoad(i, c.nodes[i.args[1]], i.comps, c)
      [] OTHER -> Kept(i)

-----------------------------------------------------------------------------
(* copy_propagation_transform_block()                                      *)

RECURSIVE PropagateBlock(_, _)

\* The kids of a node one after the other, each in a scope of its own.
PropagateKids(kids, c) ==
    FoldLeft(LAMBDA s, kid :
                IF s.c.stopped THEN [s EXCEPT !.kids = Append(@, kid)]
                ELSE LET t == PropagateBlock(kid, PushScope(s.c))
                     IN  [kids |-> Append(s.kids, t.block), c |-> IF t.c.stopped THEN t.c ELSE PopScope(t.c)],
             [kids |-> <<>>, c |-> c], kids)

\* copy_propagation_process_if(), .._process_switch() and .._process_loop():
\* what a loop stores is unknown from its start, what the branches store
\* from their end.
ProcessKids(i, c) ==
    LET time == c.index[i.id]
        start == IF i.op = "loop" THEN InvalidateFromBlocks(c, i.kids, time) ELSE c
        t == PropagateKids(Walked(i), start)
        end == IF i.op = "loop" \/ t.c.stopped THEN t.c ELSE InvalidateFromBlocks(t.c, t.kids, time)
    IN  [node |-> [i EXCEPT !.kids = t.kids \o SubSeq(@, Len(t.kids) + 1, Len(@))], c |-> end]

PropagateBlock(block, c) ==
    IF block = <<>> THEN [block |-> <<>>, c |-> c]
    ELSE LET i == Resolved(Head(block), c)
             stopping == c.stopped \/ i.id = c.stop
             inner == IF i.kids # NoKids THEN ProcessKids(i, c) ELSE [node |-> i, c |-> c]
             stored == IF i.op = "store" THEN RecordStore(c, i) ELSE inner.c
             r == TransformLoad(inner.node, stored)
             rest == PropagateBlock(Tail(block), Replaced(stored, inner.node, r))
         IN  IF stopping THEN [block |-> block, c |-> [c EXCEPT !.stopped = TRUE]]
             ELSE [block |-> r.block \o rest.block, c |-> rest.c]

PropagateFrom(p, outside, scopes, index, stop) ==
    PropagateBlock(p.block, Context(p.block, outside, p.next, <<>>) @@
        [scopes |-> scopes, index |-> index, stop |-> stop, stopped |-> FALSE])

\* hlsl_copy_propagation_execute()
CopyPropagationExecute(p) == After(p, PropagateFrom(p, <<>>, <<<<>>>>, IndexOf(p.block, 1), 0))
=============================================================================
