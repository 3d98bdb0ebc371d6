-------------------------- MODULE HlslControlFlow --------------------------
(***************************************************************************)
(* The passes of the HLSL compiler (hlsl.y, hlsl_codegen.c) that change    *)
(* how a program flows: loops of the source, returns, the unrolling of     *)
(* loops, continues, unreachable code and the cases of switches.           *)
(*                                                                         *)
(* A step on a block takes and returns the next free id with it.           *)
(***************************************************************************)
EXTENDS CopyPropagation

CONSTANT ImplicitUnrollLimit    \* stands for 254, the iterations tried without an attribute

\* var := value
SetFlag(var, value, next) ==
    <<ConstantNode(next, <<value>>), StoreNode(next + 1, var, <<>>, {1}, next)>>
\* if (!var) then
Unless(var, then, next) ==
    <<LoadNode(next, var, <<>>), ExprNode(next + 1, "not", <<next>>, 1),
      IfNode(next + 2, next + 1, then, <<>>)>>
IsJump(i, kinds) == i.op = "jump" /\ i.kind \in kinds

\* Applies f to the kids of a node in order; s carries the next free id.
MapKids(kids, next, f(_, _)) ==
    FoldLeft(LAMBDA s, kid : LET t == f(kid, s.next)
                             IN  [kids |-> Append(s.kids, t.block), next |-> t.next],
             [kids |-> <<>>, next |-> next], kids)

-----------------------------------------------------------------------------
(* create_loop(): the condition is tested where the body begins, or, in a  *)
(* do loop, where it ends and before each continue that the walk of        *)
(* resolve_loop_continue() finds.                                          *)

AppendConditionalBreak(cond, next) ==
    IF cond = <<>> THEN <<>>
    ELSE cond \o <<ExprNode(next, "not", <<Last(cond).id>>, 1),
                   IfNode(next + 1, next, <<JumpNode(next + 2, "break")>>, <<>>)>>

RECURSIVE ResolveLoopContinue(_, _, _)
ResolveLoopContinue(block, cond, next) ==
    FoldLeft(LAMBDA s, i :
                IF i.op = "if"
                THEN LET t == MapKids(i.kids, s.next, LAMBDA kid, n : ResolveLoopContinue(kid, cond, n))
                     IN  [block |-> Append(s.block, [i EXCEPT !.kids = t.kids]), next |-> t.next]
                ELSE IF IsJump(i, {"unresolved_continue"})
                THEN LET own == Clone(cond, s.next)
                         test == AppendConditionalBreak(own, s.next + CloneSize(cond))
                     IN  [block |-> s.block \o test \o <<i>>, next |-> s.next + CloneSize(cond) + 3]
                ELSE [s EXCEPT !.block = Append(@, i)],
             [block |-> <<>>, next |-> next], block)

CreateLoop(i, next) ==
    LET cond == i.kids[1]
        test == AppendConditionalBreak(cond, next)
        resolved == IF i.type = "do" THEN ResolveLoopContinue(i.kids[3], cond, next + 3)
                    ELSE [block |-> i.kids[3], next |-> next + 3]
        body == IF i.type = "do" THEN resolved.block \o test ELSE test \o resolved.block
    IN  [node |-> LoopNode(i.id, body, i.kids[2], i.unroll, i.limit), next |-> resolved.next]

RECURSIVE CreateLoops(_, _)
\* The parser creates the loops of a program, inner ones first.
CreateLoops(block, next) ==
    FoldLeft(LAMBDA s, i :
                LET inner == MapKids(i.kids, s.next, CreateLoops)
                    j == [i EXCEPT !.kids = inner.kids]
                    made == IF i.op = "source_loop" THEN CreateLoop(j, inner.next)
                            ELSE [node |-> j, next |-> inner.next]
                IN  [block |-> Append(s.block, made.node), next |-> made.next],
             [block |-> <<>>, next |-> next], block)

-----------------------------------------------------------------------------
(* lower_return(): a return becomes a flag.  In a loop or a switch it also *)
(* becomes a break, and whatever encloses that breaks too; elsewhere the   *)
(* rest of the block is guarded by the flag.  early tells whether there    *)
(* was a return in the block.                                              *)

RECURSIVE LowerReturn(_, _, _), LowerReturnFrom(_, _, _, _, _)
LowerReturn(block, in_loop, next) == LowerReturnFrom(<<>>, block, in_loop, FALSE, next)

\* insert_early_return_break()
EarlyReturnBreak(next) ==
    <<LoadNode(next, "early_return", <<>>), IfNode(next + 1, next, <<JumpNode(next + 2, "break")>>, <<>>)>>

\* The rest of the block if no return was executed.
GuardRest(done, rest, next) ==
    IF rest = <<>> THEN [block |-> done, early |-> TRUE, next |-> next]
    ELSE LET then == LowerReturn(rest, FALSE, next)
         IN  [block |-> done \o Unless("early_return", then.block, then.next), early |-> TRUE, next |-> then.next + 3]

LowerReturnFrom(done, left, in_loop, early, next) ==
    LET i == Head(left)
        inner == FoldLeft(LAMBDA s, kid :
                            LET t == LowerReturn(kid, in_loop \/ i.op # "if", s.next)
                            IN  [kids |-> Append(s.kids, t.block), early |-> s.early \/ t.early, next |-> t.next],
                          [kids |-> <<>>, early |-> early, next |-> next], Walked(i))
        j == [i EXCEPT !.kids = inner.kids \o SubSeq(@, Len(inner.kids) + 1, Len(@))]
        go(new, e, n) == LowerReturnFrom(done \o new, Tail(left), in_loop, e, n)
    IN  IF left = <<>> THEN [block |-> done, early |-> early, next |-> next]
        ELSE IF i.kids # NoKids
        THEN IF ~inner.early \/ (in_loop /\ i.op = "if") THEN go(<<j>>, inner.early, inner.next)
             ELSE IF in_loop THEN go(<<j>> \o EarlyReturnBreak(inner.next), TRUE, inner.next + 3)
             ELSE GuardRest(Append(done, j), Tail(left), inner.next)
        ELSE IF IsJump(i, {"return"})
        THEN LET flag == SetFlag("early_return", 1, next)
             IN  IF in_loop THEN go(Append(flag, [i EXCEPT !.kind = "break"]), TRUE, next + 2)
                 ELSE [block |-> done \o flag, early |-> TRUE, next |-> next + 2]
        ELSE go(<<i>>, early, next)

-----------------------------------------------------------------------------
(* Loop unrolling.                                                         *)

\* loop_unrolling_remove_jumps_recurse(): replaces one break or continue
\* with a flag and guards what follows it with both flags.
RECURSIVE RemoveJump(_, _, _, _)
RemoveJump(block, broken, continued, next) ==
    LET visit(i) ==
            IF i.op = "if"
            THEN LET then == RemoveJump(i.kids[1], broken, continued, next)
                     else == RemoveJump(i.kids[2], broken, continued, next)
                 IN  IF then.found THEN [found |-> TRUE, new |-> <<[i EXCEPT !.kids[1] = then.block]>>, next |-> then.next]
                     ELSE [found |-> else.found, new |-> <<[i EXCEPT !.kids[2] = else.block]>>, next |-> else.next]
            ELSE IF IsJump(i, {"break", "unresolved_continue"})
            THEN [found |-> TRUE, next |-> next + 2,
                  new |-> SetFlag(IF i.kind = "break" THEN broken ELSE continued, 1, next)]
            ELSE [found |-> FALSE, new |-> <<i>>, next |-> next]
        at == {k \in DOMAIN block : visit(block[k]).found}
        k == Min(at)
        v == visit(block[k])
        rest == SubSeq(block, k + 1, Len(block))
        guarded == Unless(broken, Unless(continued, rest, v.next), v.next + 3)
    IN  IF at = {} THEN [found |-> FALSE, block |-> block, next |-> next]
        ELSE [found |-> TRUE, next |-> v.next + 6,
              block |-> SubSeq(block, 1, k - 1) \o v.new \o (IF rest = <<>> THEN <<>> ELSE guarded)]

RECURSIVE RemoveJumps(_, _, _, _)
RemoveJumps(block, broken, continued, next) ==
    LET r == RemoveJump(block, broken, continued, next)
    IN  IF r.found THEN RemoveJumps(r.block, broken, continued, r.next) ELSE r

RECURSIVE LoopUnrollingSimplify(_, _)
\* Simplifies the block of p with what u knows: the nodes outside, the index
\* of each node, the first index to give, and the scopes below.  The state
\* of the last copy propagation stays.
LoopUnrollingSimplify(p, u) ==
    LET a == SimplifyExprs([p EXCEPT !.progress = FALSE], u.nodes)
        index == IndexOf(a.block, u.first) @@ u.index
        t == PropagateFrom(a, u.nodes, Append(u.scopes, <<>>), index, u.stop)
        q == FoldSwizzlesAndBranches(After(a, t), u.nodes)
    IN  IF q.progress THEN LoopUnrollingSimplify(q, u)
        ELSE [p |-> q, u |-> [u EXCEPT !.scopes = t.c.scopes, !.index = index,
                                       !.nodes = NodesOf(q.block) @@ @,
                                       !.first = @ + Len(Flat(a.block))]]

\* loop_unrolling_check_val()
IsSet(u, var) == LET v == GetValue(u.scopes, <<var, 0, 1>>, Forever)
                 IN  v.node # 0 /\ IsConst(u.nodes[v.node]) /\ u.nodes[v.node].vals[1] # 0

MaxIterations(loop) == IF loop.limit # 0 THEN loop.limit ELSE ImplicitUnrollLimit

RECURSIVE UnrollIterations(_, _, _, _, _)
\* The iterations from the n-th on.  The guarded block that is filled next
\* begins with "start"; draft is what was unrolled before it.
UnrollIterations(l, n, draft, start, s) ==
    LET flag == SetFlag(l.continued, 0, s.p.next)
        copy == Clone(l.body, s.p.next + 2)
        t == LoopUnrollingSimplify([s.p EXCEPT !.block = start \o flag \o copy,
                                               !.next = @ + 2 + CloneSize(l.body)], s.u)
        block == draft \o Unless(l.broken, t.p.block, t.p.next)
        next == t.p.next + 3
    IN  IF IsSet(t.u, l.broken) THEN [done |-> TRUE, block |-> block, next |-> next]
        ELSE LET iter == Clone(l.loop.iter, next)
                 more == [t EXCEPT !.p.next = next + CloneSize(l.loop.iter)]
             IN  IF n < MaxIterations(l.loop) THEN UnrollIterations(l, n + 1, block, iter, more)
                 ELSE [done |-> l.loop.limit # 0, next |-> more.p.next + 3,
                       block |-> block \o Unless(l.broken, iter, more.p.next)]

\* loop_unrolling_unroll_loop() and unroll_loops().  The whole program is
\* simplified up to the loop, also if the loop stays.
UnrollLoop(p, id) ==
    LET u0 == [nodes |-> <<>>, index |-> <<>>, first |-> 2, scopes |-> <<>>, stop |-> id]
        s0 == LoopUnrollingSimplify(p, u0)
        loop == s0.u.nodes[id]
        broken == "broken" \o ToString(id)
        continued == "continued" \o ToString(id)
        next == s0.p.next
        check == next + 4
        head == SetFlag(broken, 0, next) \o SetFlag(continued, 0, next + 2)
                    \o Unless(broken, <<>>, check)
        s1 == LoopUnrollingSimplify([s0.p EXCEPT !.block = head, !.next = next + 7],
                                    [s0.u EXCEPT !.first = s0.u.index[id], !.stop = check])
        body == RemoveJumps(Clone(loop.kids[1], s1.p.next), broken, continued,
                            s1.p.next + CloneSize(loop.kids[1]))
        l == [loop |-> loop @@ [iter |-> loop.kids[2]], broken |-> broken, continued |-> continued,
              body |-> body.block]
        \* without the check, which UnrollIterations makes
        start == SubSeq(s1.p.block, 1, Len(s1.p.block) - 3)
        r == UnrollIterations(l, 1, start, <<>>, [s1 EXCEPT !.p.next = body.next])
    IN  [s0.p EXCEPT !.block = Substitute(@, id :> (IF r.done THEN r.block
                                                      ELSE <<[loop EXCEPT !.unroll = "force_loop"]>>)),
                     !.next = r.next,
                     !.error = ~r.done /\ loop.unroll = "force_unroll"]

\* The loops that are to be unrolled, in the order of hlsl_transform_ir().
RECURSIVE LoopsToUnroll(_)
LoopsToUnroll(block) ==
    Joined([k \in DOMAIN block |->
        Joined([j \in DOMAIN Walked(block[k]) |-> LoopsToUnroll(Walked(block[k])[j])])
        \o (IF block[k].op = "loop" /\ block[k].unroll # "force_loop" THEN <<block[k].id>> ELSE <<>>)])

-----------------------------------------------------------------------------
(* What is done behind unrolling.                                          *)

RECURSIVE ResolveContinues(_, _, _)
\* Before a continue that is left, the loop's iter block is repeated.
ResolveContinues(block, iter, next) ==
    FoldLeft(LAMBDA s, i :
                LET own == IF i.op = "loop" THEN i.kids[2] ELSE iter
                    inner == MapKids(Walked(i), s.next, LAMBDA kid, n : ResolveContinues(kid, own, n))
                    j == [i EXCEPT !.kids = inner.kids \o SubSeq(@, Len(inner.kids) + 1, Len(@))]
                IN  IF IsJump(i, {"unresolved_continue"})
                    THEN [block |-> s.block \o Append(Clone(iter, s.next), [i EXCEPT !.kind = "continue"]),
                          next |-> s.next + CloneSize(iter)]
                    ELSE [block |-> Append(s.block, j), next |-> inner.next],
             [block |-> <<>>, next |-> next], block)

RECURSIVE ResolveLoops(_), RemoveUnreachableCode(_)
ResolveLoops(block) ==
    [k \in DOMAIN block |->
        LET i == block[k]
            kids == [j \in DOMAIN i.kids |-> ResolveLoops(i.kids[j])]
        IN  IF i.op = "loop" THEN [i EXCEPT !.kids = <<kids[1] \o i.kids[2], <<>>>>]
            ELSE [i EXCEPT !.kids = kids]]

\* What follows a break or continue in its block is removed.
RemoveUnreachableCode(block) ==
    LET jumps == {k \in DOMAIN block : IsJump(block[k], {"break", "continue"})}
        end == IF jumps = {} THEN Len(block) ELSE Min(jumps)
    IN  [k \in 1 .. end |->
            [block[k] EXCEPT !.kids = [j \in DOMAIN @ |-> RemoveUnreachableCode(@[j])]]]

EndsWithBreak(block) == block # <<>> /\ IsJump(Last(block), {"break"})

\* normalize_switch_cases(): every case ends with a break, or is empty and
\* not the last one.  The default case becomes the last one.  Empty cases
\* before it are the same case; one that is empty itself is the case behind
\* the empty ones that follow.
CasesEnd(s) == \A k \in DOMAIN s.kids :
                    IF s.kids[k] = <<>> THEN k < Len(s.kids) ELSE EndsWithBreak(s.kids[k])
NormalizeSwitchCases(s, next) ==
    LET n == Len(s.labels)
        cases == [k \in 1 .. n |-> [label |-> s.labels[k], body |-> s.kids[k]]]
        default == SelectInSeq(s.labels, LAMBDA label : label = Default)
        full(k) == cases[k].body # <<>>
        before == {k \in 1 .. default - 1 : full(k)}
        behind == {k \in default .. n : full(k)}
        kept == SubSeq(cases, 1, IF before = {} THEN 0 ELSE Max(before))
        \* the case whose body the default case has
        own == Min(behind)
        last == IF default = 0 THEN [label |-> Default, body |-> <<JumpNode(next, "break")>>]
                ELSE [label |-> Default, body |-> cases[own].body]
        ordered == IF default = 0 THEN Append(cases, last)
                   ELSE kept \o SubSeq(cases, own + 1, n) \o <<last>>
    IN  [s EXCEPT !.labels = [k \in DOMAIN ordered |-> ordered[k].label],
                  !.kids = [k \in DOMAIN ordered |-> ordered[k].body]]

RECURSIVE NormalizeSwitches(_, _)
NormalizeSwitches(block, next) ==
    [k \in DOMAIN block |->
        LET i == [block[k] EXCEPT !.kids = [j \in DOMAIN @ |-> NormalizeSwitches(@[j], next)]]
        IN  IF i.op = "switch" /\ CasesEnd(i) THEN NormalizeSwitchCases(i, next + i.id) ELSE i]
=============================================================================
