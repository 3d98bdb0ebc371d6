-------------------------- MODULE CfgStructurizer --------------------------
(***************************************************************************)
(* The structurizer of vkd3d-shader (libs/vkd3d-shader/ir.c): a function   *)
(* given as a control flow graph of labelled blocks becomes nested loops   *)
(* and selections, is simplified, and is emitted with trampolines for the  *)
(* jumps that leave more than one loop.  For targets other than MSL the    *)
(* constructs are flattened to labelled blocks again.                      *)
(*                                                                         *)
(* An action is a pass.  The result is then executed, and must walk        *)
(* through the blocks as ControlFlow says, for every graph.                *)
(***************************************************************************)
EXTENDS Naturals, Sequences, FiniteSets, TLC, SequencesExt, FiniteSetsExt

CONSTANT
    Sources         \* a sequence of sets of functions from labels to terminators

VARIABLES
    pass,           \* the pass that runs next, or how the compilation ended
    source,         \* the function that is compiled
    blocks,         \* the graph: the terminator of each block
    dominates,      \* the labels each block dominates
    loops,          \* the loop of each header: a set of labels
    order,          \* the blocks in topological order
    intervals,      \* where the loops begin and end in this order
    program,        \* the structured program, a tree
    code,           \* the instructions
    at, value,      \* the block that runs and what it computed
    pc, jump_target \* where it runs, and the temp that trampolines read

graphVars == <<source, blocks, dominates, loops>>
runVars == <<at, value, pc, jump_target>>
vars == <<pass, graphVars, order, intervals, program, code, runVars>>

CF == INSTANCE ControlFlow

Labels == DOMAIN blocks

-----------------------------------------------------------------------------
(* Switches become ladders of conditional branches.                        *)

\* The condition of block b: its value, or whether its value is that of case j.
Whether(b, j) == [of |-> b, case |-> j]
Holds(c) == IF c.case = 0 THEN value # 0 ELSE value = c.case
Branch(to) == [op |-> "branch", to |-> to]
Cond(c, yes, no) == [op |-> "cond", cond |-> c, yes |-> yes, no |-> no]

\* The blocks of a switch: the first stays in b, the others get new labels.
Ladder(t, b, first) ==
    [j \in DOMAIN t.cases |->
        Cond(Whether(b, j), t.cases[j],
             IF j = Len(t.cases) THEN t.default ELSE first + j)]

LowerBlock(lowered, b) ==
    LET t == source[b]
        ladder == Ladder(t, b, Len(lowered))
    IN  CASE t.op = "switch" /\ t.cases = <<>> ->
                [lowered EXCEPT ![b] = Branch(t.default)]
          [] t.op = "switch" /\ t.cases # <<>> ->
                [lowered EXCEPT ![b] = ladder[1]] \o Tail(ladder)
          [] t.op = "cond" ->
                [lowered EXCEPT ![b] = Cond(Whether(b, 0), t.yes, t.no)]
          [] OTHER -> lowered

LowerSwitchToSelectionLadder ==
    /\ pass = "lower"
    /\ blocks' = FoldLeft(LowerBlock, source, [b \in DOMAIN source |-> b])
    /\ pass' = "analyse"
    /\ UNCHANGED <<source, dominates, loops, order, intervals, program, code, runVars>>

-----------------------------------------------------------------------------
(* Dominance and loops.                                                    *)

\* vsir_cfg_add_edge() drops an edge that is there already.
Successors(b) ==
    LET t == blocks[b]
    IN  CASE t.op = "ret" -> <<>>
          [] t.op = "branch" -> <<t.to>>
          [] t.op = "cond" -> IF t.yes = t.no THEN <<t.yes>> ELSE <<t.yes, t.no>>

Predecessors(b) == {p \in Labels : Contains(Successors(p), b)}

\* Mutant: the visit does not stop at the reference block.
RECURSIVE VisitThrough(_, _, _)
VisitThrough(left, current, reference) ==
    IF current \notin left THEN left
    ELSE FoldLeft(LAMBDA l, s : VisitThrough(l, s, reference), left \ {current}, Successors(current))

\* vsir_cfg_compute_dominators_recurse(): a visit that avoids the reference
\* block and clears what it reaches.
RECURSIVE Visit(_, _, _)
Visit(left, current, reference) ==
    IF current = reference \/ current \notin left THEN left
    ELSE FoldLeft(LAMBDA l, s : Visit(l, s, reference), left \ {current}, Successors(current))

ComputeDominators ==
    /\ pass = "analyse"
    /\ dominates' = [b \in Labels |-> Visit(Labels, 1, b)]
    /\ pass' = "loops"
    /\ UNCHANGED <<source, blocks, loops, order, intervals, program, code, runVars>>

\* vsir_cfg_scan_loop()
RECURSIVE ScanLoop(_, _, _)
ScanLoop(loop, b, header) ==
    IF b \in loop THEN loop
    ELSE IF b = header THEN loop \cup {b}
    ELSE FoldSet(LAMBDA p, l : ScanLoop(l, p, header), loop \cup {b}, Predecessors(b))

BackEdges == {e \in Labels \X Labels :
                 Contains(Successors(e[1]), e[2]) /\ e[1] \in dominates[e[2]]}

ComputeLoops ==
    /\ pass = "loops"
    /\ IF \E e, f \in BackEdges : e # f /\ e[2] = f[2]
       THEN pass' = "not implemented" /\ UNCHANGED loops
       ELSE /\ loops' = [h \in {e[2] : e \in BackEdges} |->
                            ScanLoop({}, (CHOOSE e \in BackEdges : e[2] = h)[1], h)]
            /\ pass' = "sort"
    /\ UNCHANGED <<source, blocks, dominates, order, intervals, program, code, runVars>>

-----------------------------------------------------------------------------
(* The topological order, in which loops are contiguous.                   *)

IsHeader(b) == b \in DOMAIN loops
Interval(begin, end, synthetic) == [begin |-> begin, end |-> end, synthetic |-> synthetic]
Forward(b, s) == b \notin dominates[s]

\* Add the blocks seen to the innermost loop; close it when they are all seen.
RECURSIVE CloseLoops(_, _)
CloseLoops(s, seen) ==
    IF s.stack = <<>> THEN s
    ELSE LET top == Last(s.stack)
             count == Cardinality(top.loop)
             now == top.seen + seen
         IN  CASE now > count -> [s EXCEPT !.result = "abort"]
               [] now < count -> [s EXCEPT !.stack = Append(Front(s.stack), [top EXCEPT !.seen = now])]
               [] now = count ->
                    CloseLoops([s EXCEPT !.stack = Front(s.stack),
                                         !.intervals = Append(@, Interval(top.begin, Len(s.order), FALSE))],
                               count)

RemoveEdge(s, b, to) ==
    IF ~Forward(b, to) THEN s
    ELSE IF s.degree[to] = 0 THEN [s EXCEPT !.result = "abort"]
    ELSE LET t == [s EXCEPT !.degree[to] = @ - 1]
         IN  IF t.degree[to] = 0 THEN [t EXCEPT !.available = Append(@, to)] ELSE t

Viable(s) ==
    {i \in DOMAIN s.available : s.stack = <<>> \/ s.available[i] \in Last(s.stack).loop}

PickBlock(s) ==
    LET i == Max(Viable(s))
        b == s.available[i]
        opened == IF IsHeader(b)
                  THEN Append(s.stack, [loop |-> loops[b], seen |-> 0, begin |-> Len(s.order)])
                  ELSE s.stack
        picked == [s EXCEPT !.stack = opened,
                            !.available = RemoveAt(@, i),
                            !.order = Append(@, b)]
    IN  IF Viable(s) = {} THEN [s EXCEPT !.result = "invalid"]
        ELSE FoldLeft(LAMBDA t, to : RemoveEdge(t, b, to), CloseLoops(picked, 1), Successors(b))

RECURSIVE SortFrom(_)
SortFrom(s) ==
    IF s.available = <<>> \/ s.result # "ok" THEN s ELSE SortFrom(PickBlock(s))

InDegree(b) == Cardinality(Predecessors(b)) - IF IsHeader(b) THEN 1 ELSE 0

SortNodes ==
    LET s == SortFrom([available |-> <<1>>, order |-> <<>>, stack |-> <<>>,
                       degree |-> [b \in Labels |-> InDegree(b)],
                       intervals |-> <<>>, result |-> "ok"])
    IN  /\ pass = "sort"
        /\ IF (\E b \in Labels \ {1} : InDegree(b) = 0) \/ InDegree(1) # 0
           THEN pass' = "invalid" /\ UNCHANGED <<order, intervals>>
           ELSE /\ order' = s.order /\ intervals' = s.intervals
                /\ pass' = CASE s.result # "ok" -> s.result
                             [] s.result = "ok" /\ Len(s.order) # Len(blocks) -> "invalid"
                             [] s.result = "ok" /\ Len(s.order) = Len(blocks) ->
                                  IF s.stack = <<>> THEN "intervals" ELSE "abort"
        /\ UNCHANGED <<graphVars, program, code, runVars>>

-----------------------------------------------------------------------------
(* Loop intervals.  A synthetic one is there for its break, which carries  *)
(* a forward edge over the blocks in between.                              *)

Pos(b) == CHOOSE i \in 0 .. Len(order) - 1 : order[i + 1] = b

ForwardEdges == FlattenSeq([b \in Labels |->
    SelectSeq([i \in DOMAIN Successors(b) |-> <<b, Successors(b)[i]>>],
              LAMBDA e : Forward(e[1], e[2]))])

\* The interval that an edge can use for its break: one that contains the
\* block, or a synthetic one that can be extended to contain it.
Usable(ivs, from, to) ==
    {i \in DOMAIN ivs : ivs[i].end = to /\ (ivs[i].begin <= from \/ ivs[i].synthetic)}

\* Move the begin back over the intervals that end in between.
BeginOf(ivs, from, to) ==
    FoldLeft(LAMBDA b, iv : IF b < iv.end /\ iv.end < to THEN Min({b, iv.begin}) ELSE b, from, ivs)

\* Mutant: a synthetic interval that the new one cuts is not moved.
StretchNothing(ivs, begin, to) == ivs

\* Move the begin of the synthetic intervals that the new one would cut.
Stretch(ivs, begin, to) ==
    [i \in DOMAIN ivs |->
        IF ivs[i].synthetic /\ ivs[i].begin < to /\ to < ivs[i].end
        THEN [ivs[i] EXCEPT !.begin = Min({begin, @})] ELSE ivs[i]]

\* One edge; the result is empty if an assertion of the code fails.
AddEdgeInterval(s, e) ==
    LET from == Pos(e[1])
        to == Pos(e[2])
        usable == Usable(s.ivs, from, to)
        extend == Min(usable)
        begin == BeginOf(s.ivs, from, to)
        stretched == Stretch(s.ivs, begin, to)
    IN  IF from >= to THEN [s EXCEPT !.ok = FALSE]
        ELSE IF from + 1 = to \/ (usable # {} /\ s.ivs[extend].begin <= from) THEN s
        ELSE [ok |-> s.ok /\ \A i \in DOMAIN stretched :
                        stretched[i].begin < to /\ to < stretched[i].end => stretched[i].begin <= begin,
              ivs |-> IF usable # {} THEN [stretched EXCEPT ![extend].begin = begin]
                      ELSE Append(stretched, Interval(begin, to, TRUE))]

Outer(i, j) == i.begin < j.begin \/ (i.begin = j.begin /\ i.end > j.end)

GenerateSyntheticLoopIntervals ==
    LET s == FoldLeft(AddEdgeInterval, [ok |-> TRUE, ivs |-> intervals], ForwardEdges)
    IN  /\ pass = "intervals"
        /\ intervals' = SortSeq(s.ivs, Outer)
        /\ pass' = IF s.ok THEN "build" ELSE "abort"
        /\ UNCHANGED <<graphVars, order, program, code, runVars>>

-----------------------------------------------------------------------------
(* The structured program: sequences of blocks, loops, selections, jumps.  *)

Always == [of |-> 0, case |-> 0]
Block(b) == [type |-> "block", block |-> b]
Loop(i, body) == [type |-> "loop", idx |-> i, body |-> body]
Selection(c, invert, if_body, else_body) ==
    [type |-> "selection", cond |-> c, invert |-> invert, if_body |-> if_body, else_body |-> else_body]
Jump(kind, target, c, invert) ==
    [type |-> "jump", kind |-> kind, target |-> target, cond |-> c, invert |-> invert]

\* The innermost loop around block b that begins at block s.
ContinueTargets(b, s) ==
    {i \in DOMAIN intervals : intervals[i].begin = Pos(s) /\ Pos(b) < intervals[i].end}

\* The loops around block b that end at block s.
BreakTargets(b, s) ==
    {i \in DOMAIN intervals : intervals[i].begin <= Pos(b) /\ intervals[i].end = Pos(s)}

EdgeAction(b, s) ==
    LET act(kind, target) == [kind |-> kind, target |-> target]
    IN  IF Pos(s) <= Pos(b)
        THEN IF ContinueTargets(b, s) = {} THEN act("abort", 0)
             ELSE act("continue", Max(ContinueTargets(b, s)))
        ELSE IF BreakTargets(b, s) # {} THEN act("break", Min(BreakTargets(b, s)))
        ELSE act(IF Pos(s) = Pos(b) + 1 THEN "none" ELSE "abort", 0)

Unconditional(a) == IF a.kind = "none" THEN <<>> ELSE <<Jump(a.kind, a.target, Always, FALSE)>>

\* Zero to two jumps at the end of a block in the loop "inner".
Jumps(b, inner) ==
    LET t == blocks[b]
        yes == EdgeAction(b, t.yes)
        no == EdgeAction(b, t.no)
        invert == yes.kind = "none" \/ (yes.kind = "continue" /\ yes.target = inner)
        first == IF invert THEN no ELSE yes
        second == IF invert THEN yes ELSE no
    IN  CASE t.op = "ret" -> <<Jump("ret", 0, Always, FALSE)>>
          [] t.op = "branch" -> Unconditional(EdgeAction(b, t.to))
          [] t.op = "cond" /\ t.yes = t.no -> Unconditional(yes)
          [] t.op = "cond" /\ t.yes # t.no ->
                <<Jump(first.kind, first.target, t.cond, invert)>> \o Unconditional(second)

RECURSIVE OpenLoops(_, _), CloseFrames(_, _)
OpenLoops(s, i) ==
    IF s.open <= Len(intervals) /\ intervals[s.open].begin = i
    THEN OpenLoops([s EXCEPT !.stack = Append(@, [idx |-> s.open, end |-> intervals[s.open].end, list |-> <<>>]),
                             !.open = @ + 1], i)
    ELSE s
CloseFrames(s, i) ==
    IF s.stack = <<>> \/ Last(s.stack).end # i + 1 THEN s
    ELSE LET top == Last(s.stack)
             below == Front(s.stack)
         IN  IF below = <<>> THEN [s EXCEPT !.stack = <<>>, !.list = top.list]
             ELSE CloseFrames([s EXCEPT !.stack = [below EXCEPT ![Len(below)].list =
                                                      Append(@, Loop(top.idx, top.list))]], i)

BuildBlock(s, b) ==
    LET opened == OpenLoops(s, Pos(b))
        top == Last(opened.stack)
        list == top.list \o <<Block(b)>> \o Jumps(b, top.idx)
    IN  IF opened.stack = <<>> THEN [s EXCEPT !.ok = FALSE]
        ELSE CloseFrames([opened EXCEPT !.stack[Len(opened.stack)].list = list,
                                        !.ok = @ /\ \A i \in DOMAIN Jumps(b, top.idx) :
                                                Jumps(b, top.idx)[i].kind \notin {"abort", "none"}],
                         Pos(b))

BuildStructuredProgram ==
    LET s == FoldLeft(BuildBlock, [stack |-> <<[idx |-> 0, end |-> Len(order), list |-> <<>>]>>,
                                   open |-> 1, list |-> <<>>, ok |-> TRUE], order)
    IN  /\ pass = "build"
        /\ program' = s.list
        /\ pass' = IF s.ok /\ s.stack = <<>> /\ s.open = Len(intervals) + 1 THEN "optimize" ELSE "abort"
        /\ UNCHANGED <<graphVars, order, intervals, code, runVars>>

-----------------------------------------------------------------------------
(* Simplification.  A list goes with "counts", the jumps to each loop, on  *)
(* which the removal of a loop relies: a working state is [list, counts].  *)

IsSelection(s) == s.type = "selection"
IsJump(s, kind) == s.type = "jump" /\ s.kind = kind /\ s.cond = Always

\* vsir_cfg_get_trailing_break()
EndsWithBreak(list) == list # <<>> /\ IsJump(Last(list), "break")

RECURSIVE CountTargets(_, _)
CountTargets(counts, list) ==
    FoldLeft(LAMBDA c, s :
        CASE s.type = "loop" -> CountTargets(c, s.body)
          [] s.type = "selection" -> CountTargets(CountTargets(c, s.if_body), s.else_body)
          [] s.type = "jump" /\ s.kind # "ret" -> [c EXCEPT ![s.target] = @ + 1]
          [] OTHER -> c, counts, list)

RemoveTrailingContinue(w, target) ==
    IF IsJump(Last(w.list), "continue") /\ Last(w.list).target = target
    THEN [list |-> Front(w.list), counts |-> [w.counts EXCEPT ![target] = @ - 1]]
    ELSE w

\* The list ends with a selection whose branches both end with a break: the
\* break of the innermost loop moves behind the selection.
MoveBreaks(w) ==
    LET s == Last(w.list)
        if_target == Last(s.if_body).target
        else_target == Last(s.else_body).target
        target == Max({if_target, else_target})
        if_body == IF if_target = target THEN Front(s.if_body) ELSE s.if_body
        else_body == IF else_target = target THEN Front(s.else_body) ELSE s.else_body
        moved == IF if_body = <<>> THEN Selection(s.cond, ~s.invert, else_body, if_body)
                 ELSE Selection(s.cond, s.invert, if_body, else_body)
    IN  IF ~(EndsWithBreak(s.if_body) /\ EndsWithBreak(s.else_body)) THEN w
        ELSE [list |-> Front(w.list) \o <<moved, Jump("break", target, Always, FALSE)>>,
              counts |-> [w.counts EXCEPT ![target] = IF if_target = else_target THEN @ - 1 ELSE @]]

RECURSIVE MoveBreaksRecursively(_)
MoveBreaksRecursively(w) ==
    IF w.list = <<>> \/ ~IsSelection(Last(w.list)) THEN w
    ELSE LET s == Last(w.list)
             i == MoveBreaksRecursively([list |-> s.if_body, counts |-> w.counts])
             e == MoveBreaksRecursively([list |-> s.else_body, counts |-> i.counts])
         IN  MoveBreaks([list |-> Append(Front(w.list), Selection(s.cond, s.invert, i.list, e.list)),
                         counts |-> e.counts])

\* The first conditional jump becomes a selection, with the rest of the list
\* in its other branch.
RECURSIVE SynthesizeSelections(_)
SynthesizeSelections(w) ==
    LET conditional == {i \in DOMAIN w.list : w.list[i].type = "jump" /\ w.list[i].cond # Always}
        i == Min(conditional)
        jump == w.list[i]
        rest == SynthesizeSelections([w EXCEPT !.list = SubSeq(@, i + 1, Len(@))])
        selection == Selection(jump.cond, jump.invert,
                               <<Jump(jump.kind, jump.target, Always, FALSE)>>, rest.list)
    IN  IF conditional = {} THEN w
        ELSE MoveBreaks([list |-> Append(SubSeq(w.list, 1, i - 1), selection), counts |-> rest.counts])

\* vsir_cfg_append_loop(): what is left of the loop idx with this body.
AppendLoop(w, idx) ==
    CASE EndsWithBreak(w.list) /\ w.counts[idx] = 0 -> w
      [] EndsWithBreak(w.list) /\ w.counts[idx] = 1 /\ Last(w.list).target = idx ->
            [list |-> Front(w.list), counts |-> [w.counts EXCEPT ![idx] = 0]]
      [] OTHER -> [list |-> <<Loop(idx, w.list)>>, counts |-> w.counts]

\* "path" leads to the branch of the last selection that is being extended.
RECURSIVE ListAt(_, _), AppendAt(_, _, _)
ListAt(list, path) ==
    IF path = <<>> THEN list ELSE ListAt(Last(list)[Head(path)], Tail(path))
AppendAt(list, path, items) ==
    IF path = <<>> THEN list \o items
    ELSE [list EXCEPT ![Len(list)] =
             [@ EXCEPT ![Head(path)] = AppendAt(Last(list)[Head(path)], Tail(path), items)]]

OtherBranch(list) ==
    IF list = <<>> \/ ~IsSelection(Last(list)) THEN <<>>
    ELSE IF EndsWithBreak(Last(list).if_body) THEN <<"else_body">>
    ELSE IF EndsWithBreak(Last(list).else_body) THEN <<"if_body">>
    ELSE <<>>

RECURSIVE OptimizeRecurse(_)
OptimizeRecurse(w) ==
    LET append(v, s) ==
            LET opt == OptimizeRecurse(RemoveTrailingContinue([list |-> s.body, counts |-> v.counts], s.idx))
                left == AppendLoop(SynthesizeSelections(opt), s.idx)
                list == AppendAt(v.list, v.path, left.list)
            IN  IF s.type # "loop" THEN [v EXCEPT !.list = AppendAt(@, v.path, <<s>>)]
                ELSE [list |-> list, counts |-> left.counts,
                      path |-> v.path \o OtherBranch(ListAt(list, v.path))]
        v == FoldLeft(append, [list |-> <<>>, counts |-> w.counts, path |-> <<>>], w.list)
    IN  MoveBreaksRecursively([list |-> v.list, counts |-> v.counts])

Optimize ==
    LET w == [list |-> program, counts |-> CountTargets([i \in DOMAIN intervals |-> 0], program)]
    IN  /\ pass = "optimize"
        /\ program' = OptimizeRecurse(w).list
        /\ pass' = IF \A i \in DOMAIN intervals : OptimizeRecurse(w).counts[i] >= 0 THEN "emit" ELSE "abort"
        /\ UNCHANGED <<graphVars, order, intervals, code, runVars>>

-----------------------------------------------------------------------------
(* Instructions.  A loop idx is left by "break" and continued by "continue"*)
(* of its own level only; jumps that go further set jump_target, and the   *)
(* trampolines behind the loops on their way read it.                      *)

JumpTargetIs(n) == [of |-> 0, case |-> n]
Ins(op) == [op |-> op]
CondIns(op, c, invert) == [op |-> op, cond |-> c, invert |-> invert]
Encode(idx, continue) == 2 * idx + IF continue THEN 1 ELSE 0

\* vsir_cfg_mark_trampolines(): the loops that the jumps in a list leave.
RECURSIVE TargetsOutside(_)
TargetsOutside(list) ==
    UNION {LET s == list[i]
           IN  CASE s.type = "loop" -> TargetsOutside(s.body) \ {s.idx}
                 [] s.type = "selection" -> TargetsOutside(s.if_body) \cup TargetsOutside(s.else_body)
                 [] s.type = "jump" /\ s.kind # "ret" -> {s.target}
                 [] OTHER -> {} : i \in DOMAIN list}

NeedsTrampoline(s) == TargetsOutside(s.body) \ {s.idx} # {}

\* Mutant: a jump that continues the outer loop is not told from a break.
TrampolineBreaks(inner, outer) == <<CondIns("break", JumpTargetIs(Encode(inner, FALSE)), TRUE)>>

\* Behind loop inner, in loop outer.
Trampoline(inner, outer) ==
    <<CondIns("continue", JumpTargetIs(Encode(outer, TRUE)), FALSE),
      CondIns("break", JumpTargetIs(Encode(inner, FALSE)), TRUE)>>

\* A jump in loop idx; "launch" when that loop has a trampoline.
EmitJump(s, idx, launch) ==
    LET direct == s.kind = "continue" /\ s.target = idx
        mov == [op |-> "mov", jump_target |-> Encode(s.target, s.kind = "continue" /\ ~direct)]
    IN  IF s.kind = "ret" THEN <<Ins("ret")>>
        ELSE (IF launch THEN <<mov>> ELSE <<>>)
             \o <<CondIns(IF direct THEN "continue" ELSE "break", s.cond, s.invert)>>

RECURSIVE EmitList(_, _, _)
EmitList(list, idx, launch) ==
    LET emit(s) ==
        CASE s.type = "block" -> <<[op |-> "block", block |-> s.block]>>
          [] s.type = "jump" -> EmitJump(s, idx, launch)
          [] s.type = "loop" ->
                <<Ins("loop")>> \o EmitList(s.body, s.idx, NeedsTrampoline(s)) \o <<Ins("endloop")>>
                \o (IF NeedsTrampoline(s) THEN Trampoline(s.idx, idx) ELSE <<>>)
          [] s.type = "selection" ->
                <<CondIns("if", s.cond, s.invert)>> \o EmitList(s.if_body, idx, launch)
                \o (IF s.else_body = <<>> THEN <<>>
                    ELSE <<Ins("else")>> \o EmitList(s.else_body, idx, launch))
                \o <<Ins("endif")>>
    IN  FlattenSeq([i \in DOMAIN list |-> emit(list[i])])

Emit ==
    /\ pass = "emit"
    /\ code' = EmitList(program, 0, FALSE)
    /\ pass' \in {"run", "flatten"}
    /\ UNCHANGED <<graphVars, order, intervals, program, runVars>>

-----------------------------------------------------------------------------
(* The flattening of the constructs: every target but MSL.                 *)

Label(l) == [op |-> "label", label |-> l]
Construct(kind, header, continue, merge) ==
    [kind |-> kind, header |-> header, continue |-> continue, merge |-> merge, inside |-> TRUE, branch |-> 0]
Put(f, instructions) == [f EXCEPT !.code = @ \o instructions]
Inside(f, yes) == IF f.stack = <<>> THEN f ELSE [f EXCEPT !.stack[Len(f.stack)].inside = yes]
LeaveTo(f, label) == IF Last(f.stack).inside THEN Put(f, <<Branch(label)>>) ELSE f
Pop(f) == [f EXCEPT !.stack = Front(@)]

InnermostLoop(f) == f.stack[Max({i \in DOMAIN f.stack : f.stack[i].kind = "loop"})]

\* A jump to a label; a conditional one continues in a new block.
FlattenJump(f, i, label) ==
    LET next == f.labels + 1
        yes == IF i.invert THEN next ELSE label
        no == IF i.invert THEN label ELSE next
    IN  IF i.cond = Always THEN Inside(Put(f, <<Branch(label)>>), FALSE)
        ELSE [Put(f, <<Cond(i.cond, yes, no), Label(next)>>) EXCEPT !.labels = next]

FlattenIf(f, i) ==
    LET true == f.labels + 1
        merge == f.labels + 2
        branch == IF i.invert THEN Cond(i.cond, merge, true) ELSE Cond(i.cond, true, merge)
    IN  [Put(f, <<branch, Label(true)>>) EXCEPT
            !.labels = merge,
            !.stack = Append(@, [Construct("if", 0, 0, merge) EXCEPT !.branch = Len(f.code) + 1])]

\* The false target of the branch at the beginning becomes the new block.
FlattenElse(f) ==
    LET top == Last(f.stack)
        else == f.labels + 1
        branch == f.code[top.branch]
        patched == IF branch.no = top.merge THEN [branch EXCEPT !.no = else] ELSE [branch EXCEPT !.yes = else]
        left == [LeaveTo(f, top.merge) EXCEPT !.labels = else, !.code[top.branch] = patched]
    IN  Inside(Put(left, <<Label(else)>>), TRUE)

FlattenEndif(f) == Pop(Put(LeaveTo(f, Last(f.stack).merge), <<Label(Last(f.stack).merge)>>))

FlattenLoop(f) ==
    LET header == f.labels + 1
    IN  [Put(f, <<Branch(header), Label(header), Branch(header + 1), Label(header + 1)>>) EXCEPT
            !.labels = @ + 4,
            !.stack = Append(@, Construct("loop", header, header + 2, header + 3))]

FlattenEndloop(f) ==
    LET top == Last(f.stack)
    IN  Pop(Put(LeaveTo(f, top.continue),
                <<Label(top.continue), Branch(top.header), Label(top.merge)>>))

FlattenInstruction(f, i) ==
    CASE i.op = "loop" -> FlattenLoop(f)
      [] i.op = "endloop" -> FlattenEndloop(f)
      [] i.op = "if" -> FlattenIf(f, i)
      [] i.op = "else" -> FlattenElse(f)
      [] i.op = "endif" -> FlattenEndif(f)
      [] i.op = "break" -> FlattenJump(f, i, InnermostLoop(f).merge)
      [] i.op = "continue" -> FlattenJump(f, i, InnermostLoop(f).continue)
      [] i.op = "ret" -> Inside(Put(f, <<i>>), FALSE)
      [] OTHER -> Put(f, <<i>>)

FlattenControlFlowConstructs ==
    /\ pass = "flatten"
    /\ code' = FoldLeft(FlattenInstruction, [code |-> <<Label(1)>>, labels |-> 1, stack |-> <<>>], code).code
    /\ pass' = "init"
    /\ UNCHANGED <<graphVars, order, intervals, program, runVars>>

Terminators == {"ret", "branch", "cond"}

\* vsir_cfg_init() reads the flattened function, for the next pass: a label
\* may not be inside of a block, a terminator not outside, and the end of
\* every block is dereferenced.
ReadBlocks ==
    /\ pass = "init"
    /\ pass' = IF \E i \in DOMAIN code \ {1} :
                      (code[i].op = "label") # (code[i - 1].op \in Terminators)
               THEN "abort"
               ELSE IF Last(code).op \notin Terminators THEN "null" ELSE "run"
    /\ UNCHANGED <<graphVars, order, intervals, program, code, runVars>>

-----------------------------------------------------------------------------
(* Execution of the instructions, from one block of the source to the next.*)

Ret == Len(source) + 1
Stuck == Len(source) + 2

RECURSIVE Skip(_, _, _, _)
\* The instruction behind p that closes as many constructs as are opened.
Skip(p, opens, closes, depth) ==
    IF code[p].op \in closes /\ depth = 0 THEN p
    ELSE Skip(p + 1, opens, closes,
              CASE code[p].op = opens -> depth + 1
                [] code[p].op = "endif" /\ opens = "if" -> depth - 1
                [] code[p].op = "endloop" /\ opens = "loop" -> depth - 1
                [] OTHER -> depth)

EndOfLoop(p) == Skip(p + 1, "loop", {"endloop"}, 0)
StartOfLoop(p) == Max({i \in 1 .. p - 1 : code[i].op = "loop" /\ EndOfLoop(i) >= p})
LabelAt(l) == CHOOSE p \in DOMAIN code : code[p].op = "label" /\ code[p].label = l

\* A condition that is not the one of the block that has just run, and a
\* jump target that was not set, have no defined value.
Undefined(c, t) == IF c.of = 0 THEN c # Always /\ t = 0 ELSE c.of # at
IsTrue(c, t) == c = Always \/ IF c.of = 0 THEN t = c.case ELSE Holds(c)

RECURSIVE Run(_, _, _)
\* Where execution that continues at p comes to, in at most "fuel" steps.
Run(p, t, fuel) ==
    LET i == code[p]
        stop(b) == [at |-> b, pc |-> p, jump_target |-> t]
        go(q) == Run(q, t, fuel - 1)
        taken == IsTrue(i.cond, t) # i.invert
    IN  CASE fuel = 0 \/ p > Len(code) -> stop(Stuck)
          [] i.op \in {"if", "break", "continue", "cond"} /\ Undefined(i.cond, t) -> stop(Stuck)
          [] i.op = "block" -> IF i.block <= Len(source) THEN stop(i.block) ELSE go(p + 1)
          [] i.op = "ret" -> stop(Ret)
          [] i.op \in {"label", "loop", "endif"} -> go(p + 1)
          [] i.op = "mov" -> Run(p + 1, i.jump_target, fuel - 1)
          [] i.op = "if" -> go(IF taken THEN p + 1 ELSE Skip(p + 1, "if", {"else", "endif"}, 0) + 1)
          [] i.op = "else" -> go(Skip(p + 1, "if", {"endif"}, 0))
          [] i.op = "break" -> go(IF taken THEN EndOfLoop(StartOfLoop(p)) + 1 ELSE p + 1)
          [] i.op = "continue" -> go(IF taken THEN StartOfLoop(p) ELSE p + 1)
          [] i.op = "endloop" -> go(StartOfLoop(p))
          [] i.op = "branch" -> go(LabelAt(i.to))
          [] i.op = "cond" -> go(LabelAt(IF IsTrue(i.cond, t) THEN i.yes ELSE i.no))

Execute ==
    LET r == Run(pc + 1, jump_target, 3 * Len(code))
    IN  /\ pass = "run" /\ at < Ret
        /\ at' = r.at /\ pc' = r.pc /\ jump_target' = r.jump_target
        /\ IF r.at < Ret THEN value' \in CF!Outcomes(source[r.at]) ELSE value' = 0
        /\ UNCHANGED <<pass, graphVars, order, intervals, program, code>>

-----------------------------------------------------------------------------
Init ==
    /\ pass = "lower"
    /\ \E i \in DOMAIN Sources : source \in Sources[i]
    /\ blocks = <<>> /\ dominates = <<>> /\ loops = <<>>
    /\ order = <<>> /\ intervals = <<>> /\ program = <<>> /\ code = <<>>
    /\ at = 0 /\ value = 0 /\ pc = 0 /\ jump_target = 0

Next ==
    \/ LowerSwitchToSelectionLadder
    \/ ComputeDominators
    \/ ComputeLoops
    \/ SortNodes
    \/ GenerateSyntheticLoopIntervals
    \/ BuildStructuredProgram
    \/ Optimize
    \/ Emit
    \/ FlattenControlFlowConstructs
    \/ ReadBlocks
    \/ Execute

Spec == Init /\ [][Next]_vars

-----------------------------------------------------------------------------
(* Properties.                                                             *)

\* The structured and the flattened program walk through the blocks of the
\* source in every case, and none of their jumps gets lost on the way.
ImplementsControlFlow == CF!Spec

\* No graph, reducible or not, makes one of the assertions of these passes
\* fail (VKD3D_ASSERT in ir.c), those of vsir_cfg_init() on the result included.
AssertionsHold == pass # "abort"

\* Reference definitions: paths that avoid a block, and the reducible graphs.
RECURSIVE Reach(_, _)
Reach(from, avoid) ==
    LET step == {s \in Labels \ (from \cup avoid) : \E b \in from : Contains(Successors(b), s)}
    IN  IF step = {} THEN from ELSE Reach(from \cup step, avoid)

Dominators(b) == {d \in Labels : d = b \/ b \notin Reach({1} \ {d}, {d})}
Reachable == Reach({1}, {}) = Labels
Backward == {e \in Labels \X Labels : Contains(Successors(e[1]), e[2]) /\ e[2] \in Dominators(e[1])}
RECURSIVE Acyclic(_)
Acyclic(left) ==
    LET sources == {b \in left : \A p \in Predecessors(b) : p \notin left \/ <<p, b>> \in Backward}
    IN  left = {} \/ (sources # {} /\ Acyclic(left \ sources))

\* A graph is refused exactly if a block cannot be reached, two back edges
\* lead to one header, or the forward edges have a cycle; otherwise the loops
\* are contiguous in the order, and all intervals are properly nested.
StructuredIffReducible ==
    /\ pass \in {"not implemented", "invalid"} =>
            ~Reachable \/ ~Acyclic(Labels) \/ \E e, f \in Backward : e # f /\ e[2] = f[2]
    /\ pass = "intervals" => Reachable /\ Acyclic(Labels) /\ Cardinality(DOMAIN loops) = Cardinality(Backward)
    /\ pass = "build" =>
            /\ \A h \in DOMAIN loops : \E i \in DOMAIN intervals :
                    /\ ~intervals[i].synthetic
                    /\ {order[k + 1] : k \in intervals[i].begin .. intervals[i].end - 1} = loops[h]
            /\ \A i, j \in DOMAIN intervals : i < j =>
                    intervals[j].end <= intervals[i].end \/ intervals[i].end <= intervals[j].begin
=============================================================================
