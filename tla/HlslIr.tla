------------------------------- MODULE HlslIr -------------------------------
(***************************************************************************)
(* The intermediate representation of the HLSL compiler                    *)
(* (libs/vkd3d-shader/hlsl.h) and what a program in it means.              *)
(*                                                                         *)
(* A block is a sequence of nodes.  A node is named by its id, and the     *)
(* nodes that use its value name it in args or path; the value is assigned *)
(* once.  Variables are vectors or arrays of vectors of unsigned integers; *)
(* the values of the instances stay far below 2^32, and a boolean is 0 or  *)
(* 1.  A component is a number from 1 to 4.  What a program computes from  *)
(* an unassigned component or an index out of range is undefined.          *)
(***************************************************************************)
EXTENDS Integers, Sequences, FiniteSets, SequencesExt, FiniteSetsExt, TLC

CONSTANT VarType    \* the type of each variable that is not a scalar

TypeOf(v) == IF v \in DOMAIN VarType THEN VarType[v] ELSE [len |-> 0, dim |-> 1]

\* f itself, of which TLC computes each value once.
Stored(f) == f @@ <<>>
Joined(seqs) == FlattenSeq(Stored(seqs))

NoKids == <<>>
Node(op, id, args, path, kids) ==
    [op |-> op, id |-> id, args |-> args, path |-> path, kids |-> kids]

ConstantNode(id, vals) == Node("constant", id, <<>>, <<>>, NoKids) @@ [vals |-> vals]
ExprNode(id, fn, args, dim) == Node("expr", id, args, <<>>, NoKids) @@ [fn |-> fn, dim |-> dim]
SwizzleNode(id, arg, comps) == Node("swizzle", id, <<arg>>, <<>>, NoKids) @@ [comps |-> comps]
LoadNode(id, var, path) == Node("load", id, <<>>, path, NoKids) @@ [var |-> var]
StoreNode(id, var, path, mask, rhs) ==
    Node("store", id, <<rhs>>, path, NoKids) @@ [var |-> var, mask |-> mask]
IfNode(id, condition, then, else) == Node("if", id, <<condition>>, <<>>, <<then, else>>)
\* A loop with its type of unrolling and the number of its attribute, or 0.
LoopNode(id, body, iter, unroll, limit) ==
    Node("loop", id, <<>>, <<>>, <<body, iter>>) @@ [unroll |-> unroll, limit |-> limit]
\* A loop as the source has it: "for" and "while", or "do".
SourceLoop(id, type, cond, iter, body, unroll, limit) ==
    Node("source_loop", id, <<>>, <<>>, <<cond, iter, body>>) @@
    [type |-> type, unroll |-> unroll, limit |-> limit]
\* The labels of the cases; a negative label is the default case.
SwitchNode(id, selector, labels, cases) ==
    Node("switch", id, <<selector>>, <<>>, cases) @@ [labels |-> labels]
Default == -1
JumpNode(id, kind) == Node("jump", id, <<>>, <<>>, NoKids) @@ [kind |-> kind]

Dim(i) == CASE i.op = "constant" -> Len(i.vals)
            [] i.op = "swizzle" -> Len(i.comps)
            [] i.op = "load" -> TypeOf(i.var).dim
            [] OTHER -> i.dim

\* The components of a writemask in order.
Ordered(mask) == SelectSeq(<<1, 2, 3, 4>>, LAMBDA k : k \in mask)
CombineSwizzles(first, second) == [k \in DOMAIN second |-> first[second[k]]]
Identity(n) == [k \in 1 .. n |-> k]

-----------------------------------------------------------------------------
(* Walks over a program.                                                   *)

\* The passes leave the iter block of a loop alone.
Walked(i) == IF i.op = "loop" THEN <<i.kids[1]>> ELSE i.kids

RECURSIVE Flat(_), All(_)
\* The nodes in the order of index_instructions(): a node has its position as
\* index, and a loop ends where next_index = index + 1 + Len(Flat(body)).
Flat(block) == Joined([k \in DOMAIN block |->
    <<block[k]>> \o Joined([j \in DOMAIN Walked(block[k]) |-> Flat(Walked(block[k])[j])])])
All(block) == Joined([k \in DOMAIN block |->
    <<block[k]>> \o Joined([j \in DOMAIN block[k].kids |-> All(block[k].kids[j])])])

NodesOf(block) == LET s == All(block)
                  IN  Stored([id \in {s[k].id : k \in DOMAIN s} |->
                                s[CHOOSE k \in DOMAIN s : s[k].id = id]])
IndexOf(block, first) ==
    LET s == Flat(block)
    IN  Stored([id \in {s[k].id : k \in DOMAIN s} |->
            first - 1 + CHOOSE k \in DOMAIN s : s[k].id = id])
UsedIn(block) == LET s == All(block) IN UNION {Range(s[k].args) \cup Range(s[k].path) : k \in DOMAIN s}

RECURSIVE Rename(_, _)
Renamed(f, id) == IF id \in DOMAIN f THEN f[id] ELSE id
Rename(block, f) ==
    Stored([k \in DOMAIN block |->
        [block[k] EXCEPT !.id = Renamed(f, @),
                         !.args = [a \in DOMAIN @ |-> Renamed(f, @[a])],
                         !.path = [a \in DOMAIN @ |-> Renamed(f, @[a])],
                         !.kids = Stored([j \in DOMAIN @ |-> Rename(@[j], f)])]])

\* The nodes in the domain of new give way to those it has for them.
RECURSIVE Substitute(_, _)
Substitute(block, new) ==
    Joined([k \in DOMAIN block |->
        IF block[k].id \in DOMAIN new THEN new[block[k].id]
        ELSE <<[block[k] EXCEPT !.kids = [j \in DOMAIN @ |-> Substitute(@[j], new)]]>>])

\* hlsl_clone_block(): the nodes of the block are new, the rest is shared.
CloneSize(block) == Len(All(block))
Clone(block, next) ==
    LET s == All(block)
    IN  Rename(block, Stored([id \in {s[k].id : k \in DOMAIN s} |->
            next - 1 + CHOOSE k \in DOMAIN s : s[k].id = id]))
Canonical(block) == Clone(block, 1)
Fresh(block) == LET s == All(block) IN 1 + FoldLeft(LAMBDA m, i : IF i.id > m THEN i.id ELSE m, 0, s)

-----------------------------------------------------------------------------
(* The meaning of a program.  home gives some variables a place in         *)
(* registers, which they may share: element e and component k of such a    *)
(* variable is component home[v].comps[k] of register home[v].reg + e.     *)
(* Other variables have places of their own.  The state of an execution:   *)
(*   mem   the components assigned so far      vals  the nodes evaluated   *)
(*   jump  "no" or the jump on its way         fuel  iterations left       *)

Undef == -1000000
Unknown == <<Undef, Undef, Undef, Undef>>

Place(home, v, e, k) == IF v \in DOMAIN home
                        THEN <<"register", home[v].reg + e, home[v].comps[k]>>
                        ELSE <<v, e, k>>
ValueOf(st, id) == IF id \in DOMAIN st.vals THEN st.vals[id] ELSE Unknown
Define(st, id, vals) == [st EXCEPT !.vals = (id :> vals) @@ @]

Apply(fn, a, b) ==
    IF Undef \in {a, b} THEN Undef
    ELSE CASE fn = "add" -> a + b
           [] fn = "mul" -> a * b
           [] fn = "less" -> IF a < b THEN 1 ELSE 0
           [] fn \in {"max", "or"} -> IF a < b THEN b ELSE a
           [] fn \in {"min", "and"} -> IF a < b THEN a ELSE b
           [] fn = "not" -> 1 - a
EvalExpr(i, vals) ==
    [k \in 1 .. i.dim |-> Apply(i.fn, vals[1][k], vals[Len(vals)][k])]

\* The element a path reaches, or undefined.
Element(st, i) ==
    IF i.path = <<>> THEN 0
    ELSE LET n == ValueOf(st, i.path[1])[1]
         IN  IF n \in 0 .. TypeOf(i.var).len - 1 THEN n ELSE Undef

Evaluate(i, home, st) ==
    CASE i.op = "constant" -> i.vals
      [] i.op = "expr" -> EvalExpr(i, [a \in DOMAIN i.args |-> ValueOf(st, i.args[a])])
      [] i.op = "swizzle" -> [k \in DOMAIN i.comps |-> ValueOf(st, i.args[1])[i.comps[k]]]
      [] i.op = "load" ->
            LET e == Element(st, i)
            IN  [k \in 1 .. Dim(i) |->
                    LET p == Place(home, i.var, e, k)
                    IN  IF e # Undef /\ p \in DOMAIN st.mem THEN st.mem[p] ELSE Undef]

Assign(i, home, st) ==
    LET e == Element(st, i)
        comps == Ordered(i.mask)
        places == [n \in DOMAIN comps |-> Place(home, i.var, e, comps[n])]
    IN  IF e = Undef THEN [st EXCEPT !.jump = "undefined"]
        ELSE [st EXCEPT !.mem =
                [p \in Range(places) |->
                    ValueOf(st, i.args[1])[CHOOSE n \in DOMAIN places : places[n] = p]] @@ @]

Land(st, jumps) == IF st.jump \in jumps THEN [st EXCEPT !.jump = "no"] ELSE st

RECURSIVE RunBlock(_, _, _), RunNode(_, _, _), Iterate(_, _, _)
RunBlock(block, home, st) ==
    IF block = <<>> \/ st.jump # "no" THEN st
    ELSE RunBlock(Tail(block), home, RunNode(Head(block), home, st))

\* The condition of a loop in the source; an empty one is true.
Test(cond, home, st) ==
    LET t == RunBlock(cond, home, st)
        holds == ValueOf(t, Last(cond).id)[1]
    IN  IF cond = <<>> \/ t.jump # "no" THEN t
        ELSE CASE holds = Undef -> [t EXCEPT !.jump = "undefined"]
               [] holds = 0 -> [t EXCEPT !.jump = "break"]
               [] OTHER -> t

Round(i, home, st) ==
    LET go(b, s) == RunBlock(b, home, s)
    IN  CASE i.op = "loop" -> LET t == go(i.kids[1], st)
                              IN  IF t.jump = "continue" THEN Land(t, {"continue"})
                                  ELSE go(i.kids[2], Land(t, {"unresolved_continue"}))
          [] i.type = "do" -> Test(i.kids[1], home, Land(go(i.kids[3], st), {"unresolved_continue"}))
          [] OTHER -> go(i.kids[2], Land(go(i.kids[3], Test(i.kids[1], home, st)), {"unresolved_continue"}))

Iterate(i, home, st) ==
    LET round == Round(i, home, st)
    IN  IF st.fuel = 0 THEN [st EXCEPT !.jump = "undefined"]
        ELSE IF round.jump = "no" THEN Iterate(i, home, [round EXCEPT !.fuel = st.fuel - 1])
        ELSE Land(round, {"break"})

RunNode(i, home, st) ==
    CASE i.op = "store" -> Assign(i, home, st)
      [] i.op = "jump" -> [st EXCEPT !.jump = i.kind]
      [] i.op \in {"loop", "source_loop"} -> Iterate(i, home, st)
      [] i.op = "if" ->
            LET c == ValueOf(st, i.args[1])[1]
            IN  IF c = Undef THEN [st EXCEPT !.jump = "undefined"]
                ELSE RunBlock(i.kids[IF c # 0 THEN 1 ELSE 2], home, st)
      [] i.op = "switch" ->
            LET c == ValueOf(st, i.args[1])[1]
                matching == {k \in DOMAIN i.labels : i.labels[k] = c}
                taken == IF matching # {} THEN matching
                         ELSE {k \in DOMAIN i.labels : i.labels[k] = Default}
            IN  IF c = Undef THEN [st EXCEPT !.jump = "undefined"]
                ELSE IF taken = {} THEN st
                ELSE LET first == CHOOSE k \in taken : TRUE
                     IN  Land(RunBlock(Joined(SubSeq(i.kids, first, Len(i.kids))), home, st), {"break"})
      [] OTHER -> Define(st, i.id, Evaluate(i, home, st))

\* The places after the program has run from a memory; no place has a value
\* when it does not end or depends on an undefined value.
Outcome(program, home, memory, fuel) ==
    LET st == RunBlock(program, home, [mem |-> memory, vals |-> <<>>, jump |-> "no", fuel |-> fuel])
    IN  IF st.jump = "undefined" THEN <<>> ELSE st.mem
=============================================================================
