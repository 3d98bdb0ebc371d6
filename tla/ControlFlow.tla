---------------------------- MODULE ControlFlow ----------------------------
(***************************************************************************)
(* What a shader function means: a walk through its blocks.  Each block    *)
(* computes a value and ends with a RET, a BRANCH or a SWITCH, which may   *)
(* look at that value.  Whatever the passes of libs/vkd3d-shader/ir.c make *)
(* of the function, it must still walk like this.                          *)
(***************************************************************************)
EXTENDS Naturals, Sequences

CONSTANT
    Sources         \* a sequence of sets of functions from labels to terminators

VARIABLES
    source,         \* the function
    at,             \* the block that runs, 0 before the first one
    value           \* what the block has computed

Ret == Len(source) + 1

\* The block that a terminator leads to.  A condition is true unless it is 0;
\* the j-th case of a switch is taken for the value j.
Target(t, v) ==
    CASE t.op = "ret" -> Ret
      [] t.op = "branch" -> t.to
      [] t.op = "cond" -> IF v = 0 THEN t.no ELSE t.yes
      [] t.op = "switch" -> IF v \in DOMAIN t.cases THEN t.cases[v] ELSE t.default

\* The values that make a difference to the terminator.
Outcomes(t) ==
    CASE t.op \in {"ret", "branch"} -> {0}
      [] t.op = "cond" -> {0, 1}
      [] t.op = "switch" -> 0 .. Len(t.cases)

Init ==
    /\ \E i \in DOMAIN Sources : source \in Sources[i]
    /\ at = 0 /\ value = 0

Enter(b) ==
    /\ at' = b
    /\ IF b = Ret THEN value' = 0 ELSE value' \in Outcomes(source[b])
    /\ UNCHANGED source

Next ==
    \/ at = 0 /\ Enter(1)
    \/ at \in DOMAIN source /\ Enter(Target(source[at], value))

Spec == Init /\ [][Next]_<<source, at, value>>
=============================================================================
