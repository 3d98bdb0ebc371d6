------------------------- MODULE MCCfgStructurizer -------------------------
(* Functions for CfgStructurizer.                                          *)
EXTENDS CfgStructurizer

RetT == [op |-> "ret"]
CondT(yes, no) == [op |-> "cond", yes |-> yes, no |-> no]
SwitchT(cases, default) == [op |-> "switch", cases |-> cases, default |-> default]

\* Every function of up to three blocks that end with a RET or a BRANCH,
\* those with unreachable blocks and irreducible loops included.
Plain(n) == {RetT} \cup {Branch(b) : b \in 1 .. n} \cup {CondT(b, c) : b, c \in 1 .. n}
SmallFunctions == UNION {[1 .. n -> Plain(n)] : n \in 1 .. 3}

\* Six blocks: conditional branches to the next block or to any other, two
\* unconditional branches to anywhere, and the end.
Targets == [1 .. 5 -> 1 .. 6]
TrueLadders ==
    {<<CondT(2, f[1]), Branch(f[2]), CondT(4, f[3]), Branch(f[4]), CondT(6, f[5]), RetT>> : f \in Targets}
FalseLadders ==
    {<<CondT(f[1], 2), Branch(f[2]), CondT(f[3], 4), Branch(f[4]), CondT(f[5], 6), RetT>> : f \in Targets}

\* A switch with up to two cases, before a loop or in one.
Switches ==
    {<<SwitchT(cases, d), t, u, RetT>> :
        cases \in UNION {[1 .. k -> 2 .. 4] : k \in 0 .. 2}, d \in 1 .. 4,
        t \in {Branch(b) : b \in 1 .. 4}, u \in {RetT, Branch(4), CondT(2, 4)}}

MCSources == <<SmallFunctions, Switches, TrueLadders, FalseLadders>>
=============================================================================
