---------------------------- MODULE HlslCompiler ----------------------------
(***************************************************************************)
(* The back end of the HLSL compiler up to register allocation             *)
(* (libs/vkd3d-shader/hlsl_codegen.c, process_entry_function()): from the  *)
(* nodes the parser makes of an entry function with uniform parameters and *)
(* one output "o" to a program on registers that writes the output         *)
(* semantic "O".  An action is a pass over the whole program, or a round   *)
(* of passes that is repeated while one of them makes progress.            *)
(***************************************************************************)
EXTENDS HlslRegisters

CONSTANTS Sources,      \* the entry functions
          Inputs,       \* the values of the uniforms to run them with
          Fuel          \* iterations of a loop after which a run does not count

VARIABLES source,   \* the function as it was parsed
          shader,   \* the program as the passes have left it
          stage,    \* the pass that is next
          home      \* where registers were allocated
vars == <<source, shader, stage, home>>

\* A temporary copy of each uniform, made where the function begins, takes
\* the place of a uniform that is written.
Temp(v) == "temp-" \o v
PrependUniformCopies(p) ==
    FoldLeft(LAMBDA q, v : [q EXCEPT !.block = <<LoadNode(q.next, v, <<>>),
                                                 StoreNode(q.next + 1, Temp(v), <<>>, 1 .. TypeOf(v).dim, q.next)>> \o @,
                                     !.next = @ + 2],
             p, SetToSeq(Uniforms))
RECURSIVE Divert(_, _, _)
Divert(block, life, index) ==
    LET written(i) == /\ i.op \in {"load", "store"} /\ i.var \in Uniforms
                      /\ life[i.var].first_write # 0 /\ index[i.id] >= life[i.var].first_write
    IN  [k \in DOMAIN block |->
            IF written(block[k]) THEN [block[k] EXCEPT !.var = Temp(@)]
            ELSE [block[k] EXCEPT !.kids = [j \in DOMAIN @ |-> IF j > Len(Walked(block[k])) THEN @[j]
                                                                ELSE Divert(@[j], life, index)]]]
DivertWrittenUniforms(p) == [p EXCEPT !.block = Divert(@, ComputeLiveness(@), IndexOf(@, 1))]

AppendOutputCopy(p) ==
    [p EXCEPT !.block = @ \o <<LoadNode(p.next, "o", <<>>),
                               StoreNode(p.next + 1, "O", <<>>, 1 .. TypeOf("O").dim, p.next)>>,
              !.next = @ + 2]

-----------------------------------------------------------------------------
Init ==
    /\ source \in Sources
    /\ shader = [block |-> source, next |-> Fresh(source), progress |-> FALSE, error |-> FALSE]
    /\ stage = "create_loop"
    /\ home = <<>>

\* The pass "now" makes Made(p) of a program p that is Ready(p), and "then"
\* follows.
PassIf(Ready(_), now, then, Made(_)) ==
    /\ stage = now
    /\ Ready(shader)
    /\ stage' = then
    /\ shader' \in {Made(shader)}
    /\ UNCHANGED <<source, home>>
Pass(now, then, Made(_)) == PassIf(LAMBDA p : TRUE, now, then, Made)

\* A round of passes, repeated while one of them makes progress.
Repeat(now, then, Made(_)) ==
    /\ stage = now
    /\ shader' \in {Made([shader EXCEPT !.progress = FALSE])}
    /\ stage' = IF shader'.progress THEN now ELSE then
    /\ UNCHANGED <<source, home>>

CreatedLoops(p) ==
    LET t == CreateLoops(p.block, p.next)
    IN  [p EXCEPT !.block = t.block, !.next = t.next]
CreateLoopNodes == Pass("create_loop", "lower_return", CreatedLoops)

\* The flag is reset where the function begins (hlsl_new_func_decl()).
LoweredReturns(p) ==
    LET t == LowerReturn(p.block, FALSE, p.next)
    IN  [p EXCEPT !.block = SetFlag("early_return", 0, t.next) \o t.block, !.next = t.next + 2]
LowerReturns == Pass("lower_return", "copies", LoweredReturns)

CopiedParameters(p) == DivertWrittenUniforms(PrependUniformCopies(AppendOutputCopy(p)))
CopyParameters == Pass("copies", "unroll_loops", CopiedParameters)

UnrolledLoop(p) == UnrollLoop(p, Head(LoopsToUnroll(p.block)))
UnrollNextLoop ==
    PassIf(LAMBDA p : LoopsToUnroll(p.block) # <<>>, "unroll_loops", "unroll_loops", UnrolledLoop)

ResolvedLoops(p) ==
    LET t == ResolveContinues(p.block, <<>>, p.next)
    IN  [p EXCEPT !.block = ResolveLoops(t.block), !.next = t.next]
ResolveOtherLoops ==
    PassIf(LAMBDA p : ~p.error /\ LoopsToUnroll(p.block) = <<>>, "unroll_loops", "const_passes", ResolvedLoops)

\* hlsl_run_folding_passes()
FoldingRound(p) == FoldSwizzlesAndBranches(CopyPropagationExecute(SimplifyExprs(p, <<>>)), <<>>)
Fold == \/ Repeat("const_passes", "remove_unreachable_code", FoldingRound)
        \/ Repeat("folding_passes", "dce_folded", FoldingRound)

NormalizedControlFlow(p) ==
    [p EXCEPT !.block = NormalizeSwitches(RemoveUnreachableCode(@), p.next), !.next = 2 * @]
NormalizeControlFlow == Pass("remove_unreachable_code", "vectorize", NormalizedControlFlow)

VectorizeRound(p) ==
    VectorizeStores(Passes(<<"fold_swizzle_chains", "remove_trivial_swizzles">>,
                           DeadCodePass(VectorizeExprs(p)), <<>>))
Vectorize == Repeat("vectorize", "dce_vectorized", VectorizeRound)

RemoveDeadCode ==
    \/ Repeat("dce_vectorized", "folding_passes", DeadCodePass)
    \/ Repeat("dce_folded", "simplify_exprs", DeadCodePass)
    \/ Repeat("dce_simplified", "allocate", DeadCodePass)

Simplify == Pass("simplify_exprs", "dce_simplified", LAMBDA p : SimplifyExprs(p, <<>>))

Allocate ==
    /\ stage = "allocate"
    /\ stage' = "compiled"
    /\ home' \in {AllocateTempRegisters(shader.block)}
    /\ UNCHANGED <<source, shader>>

Next ==
    \/ CreateLoopNodes
    \/ LowerReturns
    \/ CopyParameters
    \/ UnrollNextLoop
    \/ ResolveOtherLoops
    \/ Fold
    \/ NormalizeControlFlow
    \/ Vectorize
    \/ RemoveDeadCode
    \/ Simplify
    \/ Allocate

Spec == Init /\ [][Next]_vars

-----------------------------------------------------------------------------
(* The compiled program computes what the source does.                     *)

\* Memories where a run begins: each uniform has one of the inputs.
Memories == {[p \in {<<v, 0, k>> : v \in Uniforms, k \in 1 .. 4} |-> f[p[1]][p[3]]] :
                f \in [Uniforms -> Inputs]}

\* Every component of the output that the source determines has the same
\* value in the compiled program: no pass changes the meaning.  Nothing is
\* stored to a uniform, which is a constant register.
MeaningKept ==
    stage = "compiled" =>
        /\ \A i \in Range(All(shader.block)) : i.op = "store" => i.var \notin Uniforms
        /\ \A memory \in Memories :
            LET before == Outcome(source, <<>>, memory, Fuel)
                after == Outcome(shader.block, home, memory, Fuel)
                o(k) == <<"o", 0, k>>
                O(k) == <<"O", 0, k>>
            IN  \A k \in 1 .. TypeOf("O").dim :
                    (o(k) \in DOMAIN before /\ before[o(k)] # Undef) =>
                        O(k) \in DOMAIN after /\ after[O(k)] = before[o(k)]
=============================================================================
