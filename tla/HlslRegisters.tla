--------------------------- MODULE HlslRegisters ---------------------------
(***************************************************************************)
(* The allocation of temporary registers of the HLSL compiler              *)
(* (hlsl_codegen.c): variables that are not needed at the same time share  *)
(* the components of registers.  Nodes have registers of their own kind    *)
(* (SSA).                                                                  *)
(*                                                                         *)
(* A variable has its home as [reg, comps]: element e, component k is      *)
(* component comps[k] of register reg + e.  s is [allocations, count,      *)
(* home].                                                                  *)
(***************************************************************************)
EXTENDS HlslVectorize

CONSTANT Uniforms    \* variables with is_uniform

\* get_available_writemask(): an allocation that is last read where another
\* one is first written does not overlap it.
AvailableWritemask(s, life, reg) ==
    1 .. 4 \ UNION {a.mask : a \in {b \in s.allocations :
                        b.reg = reg /\ life.first_write < b.last_read /\ life.last_read > b.first_write}}

RecordAllocation(s, life, reg, mask) ==
    [s EXCEPT !.allocations = @ \cup {[reg |-> reg, mask |-> mask,
                                       first_write |-> life.first_write, last_read |-> life.last_read]},
              !.count = IF reg + 1 > @ THEN reg + 1 ELSE @]

\* allocate_register(): the first register with enough components left.
AllocateRegister(s, v, life, size) ==
    LET fits == {r \in 0 .. s.count - 1 : Cardinality(AvailableWritemask(s, life, r)) >= size}
        reg == IF fits = {} THEN s.count ELSE Min(fits)
        comps == SubSeq(Ordered(AvailableWritemask(s, life, reg)), 1, size)
    IN  [RecordAllocation(s, life, reg, Range(comps)) EXCEPT !.home = (v :> [reg |-> reg, comps |-> comps]) @@ @]

\* allocate_range(): whole registers for all elements but the last one.
AllocateRange(s, v, life, type) ==
    LET masks == [e \in 1 .. type.len |-> IF e < type.len \/ type.dim = 4 THEN 1 .. 4 ELSE 1 .. type.dim]
        reg == Min({r \in 0 .. s.count :
                        \A e \in DOMAIN masks : masks[e] \subseteq AvailableWritemask(s, life, r + e - 1)})
    IN  [FoldLeft(LAMBDA t, e : RecordAllocation(t, life, reg + e - 1, masks[e]), s, Identity(type.len))
            EXCEPT !.home = (v :> [reg |-> reg, comps |-> Identity(type.dim)]) @@ @]

\* mark_indexable_vars(): accessed with an index that is not a constant.
Indexable(block, v) ==
    LET nodes == NodesOf(block)
    IN  \E i \in Range(All(block)) : /\ i.op \in {"load", "store"} /\ i.var = v /\ i.path # <<>>
                                     /\ ~IsConst(nodes[i.path[1]])

\* allocate_variable_temp_register(); an indexable one has a register file
\* of its own.
AllocateVariable(s, v, block, life) ==
    IF \/ v \in Outputs \cup Uniforms \cup DOMAIN s.home
       \/ life[v].last_read = 0
       \/ Indexable(block, v) THEN s
    ELSE IF TypeOf(v).len = 0 THEN AllocateRegister(s, v, life[v], TypeOf(v).dim)
    ELSE AllocateRange(s, v, life[v], TypeOf(v))

\* allocate_temp_registers(): in the order of the loads and stores.
AllocateTempRegisters(block) ==
    LET life == ComputeLiveness(block)
    IN  FoldLeft(LAMBDA s, i : AllocateVariable(s, i.var, block, life),
                 [allocations |-> {}, count |-> 0, home |-> <<>>],
                 SelectSeq(Flat(block), LAMBDA i : i.op \in {"load", "store"})).home
=============================================================================
