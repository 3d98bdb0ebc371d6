-------------------------- MODULE MCDeviceObjects --------------------------
(***************************************************************************)
(* Six parts of a device that threads share and that share no state with   *)
(* each other: the event of a wait for several fences, the cache of        *)
(* descriptor objects, heaps and resources, the GPU virtual addresses,     *)
(* command allocators, and the pipeline cache.  They are checked together: *)
(* in each behaviour one of them acts and the others stay as they are.     *)
(***************************************************************************)
EXTENDS MultiFenceEvent, DescObjectCache, HeapLifetime, GpuVaAllocator,
        CommandAllocator, PipelineCache, TLC

VARIABLE part

Parts == {"multi_fence", "object_cache", "heaps", "gpu_va", "allocators", "pipelines"}

Init ==
    /\ part \in Parts
    /\ MultiFenceInit /\ (part # "multi_fence" => ~any /\ ~blocking)
    /\ CacheInit /\ HeapLifetimeInit /\ GpuVaInit /\ CommandAllocatorInit /\ PipelineInit

Next ==
    /\ UNCHANGED part
    /\ \/ part = "multi_fence" /\ MultiFenceNext
          /\ UNCHANGED <<cacheVars, heapLifetimeVars, gpuVaVars, allocatorVars, pipelineVars>>
       \/ part = "object_cache" /\ CacheNext
          /\ UNCHANGED <<multiFenceVars, heapLifetimeVars, gpuVaVars, allocatorVars, pipelineVars>>
       \/ part = "heaps" /\ HeapLifetimeNext
          /\ UNCHANGED <<multiFenceVars, cacheVars, gpuVaVars, allocatorVars, pipelineVars>>
       \/ part = "gpu_va" /\ GpuVaNext
          /\ UNCHANGED <<multiFenceVars, cacheVars, heapLifetimeVars, allocatorVars, pipelineVars>>
       \/ part = "allocators" /\ CommandAllocatorNext
          /\ UNCHANGED <<multiFenceVars, cacheVars, heapLifetimeVars, gpuVaVars, pipelineVars>>
       \/ part = "pipelines" /\ PipelineNext
          /\ UNCHANGED <<multiFenceVars, cacheVars, heapLifetimeVars, gpuVaVars, allocatorVars>>

Spec == Init /\ [][Next]_<<part, multiFenceVars, cacheVars, heapLifetimeVars, gpuVaVars,
                           allocatorVars, pipelineVars>>

\* The render pass of the first state does not depend on what the list binds.
PassKeys2(s, k) == IF s = 1 THEN "fixed" ELSE IF k = 1 THEN "fixed" ELSE "dynamic"

\* Nothing distinguishes threads, objects, handles and buffers but their names.
\* The parts are given the same names, so that few permutations move them all:
\* the threads of one part are the allocators of another.
Symmetry == UNION {Permutations(S) : S \in {CacheThreads, HeapThreads, Resources}}
=============================================================================
