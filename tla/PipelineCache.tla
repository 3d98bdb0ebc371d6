--------------------------- MODULE PipelineCache ---------------------------
(***************************************************************************)
(* The Vulkan pipelines of a graphics pipeline state, and the render pass  *)
(* cache of the device (libs/vkd3d/state.c).  Command lists are recorded   *)
(* by several threads, which share pipeline states.  A pipeline depends on *)
(* what the list has set (the key), so it is compiled when it is first     *)
(* used, outside the lock: of the threads that compile the same one, the   *)
(* first to put it in the list wins and the others destroy theirs.         *)
(***************************************************************************)
EXTENDS Naturals, Sequences, FiniteSets

CONSTANTS
    Recorders,      \* the threads that record command lists
    States,         \* d3d12_pipeline_state
    Keys,           \* vkd3d_pipeline_key
    PassKeys,       \* vkd3d_render_pass_key
    Pipelines, Passes, \* Vulkan objects; bound: how many there are
    NoHandle        \* VK_NULL_HANDLE

\* The key of the render pass: of the state's formats and the list's one.
CONSTANT PassKeyOf(_, _)

ASSUME PipelineCacheAssumption ==
    /\ NoHandle \notin Pipelines \cup Passes
    /\ \A s \in States, k \in Keys : PassKeyOf(s, k) \in PassKeys

VARIABLES
    state_alive,
    compiled_pipelines, \* of each state: the entries [key, pipeline, pass]
    render_passes,      \* device->render_pass_cache: the entries [key, pass]
    vk_pipelines,       \* the pipelines that exist in the driver
    ever_compiled,      \* the pipelines that ever existed
    call,               \* where each thread is: [at, state, key, pipeline, pass, failed]
    bound               \* what each thread's list uses: [state, key, pipeline, pass]

pipelineVars == <<state_alive, compiled_pipelines, render_passes, vk_pipelines,
                  ever_compiled, call, bound>>

NotCalling == [at |-> "outside"]
NothingBound == [pipeline |-> NoHandle]

PipelineInit ==
    /\ state_alive = [s \in States |-> TRUE]
    /\ compiled_pipelines = [s \in States |-> <<>>]
    /\ render_passes = <<>>
    /\ vk_pipelines = {} /\ ever_compiled = {}
    /\ call = [t \in Recorders |-> NotCalling]
    /\ bound = [t \in Recorders |-> NothingBound]

Entries(seq) == {seq[i] : i \in DOMAIN seq}
Cached(s, k) == {e \in Entries(compiled_pipelines[s]) : e.key = k}

\* d3d12_command_list_update_graphics_pipeline() with no current pipeline.
GetOrCreate(t, s, k) ==
    /\ call[t].at = "outside" /\ state_alive[s]
    /\ call' = [call EXCEPT ![t] = [at |-> "find", state |-> s, key |-> k, pipeline |-> NoHandle,
                                    pass |-> NoHandle, failed |-> FALSE]]
    /\ bound' = [bound EXCEPT ![t] = NothingBound]
    /\ UNCHANGED <<state_alive, compiled_pipelines, render_passes, vk_pipelines, ever_compiled>>

\* d3d12_pipeline_state_find_compiled_pipeline(), at first and by a thread that lost.
Find(t) ==
    LET c == call[t] IN
    /\ c.at \in {"find", "find again"}
    /\ \/ \E e \in Cached(c.state, c.key) :
              call' = [call EXCEPT ![t] = [c EXCEPT !.at = "return", !.pipeline = e.pipeline,
                                                    !.pass = e.pass]]
       \/ /\ Cached(c.state, c.key) = {}
          /\ call' = [call EXCEPT ![t] = [c EXCEPT !.at = IF c.at = "find" THEN "pass" ELSE "return",
                                                   !.pass = NoHandle]]
    /\ UNCHANGED <<state_alive, compiled_pipelines, render_passes, vk_pipelines, ever_compiled, bound>>

Fail(t) == call' = [call EXCEPT ![t].at = "return", ![t].failed = TRUE]

\* vkd3d_render_pass_cache_find()
FindRenderPass(t) ==
    LET c == call[t]
        k == PassKeyOf(c.state, c.key) IN
    /\ c.at = "pass"
    /\ \/ \E e \in Entries(render_passes) :
              /\ e.key = k
              /\ call' = [call EXCEPT ![t].at = "compile", ![t].pass = e.pass]
              /\ UNCHANGED render_passes
       \/ /\ \A e \in Entries(render_passes) : e.key # k
          /\ \/ \E pass \in Passes \ {e.pass : e \in Entries(render_passes)} :
                    /\ render_passes' = Append(render_passes, [key |-> k, pass |-> pass])
                    /\ call' = [call EXCEPT ![t].at = "compile", ![t].pass = pass]
             \/ Fail(t) /\ UNCHANGED render_passes
    /\ UNCHANGED <<state_alive, compiled_pipelines, vk_pipelines, ever_compiled, bound>>

Compile(t) ==
    /\ call[t].at = "compile"
    /\ \/ \E p \in Pipelines \ ever_compiled :
              /\ call' = [call EXCEPT ![t].at = "put", ![t].pipeline = p]
              /\ vk_pipelines' = vk_pipelines \cup {p}
              /\ ever_compiled' = ever_compiled \cup {p}
       \/ Fail(t) /\ UNCHANGED <<vk_pipelines, ever_compiled>>
    /\ UNCHANGED <<state_alive, compiled_pipelines, render_passes, bound>>

Add(t) ==
    LET c == call[t] IN
    compiled_pipelines' = [compiled_pipelines EXCEPT ![c.state] =
        Append(@, [key |-> c.key, pipeline |-> c.pipeline, pass |-> c.pass])]

\* Mutant: the list is not searched again before the pipeline is added.
PutUnseen(t) ==
    /\ call[t].at = "put"
    /\ Add(t) /\ call' = [call EXCEPT ![t].at = "return"]
    /\ UNCHANGED <<state_alive, render_passes, vk_pipelines, ever_compiled, bound>>

\* d3d12_pipeline_state_put_pipeline_to_cache()
Put(t) ==
    LET c == call[t] IN
    /\ c.at = "put"
    /\ \/ /\ Cached(c.state, c.key) = {}
          /\ Add(t) /\ call' = [call EXCEPT ![t].at = "return"]
       \/ /\ Cached(c.state, c.key) # {}
          /\ call' = [call EXCEPT ![t].at = "lost"]
          /\ UNCHANGED compiled_pipelines
    /\ UNCHANGED <<state_alive, render_passes, vk_pipelines, ever_compiled, bound>>

\* There is no memory for the entry.
PutFails(t) ==
    /\ call[t].at = "put"
    /\ call' = [call EXCEPT ![t].at = "lost", ![t].failed = TRUE]
    /\ UNCHANGED <<state_alive, compiled_pipelines, render_passes, vk_pipelines, ever_compiled, bound>>

\* "Other thread compiled the pipeline before us."
Lose(t) ==
    /\ call[t].at = "lost"
    /\ vk_pipelines' = vk_pipelines \ {call[t].pipeline}
    /\ call' = [call EXCEPT ![t].at = "find again", ![t].pipeline = NoHandle]
    /\ UNCHANGED <<state_alive, compiled_pipelines, render_passes, ever_compiled, bound>>

Bind(t) ==
    LET c == call[t] IN
    /\ c.at = "return"
    /\ bound' = [bound EXCEPT ![t] = IF c.pipeline = NoHandle THEN NothingBound
                                     ELSE [state |-> c.state, key |-> c.key,
                                           pipeline |-> c.pipeline, pass |-> c.pass]]
    /\ call' = [call EXCEPT ![t] = NotCalling]
    /\ UNCHANGED <<state_alive, compiled_pipelines, render_passes, vk_pipelines, ever_compiled>>

\* The application releases a state that no list uses any more.
DestroyState(s) ==
    /\ state_alive[s]
    /\ \A t \in Recorders : /\ call[t].at # "outside" => call[t].state # s
                            /\ bound[t] # NothingBound => bound[t].state # s
    /\ state_alive' = [state_alive EXCEPT ![s] = FALSE]
    /\ vk_pipelines' = vk_pipelines \ {e.pipeline : e \in Entries(compiled_pipelines[s])}
    /\ compiled_pipelines' = [compiled_pipelines EXCEPT ![s] = <<>>]
    /\ UNCHANGED <<render_passes, ever_compiled, call, bound>>

PipelineNext ==
    \/ \E t \in Recorders :
           \/ \E s \in States, k \in Keys : GetOrCreate(t, s, k)
           \/ Find(t) \/ FindRenderPass(t) \/ Compile(t) \/ Put(t) \/ PutFails(t)
           \/ Lose(t) \/ Bind(t)
    \/ \E s \in States : DestroyState(s)

PipelineSpec == PipelineInit /\ [][PipelineNext]_pipelineVars

----------------------------------------------------------------------------
OneEntryPerKey ==
    /\ \A s \in States : \A i, j \in DOMAIN compiled_pipelines[s] :
           compiled_pipelines[s][i].key = compiled_pipelines[s][j].key => i = j
    /\ \A i, j \in DOMAIN render_passes : render_passes[i].key = render_passes[j].key => i = j

\* A list records with a pipeline that exists and that every other list
\* which needs the same one uses, with the one render pass of its formats:
\* "The render pass cache ensures that we use the same Vulkan render pass
\* object for compatible render passes."
ListsAgree ==
    \A t \in Recorders : bound[t] # NothingBound =>
        LET b == bound[t] IN
        /\ b.pipeline \in vk_pipelines
        /\ Cached(b.state, b.key) = {[key |-> b.key, pipeline |-> b.pipeline, pass |-> b.pass]}
        /\ [key |-> PassKeyOf(b.state, b.key), pass |-> b.pass] \in Entries(render_passes)

\* Each pipeline is in one list, or in the hands of the thread that made it.
NoPipelineLeaks ==
    vk_pipelines = {e.pipeline : e \in UNION {Entries(compiled_pipelines[s]) : s \in States}}
                   \cup {call[t].pipeline : t \in {u \in Recorders : call[u].at \in {"put", "lost"}}}

\* "Could not get the pipeline compiled by other thread from the cache."
LosersFindTheWinner ==
    \A t \in Recorders : call[t].at = "return" /\ call[t].pipeline = NoHandle => call[t].failed

(***************************************************************************)
(* However threads that use the same pipeline state for the first time     *)
(* race (d3d12_pipeline_state_get_or_create_pipeline): they agree on one   *)
(* pipeline and one render pass, what the losers made is destroyed and     *)
(* used by nobody, and a call fails only when a step of its own failed.    *)
(***************************************************************************)
PipelinesShared == OneEntryPerKey /\ ListsAgree /\ NoPipelineLeaks /\ LosersFindTheWinner
=============================================================================
