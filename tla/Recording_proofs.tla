-------------------------- MODULE Recording_proofs --------------------------
(***************************************************************************)
(* What command lists are recorded with: the pipelines of pipeline states  *)
(* and the render pass cache, for any number of threads, states and keys,  *)
(* then command allocators and their pools, for any number of allocators,  *)
(* lists and Vulkan handles.                                               *)
(*                                                                         *)
(* PipelinesShared: a thread that has found or put a pipeline binds it     *)
(* some steps later, and one that has lost destroys its own when others    *)
(* may be bound.  The inductive invariant says, of each place where a call *)
(* can be, what the thread knows there, and that each pipeline has one     *)
(* owner.                                                                  *)
(*                                                                         *)
(* CommandAllocatorSound: the inductive invariant adds that each command   *)
(* buffer and each pool has one owner, and says of each allocator that no  *)
(* pool is twice in its arrays.  Grown says what an allocation may change. *)
(***************************************************************************)
EXTENDS PipelineCache, CommandAllocator, SequenceTheorems, WellFoundedInduction, TLAPS

----------------------------------------------------------------------------
(* Pipelines.                                                              *)
Entry == [key : Keys, pipeline : Pipelines, pass : Passes]

PassEntry == [key : PassKeys, pass : Passes]

Calls == [at : {"find", "find again", "pass", "compile", "put", "lost", "return"},
          state : States, key : Keys, pipeline : Pipelines \cup {NoHandle},
          pass : Passes \cup {NoHandle}, failed : BOOLEAN]

Bindings == [state : States, key : Keys, pipeline : Pipelines, pass : Passes]

\* The types of the variables.
PipelineTypeOK ==
    /\ compiled_pipelines \in [States -> Seq(Entry)]
    /\ render_passes \in Seq(PassEntry)
    /\ vk_pipelines \subseteq ever_compiled /\ ever_compiled \subseteq Pipelines
    /\ call \in [Recorders -> Calls \cup {NotCalling}]
    /\ bound \in [Recorders -> Bindings \cup {NothingBound}]

\* What is in the list of a state.
Listed(s) == Entries(compiled_pipelines[s])

\* The render pass is the one of the cache for the state and the key.
Known(s, k, pass) == [key |-> PassKeyOf(s, k), pass |-> pass] \in Entries(render_passes)

ListedKnown == \A s \in States : \A e \in Listed(s) : Known(s, e.key, e.pass)

\* The thread has a pipeline that is in no list.
Made(t) == call[t].at \in {"put", "lost"}

\* The pipelines that exist are those of the lists and of such threads.
Accounted ==
    \A p : p \in vk_pipelines <=>
               \/ \E s \in States : \E e \in Listed(s) : e.pipeline = p
               \/ \E t \in Recorders : Made(t) /\ call[t].pipeline = p

\* No pipeline is in two of these places.
OneOwner ==
    /\ \A r, s \in States : \A d \in Listed(r), e \in Listed(s) :
           d.pipeline = e.pipeline => r = s
    /\ \A s \in States, t \in Recorders : \A e \in Listed(s) :
           Made(t) => call[t].pipeline # e.pipeline
    /\ \A t, u \in Recorders : Made(t) /\ Made(u) /\ call[t].pipeline = call[u].pipeline => t = u

\* What a thread knows where it is.  One that has lost has failed, or will
\* find the winner's entry: entries stay as long as a call uses their state.
CallSound(t) ==
    LET c == call[t] IN
    /\ c.at \in {"find", "pass", "compile", "find again"} => c.pipeline = NoHandle
    /\ c.at \in {"compile", "put"} => Known(c.state, c.key, c.pass)
    /\ Made(t) => c.pipeline \in Pipelines
    /\ c.at \in {"lost", "find again"} => c.failed \/ Cached(c.state, c.key) # {}
    /\ c.at = "return" => \/ c.pipeline = NoHandle /\ c.failed
                          \/ [key |-> c.key, pipeline |-> c.pipeline, pass |-> c.pass]
                                 \in Listed(c.state)

BoundSound(t) ==
    LET b == bound[t] IN
    b # NothingBound =>
        [key |-> b.key, pipeline |-> b.pipeline, pass |-> b.pass] \in Listed(b.state)

PipelineInv ==
    /\ PipelineTypeOK /\ OneEntryPerKey /\ ListedKnown /\ Accounted /\ OneOwner
    /\ \A t \in Recorders : CallSound(t) /\ BoundSound(t)

----------------------------------------------------------------------------
\* Lists.

LEMMA EntriesOfEmpty == Entries(<<>>) = {}
BY DEF Entries

LEMMA EntriesOfAppend ==
    ASSUME NEW S, NEW s \in Seq(S), NEW e \in S
    PROVE  Entries(Append(s, e)) = Entries(s) \cup {e}
<1>1. PICK n \in Nat : Len(s) = n
  OBVIOUS
<1>2. /\ Append(s, e) \in Seq(S) /\ Len(Append(s, e)) = n + 1
      /\ \A i \in 1 .. n : Append(s, e)[i] = s[i]
      /\ Append(s, e)[n + 1] = e
  BY <1>1, AppendProperties
<1>3. DOMAIN s = 1 .. n /\ DOMAIN Append(s, e) = 1 .. n + 1
  BY <1>1, <1>2, LenProperties
<1>4. \A i : i \in 1 .. n + 1 <=> i \in 1 .. n \/ i = n + 1
  OBVIOUS
<1>5. PICK a : a = Append(s, e)
  OBVIOUS
<1>6. Entries(a) = Entries(s) \cup {e}
  BY <1>2, <1>3, <1>4, <1>5 DEF Entries
<1> QED BY <1>5, <1>6

LEMMA EntriesType ==
    ASSUME NEW S, NEW s \in Seq(S)
    PROVE  Entries(s) \subseteq S
BY LenProperties, ElementOfSeq DEF Entries

LEMMA ListedType ==
    ASSUME PipelineTypeOK, NEW s \in States
    PROVE  /\ Listed(s) \subseteq Entry
           /\ \A e \in Listed(s) : e \in Entry /\ e.key \in Keys /\ e.pipeline \in Pipelines
                                   /\ e.pass \in Passes
                                   /\ e = [key |-> e.key, pipeline |-> e.pipeline, pass |-> e.pass]
<1>1. Listed(s) \subseteq Entry
  BY EntriesType DEF PipelineTypeOK, Listed
<1>2. \A e \in Entry : e.key \in Keys /\ e.pipeline \in Pipelines /\ e.pass \in Passes
                       /\ e = [key |-> e.key, pipeline |-> e.pipeline, pass |-> e.pass]
  BY DEF Entry
<1> QED BY <1>1, <1>2

\* At most one entry has a key.
LEMMA SameKey ==
    ASSUME OneEntryPerKey, NEW s \in States, NEW d \in Listed(s), NEW e \in Listed(s),
           d.key = e.key
    PROVE  d = e
<1>1. PICK i \in DOMAIN compiled_pipelines[s] : d = compiled_pipelines[s][i]
  BY DEF Listed, Entries
<1>2. PICK j \in DOMAIN compiled_pipelines[s] : e = compiled_pipelines[s][j]
  BY DEF Listed, Entries
<1> QED BY <1>1, <1>2 DEF OneEntryPerKey

LEMMA CachedListed ==
    ASSUME NEW s, NEW k
    PROVE  \A e : e \in Cached(s, k) <=> e \in Listed(s) /\ e.key = k
BY DEF Cached, Listed

\* The records of calls and bindings.
LEMMA CallType ==
    ASSUME PipelineTypeOK, NEW t \in Recorders, call[t].at # "outside"
    PROVE  /\ call[t] \in Calls /\ call[t].state \in States /\ call[t].key \in Keys
           /\ call[t].failed \in BOOLEAN
           /\ call[t].pipeline \in Pipelines \cup {NoHandle}
           /\ call[t].pass \in Passes \cup {NoHandle}
<1>1. call[t] \in Calls \cup {NotCalling}
  BY DEF PipelineTypeOK
<1>2. NotCalling.at = "outside"
  BY DEF NotCalling
<1> QED BY <1>1, <1>2 DEF Calls

LEMMA BoundType ==
    ASSUME PipelineTypeOK, NEW t \in Recorders, bound[t] # NothingBound
    PROVE  /\ bound[t] \in Bindings /\ bound[t].state \in States /\ bound[t].key \in Keys
           /\ bound[t].pipeline \in Pipelines /\ bound[t].pass \in Passes
BY DEF PipelineTypeOK, Bindings

----------------------------------------------------------------------------
\* The invariant implies what the run checks.

LEMMA ListsDoAgree == ASSUME PipelineInv PROVE ListsAgree
<1> SUFFICES ASSUME NEW t \in Recorders, bound[t] # NothingBound
             PROVE  LET b == bound[t] IN
                    /\ b.pipeline \in vk_pipelines
                    /\ Cached(b.state, b.key) =
                           {[key |-> b.key, pipeline |-> b.pipeline, pass |-> b.pass]}
                    /\ [key |-> PassKeyOf(b.state, b.key), pass |-> b.pass]
                           \in Entries(render_passes)
  BY DEF ListsAgree
<1>1. PICK b : b = bound[t]
  OBVIOUS
<1>2. b.state \in States /\ b.key \in Keys
  BY <1>1, BoundType DEF PipelineInv
<1>3. PICK e : e = [key |-> b.key, pipeline |-> b.pipeline, pass |-> b.pass]
  OBVIOUS
<1>4. e.key = b.key /\ e.pipeline = b.pipeline /\ e.pass = b.pass
  BY <1>3
<1>5. e \in Listed(b.state)
  BY <1>1, <1>3 DEF PipelineInv, BoundSound
<1>6. b.pipeline \in vk_pipelines
  BY <1>2, <1>4, <1>5 DEF PipelineInv, Accounted
<1>7. Known(b.state, b.key, b.pass)
  BY <1>2, <1>4, <1>5 DEF PipelineInv, ListedKnown
<1>8. \A d \in Listed(b.state) : d.key = b.key => d = e
  BY <1>2, <1>4, <1>5, SameKey DEF PipelineInv
<1>9. Cached(b.state, b.key) = {e}
  BY <1>4, <1>5, <1>8, CachedListed
<1> QED BY <1>1, <1>3, <1>6, <1>7, <1>9 DEF Known

LEMMA NoneLeaks == ASSUME Accounted PROVE NoPipelineLeaks
<1> DEFINE lists == {e.pipeline : e \in UNION {Entries(compiled_pipelines[s]) : s \in States}}
           hands == {call[t].pipeline : t \in {u \in Recorders : call[u].at \in {"put", "lost"}}}
<1>1. \A p : p \in lists <=> \E s \in States : \E e \in Listed(s) : e.pipeline = p
  BY DEF Listed
<1>2. \A p : p \in hands <=> \E t \in Recorders : Made(t) /\ call[t].pipeline = p
  BY DEF Made
<1> HIDE DEF lists, hands
<1>3. vk_pipelines = lists \cup hands
  BY <1>1, <1>2 DEF Accounted
<1> QED BY <1>3 DEF NoPipelineLeaks, lists, hands

LEMMA LosersFind == ASSUME PipelineInv PROVE LosersFindTheWinner
<1> SUFFICES ASSUME NEW t \in Recorders, call[t].at = "return", call[t].pipeline = NoHandle
             PROVE  call[t].failed
  BY DEF LosersFindTheWinner
<1>1. CASE call[t].failed
  BY <1>1
<1>2. CASE [key |-> call[t].key, pipeline |-> call[t].pipeline, pass |-> call[t].pass]
               \in Listed(call[t].state)
  <2>1. call[t].state \in States
    BY CallType DEF PipelineInv
  <2>2. [key |-> call[t].key, pipeline |-> call[t].pipeline, pass |-> call[t].pass].pipeline
            \in Pipelines
    BY <1>2, <2>1, ListedType DEF PipelineInv
  <2> QED BY <2>2, PipelineCacheAssumption
<1> QED BY <1>1, <1>2 DEF PipelineInv, CallSound

LEMMA PipelineInvImplies == ASSUME PipelineInv PROVE PipelinesShared
BY ListsDoAgree, NoneLeaks, LosersFind DEF PipelinesShared, PipelineInv

----------------------------------------------------------------------------
\* The invariant is inductive.

LEMMA PipelineStart == ASSUME PipelineInit PROVE PipelineInv
<1>1. /\ \A s \in States : compiled_pipelines[s] = <<>> /\ Listed(s) = {}
      /\ render_passes = <<>> /\ Entries(render_passes) = {}
      /\ vk_pipelines = {} /\ ever_compiled = {}
      /\ \A t \in Recorders : call[t] = NotCalling /\ bound[t] = NothingBound
  BY EntriesOfEmpty DEF PipelineInit, Listed
<1>2. \A t \in Recorders : call[t].at = "outside"
  BY <1>1 DEF NotCalling
<1>3. PipelineTypeOK
  BY DEF PipelineInit, PipelineTypeOK
<1>4. OneEntryPerKey
  BY <1>1 DEF OneEntryPerKey
<1>5. ListedKnown /\ Accounted /\ OneOwner
  BY <1>1, <1>2 DEF ListedKnown, Accounted, OneOwner, Made
<1>6. ASSUME NEW t \in Recorders PROVE CallSound(t) /\ BoundSound(t)
  BY <1>1, <1>2 DEF CallSound, BoundSound, Made
<1> QED BY <1>3, <1>4, <1>5, <1>6 DEF PipelineInv

\* What another thread knows stays true while its lists only grow.
LEMMA StillSound ==
    ASSUME NEW u, CallSound(u), call'[u] = call[u],
           call[u].at # "outside" =>
               \A e : e \in Entries(compiled_pipelines[call[u].state])
                          => e \in Entries(compiled_pipelines'[call[u].state]),
           \A e \in Entries(render_passes) : e \in Entries(render_passes')
    PROVE  CallSound(u)'
<1>1. CASE call[u].at = "outside"
  BY <1>1 DEF CallSound, Made
<1>2. CASE call[u].at # "outside"
  <2>1. \A s, k, pass : Known(s, k, pass) => Known(s, k, pass)'
    BY DEF Known
  <2>2. PICK c : c = call[u]
    OBVIOUS
  <2>3. \A e : e \in Listed(c.state) => e \in Listed(c.state)'
    BY <1>2, <2>2 DEF Listed
  <2>4. Cached(c.state, c.key) # {} => Cached(c.state, c.key)' # {}
    BY <2>3 DEF Cached, Listed
  <2>5. Made(u)' <=> Made(u)
    BY DEF Made
  <2>6. /\ c.at \in {"find", "pass", "compile", "find again"} => c.pipeline = NoHandle
        /\ c.at \in {"compile", "put"} => Known(c.state, c.key, c.pass)
        /\ Made(u) => c.pipeline \in Pipelines
        /\ c.at \in {"lost", "find again"} => c.failed \/ Cached(c.state, c.key) # {}
        /\ c.at = "return" => \/ c.pipeline = NoHandle /\ c.failed
                              \/ [key |-> c.key, pipeline |-> c.pipeline, pass |-> c.pass]
                                     \in Listed(c.state)
    BY <2>2 DEF CallSound
  <2>7. call'[u] = c
    BY <2>2
  <2> QED BY <2>1, <2>3, <2>4, <2>5, <2>6, <2>7 DEF CallSound
<1> QED BY <1>1, <1>2

LEMMA StillBound ==
    ASSUME NEW u, BoundSound(u), bound'[u] = bound[u],
           bound[u] # NothingBound =>
               \A e : e \in Entries(compiled_pipelines[bound[u].state])
                          => e \in Entries(compiled_pipelines'[bound[u].state])
    PROVE  BoundSound(u)'
BY DEF BoundSound, Listed

\* The thread goes to another step of its call.
LEMMA CallMoves ==
    ASSUME PipelineTypeOK, NEW t \in Recorders, NEW c \in Calls \cup {NotCalling},
           call' = [call EXCEPT ![t] = c]
    PROVE  /\ call' \in [Recorders -> Calls \cup {NotCalling}] /\ call'[t] = c
           /\ \A u \in Recorders : u # t => call'[u] = call[u]
BY DEF PipelineTypeOK

\* It does so and changes nothing that others see.
LEMMA OnlyTheCall ==
    ASSUME PipelineInv, NEW t \in Recorders, NEW c \in Calls \cup {NotCalling},
           call' = [call EXCEPT ![t] = c],
           UNCHANGED <<compiled_pipelines, render_passes, vk_pipelines, ever_compiled>>,
           c.at \in {"put", "lost"} <=> Made(t), Made(t) => c.pipeline = call[t].pipeline,
           CallSound(t)',
           bound' \in [Recorders -> Bindings \cup {NothingBound}],
           \A u \in Recorders : u # t => bound'[u] = bound[u],
           BoundSound(t)'
    PROVE  PipelineInv'
<1>1. /\ call' \in [Recorders -> Calls \cup {NotCalling}] /\ call'[t] = c
      /\ \A u \in Recorders : u # t => call'[u] = call[u]
  BY CallMoves DEF PipelineInv
<1>2. PipelineTypeOK'
  BY <1>1 DEF PipelineInv, PipelineTypeOK
<1>3. OneEntryPerKey'
  BY DEF PipelineInv, OneEntryPerKey
<1>4. ListedKnown'
  BY DEF PipelineInv, ListedKnown, Listed, Known
<1>5. \A s : Listed(s)' = Listed(s)
  BY DEF Listed
<1>6. \A u \in Recorders : /\ Made(u)' <=> Made(u)
                           /\ Made(u) => call'[u].pipeline = call[u].pipeline
  BY <1>1 DEF Made
<1>7. Accounted'
  BY <1>5, <1>6 DEF PipelineInv, Accounted
<1>8. OneOwner'
  BY <1>5, <1>6 DEF PipelineInv, OneOwner
<1>9. ASSUME NEW u \in Recorders PROVE CallSound(u)' /\ BoundSound(u)'
  <2>1. CASE u = t
    BY <2>1
  <2>2. CASE u # t
    <3>1. CallSound(u)'
      BY <1>1, <2>2, StillSound DEF PipelineInv
    <3>2. BoundSound(u)'
      BY <2>2, StillBound DEF PipelineInv
    <3> QED BY <3>1, <3>2
  <2> QED BY <2>1, <2>2
<1> QED BY <1>2, <1>3, <1>4, <1>7, <1>8, <1>9 DEF PipelineInv

LEMMA CallBegins ==
    ASSUME PipelineInv, NEW t \in Recorders, NEW s \in States, NEW k \in Keys,
           GetOrCreate(t, s, k)
    PROVE  PipelineInv'
<1> DEFINE c == [at |-> "find", state |-> s, key |-> k, pipeline |-> NoHandle,
                 pass |-> NoHandle, failed |-> FALSE]
<1>1. c \in Calls /\ c.at = "find" /\ c.pipeline = NoHandle
  BY DEF Calls
<1>2. /\ call' = [call EXCEPT ![t] = c] /\ bound' = [bound EXCEPT ![t] = NothingBound]
      /\ UNCHANGED <<compiled_pipelines, render_passes, vk_pipelines, ever_compiled>>
      /\ call[t].at = "outside"
  BY DEF GetOrCreate
<1> HIDE DEF c
<1>3. call'[t] = c
  BY <1>1, <1>2, CallMoves DEF PipelineInv
<1>4. ~Made(t)
  BY <1>2 DEF Made
<1>5. CallSound(t)'
  BY <1>1, <1>3 DEF CallSound, Made
<1>6. /\ bound' \in [Recorders -> Bindings \cup {NothingBound}] /\ bound'[t] = NothingBound
      /\ \A u \in Recorders : u # t => bound'[u] = bound[u]
  BY <1>2 DEF PipelineInv, PipelineTypeOK
<1>7. BoundSound(t)'
  BY <1>6 DEF BoundSound
<1> QED BY <1>1, <1>2, <1>4, <1>5, <1>6, <1>7, OnlyTheCall

\* The thread stays in its call, and its list as it is.
LEMMA OnlyTheStep ==
    ASSUME PipelineInv, NEW t \in Recorders, NEW c \in Calls,
           call' = [call EXCEPT ![t] = c],
           UNCHANGED <<compiled_pipelines, render_passes, vk_pipelines, ever_compiled, bound>>,
           c.at \in {"put", "lost"} <=> Made(t), Made(t) => c.pipeline = call[t].pipeline,
           CallSound(t)'
    PROVE  PipelineInv'
<1>1. BoundSound(t)'
  BY StillBound DEF PipelineInv
<1>2. bound' \in [Recorders -> Bindings \cup {NothingBound}]
  BY DEF PipelineInv, PipelineTypeOK
<1> QED BY <1>1, <1>2, OnlyTheCall

LEMMA Finds == ASSUME PipelineInv, NEW t \in Recorders, Find(t) PROVE PipelineInv'
<1>1. PICK c : c = call[t]
  OBVIOUS
<1>2. c.at \in {"find", "find again"}
  BY <1>1 DEF Find
<1>3. /\ c \in Calls /\ c.state \in States /\ c.key \in Keys /\ ~Made(t)
      /\ c.pipeline = NoHandle /\ c.failed \in BOOLEAN
  BY <1>1, <1>2, CallType DEF PipelineInv, CallSound, Made
<1>4. UNCHANGED <<compiled_pipelines, render_passes, vk_pipelines, ever_compiled, bound>>
  BY DEF Find
<1>5. ASSUME NEW e \in Cached(c.state, c.key),
             call' = [call EXCEPT ![t] = [c EXCEPT !.at = "return", !.pipeline = e.pipeline,
                                                   !.pass = e.pass]]
      PROVE  PipelineInv'
  <2> DEFINE d == [c EXCEPT !.at = "return", !.pipeline = e.pipeline, !.pass = e.pass]
  <2>1. /\ e \in Listed(c.state) /\ e.key = c.key /\ e.pipeline \in Pipelines /\ e.pass \in Passes
        /\ e = [key |-> e.key, pipeline |-> e.pipeline, pass |-> e.pass]
    BY <1>3, CachedListed, ListedType DEF PipelineInv
  <2>2. d \in Calls
    BY <1>3, <2>1 DEF Calls
  <2>3. /\ d.at = "return" /\ d.pipeline = e.pipeline /\ d.pass = e.pass
        /\ d.state = c.state /\ d.key = c.key
    BY <1>3 DEF Calls
  <2>4. call' = [call EXCEPT ![t] = d]
    BY <1>5
  <2> HIDE DEF d
  <2>5. call'[t] = d
    BY <2>2, <2>4, CallMoves DEF PipelineInv
  <2>6. e = [key |-> d.key, pipeline |-> d.pipeline, pass |-> d.pass]
    BY <2>1, <2>3
  <2>7. e \in Listed(d.state)'
    BY <1>4, <2>1, <2>3 DEF Listed
  <2>8. CallSound(t)'
    BY <2>3, <2>5, <2>6, <2>7 DEF CallSound, Made
  <2> QED BY <1>3, <1>4, <2>2, <2>3, <2>4, <2>8, OnlyTheStep
<1>6. ASSUME Cached(c.state, c.key) = {},
             call' = [call EXCEPT ![t] =
                 [c EXCEPT !.at = IF c.at = "find" THEN "pass" ELSE "return", !.pass = NoHandle]]
      PROVE  PipelineInv'
  <2>1. PICK at \in {"pass", "return"} : at = IF c.at = "find" THEN "pass" ELSE "return"
    OBVIOUS
  <2> DEFINE d == [c EXCEPT !.at = at, !.pass = NoHandle]
  <2>2. d \in Calls
    BY <1>3 DEF Calls
  <2>3. d.at = at /\ d.pipeline = NoHandle /\ d.failed = c.failed
    BY <1>3 DEF Calls
  <2>4. call' = [call EXCEPT ![t] = d]
    BY <1>6, <2>1
  <2> HIDE DEF d
  <2>5. call'[t] = d
    BY <2>2, <2>4, CallMoves DEF PipelineInv
  <2>6. c.at = "find again" => c.failed
    BY <1>1, <1>6 DEF PipelineInv, CallSound
  <2>7. at = "return" => d.failed
    BY <1>2, <2>1, <2>3, <2>6
  <2>8. CallSound(t)'
    BY <2>3, <2>5, <2>7 DEF CallSound, Made
  <2> QED BY <1>3, <1>4, <2>2, <2>3, <2>4, <2>8, OnlyTheStep
<1> QED BY <1>1, <1>5, <1>6 DEF Find

\* A step of the call fails: the thread returns without a pipeline.
LEMMA Failing ==
    ASSUME PipelineInv, NEW t \in Recorders, call[t].at \in {"pass", "compile"}, Fail(t),
           UNCHANGED <<compiled_pipelines, render_passes, vk_pipelines, ever_compiled, bound>>
    PROVE  PipelineInv'
<1>1. PICK c : c = call[t]
  OBVIOUS
<1>2. c \in Calls /\ ~Made(t) /\ c.pipeline = NoHandle
  BY <1>1, CallType DEF PipelineInv, CallSound, Made
<1> DEFINE d == [c EXCEPT !.at = "return", !.failed = TRUE]
<1>3. d \in Calls
  BY <1>2 DEF Calls
<1>4. d.at = "return" /\ d.pipeline = NoHandle /\ d.failed = TRUE
  BY <1>2 DEF Calls
<1>5. call' = [call EXCEPT ![t] = d]
  BY <1>1, <1>2 DEF Fail, PipelineInv, PipelineTypeOK, Calls
<1> HIDE DEF d
<1>6. call'[t] = d
  BY <1>3, <1>5, CallMoves DEF PipelineInv
<1>7. CallSound(t)'
  BY <1>4, <1>6 DEF CallSound, Made
<1> QED BY <1>2, <1>3, <1>4, <1>5, <1>7, OnlyTheStep

LEMMA FindsRenderPass ==
    ASSUME PipelineInv, NEW t \in Recorders, FindRenderPass(t)
    PROVE  PipelineInv'
<1>1. PICK c : c = call[t]
  OBVIOUS
<1>2. c.at = "pass"
  BY <1>1 DEF FindRenderPass
<1>3. /\ c \in Calls /\ c.state \in States /\ c.key \in Keys /\ ~Made(t)
      /\ c.pipeline = NoHandle
  BY <1>1, <1>2, CallType DEF PipelineInv, CallSound, Made
<1>4. UNCHANGED <<compiled_pipelines, vk_pipelines, ever_compiled, bound>>
  BY DEF FindRenderPass
<1>5. PICK k \in PassKeys : k = PassKeyOf(c.state, c.key)
  BY <1>3, PipelineCacheAssumption
<1>6. render_passes \in Seq(PassEntry)
  BY DEF PipelineInv, PipelineTypeOK
<1>7. ASSUME NEW pass \in Passes, [key |-> k, pass |-> pass] \in Entries(render_passes'),
             call' = [call EXCEPT ![t].at = "compile", ![t].pass = pass],
             \A e \in Entries(render_passes) : e \in Entries(render_passes'),
             render_passes' \in Seq(PassEntry),
             \A i, j \in DOMAIN render_passes' :
                 render_passes'[i].key = render_passes'[j].key => i = j
      PROVE  PipelineInv'
  <2> DEFINE d == [c EXCEPT !.at = "compile", !.pass = pass]
  <2>1. d \in Calls
    BY <1>3 DEF Calls
  <2>2. /\ d.at = "compile" /\ d.pipeline = NoHandle /\ d.pass = pass
        /\ d.state = c.state /\ d.key = c.key
    BY <1>3 DEF Calls
  <2>3. call' = [call EXCEPT ![t] = d]
    BY <1>1, <1>3, <1>7 DEF PipelineInv, PipelineTypeOK, Calls
  <2> HIDE DEF d
  <2>4. /\ call' \in [Recorders -> Calls \cup {NotCalling}] /\ call'[t] = d
        /\ \A u \in Recorders : u # t => call'[u] = call[u]
    BY <2>1, <2>3, CallMoves DEF PipelineInv
  <2>5. PipelineTypeOK'
    BY <1>4, <1>7, <2>4 DEF PipelineInv, PipelineTypeOK
  <2>6. OneEntryPerKey'
    BY <1>4, <1>7 DEF PipelineInv, OneEntryPerKey
  <2>7. \A s : Listed(s)' = Listed(s)
    BY <1>4 DEF Listed
  <2>8. ListedKnown'
    BY <1>7, <2>7 DEF PipelineInv, ListedKnown, Known
  <2>9. \A u \in Recorders : /\ Made(u)' <=> Made(u)
                             /\ Made(u) => call'[u].pipeline = call[u].pipeline
    BY <1>3, <2>2, <2>4 DEF Made
  <2>10. Accounted'
    BY <1>4, <2>7, <2>9 DEF PipelineInv, Accounted
  <2>11. OneOwner'
    BY <2>7, <2>9 DEF PipelineInv, OneOwner
  <2>12. Known(d.state, d.key, d.pass)'
    BY <1>5, <1>7, <2>2 DEF Known
  <2>13. ASSUME NEW u \in Recorders PROVE CallSound(u)'
    <3>1. CASE u = t
      BY <2>2, <2>4, <2>12, <3>1 DEF CallSound, Made
    <3>2. CASE u # t
      BY <1>4, <1>7, <2>4, <3>2, StillSound DEF PipelineInv
    <3> QED BY <3>1, <3>2
  <2>14. ASSUME NEW u \in Recorders PROVE BoundSound(u)'
    BY <1>4, StillBound DEF PipelineInv
  <2> QED BY <2>5, <2>6, <2>8, <2>10, <2>11, <2>13, <2>14 DEF PipelineInv
<1>8. ASSUME NEW e \in Entries(render_passes), e.key = k, UNCHANGED render_passes,
             call' = [call EXCEPT ![t].at = "compile", ![t].pass = e.pass]
      PROVE  PipelineInv'
  <2>1. e \in PassEntry
    BY <1>6, EntriesType
  <2>2. PICK pass \in Passes : pass = e.pass
    BY <2>1 DEF PassEntry
  <2>3. e = [key |-> k, pass |-> pass]
    BY <1>8, <2>1, <2>2 DEF PassEntry
  <2>4. [key |-> k, pass |-> pass] \in Entries(render_passes')
    BY <1>8, <2>3
  <2>5. \A i, j \in DOMAIN render_passes' :
            render_passes'[i].key = render_passes'[j].key => i = j
    BY <1>8 DEF PipelineInv, OneEntryPerKey
  <2> QED BY <1>6, <1>7, <1>8, <2>2, <2>4, <2>5
<1>9. ASSUME \A e \in Entries(render_passes) : e.key # k, NEW pass \in Passes,
             render_passes' = Append(render_passes, [key |-> k, pass |-> pass]),
             call' = [call EXCEPT ![t].at = "compile", ![t].pass = pass]
      PROVE  PipelineInv'
  <2>1. PICK e \in PassEntry : e = [key |-> k, pass |-> pass] /\ e.key = k
    <3>1. [key |-> k, pass |-> pass] \in PassEntry
      BY DEF PassEntry
    <3> QED BY <3>1
  <2>2. Entries(render_passes') = Entries(render_passes) \cup {e}
    BY <1>6, <1>9, <2>1, EntriesOfAppend
  <2>3. PICK n \in Nat : Len(render_passes) = n
    BY <1>6
  <2>4. /\ render_passes' \in Seq(PassEntry) /\ Len(render_passes') = n + 1
        /\ \A i \in 1 .. n : render_passes'[i] = render_passes[i]
        /\ render_passes'[n + 1] = e
    BY <1>6, <1>9, <2>1, <2>3, AppendProperties
  <2>5. DOMAIN render_passes = 1 .. n /\ DOMAIN render_passes' = 1 .. n + 1
    BY <1>6, <2>3, <2>4, LenProperties
  <2>6. \A i \in 1 .. n : render_passes[i] \in Entries(render_passes)
    BY <2>5 DEF Entries
  <2>7. \A i \in 1 .. n : render_passes'[i].key # k
    BY <1>9, <2>4, <2>6
  <2>8. \A i \in 1 .. n + 1 : i \in 1 .. n \/ i = n + 1
    OBVIOUS
  <2>9. \A i, j \in 1 .. n : render_passes'[i].key = render_passes'[j].key => i = j
    BY <2>4, <2>5 DEF PipelineInv, OneEntryPerKey
  <2>10. \A i, j \in DOMAIN render_passes' :
            render_passes'[i].key = render_passes'[j].key => i = j
    BY <2>1, <2>4, <2>5, <2>7, <2>8, <2>9
  <2> QED BY <1>7, <1>9, <2>1, <2>2, <2>4, <2>10
<1>10. CASE Fail(t) /\ UNCHANGED render_passes
  BY <1>1, <1>2, <1>4, <1>10, Failing
<1> QED BY <1>1, <1>5, <1>8, <1>9, <1>10 DEF FindRenderPass

LEMMA Compiles == ASSUME PipelineInv, NEW t \in Recorders, Compile(t) PROVE PipelineInv'
<1>1. PICK c : c = call[t]
  OBVIOUS
<1>2. c.at = "compile"
  BY <1>1 DEF Compile
<1>3. c \in Calls /\ c.pipeline = NoHandle /\ Known(c.state, c.key, c.pass) /\ ~Made(t)
  BY <1>1, <1>2, CallType DEF PipelineInv, CallSound, Made
<1>4. UNCHANGED <<compiled_pipelines, render_passes, bound>>
  BY DEF Compile
<1>5. ASSUME NEW p \in Pipelines \ ever_compiled,
             call' = [call EXCEPT ![t].at = "put", ![t].pipeline = p],
             vk_pipelines' = vk_pipelines \cup {p}, ever_compiled' = ever_compiled \cup {p}
      PROVE  PipelineInv'
  <2> DEFINE d == [c EXCEPT !.at = "put", !.pipeline = p]
  <2>1. d \in Calls
    BY <1>3 DEF Calls
  <2>2. /\ d.at = "put" /\ d.pipeline = p /\ d.state = c.state /\ d.key = c.key
        /\ d.pass = c.pass
    BY <1>3 DEF Calls
  <2>3. call' = [call EXCEPT ![t] = d]
    BY <1>1, <1>3, <1>5 DEF PipelineInv, PipelineTypeOK, Calls
  <2> HIDE DEF d
  <2>4. /\ call' \in [Recorders -> Calls \cup {NotCalling}] /\ call'[t] = d
        /\ \A u \in Recorders : u # t => call'[u] = call[u]
    BY <2>1, <2>3, CallMoves DEF PipelineInv
  <2>5. PipelineTypeOK'
    BY <1>4, <1>5, <2>4 DEF PipelineInv, PipelineTypeOK
  <2>6. OneEntryPerKey'
    BY <1>4 DEF PipelineInv, OneEntryPerKey
  <2>7. \A s : Listed(s)' = Listed(s)
    BY <1>4 DEF Listed
  <2>8. ListedKnown'
    BY <1>4, <2>7 DEF PipelineInv, ListedKnown, Known
  <2>9. /\ Made(t)' /\ call'[t].pipeline = p
        /\ \A u \in Recorders : u # t => /\ Made(u)' <=> Made(u)
                                         /\ call'[u].pipeline = call[u].pipeline
    BY <2>2, <2>4 DEF Made
  <2>10. p \notin vk_pipelines
    BY <1>5 DEF PipelineInv, PipelineTypeOK
  <2>11. Accounted'
    BY <1>3, <1>5, <2>7, <2>9 DEF PipelineInv, Accounted
  <2>12. OneOwner'
    <3>1. /\ \A s \in States : \A e \in Listed(s) : e.pipeline # p
          /\ \A u \in Recorders : Made(u) => call[u].pipeline # p
      BY <2>10 DEF PipelineInv, Accounted
    <3> QED BY <2>7, <2>9, <3>1 DEF PipelineInv, OneOwner
  <2>13. Known(d.state, d.key, d.pass)'
    BY <1>3, <1>4, <2>2 DEF Known
  <2>14. ASSUME NEW u \in Recorders PROVE CallSound(u)'
    <3>1. CASE u = t
      BY <2>2, <2>4, <2>13, <3>1 DEF CallSound, Made
    <3>2. CASE u # t
      BY <1>4, <2>4, <3>2, StillSound DEF PipelineInv
    <3> QED BY <3>1, <3>2
  <2>15. ASSUME NEW u \in Recorders PROVE BoundSound(u)'
    BY <1>4, StillBound DEF PipelineInv
  <2> QED BY <2>5, <2>6, <2>8, <2>11, <2>12, <2>14, <2>15 DEF PipelineInv
<1>6. CASE Fail(t) /\ UNCHANGED <<vk_pipelines, ever_compiled>>
  BY <1>1, <1>2, <1>4, <1>6, Failing
<1> QED BY <1>5, <1>6 DEF Compile

\* The pipeline passes from the thread to the list of the state.
LEMMA Adds ==
    ASSUME PipelineInv, NEW t \in Recorders, call[t].at = "put",
           Cached(call[t].state, call[t].key) = {}, Add(t),
           call' = [call EXCEPT ![t].at = "return"],
           UNCHANGED <<render_passes, vk_pipelines, ever_compiled, bound>>
    PROVE  PipelineInv'
<1>1. PICK c : c = call[t]
  OBVIOUS
<1>2. /\ c \in Calls /\ c.state \in States /\ c.key \in Keys /\ c.pipeline \in Pipelines
      /\ Known(c.state, c.key, c.pass) /\ Made(t)
  BY <1>1, CallType DEF PipelineInv, CallSound, Made
<1>3. c.pass \in Passes
  <2>1. [key |-> PassKeyOf(c.state, c.key), pass |-> c.pass] \in PassEntry
    BY <1>2, EntriesType DEF Known, PipelineInv, PipelineTypeOK
  <2> QED BY <2>1 DEF PassEntry
<1> DEFINE d == [c EXCEPT !.at = "return"]
           new == [key |-> c.key, pipeline |-> c.pipeline, pass |-> c.pass]
<1>4. d \in Calls
  BY <1>2 DEF Calls
<1>5. /\ d.at = "return" /\ d.pipeline = c.pipeline /\ d.state = c.state /\ d.key = c.key
      /\ d.pass = c.pass
  BY <1>2 DEF Calls
<1>6. call' = [call EXCEPT ![t] = d]
  BY <1>1, <1>2 DEF PipelineInv, PipelineTypeOK, Calls
<1>7. new \in Entry
  BY <1>2, <1>3 DEF Entry
<1>8. new.key = c.key /\ new.pipeline = c.pipeline /\ new.pass = c.pass
  OBVIOUS
<1>9. compiled_pipelines' = [compiled_pipelines EXCEPT ![c.state] = Append(@, new)]
  BY <1>1 DEF Add
<1>10. [key |-> d.key, pipeline |-> d.pipeline, pass |-> d.pass] = new
  BY <1>5
<1> HIDE DEF d, new
<1>11. /\ call' \in [Recorders -> Calls \cup {NotCalling}] /\ call'[t] = d
       /\ \A u \in Recorders : u # t => call'[u] = call[u]
  BY <1>4, <1>6, CallMoves DEF PipelineInv
<1>12. PICK s \in States : s = c.state
  BY <1>2
<1>13. compiled_pipelines[s] \in Seq(Entry)
  BY DEF PipelineInv, PipelineTypeOK
<1>14. PICK old \in Seq(Entry) : old = compiled_pipelines[s]
  BY <1>13
<1>15. /\ compiled_pipelines'[s] = Append(old, new)
       /\ \A r \in States : r # s => compiled_pipelines'[r] = compiled_pipelines[r]
  BY <1>9, <1>12, <1>14 DEF PipelineInv, PipelineTypeOK
<1>16. PICK n \in Nat : Len(old) = n
  OBVIOUS
<1>17. /\ compiled_pipelines'[s] \in Seq(Entry) /\ Len(compiled_pipelines'[s]) = n + 1
       /\ \A i \in 1 .. n : compiled_pipelines'[s][i] = old[i]
       /\ compiled_pipelines'[s][n + 1] = new
  BY <1>7, <1>15, <1>16, AppendProperties
<1>18. DOMAIN old = 1 .. n /\ DOMAIN compiled_pipelines'[s] = 1 .. n + 1
  BY <1>16, <1>17, LenProperties
<1>19. Entries(compiled_pipelines'[s]) = Entries(old) \cup {new}
  BY <1>7, <1>15, EntriesOfAppend
<1>20. /\ Listed(s)' = Listed(s) \cup {new}
       /\ \A r \in States : r # s => Listed(r)' = Listed(r)
  BY <1>14, <1>15, <1>19 DEF Listed
<1>21. PipelineTypeOK'
  <2>1. compiled_pipelines' \in [States -> Seq(Entry)]
    BY <1>9, <1>12, <1>14, <1>15, <1>17 DEF PipelineInv, PipelineTypeOK
  <2> QED BY <1>11, <2>1 DEF PipelineInv, PipelineTypeOK
<1>22. OneEntryPerKey'
  <2>1. \A i \in 1 .. n : old[i].key # c.key
    <3>1. \A e \in Listed(s) : e.key # c.key
      BY <1>1, <1>12, CachedListed
    <3> QED BY <1>14, <1>18, <3>1 DEF Listed, Entries
  <2>2. \A i, j \in 1 .. n : old[i].key = old[j].key => i = j
    BY <1>14, <1>18 DEF PipelineInv, OneEntryPerKey
  <2>3. \A i \in 1 .. n + 1 : i \in 1 .. n \/ i = n + 1
    OBVIOUS
  <2>4. \A i, j \in DOMAIN compiled_pipelines'[s] :
            compiled_pipelines'[s][i].key = compiled_pipelines'[s][j].key => i = j
    BY <1>8, <1>17, <1>18, <2>1, <2>2, <2>3
  <2>5. \A r \in States : r # s => \A i, j \in DOMAIN compiled_pipelines'[r] :
            compiled_pipelines'[r][i].key = compiled_pipelines'[r][j].key => i = j
    BY <1>15 DEF PipelineInv, OneEntryPerKey
  <2>6. \A i, j \in DOMAIN render_passes' :
            render_passes'[i].key = render_passes'[j].key => i = j
    BY DEF PipelineInv, OneEntryPerKey
  <2> QED BY <2>4, <2>5, <2>6 DEF OneEntryPerKey
<1>23. ListedKnown'
  <2>1. \A r, k, pass : Known(r, k, pass)' <=> Known(r, k, pass)
    BY DEF Known
  <2>2. Known(s, new.key, new.pass)
    BY <1>2, <1>8, <1>12
  <2> QED BY <1>20, <2>1, <2>2 DEF PipelineInv, ListedKnown
<1>24. /\ ~Made(t)'
       /\ \A u \in Recorders : u # t => /\ Made(u)' <=> Made(u)
                                        /\ call'[u].pipeline = call[u].pipeline
  BY <1>5, <1>11 DEF Made
<1>25. Accounted'
  <2> SUFFICES ASSUME NEW p
               PROVE  p \in vk_pipelines <=>
                          \/ \E r \in States : \E e \in Listed(r)' : e.pipeline = p
                          \/ \E u \in Recorders : Made(u)' /\ call'[u].pipeline = p
    BY DEF Accounted
  <2>1. p \in vk_pipelines <=>
            \/ \E r \in States : \E e \in Listed(r) : e.pipeline = p
            \/ \E u \in Recorders : Made(u) /\ call[u].pipeline = p
    BY DEF PipelineInv, Accounted
  <2>2. (\E r \in States : \E e \in Listed(r)' : e.pipeline = p) <=>
            p = c.pipeline \/ \E r \in States : \E e \in Listed(r) : e.pipeline = p
    BY <1>8, <1>20
  <2>3. (\E u \in Recorders : Made(u) /\ call[u].pipeline = p) <=>
            p = c.pipeline \/ \E u \in Recorders : Made(u)' /\ call'[u].pipeline = p
    BY <1>1, <1>2, <1>24
  <2> QED BY <2>1, <2>2, <2>3
<1>26. OneOwner'
  <2>1. \A r \in States : \A e \in Listed(r) : e.pipeline # new.pipeline
    BY <1>1, <1>2, <1>8 DEF PipelineInv, OneOwner
  <2>2. \A u \in Recorders : Made(u) /\ u # t => call[u].pipeline # new.pipeline
    BY <1>1, <1>2, <1>8 DEF PipelineInv, OneOwner
  <2>3. \A r, q \in States : \A a \in Listed(r)', b \in Listed(q)' :
            a.pipeline = b.pipeline => r = q
    BY <1>20, <2>1 DEF PipelineInv, OneOwner
  <2>4. \A r \in States, u \in Recorders : \A e \in Listed(r)' :
            Made(u)' => call'[u].pipeline # e.pipeline
    BY <1>20, <1>24, <2>2 DEF PipelineInv, OneOwner
  <2>5. \A u, v \in Recorders :
            Made(u)' /\ Made(v)' /\ call'[u].pipeline = call'[v].pipeline => u = v
    BY <1>24 DEF PipelineInv, OneOwner
  <2> QED BY <2>3, <2>4, <2>5 DEF OneOwner
<1>27. \A r \in States : \A e : e \in Entries(compiled_pipelines[r])
                                  => e \in Entries(compiled_pipelines'[r])
  BY <1>20 DEF Listed
<1>28. ASSUME NEW u \in Recorders PROVE CallSound(u)'
  <2>1. CASE u = t
    <3>1. new \in Listed(d.state)'
      BY <1>5, <1>12, <1>20
    <3> QED BY <1>5, <1>10, <1>11, <2>1, <3>1 DEF CallSound, Made
  <2>2. CASE u # t
    <3>1. call[u].at # "outside" => call[u].state \in States
      BY CallType DEF PipelineInv
    <3> QED BY <1>11, <1>27, <2>2, <3>1, StillSound DEF PipelineInv
  <2> QED BY <2>1, <2>2
<1>29. ASSUME NEW u \in Recorders PROVE BoundSound(u)'
  <2>1. bound[u] # NothingBound => bound[u].state \in States
    BY BoundType DEF PipelineInv
  <2> QED BY <1>27, <2>1, StillBound DEF PipelineInv
<1> QED BY <1>21, <1>22, <1>23, <1>25, <1>26, <1>28, <1>29 DEF PipelineInv

\* The thread has lost, or has no memory for the entry.
LEMMA Loses ==
    ASSUME PipelineInv, NEW t \in Recorders, call[t].at = "put",
           \/ /\ Cached(call[t].state, call[t].key) # {}
              /\ call' = [call EXCEPT ![t].at = "lost"]
           \/ call' = [call EXCEPT ![t].at = "lost", ![t].failed = TRUE],
           UNCHANGED <<compiled_pipelines, render_passes, vk_pipelines, ever_compiled, bound>>
    PROVE  PipelineInv'
<1>1. PICK c : c = call[t]
  OBVIOUS
<1>2. /\ c \in Calls /\ c.failed \in BOOLEAN /\ c.pipeline \in Pipelines /\ Made(t)
  BY <1>1, CallType DEF PipelineInv, CallSound, Made
<1>3. PICK failed \in BOOLEAN : /\ call' = [call EXCEPT ![t] = [c EXCEPT !.at = "lost",
                                                                  !.failed = failed]]
                                /\ failed \/ Cached(c.state, c.key) # {}
  <2>1. CASE Cached(c.state, c.key) # {} /\ call' = [call EXCEPT ![t].at = "lost"]
    <3>1. [c EXCEPT !.at = "lost"] = [c EXCEPT !.at = "lost", !.failed = c.failed]
      BY <1>2 DEF Calls
    <3>2. call' = [call EXCEPT ![t] = [c EXCEPT !.at = "lost"]]
      BY <1>1, <2>1
    <3> QED BY <1>2, <2>1, <3>1, <3>2
  <2>2. CASE call' = [call EXCEPT ![t].at = "lost", ![t].failed = TRUE]
    <3>1. call' = [call EXCEPT ![t] = [c EXCEPT !.at = "lost", !.failed = TRUE]]
      BY <1>1, <1>2, <2>2 DEF PipelineInv, PipelineTypeOK, Calls
    <3> QED BY <3>1
  <2> QED BY <1>1, <2>1, <2>2
<1> DEFINE d == [c EXCEPT !.at = "lost", !.failed = failed]
<1>4. d \in Calls
  BY <1>2 DEF Calls
<1>5. /\ d.at = "lost" /\ d.pipeline = c.pipeline /\ d.failed = failed
      /\ d.state = c.state /\ d.key = c.key
  BY <1>2 DEF Calls
<1>6. call' = [call EXCEPT ![t] = d]
  BY <1>3
<1> HIDE DEF d
<1>7. call'[t] = d
  BY <1>4, <1>6, CallMoves DEF PipelineInv
<1>8. d.failed \/ Cached(d.state, d.key)' # {}
  BY <1>3, <1>5 DEF Cached
<1>9. CallSound(t)'
  BY <1>2, <1>5, <1>7, <1>8 DEF CallSound, Made
<1> QED BY <1>1, <1>2, <1>4, <1>5, <1>6, <1>9, OnlyTheStep

LEMMA Puts == ASSUME PipelineInv, NEW t \in Recorders, Put(t) PROVE PipelineInv'
<1>1. CASE /\ Cached(call[t].state, call[t].key) = {}
           /\ Add(t) /\ call' = [call EXCEPT ![t].at = "return"]
  BY <1>1, Adds DEF Put
<1>2. CASE /\ Cached(call[t].state, call[t].key) # {}
           /\ call' = [call EXCEPT ![t].at = "lost"] /\ UNCHANGED compiled_pipelines
  BY <1>2, Loses DEF Put
<1> QED BY <1>1, <1>2 DEF Put

\* A thread that has lost destroys its own pipeline, which nobody else has.
LEMMA Destroys == ASSUME PipelineInv, NEW t \in Recorders, Lose(t) PROVE PipelineInv'
<1>1. PICK c : c = call[t]
  OBVIOUS
<1>2. c.at = "lost"
  BY <1>1 DEF Lose
<1>3. /\ c \in Calls /\ c.failed \in BOOLEAN /\ Made(t)
      /\ c.failed \/ Cached(c.state, c.key) # {}
  BY <1>1, <1>2, CallType DEF PipelineInv, CallSound, Made
<1> DEFINE d == [c EXCEPT !.at = "find again", !.pipeline = NoHandle]
<1>4. d \in Calls
  BY <1>3 DEF Calls
<1>5. /\ d.at = "find again" /\ d.pipeline = NoHandle /\ d.failed = c.failed
      /\ d.state = c.state /\ d.key = c.key
  BY <1>3 DEF Calls
<1>6. /\ call' = [call EXCEPT ![t] = d] /\ vk_pipelines' = vk_pipelines \ {c.pipeline}
      /\ UNCHANGED <<compiled_pipelines, render_passes, ever_compiled, bound>>
  BY <1>1, <1>3 DEF Lose, PipelineInv, PipelineTypeOK, Calls
<1> HIDE DEF d
<1>7. /\ call' \in [Recorders -> Calls \cup {NotCalling}] /\ call'[t] = d
      /\ \A u \in Recorders : u # t => call'[u] = call[u]
  BY <1>4, <1>6, CallMoves DEF PipelineInv
<1>8. PipelineTypeOK'
  BY <1>6, <1>7 DEF PipelineInv, PipelineTypeOK
<1>9. OneEntryPerKey'
  BY <1>6 DEF PipelineInv, OneEntryPerKey
<1>10. \A s : Listed(s)' = Listed(s)
  BY <1>6 DEF Listed
<1>11. ListedKnown'
  BY <1>6, <1>10 DEF PipelineInv, ListedKnown, Known
<1>12. /\ ~Made(t)'
       /\ \A u \in Recorders : u # t => /\ Made(u)' <=> Made(u)
                                        /\ call'[u].pipeline = call[u].pipeline
  BY <1>5, <1>7 DEF Made
<1>13. Accounted'
  <2>1. \A s \in States : \A e \in Listed(s) : e.pipeline # c.pipeline
    BY <1>1, <1>3 DEF PipelineInv, OneOwner
  <2>2. \A u \in Recorders : u # t /\ Made(u) => call[u].pipeline # c.pipeline
    BY <1>1, <1>3 DEF PipelineInv, OneOwner
  <2> QED BY <1>1, <1>6, <1>10, <1>12, <2>1, <2>2 DEF PipelineInv, Accounted
<1>14. OneOwner'
  BY <1>10, <1>12 DEF PipelineInv, OneOwner
<1>15. Cached(d.state, d.key)' = Cached(c.state, c.key)
  BY <1>5, <1>6 DEF Cached
<1>16. ASSUME NEW u \in Recorders PROVE CallSound(u)'
  <2>1. CASE u = t
    BY <1>3, <1>5, <1>7, <1>15, <2>1 DEF CallSound, Made
  <2>2. CASE u # t
    BY <1>6, <1>7, <2>2, StillSound DEF PipelineInv
  <2> QED BY <2>1, <2>2
<1>17. ASSUME NEW u \in Recorders PROVE BoundSound(u)'
  BY <1>6, StillBound DEF PipelineInv
<1> QED BY <1>8, <1>9, <1>11, <1>13, <1>14, <1>16, <1>17 DEF PipelineInv

LEMMA Binds == ASSUME PipelineInv, NEW t \in Recorders, Bind(t) PROVE PipelineInv'
<1>1. PICK c : c = call[t]
  OBVIOUS
<1>2. c.at = "return"
  BY <1>1 DEF Bind
<1>3. c \in Calls /\ c.state \in States /\ c.key \in Keys /\ ~Made(t)
  BY <1>1, <1>2, CallType DEF PipelineInv, Made
<1>4. /\ call' = [call EXCEPT ![t] = NotCalling]
      /\ UNCHANGED <<compiled_pipelines, render_passes, vk_pipelines, ever_compiled>>
  BY DEF Bind
<1> DEFINE new == [state |-> c.state, key |-> c.key, pipeline |-> c.pipeline, pass |-> c.pass]
<1>5. bound' = [bound EXCEPT ![t] = IF c.pipeline = NoHandle THEN NothingBound ELSE new]
  BY <1>1 DEF Bind
<1>6. new.state = c.state /\ new.key = c.key /\ new.pipeline = c.pipeline /\ new.pass = c.pass
  OBVIOUS
<1>7. c.pipeline # NoHandle =>
          [key |-> c.key, pipeline |-> c.pipeline, pass |-> c.pass] \in Listed(c.state)
  BY <1>1, <1>2 DEF PipelineInv, CallSound
<1>8. c.pipeline # NoHandle => new \in Bindings
  <2> HAVE c.pipeline # NoHandle
  <2>1. [key |-> c.key, pipeline |-> c.pipeline, pass |-> c.pass] \in Entry
    BY <1>3, <1>7, ListedType DEF PipelineInv
  <2>2. c.pipeline \in Pipelines /\ c.pass \in Passes
    BY <2>1 DEF Entry
  <2> QED BY <1>3, <2>2 DEF Bindings
<1> HIDE DEF new
<1>9. /\ bound' \in [Recorders -> Bindings \cup {NothingBound}]
      /\ bound'[t] = IF c.pipeline = NoHandle THEN NothingBound ELSE new
      /\ \A u \in Recorders : u # t => bound'[u] = bound[u]
  BY <1>5, <1>8 DEF PipelineInv, PipelineTypeOK
<1>10. BoundSound(t)'
  <2>1. CASE c.pipeline = NoHandle
    BY <1>9, <2>1 DEF BoundSound
  <2>2. CASE c.pipeline # NoHandle
    BY <1>4, <1>6, <1>7, <1>9, <2>2 DEF BoundSound, Listed
  <2> QED BY <2>1, <2>2
<1>11. NotCalling.at = "outside"
  BY DEF NotCalling
<1>12. call'[t] = NotCalling
  BY <1>4, CallMoves DEF PipelineInv
<1>13. CallSound(t)'
  BY <1>11, <1>12 DEF CallSound, Made
<1> QED BY <1>3, <1>4, <1>9, <1>10, <1>11, <1>13, OnlyTheCall

\* A state that no call and no list uses goes with its pipelines.
LEMMA StateGoes == ASSUME PipelineInv, NEW s \in States, DestroyState(s) PROVE PipelineInv'
<1>1. /\ \A t \in Recorders : /\ call[t].at # "outside" => call[t].state # s
                              /\ bound[t] # NothingBound => bound[t].state # s
      /\ vk_pipelines' = vk_pipelines \ {e.pipeline : e \in Listed(s)}
      /\ compiled_pipelines' = [compiled_pipelines EXCEPT ![s] = <<>>]
      /\ UNCHANGED <<render_passes, ever_compiled, call, bound>>
  BY DEF DestroyState, Listed
<1>2. /\ compiled_pipelines' \in [States -> Seq(Entry)] /\ compiled_pipelines'[s] = <<>>
      /\ \A r \in States : r # s => compiled_pipelines'[r] = compiled_pipelines[r]
  BY <1>1 DEF PipelineInv, PipelineTypeOK
<1>3. PipelineTypeOK'
  BY <1>1, <1>2 DEF PipelineInv, PipelineTypeOK
<1>4. OneEntryPerKey'
  <2>1. \A i, j \in DOMAIN compiled_pipelines'[s] :
            compiled_pipelines'[s][i].key = compiled_pipelines'[s][j].key => i = j
    BY <1>2
  <2>2. \A r \in States : r # s => \A i, j \in DOMAIN compiled_pipelines'[r] :
            compiled_pipelines'[r][i].key = compiled_pipelines'[r][j].key => i = j
    BY <1>2 DEF PipelineInv, OneEntryPerKey
  <2> QED BY <1>1, <2>1, <2>2 DEF PipelineInv, OneEntryPerKey
<1>5. Listed(s)' = {} /\ \A r \in States : r # s => Listed(r)' = Listed(r)
  BY <1>2, EntriesOfEmpty DEF Listed
<1>6. ListedKnown'
  BY <1>1, <1>5 DEF PipelineInv, ListedKnown, Known
<1>7. \A t \in Recorders : (Made(t)' <=> Made(t)) /\ call'[t].pipeline = call[t].pipeline
  BY <1>1 DEF Made
<1>8. Accounted'
  <2> SUFFICES ASSUME NEW p
               PROVE  p \in vk_pipelines' <=>
                          \/ \E r \in States : \E e \in Listed(r)' : e.pipeline = p
                          \/ \E u \in Recorders : Made(u)' /\ call'[u].pipeline = p
    BY DEF Accounted
  <2>1. p \in vk_pipelines <=>
            \/ \E r \in States : \E e \in Listed(r) : e.pipeline = p
            \/ \E u \in Recorders : Made(u) /\ call[u].pipeline = p
    BY DEF PipelineInv, Accounted
  <2>2. p \in vk_pipelines' <=> p \in vk_pipelines /\ ~\E e \in Listed(s) : e.pipeline = p
    BY <1>1
  <2>3. CASE \E e \in Listed(s) : e.pipeline = p
    <3>1. ~\E r \in States : \E e \in Listed(r)' : e.pipeline = p
      BY <1>5, <2>3 DEF PipelineInv, OneOwner
    <3>2. ~\E u \in Recorders : Made(u)' /\ call'[u].pipeline = p
      BY <1>7, <2>3 DEF PipelineInv, OneOwner
    <3> QED BY <2>2, <2>3, <3>1, <3>2
  <2>4. CASE ~\E e \in Listed(s) : e.pipeline = p
    BY <1>5, <1>7, <2>1, <2>2, <2>4
  <2> QED BY <2>3, <2>4
<1>9. OneOwner'
  BY <1>5, <1>7 DEF PipelineInv, OneOwner
<1>10. ASSUME NEW u \in Recorders PROVE CallSound(u)'
  <2>1. call[u].at # "outside" => call[u].state \in States
    BY CallType DEF PipelineInv
  <2> QED BY <1>1, <1>2, <2>1, StillSound DEF PipelineInv
<1>11. ASSUME NEW u \in Recorders PROVE BoundSound(u)'
  <2>1. bound[u] # NothingBound => bound[u].state \in States
    BY BoundType DEF PipelineInv
  <2> QED BY <1>1, <1>2, <2>1, StillBound DEF PipelineInv
<1> QED BY <1>3, <1>4, <1>6, <1>8, <1>9, <1>10, <1>11 DEF PipelineInv

LEMMA PipelineStep ==
    ASSUME PipelineInv, [PipelineNext]_pipelineVars
    PROVE  PipelineInv'
<1>1. ASSUME NEW t \in Recorders, NEW s \in States, NEW k \in Keys, GetOrCreate(t, s, k)
      PROVE  PipelineInv'
  BY <1>1, CallBegins
<1>2. ASSUME NEW t \in Recorders,
             \/ Find(t) \/ FindRenderPass(t) \/ Compile(t) \/ Put(t) \/ Lose(t) \/ Bind(t)
      PROVE  PipelineInv'
  BY <1>2, Finds, FindsRenderPass, Compiles, Puts, Destroys, Binds
<1>3. ASSUME NEW t \in Recorders, PutFails(t) PROVE PipelineInv'
  BY <1>3, Loses DEF PutFails
<1>4. ASSUME NEW s \in States, DestroyState(s) PROVE PipelineInv'
  BY <1>4, StateGoes
<1>5. CASE UNCHANGED pipelineVars
  <2>1. UNCHANGED <<compiled_pipelines, render_passes, vk_pipelines, ever_compiled, call, bound>>
    BY <1>5 DEF pipelineVars
  <2>2. PipelineTypeOK' /\ OneEntryPerKey'
    BY <2>1 DEF PipelineInv, PipelineTypeOK, OneEntryPerKey
  <2>3. \A s : Listed(s)' = Listed(s) /\ \A k, pass : Known(s, k, pass)' <=> Known(s, k, pass)
    BY <2>1 DEF Listed, Known
  <2>4. \A t : Made(t)' <=> Made(t)
    BY <2>1 DEF Made
  <2>5. ListedKnown' /\ Accounted' /\ OneOwner'
    BY <2>1, <2>3, <2>4 DEF PipelineInv, ListedKnown, Accounted, OneOwner
  <2>6. ASSUME NEW t \in Recorders PROVE CallSound(t)' /\ BoundSound(t)'
    BY <2>1, StillSound, StillBound DEF PipelineInv
  <2> QED BY <2>2, <2>5, <2>6 DEF PipelineInv
<1> QED BY <1>1, <1>2, <1>3, <1>4, <1>5 DEF PipelineNext

(***************************************************************************)
(* d3d12_pipeline_state_get_or_create_pipeline() by any number of threads: *)
(* the lists of those that need the same pipeline have the same one, which *)
(* exists, with the one render pass of its formats; what the losers made   *)
(* is destroyed; a call returns nothing only if a step of its own failed.  *)
(***************************************************************************)
THEOREM PipelinesAreShared == PipelineSpec => []PipelinesShared
<1>1. PipelineInit => PipelineInv
  BY PipelineStart
<1>2. PipelineInv /\ [PipelineNext]_pipelineVars => PipelineInv'
  BY PipelineStep
<1>3. PipelineInv => PipelinesShared
  BY PipelineInvImplies
<1> QED BY <1>1, <1>2, <1>3, PTL DEF PipelineSpec

----------------------------------------------------------------------------
\* A set of natural numbers has a least element.
LEMMA LeastNatural ==
    ASSUME NEW S \in SUBSET Nat, S # {}
    PROVE  \E x \in S : \A y \in S : x <= y
<1> DEFINE R == {p \in Nat \X Nat : p[1] < p[2]}
<1>1. IsWellFoundedOn(R, Nat)
  BY NatLessThanWellFounded DEF OpToRel
<1>2. PICK x \in S : \A y \in S : <<y, x>> \notin R
  BY <1>1, WFMin
<1>3. \A y \in S : y \in Nat /\ x \in Nat /\ ~ y < x
  BY <1>2
<1> QED BY <1>3

----------------------------------------------------------------------------
(* The arrays of pools.                                                    *)

\* No pool is in two places of the array.
Distinct(seq) == \A i, j \in DOMAIN seq : seq[i].vk_pool = seq[j].vk_pool => i = j

LEMMA PoolsAreThoseOfEntries == \A seq : PoolsOf(seq) = {p.vk_pool : p \in ToSet(seq)}
BY DEF PoolsOf, ToSet

LEMMA EntryOf ==
    ASSUME NEW s \in Seq(PoolEntries)
    PROVE  /\ Len(s) \in Nat /\ DOMAIN s = 1 .. Len(s) /\ ToSet(s) \subseteq PoolEntries
           /\ \A i \in DOMAIN s : s[i] \in PoolEntries /\ s[i] \in ToSet(s)
           /\ PoolsOf(s) \subseteq DescriptorPools
<1>1. Len(s) \in Nat /\ DOMAIN s = 1 .. Len(s) /\ \A i \in DOMAIN s : s[i] \in PoolEntries
  BY LenProperties, ElementOfSeq
<1>2. \A p \in PoolEntries : p.vk_pool \in DescriptorPools
  BY DEF PoolEntries
<1> QED BY <1>1, <1>2 DEF PoolsOf, ToSet

LEMMA NoEntries == <<>> \in Seq(PoolEntries) /\ Distinct(<<>>) /\ ToSet(<<>>) = {} /\ PoolsOf(<<>>) = {}
BY DEF Distinct, ToSet, PoolsOf

LEMMA EntryAdded ==
    ASSUME NEW s \in Seq(PoolEntries), NEW e \in PoolEntries
    PROVE  /\ Append(s, e) \in Seq(PoolEntries)
           /\ ToSet(Append(s, e)) = ToSet(s) \cup {e}
           /\ PoolsOf(Append(s, e)) = PoolsOf(s) \cup {e.vk_pool}
           /\ Distinct(s) /\ e.vk_pool \notin PoolsOf(s) => Distinct(Append(s, e))
<1> PICK r : r = Append(s, e)
  OBVIOUS
<1>1. /\ r \in Seq(PoolEntries) /\ Len(r) = Len(s) + 1 /\ r[Len(s) + 1] = e
      /\ \A i \in 1 .. Len(s) : r[i] = s[i]
  BY AppendProperties
<1>2. Len(s) \in Nat /\ DOMAIN s = 1 .. Len(s) /\ DOMAIN r = 1 .. Len(s) + 1
  BY <1>1, EntryOf
<1>3. \A i \in DOMAIN r : \/ i \in DOMAIN s /\ r[i] = s[i]
                          \/ i = Len(s) + 1 /\ r[i] = e
  BY <1>1, <1>2
<1>4. Len(s) + 1 \in DOMAIN r /\ \A i \in DOMAIN s : i \in DOMAIN r /\ r[i] = s[i]
  BY <1>1, <1>2
<1>5. ToSet(r) = ToSet(s) \cup {e}
  BY <1>1, <1>3, <1>4 DEF ToSet
<1>6. PoolsOf(r) = PoolsOf(s) \cup {e.vk_pool}
  BY <1>1, <1>3, <1>4 DEF PoolsOf
<1>7. ASSUME Distinct(s), e.vk_pool \notin PoolsOf(s) PROVE Distinct(r)
  <2>1. \A i \in DOMAIN s : s[i].vk_pool # e.vk_pool
    BY <1>7 DEF PoolsOf
  <2> QED BY <2>1, <1>3, <1>7 DEF Distinct
<1> QED BY <1>1, <1>5, <1>6, <1>7

LEMMA EntriesJoined ==
    ASSUME NEW s \in Seq(PoolEntries), NEW t \in Seq(PoolEntries)
    PROVE  /\ s \o t \in Seq(PoolEntries)
           /\ ToSet(s \o t) = ToSet(s) \cup ToSet(t)
           /\ PoolsOf(s \o t) = PoolsOf(s) \cup PoolsOf(t)
           /\ Distinct(s) /\ Distinct(t) /\ PoolsOf(s) \cap PoolsOf(t) = {} => Distinct(s \o t)
<1> PICK r : r = s \o t
  OBVIOUS
<1>1. /\ r \in Seq(PoolEntries) /\ Len(r) = Len(s) + Len(t)
      /\ \A i \in 1 .. Len(s) + Len(t) : r[i] = IF i <= Len(s) THEN s[i] ELSE t[i - Len(s)]
  BY ConcatProperties
<1>2. /\ Len(s) \in Nat /\ DOMAIN s = 1 .. Len(s) /\ Len(t) \in Nat /\ DOMAIN t = 1 .. Len(t)
      /\ DOMAIN r = 1 .. Len(s) + Len(t)
  BY <1>1, EntryOf
<1>3. \A i \in DOMAIN r : \/ i \in DOMAIN s /\ r[i] = s[i]
                          \/ i > Len(s) /\ i - Len(s) \in DOMAIN t /\ r[i] = t[i - Len(s)]
  BY <1>1, <1>2
<1>4. \A i \in DOMAIN s : i \in DOMAIN r /\ r[i] = s[i]
  BY <1>1, <1>2
<1>5. \A i \in DOMAIN t : Len(s) + i \in DOMAIN r /\ r[Len(s) + i] = t[i]
  <2> TAKE i \in DOMAIN t
  <2>1. Len(s) + i \in 1 .. Len(s) + Len(t) /\ ~ Len(s) + i <= Len(s) /\ (Len(s) + i) - Len(s) = i
    BY <1>2
  <2> QED BY <2>1, <1>1, <1>2
<1>6. ToSet(r) = ToSet(s) \cup ToSet(t)
  <2>1. \A x \in ToSet(r) : x \in ToSet(s) \cup ToSet(t)
    BY <1>3 DEF ToSet
  <2>2. \A x \in ToSet(s) : x \in ToSet(r)
    BY <1>4 DEF ToSet
  <2>3. \A x \in ToSet(t) : x \in ToSet(r)
    BY <1>5 DEF ToSet
  <2> QED BY <2>1, <2>2, <2>3
<1>7. PoolsOf(r) = PoolsOf(s) \cup PoolsOf(t)
  BY <1>6, PoolsAreThoseOfEntries
<1>8. ASSUME Distinct(s), Distinct(t), PoolsOf(s) \cap PoolsOf(t) = {},
             NEW i \in DOMAIN r, NEW j \in DOMAIN r, r[i].vk_pool = r[j].vk_pool
      PROVE  i = j
  <2>1. \A k \in DOMAIN s, m \in DOMAIN t : s[k].vk_pool # t[m].vk_pool
    BY <1>8 DEF PoolsOf
  <2>2. CASE i \in DOMAIN s /\ r[i] = s[i]
    <3>1. j \in DOMAIN s /\ r[j] = s[j]
      BY <2>1, <2>2, <1>3, <1>8
    <3> QED BY <2>2, <3>1, <1>8 DEF Distinct
  <2>3. CASE i > Len(s) /\ i - Len(s) \in DOMAIN t /\ r[i] = t[i - Len(s)]
    <3>1. j > Len(s) /\ j - Len(s) \in DOMAIN t /\ r[j] = t[j - Len(s)]
      BY <2>1, <2>3, <1>3, <1>8
    <3>2. i - Len(s) = j - Len(s)
      BY <2>3, <3>1, <1>8 DEF Distinct
    <3> QED BY <3>2, <1>2
  <2> QED BY <2>2, <2>3, <1>3
<1> QED BY <1>1, <1>6, <1>7, <1>8 DEF Distinct

LEMMA EntryRemoved ==
    ASSUME NEW s \in Seq(PoolEntries), NEW n \in DOMAIN s, Distinct(s)
    PROVE  /\ RemoveBySwap(s, n) \in Seq(PoolEntries) /\ Distinct(RemoveBySwap(s, n))
           /\ ToSet(RemoveBySwap(s, n)) = ToSet(s) \ {s[n]}
           /\ PoolsOf(RemoveBySwap(s, n)) = PoolsOf(s) \ {s[n].vk_pool}
<1>1. Len(s) \in Nat /\ DOMAIN s = 1 .. Len(s) /\ n \in 1 .. Len(s)
  BY EntryOf
<1>2. PICK m : m = Len(s)
  OBVIOUS
<1>3. /\ m \in 1 .. Len(s) /\ m \in Int /\ 1 .. m = DOMAIN s /\ n <= m
      /\ n \in Int /\ 1 \in Int /\ m - 1 \in Int
  BY <1>1, <1>2
<1>4. PICK c : c = [s EXCEPT ![n] = s[m]]
  OBVIOUS
<1>5. \A i \in 1 .. m : c[i] = (IF i = n THEN s[m] ELSE s[i]) /\ c[i] \in PoolEntries
  BY <1>3, <1>4, EntryOf
<1>6. PICK r : r = SubSeq(c, 1, m - 1)
  OBVIOUS
<1>7. \A i \in 1 .. m - 1 : c[i] \in PoolEntries
  BY <1>3, <1>5
<1>8. /\ r \in Seq(PoolEntries) /\ Len(r) = (IF 1 <= m - 1 THEN m - 1 - 1 + 1 ELSE 0)
      /\ \A i \in 1 .. m - 1 - 1 + 1 : r[i] = c[1 + i - 1]
  BY <1>3, <1>6, <1>7, SubSeqProperties
<1>9. Len(r) = m - 1 /\ \A i \in 1 .. m - 1 : r[i] = IF i = n THEN s[m] ELSE s[i]
  <2>1. m - 1 - 1 + 1 = m - 1 /\ m >= 1
    BY <1>3
  <2>2. \A i \in 1 .. m - 1 : 1 + i - 1 = i /\ i \in 1 .. m
    BY <1>3
  <2>3. Len(r) = m - 1
    BY <2>1, <1>3, <1>8
  <2>4. \A i \in 1 .. m - 1 : r[i] = c[i]
    BY <2>1, <2>2, <1>8
  <2> QED BY <2>2, <2>3, <2>4, <1>5
<1>10. DOMAIN r = 1 .. m - 1
  BY <1>8, <1>9, LenProperties
<1>11. r = RemoveBySwap(s, n)
  BY <1>2, <1>4, <1>6 DEF RemoveBySwap, Last
<1>12. Distinct(r)
  <2> SUFFICES ASSUME NEW i \in 1 .. m - 1, NEW j \in 1 .. m - 1, r[i].vk_pool = r[j].vk_pool
               PROVE  i = j
    BY <1>10 DEF Distinct
  <2>1. PICK k \in DOMAIN s, l \in DOMAIN s :
            /\ r[i] = s[k] /\ k = (IF i = n THEN m ELSE i)
            /\ r[j] = s[l] /\ l = (IF j = n THEN m ELSE j)
    BY <1>3, <1>9
  <2>2. k = l
    BY <2>1 DEF Distinct
  <2> QED BY <2>1, <2>2, <1>3
<1>13. ToSet(r) = ToSet(s) \ {s[n]}
  <2>1. ASSUME NEW i \in DOMAIN r PROVE r[i] \in ToSet(s) \ {s[n]}
    <3>1. PICK k \in DOMAIN s : r[i] = s[k] /\ k = (IF i = n THEN m ELSE i)
      BY <2>1, <1>3, <1>9, <1>10
    <3>2. k # n
      BY <2>1, <3>1, <1>3, <1>10
    <3>3. s[k] # s[n]
      BY <3>1, <3>2 DEF Distinct
    <3> QED BY <3>1, <3>3 DEF ToSet
  <2>2. ASSUME NEW k \in DOMAIN s, s[k] # s[n] PROVE s[k] \in ToSet(r)
    <3>1. CASE k = m
      <4>1. n \in DOMAIN r /\ r[n] = s[m]
        BY <2>2, <3>1, <1>3, <1>9, <1>10
      <4> QED BY <3>1, <4>1 DEF ToSet
    <3>2. CASE k # m
      <4>1. k \in DOMAIN r /\ r[k] = s[k]
        BY <2>2, <3>2, <1>3, <1>9, <1>10
      <4> QED BY <4>1 DEF ToSet
    <3> QED BY <3>1, <3>2
  <2>3. \A x \in ToSet(r) : x \in ToSet(s) \ {s[n]}
    BY <2>1 DEF ToSet
  <2>4. \A x \in ToSet(s) \ {s[n]} : x \in ToSet(r)
    BY <2>2 DEF ToSet
  <2> QED BY <2>3, <2>4
<1>14. PoolsOf(r) = PoolsOf(s) \ {s[n].vk_pool}
  <2>1. \A x \in ToSet(s) : x.vk_pool = s[n].vk_pool <=> x = s[n]
    BY <1>1 DEF ToSet, Distinct
  <2>2. PoolsOf(r) = {p.vk_pool : p \in ToSet(s) \ {s[n]}} /\ PoolsOf(s) = {p.vk_pool : p \in ToSet(s)}
    BY <1>13, PoolsAreThoseOfEntries
  <2> QED BY <2>1, <2>2
<1> QED BY <1>8, <1>11, <1>12, <1>13, <1>14

\* The recursive function in PoolsOfSize is defined: on a first part of the
\* array, then on the whole.
KeptStep(s, size, n, g) ==
    [i \in 0 .. n |-> IF i = 0 THEN <<>>
                      ELSE IF s[i].descriptor_count >= size THEN Append(g[i - 1], s[i]) ELSE g[i - 1]]

LEMMA KeptDefined ==
    ASSUME NEW s \in Seq(PoolEntries), NEW size
    PROVE  \E g : PoolsOfSize(s, size) = g[Len(s)] /\ g = KeptStep(s, size, Len(s), g)
<1>1. Len(s) \in Nat
  BY EntryOf
<1>2. \A n \in 0 .. Len(s) : \E g : g = KeptStep(s, size, n, g)
  <2> DEFINE T == {n \in 0 .. Len(s) : ~ \E g : g = KeptStep(s, size, n, g)}
  <2> SUFFICES ASSUME T # {} PROVE FALSE
    OBVIOUS
  <2>1. T \in SUBSET Nat
    BY <1>1
  <2>2. PICK n \in T : \A m \in T : n <= m
    BY <2>1, LeastNatural
  <2>3. n \in 0 .. Len(s) /\ ~ \E g : g = KeptStep(s, size, n, g)
    BY <2>2
  <2>4. CASE n = 0
    <3> DEFINE g == [i \in 0 .. 0 |-> <<>>]
    <3>1. g = KeptStep(s, size, 0, g)
      BY DEF KeptStep
    <3> QED BY <3>1, <2>3, <2>4
  <2>5. CASE n # 0
    <3>1. n - 1 \in 0 .. Len(s) /\ n - 1 \notin T
      BY <1>1, <2>2, <2>3, <2>5
    <3>2. PICK h : h = KeptStep(s, size, n - 1, h)
      BY <3>1
    <3>3. PICK e : e = IF s[n].descriptor_count >= size THEN Append(h[n - 1], s[n]) ELSE h[n - 1]
      OBVIOUS
    <3>4. PICK g : g = [i \in 0 .. n |-> IF i = n THEN e ELSE h[i]]
      OBVIOUS
    <3>5. \A i \in 0 .. n - 1 : h[i] = IF i = 0 THEN <<>>
                                       ELSE IF s[i].descriptor_count >= size
                                            THEN Append(h[i - 1], s[i]) ELSE h[i - 1]
      BY <3>2 DEF KeptStep
    <3>6. \A i \in 0 .. n - 1 : g[i] = h[i]
      BY <1>1, <2>3, <3>4
    <3>7. g[n] = e /\ DOMAIN g = 0 .. n
      BY <1>1, <2>3, <3>4
    <3>8. ASSUME NEW i \in 0 .. n PROVE g[i] = KeptStep(s, size, n, g)[i]
      <4>1. CASE i = n
        <5>1. n - 1 \in 0 .. n - 1 /\ g[n - 1] = h[n - 1]
          BY <1>1, <2>3, <2>5, <3>6
        <5> QED BY <5>1, <4>1, <2>5, <3>3, <3>7 DEF KeptStep
      <4>2. CASE i # n /\ i # 0
        <5>1. i \in 0 .. n - 1 /\ i - 1 \in 0 .. n - 1
          BY <4>2, <1>1, <2>3
        <5>2. g[i] = h[i] /\ g[i - 1] = h[i - 1]
          BY <5>1, <3>6
        <5> QED BY <5>1, <5>2, <3>5, <4>2 DEF KeptStep
      <4>3. CASE i = 0 /\ i # n
        <5>1. i \in 0 .. n - 1
          BY <4>3, <1>1, <2>3
        <5> QED BY <5>1, <4>3, <3>5, <3>6 DEF KeptStep
      <4> QED BY <4>1, <4>2, <4>3
    <3>9. g = KeptStep(s, size, n, g)
      BY <3>4, <3>8 DEF KeptStep
    <3> QED BY <3>9, <2>3
  <2> QED BY <2>4, <2>5
<1>3. \E g : g = KeptStep(s, size, Len(s), g)
  BY <1>1, <1>2
<1> DEFINE kept == CHOOSE g : g = KeptStep(s, size, Len(s), g)
<1>4. kept = KeptStep(s, size, Len(s), kept)
  BY <1>3
<1>5. PoolsOfSize(s, size) = kept[Len(s)]
  BY DEF PoolsOfSize, KeptStep
<1> QED BY <1>4, <1>5

LEMMA SizeKept ==
    ASSUME NEW s \in Seq(PoolEntries), NEW size, Distinct(s)
    PROVE  /\ PoolsOfSize(s, size) \in Seq(PoolEntries) /\ Distinct(PoolsOfSize(s, size))
           /\ ToSet(PoolsOfSize(s, size)) \subseteq ToSet(s)
           /\ PoolsOf(PoolsOfSize(s, size)) \subseteq PoolsOf(s)
<1> PICK g : PoolsOfSize(s, size) = g[Len(s)] /\ g = KeptStep(s, size, Len(s), g)
  BY KeptDefined
<1>1. Len(s) \in Nat /\ DOMAIN s = 1 .. Len(s) /\ \A i \in DOMAIN s : s[i] \in PoolEntries
  BY EntryOf
<1> DEFINE Good(n) == /\ g[n] \in Seq(PoolEntries) /\ Distinct(g[n])
                      /\ ToSet(g[n]) \subseteq {s[k] : k \in 1 .. n}
           T == {n \in 0 .. Len(s) : ~ Good(n)}
<1>2. T = {}
  <2> SUFFICES ASSUME T # {} PROVE FALSE
    OBVIOUS
  <2>1. T \in SUBSET Nat
    BY <1>1
  <2>2. PICK n \in T : \A m \in T : n <= m
    BY <2>1, LeastNatural
  <2>3. n \in 0 .. Len(s) /\ ~ Good(n)
    BY <2>2
  <2>4. CASE n = 0
    <3>1. g[0] = <<>>
      BY <2>3, <2>4 DEF KeptStep
    <3> QED BY <3>1, <2>3, <2>4, NoEntries
  <2>5. CASE n # 0
    <3>1. n - 1 \in 0 .. Len(s) /\ n \in DOMAIN s
      BY <1>1, <2>3, <2>5
    <3>2. PICK h : h = g[n - 1]
      OBVIOUS
    <3>3. h \in Seq(PoolEntries) /\ Distinct(h) /\ ToSet(h) \subseteq {s[k] : k \in 1 .. n - 1}
      <4>1. ~ n <= n - 1
        BY <1>1, <2>3
      <4>2. n - 1 \notin T
        BY <2>2, <4>1
      <4>3. Good(n - 1)
        BY <3>1, <4>2
      <4> QED BY <3>2, <4>3
    <3>4. g[n] = (IF s[n].descriptor_count >= size THEN Append(h, s[n]) ELSE h)
      BY <2>3, <2>5, <3>2 DEF KeptStep
    <3>5. {s[k] : k \in 1 .. n} = {s[k] : k \in 1 .. n - 1} \cup {s[n]}
      <4>1. 1 .. n = 1 .. n - 1 \cup {n}
        BY <1>1, <3>1
      <4> QED BY <4>1
    <3>6. s[n].vk_pool \notin PoolsOf(h)
      <4>1. \A k \in 1 .. n - 1 : k \in DOMAIN s /\ k # n
        BY <1>1, <3>1
      <4>2. \A k \in 1 .. n - 1 : s[k].vk_pool # s[n].vk_pool
        BY <4>1, <3>1 DEF Distinct
      <4>3. \A p \in ToSet(h) : p.vk_pool # s[n].vk_pool
        BY <4>2, <3>3
      <4> QED BY <4>3, PoolsAreThoseOfEntries
    <3>7. s[n] \in PoolEntries
      BY <1>1, <3>1
    <3>8. CASE g[n] = Append(h, s[n])
      <4>1. /\ g[n] \in Seq(PoolEntries) /\ Distinct(g[n])
            /\ ToSet(g[n]) = ToSet(h) \cup {s[n]}
        BY <3>3, <3>6, <3>7, <3>8, EntryAdded
      <4>2. ToSet(g[n]) \subseteq {s[k] : k \in 1 .. n}
        BY <4>1, <3>3, <3>5
      <4>3. Good(n)
        BY <4>1, <4>2
      <4> QED BY <4>3, <2>3
    <3>9. CASE g[n] = h
      <4>1. Good(n)
        BY <3>3, <3>5, <3>9
      <4> QED BY <4>1, <2>3
    <3> QED BY <3>4, <3>8, <3>9
  <2> QED BY <2>4, <2>5
<1>3. Good(Len(s))
  <2>1. Len(s) \in 0 .. Len(s)
    BY <1>1
  <2>2. Len(s) \notin T
    BY <1>2
  <2> QED BY <2>1, <2>2
<1>4. ToSet(g[Len(s)]) \subseteq ToSet(s)
  BY <1>1, <1>3 DEF ToSet
<1>5. PoolsOf(g[Len(s)]) \subseteq PoolsOf(s)
  BY <1>4, PoolsAreThoseOfEntries
<1> QED BY <1>3, <1>4, <1>5

\* 1, 2, 4, ...: one of them is what PowerOfTwo is for.
PowerStep(n, g) == [k \in 0 .. n |-> IF k = 0 THEN 1 ELSE 2 * g[k - 1]]

LEMMA PowersDefined ==
    ASSUME NEW n \in Nat
    PROVE  \E g : /\ PowerOfTwo(n) = CHOOSE p \in {g[k] : k \in 0 .. n} : p >= n /\ p < 2 * n
                  /\ g = PowerStep(n, g)
<1>2. \A m \in 0 .. n : \E g : g = PowerStep(m, g)
  <2> DEFINE T == {m \in 0 .. n : ~ \E g : g = PowerStep(m, g)}
  <2> SUFFICES ASSUME T # {} PROVE FALSE
    OBVIOUS
  <2>1. T \in SUBSET Nat
    OBVIOUS
  <2>2. PICK m \in T : \A l \in T : m <= l
    BY <2>1, LeastNatural
  <2>3. m \in 0 .. n /\ ~ \E g : g = PowerStep(m, g)
    BY <2>2
  <2>4. CASE m = 0
    <3> DEFINE g == [k \in 0 .. 0 |-> 1]
    <3>1. g = PowerStep(0, g)
      BY DEF PowerStep
    <3> QED BY <3>1, <2>3, <2>4
  <2>5. CASE m # 0
    <3>1. m - 1 \in 0 .. n /\ m - 1 \notin T
      BY <2>2, <2>3, <2>5
    <3>2. PICK h : h = PowerStep(m - 1, h)
      BY <3>1
    <3>3. PICK e : e = 2 * h[m - 1]
      OBVIOUS
    <3>4. PICK g : g = [k \in 0 .. m |-> IF k = m THEN e ELSE h[k]]
      OBVIOUS
    <3>5. \A k \in 0 .. m - 1 : h[k] = IF k = 0 THEN 1 ELSE 2 * h[k - 1]
      BY <3>2 DEF PowerStep
    <3>6. \A k \in 0 .. m - 1 : g[k] = h[k]
      BY <2>3, <3>4
    <3>7. g[m] = e /\ DOMAIN g = 0 .. m
      BY <2>3, <3>4
    <3>8. ASSUME NEW k \in 0 .. m PROVE g[k] = PowerStep(m, g)[k]
      <4>1. CASE k = m
        <5>1. m - 1 \in 0 .. m - 1 /\ g[m - 1] = h[m - 1]
          BY <2>3, <2>5, <3>6
        <5> QED BY <5>1, <4>1, <2>5, <3>3, <3>7 DEF PowerStep
      <4>2. CASE k # m /\ k # 0
        <5>1. k \in 0 .. m - 1 /\ k - 1 \in 0 .. m - 1
          BY <4>2, <2>3
        <5>2. g[k] = h[k] /\ g[k - 1] = h[k - 1]
          BY <5>1, <3>6
        <5> QED BY <5>1, <5>2, <3>5, <4>2 DEF PowerStep
      <4>3. CASE k = 0 /\ k # m
        <5>1. k \in 0 .. m - 1
          BY <4>3, <2>3
        <5> QED BY <5>1, <4>3, <3>5, <3>6 DEF PowerStep
      <4> QED BY <4>1, <4>2, <4>3
    <3>9. g = PowerStep(m, g)
      BY <3>4, <3>8 DEF PowerStep
    <3> QED BY <3>9, <2>3
  <2> QED BY <2>4, <2>5
<1>3. \E g : g = PowerStep(n, g)
  BY <1>2
<1> DEFINE power == CHOOSE g : g = PowerStep(n, g)
<1>4. power = PowerStep(n, power)
  BY <1>3
<1>5. PowerOfTwo(n) = CHOOSE p \in {power[k] : k \in 0 .. n} : p >= n /\ p < 2 * n
  BY DEF PowerOfTwo, PowerStep
<1> QED BY <1>4, <1>5

LEMMA PowerLargeEnough ==
    ASSUME NEW n \in Nat \ {0}
    PROVE  PowerOfTwo(n) \in Nat /\ PowerOfTwo(n) >= n
<1> PICK g : /\ PowerOfTwo(n) = CHOOSE p \in {g[k] : k \in 0 .. n} : p >= n /\ p < 2 * n
             /\ g = PowerStep(n, g)
  BY PowersDefined
<1>1. \A k \in 0 .. n : g[k] = IF k = 0 THEN 1 ELSE 2 * g[k - 1]
  BY DEF PowerStep
<1>2. \A k \in 0 .. n : g[k] \in Nat /\ g[k] > k
  <2> DEFINE T == {k \in 0 .. n : ~ (g[k] \in Nat /\ g[k] > k)}
  <2> SUFFICES ASSUME T # {} PROVE FALSE
    OBVIOUS
  <2>1. T \in SUBSET Nat
    OBVIOUS
  <2>2. PICK k \in T : \A l \in T : k <= l
    BY <2>1, LeastNatural
  <2>3. k \in 0 .. n /\ ~ (g[k] \in Nat /\ g[k] > k) /\ k \in Nat
    BY <2>2
  <2>4. CASE k = 0
    BY <1>1, <2>3, <2>4
  <2>5. CASE k # 0
    <3>1. k - 1 \in 0 .. n /\ k - 1 \notin T
      BY <2>2, <2>3, <2>5
    <3>2. PICK x \in Nat : x = g[k - 1] /\ x > k - 1
      BY <3>1
    <3>3. g[k] = 2 * x
      BY <1>1, <2>3, <2>5, <3>2
    <3>4. 2 * x \in Nat /\ 2 * x > k
      BY <2>3, <2>5, <3>2
    <3> QED BY <3>3, <3>4, <2>3
  <2> QED BY <2>4, <2>5
<1> DEFINE L == {k \in 0 .. n : g[k] >= n}
<1>3. L \in SUBSET Nat /\ n \in L
  BY <1>2
<1>4. PICK k \in L : \A l \in L : k <= l
  BY <1>3, LeastNatural
<1>5. k \in 0 .. n /\ g[k] \in Nat /\ g[k] >= n
  BY <1>2, <1>4
<1>6. g[k] < 2 * n
  <2>1. CASE k = 0
    BY <1>1, <1>5, <2>1
  <2>2. CASE k # 0
    <3>1. k - 1 \in 0 .. n /\ k - 1 \notin L
      BY <1>4, <1>5, <2>2
    <3>2. PICK x \in Nat : x = g[k - 1] /\ x < n
      BY <3>1, <1>2
    <3>3. g[k] = 2 * x
      BY <1>1, <1>5, <2>2, <3>2
    <3> QED BY <3>2, <3>3
  <2> QED BY <2>1, <2>2
<1>7. \E p \in {g[m] : m \in 0 .. n} : p >= n /\ p < 2 * n
  BY <1>5, <1>6
<1>8. PowerOfTwo(n) \in {g[m] : m \in 0 .. n} /\ PowerOfTwo(n) >= n
  BY <1>7
<1> QED BY <1>2, <1>8

LEMMA FirstLargeEnough ==
    ASSUME NEW s \in Seq(PoolEntries), NEW n \in Nat, NEW i,
           i = SelectInSeq(s, LAMBDA p : p.descriptor_count >= n), i # 0
    PROVE  i \in DOMAIN s /\ s[i].descriptor_count >= n
<1>1. Len(s) \in Nat /\ DOMAIN s = 1 .. Len(s)
  BY EntryOf
<1> DEFINE I == {j \in 1 .. Len(s) : s[j].descriptor_count >= n}
<1>2. i = IF I # {} THEN Min(I) ELSE 0
  BY DEF SelectInSeq
<1>3. I # {} /\ I \in SUBSET Nat
  BY <1>1, <1>2
<1>4. \E x \in I : \A y \in I : x <= y
  BY <1>3, LeastNatural
<1>5. Min(I) \in I
  BY <1>4 DEF Min
<1> QED BY <1>1, <1>2, <1>3, <1>5

----------------------------------------------------------------------------
(* An allocator by itself, and what an allocation from its pools does.     *)
OwnPools(A) == PoolsOf(A.descriptor_pools) \cup PoolsOf(A.free_descriptor_pools)

PoolsSound(A) ==
    /\ A \in AllocatorStates
    /\ Distinct(A.descriptor_pools) /\ Distinct(A.free_descriptor_pools)
    /\ PoolsOf(A.descriptor_pools) \cap PoolsOf(A.free_descriptor_pools) = {}
    /\ A.vk_descriptor_pool \in {NoneSuch} \cup PoolsOf(A.descriptor_pools)
    /\ A.vk_pool_size \in 1 .. PoolLimit
    /\ \A p \in ToSet(A.descriptor_pools) : p.descriptor_count \in p.asked .. PoolLimit
    /\ \A p \in ToSet(A.free_descriptor_pools) : p.descriptor_count <= PoolLimit

\* The outcome has the pools of before and those that the driver has made.
Grown(A, pools, o) ==
    /\ PoolsSound(o.A) /\ OwnPools(A) \subseteq OwnPools(o.A)
    /\ o.A.current_command_list = A.current_command_list
    /\ o.A.command_buffers = A.command_buffers
    /\ o.pools = pools \cup OwnPools(o.A) /\ o.pools \subseteq DescriptorPools
    /\ (OwnPools(o.A) \ OwnPools(A)) \cap pools = {}

LEMMA OutcomeIs == \A A, pools : Outcome(A, pools).A = A /\ Outcome(A, pools).pools = pools
BY DEF Outcome

LEMMA GrownOn ==
    ASSUME NEW A, NEW pools, NEW o, NEW p, OwnPools(A) \subseteq pools,
           Grown(A, pools, o), Grown(o.A, o.pools, p)
    PROVE  Grown(A, pools, p)
BY DEF Grown

LEMMA NotGrown ==
    ASSUME NEW A, NEW pools, PoolsSound(A), OwnPools(A) \subseteq pools, pools \subseteq DescriptorPools
    PROVE  Grown(A, pools, Outcome(A, pools))
BY OutcomeIs DEF Grown

LEMMA PointerCleared ==
    ASSUME NEW A, PoolsSound(A)
    PROVE  /\ PoolsSound([A EXCEPT !.vk_descriptor_pool = NoneSuch])
           /\ OwnPools([A EXCEPT !.vk_descriptor_pool = NoneSuch]) = OwnPools(A)
<1> PICK B : B = [A EXCEPT !.vk_descriptor_pool = NoneSuch]
  OBVIOUS
<1>1. A \in AllocatorStates
  BY DEF PoolsSound
<1>2. /\ B \in AllocatorStates /\ B.descriptor_pools = A.descriptor_pools
      /\ B.free_descriptor_pools = A.free_descriptor_pools /\ B.vk_pool_size = A.vk_pool_size
      /\ B.vk_descriptor_pool = NoneSuch
  BY <1>1 DEF AllocatorStates
<1> QED BY <1>2 DEF PoolsSound, OwnPools

LEMMA Cleared ==
    ASSUME NEW A, NEW pools, PoolsSound(A), OwnPools(A) \subseteq pools, pools \subseteq DescriptorPools
    PROVE  Grown(A, pools, Outcome([A EXCEPT !.vk_descriptor_pool = NoneSuch], pools))
<1> PICK B : B = [A EXCEPT !.vk_descriptor_pool = NoneSuch]
  OBVIOUS
<1>1. PoolsSound(B) /\ OwnPools(B) = OwnPools(A)
  BY PointerCleared
<1>2. B.current_command_list = A.current_command_list /\ B.command_buffers = A.command_buffers
  BY DEF PoolsSound, AllocatorStates
<1> PICK o : o = Outcome(B, pools)
  OBVIOUS
<1>3. o.A = B /\ o.pools = pools
  BY OutcomeIs
<1>4. Grown(A, pools, o)
  BY <1>1, <1>2, <1>3 DEF Grown
<1> QED BY <1>4

LEMMA Used ==
    ASSUME NEW A, PoolsSound(A), NEW p, p.vk_pool \in DescriptorPools \ OwnPools(A),
           p.descriptor_count \in Nat, NEW n \in Nat, n <= p.descriptor_count,
           p.descriptor_count <= PoolLimit
    PROVE  /\ PoolsSound(Use(A, p, n)) /\ OwnPools(Use(A, p, n)) = OwnPools(A) \cup {p.vk_pool}
           /\ Use(A, p, n).current_command_list = A.current_command_list
           /\ Use(A, p, n).command_buffers = A.command_buffers
<1> PICK e : e = [descriptor_count |-> p.descriptor_count, vk_pool |-> p.vk_pool, asked |-> n]
  OBVIOUS
<1> PICK B : B = Use(A, p, n)
  OBVIOUS
<1>1. A \in AllocatorStates /\ PoolLimit \in Nat
  BY CommandAllocatorAssumption DEF PoolsSound
<1>2. e \in PoolEntries /\ e.vk_pool = p.vk_pool
  BY DEF PoolEntries
<1>3. /\ A.descriptor_pools \in Seq(PoolEntries) /\ A.free_descriptor_pools \in Seq(PoolEntries)
      /\ Append(A.descriptor_pools, e) \in Seq(PoolEntries)
  BY <1>1, <1>2, EntryAdded DEF AllocatorStates
<1>4. B = [A EXCEPT !.vk_descriptor_pool = p.vk_pool, !.descriptor_pools = Append(A.descriptor_pools, e)]
  BY <1>1 DEF Use, AllocatorStates
<1>5. /\ B \in AllocatorStates /\ B.descriptor_pools = Append(A.descriptor_pools, e)
      /\ B.free_descriptor_pools = A.free_descriptor_pools /\ B.vk_pool_size = A.vk_pool_size
      /\ B.vk_descriptor_pool = p.vk_pool /\ B.command_buffers = A.command_buffers
      /\ B.current_command_list = A.current_command_list
  BY <1>1, <1>3, <1>4 DEF AllocatorStates
<1>6. /\ ToSet(B.descriptor_pools) = ToSet(A.descriptor_pools) \cup {e}
      /\ PoolsOf(B.descriptor_pools) = PoolsOf(A.descriptor_pools) \cup {p.vk_pool}
      /\ Distinct(B.descriptor_pools)
  BY <1>2, <1>3, <1>5, EntryAdded DEF PoolsSound, OwnPools
<1>7. e.descriptor_count \in e.asked .. PoolLimit
  BY <1>1
<1>8. OwnPools(B) = OwnPools(A) \cup {p.vk_pool}
  BY <1>5, <1>6 DEF OwnPools
<1>9. PoolsSound(B)
  <2>1. PoolsOf(B.descriptor_pools) \cap PoolsOf(B.free_descriptor_pools) = {}
    BY <1>5, <1>6 DEF PoolsSound, OwnPools
  <2>2. \A x \in ToSet(B.descriptor_pools) : x.descriptor_count \in x.asked .. PoolLimit
    BY <1>6, <1>7 DEF PoolsSound
  <2> QED BY <2>1, <2>2, <1>5, <1>6 DEF PoolsSound
<1> QED BY <1>5, <1>8, <1>9

LEMMA TakenFromFree ==
    ASSUME NEW A, PoolsSound(A), NEW i \in DOMAIN A.free_descriptor_pools
    PROVE  LET B == [A EXCEPT !.free_descriptor_pools = RemoveBySwap(A.free_descriptor_pools, i)]
           IN  /\ PoolsSound(B)
               /\ OwnPools(B) = OwnPools(A) \ {A.free_descriptor_pools[i].vk_pool}
               /\ B.current_command_list = A.current_command_list
               /\ B.command_buffers = A.command_buffers
<1> PICK free : free = A.free_descriptor_pools
  OBVIOUS
<1> PICK B : B = [A EXCEPT !.free_descriptor_pools = RemoveBySwap(free, i)]
  OBVIOUS
<1>1. A \in AllocatorStates /\ free \in Seq(PoolEntries) /\ Distinct(free)
  BY DEF PoolsSound, AllocatorStates
<1>2. /\ RemoveBySwap(free, i) \in Seq(PoolEntries) /\ Distinct(RemoveBySwap(free, i))
      /\ ToSet(RemoveBySwap(free, i)) = ToSet(free) \ {free[i]}
      /\ PoolsOf(RemoveBySwap(free, i)) = PoolsOf(free) \ {free[i].vk_pool}
  BY <1>1, EntryRemoved
<1>3. /\ B \in AllocatorStates /\ B.descriptor_pools = A.descriptor_pools
      /\ B.free_descriptor_pools = RemoveBySwap(free, i) /\ B.vk_pool_size = A.vk_pool_size
      /\ B.vk_descriptor_pool = A.vk_descriptor_pool /\ B.command_buffers = A.command_buffers
      /\ B.current_command_list = A.current_command_list
  BY <1>1, <1>2 DEF AllocatorStates
<1>4. free[i].vk_pool \in PoolsOf(free)
  BY DEF PoolsOf
<1>5. OwnPools(B) = OwnPools(A) \ {free[i].vk_pool}
  BY <1>2, <1>3, <1>4 DEF OwnPools, PoolsSound
<1>6. PoolsSound(B)
  BY <1>2, <1>3 DEF PoolsSound
<1> QED BY <1>3, <1>5, <1>6

LEMMA LargeEnough ==
    ASSUME NEW A, PoolsSound(A), NEW n \in Nat \ {0}, n <= PoolLimit
    PROVE  NewPoolSize(A, n) \in n .. PoolLimit
<1>1. A.vk_pool_size \in 1 .. PoolLimit /\ PoolLimit \in Nat
  BY CommandAllocatorAssumption DEF PoolsSound
<1> PICK p : p = PowerOfTwo(n)
  OBVIOUS
<1>2. p \in Nat /\ p >= n
  BY PowerLargeEnough
<1>3. NewPoolSize(A, n) = IF n > A.vk_pool_size THEN (IF PoolLimit < p THEN PoolLimit ELSE p)
                          ELSE A.vk_pool_size
  BY DEF NewPoolSize, Least
<1> QED BY <1>1, <1>2, <1>3

LEMMA SizeRaised ==
    ASSUME NEW A, PoolsSound(A), NEW size \in 1 .. PoolLimit
    PROVE  LET B == [A EXCEPT !.vk_pool_size = size]
           IN  /\ PoolsSound(B) /\ OwnPools(B) = OwnPools(A)
               /\ B.current_command_list = A.current_command_list
               /\ B.command_buffers = A.command_buffers
<1> PICK B : B = [A EXCEPT !.vk_pool_size = size]
  OBVIOUS
<1>1. A \in AllocatorStates /\ size \in Nat
  BY CommandAllocatorAssumption DEF PoolsSound
<1>2. /\ B \in AllocatorStates /\ B.descriptor_pools = A.descriptor_pools
      /\ B.free_descriptor_pools = A.free_descriptor_pools /\ B.vk_pool_size = size
      /\ B.vk_descriptor_pool = A.vk_descriptor_pool /\ B.command_buffers = A.command_buffers
      /\ B.current_command_list = A.current_command_list
  BY <1>1 DEF AllocatorStates
<1>3. PoolsSound(B) /\ OwnPools(B) = OwnPools(A)
  BY <1>2 DEF PoolsSound, OwnPools
<1> QED BY <1>2, <1>3

LEMMA PoolAllocated ==
    ASSUME NEW A, NEW pools, PoolsSound(A), OwnPools(A) \subseteq pools, pools \subseteq DescriptorPools,
           NEW n \in Nat \ {0}, NEW unbounded \in BOOLEAN, NEW o \in AllocatePool(A, pools, n, unbounded)
    PROVE  Grown(A, pools, o)
<1> DEFINE free == A.free_descriptor_pools
           i == SelectInSeq(free, LAMBDA p : p.descriptor_count >= n)
           count == NewPoolSize(A, Least(n, PoolLimit))
           size == IF ~unbounded \/ count < PoolLimit THEN Least(PoolLimit, count * 2)
                   ELSE A.vk_pool_size
           new(p) == [descriptor_count |-> count, vk_pool |-> p]
<1>1. /\ A \in AllocatorStates /\ free \in Seq(PoolEntries) /\ PoolLimit \in Nat \ {0}
      /\ A.vk_pool_size \in 1 .. PoolLimit
  BY CommandAllocatorAssumption DEF PoolsSound, AllocatorStates
<1>2. CASE i # 0
  <2>1. o = Outcome(Use([A EXCEPT !.free_descriptor_pools = RemoveBySwap(free, i)], free[i], n), pools)
    BY <1>2 DEF AllocatePool
  <2>2. i \in DOMAIN free /\ free[i].descriptor_count >= n
    BY <1>1, <1>2, FirstLargeEnough
  <2>3. PICK B : B = [A EXCEPT !.free_descriptor_pools = RemoveBySwap(free, i)]
    OBVIOUS
  <2>4. PICK e : e = free[i]
    OBVIOUS
  <2>5. /\ PoolsSound(B) /\ OwnPools(B) = OwnPools(A) \ {e.vk_pool}
        /\ B.current_command_list = A.current_command_list
        /\ B.command_buffers = A.command_buffers
    BY <2>2, <2>3, <2>4, TakenFromFree
  <2>6. e \in PoolEntries /\ e \in ToSet(free) /\ e.vk_pool \in OwnPools(A)
    BY <1>1, <2>2, <2>4, EntryOf DEF OwnPools, PoolsOf
  <2>7. /\ e.vk_pool \in DescriptorPools /\ e.descriptor_count \in Nat
        /\ n <= e.descriptor_count /\ e.descriptor_count <= PoolLimit
    BY <2>2, <2>4, <2>6 DEF PoolEntries, PoolsSound
  <2>8. PICK C : C = Use(B, e, n)
    OBVIOUS
  <2>9. /\ PoolsSound(C) /\ OwnPools(C) = OwnPools(B) \cup {e.vk_pool}
        /\ C.current_command_list = B.current_command_list /\ C.command_buffers = B.command_buffers
    BY <2>5, <2>7, <2>8, Used
  <2>10. o.A = C /\ o.pools = pools
    BY <2>1, <2>3, <2>4, <2>8, OutcomeIs
  <2>11. OwnPools(C) = OwnPools(A)
    BY <2>5, <2>6, <2>9
  <2> QED BY <2>5, <2>9, <2>10, <2>11 DEF Grown
<1>3. CASE i = 0 /\ o = Outcome([A EXCEPT !.vk_descriptor_pool = NoneSuch], pools)
  BY <1>3, Cleared
<1>4. ASSUME NEW p \in DescriptorPools \ pools,
             o = Outcome(Use([A EXCEPT !.vk_pool_size = size], new(p), Least(n, PoolLimit)),
                         pools \cup {p})
      PROVE  Grown(A, pools, o)
  <2>1. PICK m : m = Least(n, PoolLimit)
    OBVIOUS
  <2>2. m \in Nat \ {0} /\ m <= PoolLimit
    BY <1>1, <2>1 DEF Least
  <2>3. count \in m .. PoolLimit
    BY <2>1, <2>2, LargeEnough
  <2>4. size \in 1 .. PoolLimit
    <3>1. PICK c \in Nat : c = count /\ c >= 1 /\ c <= PoolLimit
      BY <1>1, <2>2, <2>3
    <3>2. Least(PoolLimit, c * 2) \in 1 .. PoolLimit
      BY <1>1, <3>1 DEF Least
    <3> QED BY <1>1, <3>1, <3>2
  <2>5. PICK B : B = [A EXCEPT !.vk_pool_size = size]
    OBVIOUS
  <2>6. /\ PoolsSound(B) /\ OwnPools(B) = OwnPools(A)
        /\ B.current_command_list = A.current_command_list
        /\ B.command_buffers = A.command_buffers
    BY <2>4, <2>5, SizeRaised
  <2>7. PICK e : e = new(p)
    OBVIOUS
  <2>8. e.vk_pool = p /\ e.descriptor_count = count
    BY <2>7
  <2>9. /\ e.vk_pool \in DescriptorPools \ OwnPools(B) /\ e.descriptor_count \in Nat
        /\ m <= e.descriptor_count /\ e.descriptor_count <= PoolLimit
    BY <1>1, <2>2, <2>3, <2>6, <2>8
  <2>10. PICK C : C = Use(B, e, m)
    OBVIOUS
  <2>11. /\ PoolsSound(C) /\ OwnPools(C) = OwnPools(B) \cup {p}
         /\ C.current_command_list = B.current_command_list /\ C.command_buffers = B.command_buffers
    BY <2>2, <2>6, <2>8, <2>9, <2>10, Used
  <2>12. o.A = C /\ o.pools = pools \cup {p}
    BY <1>4, <2>1, <2>5, <2>7, <2>10, OutcomeIs
  <2> QED BY <2>6, <2>11, <2>12 DEF Grown
<1>5. \/ i # 0
      \/ i = 0 /\ o = Outcome([A EXCEPT !.vk_descriptor_pool = NoneSuch], pools)
      \/ \E p \in DescriptorPools \ pools :
             o = Outcome(Use([A EXCEPT !.vk_pool_size = size], new(p), Least(n, PoolLimit)),
                         pools \cup {p})
  BY DEF AllocatePool
<1> QED BY <1>2, <1>3, <1>4, <1>5

----------------------------------------------------------------------------
(* The inductive invariant.                                                *)
AllocatorTypeOK ==
    /\ allocator \in [Allocators -> AllocatorStates \cup {NoneSuch}]
    /\ list \in [Lists -> ListStates \cup {NoneSuch}]
    /\ vk_buffers \subseteq CommandBuffers /\ vk_pools \subseteq DescriptorPools

\* Each command buffer belongs to one allocator.
BuffersOwned ==
    /\ \A a \in AliveAllocators : allocator[a].command_buffers \subseteq vk_buffers
    /\ \A a, b \in AliveAllocators :
           a # b => allocator[a].command_buffers \cap allocator[b].command_buffers = {}

\* So does each descriptor pool.
PoolsOwned ==
    /\ \A a \in AliveAllocators : PoolsSound(allocator[a])
    /\ vk_pools = UNION {OwnPools(allocator[a]) : a \in AliveAllocators}
    /\ \A a, b \in AliveAllocators :
           a # b => OwnPools(allocator[a]) \cap OwnPools(allocator[b]) = {}

CommandAllocatorInv ==
    AllocatorTypeOK /\ CurrentAgrees /\ RecordsIntoOwnBuffer /\ BuffersOwned /\ PoolsOwned

LEMMA NoneSuchApart ==
    /\ NoneSuch \notin Allocators /\ NoneSuch \notin Lists /\ NoneSuch \notin CommandBuffers
    /\ NoneSuch \notin DescriptorPools /\ NoneSuch \notin AllocatorStates /\ NoneSuch \notin ListStates
    /\ PoolLimit \in Nat \ {0} /\ InitialPoolSize \in Nat \ {0} /\ Requests \subseteq Nat \ {0}
BY CommandAllocatorAssumption

LEMMA AliveStates ==
    ASSUME AllocatorTypeOK
    PROVE  /\ AliveAllocators = {a \in Allocators : allocator[a] \in AllocatorStates}
           /\ AliveLists = {l \in Lists : list[l] \in ListStates}
           /\ \A a \in AliveAllocators :
                  /\ allocator[a].current_command_list \in Lists \cup {NoneSuch}
                  /\ allocator[a].command_buffers \subseteq CommandBuffers
           /\ \A l \in AliveLists : /\ list[l].allocator \in Allocators \cup {NoneSuch}
                                    /\ list[l].is_recording \in BOOLEAN
                                    /\ list[l].vk_command_buffer \in CommandBuffers \cup {NoneSuch}
<1>1. AliveAllocators = {a \in Allocators : allocator[a] \in AllocatorStates}
  BY NoneSuchApart DEF AllocatorTypeOK, AliveAllocators
<1>2. AliveLists = {l \in Lists : list[l] \in ListStates}
  BY NoneSuchApart DEF AllocatorTypeOK, AliveLists
<1>3. \A A \in AllocatorStates : /\ A.current_command_list \in Lists \cup {NoneSuch}
                                 /\ A.command_buffers \subseteq CommandBuffers
  BY DEF AllocatorStates
<1>4. \A L \in ListStates : /\ L.allocator \in Allocators \cup {NoneSuch}
                            /\ L.is_recording \in BOOLEAN
                            /\ L.vk_command_buffer \in CommandBuffers \cup {NoneSuch}
  BY DEF ListStates
<1> QED BY <1>1, <1>2, <1>3, <1>4

LEMMA CommandAllocatorInitInv == CommandAllocatorInit => CommandAllocatorInv
<1> SUFFICES ASSUME CommandAllocatorInit PROVE CommandAllocatorInv
  OBVIOUS
<1>1. AliveAllocators = {} /\ AliveLists = {}
  BY DEF CommandAllocatorInit, AliveAllocators, AliveLists
<1>2. AllocatorTypeOK
  BY DEF CommandAllocatorInit, AllocatorTypeOK
<1> QED BY <1>1, <1>2 DEF CommandAllocatorInit, CommandAllocatorInv, CurrentAgrees,
                          RecordsIntoOwnBuffer, BuffersOwned, PoolsOwned

\* An action that leaves the pools alone.
LEMMA SamePools ==
    ASSUME AllocatorTypeOK, PoolsOwned, AllocatorTypeOK', UNCHANGED vk_pools,
           AliveAllocators' = AliveAllocators,
           \A a \in AliveAllocators :
               /\ allocator'[a].descriptor_pools = allocator[a].descriptor_pools
               /\ allocator'[a].free_descriptor_pools = allocator[a].free_descriptor_pools
               /\ allocator'[a].vk_descriptor_pool = allocator[a].vk_descriptor_pool
               /\ allocator'[a].vk_pool_size = allocator[a].vk_pool_size
    PROVE  PoolsOwned'
<1>1. \A a \in AliveAllocators : allocator'[a] \in AllocatorStates
  BY AliveStates, NoneSuchApart DEF AllocatorTypeOK, AliveAllocators
<1>2. \A a \in AliveAllocators : PoolsSound(allocator'[a])
  BY <1>1 DEF PoolsOwned, PoolsSound
<1>3. \A a \in AliveAllocators : OwnPools(allocator'[a]) = OwnPools(allocator[a])
  BY DEF OwnPools
<1>4. UNION {OwnPools(allocator'[a]) : a \in AliveAllocators}
          = UNION {OwnPools(allocator[a]) : a \in AliveAllocators}
  BY <1>3
<1> QED BY <1>2, <1>3, <1>4 DEF PoolsOwned

LEMMA CreateAllocatorInv ==
    ASSUME CommandAllocatorInv, NEW x \in Allocators, CreateAllocator(x)
    PROVE  CommandAllocatorInv'
<1> PICK N : N = [current_command_list |-> NoneSuch, command_buffers |-> {},
                  vk_descriptor_pool |-> NoneSuch, descriptor_pools |-> <<>>,
                  free_descriptor_pools |-> <<>>, vk_pool_size |-> Least(InitialPoolSize, PoolLimit)]
  OBVIOUS
<1>1. AllocatorTypeOK /\ CurrentAgrees /\ RecordsIntoOwnBuffer /\ BuffersOwned /\ PoolsOwned
  BY DEF CommandAllocatorInv
<1>2. /\ x \notin AliveAllocators /\ allocator' = [allocator EXCEPT ![x] = N]
      /\ UNCHANGED <<list, vk_buffers, vk_pools>>
  BY DEF CreateAllocator
<1>3. Least(InitialPoolSize, PoolLimit) \in 1 .. PoolLimit
  BY NoneSuchApart DEF Least
<1>4. /\ N \in AllocatorStates /\ N.current_command_list = NoneSuch /\ N.command_buffers = {}
      /\ N.vk_descriptor_pool = NoneSuch /\ N.descriptor_pools = <<>>
      /\ N.free_descriptor_pools = <<>> /\ N.vk_pool_size \in 1 .. PoolLimit
  BY <1>3, NoneSuchApart, NoEntries DEF AllocatorStates
<1>5. allocator'[x] = N /\ \A a \in Allocators \ {x} : allocator'[a] = allocator[a]
  BY <1>1, <1>2 DEF AllocatorTypeOK
<1>6. AliveAllocators' = AliveAllocators \cup {x} /\ AliveLists' = AliveLists
  BY <1>2, <1>4, <1>5, NoneSuchApart DEF AliveAllocators, AliveLists
<1>7. AllocatorTypeOK'
  BY <1>1, <1>2, <1>4 DEF AllocatorTypeOK
<1>8. \A a \in AliveAllocators : a \in Allocators \ {x} /\ allocator'[a] = allocator[a]
  BY <1>2, <1>5 DEF AliveAllocators
<1>9. CurrentAgrees'
  BY <1>1, <1>2, <1>4, <1>5, <1>6, <1>8 DEF CurrentAgrees
<1>10. RecordsIntoOwnBuffer'
  <2> SUFFICES ASSUME NEW l \in AliveLists, list[l].is_recording
               PROVE  IF list[l].allocator = NoneSuch THEN list[l].vk_command_buffer = NoneSuch
                      ELSE list[l].vk_command_buffer
                               \in vk_buffers \cap allocator'[list[l].allocator].command_buffers
    BY <1>2, <1>6 DEF RecordsIntoOwnBuffer
  <2>1. list[l].allocator # NoneSuch => allocator'[list[l].allocator] = allocator[list[l].allocator]
    BY <1>1, <1>8 DEF CurrentAgrees
  <2> QED BY <2>1, <1>1 DEF RecordsIntoOwnBuffer
<1>11. BuffersOwned'
  BY <1>1, <1>2, <1>4, <1>5, <1>6, <1>8 DEF BuffersOwned
<1>12. OwnPools(N) = {} /\ PoolsSound(N)
  BY <1>4, NoEntries DEF OwnPools, PoolsSound
<1>13. PoolsOwned'
  <2>1. \A a \in AliveAllocators' : PoolsSound(allocator'[a])
    BY <1>1, <1>5, <1>6, <1>8, <1>12 DEF PoolsOwned
  <2>2. UNION {OwnPools(allocator'[a]) : a \in AliveAllocators'}
            = UNION {OwnPools(allocator[a]) : a \in AliveAllocators}
    BY <1>5, <1>6, <1>8, <1>12
  <2>3. \A a, b \in AliveAllocators' : a # b => OwnPools(allocator'[a]) \cap OwnPools(allocator'[b]) = {}
    BY <1>1, <1>5, <1>6, <1>8, <1>12 DEF PoolsOwned
  <2> QED BY <2>1, <2>2, <2>3, <1>1, <1>2 DEF PoolsOwned
<1> QED BY <1>7, <1>9, <1>10, <1>11, <1>13 DEF CommandAllocatorInv

LEMMA ReleaseAllocatorInv ==
    ASSUME CommandAllocatorInv, NEW x \in Allocators, ReleaseAllocator(x)
    PROVE  CommandAllocatorInv'
<1> PICK A : A = allocator[x]
  OBVIOUS
<1> PICK c : c = A.current_command_list
  OBVIOUS
<1>1. AllocatorTypeOK /\ CurrentAgrees /\ RecordsIntoOwnBuffer /\ BuffersOwned /\ PoolsOwned
  BY DEF CommandAllocatorInv
<1>2. /\ x \in AliveAllocators
      /\ list' = IF c = NoneSuch THEN list
                 ELSE [list EXCEPT ![c].allocator = NoneSuch, ![c].vk_command_buffer = NoneSuch]
      /\ vk_buffers' = vk_buffers \ A.command_buffers
      /\ vk_pools' = vk_pools \ OwnPools(A)
      /\ allocator' = [allocator EXCEPT ![x] = NoneSuch]
  BY DEF ReleaseAllocator, OwnPools
<1>3. /\ \A a \in Allocators \ {x} : allocator'[a] = allocator[a]
      /\ allocator'[x] = NoneSuch
  BY <1>1, <1>2 DEF AllocatorTypeOK
<1>4. AliveAllocators' = AliveAllocators \ {x}
  BY <1>3 DEF AliveAllocators
<1>5. c # NoneSuch => c \in AliveLists /\ list[c].allocator = x /\ c \in Lists /\ list[c] \in ListStates
  BY <1>1, <1>2, AliveStates DEF CurrentAgrees
<1>6. /\ \A l \in Lists \ {c} : list'[l] = list[l]
      /\ c # NoneSuch => /\ list'[c] \in ListStates /\ list'[c].allocator = NoneSuch
                         /\ list'[c].vk_command_buffer = NoneSuch
                         /\ list'[c].is_recording = list[c].is_recording
  BY <1>1, <1>2, <1>5 DEF AllocatorTypeOK, ListStates
<1>7. AllocatorTypeOK'
  BY <1>1, <1>2, <1>5, <1>6 DEF AllocatorTypeOK
<1>8. AliveLists' = AliveLists
  BY <1>2, <1>5, <1>6, NoneSuchApart DEF AliveLists
<1>9. \A l \in AliveLists : l # c => list[l].allocator # x
  BY <1>1, <1>2, NoneSuchApart DEF CurrentAgrees
<1>10. CurrentAgrees'
  <2>1. ASSUME NEW a \in AliveAllocators \ {x}, allocator[a].current_command_list # NoneSuch
        PROVE  LET l == allocator[a].current_command_list
               IN  l \in AliveLists /\ list'[l].allocator = a
    <3> PICK l : l = allocator[a].current_command_list
      OBVIOUS
    <3>1. l \in AliveLists /\ list[l].allocator = a
      BY <2>1, <1>1 DEF CurrentAgrees
    <3>2. l # c \/ c = NoneSuch
      BY <3>1, <1>5
    <3>3. list'[l] = list[l]
      BY <3>1, <3>2, <1>2, <1>6 DEF AliveLists
    <3> QED BY <3>1, <3>3
  <2>2. ASSUME NEW l \in AliveLists, list'[l].allocator # NoneSuch
        PROVE  /\ list'[l].is_recording /\ list'[l].allocator \in AliveAllocators \ {x}
               /\ allocator[list'[l].allocator].current_command_list = l
    <3>1. l # c /\ list'[l] = list[l]
      BY <2>2, <1>2, <1>6, NoneSuchApart DEF AliveLists
    <3> QED BY <3>1, <2>2, <1>1, <1>9 DEF CurrentAgrees
  <2>3. \A a \in AliveAllocators \ {x} : allocator'[a] = allocator[a]
    BY <1>3 DEF AliveAllocators
  <2> QED BY <2>1, <2>2, <2>3, <1>4, <1>8 DEF CurrentAgrees
<1>11. RecordsIntoOwnBuffer'
  <2> SUFFICES ASSUME NEW l \in AliveLists, list'[l].is_recording
               PROVE  IF list'[l].allocator = NoneSuch THEN list'[l].vk_command_buffer = NoneSuch
                      ELSE list'[l].vk_command_buffer
                               \in vk_buffers' \cap allocator'[list'[l].allocator].command_buffers
    BY <1>8 DEF RecordsIntoOwnBuffer
  <2>1. CASE l = c
    BY <2>1, <1>5, <1>6, NoneSuchApart DEF AliveLists
  <2>2. CASE l # c
    <3>1. list'[l] = list[l]
      BY <2>2, <1>6 DEF AliveLists
    <3>2. CASE list[l].allocator = NoneSuch
      BY <3>1, <3>2, <1>1 DEF RecordsIntoOwnBuffer
    <3>3. CASE list[l].allocator # NoneSuch
      <4> PICK a : a = list[l].allocator
        OBVIOUS
      <4>1. a \in AliveAllocators /\ a # x /\ a \in Allocators
        BY <3>3, <2>2, <1>1, <1>9 DEF CurrentAgrees, AliveAllocators
      <4>2. list[l].vk_command_buffer \in vk_buffers \cap allocator[a].command_buffers
        BY <3>1, <3>3, <1>1 DEF RecordsIntoOwnBuffer
      <4>3. allocator[a].command_buffers \cap A.command_buffers = {} /\ allocator'[a] = allocator[a]
        BY <4>1, <1>1, <1>2, <1>3 DEF BuffersOwned
      <4> QED BY <3>1, <3>3, <4>2, <4>3, <1>2
    <3> QED BY <3>2, <3>3
  <2> QED BY <2>1, <2>2
<1>12. \A a \in AliveAllocators' : a \in AliveAllocators /\ a # x /\ allocator'[a] = allocator[a]
  BY <1>3, <1>4 DEF AliveAllocators
<1>13. BuffersOwned'
  <2>1. ASSUME NEW a \in AliveAllocators' PROVE allocator'[a].command_buffers \subseteq vk_buffers'
    <3>1. allocator[a].command_buffers \cap A.command_buffers = {}
      BY <1>1, <1>2, <1>12 DEF BuffersOwned
    <3> QED BY <3>1, <1>1, <1>2, <1>12 DEF BuffersOwned
  <2>2. \A a, b \in AliveAllocators' :
            a # b => allocator'[a].command_buffers \cap allocator'[b].command_buffers = {}
    BY <1>1, <1>12 DEF BuffersOwned
  <2> QED BY <2>1, <2>2 DEF BuffersOwned
<1>14. PoolsOwned'
  <2>1. \A a \in AliveAllocators' : PoolsSound(allocator'[a])
    BY <1>1, <1>12 DEF PoolsOwned
  <2>2. \A a, b \in AliveAllocators' : a # b => OwnPools(allocator'[a]) \cap OwnPools(allocator'[b]) = {}
    BY <1>1, <1>12 DEF PoolsOwned
  <2>3. \A a \in AliveAllocators' : OwnPools(allocator'[a]) \cap OwnPools(A) = {}
    BY <1>1, <1>2, <1>12 DEF PoolsOwned
  <2>4. \A a \in AliveAllocators' : OwnPools(allocator'[a]) \subseteq vk_pools
    BY <1>1, <1>12 DEF PoolsOwned
  <2>5. ASSUME NEW p \in vk_pools, p \notin OwnPools(A)
        PROVE  \E a \in AliveAllocators' : p \in OwnPools(allocator'[a])
    <3>1. PICK a \in AliveAllocators : p \in OwnPools(allocator[a])
      BY <1>1 DEF PoolsOwned
    <3>2. a # x
      BY <2>5, <3>1
    <3> QED BY <3>1, <3>2, <1>4, <1>12
  <2>6. vk_pools' = UNION {OwnPools(allocator'[a]) : a \in AliveAllocators'}
    BY <2>3, <2>4, <2>5, <1>2
  <2> QED BY <2>1, <2>2, <2>6 DEF PoolsOwned
<1> QED BY <1>7, <1>10, <1>11, <1>13, <1>14 DEF CommandAllocatorInv

LEMMA Reset ==
    ASSUME NEW A, PoolsSound(A)
    PROVE  LET B == [ReusableOnly(A) EXCEPT !.command_buffers = {}]
           IN  /\ PoolsSound(B) /\ B.command_buffers = {}
               /\ B.current_command_list = A.current_command_list
               /\ OwnPools(B) = PoolsOf(ReusableOnly(A).free_descriptor_pools)
               /\ OwnPools(B) = OwnPools(A)
                                \ (PoolsOf(A.descriptor_pools)
                                   \ PoolsOf(ReusableOnly(A).free_descriptor_pools))
<1> PICK used, free : used = A.descriptor_pools /\ free = A.free_descriptor_pools
  OBVIOUS
<1> PICK kept : kept = PoolsOfSize(used, A.vk_pool_size)
  OBVIOUS
<1> PICK B : B = [ReusableOnly(A) EXCEPT !.command_buffers = {}]
  OBVIOUS
<1>1. /\ A \in AllocatorStates /\ used \in Seq(PoolEntries) /\ free \in Seq(PoolEntries)
      /\ Distinct(used) /\ Distinct(free) /\ PoolsOf(used) \cap PoolsOf(free) = {}
  BY DEF PoolsSound, AllocatorStates
<1>2. /\ kept \in Seq(PoolEntries) /\ Distinct(kept) /\ ToSet(kept) \subseteq ToSet(used)
      /\ PoolsOf(kept) \subseteq PoolsOf(used)
  BY <1>1, SizeKept
<1>3. /\ free \o kept \in Seq(PoolEntries) /\ ToSet(free \o kept) = ToSet(free) \cup ToSet(kept)
      /\ PoolsOf(free \o kept) = PoolsOf(free) \cup PoolsOf(kept)
      /\ Distinct(free \o kept)
  BY <1>1, <1>2, EntriesJoined
<1>4. ReusableOnly(A) = [A EXCEPT !.vk_descriptor_pool = NoneSuch, !.descriptor_pools = <<>>,
                                  !.free_descriptor_pools = free \o kept]
  BY DEF ReusableOnly
<1>5. /\ ReusableOnly(A).free_descriptor_pools = free \o kept
      /\ B \in AllocatorStates /\ B.descriptor_pools = <<>> /\ B.free_descriptor_pools = free \o kept
      /\ B.vk_descriptor_pool = NoneSuch /\ B.vk_pool_size = A.vk_pool_size
      /\ B.command_buffers = {} /\ B.current_command_list = A.current_command_list
  BY <1>1, <1>3, <1>4, NoEntries DEF AllocatorStates
<1>6. OwnPools(B) = PoolsOf(free \o kept)
  BY <1>5, NoEntries DEF OwnPools
<1>7. OwnPools(B) = OwnPools(A) \ (PoolsOf(used) \ PoolsOf(free \o kept))
  BY <1>1, <1>2, <1>3, <1>6 DEF OwnPools
<1>8. \A p \in ToSet(free \o kept) : p.descriptor_count <= PoolLimit
  <2>1. \A p \in ToSet(used) : p \in PoolEntries
    BY <1>1, EntryOf
  <2>2. \A p \in ToSet(used) : p.descriptor_count <= PoolLimit
    BY <2>1, CommandAllocatorAssumption DEF PoolsSound, PoolEntries
  <2>3. \A p \in ToSet(free) : p.descriptor_count <= PoolLimit
    BY DEF PoolsSound
  <2> QED BY <2>2, <2>3, <1>2, <1>3
<1>9. PoolsSound(B)
  BY <1>3, <1>5, <1>8, NoEntries DEF PoolsSound
<1> QED BY <1>5, <1>6, <1>7, <1>9

LEMMA ResetAllocatorInv ==
    ASSUME CommandAllocatorInv, NEW x \in Allocators, ResetAllocator(x)
    PROVE  CommandAllocatorInv'
<1> PICK A : A = allocator[x]
  OBVIOUS
<1> PICK B : B = [ReusableOnly(A) EXCEPT !.command_buffers = {}]
  OBVIOUS
<1> PICK lost : lost = PoolsOf(A.descriptor_pools) \ PoolsOf(ReusableOnly(A).free_descriptor_pools)
  OBVIOUS
<1>1. AllocatorTypeOK /\ CurrentAgrees /\ RecordsIntoOwnBuffer /\ BuffersOwned /\ PoolsOwned
  BY DEF CommandAllocatorInv
<1>2. /\ x \in AliveAllocators
      /\ A.current_command_list # NoneSuch => ~ list[A.current_command_list].is_recording
      /\ allocator' = [allocator EXCEPT ![x] = B]
      /\ vk_buffers' = vk_buffers \ A.command_buffers
      /\ vk_pools' = vk_pools \ lost
      /\ UNCHANGED list
  BY DEF ResetAllocator
<1>3. PoolsSound(A)
  BY <1>1, <1>2 DEF PoolsOwned
<1>4. /\ PoolsSound(B) /\ B.command_buffers = {}
      /\ B.current_command_list = A.current_command_list
      /\ OwnPools(B) = OwnPools(A) \ lost
  BY <1>3, Reset
<1>5. allocator'[x] = B /\ \A a \in Allocators \ {x} : allocator'[a] = allocator[a]
  BY <1>1, <1>2 DEF AllocatorTypeOK
<1>6. B \in AllocatorStates
  BY <1>4 DEF PoolsSound
<1>7. AllocatorTypeOK'
  BY <1>1, <1>2, <1>6 DEF AllocatorTypeOK
<1>8. AliveAllocators' = AliveAllocators /\ AliveLists' = AliveLists
  BY <1>2, <1>5, <1>6, NoneSuchApart DEF AliveAllocators, AliveLists
<1>9. A.current_command_list = NoneSuch
  BY <1>1, <1>2, NoneSuchApart DEF CurrentAgrees
<1>10. \A a \in AliveAllocators : \/ a = x /\ allocator'[a] = B
                                  \/ a # x /\ allocator'[a] = allocator[a]
  BY <1>5 DEF AliveAllocators
<1>11. CurrentAgrees'
  BY <1>1, <1>2, <1>4, <1>8, <1>10 DEF CurrentAgrees
<1>12. RecordsIntoOwnBuffer'
  <2> SUFFICES ASSUME NEW l \in AliveLists, list[l].is_recording
               PROVE  IF list[l].allocator = NoneSuch THEN list[l].vk_command_buffer = NoneSuch
                      ELSE list[l].vk_command_buffer
                               \in vk_buffers' \cap allocator'[list[l].allocator].command_buffers
    BY <1>2, <1>8 DEF RecordsIntoOwnBuffer
  <2>1. CASE list[l].allocator = NoneSuch
    BY <2>1, <1>1 DEF RecordsIntoOwnBuffer
  <2>2. CASE list[l].allocator # NoneSuch
    <3> PICK a : a = list[l].allocator
      OBVIOUS
    <3>1. a \in AliveAllocators /\ allocator[a].current_command_list = l /\ l # NoneSuch
      BY <2>2, <1>1, NoneSuchApart DEF CurrentAgrees, AliveLists
    <3>2. a # x
      BY <3>1, <1>9
    <3>3. list[l].vk_command_buffer \in vk_buffers \cap allocator[a].command_buffers
      BY <2>2, <1>1 DEF RecordsIntoOwnBuffer
    <3>4. allocator[a].command_buffers \cap A.command_buffers = {} /\ allocator'[a] = allocator[a]
      BY <3>1, <3>2, <1>1, <1>2, <1>10 DEF BuffersOwned
    <3> QED BY <2>2, <3>3, <3>4, <1>2
  <2> QED BY <2>1, <2>2
<1>13. BuffersOwned'
  <2>1. ASSUME NEW a \in AliveAllocators PROVE allocator'[a].command_buffers \subseteq vk_buffers'
    <3>1. a # x => allocator[a].command_buffers \cap A.command_buffers = {}
      BY <1>1, <1>2 DEF BuffersOwned
    <3> QED BY <3>1, <1>1, <1>2, <1>4, <1>10 DEF BuffersOwned
  <2>2. ASSUME NEW a \in AliveAllocators, NEW b \in AliveAllocators, a # b
        PROVE  allocator'[a].command_buffers \cap allocator'[b].command_buffers = {}
    BY <2>2, <1>1, <1>4, <1>10 DEF BuffersOwned
  <2> QED BY <2>1, <2>2, <1>8 DEF BuffersOwned
<1>14. PoolsOwned'
  <2>1. \A a \in AliveAllocators : PoolsSound(allocator'[a])
    BY <1>1, <1>4, <1>10 DEF PoolsOwned
  <2>2. \A a \in AliveAllocators : OwnPools(allocator'[a]) \subseteq OwnPools(allocator[a])
    BY <1>4, <1>10
  <2>3. \A a, b \in AliveAllocators : a # b => OwnPools(allocator'[a]) \cap OwnPools(allocator'[b]) = {}
    BY <2>2, <1>1 DEF PoolsOwned
  <2>4. lost \subseteq OwnPools(A)
    BY DEF OwnPools
  <2>5. ASSUME NEW a \in AliveAllocators, NEW p \in OwnPools(allocator'[a]) PROVE p \in vk_pools \ lost
    <3>1. p \in OwnPools(allocator[a]) /\ p \in vk_pools
      BY <2>2, <1>1 DEF PoolsOwned
    <3>2. CASE a = x
      BY <3>1, <3>2, <1>4, <1>10
    <3>3. CASE a # x
      BY <3>1, <3>3, <2>4, <1>1, <1>2 DEF PoolsOwned
    <3> QED BY <3>1, <3>2, <3>3
  <2>6. ASSUME NEW p \in vk_pools \ lost PROVE \E a \in AliveAllocators : p \in OwnPools(allocator'[a])
    <3>1. PICK a \in AliveAllocators : p \in OwnPools(allocator[a])
      BY <1>1 DEF PoolsOwned
    <3>2. p \in OwnPools(allocator'[a])
      BY <3>1, <1>4, <1>10
    <3> QED BY <3>1, <3>2
  <2>7. vk_pools \ lost = UNION {OwnPools(allocator'[a]) : a \in AliveAllocators}
    BY <2>5, <2>6
  <2> QED BY <2>1, <2>3, <2>7, <1>2, <1>8 DEF PoolsOwned
<1> QED BY <1>7, <1>11, <1>12, <1>13, <1>14 DEF CommandAllocatorInv

LEMMA RecordingInv ==
    ASSUME CommandAllocatorInv, NEW x \in Allocators, NEW l \in Lists, NEW b \in CommandBuffers,
           l \in AliveLists => ~ list[l].is_recording, Recording(x, l, b)
    PROVE  CommandAllocatorInv'
<1> PICK A : A = allocator[x]
  OBVIOUS
<1> PICK B : B = [A EXCEPT !.command_buffers = A.command_buffers \cup {b}, !.current_command_list = l]
  OBVIOUS
<1> PICK L : L = [allocator |-> x, is_recording |-> TRUE, vk_command_buffer |-> b]
  OBVIOUS
<1>1. AllocatorTypeOK /\ CurrentAgrees /\ RecordsIntoOwnBuffer /\ BuffersOwned /\ PoolsOwned
  BY DEF CommandAllocatorInv
<1>2. /\ x \in AliveAllocators /\ A.current_command_list = NoneSuch /\ b \in CommandBuffers \ vk_buffers
      /\ vk_buffers' = vk_buffers \cup {b} /\ list' = [list EXCEPT ![l] = L]
      /\ UNCHANGED vk_pools
  BY DEF Recording
<1>3. A \in AllocatorStates
  BY <1>1, <1>2, AliveStates
<1>4. allocator' = [allocator EXCEPT ![x] = B]
  BY <1>1, <1>3 DEF Recording, AllocatorTypeOK, AllocatorStates
<1>5. /\ B \in AllocatorStates /\ B.current_command_list = l
      /\ B.command_buffers = A.command_buffers \cup {b}
      /\ B.descriptor_pools = A.descriptor_pools
      /\ B.free_descriptor_pools = A.free_descriptor_pools
      /\ B.vk_descriptor_pool = A.vk_descriptor_pool /\ B.vk_pool_size = A.vk_pool_size
  BY <1>3 DEF AllocatorStates
<1>6. /\ L \in ListStates /\ L.allocator = x /\ L.is_recording /\ L.vk_command_buffer = b
  BY DEF ListStates
<1>7. /\ allocator'[x] = B /\ \A a \in Allocators \ {x} : allocator'[a] = allocator[a]
      /\ list'[l] = L /\ \A k \in Lists \ {l} : list'[k] = list[k]
  BY <1>1, <1>2, <1>4 DEF AllocatorTypeOK
<1>8. AllocatorTypeOK'
  BY <1>1, <1>2, <1>4, <1>5, <1>6 DEF AllocatorTypeOK
<1>9. AliveAllocators' = AliveAllocators /\ AliveLists' = AliveLists \cup {l}
  <2>1. B # NoneSuch /\ L # NoneSuch
    BY <1>5, <1>6, NoneSuchApart
  <2>2. AliveAllocators' = AliveAllocators
    BY <2>1, <1>2, <1>7 DEF AliveAllocators
  <2>3. AliveLists' = AliveLists \cup {l}
    BY <2>1, <1>7 DEF AliveLists
  <2> QED BY <2>2, <2>3
<1>10. \A a \in AliveAllocators : \/ a = x /\ allocator'[a] = B
                                  \/ a # x /\ allocator'[a] = allocator[a]
  BY <1>7 DEF AliveAllocators
<1>11. \A k \in AliveLists' : \/ k = l /\ list'[k] = L
                              \/ k # l /\ k \in AliveLists /\ list'[k] = list[k]
  BY <1>7, <1>9 DEF AliveLists
<1>12. \A a \in AliveAllocators : allocator[a].current_command_list # l
  BY <1>1, NoneSuchApart DEF CurrentAgrees, AliveAllocators
<1>13. \A k \in AliveLists : list[k].allocator # x
  BY <1>1, <1>2, NoneSuchApart DEF CurrentAgrees, AliveLists
<1>14. CurrentAgrees'
  <2>1. ASSUME NEW a \in AliveAllocators, allocator'[a].current_command_list # NoneSuch
        PROVE  /\ allocator'[a].current_command_list \in AliveLists'
               /\ list'[allocator'[a].current_command_list].allocator = a
    <3>1. CASE a = x
      BY <3>1, <1>5, <1>6, <1>7, <1>9
    <3>2. CASE a # x
      <4> PICK k : k = allocator[a].current_command_list
        OBVIOUS
      <4>1. k \in AliveLists /\ list[k].allocator = a /\ k # l
        BY <2>1, <3>2, <1>1, <1>10, <1>12 DEF CurrentAgrees
      <4> QED BY <4>1, <3>2, <1>9, <1>10, <1>11
    <3> QED BY <3>1, <3>2
  <2>2. ASSUME NEW k \in AliveLists', list'[k].allocator # NoneSuch
        PROVE  /\ list'[k].is_recording /\ list'[k].allocator \in AliveAllocators
               /\ allocator'[list'[k].allocator].current_command_list = k
    <3>1. CASE k = l
      <4>1. list'[k] = L /\ list'[k].allocator = x
        BY <3>1, <1>6, <1>7
      <4>2. allocator'[list'[k].allocator].current_command_list = k
        BY <3>1, <4>1, <1>5, <1>7
      <4> QED BY <4>1, <4>2, <1>2, <1>6
    <3>2. CASE k # l
      BY <2>2, <3>2, <1>1, <1>10, <1>11, <1>13 DEF CurrentAgrees
    <3> QED BY <3>1, <3>2
  <2> QED BY <2>1, <2>2, <1>9 DEF CurrentAgrees
<1>15. RecordsIntoOwnBuffer'
  <2> SUFFICES ASSUME NEW k \in AliveLists', list'[k].is_recording
               PROVE  IF list'[k].allocator = NoneSuch THEN list'[k].vk_command_buffer = NoneSuch
                      ELSE list'[k].vk_command_buffer
                               \in vk_buffers' \cap allocator'[list'[k].allocator].command_buffers
    BY DEF RecordsIntoOwnBuffer
  <2>1. CASE k = l
    <3>1. list'[k] = L /\ list'[k].allocator = x /\ list'[k].vk_command_buffer = b
      BY <2>1, <1>6, <1>7
    <3>2. x # NoneSuch /\ allocator'[x].command_buffers = A.command_buffers \cup {b}
      BY <1>5, <1>7, NoneSuchApart
    <3> QED BY <3>1, <3>2, <1>2
  <2>2. CASE k # l
    <3>1. k \in AliveLists /\ list'[k] = list[k]
      BY <2>2, <1>11
    <3>2. CASE list[k].allocator = NoneSuch
      BY <3>1, <3>2, <1>1 DEF RecordsIntoOwnBuffer
    <3>3. CASE list[k].allocator # NoneSuch
      <4> PICK a : a = list[k].allocator
        OBVIOUS
      <4>1. a \in AliveAllocators /\ a # x
        BY <3>1, <3>3, <1>1, <1>13 DEF CurrentAgrees
      <4>2. list[k].vk_command_buffer \in vk_buffers \cap allocator[a].command_buffers
        BY <3>1, <3>3, <1>1 DEF RecordsIntoOwnBuffer
      <4> QED BY <3>1, <3>3, <4>1, <4>2, <1>2, <1>10
    <3> QED BY <3>2, <3>3
  <2> QED BY <2>1, <2>2
<1>16. BuffersOwned'
  <2>1. \A a \in AliveAllocators : b \notin allocator[a].command_buffers
    BY <1>1, <1>2 DEF BuffersOwned
  <2>2. \A a \in AliveAllocators : allocator'[a].command_buffers \subseteq vk_buffers'
    BY <1>1, <1>2, <1>5, <1>10 DEF BuffersOwned
  <2>3. ASSUME NEW a \in AliveAllocators, NEW c \in AliveAllocators, a # c
        PROVE  allocator'[a].command_buffers \cap allocator'[c].command_buffers = {}
    <3>1. allocator[a].command_buffers \cap allocator[c].command_buffers = {}
      BY <2>3, <1>1 DEF BuffersOwned
    <3>2. \A d \in {a, c} : \/ allocator'[d].command_buffers = allocator[d].command_buffers
                            \/ d = x /\ allocator'[d].command_buffers
                                           = allocator[d].command_buffers \cup {b}
      BY <1>5, <1>10
    <3>3. \/ allocator'[a].command_buffers = allocator[a].command_buffers
          \/ allocator'[c].command_buffers = allocator[c].command_buffers
      BY <3>2, <2>3
    <3> QED BY <3>1, <3>2, <3>3, <2>1
  <2> QED BY <2>2, <2>3, <1>9 DEF BuffersOwned
<1>17. PoolsOwned'
  <2>1. \A a \in AliveAllocators :
            /\ allocator'[a].descriptor_pools = allocator[a].descriptor_pools
            /\ allocator'[a].free_descriptor_pools = allocator[a].free_descriptor_pools
            /\ allocator'[a].vk_descriptor_pool = allocator[a].vk_descriptor_pool
            /\ allocator'[a].vk_pool_size = allocator[a].vk_pool_size
    BY <1>5, <1>10
  <2> QED BY <2>1, <1>1, <1>2, <1>8, <1>9, SamePools
<1> QED BY <1>8, <1>14, <1>15, <1>16, <1>17 DEF CommandAllocatorInv

LEMMA ResetListFailsInv ==
    ASSUME CommandAllocatorInv, NEW x \in Allocators, NEW l \in Lists,
           NEW b \in CommandBuffers \cup {NoneSuch}, ResetListFails(x, l, b)
    PROVE  CommandAllocatorInv'
<1>1. AllocatorTypeOK /\ CurrentAgrees /\ RecordsIntoOwnBuffer /\ BuffersOwned /\ PoolsOwned
  BY DEF CommandAllocatorInv
<1>2. /\ l \in AliveLists /\ ~ list[l].is_recording
      /\ list' = [list EXCEPT ![l].vk_command_buffer = b]
      /\ UNCHANGED <<allocator, vk_buffers, vk_pools>>
  BY DEF ResetListFails, Resettable
<1>3. list[l] \in ListStates
  BY <1>1, <1>2, AliveStates
<1>4. /\ list'[l] \in ListStates /\ ~ list'[l].is_recording /\ list'[l].allocator = list[l].allocator
      /\ \A k \in Lists \ {l} : list'[k] = list[k]
  BY <1>1, <1>2, <1>3 DEF AllocatorTypeOK, ListStates
<1>5. AllocatorTypeOK'
  BY <1>1, <1>2, <1>3, <1>4 DEF AllocatorTypeOK
<1>6. AliveAllocators' = AliveAllocators /\ AliveLists' = AliveLists
  BY <1>2, <1>4, NoneSuchApart DEF AliveAllocators, AliveLists
<1>7. \A k \in AliveLists : /\ list'[k].allocator = list[k].allocator
                            /\ list'[k].is_recording <=> list[k].is_recording
                            /\ list'[k].is_recording => list'[k] = list[k]
  BY <1>2, <1>4 DEF AliveLists
<1>8. CurrentAgrees'
  BY <1>1, <1>2, <1>6, <1>7 DEF CurrentAgrees
<1>9. RecordsIntoOwnBuffer'
  BY <1>1, <1>2, <1>6, <1>7 DEF RecordsIntoOwnBuffer
<1>10. BuffersOwned' /\ PoolsOwned'
  BY <1>1, <1>2, <1>6 DEF BuffersOwned, PoolsOwned
<1> QED BY <1>5, <1>8, <1>9, <1>10 DEF CommandAllocatorInv

\* d3d12_command_allocator_remove_command_list() of a list that exists.
LEMMA ListRemoved ==
    ASSUME AllocatorTypeOK, CurrentAgrees, NEW l \in AliveLists
    PROVE  /\ Removed(l) \in [Allocators -> AllocatorStates \cup {NoneSuch}]
           /\ \A a \in Allocators \ AliveAllocators : Removed(l)[a] = NoneSuch
           /\ \A a \in AliveAllocators :
                  /\ Removed(l)[a] \in AllocatorStates
                  /\ Removed(l)[a].current_command_list
                         = IF allocator[a].current_command_list = l THEN NoneSuch
                           ELSE allocator[a].current_command_list
                  /\ Removed(l)[a].command_buffers = allocator[a].command_buffers
                  /\ Removed(l)[a].descriptor_pools = allocator[a].descriptor_pools
                  /\ Removed(l)[a].free_descriptor_pools = allocator[a].free_descriptor_pools
                  /\ Removed(l)[a].vk_descriptor_pool = allocator[a].vk_descriptor_pool
                  /\ Removed(l)[a].vk_pool_size = allocator[a].vk_pool_size
<1> PICK x : x = list[l].allocator
  OBVIOUS
<1> PICK R : R = Removed(l)
  OBVIOUS
<1>1. l \in Lists /\ l # NoneSuch
  BY NoneSuchApart DEF AliveLists
<1>2. /\ \A a \in AliveAllocators : a \in Allocators /\ allocator[a] \in AllocatorStates
      /\ \A a \in Allocators \ AliveAllocators : allocator[a] = NoneSuch
  BY AliveStates DEF AliveAllocators
<1>3. CASE x # NoneSuch
  <2>1. x \in AliveAllocators /\ allocator[x].current_command_list = l
    BY <1>3 DEF CurrentAgrees
  <2> PICK A : A = allocator[x]
    OBVIOUS
  <2> PICK B : B = [A EXCEPT !.current_command_list = NoneSuch]
    OBVIOUS
  <2>2. A \in AllocatorStates
    BY <2>1, <1>2
  <2>3. R = [allocator EXCEPT ![x] = B]
    BY <1>3, <2>1, <2>2 DEF Removed, AllocatorTypeOK
  <2>4. /\ B \in AllocatorStates /\ B.current_command_list = NoneSuch
        /\ B.command_buffers = A.command_buffers
        /\ B.descriptor_pools = A.descriptor_pools
        /\ B.free_descriptor_pools = A.free_descriptor_pools
        /\ B.vk_descriptor_pool = A.vk_descriptor_pool /\ B.vk_pool_size = A.vk_pool_size
    BY <2>2 DEF AllocatorStates
  <2>5. R \in [Allocators -> AllocatorStates \cup {NoneSuch}]
    BY <2>3, <2>4 DEF AllocatorTypeOK
  <2>6. R[x] = B /\ \A a \in Allocators \ {x} : R[a] = allocator[a]
    BY <2>1, <2>3, <1>2 DEF AllocatorTypeOK
  <2>7. \A a \in AliveAllocators \ {x} : allocator[a].current_command_list # l
    BY <1>1 DEF CurrentAgrees
  <2>8. \A a \in Allocators \ AliveAllocators : R[a] = NoneSuch
    BY <2>1, <2>6, <1>2
  <2>9. \A a \in AliveAllocators : \/ a = x /\ R[a] = B
                                   \/ a # x /\ R[a] = allocator[a]
    BY <2>6, <1>2
  <2> QED BY <2>1, <2>4, <2>5, <2>7, <2>8, <2>9, <1>2
<1>4. CASE x = NoneSuch
  <2>1. R = allocator
    BY <1>4 DEF Removed
  <2>2. \A a \in AliveAllocators : allocator[a].current_command_list # l
    <3>1. \A a \in AliveAllocators : a # NoneSuch
      BY NoneSuchApart DEF AliveAllocators
    <3> QED BY <3>1, <1>1, <1>4 DEF CurrentAgrees
  <2> QED BY <2>1, <2>2, <1>2 DEF AllocatorTypeOK
<1> QED BY <1>3, <1>4

\* A list that is removed from its allocator, and is then closed or freed.
LEMMA ListGone ==
    ASSUME CommandAllocatorInv, NEW l \in AliveLists, allocator' = Removed(l),
           UNCHANGED <<vk_buffers, vk_pools>>, list' \in [Lists -> ListStates \cup {NoneSuch}],
           \A k \in Lists \ {l} : list'[k] = list[k],
           list'[l] # NoneSuch => list'[l].allocator = NoneSuch /\ ~ list'[l].is_recording
    PROVE  CommandAllocatorInv'
<1>1. AllocatorTypeOK /\ CurrentAgrees /\ RecordsIntoOwnBuffer /\ BuffersOwned /\ PoolsOwned
  BY DEF CommandAllocatorInv
<1>2. /\ allocator' \in [Allocators -> AllocatorStates \cup {NoneSuch}]
      /\ \A a \in Allocators \ AliveAllocators : allocator'[a] = NoneSuch
      /\ \A a \in AliveAllocators :
             /\ allocator'[a] \in AllocatorStates
             /\ allocator'[a].current_command_list
                    = IF allocator[a].current_command_list = l THEN NoneSuch
                      ELSE allocator[a].current_command_list
             /\ allocator'[a].command_buffers = allocator[a].command_buffers
             /\ allocator'[a].descriptor_pools = allocator[a].descriptor_pools
             /\ allocator'[a].free_descriptor_pools = allocator[a].free_descriptor_pools
             /\ allocator'[a].vk_descriptor_pool = allocator[a].vk_descriptor_pool
             /\ allocator'[a].vk_pool_size = allocator[a].vk_pool_size
  BY <1>1, ListRemoved
<1>3. AllocatorTypeOK'
  BY <1>1, <1>2 DEF AllocatorTypeOK
<1>4. AliveAllocators' = AliveAllocators
  BY <1>2, NoneSuchApart DEF AliveAllocators
<1>5. AliveLists \ {l} \subseteq AliveLists' /\ AliveLists' \subseteq AliveLists
  BY DEF AliveLists
<1>6. \A k \in AliveLists' : \/ k = l /\ list'[k].allocator = NoneSuch /\ ~ list'[k].is_recording
                             \/ k # l /\ k \in AliveLists /\ list'[k] = list[k]
  BY <1>5 DEF AliveLists
<1>7. CurrentAgrees'
  <2>1. ASSUME NEW a \in AliveAllocators, allocator'[a].current_command_list # NoneSuch
        PROVE  /\ allocator'[a].current_command_list \in AliveLists'
               /\ list'[allocator'[a].current_command_list].allocator = a
    <3> PICK k : k = allocator[a].current_command_list
      OBVIOUS
    <3>1. k # l /\ k # NoneSuch /\ allocator'[a].current_command_list = k
      BY <2>1, <1>2
    <3>2. k \in AliveLists /\ list[k].allocator = a
      BY <3>1, <1>1 DEF CurrentAgrees
    <3> QED BY <3>1, <3>2, <1>5, <1>6
  <2>2. ASSUME NEW k \in AliveLists', list'[k].allocator # NoneSuch
        PROVE  /\ list'[k].is_recording /\ list'[k].allocator \in AliveAllocators
               /\ allocator'[list'[k].allocator].current_command_list = k
    <3>1. k # l /\ k \in AliveLists /\ list'[k] = list[k]
      BY <2>2, <1>6
    <3>2. /\ list[k].is_recording /\ list[k].allocator \in AliveAllocators
          /\ allocator[list[k].allocator].current_command_list = k
      BY <3>1, <2>2, <1>1 DEF CurrentAgrees
    <3>3. allocator'[list[k].allocator].current_command_list = k
      BY <3>1, <3>2, <1>2
    <3> QED BY <3>1, <3>2, <3>3
  <2> QED BY <2>1, <2>2, <1>4 DEF CurrentAgrees
<1>8. RecordsIntoOwnBuffer'
  <2> SUFFICES ASSUME NEW k \in AliveLists', list'[k].is_recording
               PROVE  IF list'[k].allocator = NoneSuch THEN list'[k].vk_command_buffer = NoneSuch
                      ELSE list'[k].vk_command_buffer
                               \in vk_buffers \cap allocator'[list'[k].allocator].command_buffers
    BY DEF RecordsIntoOwnBuffer
  <2>1. k \in AliveLists /\ list'[k] = list[k]
    BY <1>6
  <2>2. list[k].allocator # NoneSuch =>
            allocator'[list[k].allocator].command_buffers = allocator[list[k].allocator].command_buffers
    BY <2>1, <1>1, <1>2 DEF CurrentAgrees
  <2> QED BY <2>1, <2>2, <1>1 DEF RecordsIntoOwnBuffer
<1>9. BuffersOwned'
  BY <1>1, <1>2, <1>4 DEF BuffersOwned
<1>10. PoolsOwned'
  BY <1>1, <1>2, <1>3, <1>4, SamePools
<1> QED BY <1>3, <1>7, <1>8, <1>9, <1>10 DEF CommandAllocatorInv

LEMMA CloseListInv ==
    ASSUME CommandAllocatorInv, NEW l \in Lists, CloseList(l)
    PROVE  CommandAllocatorInv'
<1>1. AllocatorTypeOK
  BY DEF CommandAllocatorInv
<1>2. /\ l \in AliveLists /\ allocator' = Removed(l) /\ UNCHANGED <<vk_buffers, vk_pools>>
      /\ list' = [list EXCEPT ![l].allocator = NoneSuch, ![l].is_recording = FALSE]
  BY DEF CloseList
<1>3. list[l] \in ListStates
  BY <1>1, <1>2, AliveStates
<1>4. /\ list'[l] \in ListStates /\ list'[l].allocator = NoneSuch /\ ~ list'[l].is_recording
      /\ \A k \in Lists \ {l} : list'[k] = list[k]
  BY <1>1, <1>2, <1>3 DEF AllocatorTypeOK, ListStates
<1>5. list' \in [Lists -> ListStates \cup {NoneSuch}]
  BY <1>1, <1>2, <1>3, <1>4 DEF AllocatorTypeOK
<1> QED BY <1>2, <1>4, <1>5, ListGone

LEMMA ReleaseListInv ==
    ASSUME CommandAllocatorInv, NEW l \in Lists, ReleaseList(l)
    PROVE  CommandAllocatorInv'
<1>1. AllocatorTypeOK
  BY DEF CommandAllocatorInv
<1>2. /\ l \in AliveLists /\ allocator' = Removed(l) /\ UNCHANGED <<vk_buffers, vk_pools>>
      /\ list' = [list EXCEPT ![l] = NoneSuch]
  BY DEF ReleaseList
<1>3. /\ list' \in [Lists -> ListStates \cup {NoneSuch}] /\ list'[l] = NoneSuch
      /\ \A k \in Lists \ {l} : list'[k] = list[k]
  BY <1>1, <1>2 DEF AllocatorTypeOK
<1> QED BY <1>2, <1>3, ListGone

\* Each outcome of d3d12_command_allocator_allocate_descriptor_set().
LEMMA SetAllocated ==
    ASSUME NEW l, NEW n \in Nat \ {0}, NEW unbounded \in BOOLEAN, AllocateSet(l, n, unbounded),
           PoolsSound(allocator[list[l].allocator]),
           OwnPools(allocator[list[l].allocator]) \subseteq vk_pools, vk_pools \subseteq DescriptorPools
    PROVE  \E o : /\ Grown(allocator[list[l].allocator], vk_pools, o)
                  /\ allocator' = [allocator EXCEPT ![list[l].allocator] = o.A]
                  /\ vk_pools' = o.pools
<1> PICK a : a = list[l].allocator
  OBVIOUS
<1> PICK A : A = allocator[a]
  OBVIOUS
<1> PICK pools : pools = vk_pools
  OBVIOUS
<1> DEFINE first == IF A.vk_descriptor_pool # NoneSuch THEN {Outcome(A, pools)}
                    ELSE AllocatePool(A, pools, n, unbounded)
           next(f) == IF f.A.vk_descriptor_pool = NoneSuch THEN {f}
                      ELSE {f, Outcome([f.A EXCEPT !.vk_descriptor_pool = NoneSuch], f.pools)}
                           \cup AllocatePool(f.A, f.pools, n, unbounded)
<1>1. PoolsSound(A) /\ OwnPools(A) \subseteq pools /\ pools \subseteq DescriptorPools
  OBVIOUS
<1>2. \E o \in UNION {next(f) : f \in first} :
          allocator' = [allocator EXCEPT ![a] = o.A] /\ vk_pools' = o.pools
  BY DEF AllocateSet
<1>3. PICK f \in first :
          \E o \in next(f) : allocator' = [allocator EXCEPT ![a] = o.A] /\ vk_pools' = o.pools
  <2>1. PICK o \in UNION {next(f) : f \in first} :
            allocator' = [allocator EXCEPT ![a] = o.A] /\ vk_pools' = o.pools
    BY <1>2
  <2> HIDE DEF first, next
  <2>2. \E f \in first : o \in next(f)
    OBVIOUS
  <2> QED BY <2>1, <2>2
<1>7. PICK o \in next(f) : allocator' = [allocator EXCEPT ![a] = o.A] /\ vk_pools' = o.pools
  BY <1>3
<1>4. Grown(A, pools, f)
  <2>1. CASE f = Outcome(A, pools)
    BY <2>1, <1>1, NotGrown
  <2>2. CASE f \in AllocatePool(A, pools, n, unbounded)
    BY <2>2, <1>1, PoolAllocated
  <2> QED BY <2>1, <2>2, <1>3
<1>5. PoolsSound(f.A) /\ OwnPools(f.A) \subseteq f.pools /\ f.pools \subseteq DescriptorPools
  BY <1>4 DEF Grown
<1>6. Grown(A, pools, o)
  <2>1. CASE o = f
    BY <2>1, <1>4
  <2>2. CASE o = Outcome([f.A EXCEPT !.vk_descriptor_pool = NoneSuch], f.pools)
    <3>1. Grown(f.A, f.pools, o)
      BY <2>2, <1>5, Cleared
    <3> QED BY <3>1, <1>1, <1>4, GrownOn
  <2>3. CASE o \in AllocatePool(f.A, f.pools, n, unbounded)
    <3>1. Grown(f.A, f.pools, o)
      BY <2>3, <1>5, PoolAllocated
    <3> QED BY <3>1, <1>1, <1>4, GrownOn
  <2> QED BY <2>1, <2>2, <2>3, <1>7
<1> QED BY <1>6, <1>7

LEMMA DrawInv ==
    ASSUME CommandAllocatorInv, NEW l \in Lists, Draw(l)
    PROVE  CommandAllocatorInv'
<1> PICK x : x = list[l].allocator
  OBVIOUS
<1> PICK A : A = allocator[x]
  OBVIOUS
<1>1. AllocatorTypeOK /\ CurrentAgrees /\ RecordsIntoOwnBuffer /\ BuffersOwned /\ PoolsOwned
  BY DEF CommandAllocatorInv
<1>2. l \in AliveLists /\ x # NoneSuch /\ UNCHANGED <<list, vk_buffers>>
  BY DEF Draw
<1>3. x \in AliveAllocators
  BY <1>1, <1>2 DEF CurrentAgrees
<1>4. PICK n \in Requests, unbounded \in BOOLEAN : AllocateSet(l, n, unbounded)
  BY DEF Draw
<1>5. n \in Nat \ {0}
  BY <1>4, NoneSuchApart
<1>6. PoolsSound(A) /\ OwnPools(A) \subseteq vk_pools /\ vk_pools \subseteq DescriptorPools
  BY <1>1, <1>3 DEF PoolsOwned, AllocatorTypeOK
<1>7. \E o : Grown(A, vk_pools, o) /\ allocator' = [allocator EXCEPT ![x] = o.A] /\ vk_pools' = o.pools
  BY <1>4, <1>5, <1>6, SetAllocated
<1>8. PICK B, pools : /\ allocator' = [allocator EXCEPT ![x] = B] /\ vk_pools' = pools
                      /\ PoolsSound(B) /\ OwnPools(A) \subseteq OwnPools(B)
                      /\ B.current_command_list = A.current_command_list
                      /\ B.command_buffers = A.command_buffers
                      /\ pools = vk_pools \cup OwnPools(B) /\ pools \subseteq DescriptorPools
                      /\ (OwnPools(B) \ OwnPools(A)) \cap vk_pools = {}
  BY <1>7 DEF Grown
<1>9. B \in AllocatorStates
  BY <1>8 DEF PoolsSound
<1>10. AllocatorTypeOK'
  BY <1>1, <1>2, <1>8, <1>9 DEF AllocatorTypeOK
<1>11. allocator'[x] = B /\ \A a \in Allocators \ {x} : allocator'[a] = allocator[a]
  BY <1>1, <1>3, <1>8 DEF AllocatorTypeOK, AliveAllocators
<1>12. AliveAllocators' = AliveAllocators /\ AliveLists' = AliveLists
  BY <1>2, <1>3, <1>9, <1>11, NoneSuchApart DEF AliveAllocators, AliveLists
<1>13. \A a \in AliveAllocators : \/ a = x /\ allocator'[a] = B
                                  \/ a # x /\ allocator'[a] = allocator[a]
  BY <1>11 DEF AliveAllocators
<1>14. \A a \in AliveAllocators :
           /\ allocator'[a].current_command_list = allocator[a].current_command_list
           /\ allocator'[a].command_buffers = allocator[a].command_buffers
  BY <1>8, <1>13
<1>15. CurrentAgrees'
  BY <1>1, <1>2, <1>12, <1>14 DEF CurrentAgrees
<1>16. RecordsIntoOwnBuffer'
  <2> SUFFICES ASSUME NEW k \in AliveLists, list[k].is_recording
               PROVE  IF list[k].allocator = NoneSuch THEN list[k].vk_command_buffer = NoneSuch
                      ELSE list[k].vk_command_buffer
                               \in vk_buffers \cap allocator'[list[k].allocator].command_buffers
    BY <1>2, <1>12 DEF RecordsIntoOwnBuffer
  <2>1. list[k].allocator # NoneSuch =>
            allocator'[list[k].allocator].command_buffers = allocator[list[k].allocator].command_buffers
    BY <1>1, <1>14 DEF CurrentAgrees
  <2> QED BY <2>1, <1>1 DEF RecordsIntoOwnBuffer
<1>17. BuffersOwned'
  BY <1>1, <1>2, <1>12, <1>14 DEF BuffersOwned
<1>18. PoolsOwned'
  <2>1. \A a \in AliveAllocators : PoolsSound(allocator'[a])
    BY <1>1, <1>8, <1>13 DEF PoolsOwned
  <2>2. \A a \in AliveAllocators \ {x} : OwnPools(B) \cap OwnPools(allocator[a]) = {}
    <3> TAKE a \in AliveAllocators \ {x}
    <3>1. OwnPools(A) \cap OwnPools(allocator[a]) = {} /\ OwnPools(allocator[a]) \subseteq vk_pools
      BY <1>1, <1>3 DEF PoolsOwned
    <3> QED BY <3>1, <1>8
  <2>3. \A a, b \in AliveAllocators : a # b => OwnPools(allocator'[a]) \cap OwnPools(allocator'[b]) = {}
    <3> TAKE a, b \in AliveAllocators
    <3>1. a # b => OwnPools(allocator[a]) \cap OwnPools(allocator[b]) = {}
      BY <1>1 DEF PoolsOwned
    <3> QED BY <3>1, <2>2, <1>13
  <2>4. pools = UNION {OwnPools(allocator'[a]) : a \in AliveAllocators}
    <3>1. ASSUME NEW p \in pools PROVE \E a \in AliveAllocators : p \in OwnPools(allocator'[a])
      <4>1. CASE p \in OwnPools(B)
        BY <4>1, <1>3, <1>11
      <4>2. CASE p \notin OwnPools(B)
        <5>1. p \in vk_pools
          BY <4>2, <1>8
        <5>2. PICK a \in AliveAllocators : p \in OwnPools(allocator[a])
          BY <5>1, <1>1 DEF PoolsOwned
        <5>3. a # x
          BY <4>2, <5>2, <1>8
        <5> QED BY <5>2, <5>3, <1>13
      <4> QED BY <4>1, <4>2
    <3>2. ASSUME NEW a \in AliveAllocators, NEW p \in OwnPools(allocator'[a]) PROVE p \in pools
      <4>1. CASE a = x
        BY <4>1, <3>2, <1>8, <1>11
      <4>2. CASE a # x
        <5>1. p \in OwnPools(allocator[a])
          BY <4>2, <3>2, <1>13
        <5> QED BY <5>1, <1>1, <1>8 DEF PoolsOwned
      <4> QED BY <4>1, <4>2
    <3> QED BY <3>1, <3>2
  <2> QED BY <2>1, <2>3, <2>4, <1>8, <1>12 DEF PoolsOwned
<1> QED BY <1>10, <1>15, <1>16, <1>17, <1>18 DEF CommandAllocatorInv

LEMMA CommandAllocatorInvStep ==
    ASSUME CommandAllocatorInv, [CommandAllocatorNext]_allocatorVars
    PROVE  CommandAllocatorInv'
<1>1. CASE UNCHANGED allocatorVars
  BY <1>1 DEF allocatorVars, CommandAllocatorInv, AllocatorTypeOK, CurrentAgrees, RecordsIntoOwnBuffer,
              BuffersOwned, PoolsOwned, AliveAllocators, AliveLists
<1>2. ASSUME NEW a \in Allocators, CreateAllocator(a) \/ ReleaseAllocator(a) \/ ResetAllocator(a)
      PROVE  CommandAllocatorInv'
  BY <1>2, CreateAllocatorInv, ReleaseAllocatorInv, ResetAllocatorInv
<1>3. ASSUME NEW a \in Allocators, NEW l \in Lists, NEW b \in CommandBuffers,
             CreateList(a, l, b) \/ ResetList(a, l, b)
      PROVE  CommandAllocatorInv'
  <2>1. Recording(a, l, b) /\ (l \in AliveLists => ~ list[l].is_recording)
    BY <1>3 DEF CreateList, ResetList, Resettable
  <2> QED BY <2>1, RecordingInv
<1>4. ASSUME NEW a \in Allocators, NEW l \in Lists, NEW b \in CommandBuffers \cup {NoneSuch},
             ResetListFails(a, l, b)
      PROVE  CommandAllocatorInv'
  BY <1>4, ResetListFailsInv
<1>5. ASSUME NEW l \in Lists, CloseList(l) \/ ReleaseList(l) \/ Draw(l)
      PROVE  CommandAllocatorInv'
  BY <1>5, CloseListInv, ReleaseListInv, DrawInv
<1> QED BY <1>1, <1>2, <1>3, <1>4, <1>5 DEF CommandAllocatorNext

----------------------------------------------------------------------------
(* What the invariant says of the runs' property.                          *)
LEMMA PoolsAreInOnePlace == CommandAllocatorInv => PoolsInOnePlace
<1> SUFFICES ASSUME CommandAllocatorInv PROVE PoolsInOnePlace
  OBVIOUS
<1>1. PoolsOwned
  BY DEF CommandAllocatorInv
<1>2. \A a \in AliveAllocators, u \in BOOLEAN :
          /\ Distinct(PoolArray(a, u)) /\ PoolsOf(PoolArray(a, u)) \subseteq OwnPools(allocator[a])
          /\ \A i \in DOMAIN PoolArray(a, u) : PoolArray(a, u)[i].vk_pool \in PoolsOf(PoolArray(a, u))
  BY <1>1 DEF PoolsOwned, PoolsSound, PoolArray, OwnPools, PoolsOf
<1>3. \A a : OwnPools(allocator[a]) = PoolsOf(PoolArray(a, TRUE)) \cup PoolsOf(PoolArray(a, FALSE))
  BY DEF OwnPools, PoolArray
<1>4. vk_pools = UNION {PoolsOf(PoolArray(a, used)) : a \in AliveAllocators, used \in BOOLEAN}
  <2>1. \A p \in vk_pools :
            \E a \in AliveAllocators, used \in BOOLEAN : p \in PoolsOf(PoolArray(a, used))
    <3> TAKE p \in vk_pools
    <3>1. PICK a \in AliveAllocators : p \in OwnPools(allocator[a])
      BY <1>1 DEF PoolsOwned
    <3>2. \E used \in BOOLEAN : p \in PoolsOf(PoolArray(a, used))
      <4>1. p \in PoolsOf(PoolArray(a, TRUE)) \/ p \in PoolsOf(PoolArray(a, FALSE))
        BY <3>1, <1>3
      <4> QED BY <4>1
    <3> QED BY <3>2
  <2>2. \A a \in AliveAllocators, used \in BOOLEAN : PoolsOf(PoolArray(a, used)) \subseteq vk_pools
    BY <1>1, <1>2 DEF PoolsOwned
  <2> QED BY <2>1, <2>2
<1>5. ASSUME NEW a \in AliveAllocators, NEW b \in AliveAllocators, NEW u \in BOOLEAN, NEW v \in BOOLEAN,
             NEW i \in DOMAIN PoolArray(a, u), NEW j \in DOMAIN PoolArray(b, v),
             PoolArray(a, u)[i].vk_pool = PoolArray(b, v)[j].vk_pool
      PROVE  a = b /\ u = v /\ i = j
  <2>1. PICK p : p = PoolArray(a, u)[i].vk_pool
    OBVIOUS
  <2>2. p \in PoolsOf(PoolArray(a, u)) /\ p \in PoolsOf(PoolArray(b, v))
    BY <2>1, <1>2, <1>5
  <2>3. p \in OwnPools(allocator[a]) /\ p \in OwnPools(allocator[b])
    BY <2>2, <1>2
  <2>4. a = b
    BY <2>3, <1>1 DEF PoolsOwned
  <2>5. PoolsOf(PoolArray(a, TRUE)) \cap PoolsOf(PoolArray(a, FALSE)) = {}
    BY <1>1 DEF PoolsOwned, PoolsSound, PoolArray
  <2>6. u = v
    <3>1. CASE u = TRUE /\ v = FALSE
      BY <3>1, <2>2, <2>4, <2>5
    <3>2. CASE u = FALSE /\ v = TRUE
      BY <3>2, <2>2, <2>4, <2>5
    <3>3. (u = TRUE \/ u = FALSE) /\ (v = TRUE \/ v = FALSE)
      BY Zenon
    <3>4. CASE u = TRUE /\ v = TRUE
      BY <3>4, Zenon
    <3>5. CASE u = FALSE /\ v = FALSE
      BY <3>5, Zenon
    <3>6. \/ u = TRUE /\ v = TRUE
          \/ u = FALSE /\ v = FALSE
          \/ u = TRUE /\ v = FALSE
          \/ u = FALSE /\ v = TRUE
      BY <3>3, Zenon
    <3> QED BY <3>1, <3>2, <3>4, <3>5, <3>6, Zenon
  <2>7. Distinct(PoolArray(a, u))
    BY <1>2
  <2> QED BY <2>4, <2>6, <2>7, <1>5 DEF Distinct
<1>6. \A a \in AliveAllocators :
          allocator[a].vk_descriptor_pool \in {NoneSuch} \cup PoolsOf(allocator[a].descriptor_pools)
  BY <1>1 DEF PoolsOwned, PoolsSound
<1> QED BY <1>4, <1>5, <1>6 DEF PoolsInOnePlace

LEMMA PoolsAreLargeEnough == CommandAllocatorInv => PoolsLargeEnough
BY DEF CommandAllocatorInv, PoolsOwned, PoolsSound, PoolsLargeEnough

\* After any sequence of calls on command allocators and lists, with failures
\* of Vulkan in between, a list and its allocator name each other while the
\* list records, it records into a buffer of its own that exists, and each
\* descriptor pool of the driver is in one place, large enough for what was
\* asked of it.
THEOREM AllocatorsAreSound == CommandAllocatorSpec => []CommandAllocatorSound
<1>1. CommandAllocatorInit => CommandAllocatorInv
  BY CommandAllocatorInitInv
<1>2. CommandAllocatorInv /\ [CommandAllocatorNext]_allocatorVars => CommandAllocatorInv'
  BY CommandAllocatorInvStep
<1>3. CommandAllocatorInv => CommandAllocatorSound
  BY PoolsAreInOnePlace, PoolsAreLargeEnough DEF CommandAllocatorInv, CommandAllocatorSound
<1> QED BY <1>1, <1>2, <1>3, PTL DEF CommandAllocatorSpec
=============================================================================
