---------------------------- MODULE HeapLifetime ----------------------------
(***************************************************************************)
(* How long heaps and the resources placed in them live                    *)
(* (libs/vkd3d/resource.c).  Both have a public count, that AddRef() and   *)
(* Release() change, and an internal one that decides when the object is   *)
(* freed.  The public count as a whole is worth one internal reference; a  *)
(* resource is worth one internal reference of its heap.  An object whose  *)
(* public count is zero may be revived with AddRef().  A public heap and   *)
(* a resource with a public count hold a reference of the device.          *)
(*                                                                         *)
(* Threads share the objects without a lock: each call is the sequence of  *)
(* its atomic steps.  A private heap is named by the resource it was made  *)
(* for.                                                                    *)
(***************************************************************************)
EXTENDS Integers, Sequences, FiniteSets

CONSTANTS HeapThreads, Heaps, Resources, NoHeap

ASSUME HeapLifetimeAssumption ==
    /\ Heaps \cap Resources = {} /\ NoHeap \notin Heaps \cup Resources
    /\ IsFiniteSet(Heaps) /\ IsFiniteSet(Resources) /\ IsFiniteSet(HeapThreads)

Shared == Heaps \cup Resources

VARIABLES
    life,           \* of each object: "none", "live", "freed"
    private,        \* of the private heap of each resource
    refs,           \* the public count
    internal_refs,  \* the internal count of each object
    private_refs,   \* the internal count of each private heap
    heap_of,        \* resource->heap
    device_refs,    \* what heaps and resources hold of the device
    holds,          \* the objects that each thread has a public reference of
    keeps,          \* the resources that each thread has an internal reference of
    todo            \* the steps that each thread still has to make

heapLifetimeVars == <<life, private, refs, internal_refs, private_refs, heap_of,
                      device_refs, holds, keeps, todo>>

HeapLifetimeInit ==
    /\ life = [o \in Shared |-> "none"] /\ private = [r \in Resources |-> "none"]
    /\ refs = [o \in Shared |-> 0] /\ internal_refs = [o \in Shared |-> 0]
    /\ private_refs = [r \in Resources |-> 0]
    /\ heap_of = [r \in Resources |-> NoHeap]
    /\ device_refs = 0
    /\ holds = [t \in HeapThreads |-> {}] /\ keeps = [t \in HeapThreads |-> {}]
    /\ todo = [t \in HeapThreads |-> <<>>]

Idle(t) == todo[t] = <<>>
Will(t, steps) == todo' = [todo EXCEPT ![t] = steps]

\* refcount and internal_refcount start at 1.  The call returns the object
\* after the steps that are left.
Create(t, o, steps) ==
    /\ Idle(t) /\ life[o] = "none" /\ Will(t, steps)
    /\ life' = [life EXCEPT ![o] = "live"]
    /\ refs' = [refs EXCEPT ![o] = 1] /\ internal_refs' = [internal_refs EXCEPT ![o] = 1]
    /\ device_refs' = device_refs + 1
    /\ UNCHANGED <<holds, keeps>>

CreateHeap(t, h) ==
    /\ Create(t, h, << <<"return", h>> >>)
    /\ UNCHANGED <<private, private_refs, heap_of>>

\* The creation fails after the resource exists: it is released.
Released(r) == << <<"decref", r>>, <<"device_release", r>> >>

CreateFails(t, r) ==
    /\ Idle(t) /\ life[r] = "none" /\ Will(t, Released(r))
    /\ life' = [life EXCEPT ![r] = "live"]
    /\ internal_refs' = [internal_refs EXCEPT ![r] = 1]
    /\ device_refs' = device_refs + 1
    /\ UNCHANGED <<private, refs, private_refs, heap_of, holds, keeps>>

\* A reserved resource has no heap.
CreateReserved(t, r) ==
    /\ Create(t, r, << <<"return", r>> >>)
    /\ UNCHANGED <<private, private_refs, heap_of>>

\* A committed resource; a placed one whose heap has the wrong memory type.
CreateWithPrivateHeap(t, r) ==
    /\ Create(t, r, << <<"return", r>> >>)
    /\ private' = [private EXCEPT ![r] = "live"]
    /\ private_refs' = [private_refs EXCEPT ![r] = 1]
    /\ heap_of' = [heap_of EXCEPT ![r] = r]

\* The caller has the heap; it is referenced after resource->heap is set.
CreatePlaced(t, r, h) ==
    /\ h \in holds[t]
    /\ Create(t, r, << <<"heap_incref", h>>, <<"return", r>> >>)
    /\ heap_of' = [heap_of EXCEPT ![r] = h]
    /\ UNCHANGED <<private, private_refs>>

\* What a thread may call AddRef() on: what it has itself, and what the
\* resources it has keep alive.
Has(t) == holds[t] \cup keeps[t]
Reaches(t) == Has(t) \cup (Heaps \cap {heap_of[r] : r \in Has(t) \cap Resources})

\* Mutant: reviving a heap does not take an internal reference.
RevivesNothing(o) == IF o \in Heaps THEN <<>> ELSE << <<"device_add_ref", o>>, <<"incref", o>> >>

Revival(o) == IF o \in Heaps THEN << <<"heap_incref", o>> >>
              ELSE << <<"device_add_ref", o>>, <<"incref", o>> >>

\* The reference is for the thread itself or for another one.
AddRef(t, u, o) ==
    /\ Idle(t) /\ o \in Reaches(t) /\ o \notin holds[u]
    /\ \A v \in HeapThreads : <<"hand", u, o>> \notin {todo[v][n] : n \in DOMAIN todo[v]}
    /\ refs' = [refs EXCEPT ![o] = @ + 1]
    /\ Will(t, (IF refs[o] = 0 THEN Revival(o) ELSE <<>>) \o << <<"hand", u, o>> >>)
    /\ UNCHANGED <<life, private, internal_refs, private_refs, heap_of, device_refs, holds, keeps>>

Release(t, o) ==
    /\ Idle(t) /\ o \in holds[t]
    /\ refs' = [refs EXCEPT ![o] = @ - 1]
    /\ holds' = [holds EXCEPT ![t] = @ \ {o}]
    /\ Will(t, IF refs[o] # 1 THEN <<>>
               ELSE IF o \in Heaps THEN << <<"heap_decref", o>> >> ELSE Released(o))
    /\ UNCHANGED <<life, private, internal_refs, private_refs, heap_of, device_refs, keeps>>

\* vkd3d_resource_incref() and vkd3d_resource_decref().
IncRef(t, r) ==
    /\ Idle(t) /\ r \in holds[t] \ keeps[t]
    /\ internal_refs' = [internal_refs EXCEPT ![r] = @ + 1]
    /\ keeps' = [keeps EXCEPT ![t] = @ \cup {r}]
    /\ UNCHANGED <<life, private, refs, private_refs, heap_of, device_refs, holds, todo>>

DecRef(t, r) ==
    /\ Idle(t) /\ r \in keeps[t] /\ Will(t, << <<"decref", r>> >>)
    /\ keeps' = [keeps EXCEPT ![t] = @ \ {r}]
    /\ UNCHANGED <<life, private, refs, internal_refs, private_refs, heap_of, device_refs, holds>>

----------------------------------------------------------------------------
\* The steps of the calls.
Step(t, op) == todo[t] # <<>> /\ Head(todo[t])[1] = op
Object(t) == Head(todo[t])[2]

Return(t) ==
    /\ Step(t, "return") /\ Will(t, Tail(todo[t]))
    /\ holds' = [holds EXCEPT ![t] = @ \cup {Object(t)}]
    /\ UNCHANGED <<life, private, refs, internal_refs, private_refs, heap_of, device_refs, keeps>>

Hand(t) ==
    /\ Step(t, "hand") /\ Will(t, Tail(todo[t]))
    /\ holds' = [holds EXCEPT ![Object(t)] = @ \cup {Head(todo[t])[3]}]
    /\ UNCHANGED <<life, private, refs, internal_refs, private_refs, heap_of, device_refs, keeps>>

Increment(t) ==
    /\ Step(t, "heap_incref") \/ Step(t, "incref")
    /\ Will(t, Tail(todo[t]))
    /\ internal_refs' = [internal_refs EXCEPT ![Object(t)] = @ + 1]
    /\ UNCHANGED <<life, private, refs, private_refs, heap_of, device_refs, holds, keeps>>

\* d3d12_heap_decref(): the last one frees the heap, then the device reference.
HeapDecref(t) ==
    LET h == Object(t) IN
    /\ Step(t, "heap_decref")
    /\ internal_refs' = [internal_refs EXCEPT ![h] = @ - 1]
    /\ life' = IF internal_refs[h] = 1 THEN [life EXCEPT ![h] = "freed"] ELSE life
    /\ Will(t, (IF internal_refs[h] = 1 THEN << <<"device_release", h>> >> ELSE <<>>) \o Tail(todo[t]))
    /\ UNCHANGED <<private, refs, private_refs, heap_of, device_refs, holds, keeps>>

\* d3d12_resource_decref(): the last one lets go of the heap, then frees the resource.
Decref(t) ==
    LET r == Object(t) IN
    /\ Step(t, "decref")
    /\ internal_refs' = [internal_refs EXCEPT ![r] = @ - 1]
    /\ Will(t, (IF internal_refs[r] # 1 THEN <<>>
                ELSE (CASE heap_of[r] \in Heaps -> << <<"heap_decref", heap_of[r]>> >>
                        [] heap_of[r] = r -> << <<"private_decref", r>> >>
                        [] OTHER -> <<>>) \o << <<"free", r>> >>) \o Tail(todo[t]))
    /\ UNCHANGED <<life, private, refs, private_refs, heap_of, device_refs, holds, keeps>>

PrivateDecref(t) ==
    LET r == Object(t) IN
    /\ Step(t, "private_decref") /\ Will(t, Tail(todo[t]))
    /\ private_refs' = [private_refs EXCEPT ![r] = @ - 1]
    /\ private' = IF private_refs[r] = 1 THEN [private EXCEPT ![r] = "freed"] ELSE private
    /\ UNCHANGED <<life, refs, internal_refs, heap_of, device_refs, holds, keeps>>

FreeResource(t) ==
    /\ Step(t, "free") /\ Will(t, Tail(todo[t]))
    /\ life' = [life EXCEPT ![Object(t)] = "freed"]
    /\ UNCHANGED <<private, refs, internal_refs, private_refs, heap_of, device_refs, holds, keeps>>

DeviceRef(t) ==
    /\ Step(t, "device_add_ref") \/ Step(t, "device_release")
    /\ Will(t, Tail(todo[t]))
    /\ device_refs' = IF Step(t, "device_add_ref") THEN device_refs + 1 ELSE device_refs - 1
    /\ UNCHANGED <<life, private, refs, internal_refs, private_refs, heap_of, holds, keeps>>

HeapLifetimeNext ==
    \E t \in HeapThreads :
        \/ \E h \in Heaps : CreateHeap(t, h)
        \/ \E r \in Resources :
               \/ CreateFails(t, r) \/ CreateReserved(t, r) \/ CreateWithPrivateHeap(t, r)
               \/ \E h \in Heaps : CreatePlaced(t, r, h)
               \/ IncRef(t, r) \/ DecRef(t, r)
        \/ \E o \in Shared : Release(t, o) \/ \E u \in HeapThreads : AddRef(t, u, o)
        \/ Return(t) \/ Hand(t) \/ Increment(t) \/ HeapDecref(t) \/ Decref(t)
        \/ PrivateDecref(t) \/ FreeResource(t) \/ DeviceRef(t)

HeapLifetimeSpec == HeapLifetimeInit /\ [][HeapLifetimeNext]_heapLifetimeVars

----------------------------------------------------------------------------
\* How many threads still have to make this step.
Pending(op, o) ==
    Cardinality({t \in HeapThreads : <<op, o>> \in {todo[t][n] : n \in DOMAIN todo[t]}})

\* A step of a call other than giving the device back touches a live object,
\* and so does the next call of a thread.
NothingFreedIsUsed ==
    \A t \in HeapThreads :
        /\ \A n \in DOMAIN todo[t] :
               LET step == todo[t][n] IN
               step[1] # "device_release" => life[step[Len(step)]] = "live"
        /\ \A o \in Reaches(t) : life[o] = "live"
        /\ \A r \in Has(t) \cap Resources : heap_of[r] = r => private[r] = "live"

\* The internal count of a heap, the steps on their way apart, is one for
\* its public count and one for each resource in it.
InternalRefsAccounted ==
    \A h \in Heaps :
        life[h] = "live" =>
            internal_refs[h] + Pending("heap_incref", h) - Pending("heap_decref", h)
                = (IF refs[h] > 0 THEN 1 ELSE 0)
                  + Cardinality({r \in Resources : heap_of[r] = h /\ internal_refs[r] > 0})

\* Where this step is in what the threads still have to make.
Places(op) == {x \in HeapThreads \X (1 .. 5) :
                   x[2] \in DOMAIN todo[x[1]] /\ todo[x[1]][x[2]][1] = op}

\* The device is held by the public heaps and by the resources in public use.
DeviceRefsAccounted ==
    device_refs + Cardinality(Places("device_add_ref"))
        = Cardinality({h \in Heaps : life[h] = "live"})
          + Cardinality({r \in Resources : refs[r] > 0})
          + Cardinality(Places("device_release"))

\* When nothing is under way, what nobody has any more is freed.
NothingLeaks ==
    (\A t \in HeapThreads : Idle(t)) =>
        /\ \A h \in Heaps : life[h] = "live" =>
               refs[h] > 0 \/ \E r \in Resources : heap_of[r] = h /\ life[r] = "live"
        /\ \A r \in Resources : /\ life[r] = "live" => \E t \in HeapThreads : r \in Has(t)
                                /\ private[r] = "live" => life[r] = "live"

(***************************************************************************)
(* "A heap must not be destroyed until all contained resources are         *)
(* destroyed" (d3d12_heap_Release): with threads that create, share,       *)
(* release and revive heaps and resources, nothing is used after it is     *)
(* freed, nothing and no reference of the device leaks.                    *)
(***************************************************************************)
HeapsOutliveResources ==
    NothingFreedIsUsed /\ InternalRefsAccounted /\ DeviceRefsAccounted /\ NothingLeaks
=============================================================================
