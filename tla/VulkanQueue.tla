----------------------------- MODULE VulkanQueue -----------------------------
(***************************************************************************)
(* The Vulkan side of the queues, as libs/vkd3d/command.c uses it: a       *)
(* VkQueue takes batches under the mutex of its struct vkd3d_queue and     *)
(* executes them in submission order; the timeline semaphore of a fence is *)
(* waited for and signalled by batches of any queue.  External: the driver *)
(* is not part of the repository.                                          *)
(***************************************************************************)
EXTENDS Fence

CONSTANT VkQueues       \* the VkQueue handles

VARIABLES
    vk_queue,       \* the batches each VkQueue has not executed yet
    semaphore,      \* the counter of each fence's timeline semaphore
    real_values     \* history: the virtual values each fence was really given,
                    \* by the CPU or by an executed GPU signal

vulkanVars == <<vk_queue, semaphore, real_values>>

\* "value" is the virtual value the batch stands for; the driver ignores it.
SemaphoreBatch == [type : {"wait", "signal"}, fence : Fences,
                   timeline_value : Nat, value : Values]
ExecuteBatch == [type |-> "execute"]
Batch == SemaphoreBatch \cup {ExecuteBatch}

VulkanInit ==
    /\ vk_queue = [vq \in VkQueues |-> <<>>]
    /\ semaphore = [f \in Fences |-> 0]
    /\ real_values = [f \in Fences |-> {fence[f].value}]

\* vkQueueSubmit() between vkd3d_queue_acquire() and vkd3d_queue_release().
VkQueueSubmit(vq, batch) ==
    /\ vk_queue' = [vk_queue EXCEPT ![vq] = Append(@, batch)]
    /\ UNCHANGED <<semaphore, real_values>>

\* A CPU signal gives the fence a value without the GPU.
RecordCpuValue(f, v) ==
    /\ real_values' = [real_values EXCEPT ![f] = @ \cup {v}]
    /\ UNCHANGED <<vk_queue, semaphore>>

PopBatch(vq) == vk_queue' = [vk_queue EXCEPT ![vq] = Tail(@)]

GpuExecute(vq) ==
    /\ vk_queue[vq] # <<>> /\ Head(vk_queue[vq]).type = "execute"
    /\ PopBatch(vq)
    /\ UNCHANGED <<semaphore, real_values>>

GpuWait(vq) ==
    /\ vk_queue[vq] # <<>> /\ Head(vk_queue[vq]).type = "wait"
    /\ LET b == Head(vk_queue[vq]) IN semaphore[b.fence] >= b.timeline_value
    /\ PopBatch(vq)
    /\ UNCHANGED <<semaphore, real_values>>

\* Vulkan requires a signalled value to exceed the counter.  When it does not,
\* the driver may store it or leave the counter as it is.
GpuSignal(vq) ==
    /\ vk_queue[vq] # <<>> /\ Head(vk_queue[vq]).type = "signal"
    /\ LET b == Head(vk_queue[vq])
       IN  /\ \E c \in {b.timeline_value, semaphore[b.fence]} :
                  /\ b.timeline_value > semaphore[b.fence] => c = b.timeline_value
                  /\ semaphore' = [semaphore EXCEPT ![b.fence] = c]
           /\ real_values' = [real_values EXCEPT ![b.fence] = @ \cup {b.value}]
    /\ PopBatch(vq)

GpuNext(vq) ==
    /\ GpuExecute(vq) \/ GpuWait(vq) \/ GpuSignal(vq)
    /\ UNCHANGED fenceVars

VulkanTypeOK ==
    /\ vk_queue \in [VkQueues -> Seq(Batch)]
    /\ semaphore \in [Fences -> Nat]
    /\ real_values \in [Fences -> SUBSET Values]
=============================================================================
