----------------------------- MODULE ReportQueue -----------------------------
(***************************************************************************)
(* What the fence worker of a command queue promises to that queue: the    *)
(* submitted signals are reported one by one in the order in which they    *)
(* were handed over, and the ones left when the queue goes away are        *)
(* dropped.  This is the worker as CommandQueue sees it.                   *)
(***************************************************************************)
EXTENDS Sequences

CONSTANTS Workers, Jobs

VARIABLES pending, reported

Init == /\ pending = [w \in Workers |-> <<>>]
        /\ reported = [w \in Workers |-> <<>>]

HandOver(w, job) == /\ pending' = [pending EXCEPT ![w] = Append(@, job)]
                    /\ UNCHANGED reported

Report(w) == /\ pending[w] # <<>>
             /\ reported' = [reported EXCEPT ![w] = Append(@, Head(pending[w]))]
             /\ pending' = [pending EXCEPT ![w] = Tail(@)]

\* The driver fails to wait for the job.
Skip(w) == /\ pending[w] # <<>>
           /\ pending' = [pending EXCEPT ![w] = Tail(@)]
           /\ UNCHANGED reported

Drop(w) == /\ pending' = [pending EXCEPT ![w] = <<>>]
           /\ UNCHANGED reported

Next == \E w \in Workers : \/ \E job \in Jobs : HandOver(w, job)
                           \/ Report(w) \/ Skip(w) \/ Drop(w)

Spec == Init /\ [][Next]_<<pending, reported>>
=============================================================================
