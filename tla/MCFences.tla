------------------------------ MODULE MCFences ------------------------------
(***************************************************************************)
(* Fences from both sides: the critical sections of one fence with rewinds,*)
(* two events and out-of-order reports, and the workers that report to     *)
(* fences and keep them alive.  The two share no state and are checked     *)
(* together: in each behaviour one of them acts.                           *)
(***************************************************************************)
EXTENDS Fence, FenceWorker

VARIABLE part

MCValues == 0 .. 2

FencesInit ==
    /\ part \in {"fence", "workers"}
    /\ FenceInit /\ (part = "workers" => \A f \in Fences : fence[f].value = 0)
    /\ Init

FencesNext ==
    /\ UNCHANGED part
    /\ \/ part = "fence" /\ FenceNext /\ UNCHANGED vars
       \/ part = "workers" /\ Next /\ UNCHANGED fenceVars

FencesSpec ==
    /\ FencesInit /\ [][FencesNext]_<<part, fenceVars, vars>>
    /\ \A w \in Workers : /\ WF_vars(part = "workers" /\ WorkerThread(w))
                          /\ WF_vars(part = "workers" /\ Caller(w))
    /\ \A f \in WorkerFences : WF_vars(part = "workers" /\ Gpu(f))
=============================================================================
