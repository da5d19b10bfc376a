------------------------------ MODULE WaitsMC ------------------------------
(* Four components that wait for others and share nothing: one moves in a   *)
(* behaviour, the others stay where they start.                              *)
EXTENDS MutationLock, ReviewerLane, AcquisitionBatch, PiHost

VARIABLE part

Parts == {"lock", "lane", "batch", "host"}

WaitsInit ==
    /\ part \in Parts
    /\ Init /\ LaneInit /\ BatchInit /\ HostInit
    /\ part # "host" => captured = 0 /\ routed = NoRoute

WaitsNext ==
    /\ UNCHANGED part
    /\ \/ part = "lock" /\ Next /\ UNCHANGED <<laneVars, batchVars, hostVars>>
       \/ part = "lane" /\ LaneNext /\ UNCHANGED <<vars, batchVars, hostVars>>
       \/ part = "batch" /\ BatchNext /\ UNCHANGED <<vars, laneVars, hostVars>>
       \/ part = "host" /\ HostNext /\ UNCHANGED <<vars, laneVars, batchVars>>

\* Fairness of MutationLock, which only its own behaviours owe; without their first
\* step the others owe nothing.
LockFairness ==
    \A p \in Procs :
        /\ WF_vars(part = "lock" /\ Step(p))
        /\ WF_vars(part = "lock" /\ \E i \in Invocations, nr \in StrictCalls : Begin(p, i, nr))

WaitsSpec ==
    WaitsInit /\ [][WaitsNext]_<<part, vars, laneVars, batchVars, hostVars>>
      /\ LockFairness /\ LaneFairness /\ BatchFairness /\ HostFairness

=============================================================================
