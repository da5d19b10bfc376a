----------------------------- MODULE BrowsersMC -----------------------------
(* Two components that run a browser and share nothing: one moves in a       *)
(* behaviour, the other stays where it starts.                                *)
EXTENDS BrowseSessionMC, BrowserLease

VARIABLE part

BrowsersInit == part \in {"browse", "lease"} /\ Init /\ LeaseInit

\* Both processes have ended, which is where a lease may stop.
LeaseOver == launcher \in {"exited", "killed"} /\ reaper = "gone"

BrowsersNext ==
    /\ UNCHANGED part
    /\ \/ part = "browse" /\ Next /\ UNCHANGED leaseVars
       \/ part = "lease" /\ LeaseNext /\ UNCHANGED vars
       \/ part = "lease" /\ LeaseOver /\ UNCHANGED <<vars, leaseVars>>

\* The sessions alone.
SessionsInit == BrowsersInit /\ part = "browse"

SessionsSpec == SessionsInit /\ [][BrowsersNext]_<<part, vars, leaseVars>>

\* A component that has not started owes nothing: no step of its Fairness is enabled.
BrowsersSpec ==
    BrowsersInit /\ [][BrowsersNext]_<<part, vars, leaseVars>> /\ Fairness /\ LeaseFairness

=============================================================================
