---------------------------- MODULE RouteRegister ----------------------------
(* What the published route promises to the commands that read it without a   *)
(* lock: an atomic register.  A value replaces the current one in one step,   *)
(* and a read returns a value that was current at some moment between its     *)
(* call and its return, or fails.  Between the two pointer swaps of a         *)
(* publication nothing is current.  RoutePublication implements it with seven *)
(* files and two looks at the pointers.                                       *)
CONSTANTS Readers, Routes, None

VARIABLES
    currentRoute,   \* the value of the register, None while there is none
    reading,        \* the readers at work
    seen,           \* seen[q]: the values since q's call
    returned        \* returned[q]: what q's last read returned, None before that

registerVars == <<currentRoute, reading, seen, returned>>

RegisterInit ==
    /\ currentRoute = None
    /\ reading = {}
    /\ seen = [q \in Readers |-> {}]
    /\ returned = [q \in Readers |-> None]

\* A value, as something a read may return.
Values(v) == {v} \ {None}

Write(v) ==
    /\ currentRoute' = v
    /\ seen' = [q \in Readers |-> IF q \in reading THEN seen[q] \cup Values(v) ELSE {}]
    /\ UNCHANGED <<reading, returned>>

Call(q) ==
    /\ q \notin reading
    /\ reading' = reading \cup {q}
    /\ seen' = [seen EXCEPT ![q] = Values(currentRoute)]
    /\ returned' = [returned EXCEPT ![q] = None]
    /\ UNCHANGED currentRoute

Return(q, r) ==
    /\ q \in reading
    /\ r \in seen[q] \cup {"failed"}
    /\ reading' = reading \ {q}
    /\ seen' = [seen EXCEPT ![q] = {}]
    /\ returned' = [returned EXCEPT ![q] = r]
    /\ UNCHANGED currentRoute

RegisterNext ==
    \/ \E v \in Routes \cup {None} : Write(v)
    \/ \E q \in Readers : Call(q) \/ \E r \in Routes \cup {"failed"} : Return(q, r)

RegisterSpec == RegisterInit /\ [][RegisterNext]_registerVars

=============================================================================
