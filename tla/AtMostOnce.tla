------------------------------ MODULE AtMostOnce ------------------------------
(***************************************************************************)
(* What a request over HTTP promises its caller: the handler runs for it   *)
(* once at most, a reply means that it has run, and ErrEndpointUnknown     *)
(* that it has not and never will.  Any other error leaves open whether it *)
(* ran.                                                                    *)
(***************************************************************************)
CONSTANTS Reqs, Pending, Reply, Unknown, Errors

VARIABLES
    ran,     \* requests whose handler has run
    outcome  \* what the caller has got: Pending before that

Init ==
    /\ ran = {}
    /\ outcome = [r \in Reqs |-> Pending]

Run(r) ==
    /\ r \notin ran /\ outcome[r] # Unknown
    /\ ran' = ran \cup {r}
    /\ UNCHANGED outcome

Return(r, o) ==
    /\ outcome[r] = Pending
    /\ o = Reply => r \in ran
    /\ o = Unknown => r \notin ran
    /\ outcome' = [outcome EXCEPT ![r] = o]
    /\ UNCHANGED ran

Next ==
    \E r \in Reqs :
        Run(r) \/ \E o \in {Reply, Unknown} \cup Errors : Return(r, o)

Spec == Init /\ [][Next]_<<ran, outcome>>

=============================================================================
