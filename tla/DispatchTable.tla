---------------------------- MODULE DispatchTable ----------------------------
(***************************************************************************)
(* What the dispatch table of an adapter promises those who register       *)
(* reconcilers and those who send requests: a registration takes effect at *)
(* one moment, all of its names together, and leaves other names alone; a  *)
(* request gets what its name stands for at one moment.                    *)
(***************************************************************************)
CONSTANTS Calls, Requests, Waiting, Unsupported

VARIABLES
    table,  \* the entry of each name that has one
    owned,  \* the names of each registration
    asked,  \* the name in each request
    got     \* what each request was given

Init == table = <<>> /\ got = [q \in Requests |-> Waiting]

Publish(c) ==
    /\ DOMAIN table' = DOMAIN table \cup owned[c]
    /\ \A n \in owned[c] : table'[n].call = c
    /\ \A n \in DOMAIN table \ owned[c] : table'[n] = table[n]
    /\ UNCHANGED <<owned, asked, got>>

Serve(q) ==
    /\ got[q] = Waiting
    /\ got' = [got EXCEPT ![q] =
                IF asked[q] \in DOMAIN table THEN table[asked[q]] ELSE Unsupported]
    /\ UNCHANGED <<table, owned, asked>>

Next == (\E c \in Calls : Publish(c)) \/ (\E q \in Requests : Serve(q))

Spec == Init /\ [][Next]_<<table, owned, asked, got>>

=============================================================================
