------------------------------- MODULE EventLog -------------------------------
(***************************************************************************)
(* What the event log promises its readers: a row stands for a mutation    *)
(* that a run of a request has made, a run has one row at most, and so has *)
(* a request that carries an idempotency key.  A mutation may have no row. *)
(***************************************************************************)
CONSTANT Keyed

VARIABLES
    facts,  \* mutations that happened: [run, req]
    rows    \* the log: each row names a run and its request, and more besides

Init == facts = {} /\ rows = {}

Mutate ==
    /\ facts \subseteq facts'
    /\ UNCHANGED rows

\* Rows are told apart by all they hold, so that a second row of a run, which
\* differs in its key or its attempt alone, is a step that is not allowed.
Record(row) ==
    /\ rows' = rows \cup {row}
    /\ [run |-> row.run, req |-> row.req] \in facts
    /\ \A g \in rows : g.run # row.run /\ (row.req \in Keyed => g.req # row.req)
    /\ UNCHANGED facts

Next == Mutate \/ \E row \in rows' : Record(row)

Spec == Init /\ [][Next]_<<facts, rows>>

=============================================================================
