----------------------------- MODULE AtLeastOnce -----------------------------
(***************************************************************************)
(* What an endpoint promises the senders of its messages: a message stays  *)
(* until it is settled, and a request is settled only after it has been    *)
(* answered.  Answers may be repeated; that is the "at least once".        *)
(***************************************************************************)
CONSTANTS Msgs, Rpc

VARIABLES answered, gone

Init == answered = {} /\ gone = {}

Answer(m) == answered' = answered \cup {m} /\ UNCHANGED gone

Settle(m) ==
    /\ m \in Rpc => m \in answered
    /\ gone' = gone \cup {m}
    /\ UNCHANGED answered

Next == (\E m \in Rpc : Answer(m)) \/ (\E m \in Msgs : Settle(m))

Spec == Init /\ [][Next]_<<answered, gone>>

=============================================================================
