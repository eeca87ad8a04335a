----------------------------- MODULE Retrieval ------------------------------
(***************************************************************************)
(* What the event handler promises to a task that asks the network for a   *)
(* record, whatever its channels, queries, requests and timeouts do: a     *)
(* retrieval that is begun ends, it ends once, its outcome never changes,  *)
(* and it ends in "found" only when the network supplied such a record.    *)
(* It need not end when the handler is wedged, a state it never leaves.    *)
(*                                                                         *)
(* The module is the abstract specification that EventHandler implements.  *)
(***************************************************************************)

CONSTANT Client  \* the tasks that ask

VARIABLES status,    \* client -> "idle", "asking" or its outcome
          supplied,  \* clients for which the network supplied a record
          wedged     \* whether the handler waits for itself

vars == <<status, supplied, wedged>>

Outcome == {"db", "found", "error"}

Init == status = [c \in Client |-> "idle"] /\ supplied = {} /\ wedged = FALSE

Begin(c) ==
    /\ status[c] = "idle"
    /\ status' = [status EXCEPT ![c] = "asking"]
    /\ UNCHANGED supplied

\* The information is in the database already: nothing is asked.
Known(c) ==
    /\ status[c] = "idle"
    /\ status' = [status EXCEPT ![c] = "db"]
    /\ UNCHANGED supplied

Supply(c) ==
    /\ status[c] # "idle"
    /\ supplied' = supplied \union {c}
    /\ UNCHANGED status

End(c) ==
    /\ status[c] = "asking"
    /\ \/ c \in supplied /\ status' = [status EXCEPT ![c] = "found"]
       \/ status' = [status EXCEPT ![c] = "error"]
    /\ UNCHANGED supplied

\* The handler may wedge in any step, also in one that ends a retrieval.
Next ==
    /\ \/ \E c \in Client : Begin(c) \/ Known(c) \/ Supply(c) \/ End(c)
       \/ UNCHANGED <<status, supplied>>
    /\ wedged' \in {wedged, TRUE}

Spec == Init /\ [][Next]_vars
        /\ \A c \in Client : WF_vars(~wedged /\ End(c) /\ UNCHANGED wedged)
=============================================================================
