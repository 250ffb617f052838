----------------------------- MODULE CallService ----------------------------
(***************************************************************************)
(* What the proxy relies on when it calls a tool of an upstream: a call    *)
(* returns once at most; with a response only if the server was asked by   *)
(* this very call; as cancelled only if its context is done; and as failed *)
(* only if the connection to the server has been closed or lost.           *)
(***************************************************************************)
CONSTANT Calls

VARIABLES
    begun,      \* calls that were made
    reached,    \* calls the server has been asked by
    cancelled,  \* calls whose context is done
    broken,     \* whether the connection is closed or lost
    result      \* what each call returned

vars == <<begun, reached, cancelled, broken, result>>

Init ==
    /\ begun = {}
    /\ reached = {}
    /\ cancelled = {}
    /\ broken = FALSE
    /\ result = [c \in Calls |-> "none"]

Begin(c) ==
    /\ c \notin begun
    /\ begun' = begun \cup {c}
    /\ UNCHANGED <<reached, cancelled, broken, result>>

Reach(c) ==
    /\ c \in begun
    /\ reached' = reached \cup {c}
    /\ UNCHANGED <<begun, cancelled, broken, result>>

Cancel(c) ==
    /\ result[c] = "none"
    /\ cancelled' = cancelled \cup {c}
    /\ UNCHANGED <<begun, reached, broken, result>>

Break ==
    /\ broken' = TRUE
    /\ UNCHANGED <<begun, reached, cancelled, result>>

Return(c) ==
    /\ result[c] = "none"
    /\ \/ /\ c \in reached
          /\ result' = [result EXCEPT ![c] = "response"]
          /\ UNCHANGED begun
       \/ /\ c \in begun \cap cancelled
          /\ result' = [result EXCEPT ![c] = "cancelled"]
          /\ UNCHANGED begun
       \/ /\ broken
          /\ result' = [result EXCEPT ![c] = "failed"]
          /\ begun' = begun \cup {c}
    /\ UNCHANGED <<reached, cancelled, broken>>

Next ==
    \/ \E c \in Calls : Begin(c) \/ Reach(c) \/ Cancel(c) \/ Return(c)
    \/ Break

Spec == Init /\ [][Next]_vars
=============================================================================
