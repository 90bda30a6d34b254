------------------------------- MODULE PublishCall -------------------------------
(***************************************************************************)
(* What a caller may rely on when it calls                                 *)
(* publishTelemetryBatch(): ESP_OK means that the broker has received the  *)
(* batch, if there was anything to send, and an error means nothing: the   *)
(* broker may have it or not.  The upload task trims its queue on the      *)
(* strength of this promise (main.cpp:94-97).                              *)
(***************************************************************************)
EXTENDS Naturals

VARIABLES
    outcome,   \* "pending" during a call, else the result of the last one
    count,     \* the number of samples of the call
    received   \* has the broker received them?

vars == <<outcome, count, received>>

Init ==
    /\ outcome = "ESP_OK"
    /\ count = 0
    /\ received = FALSE

Call(n) ==
    /\ outcome # "pending"
    /\ outcome' = "pending"
    /\ count' = n
    /\ received' = FALSE

Receive ==
    /\ outcome = "pending"
    /\ count > 0
    /\ received' = TRUE
    /\ UNCHANGED <<outcome, count>>

ReturnOk ==
    /\ outcome = "pending"
    /\ received \/ count = 0
    /\ outcome' = "ESP_OK"
    /\ UNCHANGED <<count, received>>

ReturnError ==
    /\ outcome = "pending"
    /\ outcome' = "ESP_FAIL"
    /\ UNCHANGED <<count, received>>

Next == (\E n \in 0 .. 1 : Call(n)) \/ Receive \/ ReturnOk \/ ReturnError

Spec == Init /\ [][Next]_vars
==================================================================================
