------------------------------ MODULE MCDmludp ------------------------------
EXTENDS Dmludp

(* The client sends a payload of two windows, the server a notification.   *)
MCOps == [client |-> <<3>>, server |-> <<Notification>>]
=============================================================================
