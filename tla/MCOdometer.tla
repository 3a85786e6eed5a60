------------------------------- MODULE MCOdometer -------------------------------
(* The instances of Odometer that TLC checks. *)
EXTENDS Odometer, TLC

FirstBlock == {1}
AllImages == Readings \cup Calibrations
FactoryImages == [b \in NvBlocks |->
    IF b = Odo THEN [total |-> 0, count |-> 0] ELSE [factor |-> 1]]


(* Nothing reads the store's last answer once it has been used. *)
NoReplyView == <<up, stable, request, nvmVars, odoVars>>
=============================================================================
