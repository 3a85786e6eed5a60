-------------------------------- MODULE MCDevices --------------------------------
(* Values for TLC: one motor controller, two battery slots, three places   *)
(* about the equator, three of the events.                                 *)
EXTENDS Devices

Frame(id, remote, short) == [id |-> id, remote |-> remote, short |-> short]
MCTraffic == {Frame(CAN_ID_MCU_DRIVE_STATE, FALSE, FALSE), Frame(CAN_ID_MCU_CURRENT_VOLTAGE, FALSE, FALSE),
              Frame(CAN_ID_MCU_CURRENT_VOLTAGE, TRUE, FALSE), Frame(CAN_ID_MCU_CURRENT_VOLTAGE, FALSE, TRUE),
              Frame([ext |-> TRUE, raw |-> 284692635], FALSE, FALSE)}
MCFittings == {<<"a", "b">>, <<"a", "none">>, <<"none", "none">>}
MCPlaces == {0 - 1, 0, 1}
MCPartSize == [start |-> 1, text |-> 3, sum |-> 1]
MCEventList == <<"VBATT_LOW", "VBATT_SENSE_FAULT", "NO_BACKHAUL">>
MCThreshold == [e \in Range(MCEventList) |-> IF e = "NO_BACKHAUL" THEN 2 ELSE 1]
MCCounts == {0 - 1, 2300, 3000}
=============================================================================
