------------------------------ MODULE MCSensors ------------------------------
(***************************************************************************)
(* Small measurements for Sensors: the device does not know the magnetic   *)
(* field at one of the times.                                              *)
(***************************************************************************)
EXTENDS Sensors

DeviceReadings ==
    [t \in 0 .. MaxTime |->
        [acceleration |-> t * t, angularRate |-> 1 - t,
         magneticField |-> IF t = 1 THEN Unknown ELSE t]]
=============================================================================
