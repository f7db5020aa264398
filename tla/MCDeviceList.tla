---------------------------- MODULE MCDeviceList ----------------------------
(* Small instances of DeviceList for TLC: names that differ, and namesakes. *)
EXTENDS DeviceList
CONSTANTS d1, d2
MCNamings == {[d \in Devices |-> IF d = d1 THEN 1 ELSE 2], [d \in Devices |-> 1]}
=============================================================================
