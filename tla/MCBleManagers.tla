---------------------------- MODULE MCBleManagers ----------------------------
(* The BLE managers of both platforms: a phone runs the one or the other.    *)
EXTENDS AndroidBle, IosBle, TLC

VARIABLE platform

ManagersInit == Init /\ IosInit /\ platform \in {"android", "ios"}

ManagersNext ==
  /\ \/ platform = "android" /\ Next /\ UNCHANGED iosVars
     \/ platform = "ios" /\ IosNext /\ UNCHANGED vars
  /\ UNCHANGED platform

ManagersSpec == ManagersInit /\ [][ManagersNext]_<<vars, iosVars, platform>>
=============================================================================
