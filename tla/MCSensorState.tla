----------------------------- MODULE MCSensorState -----------------------------
(***************************************************************************)
(* TLC instance of SensorState: one device, the store's window as long as  *)
(* the sensor's delay (30 s and 30 s in the code), the windows of the      *)
(* availability longer than both.                                          *)
(***************************************************************************)
EXTENDS SensorState

MCDevice == {"d1"}
MCField == {"flag", "online", "cloud_online", "cloud_online_time"}
MCValue == {0, 1} \cup 0..MaxTime
MCKind == {"sensor", "lock"}
MCChannel == {SSL, LAN}
MCResetDelay == [k \in MCKind |-> IF k = "lock" THEN 1 ELSE 2]

=============================================================================
