---------------------------- MODULE MCSerialLink ----------------------------
(* Frames with headers of two bytes and a checksum of one.  The payload of  *)
(* an IMU frame is shorter than the longest one, so that one clean frame is *)
(* not enough to get over what a damaged frame announced.                   *)
EXTENDS SerialLink

MCKinds == {[imu |-> TRUE, len |-> ImuLength], [imu |-> FALSE, len |-> MaxLength]}
=============================================================================
