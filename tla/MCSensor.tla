------------------------------- MODULE MCSensor -------------------------------
(* Frames of one word for TLC.  The last byte of the frame of <<0, 175>>   *)
(* is 0x42, and the data of <<66, 77>> are the two start bytes.            *)
EXTENDS SensorReader

MCReadings == <<<<0, 1>>, <<0, 2>>, <<0, 175>>, <<66, 77>>, <<0, 3>>>>
=============================================================================
