--------------------------- MODULE MCSensorTable ---------------------------
(* The model values that the SensorTable_*.cfg files build their instances *)
(* from.                                                                   *)
EXTENDS SensorTable

CONSTANTS p1, p2,           \* two sensors of one folder
          zero, warm,       \* two readings
          int64             \* a payload of another type
=============================================================================
