------------------------------- MODULE MCSensors -------------------------------
(* Instance of Sensors: replies of four bytes (a field each), three        *)
(* requests, two late replies or lost bytes.  An esp_id that fits loads    *)
(* with ESP_OK like one that does not, so one of the two is enough.        *)
EXTENDS Sensors
=============================================================================
