----------------------------- MODULE MCSerialPort -----------------------------
(* A port whose driver takes one of two rates and one of two frame formats.  *)
EXTENDS SerialPort
===============================================================================
