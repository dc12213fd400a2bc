----------------------------- MODULE MCIoWorker -----------------------------
(* Small instances of IoWorker. *)
EXTENDS IoWorker

MCCommands == Command
=============================================================================
