---------------------------- MODULE MCIpcBridge ----------------------------
(* The instance of IpcBridge that the configurations give values to.         *)
EXTENDS IpcBridge, TLC
=============================================================================
