-------------------------- MODULE MCDeviceGateway ---------------------------
(* Model-checking instance of DeviceGateway. *)
EXTENDS DeviceGateway

CONSTANTS port, led

MCDevices == <<port, led>>
=============================================================================
