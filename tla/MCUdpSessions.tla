---------------------------- MODULE MCUdpSessions ----------------------------
(* The instance is in MCUdpSessions.cfg. *)
EXTENDS UdpSessions
=============================================================================
