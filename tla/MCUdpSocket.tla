---------------------------- MODULE MCUdpSocket ----------------------------
(***************************************************************************)
(* Instances of UdpSocket.                                                  *)
(***************************************************************************)
EXTENDS UdpSocket
=============================================================================
