---------------------------- MODULE MCPortalPoll ----------------------------
(* Instances of PortalPoll for TLC.                                        *)
EXTENDS PortalPoll

CONSTANTS w1, w2
=============================================================================
