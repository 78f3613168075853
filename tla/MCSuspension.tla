---------------------------- MODULE MCSuspension ----------------------------
(* A finite instance of SuspensionController.                              *)
EXTENDS SuspensionController, TLC

CONSTANTS r1, r2

MCRuns == {r1, r2}
MCRemote == {r2}
=============================================================================
