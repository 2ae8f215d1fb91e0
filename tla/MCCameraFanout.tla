-------------------------- MODULE MCCameraFanout --------------------------
(***************************************************************************)
(* Model values for the checks of CameraFanout.                            *)
(***************************************************************************)
EXTENDS CameraFanout, TLC

AnyViewer == Permutations(Viewers)

=============================================================================
