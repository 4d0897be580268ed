--------------------------- MODULE ServiceThreads ---------------------------
(***************************************************************************)
(* Two services of a station whose threads and timers cross at will:       *)
(* LocationService, which this module extends, and CamTransmission with    *)
(* start and stop at any time.  Each keeps its own variables.              *)
(***************************************************************************)
EXTENDS LocationService

CONSTANTS
  CamTimer, App, Never, CheckPeriod, GenMin, GenMax, GenDcc, LfPeriod, NGenCam,
  Failures \* CamTransmission

VARIABLES
  active, ref, camTimer, left, camPc, fix, camAge, lfAge, counted, genCam, highCams, cam,
  txAge, txLfAge, troubled, wait

camVars == <<active, ref, camTimer, left, camPc, fix, camAge, lfAge, counted, genCam,
             highCams, cam, txAge, txLfAge, troubled, wait>>

Race == INSTANCE CamTransmission WITH
  Timer <- CamTimer, Calm <- FALSE, timer <- camTimer, pc <- camPc

ASSUME RaceAssumption ==
  /\ Race!TimerAssumption /\ Race!NeverAssumption
  /\ Race!PeriodAssumption /\ Race!SwitchAssumption

-----------------------------------------------------------------------------
(* ServiceAlive of CamTransmission (_check_cam_conditions,                 *)
(* _schedule_next_check).                                                  *)
ServiceAlive == Race!ServiceAlive
=============================================================================
