------------------------------ MODULE MCRobotSim ------------------------------
(***************************************************************************)
(* The instance of RobotSim that TLC checks.                               *)
(***************************************************************************)
EXTENDS RobotSim

\* one sensor has two cycles, so that an old update meets a newer one
MCUpdates == [s \in Sensors |-> CASE s = "imu" -> 2 [] s = "motor2" -> 1
                                  [] OTHER -> 0]

=============================================================================
