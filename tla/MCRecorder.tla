----------------------------- MODULE MCRecorder -----------------------------
EXTENDS TrajectoryRecorder
MCTrajectories == <<"traj-000", "traj-001">>
=============================================================================
