----------------------------- MODULE MCCampaign -----------------------------
EXTENDS ResultsPipeline
MCTrajectories == <<"traj-000", "traj-001">>
=============================================================================
