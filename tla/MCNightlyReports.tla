-------------------------- MODULE MCNightlyReports --------------------------
EXTENDS NightlyReports
=============================================================================
