-------------------------- MODULE MCCPUUsageWorm --------------------------
EXTENDS CPUUsageWorm, TLC
=============================================================================
