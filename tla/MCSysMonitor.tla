---------------------------- MODULE MCSysMonitor ----------------------------
(* Counters that wrap after a few jiffies.                                  *)
EXTENDS SysMonitor

MCIdle == {"Idle", "IOWait"}

=============================================================================
