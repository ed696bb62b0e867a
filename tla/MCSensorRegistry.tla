---------------------------- MODULE MCSensorRegistry ----------------------------
\* Constants for the runs of SensorRegistry.
EXTENDS SensorRegistry, TLC

DiskSymmetry == Permutations(Disks)

\* One private provider stands for all six.
SomeSensors == {"ZEN", "CPU", "DIMM", "GPU", "SMART", "DISKIO", "NET"}
================================================================================
