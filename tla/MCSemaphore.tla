---------------------------- MODULE MCSemaphore ----------------------------
\* Semaphore for TLC.  Its constants get their values in the configuration; there
\* is no symmetry, because the run checks a liveness property.
EXTENDS Semaphore
=============================================================================
