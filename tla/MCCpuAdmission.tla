--------------------------- MODULE MCCpuAdmission ---------------------------
EXTENDS CpuAdmission

CONSTANTS s1, s2, c1, c2
=============================================================================
