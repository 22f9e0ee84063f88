------------------------------ MODULE MCDiskCache ------------------------------
(* Instances of DiskCache for TLC.                                            *)
EXTENDS DiskCache

CONSTANTS p1, p2, f1, f2, f3
=============================================================================
