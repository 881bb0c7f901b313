----------------------------- MODULE MCNvmlClient -----------------------------
EXTENDS NvmlClient, TLC

CONSTANTS g1, l1, l2, p1, p2

MCDeviceIds == <<g1, g1>>

ClientSymmetry == Permutations({p1, p2})
=============================================================================
