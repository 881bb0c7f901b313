----------------------------- MODULE MCTopScreen -----------------------------
EXTENDS TopScreen

\* A GPU whose sampler answers.
Sampled == {{"sol", "bandwidth"}}

\* Every key of the screen, with one series of the metrics chart to toggle.
EveryKey == {"space", "r", "tab", "b", "d", "size", "colour", "compute"}
=============================================================================
