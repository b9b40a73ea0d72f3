--------------------------- MODULE MCDashboardLogin ---------------------------
\* Model values and symmetry for DashboardLogin.
EXTENDS DashboardLogin, TLC

Symmetry == Permutations(Codes)
================================================================================
