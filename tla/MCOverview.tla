------------------------------- MODULE MCOverview -------------------------------
EXTENDS Overview
CONSTANTS t1, t2
=============================================================================
