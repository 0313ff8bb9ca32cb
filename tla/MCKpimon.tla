------------------------------ MODULE MCKpimon ------------------------------
\* Instances of KpimonSubscription: two RANs, one of them listed twice or not.
EXTENDS KpimonSubscription

CONSTANTS r1, r2

TwoRans == <<r1, r2>>
RepeatedRan == <<r1, r2, r1>>
=============================================================================
