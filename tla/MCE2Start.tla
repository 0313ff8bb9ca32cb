------------------------------ MODULE MCE2Start ------------------------------
\* Instance of E2TermStart: two listeners, two writes of the configuration file.
EXTENDS E2TermStart

CONSTANTS l1, l2
=============================================================================
