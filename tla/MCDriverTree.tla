----------------------------- MODULE MCDriverTree -----------------------------
\* The minidriver with its item tree for TLC: three threads of the service, two device
\* identities and a client counter that reaches its limit at two.
EXTENDS DriverTree
===============================================================================
