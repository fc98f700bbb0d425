------------------------------ MODULE MCStiDevice ------------------------------
\* StiDevice for TLC: two service threads, each free to be in any entry point, and a
\* second handle identity that a double open would show.
EXTENDS StiDevice
===============================================================================
