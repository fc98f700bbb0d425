----------------------------- MODULE MCStiEntries -----------------------------
\* StiEntries for TLC: two service threads, each free to be in any entry point.  One handle
\* identity: the slot asks the opener for a second one only if it has lost the first.
EXTENDS StiEntries
===============================================================================
