----------------------------- MODULE MCSessionSlot -----------------------------
\* SessionSlot for TLC.  Three callers meet every pair of overlapping calls with a
\* third one in between; a second handle identity is what a double open would show.
EXTENDS SessionSlot
===============================================================================
