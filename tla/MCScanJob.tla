------------------------------- MODULE MCScanJob -------------------------------
\* ScanJob for TLC.  Bands of one and two transfers (so that a band can be cut in the
\* middle), two widths (so that a job can change width), and limits low enough for
\* both the band count and the size limit to be met.
EXTENDS ScanJob

MCBandSizes == {1, 2}
MCWidths == {1, 2}
===============================================================================
