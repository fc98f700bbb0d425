---- MODULE MCBmpEncoder ----
\* Rows that need padding and rows that need none, and limits within reach of each other.
EXTENDS BmpEncoder

MCWidths == {0, 1, 2, 4}
MCRowCounts == 0..2
MCDpis == {0, 75, 600}
====
