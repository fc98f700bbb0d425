----------------------------- MODULE MCUsbPrograms -----------------------------
\* UsbPrograms for TLC: two scanners and the printer half; interfaces that are as they
\* must be and interfaces that break one rule each; replies and bands of every kind.
EXTENDS UsbPrograms, TLC

CONSTANTS scanner, second, printer

MCKindOf == scanner :> "Scanner" @@ second :> "Scanner" @@ printer :> "Printer"

MCStatesOf ==
    scanner :> {"absent", "bare", "stopped", "ready", "foreign"} @@ second :> {"absent", "bare", "ready"}
    @@ printer :> {"absent", "ready"}

In(bulk, number, packet) == [bulk |-> bulk, dir |-> "in", number |-> number, packet |-> packet]
Out(number, packet) == [bulk |-> TRUE, dir |-> "out", number |-> number, packet |-> packet]

MCPipeLists ==
    {<<In(TRUE, 1, 512), Out(2, 512)>>,
     <<In(TRUE, 1, 512), Out(2, 512), In(FALSE, 3, 8)>>,
     <<In(TRUE, 1, 512), Out(2, 512), In(TRUE, 3, 512)>>,
     <<In(TRUE, 1, 512), Out(2, 512), In(FALSE, 1, 8)>>,
     <<In(TRUE, 0, 512), Out(2, 512)>>,
     <<In(TRUE, 1, 512)>>,
     <<In(TRUE, 1, 24), Out(2, 512)>>}

Reply == [framed |-> TRUE, good |-> TRUE, printable |-> TRUE, resolutions |-> {300, 1200}, modes |-> {"Gray", "Rgb"},
          width |-> 2400, length |-> 3600, flatbed |-> 2400, uncompressed |-> TRUE, order |-> 1]

MCReplies == {Reply, [Reply EXCEPT !.good = FALSE], [Reply EXCEPT !.resolutions = {1200}]}

MCBands ==
    {[mode |-> "Gray", order |-> 0, width |-> 2, rows |-> 2, wire |-> <<1, 2, 3, 4, 0>>],
     [mode |-> "Rgb", order |-> 0, width |-> 1, rows |-> 2, wire |-> <<1, 2, 3, 4, 5, 6>>],
     [mode |-> "Rgb", order |-> 1, width |-> 2, rows |-> 1, wire |-> <<1, 2, 3, 4, 5, 6, 0>>],
     [mode |-> "Rgb", order |-> 1, width |-> 1, rows |-> 2, wire |-> <<1, 2, 3, 4, 5, 6>>],
     [mode |-> "Rgb", order |-> 2, width |-> 1, rows |-> 1, wire |-> <<1, 2, 3>>]}
===============================================================================
