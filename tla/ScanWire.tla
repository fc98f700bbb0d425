------------------------------- MODULE ScanWire -------------------------------
(***************************************************************************)
(* protocol.rs and the pure parts of scan.rs: what a capability reply      *)
(* admits, which window command a request becomes and what the scanner     *)
(* reads out of it, and how the bytes of a band become pixels.             *)
(***************************************************************************)
EXTENDS Naturals, Sequences

\* A parsed capability reply names what the scanner reports; the frame around it was
\* checked for head, length, status and message, its text for printable bytes.
Parses(reply) ==
    /\ reply.framed /\ reply.good /\ reply.printable
    /\ reply.resolutions # {} /\ reply.modes # {}
    /\ reply.width > 0 /\ reply.length > 0 /\ reply.flatbed > 0

BedHeight(caps) == IF caps.flatbed < caps.length THEN caps.flatbed ELSE caps.length

\* The whole flatbed, as the capture tools ask for it.
FullBed(caps, mode, dpi) ==
    [dpi |-> dpi, mode |-> mode, x |-> 0, y |-> 0, width |-> caps.width, height |-> BedHeight(caps)]

Encodable == {75, 100, 150, 200, 300, 600}

\* ScanRequest::command: the format is reported by the scanner, the region lies on its bed
\* and the offsets can be encoded.
Supported(request, caps) ==
    /\ request.dpi \in Encodable \cap caps.resolutions
    /\ request.mode \in caps.modes /\ caps.uncompressed
    /\ request.mode = "Rgb" => caps.order <= 1

Within(start, size, limit) == size > 0 /\ start + size <= limit

Region(request, caps) ==
    /\ Within(request.x, request.width, caps.width)
    /\ Within(request.y, request.height, BedHeight(caps))
    /\ \A o \in {request.x, request.y} : o % 12 = 0 /\ o \div 1200 <= 255

\* Seeded fault: the fraction is sent in units of the bed, in one byte.
BugOffset(units) == <<units \div 1200, (units % 1200) % 256>>

\* An offset travels as inches and hundredths of an inch, a byte each.
Offset(units) == <<units \div 1200, (units % 1200) \div 12>>

Window(request) == [x |-> Offset(request.x), y |-> Offset(request.y),
                    width |-> request.width, height |-> request.height]

\* External: the scanner's reading of the two bytes.
ReadOffset(bytes) == bytes[1] * 1200 + bytes[2] * 12

Channels(mode) == IF mode = "Rgb" THEN 3 ELSE 1

Pixels(band) == band.width * band.rows * Channels(band.mode)

\* BandInfo::decode: where in the raw bytes the i-th pixel byte is found, when each row
\* holds its three colours one after the other.
Source(band, i) ==
    LET row == (i - 1) \div (band.width * 3)  k == (i - 1) % (band.width * 3)
    IN  row * band.width * 3 + (k % 3) * band.width + k \div 3 + 1

\* Seeded fault: the order of the lines is not looked at.
BugDecode(band) == [i \in 1..Pixels(band) |-> band.wire[i]]

Decode(band) ==
    [i \in 1..Pixels(band) |->
        IF band.mode = "Rgb" /\ band.order = 1 THEN band.wire[Source(band, i)] ELSE band.wire[i]]

\* verify_band of the stability tool checks the pixels the other way round: by row,
\* column and channel, into both.
Verified(band, mode, pixels) ==
    /\ band.mode = mode /\ band.width > 0 /\ band.rows > 0
    /\ mode = "Rgb" => band.order <= 1
    /\ Len(pixels) = Pixels(band) /\ Len(band.wire) >= Pixels(band)
    /\ IF mode = "Rgb" /\ band.order = 1
       THEN \A row \in 0..(band.rows - 1), x \in 0..(band.width - 1), c \in 0..2 :
               pixels[(row * band.width + x) * 3 + c + 1]
                  = band.wire[row * band.width * 3 + c * band.width + x + 1]
       ELSE \A i \in 1..Pixels(band) : pixels[i] = band.wire[i]
===============================================================================
