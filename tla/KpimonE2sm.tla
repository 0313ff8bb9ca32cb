----------------------------- MODULE KpimonE2sm -----------------------------
(***************************************************************************)
(* What the KPI monitor reads from an E2SM-KPM indication: the identities  *)
(* parsed by ric-scp-kpimon/control/e2sm.go and the parts of a performance *)
(* container that its decoder hands on.  Octets are numbers, a string of   *)
(* decimal digits is a sequence of digits.                                 *)
(***************************************************************************)
EXTENDS Integers, Sequences

CONSTANTS
    NULL,   \* a nil pointer: an optional element that is absent
    Error   \* the result of a parser that fails

High(octet) == octet \div 16
Low(octet) == octet % 16

\* strconv.Itoa of an octet.
Itoa(n) == IF n < 10 THEN <<n>>
           ELSE IF n < 100 THEN <<n \div 10, n % 10>>
           ELSE <<n \div 100, (n \div 10) % 10, n % 10>>

\* The decimal forms of a sequence of octets, one after the other.
Decimals(ns) ==
    LET upto[i \in 0 .. Len(ns)] == IF i = 0 THEN << >> ELSE upto[i - 1] \o Itoa(ns[i])
    IN  upto[Len(ns)]

ParsePLMNIdentity(buffer) ==
    LET mcc == <<High(buffer[1]), Low(buffer[1]), High(buffer[2])>>
        mnc == <<Low(buffer[2]), High(buffer[3]), Low(buffer[3])>>
    IN  IF Len(buffer) # 3 THEN Error
        ELSE IF mnc[1] = 15 THEN Decimals(mcc \o Tail(mnc)) ELSE Decimals(mcc \o mnc)

ParseNRCGI(nRCGI) ==
    LET b == nRCGI.NRCellID
        nibbles == <<High(b[1]), Low(b[1]), High(b[2]), Low(b[2]), High(b[3]),
                     Low(b[3]), High(b[4]), Low(b[4]), b[5] \div 2 ^ nRCGI.BitsUnused>>
    IN  IF Len(nRCGI.PlmnID) # 3 \/ Len(b) # 5 THEN Error
        ELSE ParsePLMNIdentity(nRCGI.PlmnID) \o Decimals(nibbles)

\* value * 256 + octet, over the octets of a buffer; an int64 holds 7 octets.
ParseInteger(buffer) ==
    LET value[i \in 0 .. Len(buffer)] == IF i = 0 THEN 0 ELSE value[i - 1] * 256 + buffer[i]
    IN  value[Len(buffer)]

\* sst << 24 in an int32.
ShiftSST(sst) == (IF sst < 128 THEN sst ELSE sst - 256) * 2 ^ 24

ParseSliceID(sliceID) ==
    IF Len(sliceID.SST) # 1 \/ (sliceID.SD # NULL /\ Len(sliceID.SD) # 3) THEN Error
    ELSE ShiftSST(sliceID.SST[1]) + IF sliceID.SD = NULL THEN 0 ELSE ParseInteger(sliceID.SD)

-----------------------------------------------------------------------------
\* GetIndicationHeader and GetIndicationMessage

\* An optional number that is absent becomes -1.
OrMinusOne(v) == IF v = NULL THEN -1 ELSE v

\* A cell resource report of a DU.
DecodeCellReport(report) ==
    [NRCGI |-> report.NRCGI, DL |-> OrMinusOne(report.DL), UL |-> OrMinusOne(report.UL)]
=============================================================================
