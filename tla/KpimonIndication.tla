-------------------------- MODULE KpimonIndication --------------------------
(***************************************************************************)
(* How the control loop of the KPI monitor handles a RIC indication        *)
(* (handleIndication of ric-scp-kpimon/control/control.go): it decodes the *)
(* header and the message, writes a point to InfluxDB for every report of  *)
(* every performance container, and a summary for each container that has  *)
(* a report on the cell, or the slice, the header names.                   *)
(*                                                                         *)
(* The content of a message is chosen as the handler comes to it: decoding *)
(* has no effect of its own.  The decoder never fills in a RAN container,  *)
(* so that the part of the handler for them is never entered, and lets no  *)
(* unknown kind of container through.  Nor does it hand on the usage a DU  *)
(* reports for the QoS classes of a cell: it fills in a copy of each       *)
(* element of ServedPlmnPerCells, so that the loops over them find none.   *)
(* Of a point in the UE table only the fact that it is written is kept.    *)
(***************************************************************************)
EXTENDS KpimonE2sm

CONSTANTS
    NRCGIs,          \* cells: [PlmnID, NRCellID, BitsUnused]
    PLMNs,           \* PLMN identities
    SliceIDs,        \* slices: [SST, SD]
    FiveQIs,         \* QoS classes, of 5G or of LTE
    PRBs,            \* numbers of resource blocks
    Octets,          \* contents of an INTEGER: PDCP byte counts
    PMCapacity,      \* length of the array PMContainers
    MaxContainers,   \* the length the encoding allows (bound)
    MaxReports       \* reports in a container (bound)

\* The identities in use are told apart by what the parsers make of them.
ASSUME IdentitiesDiffer ==
    /\ \A g, h \in NRCGIs : ParseNRCGI(g) = ParseNRCGI(h) => g = h
    /\ \A p, q \in PLMNs : ParsePLMNIdentity(p) = ParsePLMNIdentity(q) => p = q
    /\ \A s, t \in SliceIDs : ParseSliceID(s) = ParseSliceID(t) => s = t

\* ASN.1 fixes the sizes of identities, so that those which are decoded parse; a
\* slice that parses to the -1 of an absent one is left out, and so are byte counts
\* of more octets than an int64 holds.
ASSUME ParsersSucceed ==
    /\ \A g \in NRCGIs : ParseNRCGI(g) \notin {Error, << >>}
    /\ \A p \in PLMNs : ParsePLMNIdentity(p) \notin {Error, << >>}
    /\ \A s \in SliceIDs : ParseSliceID(s) \notin {Error, -1}
    /\ \A b \in Octets : ParseInteger(b) \in Nat

ASSUME IndicationConstants ==
    /\ FiveQIs \subseteq Nat /\ PRBs \subseteq Nat
    /\ NULL \notin Nat
    /\ NULL \notin NRCGIs /\ NULL \notin PLMNs /\ NULL \notin SliceIDs /\ NULL \notin Octets
    /\ PMCapacity \in Nat /\ MaxContainers \in Nat /\ MaxReports \in Nat

VARIABLES
    pc,        \* where handleIndication is; "recv": the loop waits for a message
    hdr,       \* the identities in the header, as they were sent
    hdrIDs,    \* cellIDHdr, plmnIDHdr, sliceIDHdr and fiveQIHdr
    left,      \* containers still to be handled
    flag,      \* flag: has a report matched the header?
    availPRB,  \* availPRBDL and availPRBUL
    pdcp,      \* dlPDCPBytes and ulPDCPBytes
    seen,      \* history: the reports of this container
    written,   \* history: the points of this container the database has taken
    missed     \* history: has it failed to take one of them?

context == <<hdr, hdrIDs>>
vars == <<pc, context, left, flag, availPRB, pdcp, seen, written, missed>>

Opt(S) == S \cup {NULL}
Headers == [NRCGI : Opt(NRCGIs), PlmnID : Opt(PLMNs), SliceID : Opt(SliceIDs),
            FiveQI : Opt(FiveQIs)]
NoHeader == [NRCGI |-> NULL, PlmnID |-> NULL, SliceID |-> NULL, FiveQI |-> NULL]
CellReports == [NRCGI : NRCGIs, DL : Opt(PRBs), UL : Opt(PRBs)]
FqiReports == [PlmnID : PLMNs, SliceID : SliceIDs, FiveQI : FiveQIs,
               DL : Opt(Octets), UL : Opt(Octets)]
QciReports == [PlmnID : PLMNs, QCI : FiveQIs]

Pair(dl, ul) == [DL |-> dl, UL |-> ul]
Unset == Pair(-1, -1)

\* The header's identities, or the value that stands for an absent one.
ParseHeader(h) ==
    [cell |-> IF h.NRCGI = NULL THEN << >> ELSE ParseNRCGI(h.NRCGI),
     plmn |-> IF h.PlmnID = NULL THEN << >> ELSE ParsePLMNIdentity(h.PlmnID),
     slice |-> IF h.SliceID = NULL THEN -1 ELSE ParseSliceID(h.SliceID),
     fiveQI |-> OrMinusOne(h.FiveQI)]

Init ==
    /\ pc = "recv"
    /\ hdr = NoHeader /\ hdrIDs = ParseHeader(NoHeader)
    /\ left = 0 /\ flag = FALSE /\ availPRB = Unset /\ pdcp = Unset
    /\ seen = << >> /\ written = << >> /\ missed = FALSE

-----------------------------------------------------------------------------
\* writeUeMetrics_db and writeCellMetrics_db

\* var cellMetrics CellMetricsEntry: what is not set is empty or zero.
CellMetricsEntry(cell, total, avail, bytes) ==
    [CellID |-> cell, TotalDL |-> total.DL, TotalUL |-> total.UL,
     AvailPRBDL |-> avail.DL, AvailPRBUL |-> avail.UL,
     PDCPBytesDL |-> bytes.DL, PDCPBytesUL |-> bytes.UL]
Zero == Pair(0, 0)

UePoint == [table |-> "ue"]
CellPoint(m) == [table |-> "cell", row |-> m]
SummaryPoint(m) == [table |-> "summary", row |-> m]

\* Of the points of a report, one or two, the database may take any.
Kept(points) == {<< >>, points} \cup {<<points[i]>> : i \in DOMAIN points}

\* A write that fails goes unnoticed: nobody looks at the error of WritePoint.
Write(points) == \E kept \in Kept(points) :
    /\ written' = written \o kept
    /\ missed' = (missed \/ kept # points)

-----------------------------------------------------------------------------
\* handleIndication, up to the loop over the containers

\* The E2AP message is decoded, or cannot be and is given up.
DecodeE2AP ==
    /\ pc = "recv"
    /\ pc' \in {"header", "recv"}
    /\ UNCHANGED <<context, left, flag, availPRB, pdcp, seen, written, missed>>

\* Back to the control loop, all variables of the handler given up.
Return ==
    /\ pc' = "recv"
    /\ hdr' = NoHeader /\ hdrIDs' = ParseHeader(NoHeader)
    /\ left' = 0 /\ flag' = FALSE /\ availPRB' = Unset /\ pdcp' = Unset
    /\ seen' = << >> /\ written' = << >> /\ missed' = FALSE

\* A panic, or the abort of the allocator, takes the process down.
Crash == pc' = "crashed" /\ UNCHANGED <<context, left, flag, availPRB, pdcp, seen, written, missed>>

\* A message without a payload: &payload[0] of an empty slice.
EmptyPayload == pc = "recv" /\ Crash

\* The E2AP message has no such element: &buffer[0] of an empty slice.
ElementMissing == pc \in {"header", "message"} /\ Crash

\* The element does not decode.  The wrapper frees the structure twice, which the
\* allocator notices or not; then the error makes the handler return.
ElementGarbled == pc \in {"header", "message"} /\ (Crash \/ Return)

\* Another format of the header or the message, or an unknown container in it.
ElementUnknown == pc \in {"header", "message"} /\ Return

\* The header has a node identity: the decoder stores a pointer to it, and the
\* handler's type assertion asks for the structure itself.
HeaderWithNodeID == pc = "header" /\ Crash

HandleHeader(h) ==
    LET ids == ParseHeader(h) IN
    /\ pc = "header"
    /\ IF Error \in {ids.cell, ids.plmn, ids.slice} THEN Return
       ELSE /\ hdr' = h /\ hdrIDs' = ids
            /\ pc' = "message"
            /\ UNCHANGED <<left, flag, availPRB, pdcp, seen, written, missed>>

\* Mutant: the length of the array is not respected.
HandleMessage_unbounded(n) ==
    /\ pc = "message"
    /\ left' = n /\ pc' = "loop"
    /\ UNCHANGED <<context, flag, availPRB, pdcp, seen, written, missed>>

\* The containers are decoded into an array of fixed length.
HandleMessage(n) ==
    /\ pc = "message"
    /\ IF n > PMCapacity THEN Crash
       ELSE /\ left' = n /\ pc' = "loop"
            /\ UNCHANGED <<context, flag, availPRB, pdcp, seen, written, missed>>

-----------------------------------------------------------------------------
\* The loop over the containers

\* Mutant: only the flag is reset.
ResetContainer_keeps ==
    /\ flag' = FALSE /\ UNCHANGED <<availPRB, pdcp>>
    /\ seen' = << >>

ResetContainer ==
    /\ flag' = FALSE /\ availPRB' = Unset /\ pdcp' = Unset
    /\ seen' = << >>

\* A container without a performance container, one of a DU or one of a CU-UP.
StartContainer(next) ==
    /\ pc = "loop" /\ left > 0
    /\ ResetContainer /\ written' = << >>
    /\ pc' = next
    /\ missed' = FALSE
    /\ UNCHANGED <<context, left>>

\* A container of a CU-CP holds one number, of active UEs.
CucpContainer ==
    /\ pc = "loop" /\ left > 0
    /\ ResetContainer
    /\ written' \in Kept(<<UePoint>>)
    /\ missed' = (written' = << >>)
    /\ pc' = "end"
    /\ UNCHANGED <<context, left>>

CellPoints(cell, d) ==
    <<UePoint, CellPoint(CellMetricsEntry(cell, d, Zero, Zero))>>

\* A cell resource report of a DU.  Once a cell has matched the header, flag
\* stays set for the cells that follow.
CellReport(c) ==
    LET d == DecodeCellReport(c)
        cell == ParseNRCGI(d.NRCGI)
    IN
    /\ pc = "odu" /\ Len(seen) < MaxReports
    /\ seen' = Append(seen, c)
    /\ IF cell = Error THEN UNCHANGED <<flag, availPRB, written, missed>>
       ELSE /\ Write(CellPoints(cell, d))
            /\ flag' = (flag \/ cell = hdrIDs.cell)
            /\ availPRB' = IF flag' THEN Pair(d.DL, d.UL) ELSE availPRB
    /\ UNCHANGED <<pc, context, left, pdcp>>

\* A byte count replaces the one kept so far if it is there and flag is set.
NewCount(set, old, buffer) == IF set /\ buffer # NULL THEN ParseInteger(buffer) ELSE old

\* A report of a CU-UP on a 5QI of a slice of a PLMN; flag stays set here too.
FqiReport(r) ==
    LET plmn == ParsePLMNIdentity(r.PlmnID)
        slice == ParseSliceID(r.SliceID)
    IN
    /\ pc = "cuup" /\ Len(seen) < MaxReports
    /\ seen' = Append(seen, r)
    /\ IF Error \in {plmn, slice} THEN UNCHANGED <<flag, pdcp, written, missed>>
       ELSE /\ Write(<<UePoint>>)
            /\ flag' = (flag \/ (/\ plmn = hdrIDs.plmn /\ slice = hdrIDs.slice
                                 /\ r.FiveQI = hdrIDs.fiveQI))
            /\ pdcp' = Pair(NewCount(flag', pdcp.DL, r.DL), NewCount(flag', pdcp.UL, r.UL))
    /\ UNCHANGED <<pc, context, left, availPRB>>

\* A report of a CU-UP on a QCI of a PLMN.
QciReport(r) ==
    /\ pc = "cuup" /\ Len(seen) < MaxReports
    /\ seen' = Append(seen, r)
    /\ IF ParsePLMNIdentity(r.PlmnID) = Error THEN UNCHANGED <<written, missed>>
       ELSE Write(<<UePoint>>)
    /\ UNCHANGED <<pc, context, left, flag, availPRB, pdcp>>

\* The lists of reports are not empty.
EndOfReports ==
    /\ pc \in {"odu", "cuup"} /\ seen # << >>
    /\ pc' = "end"
    /\ UNCHANGED <<context, left, flag, availPRB, pdcp, seen, written, missed>>

\* -1 means that there is nothing to report; the entry starts with zeroes.
OrZero(n) == IF n = -1 THEN 0 ELSE n
OrZeroes(p) == Pair(OrZero(p.DL), OrZero(p.UL))

\* The summary of a container with a match; no timestamp is ever set.
SummaryOf(set, prb, bytes) ==
    IF set
    THEN <<SummaryPoint(CellMetricsEntry(<< >>, Zero, OrZeroes(prb), OrZeroes(bytes)))>>
    ELSE << >>

EndContainer ==
    /\ pc = "end"
    /\ Write(SummaryOf(flag, availPRB, pdcp))
    /\ left' = left - 1
    /\ pc' = "loop"
    /\ UNCHANGED <<context, flag, availPRB, pdcp, seen>>

AllHandled == pc = "loop" /\ left = 0 /\ Return

\* The container of the xApp is started again (external).
Restart == pc = "crashed" /\ Return

-----------------------------------------------------------------------------
Decode ==
    \/ ElementMissing \/ ElementGarbled \/ ElementUnknown \/ HeaderWithNodeID
    \/ pc = "header" /\ \E h \in Headers : HandleHeader(h)
    \/ \E n \in 1 .. MaxContainers : HandleMessage(n)
Containers ==
    \/ \E next \in {"odu", "cuup", "end"} : StartContainer(next)
    \/ CucpContainer
    \/ pc = "odu" /\ \E c \in CellReports : CellReport(c)
    \/ pc = "cuup" /\ \E r \in FqiReports : FqiReport(r)
    \/ pc = "cuup" /\ \E r \in QciReports : QciReport(r)
    \/ EndOfReports \/ EndContainer \/ AllHandled

Next == DecodeE2AP \/ EmptyPayload \/ Decode \/ Containers \/ Restart

Spec == Init /\ [][Next]_vars

-----------------------------------------------------------------------------
\* Properties

Pairs == [DL : Int, UL : Int]
Reports == CellReports \cup FqiReports \cup QciReports
Rows == [CellID : {<< >>} \cup {ParseNRCGI(g) : g \in NRCGIs}, TotalDL : Int, TotalUL : Int,
         AvailPRBDL : Int, AvailPRBUL : Int, PDCPBytesDL : Int, PDCPBytesUL : Int]
Points == {UePoint} \cup [table : {"cell", "summary"}, row : Rows]

ControlOK ==
    /\ pc \in {"recv", "header", "message", "loop", "odu", "cuup", "end", "crashed"}
    /\ left \in 0 .. PMCapacity
    /\ pc \in {"odu", "cuup", "end"} => left > 0
HeaderOK == hdr \in Headers /\ hdrIDs = ParseHeader(hdr)
ValuesOK == flag \in BOOLEAN /\ availPRB \in Pairs /\ pdcp \in Pairs
ReportsOK == seen \in Seq(Reports) /\ written \in Seq(Points) /\ missed \in BOOLEAN
TypeOK == ControlOK /\ HeaderOK /\ ValuesOK /\ ReportsOK

\* Is the k-th report of the container about what the header names?
IsCell(r) == "NRCGI" \in DOMAIN r
IsFqi(r) == "FiveQI" \in DOMAIN r
Matches(k) ==
    LET r == seen[k] IN
    \/ IsCell(r) /\ r.NRCGI = hdr.NRCGI
    \/ IsFqi(r) /\ r.PlmnID = hdr.PlmnID /\ r.SliceID = hdr.SliceID /\ r.FiveQI = hdr.FiveQI
Reported(k) == \E j \in 1 .. k : Matches(j)
Max0(S) == IF S = {} THEN 0 ELSE CHOOSE k \in S : \A j \in S : j <= k

\* Where the summary of this container takes its values from: the last report
\* that has one, from the first match on.
LastCell == Max0({k \in DOMAIN seen : IsCell(seen[k]) /\ Reported(k)})
LastDL == Max0({k \in DOMAIN seen : IsFqi(seen[k]) /\ seen[k].DL # NULL /\ Reported(k)})
LastUL == Max0({k \in DOMAIN seen : IsFqi(seen[k]) /\ seen[k].UL # NULL /\ Reported(k)})

Summaries == {k \in DOMAIN written : written[k].table = "summary"}

\* A summary rests on its own container only, whatever writes fail: there is one
\* only if a report of this container is about the cell or the slice of the header,
\* compared as they were sent, and it is there if the database took every point.
\* It holds values of this container and this message, never what an earlier
\* container left behind, and never the -1 of an absent value.
SummaryOfContainer ==
    pc = "loop" =>
        /\ Summaries \subseteq IF Reported(Len(seen)) THEN {Len(written)} ELSE {}
        /\ Reported(Len(seen)) /\ ~missed => Summaries # {}
        /\ \A k \in Summaries :
            LET row == written[k].row IN
            /\ row.AvailPRBDL = IF LastCell = 0 \/ seen[LastCell].DL = NULL
                                THEN 0 ELSE seen[LastCell].DL
            /\ row.AvailPRBUL = IF LastCell = 0 \/ seen[LastCell].UL = NULL
                                THEN 0 ELSE seen[LastCell].UL
            /\ row.PDCPBytesDL = IF LastDL = 0 THEN 0 ELSE ParseInteger(seen[LastDL].DL)
            /\ row.PDCPBytesUL = IF LastUL = 0 THEN 0 ELSE ParseInteger(seen[LastUL].UL)
=============================================================================
