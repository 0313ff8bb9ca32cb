----------------------- MODULE KpimonIndicationProofs -----------------------
(***************************************************************************)
(* What KpimonIndication guarantees for all identities, values and numbers *)
(* of containers and reports.                                              *)
(***************************************************************************)
EXTENDS KpimonIndication, TLAPS

(***************************************************************************)
(* Types.                                                                  *)
(***************************************************************************)

\* Numbers, the -1 of an absent one included, are integers, and so are the pairs
\* made of them.
LEMMA NumbersLemma ==
    /\ Unset \in Pairs
    /\ \A v \in Opt(PRBs) \cup Opt(FiveQIs) : OrMinusOne(v) \in Int
    /\ \A v \in Opt(PRBs) : OrMinusOne(v) = -1 <=> v = NULL
    /\ \A set \in BOOLEAN, old \in Int, b \in Opt(Octets) : NewCount(set, old, b) \in Int
    /\ \A n \in Int : OrZero(n) \in Int
<1> USE IndicationConstants, ParsersSucceed
<1>1. Unset \in Pairs
  BY DEF Unset, Pair, Pairs
<1>2. \A v \in Opt(PRBs) \cup Opt(FiveQIs) : OrMinusOne(v) \in Int
  BY DEF Opt, OrMinusOne
<1>3. \A v \in Opt(PRBs) : OrMinusOne(v) = -1 <=> v = NULL
  BY DEF Opt, OrMinusOne
<1>4. \A set \in BOOLEAN, old \in Int, b \in Opt(Octets) : NewCount(set, old, b) \in Int
  BY DEF Opt, NewCount
<1>5. \A n \in Int : OrZero(n) \in Int
  BY DEF OrZero
<1> QED
  BY <1>1, <1>2, <1>3, <1>4, <1>5

\* The points the handler writes.
LEMMA PointsLemma ==
    /\ UePoint \in Points
    /\ \A c \in CellReports :
          CellPoints(ParseNRCGI(c.NRCGI), DecodeCellReport(c)) \in Seq(Points)
    /\ \A set \in BOOLEAN, prb \in Pairs, bytes \in Pairs :
          SummaryOf(set, prb, bytes) \in Seq(Points)
<1>1. UePoint \in Points
  BY DEF Points
<1>2. ASSUME NEW c \in CellReports
      PROVE  CellPoints(ParseNRCGI(c.NRCGI), DecodeCellReport(c)) \in Seq(Points)
  <2> DEFINE d == DecodeCellReport(c)
  <2>1. d.DL \in Int /\ d.UL \in Int /\ c.NRCGI \in NRCGIs
    BY NumbersLemma DEF DecodeCellReport, CellReports
  <2>2. ParseNRCGI(c.NRCGI) \in {<< >>} \cup {ParseNRCGI(g) : g \in NRCGIs}
    BY <2>1
  <2> HIDE DEF d
  <2>3. CellPoint(CellMetricsEntry(ParseNRCGI(c.NRCGI), d, Zero, Zero)) \in Points
    BY <2>1, <2>2 DEF CellPoint, CellMetricsEntry, Zero, Pair, Points, Rows
  <2> QED
    BY <1>1, <2>3 DEF CellPoints, d
<1>3. ASSUME NEW set \in BOOLEAN, NEW prb \in Pairs, NEW bytes \in Pairs
      PROVE  SummaryOf(set, prb, bytes) \in Seq(Points)
  <2>1. OrZeroes(prb) \in Pairs /\ OrZeroes(bytes) \in Pairs
    BY NumbersLemma DEF OrZeroes, Pair, Pairs
  <2>2. SummaryPoint(CellMetricsEntry(<< >>, Zero, OrZeroes(prb), OrZeroes(bytes))) \in Points
    BY <2>1 DEF SummaryPoint, CellMetricsEntry, Zero, Pair, Pairs, Points, Rows
  <2> QED
    BY <2>2 DEF SummaryOf
<1> QED
  BY <1>1, <1>2, <1>3

\* The points that are kept are among those to be written.
LEMMA KeptLemma ==
    ASSUME NEW points \in Seq(Points), NEW kept \in Kept(points)
    PROVE  /\ kept \in Seq(Points)
           /\ \A k \in DOMAIN kept : \E i \in DOMAIN points : kept[k] = points[i]
<1>1. CASE kept = << >>
  BY <1>1
<1>2. CASE kept = points
  BY <1>2
<1>3. ASSUME NEW i \in DOMAIN points, kept = <<points[i]>>
      PROVE  /\ kept \in Seq(Points)
             /\ \A k \in DOMAIN kept : kept[k] = points[i]
  <2>1. points[i] \in Points
    OBVIOUS
  <2> QED
    BY <1>3, <2>1
<1> QED
  BY <1>1, <1>2, <1>3 DEF Kept

\* A write keeps the types of the points, and adds only points to be written.
LEMMA WriteLemma ==
    ASSUME TypeOK, NEW points \in Seq(Points), Write(points)
    PROVE  /\ written' \in Seq(Points) /\ missed' \in BOOLEAN
           /\ \A k \in DOMAIN written' :
                \/ k \in DOMAIN written /\ written'[k] = written[k]
                \/ \E i \in DOMAIN points : written'[k] = points[i]
<1>1. PICK kept \in Kept(points) :
         written' = written \o kept /\ missed' = (missed \/ kept # points)
  BY DEF Write
<1>2. /\ kept \in Seq(Points) /\ written \in Seq(Points) /\ missed \in BOOLEAN
      /\ \A k \in DOMAIN kept : \E i \in DOMAIN points : kept[k] = points[i]
  BY KeptLemma DEF TypeOK, ReportsOK
<1>3. missed' \in BOOLEAN
  BY <1>1
<1>4. written' \in Seq(Points)
  BY <1>1, <1>2
<1>5. \A k \in DOMAIN written' : \/ k \in DOMAIN written /\ written'[k] = written[k]
                                 \/ /\ k - Len(written) \in DOMAIN kept
                                    /\ written'[k] = kept[k - Len(written)]
  BY <1>1, <1>2
<1> QED
  BY <1>2, <1>3, <1>4, <1>5

\* What a step leaves unchanged keeps its type.
LEMMA KeepLemma ==
    ASSUME TypeOK
    PROVE  /\ UNCHANGED <<pc, left>> => ControlOK'
           /\ UNCHANGED context => HeaderOK'
           /\ UNCHANGED <<flag, availPRB, pdcp>> => ValuesOK'
           /\ UNCHANGED <<seen, written, missed>> => ReportsOK'
BY DEF TypeOK, ControlOK, HeaderOK, context, ValuesOK, ReportsOK

\* The handler's variables at its start.
LEMMA FreshLemma ==
    /\ NoHeader \in Headers
    /\ << >> \in Seq(Reports) /\ << >> \in Seq(Points)
    /\ Unset \in Pairs
BY NumbersLemma DEF NoHeader, Headers, Opt

\* Return and Crash keep the types.
LEMMA ExitTypes ==
    ASSUME TypeOK, Crash \/ Return
    PROVE  TypeOK'
<1>1. CASE Crash
  <2>1. ControlOK'
    BY <1>1 DEF Crash, TypeOK, ControlOK
  <2> QED
    BY <1>1, <2>1, KeepLemma DEF Crash, TypeOK
<1>2. CASE Return
  <2>1. ControlOK'
    BY <1>2, IndicationConstants DEF Return, ControlOK
  <2>2. HeaderOK' /\ ValuesOK' /\ ReportsOK'
    BY <1>2, FreshLemma DEF Return, HeaderOK, ValuesOK, ReportsOK
  <2> QED
    BY <2>1, <2>2 DEF TypeOK
<1> QED
  BY <1>1, <1>2

\* A step up to the loop over the containers.
LEMMA DecodeTypes ==
    ASSUME TypeOK, DecodeE2AP \/ EmptyPayload \/ Decode \/ Restart
    PROVE  TypeOK'
<1>1. CASE DecodeE2AP
  <2>1. ControlOK'
    BY <1>1 DEF DecodeE2AP, TypeOK, ControlOK
  <2> QED
    BY <1>1, <2>1, KeepLemma DEF DecodeE2AP, TypeOK
<1>2. ASSUME NEW h \in Headers, HandleHeader(h) PROVE TypeOK'
  <2>1. CASE Return
    BY <2>1, ExitTypes
  <2>2. CASE ~Return
    <3>1. /\ hdr' = h /\ hdrIDs' = ParseHeader(h) /\ pc' = "message"
          /\ UNCHANGED <<left, flag, availPRB, pdcp, seen, written, missed>>
      BY <1>2, <2>2 DEF HandleHeader
    <3>2. ControlOK' /\ HeaderOK'
      BY <3>1 DEF TypeOK, ControlOK, HeaderOK
    <3> QED
      BY <3>1, <3>2, KeepLemma DEF TypeOK
  <2> QED
    BY <2>1, <2>2
<1>3. ASSUME NEW n \in 1 .. MaxContainers, HandleMessage(n) PROVE TypeOK'
  <2>1. CASE n > PMCapacity
    BY <1>3, <2>1, ExitTypes DEF HandleMessage
  <2>2. CASE ~(n > PMCapacity)
    <3>1. ControlOK'
      BY <1>3, <2>2, IndicationConstants DEF HandleMessage, ControlOK
    <3> QED
      BY <1>3, <2>2, <3>1, KeepLemma DEF HandleMessage, TypeOK
  <2> QED
    BY <2>1, <2>2
<1> QED
  BY <1>1, <1>2, <1>3, ExitTypes DEF EmptyPayload, Decode, Restart, ElementMissing,
     ElementGarbled, ElementUnknown, HeaderWithNodeID

\* Adding a report and the points written for it.
LEMMA AddReport ==
    ASSUME TypeOK, NEW r \in Reports, seen' = Append(seen, r),
           UNCHANGED <<written, missed>> \/ \E points \in Seq(Points) : Write(points)
    PROVE  ReportsOK'
<1>1. seen' \in Seq(Reports)
  BY DEF TypeOK, ReportsOK
<1>2. CASE UNCHANGED <<written, missed>>
  BY <1>1, <1>2 DEF TypeOK, ReportsOK
<1>3. ASSUME NEW points \in Seq(Points), Write(points) PROVE ReportsOK'
  BY <1>1, <1>3, WriteLemma DEF ReportsOK
<1> QED
  BY <1>2, <1>3

\* A step in the loop over the containers.
LEMMA ContainerTypes ==
    ASSUME TypeOK, Containers
    PROVE  TypeOK'
<1>1. ASSUME NEW next \in {"odu", "cuup", "end"}, StartContainer(next) PROVE TypeOK'
  <2>1. ControlOK'
    BY <1>1 DEF StartContainer, TypeOK, ControlOK
  <2>2. ValuesOK'
    BY <1>1, FreshLemma DEF StartContainer, ResetContainer, ValuesOK
  <2>3. seen' = << >> /\ written' = << >> /\ missed' = FALSE
    BY <1>1 DEF StartContainer, ResetContainer
  <2>4. ReportsOK'
    BY <2>3, FreshLemma DEF TypeOK, ReportsOK
  <2> QED
    BY <1>1, <2>1, <2>2, <2>4, KeepLemma DEF StartContainer, TypeOK
<1>2. CASE CucpContainer
  <2>1. ControlOK'
    BY <1>2 DEF CucpContainer, TypeOK, ControlOK
  <2>2. ValuesOK'
    BY <1>2, FreshLemma DEF CucpContainer, ResetContainer, ValuesOK
  <2>3. seen' = << >> /\ written' \in Kept(<<UePoint>>) /\ missed' \in BOOLEAN
    BY <1>2 DEF CucpContainer, ResetContainer
  <2>4. <<UePoint>> \in Seq(Points)
    BY PointsLemma
  <2>5. ReportsOK'
    BY <2>3, <2>4, KeptLemma, FreshLemma DEF ReportsOK
  <2> QED
    BY <1>2, <2>1, <2>2, <2>5, KeepLemma DEF CucpContainer, TypeOK
<1>3. ASSUME NEW c \in CellReports, CellReport(c) PROVE TypeOK'
  <2> DEFINE d == DecodeCellReport(c)
  <2>1. c \in Reports /\ d.NRCGI = c.NRCGI /\ d.DL \in Int /\ d.UL \in Int
    BY NumbersLemma DEF Reports, DecodeCellReport, CellReports
  <2>2. ReportsOK'
    BY <1>3, <2>1, AddReport, PointsLemma DEF CellReport
  <2>3. Pair(d.DL, d.UL) \in Pairs
    BY <2>1 DEF Pair, Pairs
  <2>4. flag' \in BOOLEAN /\ (availPRB' = availPRB \/ availPRB' = Pair(d.DL, d.UL))
    BY <1>3 DEF CellReport, TypeOK, ValuesOK
  <2>5. ValuesOK'
    BY <1>3, <2>3, <2>4 DEF CellReport, TypeOK, ValuesOK
  <2> QED
    BY <1>3, <2>2, <2>5, KeepLemma DEF CellReport, TypeOK
<1>4. ASSUME NEW r \in FqiReports, FqiReport(r) PROVE TypeOK'
  <2>1. r \in Reports /\ r.DL \in Opt(Octets) /\ r.UL \in Opt(Octets)
    BY DEF Reports, FqiReports
  <2>2. <<UePoint>> \in Seq(Points)
    BY PointsLemma
  <2>3. ReportsOK'
    BY <1>4, <2>1, <2>2, AddReport DEF FqiReport
  <2>4. /\ flag' \in BOOLEAN
        /\ \/ pdcp' = pdcp
           \/ pdcp' = Pair(NewCount(flag', pdcp.DL, r.DL), NewCount(flag', pdcp.UL, r.UL))
    BY <1>4 DEF FqiReport, TypeOK, ValuesOK
  <2>5. pdcp' \in Pairs
    <3>1. pdcp.DL \in Int /\ pdcp.UL \in Int /\ pdcp \in Pairs
      BY DEF TypeOK, ValuesOK, Pairs
    <3>2. NewCount(flag', pdcp.DL, r.DL) \in Int /\ NewCount(flag', pdcp.UL, r.UL) \in Int
      BY <2>1, <2>4, <3>1, NumbersLemma
    <3> QED
      BY <2>4, <3>1, <3>2 DEF Pair, Pairs
  <2>6. ValuesOK'
    BY <1>4, <2>4, <2>5 DEF FqiReport, TypeOK, ValuesOK
  <2> QED
    BY <1>4, <2>3, <2>6, KeepLemma DEF FqiReport, TypeOK
<1>5. ASSUME NEW r \in QciReports, QciReport(r) PROVE TypeOK'
  <2>1. r \in Reports /\ <<UePoint>> \in Seq(Points)
    BY PointsLemma DEF Reports
  <2>2. ReportsOK'
    BY <1>5, <2>1, AddReport DEF QciReport
  <2> QED
    BY <1>5, <2>2, KeepLemma DEF QciReport, TypeOK
<1>6. CASE EndOfReports
  <2>1. ControlOK'
    BY <1>6 DEF EndOfReports, TypeOK, ControlOK
  <2> QED
    BY <1>6, <2>1, KeepLemma DEF EndOfReports, TypeOK
<1>7. CASE EndContainer
  <2>1. ControlOK'
    BY <1>7, IndicationConstants DEF EndContainer, TypeOK, ControlOK
  <2>2. SummaryOf(flag, availPRB, pdcp) \in Seq(Points)
    BY PointsLemma DEF TypeOK, ValuesOK
  <2>3. written' \in Seq(Points) /\ missed' \in BOOLEAN
    BY <1>7, <2>2, WriteLemma DEF EndContainer
  <2>4. ReportsOK'
    BY <1>7, <2>3 DEF EndContainer, TypeOK, ReportsOK
  <2> QED
    BY <1>7, <2>1, <2>4, KeepLemma DEF EndContainer, TypeOK
<1>8. CASE AllHandled
  BY <1>8, ExitTypes DEF AllHandled
<1> QED
  BY <1>1, <1>2, <1>3, <1>4, <1>5, <1>6, <1>7, <1>8 DEF Containers

\* For all identities and values: no message takes the number of containers past
\* the array, and no value kept or written is anything but a number.
THEOREM TypeCorrect == Spec => []TypeOK
<1>1. Init => TypeOK
  <2> SUFFICES ASSUME Init PROVE TypeOK
    OBVIOUS
  <2>1. ControlOK
    BY IndicationConstants DEF Init, ControlOK
  <2>2. HeaderOK /\ ValuesOK /\ ReportsOK
    BY FreshLemma DEF Init, HeaderOK, ValuesOK, ReportsOK
  <2> QED
    BY <2>1, <2>2 DEF TypeOK
<1>2. TypeOK /\ [Next]_vars => TypeOK'
  <2> SUFFICES ASSUME TypeOK, [Next]_vars PROVE TypeOK'
    OBVIOUS
  <2>1. CASE UNCHANGED vars
    BY <2>1, KeepLemma DEF vars, TypeOK
  <2> QED
    BY <2>1, DecodeTypes, ContainerTypes DEF Next
<1> QED
  BY <1>1, <1>2, PTL DEF Spec
-----------------------------------------------------------------------------
(***************************************************************************)
(* The summary of a container.                                             *)
(***************************************************************************)

\* The reports the summary may take a value from.
Cells == {k \in DOMAIN seen : IsCell(seen[k]) /\ Reported(k)}
DLs == {k \in DOMAIN seen : IsFqi(seen[k]) /\ seen[k].DL # NULL /\ Reported(k)}
ULs == {k \in DOMAIN seen : IsFqi(seen[k]) /\ seen[k].UL # NULL /\ Reported(k)}

\* Is report r about what the header names?
About(r) ==
    \/ IsCell(r) /\ r.NRCGI = hdr.NRCGI
    \/ IsFqi(r) /\ r.PlmnID = hdr.PlmnID /\ r.SliceID = hdr.SliceID /\ r.FiveQI = hdr.FiveQI

\* What the handler's variables hold while it goes through the reports.  That the
\* last reports are reports is part of it: they are found as they come.
FlagMeans == flag = Reported(Len(seen))
PrbMeans ==
    \/ LastCell = 0 /\ availPRB = Unset
    \/ /\ LastCell \in 1 .. Len(seen) /\ seen[LastCell] \in CellReports
       /\ availPRB = Pair(OrMinusOne(seen[LastCell].DL), OrMinusOne(seen[LastCell].UL))
DLMeans ==
    \/ LastDL = 0 /\ pdcp.DL = -1
    \/ /\ LastDL \in 1 .. Len(seen) /\ seen[LastDL].DL \in Octets
       /\ pdcp.DL = ParseInteger(seen[LastDL].DL)
ULMeans ==
    \/ LastUL = 0 /\ pdcp.UL = -1
    \/ /\ LastUL \in 1 .. Len(seen) /\ seen[LastUL].UL \in Octets
       /\ pdcp.UL = ParseInteger(seen[LastUL].UL)
Collected == FlagMeans /\ PrbMeans /\ DLMeans /\ ULMeans /\ Summaries = {}

SummaryInv ==
    /\ pc \in {"recv", "header", "message"} => seen = << >> /\ written = << >>
    /\ pc \in {"odu", "cuup", "end"} => Collected
    /\ SummaryOfContainer

\* The kinds of report are told apart by their fields.
LEMMA Kinds ==
    /\ \A c \in CellReports : IsCell(c) /\ ~IsFqi(c)
    /\ \A r \in FqiReports : ~IsCell(r) /\ IsFqi(r)
    /\ \A r \in QciReports : ~IsCell(r) /\ ~IsFqi(r)
BY DEF CellReports, FqiReports, QciReports, IsCell, IsFqi

\* A number above all others of a set is the one Max0 finds.
LEMMA Max0Lemma ==
    ASSUME NEW n \in Nat, NEW S \in SUBSET (1 .. n)
    PROVE  Max0(S \cup {n + 1}) = n + 1
<1> DEFINE T == S \cup {n + 1}
<1>1. n + 1 \in T /\ \A j \in T : j <= n + 1
  OBVIOUS
<1>2. \A k \in T : (\A j \in T : j <= k) => k = n + 1
  BY <1>1
<1>3. (CHOOSE k \in T : \A j \in T : j <= k) = n + 1
  <2> HIDE DEF T
  <2> QED
    BY <1>1, <1>2
<1> QED
  BY <1>1, <1>3 DEF Max0

\* What one more report changes.
LEMMA Appended ==
    ASSUME TypeOK, NEW r \in Reports, seen' = Append(seen, r), hdr' = hdr
    PROVE  /\ Len(seen) \in Nat /\ Len(seen') = Len(seen) + 1
           /\ seen'[Len(seen) + 1] = r
           /\ \A k \in 1 .. Len(seen) : seen'[k] = seen[k]
           /\ Reported(Len(seen))' <=> Reported(Len(seen)) \/ About(r)
           /\ Cells \in SUBSET (1 .. Len(seen)) /\ DLs \in SUBSET (1 .. Len(seen))
           /\ ULs \in SUBSET (1 .. Len(seen))
           /\ Cells' = IF IsCell(r) /\ Reported(Len(seen))'
                       THEN Cells \cup {Len(seen) + 1} ELSE Cells
           /\ DLs' = IF IsFqi(r) /\ r.DL # NULL /\ Reported(Len(seen))'
                     THEN DLs \cup {Len(seen) + 1} ELSE DLs
           /\ ULs' = IF IsFqi(r) /\ r.UL # NULL /\ Reported(Len(seen))'
                     THEN ULs \cup {Len(seen) + 1} ELSE ULs
<1>0. seen \in Seq(Reports)
  BY DEF TypeOK, ReportsOK
<1>1. PICK n \in Nat : n = Len(seen)
  BY <1>0
<1>2. /\ Len(seen') = n + 1 /\ seen'[n + 1] = r
      /\ \A k \in 1 .. n : seen'[k] = seen[k]
      /\ DOMAIN seen = 1 .. n /\ DOMAIN seen' = 1 .. n + 1
  BY <1>0, <1>1
<1>3. \A k \in 1 .. n : Matches(k)' <=> Matches(k)
  BY <1>2 DEF Matches
<1>4. \A k \in 1 .. n : Reported(k)' <=> Reported(k)
  BY <1>3 DEF Reported
<1>5. \A k : k = n + 1 => (Matches(k)' <=> About(r))
  BY <1>2 DEF Matches, About
<1>6. \A k : k = n + 1 => (Reported(k)' <=> Reported(n) \/ About(r))
  <2> SUFFICES ASSUME NEW k, k = n + 1 PROVE Reported(k)' <=> Reported(n) \/ About(r)
    OBVIOUS
  <2>1. 1 .. k = (1 .. n) \cup {k}
    OBVIOUS
  <2> QED
    BY <1>3, <1>5, <2>1 DEF Reported
<1>7. Reported(Len(seen))' <=> Reported(n) \/ About(r)
  BY <1>2, <1>6
<1>8. \A k : k = n + 1 => (Reported(k)' <=> Reported(Len(seen))')
  BY <1>6, <1>7
<1>9. Cells \in SUBSET (1 .. n) /\ DLs \in SUBSET (1 .. n) /\ ULs \in SUBSET (1 .. n)
  BY <1>2 DEF Cells, DLs, ULs
<1>10. Cells' = IF IsCell(r) /\ Reported(Len(seen))' THEN Cells \cup {n + 1} ELSE Cells
  BY <1>2, <1>4, <1>8 DEF Cells
<1>11. DLs' = IF IsFqi(r) /\ r.DL # NULL /\ Reported(Len(seen))'
              THEN DLs \cup {n + 1} ELSE DLs
  BY <1>2, <1>4, <1>8 DEF DLs
<1>12. ULs' = IF IsFqi(r) /\ r.UL # NULL /\ Reported(Len(seen))'
              THEN ULs \cup {n + 1} ELSE ULs
  BY <1>2, <1>4, <1>8 DEF ULs
<1> QED
  BY <1>1, <1>2, <1>7, <1>9, <1>10, <1>11, <1>12

\* Comparing what the parsers make of two identities compares the identities; the
\* values that stand for an absent identity are those of none.
LEMMA Matching ==
    ASSUME TypeOK
    PROVE  /\ \A g \in NRCGIs : /\ ParseNRCGI(g) # Error
                                /\ ParseNRCGI(g) = hdrIDs.cell <=> g = hdr.NRCGI
           /\ \A p \in PLMNs : /\ ParsePLMNIdentity(p) # Error
                               /\ ParsePLMNIdentity(p) = hdrIDs.plmn <=> p = hdr.PlmnID
           /\ \A s \in SliceIDs : /\ ParseSliceID(s) # Error
                                  /\ ParseSliceID(s) = hdrIDs.slice <=> s = hdr.SliceID
           /\ \A q \in FiveQIs : q = hdrIDs.fiveQI <=> q = hdr.FiveQI
<1>1. /\ hdr.NRCGI \in NRCGIs \cup {NULL} /\ hdr.PlmnID \in PLMNs \cup {NULL}
      /\ hdr.SliceID \in SliceIDs \cup {NULL} /\ hdr.FiveQI \in FiveQIs \cup {NULL}
  BY DEF TypeOK, HeaderOK, Headers, Opt
<1>2. /\ hdrIDs.cell = IF hdr.NRCGI = NULL THEN << >> ELSE ParseNRCGI(hdr.NRCGI)
      /\ hdrIDs.plmn = IF hdr.PlmnID = NULL THEN << >> ELSE ParsePLMNIdentity(hdr.PlmnID)
      /\ hdrIDs.slice = IF hdr.SliceID = NULL THEN -1 ELSE ParseSliceID(hdr.SliceID)
      /\ hdrIDs.fiveQI = IF hdr.FiveQI = NULL THEN -1 ELSE hdr.FiveQI
  BY DEF TypeOK, HeaderOK, ParseHeader, OrMinusOne
<1>3. ASSUME NEW g \in NRCGIs
      PROVE  ParseNRCGI(g) # Error /\ (ParseNRCGI(g) = hdrIDs.cell <=> g = hdr.NRCGI)
  BY <1>1, <1>2, IdentitiesDiffer, ParsersSucceed, IndicationConstants
<1>4. ASSUME NEW p \in PLMNs
      PROVE  /\ ParsePLMNIdentity(p) # Error
             /\ ParsePLMNIdentity(p) = hdrIDs.plmn <=> p = hdr.PlmnID
  BY <1>1, <1>2, IdentitiesDiffer, ParsersSucceed, IndicationConstants
<1>5. ASSUME NEW s \in SliceIDs
      PROVE  ParseSliceID(s) # Error /\ (ParseSliceID(s) = hdrIDs.slice <=> s = hdr.SliceID)
  BY <1>1, <1>2, IdentitiesDiffer, ParsersSucceed, IndicationConstants
<1>6. ASSUME NEW q \in FiveQIs
      PROVE  q = hdrIDs.fiveQI <=> q = hdr.FiveQI
  BY <1>1, <1>2, IndicationConstants
<1> QED
  BY <1>3, <1>4, <1>5, <1>6

\* The points written for a report are no summaries.
LEMMA NoSummary ==
    ASSUME TypeOK, Summaries = {}, NEW points \in Seq(Points), Write(points),
           \A k \in DOMAIN points : points[k].table # "summary"
    PROVE  Summaries' = {}
<1>1. \A k \in DOMAIN written : written[k].table # "summary"
  BY DEF Summaries
<1> QED
  BY <1>1, WriteLemma DEF Summaries

\* A report that has no value of a kind, or comes before the first match, leaves
\* what was collected of that kind alone.
LEMMA KeepMeans ==
    ASSUME TypeOK, NEW r \in Reports, seen' = Append(seen, r), hdr' = hdr
    PROVE  /\ PrbMeans /\ Cells' = Cells /\ availPRB' = availPRB => PrbMeans'
           /\ DLMeans /\ DLs' = DLs /\ pdcp'.DL = pdcp.DL => DLMeans'
           /\ ULMeans /\ ULs' = ULs /\ pdcp'.UL = pdcp.UL => ULMeans'
<1>1. PICK n \in Nat : n = Len(seen)
  BY Appended
<1>2. Len(seen') = n + 1 /\ \A k \in 1 .. n : seen'[k] = seen[k]
  BY <1>1, Appended
<1>3. ASSUME PrbMeans, Cells' = Cells, availPRB' = availPRB PROVE PrbMeans'
  <2>1. LastCell' = LastCell
    BY <1>3 DEF LastCell, Cells
  <2> QED
    BY <1>1, <1>2, <1>3, <2>1 DEF PrbMeans
<1>4. ASSUME DLMeans, DLs' = DLs, pdcp'.DL = pdcp.DL PROVE DLMeans'
  <2>1. LastDL' = LastDL
    BY <1>4 DEF LastDL, DLs
  <2> QED
    BY <1>1, <1>2, <1>4, <2>1 DEF DLMeans
<1>5. ASSUME ULMeans, ULs' = ULs, pdcp'.UL = pdcp.UL PROVE ULMeans'
  <2>1. LastUL' = LastUL
    BY <1>5 DEF LastUL, ULs
  <2> QED
    BY <1>1, <1>2, <1>5, <2>1 DEF ULMeans
<1> QED
  BY <1>3, <1>4, <1>5

\* A cell resource report.
LEMMA CellStep ==
    ASSUME TypeOK, Collected, NEW c \in CellReports, CellReport(c)
    PROVE  Collected'
<1> DEFINE d == DecodeCellReport(c)
           points == CellPoints(ParseNRCGI(c.NRCGI), d)
<1>1. /\ c \in Reports /\ c.NRCGI \in NRCGIs /\ IsCell(c) /\ ~IsFqi(c)
      /\ d.NRCGI = c.NRCGI /\ d.DL = OrMinusOne(c.DL) /\ d.UL = OrMinusOne(c.UL)
  BY Kinds DEF Reports, CellReports, DecodeCellReport
<1>2. /\ seen' = Append(seen, c) /\ hdr' = hdr /\ pdcp' = pdcp
      /\ Write(points)
      /\ flag' = (flag \/ c.NRCGI = hdr.NRCGI)
      /\ availPRB' = IF flag' THEN Pair(d.DL, d.UL) ELSE availPRB
  BY <1>1, Matching DEF CellReport, context
<1>3. FlagMeans'
  <2>1. About(c) <=> c.NRCGI = hdr.NRCGI
    BY <1>1 DEF About
  <2>2. flag \in BOOLEAN /\ flag = Reported(Len(seen))
    BY DEF TypeOK, ValuesOK, Collected, FlagMeans
  <2>3. Reported(Len(seen))' <=> Reported(Len(seen)) \/ About(c)
    BY <1>1, <1>2, Appended
  <2>4. Reported(Len(seen))' \in BOOLEAN
    BY DEF Reported
  <2> QED
    BY <1>2, <2>1, <2>2, <2>3, <2>4 DEF FlagMeans
<1>4. PrbMeans'
  <2>1. CASE ~flag'
    <3>1. Cells' = Cells
      BY <1>1, <1>2, <1>3, <2>1, Appended DEF FlagMeans
    <3> QED
      BY <1>1, <1>2, <2>1, <3>1, KeepMeans DEF Collected
  <2>2. CASE flag'
    <3>1. PICK n \in Nat : n = Len(seen)
      BY <1>1, <1>2, Appended
    <3>2. Cells' = Cells \cup {n + 1} /\ Cells \in SUBSET (1 .. n)
      BY <1>1, <1>2, <1>3, <2>2, <3>1, Appended DEF FlagMeans
    <3>3. LastCell' = n + 1
      BY <3>2, Max0Lemma DEF LastCell, Cells
    <3>4. seen'[n + 1] = c /\ Len(seen') = n + 1
      BY <1>1, <1>2, <3>1, Appended
    <3> QED
      BY <1>1, <1>2, <2>2, <3>3, <3>4 DEF PrbMeans
  <2> QED
    BY <2>1, <2>2
<1>5. DLMeans' /\ ULMeans'
  <2>1. DLs' = DLs /\ ULs' = ULs
    BY <1>1, <1>2, Appended
  <2> QED
    BY <1>1, <1>2, <2>1, KeepMeans DEF Collected
<1>6. Summaries' = {}
  <2>1. points \in Seq(Points)
    BY PointsLemma
  <2>2. \A k \in DOMAIN points : points[k].table # "summary"
    BY DEF CellPoints, UePoint, CellPoint
  <2> QED
    BY <1>2, <2>1, <2>2, NoSummary DEF Collected
<1> QED
  BY <1>3, <1>4, <1>5, <1>6 DEF Collected

\* A report on a 5QI: each byte count is taken over on its own.
LEMMA FqiStep ==
    ASSUME TypeOK, Collected, NEW r \in FqiReports, FqiReport(r)
    PROVE  Collected'
<1>1. /\ r \in Reports /\ ~IsCell(r) /\ IsFqi(r)
      /\ r.PlmnID \in PLMNs /\ r.SliceID \in SliceIDs /\ r.FiveQI \in FiveQIs
      /\ r.DL \in Opt(Octets) /\ r.UL \in Opt(Octets)
  BY Kinds DEF Reports, FqiReports
<1>2. /\ seen' = Append(seen, r) /\ hdr' = hdr /\ availPRB' = availPRB
      /\ Write(<<UePoint>>)
      /\ flag' = (flag \/ (/\ r.PlmnID = hdr.PlmnID /\ r.SliceID = hdr.SliceID
                           /\ r.FiveQI = hdr.FiveQI))
      /\ pdcp'.DL = NewCount(flag', pdcp.DL, r.DL)
      /\ pdcp'.UL = NewCount(flag', pdcp.UL, r.UL)
  BY <1>1, Matching DEF FqiReport, context, Pair
<1>3. FlagMeans'
  <2>1. About(r) <=> /\ r.PlmnID = hdr.PlmnID /\ r.SliceID = hdr.SliceID
                     /\ r.FiveQI = hdr.FiveQI
    BY <1>1 DEF About
  <2>2. flag \in BOOLEAN /\ flag = Reported(Len(seen))
    BY DEF TypeOK, ValuesOK, Collected, FlagMeans
  <2>3. Reported(Len(seen))' <=> Reported(Len(seen)) \/ About(r)
    BY <1>1, <1>2, Appended
  <2>4. Reported(Len(seen))' \in BOOLEAN
    BY DEF Reported
  <2> QED
    BY <1>2, <2>1, <2>2, <2>3, <2>4 DEF FlagMeans
<1>4. PrbMeans'
  <2>1. Cells' = Cells
    BY <1>1, <1>2, Appended
  <2> QED
    BY <1>1, <1>2, <2>1, KeepMeans DEF Collected
<1>5. DLMeans'
  <2>1. CASE flag' /\ r.DL # NULL
    <3>1. PICK n \in Nat : n = Len(seen)
      BY <1>1, <1>2, Appended
    <3>2. DLs' = DLs \cup {n + 1} /\ DLs \in SUBSET (1 .. n)
      BY <1>1, <1>2, <1>3, <2>1, <3>1, Appended DEF FlagMeans
    <3>3. LastDL' = n + 1
      BY <3>2, Max0Lemma DEF LastDL, DLs
    <3>4. seen'[n + 1] = r /\ Len(seen') = n + 1
      BY <1>1, <1>2, <3>1, Appended
    <3>5. r.DL \in Octets /\ pdcp'.DL = ParseInteger(r.DL)
      BY <1>1, <1>2, <2>1 DEF Opt, NewCount
    <3> QED
      BY <3>3, <3>4, <3>5 DEF DLMeans
  <2>2. CASE ~(flag' /\ r.DL # NULL)
    <3>1. DLs' = DLs
      BY <1>1, <1>2, <1>3, <2>2, Appended DEF FlagMeans
    <3>2. pdcp'.DL = pdcp.DL
      BY <1>2, <2>2 DEF NewCount
    <3> QED
      BY <1>1, <1>2, <3>1, <3>2, KeepMeans DEF Collected
  <2> QED
    BY <2>1, <2>2
<1>6. ULMeans'
  <2>1. CASE flag' /\ r.UL # NULL
    <3>1. PICK n \in Nat : n = Len(seen)
      BY <1>1, <1>2, Appended
    <3>2. ULs' = ULs \cup {n + 1} /\ ULs \in SUBSET (1 .. n)
      BY <1>1, <1>2, <1>3, <2>1, <3>1, Appended DEF FlagMeans
    <3>3. LastUL' = n + 1
      BY <3>2, Max0Lemma DEF LastUL, ULs
    <3>4. seen'[n + 1] = r /\ Len(seen') = n + 1
      BY <1>1, <1>2, <3>1, Appended
    <3>5. r.UL \in Octets /\ pdcp'.UL = ParseInteger(r.UL)
      BY <1>1, <1>2, <2>1 DEF Opt, NewCount
    <3> QED
      BY <3>3, <3>4, <3>5 DEF ULMeans
  <2>2. CASE ~(flag' /\ r.UL # NULL)
    <3>1. ULs' = ULs
      BY <1>1, <1>2, <1>3, <2>2, Appended DEF FlagMeans
    <3>2. pdcp'.UL = pdcp.UL
      BY <1>2, <2>2 DEF NewCount
    <3> QED
      BY <1>1, <1>2, <3>1, <3>2, KeepMeans DEF Collected
  <2> QED
    BY <2>1, <2>2
<1>7. Summaries' = {}
  <2>1. <<UePoint>> \in Seq(Points)
    BY PointsLemma
  <2>2. \A k \in DOMAIN <<UePoint>> : <<UePoint>>[k].table # "summary"
    BY DEF UePoint
  <2> QED
    BY <1>2, <2>1, <2>2, NoSummary DEF Collected
<1> QED
  BY <1>3, <1>4, <1>5, <1>6, <1>7 DEF Collected

\* A report on a QCI never matches: nothing in the header names a QCI.
LEMMA QciStep ==
    ASSUME TypeOK, Collected, NEW r \in QciReports, QciReport(r)
    PROVE  Collected'
<1>1. r \in Reports /\ ~IsCell(r) /\ ~IsFqi(r) /\ r.PlmnID \in PLMNs
  BY Kinds DEF Reports, QciReports
<1>2. /\ seen' = Append(seen, r) /\ UNCHANGED <<hdr, flag, availPRB, pdcp>>
      /\ Write(<<UePoint>>)
  BY <1>1, Matching DEF QciReport, context
<1>3. FlagMeans'
  <2>1. ~About(r)
    BY <1>1 DEF About
  <2>2. Reported(Len(seen))' <=> Reported(Len(seen))
    BY <1>1, <1>2, <2>1, Appended
  <2>3. Reported(Len(seen))' \in BOOLEAN /\ Reported(Len(seen)) \in BOOLEAN
    BY DEF Reported
  <2> QED
    BY <1>2, <2>2, <2>3 DEF Collected, FlagMeans
<1>4. Cells' = Cells /\ DLs' = DLs /\ ULs' = ULs
  BY <1>1, <1>2, Appended
<1>5. PrbMeans' /\ DLMeans' /\ ULMeans'
  BY <1>1, <1>2, <1>4, KeepMeans DEF Collected
<1>6. Summaries' = {}
  <2>1. <<UePoint>> \in Seq(Points)
    BY PointsLemma
  <2>2. \A k \in DOMAIN <<UePoint>> : <<UePoint>>[k].table # "summary"
    BY DEF UePoint
  <2> QED
    BY <1>2, <2>1, <2>2, NoSummary DEF Collected
<1> QED
  BY <1>3, <1>5, <1>6 DEF Collected

\* The start of a container.
LEMMA StartStep ==
    ASSUME ResetContainer, written' \in {<< >>, <<UePoint>>}
    PROVE  Collected'
<1>1. seen' = << >> /\ flag' = FALSE /\ availPRB' = Unset /\ pdcp' = Unset
  BY DEF ResetContainer
<1>2. (~Reported(Len(seen)))' /\ LastCell' = 0 /\ LastDL' = 0 /\ LastUL' = 0
  <2>1. Len(seen') = 0 /\ DOMAIN seen' = {}
    BY <1>1
  <2>2. (~Reported(Len(seen)))'
    BY <2>1 DEF Reported
  <2> QED
    BY <2>1, <2>2 DEF LastCell, LastDL, LastUL, Max0
<1>3. FlagMeans'
  <2>1. Reported(Len(seen))' \in BOOLEAN
    BY DEF Reported
  <2> QED
    BY <1>1, <1>2, <2>1 DEF FlagMeans
<1>4. PrbMeans' /\ DLMeans' /\ ULMeans'
  BY <1>1, <1>2 DEF PrbMeans, DLMeans, ULMeans, Unset, Pair
<1>5. Summaries' = {}
  BY DEF Summaries, UePoint
<1> QED
  BY <1>1, <1>3, <1>4, <1>5 DEF Collected

\* The summary is made of what was collected, with zeroes for what is absent.
LEMMA EndStep ==
    ASSUME TypeOK, Collected, EndContainer
    PROVE  SummaryOfContainer'
<1> DEFINE row == CellMetricsEntry(<< >>, Zero, OrZeroes(availPRB), OrZeroes(pdcp))
           last == Len(written) + 1
<1>1. /\ UNCHANGED <<seen, hdr>>
      /\ Write(SummaryOf(flag, availPRB, pdcp))
  BY DEF EndContainer, context
<1>2. LastCell' = LastCell /\ LastDL' = LastDL /\ LastUL' = LastUL
  BY <1>1 DEF LastCell, LastDL, LastUL, IsCell, IsFqi, Reported, Matches
<1>3. Reported(Len(seen))' <=> Reported(Len(seen))
  BY <1>1 DEF Reported, Matches
<1>4. written \in Seq(Points) /\ \A k \in DOMAIN written : written[k].table # "summary"
  BY DEF TypeOK, ReportsOK, Collected, Summaries
<1>5. CASE ~flag
  <2>1. ~Reported(Len(seen))
    BY <1>5 DEF Collected, FlagMeans
  <2>2. written' = written
    <3>1. SummaryOf(flag, availPRB, pdcp) = << >>
      BY <1>5 DEF SummaryOf
    <3>2. Kept(<< >>) = {<< >>}
      BY DEF Kept
    <3>3. written' = written \o << >>
      BY <1>1, <3>1, <3>2 DEF Write
    <3> QED
      BY <1>4, <3>3
  <2>3. Summaries' = {}
    BY <1>4, <2>2 DEF Summaries
  <2> QED
    BY <1>3, <2>1, <2>3 DEF SummaryOfContainer
<1>6. CASE flag
  <2>1. Reported(Len(seen))
    BY <1>6 DEF Collected, FlagMeans
  <2>2. \/ written' = written /\ missed' = TRUE
        \/ written' = Append(written, SummaryPoint(row))
    <3> DEFINE point == SummaryPoint(row)
    <3>1. SummaryOf(flag, availPRB, pdcp) = <<point>>
      BY <1>6 DEF SummaryOf
    <3> HIDE DEF point
    <3>2. Kept(<<point>>) = {<< >>, <<point>>}
      BY DEF Kept
    <3>3. PICK kept \in {<< >>, <<point>>} :
             written' = written \o kept /\ missed' = (missed \/ kept # <<point>>)
      BY <1>1, <3>1, <3>2 DEF Write
    <3>4. CASE kept = << >>
      <4>1. written' = written
        BY <1>4, <3>3, <3>4
      <4>2. << >> # <<point>>
        OBVIOUS
      <4> QED
        BY <3>3, <3>4, <4>1, <4>2
    <3>5. CASE kept = <<point>>
      BY <1>4, <3>3, <3>5 DEF point
    <3> QED
      BY <3>3, <3>4, <3>5
  <2>3. CASE written' = written /\ missed' = TRUE
    <3>1. Summaries' = {}
      BY <1>4, <2>3 DEF Summaries
    <3> QED
      BY <2>3, <3>1 DEF SummaryOfContainer
  <2>4. CASE written' = Append(written, SummaryPoint(row))
    <3>3. /\ Len(written') = last /\ DOMAIN written' = 1 .. last
          /\ written'[last] = SummaryPoint(row)
          /\ \A k \in 1 .. last : k # last => k \in DOMAIN written /\ written'[k] = written[k]
          /\ last \in 1 .. last
      <4> HIDE DEF row
      <4> QED
        BY <1>4, <2>4
    <3>4. Summaries' = {last}
      BY <1>4, <3>3 DEF Summaries, SummaryPoint
    <3>5. row.AvailPRBDL = OrZero(availPRB.DL) /\ row.AvailPRBUL = OrZero(availPRB.UL)
      BY DEF CellMetricsEntry, OrZeroes, Pair
    <3>6. row.PDCPBytesDL = OrZero(pdcp.DL) /\ row.PDCPBytesUL = OrZero(pdcp.UL)
      BY DEF CellMetricsEntry, OrZeroes, Pair
    <3>7. /\ OrZero(availPRB.DL) = IF LastCell = 0 \/ seen[LastCell].DL = NULL
                                   THEN 0 ELSE seen[LastCell].DL
          /\ OrZero(availPRB.UL) = IF LastCell = 0 \/ seen[LastCell].UL = NULL
                                   THEN 0 ELSE seen[LastCell].UL
      <4>1. CASE LastCell = 0 /\ availPRB = Unset
        BY <4>1 DEF OrZero, Unset, Pair
      <4>2. CASE /\ LastCell \in 1 .. Len(seen) /\ seen[LastCell] \in CellReports
                 /\ availPRB = Pair(OrMinusOne(seen[LastCell].DL), OrMinusOne(seen[LastCell].UL))
        <5>1. seen[LastCell].DL \in Opt(PRBs) /\ seen[LastCell].UL \in Opt(PRBs)
          BY <4>2 DEF CellReports
        <5>2. LastCell # 0
          BY <1>4, <4>2
        <5>3. \A v \in Opt(PRBs) : OrZero(OrMinusOne(v)) = IF v = NULL THEN 0 ELSE v
          BY IndicationConstants DEF Opt, OrZero, OrMinusOne
        <5>4. /\ availPRB.DL = OrMinusOne(seen[LastCell].DL)
              /\ availPRB.UL = OrMinusOne(seen[LastCell].UL)
          BY <4>2 DEF Pair
        <5> QED
          BY <5>1, <5>2, <5>3, <5>4
      <4> QED
        BY <4>1, <4>2 DEF Collected, PrbMeans
    <3>8. \A b \in Octets : OrZero(ParseInteger(b)) = ParseInteger(b)
      BY ParsersSucceed DEF OrZero
    <3>9. OrZero(pdcp.DL) = IF LastDL = 0 THEN 0 ELSE ParseInteger(seen[LastDL].DL)
      <4>1. CASE LastDL = 0 /\ pdcp.DL = -1
        BY <4>1 DEF OrZero
      <4>2. CASE LastDL # 0
        BY <3>8, <4>2 DEF Collected, DLMeans
      <4> QED
        BY <4>1, <4>2 DEF Collected, DLMeans
    <3>10. OrZero(pdcp.UL) = IF LastUL = 0 THEN 0 ELSE ParseInteger(seen[LastUL].UL)
      <4>1. CASE LastUL = 0 /\ pdcp.UL = -1
        BY <4>1 DEF OrZero
      <4>2. CASE LastUL # 0
        BY <3>8, <4>2 DEF Collected, ULMeans
      <4> QED
        BY <4>1, <4>2 DEF Collected, ULMeans
    <3>11. written'[last].row = row
      BY <3>3 DEF SummaryPoint
    <3> HIDE DEF row, last
    <3> QED
      BY <1>1, <1>2, <1>3, <2>1, <3>3, <3>4, <3>5, <3>6, <3>7, <3>9, <3>10, <3>11
         DEF SummaryOfContainer
  <2> QED
    BY <2>2, <2>3, <2>4
<1>7. flag \in BOOLEAN
  BY DEF TypeOK, ValuesOK
<1> QED
  BY <1>5, <1>6

\* Back to the control loop, or out of it.
LEMMA ExitSummary ==
    ASSUME Crash \/ Return
    PROVE  SummaryInv'
<1>1. CASE Crash
  BY <1>1 DEF Crash, SummaryInv, SummaryOfContainer
<1>2. CASE Return
  BY <1>2 DEF Return, SummaryInv, SummaryOfContainer
<1> QED
  BY <1>1, <1>2

\* A step up to the loop over the containers.
LEMMA DecodeSummary ==
    ASSUME SummaryInv, DecodeE2AP \/ EmptyPayload \/ Decode \/ Restart
    PROVE  SummaryInv'
<1>1. CASE DecodeE2AP
  BY <1>1 DEF DecodeE2AP, SummaryInv, SummaryOfContainer
<1>2. ASSUME NEW h \in Headers, HandleHeader(h) PROVE SummaryInv'
  <2>1. CASE Return
    BY <2>1, ExitSummary
  <2>2. CASE ~Return
    BY <1>2, <2>2 DEF HandleHeader, SummaryInv, SummaryOfContainer
  <2> QED
    BY <2>1, <2>2
<1>3. ASSUME NEW n \in 1 .. MaxContainers, HandleMessage(n) PROVE SummaryInv'
  <2>1. CASE n > PMCapacity
    BY <1>3, <2>1, ExitSummary DEF HandleMessage
  <2>2. CASE ~(n > PMCapacity)
    <3>1. pc' = "loop" /\ seen' = << >> /\ written' = << >>
      BY <1>3, <2>2 DEF HandleMessage, SummaryInv
    <3>2. SummaryOfContainer'
      <4>1. Len(seen') = 0 /\ Summaries' = {}
        BY <3>1 DEF Summaries
      <4>2. (~Reported(Len(seen)))'
        BY <4>1 DEF Reported
      <4> QED
        BY <4>1, <4>2 DEF SummaryOfContainer
    <3> QED
      BY <3>1, <3>2 DEF SummaryInv
  <2> QED
    BY <2>1, <2>2
<1> QED
  BY <1>1, <1>2, <1>3, ExitSummary DEF EmptyPayload, Decode, Restart, ElementMissing,
     ElementGarbled, ElementUnknown, HeaderWithNodeID

\* A step in the loop over the containers.
LEMMA ContainerSummary ==
    ASSUME TypeOK, SummaryInv, Containers
    PROVE  SummaryInv'
<1>1. ASSUME NEW next \in {"odu", "cuup", "end"}, StartContainer(next) PROVE SummaryInv'
  BY <1>1, StartStep DEF StartContainer, SummaryInv, SummaryOfContainer
<1>2. CASE CucpContainer
  <2>1. written' \in {<< >>, <<UePoint>>} /\ pc' = "end" /\ ResetContainer
    BY <1>2 DEF CucpContainer, Kept
  <2> QED
    BY <2>1, StartStep DEF SummaryInv, SummaryOfContainer
<1>3. ASSUME NEW c \in CellReports, CellReport(c) PROVE SummaryInv'
  <2>1. pc = "odu" /\ pc' = "odu"
    BY <1>3 DEF CellReport
  <2> QED
    BY <1>3, <2>1, CellStep DEF SummaryInv, SummaryOfContainer
<1>4. ASSUME NEW r \in FqiReports, FqiReport(r) PROVE SummaryInv'
  <2>1. pc = "cuup" /\ pc' = "cuup"
    BY <1>4 DEF FqiReport
  <2> QED
    BY <1>4, <2>1, FqiStep DEF SummaryInv, SummaryOfContainer
<1>5. ASSUME NEW r \in QciReports, QciReport(r) PROVE SummaryInv'
  <2>1. pc = "cuup" /\ pc' = "cuup"
    BY <1>5 DEF QciReport
  <2> QED
    BY <1>5, <2>1, QciStep DEF SummaryInv, SummaryOfContainer
<1>6. CASE EndOfReports
  <2>1. /\ pc \in {"odu", "cuup"} /\ pc' = "end"
        /\ UNCHANGED <<hdr, flag, availPRB, pdcp, seen, written>>
    BY <1>6 DEF EndOfReports, context
  <2>2. Collected'
    BY <2>1 DEF SummaryInv, Collected, FlagMeans, PrbMeans, DLMeans, ULMeans, Summaries,
       LastCell, LastDL, LastUL, Reported, Matches
  <2> QED
    BY <2>1, <2>2 DEF SummaryInv, SummaryOfContainer
<1>7. CASE EndContainer
  <2>1. pc = "end" /\ pc' = "loop"
    BY <1>7 DEF EndContainer
  <2> QED
    BY <1>7, <2>1, EndStep DEF SummaryInv
<1>8. CASE AllHandled
  BY <1>8, ExitSummary DEF AllHandled
<1> QED
  BY <1>1, <1>2, <1>3, <1>4, <1>5, <1>6, <1>7, <1>8 DEF Containers

\* For all identities and values, however many reports a container holds and
\* whatever writes fail: a summary of it is stored only if one of its own reports
\* matches the header, is missing then only if a write failed, and holds the values
\* of the last reports from the first match on.
THEOREM SummariesAreTheContainers == Spec => []SummaryOfContainer
<1>1. Init => SummaryInv
  BY DEF Init, SummaryInv, SummaryOfContainer
<1>2. TypeOK /\ SummaryInv /\ [Next]_vars => SummaryInv'
  <2> SUFFICES ASSUME TypeOK, SummaryInv, [Next]_vars PROVE SummaryInv'
    OBVIOUS
  <2>1. CASE UNCHANGED vars
    <3>1. UNCHANGED <<pc, hdr, flag, availPRB, pdcp, seen, written, missed>>
      BY <2>1 DEF vars, context
    <3>2. LastCell' = LastCell /\ LastDL' = LastDL /\ LastUL' = LastUL
      BY <3>1 DEF LastCell, LastDL, LastUL, Reported, Matches
    <3>3. Reported(Len(seen))' = Reported(Len(seen)) /\ Summaries' = Summaries
      BY <3>1 DEF Reported, Matches, Summaries
    <3>4. Collected => Collected'
      BY <3>1, <3>2, <3>3 DEF Collected, FlagMeans, PrbMeans, DLMeans, ULMeans
    <3>5. SummaryOfContainer'
      BY <3>1, <3>2, <3>3 DEF SummaryInv, SummaryOfContainer
    <3> QED
      BY <3>1, <3>4, <3>5 DEF SummaryInv
  <2> QED
    BY <2>1, DecodeSummary, ContainerSummary DEF Next
<1>3. SummaryInv => SummaryOfContainer
  BY DEF SummaryInv
<1> QED
  BY <1>1, <1>2, <1>3, TypeCorrect, PTL DEF Spec
=============================================================================
