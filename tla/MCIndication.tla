---------------------------- MODULE MCIndication ----------------------------
(* Instances of KpimonIndication: two cells of one PLMN, which differ in one   *)
(* octet, two PLMNs with an MNC of two and of three digits, and two slices, one *)
(* of which overflows the sign of an int32.                                     *)
EXTENDS KpimonIndication

Cell(octet) == [PlmnID |-> <<0, 31, 1>>, NRCellID |-> <<0, 0, octet, 4, 80>>, BitsUnused |-> 4]

TwoCells == {Cell(16), Cell(32)}
TwoPLMNs == {<<0, 31, 1>>, <<50, 16, 18>>}
TwoSlices == {[SST |-> <<1>>, SD |-> NULL], [SST |-> <<200>>, SD |-> <<0, 1, 2>>]}
Counts == {<<1, 0>>}
=============================================================================
