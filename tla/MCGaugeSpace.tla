---------------------------- MODULE MCGaugeSpace ----------------------------
(* TLC instance of GaugeSpace: a strip of four triangles, under numberings in   *)
(* which conductors meet the wall's pieces in different orders, and a ring of   *)
(* six, whose boundary is in two pieces.                                       *)
EXTENDS GaugeSpace

Cell(a, dofs) == [attribute |-> a, dofs |-> dofs]

\* Vertices v[1] to v[6]; a triangle is three in a row.
Strip(v) ==
  [elements |-> [k \in 1..4 |-> Cell(k, <<v[k], v[k + 1], v[k + 2]>>)],
   boundary |-> <<Cell(1, <<v[1], v[2]>>), Cell(2, <<v[1], v[3]>>), Cell(3, <<v[2], v[4]>>),
                  Cell(4, <<v[3], v[5]>>), Cell(5, <<v[4], v[6]>>), Cell(6, <<v[5], v[6]>>)>>]

\* Outside 0, 2 and 4, inside 1, 3 and 5.
Ring ==
  [elements |-> <<Cell(1, <<0, 1, 2>>), Cell(2, <<1, 2, 3>>), Cell(2, <<2, 3, 4>>),
                  Cell(3, <<3, 4, 5>>), Cell(4, <<4, 5, 0>>), Cell(4, <<5, 0, 1>>)>>,
   boundary |-> <<Cell(1, <<4, 2>>), Cell(1, <<0, 2>>), Cell(2, <<4, 0>>),
                  Cell(3, <<1, 3>>), Cell(4, <<5, 3>>), Cell(4, <<1, 5>>)>>]

MeshesDef == {Strip(<<0, 1, 2, 3, 4, 5>>), Strip(<<2, 3, 1, 4, 0, 5>>), Ring}
\* The whole boundary, or up to half of it.
EssBdrsDef == {1..6} \cup {S \in SUBSET (1..6) : Cardinality(S) <= 3}
ConductorsDef == SUBSET (1..4)
===============================================================================
