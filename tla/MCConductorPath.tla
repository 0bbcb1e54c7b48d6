--------------------------- MODULE MCConductorPath ---------------------------
(***************************************************************************)
(* TLC instance of ConductorPath: rings and bars of hexahedra, two layers    *)
(* wide.  Sector i of a ring lies between the planes i and i + 1; layer 1 is  *)
(* inside, 2 outside.  Cuts are all small sets of internal faces of a ring of  *)
(* four and all sets of planes of both rings; the walls of azimuthal conductors *)
(* do not cross them.                                                       *)
(***************************************************************************)
EXTENDS ConductorPath

Vertex(i, j, k) == 6 * i + 2 * j + k

Quad(a, b, c, d, elements, along, turn, angle) ==
  [dofs |-> {a, b, c, d}, edges |-> {{a, b}, {b, c}, {c, d}, {d, a}},
   elements |-> elements, along |-> along, turn |-> turn, angle |-> angle]

\* n sectors; a ring's last plane is its first.
Element(i, j) == 2 * i + j
Grid(n, ring, Along(_), Across(_)) ==
  LET plane(i) == IF ring THEN i % n ELSE i
      sectors == [s \in 1 .. 2 * n |-> <<(s - 1) \div 2, 1 + ((s - 1) % 2)>>]
      planes == IF ring THEN n ELSE n + 1
      At(i, j, k) == Vertex(plane(i), j, k)
      Plane(i, j) ==
        LET before == Element((i + n - 1) % n, j)
            after == Element(i, j)
            open == ~ring /\ i = 0
        IN  Quad(At(i, j - 1, 0), At(i, j, 0), At(i, j, 1), At(i, j - 1, 1),
                 IF open THEN <<after>> ELSE IF ~ring /\ i = n THEN <<before>>
                 ELSE <<before, after>>,
                 IF open THEN -Along(i) ELSE Along(i), IF open THEN -10 ELSE 10, i % 4)
      Layer(i, j) ==
        Quad(At(i, j, 0), At(i + 1, j, 0), At(i + 1, j, 1), At(i, j, 1),
             CASE j = 0 -> <<Element(i, 1)>> [] j = 2 -> <<Element(i, 2)>>
               [] OTHER -> <<Element(i, 1), Element(i, 2)>>, Across(i), 0, 0)
      Cap(i, j, k) ==
        Quad(At(i, j - 1, k), At(i + 1, j - 1, k), At(i + 1, j, k), At(i, j, k),
             <<Element(i, j)>>, 0, 0, 0)
  IN  [elements |-> [s \in 1 .. 2 * n |->
         LET i == sectors[s][1]
             j == sectors[s][2]
         IN  [attribute |-> <<i, j>>,
              dofs |-> {At(i + a, j - 1 + b, k) : a, b, k \in {0, 1}}]],
       faces |-> [s \in 1 .. 2 * planes |-> Plane((s - 1) \div 2, 1 + ((s - 1) % 2))]
              \o [s \in 1 .. n |-> Layer(s - 1, 1)] \o [s \in 1 .. n |-> Layer(s - 1, 0)]
              \o [s \in 1 .. n |-> Layer(s - 1, 2)]
              \o [s \in 1 .. 2 * n |-> Cap(sectors[s][1], sectors[s][2], 0)]
              \o [s \in 1 .. 2 * n |-> Cap(sectors[s][1], sectors[s][2], 1)],
       axis |-> {}]

WithBoundary(blank, outer) ==
  [elements |-> blank.elements, faces |-> blank.faces, axis |-> blank.axis, boundary |-> outer]

\* Cosines, in tenths, of the angles to the direction along plane 0's normal.
Along4(i) == <<10, 0, -10, 0>>[(i % 4) + 1]
Across4(i) == <<7, 7, -7, -7>>[i + 1]
Along6(i) == <<10, 5, -5, -10, -5, 5>>[(i % 6) + 1]
Across6(i) == <<5, 10, 5, -5, -10, -5>>[i + 1]

Ring4 == Grid(4, TRUE, Along4, Across4)
Ring6 == Grid(6, TRUE, Along6, Across6)
Bar == Grid(2, FALSE, Along4, Across4)

\* Every internal face has an attribute; a plane's faces are next to each other.
Internal(blank, n) == WithBoundary(blank, [s \in 1 .. 3 * n |-> [attribute |-> s, face |-> s]])
\* A plane or a side has one attribute: planes 1 to 4, inside 5, outside 6.
Sides == WithBoundary(Ring4, [s \in 1 .. 8 |-> [attribute |-> (s + 1) \div 2, face |-> s]]
           \o [s \in 1 .. 8 |-> [attribute |-> 5 + ((s - 1) \div 4), face |-> 12 + s]])
\* The ends of a bar's layers are 1 and 3, 2 and 4; inside 5, outside 6, caps 7, 8.
BarSides == <<<<1, 1>>, <<3, 2>>, <<5, 9>>, <<5, 10>>, <<6, 11>>, <<6, 12>>, <<2, 5>>, <<4, 6>>>>
            \o [s \in 1 .. 8 |-> <<7 + ((s - 1) \div 4), 12 + s>>]
BarBoundary(order) ==
  WithBoundary(Bar, [s \in 1 .. Len(order) |-> [attribute |-> order[s][1], face |-> order[s][2]]])

PathMeshesDef ==
  [ring4 |-> Internal(Ring4, 4), ring6 |-> Internal(Ring6, 6), sides |-> Sides,
   solid |-> [Sides EXCEPT !.axis = {Vertex(i, 0, 0) : i \in 0 .. 3}],
   bar |-> BarBoundary(BarSides), reversed |-> BarBoundary(Reverse(BarSides))]

Terminal(m, kind, body) ==
  [mesh |-> m, kind |-> kind, conductor |-> body,
   ess |-> {}, input |-> {}, output |-> {}, cut |-> {}, arc |-> 0]

Sector(S) == {<<i, j>> : i \in S, j \in {1, 2}}
InLayer(n, j) == {<<i, j>> : i \in 0 .. n - 1}

MaxCutFaces == 3
Planes(S) == {2 * i + j : i \in S, j \in {1, 2}}
Cuts ==
  {[Terminal("ring4", "cut", Sector(0 .. 3)) EXCEPT !.cut = S] :
      S \in {T \in SUBSET (1 .. 12) : Cardinality(T) <= MaxCutFaces}}
  \cup {[Terminal("ring4", "cut", InLayer(4, 1)) EXCEPT !.cut = Planes(S)] : S \in SUBSET (0 .. 3)}
  \cup {[Terminal("ring6", "cut", Sector(0 .. 5)) EXCEPT !.cut = Planes(S)] : S \in SUBSET (0 .. 5)}

Arc(first, count) == {(first + i) % 4 : i \in 0 .. count - 1}
Across(first, count) == {1 + ((first + i) % 4) : i \in 1 .. count - 1}
Arcs ==
  {[Terminal("sides", "azimuthal", Sector(Arc(a, n))) EXCEPT !.ess = S,
       !.arc = IF S \cap {1 + a, 1 + ((a + n) % 4)} = {} THEN 8 ELSE 2 * n] :
      a \in 0 .. 3, n \in 1 .. 3, S \in SUBSET (1 .. 6)}
  \cup {[Terminal("sides", "azimuthal", Sector(0 .. 3)) EXCEPT !.ess = S, !.arc = 8] :
      S \in SUBSET {5, 6}}
Uncrossed == {c \in Arcs : \A a \in 0 .. 3, n \in 1 .. 3 :
                c.conductor = Sector(Arc(a, n)) => c.ess \cap Across(a, n) = {}}

\* The caps of a bar's layers are both walls or neither is.
BarWalls == UNION {{S, S \cup {7, 8}} : S \in SUBSET (1 .. 6)}

Leads ==
  {[Terminal(m, "electrodes", C) EXCEPT !.ess = S, !.input = io[1], !.output = io[2]] :
      m \in {"bar", "reversed"}, C \in {InLayer(2, 1), Sector(0 .. 1)}, S \in BarWalls,
      io \in {<<{1}, {2}>>, <<{1}, {3}>>, <<{5}, {2}>>, <<{1}, {2, 4}>>}}

\* A conductor with vertices on its axis.
AroundAxis == {[Terminal("solid", "azimuthal", Sector(0 .. 3)) EXCEPT !.arc = 8]}

CasesDef ==
  {c \in UNION {AroundAxis, Cuts, Uncrossed, Leads} : c.conductor # {}}
===============================================================================
