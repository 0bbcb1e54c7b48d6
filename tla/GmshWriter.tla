----------------------------- MODULE GmshWriter -----------------------------
(***************************************************************************)
(* The Gmsh results file (WriteGmshResults and SolverFieldWriter::WriteGmsh): *)
(* export nodes numbered by the degrees of freedom of an equispaced space,  *)
(* the mesh sections of MSH 2.2 and 4.1, the interpolation schemes, the     *)
(* views, and the mesh-side part kept from one file to the next.            *)
(*                                                                         *)
(* An element is [shape, attr, verts].  A position is the weight each vertex *)
(* has at it, in units of 1 / order^dimension: neighbours that share a face  *)
(* give the points on it the same weights.  Text is left out: a section is   *)
(* the records it lists.                                                    *)
(***************************************************************************)
EXTENDS GmshLayout

CONSTANTS Meshes,    \* mesh -> its element sequences, one per refinement
          Requests,  \* [mesh, order, version, fields, keep] of a write
          Fields     \* name -> [kind, vdim, bad]

VARIABLES refinement, cache, file, asked
writerVars == <<refinement, cache, file, asked>>

ElementsOf(m) == Meshes[m][refinement[m]]

Distinct(s) == FoldLeft(LAMBDA acc, x : IF x \in ToSet(acc) THEN acc ELSE Append(acc, x), <<>>, s)

(***************************************************************************)
(* The equispaced H1 space of the mesh library.                            *)
(***************************************************************************)
RECURSIVE Power(_, _)
Power(x, n) == IF n = 0 THEN 1 ELSE x * Power(x, n - 1)

\* The weight of corner i of an element at a lattice point.
Weight(shape, order, i, x) ==
  IF shape \in Simplex
  THEN Power(order, Dimension[shape] - 1)
         * (IF i = 1 THEN order - x[1] - x[2] - x[3] ELSE x[i - 1])
  ELSE FoldLeft(LAMBDA acc, c : acc * (IF Corners[shape][i][c] = 1 THEN x[c] ELSE order - x[c]),
                1, [c \in 1 .. Dimension[shape] |-> c])

Position(el, order, x) ==
  LET holds == {i \in DOMAIN el.verts : Weight(el.shape, order, i, x) # 0}
  IN  [v \in {el.verts[i] : i \in holds} |->
         Weight(el.shape, order, CHOOSE i \in holds : el.verts[i] = v, x)]

\* An element's own node order, which is not Gmsh's.
FeNodes(shape, order) ==
  LET side == order + 1
  IN  SelectSeq([n \in 1 .. side * side * side |->
                   <<(n - 1) \div (side * side), ((n - 1) \div side) % side, (n - 1) % side>>],
                LAMBDA x : x \in Lattice(shape, order))

\* The orders asked of a mesh that all its elements have a layout for.
OrdersOf(m) ==
  {o \in {r.order : r \in {q \in Requests : q.mesh = m}} :
     \A s \in DOMAIN Meshes[m] : \A e \in DOMAIN Meshes[m][s] : Supported(Meshes[m][s][e].shape, o)}

\* The same function, every entry computed once.
Tabulated(t) == CHOOSE u \in {t} : u = t

\* Positions of the elements' nodes, listed for each shape.
Positions(els, order, nodesOf) ==
  Tabulated([e \in DOMAIN els |->
    [j \in DOMAIN nodesOf[els[e].shape] |-> Position(els[e], order, nodesOf[els[e].shape][j])]])

(***************************************************************************)
(* BuildDofPermutation and BuildExportNodes.                               *)
(***************************************************************************)
\* Gmsh node slot -> the element's local node at the same point.
BuildDofPermutation(own, ref) ==
  [k \in DOMAIN ref |-> CHOOSE j \in DOMAIN own : own[j] = ref[k]]

\* Faulty: the element of a node is the last one, the point in it the first's.
Representative_Mixed(holders) ==
  [elem |-> Last(holders)[1], slot |-> holders[1][2]]
\* Element and point are overwritten together: the last element's stand.
Representative(holders) ==
  [elem |-> Last(holders)[1], slot |-> Last(holders)[2]]

\* at: the positions of the elements' nodes in Gmsh's order; dofs: the positions in
\* the order the elements meet them; ids: Gmsh-ordered node ids of the elements.
BuildExportNodes(els, order) ==
  LET shapes == {els[e].shape : e \in DOMAIN els}
      own == Tabulated([s \in shapes |-> FeNodes(s, order)])
      ref == Tabulated([s \in shapes |-> Layout(s, order)])
      perm == Tabulated([s \in shapes |-> BuildDofPermutation(own[s], ref[s])])
      ownAt == Positions(els, order, own)
      at == Positions(els, order, ref)
      dofs == Distinct(FlattenSeq(ownAt))
      ids == Tabulated([e \in DOMAIN els |->
               [k \in DOMAIN perm[els[e].shape] |->
                  CHOOSE d \in DOMAIN dofs : dofs[d] = ownAt[e][perm[els[e].shape][k]]]])
      slots == FlattenSeq([e \in DOMAIN ids |-> [k \in DOMAIN ids[e] |-> <<e, k>>]])
      holders == Tabulated([d \in DOMAIN dofs |->
                   SelectSeq(slots, LAMBDA x : ids[x[1]][x[2]] = d)])
  IN  [at |-> at,
       nodes |->
         [order |-> order,
          node |-> [d \in DOMAIN dofs |-> Representative(holders[d])],
          coord |-> [d \in DOMAIN dofs |-> at[Last(holders[d])[1]][Last(holders[d])[2]]],
          elem_type |-> [e \in DOMAIN ids |-> GmshTypes[els[e].shape][order]],
          elem_nodes |-> ids]]

ExportNodes ==
  [m \in DOMAIN Meshes |-> [s \in DOMAIN Meshes[m] |->
    [o \in OrdersOf(m) |-> BuildExportNodes(Meshes[m][s], o)]]]
Exported(r) == ExportNodes[r.mesh][refinement[r.mesh]][r.order]

(***************************************************************************)
(* WriteMeshBlock22 and WriteMeshBlock41.                                  *)
(***************************************************************************)
WriteMeshBlock22(els, nodes) ==
  [version |-> 22, coord |-> nodes.coord, entities |-> <<>>,
   blocks |-> [e \in DOMAIN els |->
                 [entity |-> els[e].attr, type |-> nodes.elem_type[e],
                  lines |-> <<[tag |-> e, ids |-> nodes.elem_nodes[e]]>>]]]

\* One attribute may hold triangles and quads, and a block has one type.
BlockKey(els, nodes, e) == <<els[e].attr, nodes.elem_type[e]>>

WriteMeshBlock41(els, nodes) ==
  LET keys == {BlockKey(els, nodes, e) : e \in DOMAIN els}
      sorted == SetToSortSeq(keys, LAMBDA x, y : x[1] < y[1] \/ (x[1] = y[1] /\ x[2] < y[2]))
  IN  [version |-> 41, coord |-> nodes.coord,
       entities |-> Distinct([b \in DOMAIN sorted |-> sorted[b][1]]),
       blocks |-> [b \in DOMAIN sorted |->
         [entity |-> sorted[b][1], type |-> sorted[b][2],
          lines |-> [i \in 1 .. Cardinality({e \in DOMAIN els : BlockKey(els, nodes, e) = sorted[b]}) |->
            LET e == SelectSeq([f \in DOMAIN els |-> f],
                               LAMBDA f : BlockKey(els, nodes, f) = sorted[b])[i]
            IN  [tag |-> e, ids |-> nodes.elem_nodes[e]]]]]]

WriteMeshBlock(els, nodes, version) ==
  IF version = 41 THEN WriteMeshBlock41(els, nodes) ELSE WriteMeshBlock22(els, nodes)

GmshFamily == [triangle |-> 3, square |-> 4, tetrahedron |-> 5, cube |-> 8]

WriteInterpolationScheme(els, order) ==
  LET geoms == Distinct([e \in DOMAIN els |-> els[e].shape])
  IN  [g \in DOMAIN geoms |->
         [family |-> GmshFamily[geoms[g]], shape |-> geoms[g], order |-> order]]

(***************************************************************************)
(* WriteGmsh's views and WriteNodeData / WriteElementNodeData.             *)
(***************************************************************************)
\* Only a scalar primary is continuous.
MakeView(name) ==
  IF Fields[name].kind = "Primary" /\ Fields[name].vdim = 1 THEN "NodeData" ELSE "ElementNodeData"

\* What a field is at a position seen from element e.
Continuous(name) == Fields[name].kind = "Primary" /\ Fields[name].vdim = 1
FieldValue(name, e, position) == <<name, IF Continuous(name) THEN 0 ELSE e, position>>
Finite(value) == \A v \in Fields[value[1]].bad : DOMAIN value[3] # {v}

WriteNodeData(at, nodes, name) ==
  [d \in DOMAIN nodes.coord |->
     <<FieldValue(name, nodes.node[d].elem, at[nodes.node[d].elem][nodes.node[d].slot])>>]

\* Driven by the layout, so in the order of the element's connectivity.
WriteElementNodeData(at, name) ==
  [e \in DOMAIN at |-> [k \in DOMAIN at[e] |-> FieldValue(name, e, at[e][k])]]

View(at, nodes, name) ==
  [name |-> name, kind |-> MakeView(name),
   rows |-> IF MakeView(name) = "NodeData" THEN WriteNodeData(at, nodes, name)
            ELSE WriteElementNodeData(at, name)]

Writable(view) == \A r \in DOMAIN view.rows : \A i \in DOMAIN view.rows[r] : Finite(view.rows[r][i])

(***************************************************************************)
(* WriteGmshResults.                                                       *)
(***************************************************************************)
Nothing == [key |-> <<>>, nodes |-> <<>>, block |-> <<>>, schemes |-> <<>>]

\* Faulty: the refinement sequence is not part of the key.
Key_NoSequence(r) == <<r.mesh, r.order, r.version>>
Key(r) == <<r.mesh, refinement[r.mesh], r.order, r.version>>

Build(r) ==
  LET els == ElementsOf(r.mesh)
      nodes == Exported(r).nodes
  IN  [key |-> Key(r), nodes |-> nodes, block |-> WriteMeshBlock(els, nodes, r.version),
       schemes |-> WriteInterpolationScheme(els, r.order)]

\* The views up to the first that has a value that is no number.
Views(at, nodes, fields) ==
  FoldLeft(LAMBDA acc, name :
             IF acc.complete
             THEN LET view == View(at, nodes, name)
                  IN  IF Writable(view) THEN [acc EXCEPT !.views = Append(@, view)]
                      ELSE [acc EXCEPT !.complete = FALSE]
             ELSE acc,
           [complete |-> TRUE, views |-> <<>>], fields)

Reused(r) == r.keep /\ cache.key = Key(r)

\* BuildExportNodes throws for an element Gmsh has no layout for; the file is
\* open and empty by then and the part kept so far stands.
WriteUnsupported(r) ==
  /\ ~Reused(r)
  /\ \E e \in DOMAIN ElementsOf(r.mesh) : ~Supported(ElementsOf(r.mesh)[e].shape, r.order)
  /\ file' = [complete |-> FALSE, block |-> <<>>, schemes |-> <<>>, views |-> <<>>]
  /\ UNCHANGED cache

WriteParts(r) ==
  /\ Reused(r) \/ \A e \in DOMAIN ElementsOf(r.mesh) : Supported(ElementsOf(r.mesh)[e].shape, r.order)
  /\ \E part \in {IF Reused(r) THEN cache ELSE Build(r)} :
     \E written \in {Views(Exported(r).at, part.nodes, r.fields)} :
       /\ file' = [complete |-> written.complete, block |-> part.block,
                   schemes |-> part.schemes, views |-> written.views]
       /\ cache' = IF r.keep THEN part ELSE cache

WriteGmshResults(r) ==
  /\ WriteUnsupported(r) \/ WriteParts(r)
  /\ asked' = r
  /\ UNCHANGED refinement

\* Between two files the driver may have refined the mesh.
Refine(m) ==
  /\ refinement[m] < Len(Meshes[m])
  /\ refinement' = [refinement EXCEPT ![m] = @ + 1]
  /\ file' = [complete |-> FALSE, block |-> <<>>, schemes |-> <<>>, views |-> <<>>]
  /\ UNCHANGED <<cache, asked>>

WriterInit ==
  /\ refinement = [m \in DOMAIN Meshes |-> 1]
  /\ cache = Nothing
  /\ file = [complete |-> FALSE, block |-> <<>>, schemes |-> <<>>, views |-> <<>>]
  /\ asked \in Requests

WriterNext == (\E r \in Requests : WriteGmshResults(r)) \/ (\E m \in DOMAIN Meshes : Refine(m))

WriterSpec == WriterInit /\ [][WriterNext]_writerVars

(***************************************************************************)
(* Properties, of what a reader finds in a file that was written to its end. *)
(***************************************************************************)
FileLines == {<<b, i>> \in (DOMAIN file.block.blocks) \X (1 .. Len(ElementsOf(asked.mesh))) :
                i \in DOMAIN file.block.blocks[b].lines}
LineOf(e) == CHOOSE bi \in FileLines : file.block.blocks[bi[1]].lines[bi[2]].tag = e
BlockOf(e) == file.block.blocks[LineOf(e)[1]]
IdsOf(e) == BlockOf(e).lines[LineOf(e)[2]].ids
PositionsOf(e) == Exported(asked).at[e]

ShapeOfType(type, order) == CHOOSE s \in Shapes : Supported(s, order) /\ GmshTypes[s][order] = type

\* The export nodes name every position once, and the kept part is of one mesh.
WriterTypeOK ==
  /\ refinement \in [DOMAIN Meshes -> 1 .. 2]
  /\ asked \in Requests
  /\ cache.key # <<>> =>
       /\ IsInjective(cache.nodes.coord)
       /\ \A e \in DOMAIN cache.nodes.elem_nodes :
            IsInjective(cache.nodes.elem_nodes[e])

\* In both formats a reader finds every element once, with its own type, its
\* own attribute as the block's entity, and its nodes where the element has
\* them, in Gmsh's order; neighbours name shared nodes by the same tag.
ElementsAreListed ==
  file.complete =>
    \E els \in {ElementsOf(asked.mesh)} :
      /\ Cardinality(FileLines) = Len(els)
      /\ IsInjective(file.block.coord)
      /\ \A e \in DOMAIN els :
           /\ \E bi \in FileLines : file.block.blocks[bi[1]].lines[bi[2]].tag = e
           /\ BlockOf(e).type = GmshTypes[els[e].shape][asked.order]
           /\ BlockOf(e).entity = els[e].attr
           /\ asked.version = 41 => els[e].attr \in ToSet(file.block.entities)
           /\ [k \in DOMAIN IdsOf(e) |-> file.block.coord[IdsOf(e)[k]]] = PositionsOf(e)

\* Every element type in the file has one scheme, under the family Gmsh files
\* that type in, whose basis has the number of nodes the element lists.
SchemeCoversMesh ==
  file.complete =>
    \A b \in DOMAIN file.block.blocks :
      \E s \in {ShapeOfType(file.block.blocks[b].type, asked.order)} :
        /\ Cardinality({g \in DOMAIN file.schemes : file.schemes[g].family = GmshFamily[s]}) = 1
        /\ \E g \in DOMAIN file.schemes :
             /\ file.schemes[g] = [family |-> GmshFamily[s], shape |-> s, order |-> asked.order]
             /\ \A i \in DOMAIN file.block.blocks[b].lines :
                  Len(file.block.blocks[b].lines[i].ids) = Cardinality(Lattice(s, asked.order))

\* What a file says of the mesh is the mesh as it is, also when that part was kept
\* from an earlier file, and it can be interpolated on.
MeshRoundTrips == WriterTypeOK /\ ElementsAreListed /\ SchemeCoversMesh

\* The value a reader has at a node of an element, by the node's tag or by its
\* place in the element, is the field's value there seen from that element:
\* sampling, numbering and connectivity agree, and only a continuous field is
\* listed once per node.
FieldsRoundTrip ==
  file.complete =>
    /\ Len(file.views) = Len(asked.fields)
    /\ \A i \in DOMAIN file.views :
         LET view == file.views[i]
         IN  /\ view.name = asked.fields[i]
             /\ \A e \in DOMAIN ElementsOf(asked.mesh) :
                  \E ids \in {IdsOf(e)}, at \in {PositionsOf(e)} :
                    \A k \in DOMAIN ids :
                      FieldValue(view.name, e, at[k]) =
                        IF view.kind = "NodeData" THEN view.rows[ids[k]][1] ELSE view.rows[e][k]
=============================================================================
