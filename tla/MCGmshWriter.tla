---------------------------- MODULE MCGmshWriter ----------------------------
(***************************************************************************)
(* TLC instance of GmshWriter: a plane mesh of triangles and a quad in two    *)
(* attributes and its refinement, two tetrahedra, two hexahedra, and a prism. *)
(***************************************************************************)
EXTENDS GmshWriter

El(shape, attr, verts) == [shape |-> shape, attr |-> attr, verts |-> verts]

MeshesDef ==
  [plane |-> << <<El("triangle", 7, <<2, 3, 5>>), El("square", 7, <<1, 2, 5, 4>>),
                  El("triangle", 2, <<6, 5, 3>>)>>,
                <<El("triangle", 7, <<2, 8, 5>>), El("square", 7, <<1, 2, 5, 4>>),
                  El("triangle", 2, <<6, 5, 8>>), El("triangle", 7, <<8, 2, 3>>),
                  El("triangle", 2, <<3, 6, 8>>)>> >>,
   tets |-> << <<El("tetrahedron", 3, <<1, 2, 3, 4>>), El("tetrahedron", 1, <<4, 3, 2, 5>>)>> >>,
   hexes |-> << <<El("cube", 1, <<1, 2, 3, 4, 5, 6, 7, 8>>),
                  El("cube", 1, <<9, 5, 8, 10, 11, 6, 7, 12>>)>> >>,
   layer |-> << <<El("tetrahedron", 1, <<1, 2, 3, 7>>), El("prism", 1, <<1, 2, 3, 4, 5, 6>>)>> >>]

FieldsDef ==
  [V |-> [kind |-> "Primary", vdim |-> 1, bad |-> {}],
   A |-> [kind |-> "Primary", vdim |-> 3, bad |-> {}],
   losses |-> [kind |-> "DerivedScalar", vdim |-> 1, bad |-> {}],
   E |-> [kind |-> "DerivedVector", vdim |-> 3, bad |-> {}],
   bad |-> [kind |-> "DerivedVector", vdim |-> 3, bad |-> {1}]]

Ask(meshes, orders, versions, fields, keeps) ==
  [mesh : meshes, order : orders, version : versions, fields : fields, keep : keeps]

RequestsDef ==
  Ask({"plane"}, {1, 2, 3}, {22, 41}, {<<"V", "losses">>, <<"V", "bad", "E">>}, {TRUE})
    \cup Ask({"plane"}, {4}, {41}, {<<"losses", "V">>}, {FALSE})
    \cup Ask({"tets"}, {3, 4}, {22, 41}, {<<"V", "A", "E">>}, {TRUE})
    \cup Ask({"hexes"}, {2, 3}, {22}, {<<"A", "V">>}, {TRUE})
    \cup Ask({"layer"}, {1}, {22}, {<<"V">>}, {TRUE})
    \cup Ask({"plane"}, {11}, {22}, {<<"V">>}, {TRUE})
=============================================================================
