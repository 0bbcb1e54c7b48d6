------------------------------ MODULE RunContract ------------------------------
(***************************************************************************)
(* What a magnetoquasistatic run promises, whatever it caches: it answers    *)
(* its plan, item by item, each item on the mesh of the moment, at the       *)
(* item's own frequency and for the item's own drive; a refinement discards   *)
(* every answer; and a run only ends with the whole plan answered on one      *)
(* mesh, or failed.                                                        *)
(***************************************************************************)
EXTENDS Naturals, Sequences, FiniteSets

VARIABLES
  plan,      \* the solves of a pass: a sequence of [Frequency, driven]
  mesh,      \* how often the mesh was refined
  answered,  \* answers that hold on the current mesh
  status     \* idle | running | failed

cvars == <<plan, mesh, answered, status>>

\* Every part of an answer agrees on one mesh and one frequency.
Answer(i) == [item |-> i, meshes |-> {mesh}, frequencies |-> {plan[i].Frequency},
              driven |-> plan[i].driven]
Answers == {Answer(i) : i \in DOMAIN plan}

Start ==
  /\ status = "idle"
  /\ status' = "running"
  /\ answered' = {}
  /\ UNCHANGED <<plan, mesh>>

Solve ==
  /\ status = "running"
  /\ \E i \in DOMAIN plan :
        /\ i = Cardinality(answered) + 1
        /\ answered' = answered \cup {Answer(i)}
  /\ UNCHANGED <<plan, mesh, status>>

Refine ==
  /\ status = "running"
  /\ answered = Answers
  /\ mesh' = mesh + 1
  /\ answered' = {}
  /\ UNCHANGED <<plan, status>>

Finish ==
  /\ status = "running"
  /\ answered = Answers
  /\ status' = "idle"
  /\ UNCHANGED <<plan, mesh, answered>>

\* A failing refinement may leave the mesh refined.
Fail ==
  /\ status' = "failed"
  /\ mesh' \in {mesh, mesh + 1}
  /\ UNCHANGED <<plan, answered>>

CInit == mesh = 0 /\ answered = {} /\ status = "idle"
CNext == Start \/ Solve \/ Refine \/ Finish \/ Fail
CSpec == CInit /\ [][CNext]_cvars
================================================================================
