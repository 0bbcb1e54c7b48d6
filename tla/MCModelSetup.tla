------------------------------ MODULE MCModelSetup ------------------------------
(* TLC instance of three parts of the setup that share no state: the essential degrees *)
(* of freedom, the gauge's spaces and the path of a 3D                               *)
(* terminal's current.  A behaviour is of one of them, the others stay in a fixed       *)
(* initial state.                                                                  *)
EXTENDS MCEssentialDofs, MCGaugeSpace, MCConductorPath

CONSTANT Subjects   \* of "essential_dofs", "gauge" and "path"

VARIABLE subject

\* The others than the subject start from one input.
SetupInit ==
  /\ subject \in Subjects
  /\ subject = "path" \/ case \in AroundAxis
  /\ PathInit
  /\ subject = "gauge" \/ (mesh = Ring /\ ess_bdr = {})
  /\ GInit
  /\ subject = "essential_dofs" \/ model = IdleModel
  /\ EInit

SetupNext ==
  \/ subject = "essential_dofs" /\ ENext /\ UNCHANGED <<subject, gvars, pvars>>
  \/ subject = "gauge" /\ GNext /\ UNCHANGED <<subject, evars, pvars>>
  \/ subject = "path" /\ PathNext /\ UNCHANGED <<subject, evars, gvars>>

SetupSpec == SetupInit /\ [][SetupNext]_<<subject, evars, gvars, pvars>>
===============================================================================
