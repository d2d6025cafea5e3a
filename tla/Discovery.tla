------------------------------ MODULE Discovery ------------------------------
(***************************************************************************)
(* A call of one of the two helpers that walk the resources of a BMC while *)
(* an exporter is made: the chassis, or the controllers of its drives.     *)
(***************************************************************************)
EXTENDS SystemEndpoints, DriveEndpoints

vars == <<evars, dvars>>

\* The variables of the helper that is not called.
EOff ==
  /\ tree = <<>> /\ pos = 1
  /\ chas = [s \in Slots |-> <<>>]
  /\ sysEnd = [k \in Kinds |-> <<>>]
  /\ slot = 1 /\ at = 1 /\ nested = FALSE
  /\ epc = "off"

DOff ==
  /\ ctrls = <<>> /\ ctrl = 1 /\ calls = <<>> /\ taking = Nothing
  /\ drives = [l \in Lists |-> <<>>]
  /\ dpc = "off"

Init == (EInit /\ DOff) \/ (DInit /\ EOff)

Next ==
  \/ (ENext /\ UNCHANGED dvars)
  \/ (DNext /\ UNCHANGED evars)

Spec == Init /\ [][Next]_vars

TypeOK == ETypeOK /\ DTypeOK
=============================================================================
