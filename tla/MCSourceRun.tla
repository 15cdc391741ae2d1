---------------------------- MODULE MCSourceRun ----------------------------
(* Every program of up to FewNodes statements, and every one of up to      *)
(* MaxNodes in which at most MaxChecks statements have an index check,     *)
(* built and run.                                                          *)
EXTENDS SourceRun

CONSTANTS FewNodes, MaxChecks

MCPayload == {"e"}

Elements(l) == {program[l][i] : i \in DOMAIN program[l]}

Checked == {s \in UNION {Elements(l) : l \in DOMAIN program} : s.is \notin Silent /\ s.index}

WithinBounds == nodes <= FewNodes \/ Cardinality(Checked) <= MaxChecks

BoundedNext == Next /\ WithinBounds'

BoundedSpec == RunInit /\ [][BoundedNext]_vars
=============================================================================
