--------------------------- MODULE MCOrderedIngest ---------------------------
(***************************************************************************)
(* OrderedIngest with fewer workers than leaves, a window that is smaller  *)
(* than the schedule, a queue that fills up, and two epochs of which the   *)
(* first has two leaves.  The paced run has a deadline, the accelerated    *)
(* ones have none.                                                         *)
(***************************************************************************)
EXTENDS OrderedIngest

Config(mode, deadline) ==
  [mode |-> mode, deadline |-> deadline, accelerated |-> ~ deadline]

MCConfigs == {Config("proposed", TRUE), Config("baseline", FALSE), Config("vecro", FALSE)}
MCPaced == {Config("proposed", TRUE)}

=============================================================================
