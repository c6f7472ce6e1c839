---------------------------- MODULE MCDAFFReader ----------------------------
(***************************************************************************)
(* Small instances of DAFFReaderImpl.  A source is a record of the         *)
(* attributes the model tells apart: two IR contents with different peaks  *)
(* and orientations, one magnitude spectrum, and faulty sources.           *)
(***************************************************************************)
EXTENDS DAFFReaderImpl, TLC

Content(type, peak, orientation, fault) ==
  [type |-> type, peak |-> peak, orientation |-> orientation, fault |-> fault]

MCOrientations == {"front", "left"}

GoodSources ==
  {Content("IR", 2, "front", NoFault), Content("MS", 0, "left", NoFault)}

\* For the overall peak: two impulse responses, the second one softer.
MCPeakSources ==
  {Content("IR", 2, "front", NoFault), Content("IR", 1, "left", NoFault)}

FaultySources(faults) == {Content("MS", 0, "front", f) : f \in faults}

\* One fault per way of leaving a load and per set of blocks assigned by then.
MCFaults ==
       [stage : {"fileHeader", "blockTable"}, kind : {"invalid"}]
  \cup [stage : {"mainHeader", "contentHeader"}, kind : {"missing", "invalid"}]
  \cup [stage : {"data"}, kind : {"missing", "short"}]
  \cup [stage : {"metadata"}, kind : {"missing", "invalid"}]

MCSources == GoodSources \cup FaultySources(MCFaults)

MCFault == [s \in Sources |-> s.fault]
MCContentType == [s \in Sources |-> s.type]
MCOrientationOf == [s \in Sources |-> s.orientation]
MCPeak == [s \in Sources |-> s.peak]
===============================================================================
