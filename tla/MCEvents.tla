------------------------------ MODULE MCEvents -------------------------------
(***************************************************************************)
(* Small instances of Events: one event, two or three requests at a time,  *)
(* and a clock that runs long enough to sweep what starts first.           *)
(***************************************************************************)
EXTENDS Events

CONSTANT e0  \* the one event

A(op, start, end, name, severity) ==
  [op |-> op, e |-> e0, start |-> start, end |-> end, name |-> name, severity |-> severity]

\* A creation with and without a start, a publish that ends the event on the way,
\* an end with and without a time, and an update.
MCAsks ==
  {A("create", Unset, Unset, NoText, NoText), A("create", 1, Unset, "text", NoText),
   A("publish", Unset, 1, NoText, NoText), A("end", Unset, Unset, NoText, NoText),
   A("end", Unset, 0, NoText, NoText),
   A("update", Unset, Unset, "text", NoText)}

\* A creation, and two updates of different fields.
MCUpdates ==
  {A("create", Unset, Unset, NoText, NoText), A("update", Unset, Unset, "text", NoText),
   A("update", Unset, Unset, NoText, "text")}
=============================================================================
