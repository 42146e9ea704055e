--------------------------- MODULE MCTraceExport ----------------------------
EXTENDS TraceExport
CONSTANTS r1, r2

\* Two requests and what one claims of the other; one request, both outputs
\* and both signals.
MCScenarios ==
  {[requests |-> Requests, outputs |-> {"file"}, signals |-> {"SIGTERM"}],
   [requests |-> {r1}, outputs |-> Outputs, signals |-> Signals]}
=============================================================================
