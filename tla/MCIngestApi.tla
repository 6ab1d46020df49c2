---------------------------- MODULE MCIngestApi ----------------------------
EXTENDS IngestApi, TLC

CONSTANTS r1, r2

\* A request with one event and one with two.
OneAndTwo == r1 :> 1 @@ r2 :> 2
=============================================================================
