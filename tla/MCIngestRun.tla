---------------------------- MODULE MCIngestRun ----------------------------
(* Two links that lead to one page, of which one is its canonical url.     *)
EXTENDS IngestRun

MCCanonical == [u \in Url |-> "page"]
=============================================================================
