--------------------------- MODULE MCPayloadPipeline ---------------------------
(* Model values for checking PayloadPipeline. *)
EXTENDS PayloadPipeline, TLC

CONSTANTS s1, s2, c1, c2

OneScene     == {s1}
TwoScenes    == {s1, s2}
NoReference  == {}
OneCli       == {c1}
TwoClis      == {c1, c2}
Symmetric    == Permutations(TwoScenes) \cup Permutations(TwoClis)

AllCommands     == Command
IngestReprocess == {"ingest", "reprocess"}
==============================================================================
