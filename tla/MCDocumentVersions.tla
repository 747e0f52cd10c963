------------------------ MODULE MCDocumentVersions ------------------------
(* DocumentVersions on small instances, and its refinement of              *)
(* DocumentHistory.                                                        *)
EXTENDS DocumentVersions, TLC

Symmetry ==
  Permutations(Requests) \cup Permutations(Processes) \cup Permutations(Checksums)

HistoryOf(d) ==
  [n \in 1..Cardinality(VersionsOf(d)) |->
     (CHOOSE v \in VersionsOf(d) : v.version_number = n).checksum]

History ==
  INSTANCE DocumentHistory WITH
    Documents <- Requests,
    history <- [d \in Requests |-> HistoryOf(d)],
    deleted <- {d \in Requests : Deleted(d)}

(* The committed tables behave as DocumentHistory: each commit creates a   *)
(* document, appends one file or deletes a live document, and every other  *)
(* step, failure and crash leaves the history as it is.                    *)
ImplementsDocumentHistory == History!Spec
===========================================================================
