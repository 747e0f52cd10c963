-------------------------- MODULE DocumentHistory --------------------------
(***************************************************************************)
(* What the version service promises about one set of documents, with no   *)
(* transactions, no storage and no requests: a document is created with    *)
(* its first file, files are appended to its history one after another,    *)
(* never the same file twice in a row, and its deletion is final.          *)
(***************************************************************************)
EXTENDS Sequences, SequencesExt

CONSTANTS Documents, Checksums

VARIABLES
  history,  \* the files of each document, oldest first
  deleted   \* the documents that are logically deleted

Init ==
  /\ history = [d \in Documents |-> <<>>]
  /\ deleted = {}

Create(d, c) ==
  /\ history[d] = <<>>
  /\ history' = [history EXCEPT ![d] = <<c>>]
  /\ UNCHANGED deleted

AppendVersion(d, c) ==
  /\ history[d] # <<>> /\ d \notin deleted
  /\ c # Last(history[d])
  /\ history' = [history EXCEPT ![d] = Append(@, c)]
  /\ UNCHANGED deleted

Delete(d) ==
  /\ history[d] # <<>> /\ d \notin deleted
  /\ deleted' = deleted \cup {d}
  /\ UNCHANGED history

Next ==
  \E d \in Documents :
    \/ \E c \in Checksums : Create(d, c) \/ AppendVersion(d, c)
    \/ Delete(d)

Spec == Init /\ [][Next]_<<history, deleted>>
===========================================================================
