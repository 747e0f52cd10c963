----------------------- MODULE DocumentHistory_proofs ----------------------
(***************************************************************************)
(* The committed tables of DocumentVersions implement DocumentHistory, for *)
(* any sets of requests, processes and checksums and any set of faults.    *)
(* DocumentVersions_proofs says that version numbers have no gap; here they *)
(* are counted, so that the rows of a document are a sequence of files.    *)
(***************************************************************************)
EXTENDS DocumentVersions_proofs, MCDocumentVersions, FiniteSetTheorems, SequenceTheorems

---------------------------------------------------------------------------
(* A document with k versions has the numbers 1 to k.                      *)

Counted ==
  \A d \in Requests : IsFiniteSet(VersionsOf(d)) /\ NumbersOf(d) = 1..Cardinality(VersionsOf(d))
HInv == IInv /\ Counted

Row(d, k) == CHOOSE v \in VersionsOf(d) : v.version_number = k

(* The k-th row is the one row that has the number k.                      *)
LEMMA RowIsUnique ==
  ASSUME IInv, NEW d, NEW v \in VersionsOf(d)
  PROVE  Row(d, v.version_number) = v
<1>1. \A w \in VersionsOf(d) : w.version_number = v.version_number => w = v
  BY DEF IInv, VersionNumbersContiguous, VersionsOf
<1> QED
  BY <1>1 DEF Row

(* The history of a document is a sequence of as many files as it has rows. *)
LEMMA HistoryIsSequence ==
  ASSUME HInv, NEW d \in Requests
  PROVE  /\ HistoryOf(d) \in Seq(Checksums)
         /\ Len(HistoryOf(d)) = Cardinality(VersionsOf(d))
         /\ \A v \in VersionsOf(d) :
              /\ v.version_number \in 1..Cardinality(VersionsOf(d))
              /\ HistoryOf(d)[v.version_number] = v.checksum
<1> DEFINE k == Cardinality(VersionsOf(d))
<1>1. k \in Nat /\ NumbersOf(d) = 1..k
  BY FS_CardinalityType DEF HInv, Counted
<1>2. \A i \in 1..k : \E v \in VersionsOf(d) : v.version_number = i
  BY <1>1 DEF NumbersOf
<1>3. \A i \in 1..k : Row(d, i) \in VersionsOf(d) /\ Row(d, i).checksum \in Checksums
  BY <1>2 DEF Row, VersionsOf, HInv, IInv, TypeOK, VersionRow
<1>4. HistoryOf(d) = [i \in 1..k |-> Row(d, i).checksum]
  BY DEF HistoryOf, Row
<1> HIDE DEF k
<1>5. HistoryOf(d) \in Seq(Checksums) /\ Len(HistoryOf(d)) = k
  BY <1>1, <1>3, <1>4
<1>6. \A v \in VersionsOf(d) : v.version_number \in 1..k
  BY <1>1 DEF NumbersOf
<1>7. \A v \in VersionsOf(d) : HistoryOf(d)[v.version_number] = v.checksum
  BY <1>4, <1>6, RowIsUnique DEF HInv
<1> QED
  BY <1>5, <1>6, <1>7 DEF k

\* The same of every document, and of the state after a step.
HistoriesAreSequences ==
  \A d \in Requests :
    /\ HistoryOf(d) \in Seq(Checksums)
    /\ Len(HistoryOf(d)) = Cardinality(VersionsOf(d))
    /\ \A v \in VersionsOf(d) : HistoryOf(d)[v.version_number] = v.checksum
LEMMA HistoriesNow == HInv => HistoriesAreSequences
  BY HistoryIsSequence DEF HistoriesAreSequences
LEMMA HistoriesNext == HInv' => HistoriesAreSequences'
  BY HistoriesNow, PTL

(* A commit gives its document the next number, and no other a version.    *)
LEMMA CommitCounts ==
  ASSUME HInv, NEW r \in Requests, CommitUpload(r),
         NEW d, d = request[r].document, NEW new, new = NewVersion(r)
  PROVE  /\ d \in Requests /\ ~Deleted(d)
         /\ new.version_number = Cardinality(VersionsOf(d)) + 1
         /\ new.checksum = request[r].checksum /\ new.checksum \in Checksums
         /\ \A w \in VersionsOf(d) :
              w.version_number = Cardinality(VersionsOf(d)) => w.checksum # new.checksum
         /\ VersionsOf(d)' = VersionsOf(d) \cup {new}
         /\ Cardinality(VersionsOf(d)') = Cardinality(VersionsOf(d)) + 1
         /\ IsFiniteSet(VersionsOf(d)')
         /\ \A x \in Requests \ {d} : VersionsOf(x)' = VersionsOf(x)
<1> DEFINE k == Cardinality(VersionsOf(d))
           n == request[r].number
<1>1. /\ d \in Requests /\ n \in Nat \ {0} /\ request[r].checksum \in Checksums /\ ~Deleted(d)
      /\ \A w \in VersionsOf(d) : w.version_number < n
      /\ n = 1 \/ n - 1 \in NumbersOf(d)
      /\ \A w \in VersionsOf(d) : w.version_number + 1 = n => w.checksum # request[r].checksum
  BY PreparedVersionFits DEF CommitUpload, HInv
<1>2. k \in Nat /\ IsFiniteSet(VersionsOf(d)) /\ NumbersOf(d) = 1..k
  BY <1>1, FS_CardinalityType DEF HInv, Counted
<1>3. /\ new.document_id = d /\ new.version_number = n /\ new.checksum = request[r].checksum
      /\ versions' = versions \cup {new}
  BY DEF CommitUpload, NewVersion
<1>4. VersionsOf(d)' = VersionsOf(d) \cup {new} /\ \A x \in Requests \ {d} : VersionsOf(x)' = VersionsOf(x)
  BY <1>3 DEF VersionsOf
<1>5. \A i \in 1..k : i < n
  <2>1. \A i \in NumbersOf(d) : i < n
    BY <1>1 DEF NumbersOf
  <2> QED
    BY <1>2, <2>1
<1>6. n = k + 1
  <2>1. n = 1 \/ n - 1 \in 1..k
    BY <1>1, <1>2
  <2>2. k = 0 \/ k \in 1..k
    BY <1>2
  <2> HIDE DEF k, n
  <2> QED
    BY <1>1, <1>2, <1>5, <2>1, <2>2
<1>7. new \notin VersionsOf(d)
  BY <1>1, <1>3
<1>8. IsFiniteSet(VersionsOf(d)') /\ Cardinality(VersionsOf(d)') = k + 1
  BY <1>2, <1>4, <1>7, FS_AddElement
<1>9. \A w \in VersionsOf(d) : w.version_number = k => w.checksum # new.checksum
  BY <1>1, <1>2, <1>3, <1>6
<1> QED
  BY <1>1, <1>3, <1>4, <1>6, <1>8, <1>9

---------------------------------------------------------------------------
(* The invariant.                                                          *)

LEMMA InitHInv == Init => HInv
<1> SUFFICES ASSUME Init PROVE HInv
  OBVIOUS
<1>1. \A d \in Requests : VersionsOf(d) = {} /\ NumbersOf(d) = {}
  BY DEF Init, VersionsOf, NumbersOf
<1> QED
  BY <1>1, InitIInv, FS_EmptySet DEF HInv, Counted

LEMMA NextHInv == HInv /\ [Next]_vars => HInv'
<1> SUFFICES ASSUME HInv, [Next]_vars PROVE HInv'
  OBVIOUS
<1>1. IInv'
  BY NextIInv DEF HInv
<1>2. CASE versions' = versions
  <2>1. \A d \in Requests : VersionsOf(d)' = VersionsOf(d) /\ NumbersOf(d)' = NumbersOf(d)
    BY <1>2 DEF VersionsOf, NumbersOf
  <2> QED
    BY <1>1, <2>1 DEF HInv, Counted
<1>3. ASSUME NEW r \in Requests, CommitUpload(r) PROVE HInv'
  <2>0. PICK d, new : d = request[r].document /\ new = NewVersion(r)
    OBVIOUS
  <2>1. /\ d \in Requests /\ new.version_number = Cardinality(VersionsOf(d)) + 1
        /\ VersionsOf(d)' = VersionsOf(d) \cup {new}
        /\ Cardinality(VersionsOf(d)') = Cardinality(VersionsOf(d)) + 1
        /\ IsFiniteSet(VersionsOf(d)')
        /\ \A x \in Requests \ {d} : VersionsOf(x)' = VersionsOf(x)
    BY <1>3, <2>0, CommitCounts
  <2>2. \A x \in Requests \ {d} : NumbersOf(x)' = NumbersOf(x)
    BY <2>1 DEF NumbersOf
  <2>3. NumbersOf(d)' = NumbersOf(d) \cup {Cardinality(VersionsOf(d)) + 1}
    BY <2>1 DEF NumbersOf
  <2>4. Cardinality(VersionsOf(d)) \in Nat /\ NumbersOf(d) = 1..Cardinality(VersionsOf(d))
    BY <2>1, FS_CardinalityType DEF HInv, Counted
  <2>5. NumbersOf(d)' = 1..Cardinality(VersionsOf(d)')
    BY <2>1, <2>3, <2>4
  <2> QED
    BY <1>1, <2>1, <2>2, <2>5 DEF HInv, Counted
<1>4. ASSUME NEW r \in Requests, CommitDelete(r) PROVE versions' = versions
  BY <1>4 DEF CommitDelete
<1> QED
  BY <1>2, <1>3, <1>4, OnlyCommitsChangeTables

---------------------------------------------------------------------------
(* The refinement.                                                         *)

history == [d \in Requests |-> HistoryOf(d)]
deleted == {d \in Requests : Deleted(d)}

LEMMA InitRefines == Init => History!Init
<1> SUFFICES ASSUME Init PROVE History!Init
  OBVIOUS
<1>1. \A d \in Requests : VersionsOf(d) = {} /\ ~Deleted(d)
  BY DEF Init, VersionsOf, Deleted, NoDocument
<1>2. \A d \in Requests : HistoryOf(d) = <<>>
  <2>1. ASSUME NEW d \in Requests PROVE HistoryOf(d) = <<>>
    <3>1. HistoryOf(d) = [i \in 1..0 |-> Row(d, i).checksum]
      BY <1>1, FS_EmptySet DEF HistoryOf, Row
    <3> QED
      BY <3>1
  <2> QED
    BY <2>1
<1> QED
  BY <1>1, <1>2 DEF History!Init

(* A step that leaves the rows of a document leaves its history.           *)
LEMMA HistoryStays ==
  ASSUME NEW d, VersionsOf(d)' = VersionsOf(d)
  PROVE  HistoryOf(d)' = HistoryOf(d)
  BY DEF HistoryOf

(* The commit of an upload appends its file to the history.                *)
LEMMA CommitAppends ==
  ASSUME HInv, HInv', NEW r \in Requests, CommitUpload(r), NEW d, d = request[r].document
  PROVE  HistoryOf(d)' = Append(HistoryOf(d), request[r].checksum)
<1>0. PICK c, k, new : c = request[r].checksum /\ k = Cardinality(VersionsOf(d)) /\ new = NewVersion(r)
  OBVIOUS
<1>1. /\ d \in Requests /\ new.version_number = k + 1 /\ new.checksum = c /\ c \in Checksums
      /\ VersionsOf(d)' = VersionsOf(d) \cup {new}
      /\ Cardinality(VersionsOf(d)') = k + 1
  BY <1>0, CommitCounts
<1>2. /\ HistoryOf(d) \in Seq(Checksums) /\ Len(HistoryOf(d)) = k /\ k \in Nat
      /\ NumbersOf(d) = 1..k
      /\ \A v \in VersionsOf(d) : HistoryOf(d)[v.version_number] = v.checksum
  BY <1>0, <1>1, HistoryIsSequence, FS_CardinalityType DEF HInv, Counted
<1>3. /\ HistoryOf(d)' \in Seq(Checksums) /\ Len(HistoryOf(d)') = k + 1
      /\ \A v \in VersionsOf(d)' : HistoryOf(d)'[v.version_number] = v.checksum
  BY <1>1, HistoriesNext DEF HistoriesAreSequences
<1>4. \A i \in 1..k : HistoryOf(d)'[i] = HistoryOf(d)[i]
  <2>1. ASSUME NEW i \in 1..k PROVE \E v \in VersionsOf(d) : v.version_number = i
    BY <1>2 DEF NumbersOf
  <2> QED
    BY <1>1, <1>2, <1>3, <2>1
<1>5. HistoryOf(d)'[k + 1] = c
  BY <1>1, <1>3
<1> QED
  BY <1>0, <1>1, <1>2, <1>3, <1>4, <1>5, AppendProperties, SeqEqual

(* Every step is a step of DocumentHistory or leaves it as it is.          *)
LEMMA NextRefines ==
  ASSUME HInv, HInv', [Next]_vars
  PROVE  History!Next \/ UNCHANGED <<history, deleted>>
<1>1. CASE UNCHANGED <<documents, versions>>
  <2>1. \A d \in Requests : HistoryOf(d)' = HistoryOf(d) /\ Deleted(d)' = Deleted(d)
    BY <1>1, HistoryStays DEF VersionsOf, Deleted
  <2> QED
    BY <2>1 DEF history, deleted
<1>2. ASSUME NEW r \in Requests, CommitUpload(r) PROVE History!Next
  <2>0. PICK d, c, k, new : /\ d = request[r].document /\ c = request[r].checksum
                            /\ k = Cardinality(VersionsOf(d)) /\ new = NewVersion(r)
    OBVIOUS
  <2>1. /\ d \in Requests /\ ~Deleted(d) /\ c \in Checksums /\ new.checksum = c
        /\ \A w \in VersionsOf(d) : w.version_number = k => w.checksum # c
        /\ \A x \in Requests \ {d} : VersionsOf(x)' = VersionsOf(x)
    BY <1>2, <2>0, CommitCounts
  <2>2. HistoryOf(d)' = Append(HistoryOf(d), c)
    BY <1>2, <2>0, CommitAppends
  <2>3. \A x \in Requests \ {d} : HistoryOf(x)' = HistoryOf(x)
    BY <2>1, HistoryStays
  <2>4. history' = [history EXCEPT ![d] = Append(history[d], c)]
    BY <2>1, <2>2, <2>3 DEF history
  <2>5. deleted' = deleted
    BY <1>2, <2>1 DEF CommitUpload, LinkVersion, deleted, Deleted, HInv, IInv, TypeOK, DocumentRow
  <2>6. /\ history[d] \in Seq(Checksums) /\ Len(history[d]) = k /\ k \in Nat
        /\ NumbersOf(d) = 1..k
        /\ \A v \in VersionsOf(d) : history[d][v.version_number] = v.checksum
    BY <2>0, <2>1, HistoryIsSequence, FS_CardinalityType DEF HInv, Counted, history
  <2>7. CASE k = 0
    <3>1. history[d] = <<>> /\ Append(history[d], c) = <<c>>
      <4>1. history[d] = <<>>
        BY <2>6, <2>7, EmptySeq
      <4>2. Append(<<>>, c) = <<c>>
        OBVIOUS
      <4> QED
        BY <4>1, <4>2
    <3> QED
      BY <2>1, <2>4, <2>5, <3>1 DEF History!Next, History!Create, history, deleted
  <2>8. CASE k # 0
    <3>1. PICK w \in VersionsOf(d) : w.version_number = k
      <4>1. k \in 1..k
        BY <2>6, <2>8
      <4>2. k \in NumbersOf(d)
        BY <2>6, <4>1
      <4> QED
        BY <4>2 DEF NumbersOf
    <3>2. history[d] # <<>> /\ history[d][Len(history[d])] # c
      BY <2>1, <2>6, <2>8, <3>1
    <3>3. d \notin deleted
      BY <2>1 DEF deleted
    <3> QED
      BY <2>1, <2>4, <2>5, <3>2, <3>3
      DEF History!Next, History!AppendVersion, History!Last, history, deleted
  <2> QED
    BY <2>7, <2>8
<1>3. ASSUME NEW r \in Requests, CommitDelete(r)
      PROVE  History!Next \/ UNCHANGED <<history, deleted>>
  <2>0. PICK d : d = request[r].document
    OBVIOUS
  <2>1. d \in Requests /\ Exists(d) /\ versions' = versions
    BY <1>3, <2>0 DEF CommitDelete, HInv, IInv, InputsKnown, ReadsStillHold
  <2>2. \A x \in Requests : HistoryOf(x)' = HistoryOf(x)
    BY <2>1, HistoryStays DEF VersionsOf
  <2>3. history' = history
    BY <2>2 DEF history
  <2>4. CASE documents' = documents
    BY <2>3, <2>4 DEF deleted, Deleted
  <2>5. CASE MarkDeleted(r) /\ Deleted(d)
    <3>1. deleted' = deleted
      BY <2>0, <2>1, <2>5, NoneAssumption
      DEF MarkDeleted, deleted, Deleted, HInv, IInv, TypeOK, DocumentRow
    <3> QED
      BY <2>3, <3>1
  <2>6. CASE MarkDeleted(r) /\ ~Deleted(d)
    <3>1. deleted' = deleted \cup {d} /\ d \notin deleted
      BY <2>0, <2>1, <2>6, NoneAssumption
      DEF MarkDeleted, deleted, Deleted, HInv, IInv, TypeOK, DocumentRow
    <3>2. history[d] # <<>>
      <4>1. PICK v \in VersionsOf(d) : TRUE
        BY <2>1 DEF HInv, IInv, CurrentIsLatest, CurrentVersions
      <4>2. Len(history[d]) \in Nat /\ v.version_number \in 1..Len(history[d])
        BY <2>1, HistoryIsSequence DEF history
      <4> QED
        BY <4>2
    <3> QED
      BY <2>1, <2>3, <3>1, <3>2 DEF History!Next, History!Delete, history, deleted
  <2> QED
    BY <1>3, <2>4, <2>5, <2>6 DEF CommitDelete
<1> QED
  BY <1>1, <1>2, <1>3, OnlyCommitsChangeTables

(* For any requests, processes, checksums and failures the committed       *)
(* tables behave as DocumentHistory: each commit creates a document,       *)
(* appends one new file to a live one or deletes it for good, and no other *)
(* step, rollback or crash shows.                                          *)
THEOREM HistoryIsImplemented == Spec => ImplementsDocumentHistory
<1>1. HInv /\ HInv' /\ [Next]_vars => [History!Next]_<<history, deleted>>
  BY NextRefines
<1> QED
  BY InitHInv, NextHInv, InitRefines, <1>1, PTL
  DEF Spec, ImplementsDocumentHistory, History!Spec, history, deleted
===========================================================================
