-------------------------- MODULE UploadValidation --------------------------
(***************************************************************************)
(* What an upload must pass before anything is stored (validators.py): its *)
(* extension and content type, then one pass over the file in chunks that  *)
(* counts, decodes and keeps the first bytes, then the check of its type.  *)
(* Bytes are classes: what the checks tell apart.                          *)
(***************************************************************************)
EXTENDS Naturals, SequencesExt

CONSTANTS
  Uploads,          \* the uploads: [extension, mime, bytes, zip, entries]
  AllowedExtensions,\* of settings.document_allowed_extensions
  MimeTypes,        \* ALLOWED_MIME_TYPES, by extension
  RequiredEntries,  \* OOXML_REQUIRED_ENTRIES, by extension
  PdfSignature,     \* how a PDF starts
  BinarySignatures, \* how an executable starts
  ChunkSize,        \* UPLOAD_CHUNK_SIZE
  MaxSize,          \* document_max_upload_size_mb
  FirstLimit,       \* 8192, the first bytes that are kept
  MaxEntries,       \* MAX_ZIP_ENTRIES
  MaxUncompressed,  \* MAX_ZIP_UNCOMPRESSED_SIZE
  MaxControl        \* MAX_TEXT_BINARY_CONTROL_RATIO: MaxControl[1] of MaxControl[2] bytes

\* Text; a control byte outside TEXT_CONTROL_WHITELIST; NUL, which is one too; a
\* byte of a signature; the first byte of a UTF-8 sequence of two, three or four
\* bytes, one that continues a sequence, and one that UTF-8 never uses.
Bytes == {"plain", "control", "nul", "mark", "lead2", "lead3", "lead4", "tail", "bad"}
Control == {"control", "nul"}
TextExtensions == {".txt", ".md"}
None == "none"

ASSUME LimitAssumption ==
  /\ {ChunkSize, FirstLimit, MaxControl[2]} \subseteq Nat \ {0}
  /\ {MaxSize, MaxEntries, MaxUncompressed, MaxControl[1]} \subseteq Nat

\* Every type that is allowed is checked by one of the three functions, and the
\* signatures are found in the bytes that are kept.
ASSUME TypesAssumption ==
  /\ DOMAIN RequiredEntries \cap ({".pdf"} \cup TextExtensions) = {}
  /\ DOMAIN MimeTypes \subseteq {".pdf"} \cup TextExtensions \cup DOMAIN RequiredEntries
  /\ DOMAIN RequiredEntries \subseteq DOMAIN MimeTypes
  /\ \A s \in BinarySignatures \cup {PdfSignature} : s \in Seq(Bytes) /\ Len(s) <= FirstLimit

ASSUME UploadAssumption ==
  \A u \in Uploads :
    /\ u.bytes \in Seq(Bytes)
    /\ u.entries \in Seq([name : [separator : STRING, absolute : BOOLEAN, parts : Seq(STRING)],
                          encrypted : BOOLEAN, size : Nat])

VARIABLES
  upload,      \* what was sent
  position,    \* where the file object stands
  scan,        \* what _scan_stream has gathered
  archive,     \* what _validate_ooxml has gathered: entries seen, sizes, names
  at,          \* the step that comes next
  verdict      \* None while validating; "ok", an error code, or "unhandled"
vars == <<upload, position, scan, archive, at, verdict>>

EmptyScan == [total |-> 0, first |-> << >>, control |-> 0, nul |-> FALSE, missing |-> 0, utf8_error |-> FALSE]
EmptyArchive == [seen |-> 0, uncompressed |-> 0, names |-> {}]

\* The form parser leaves the file object wherever it stopped.
Init ==
  /\ upload \in Uploads
  /\ position \in {0, Len(upload.bytes)}
  /\ scan = EmptyScan /\ archive = EmptyArchive
  /\ at = "names" /\ verdict = None

Decide(code) == at' = "done" /\ verdict' = code
Goto(step) == at' = step /\ UNCHANGED verdict
-----------------------------------------------------------------------------
CheckNames ==
  /\ at = "names"
  /\ LET e == upload.extension
     IN IF e \notin AllowedExtensions \cap DOMAIN MimeTypes
        THEN Decide("DOCUMENT_INVALID_EXTENSION") /\ UNCHANGED position
        ELSE IF upload.mime \notin MimeTypes[e]
        THEN Decide("DOCUMENT_INVALID_MIME_TYPE") /\ UNCHANGED position
        ELSE Goto("scan") /\ position' = 0
  /\ UNCHANGED <<upload, scan, archive>>

\* The incremental decoder: how many bytes are missing from the sequence it is
\* in, or Wrong.
Wrong == 4
DecodeByte(missing, byte) ==
  CASE missing = Wrong -> Wrong
    [] missing # Wrong /\ byte = "tail" -> IF missing = 0 THEN Wrong ELSE missing - 1
    [] missing # Wrong /\ byte # "tail" ->
         IF missing # 0 \/ byte = "bad" THEN Wrong
         ELSE CASE byte = "lead2" -> 1 [] byte = "lead3" -> 2 [] byte = "lead4" -> 3 [] OTHER -> 0
Decoded(missing, chunk) ==
  LET after[n \in 0 .. Len(chunk)] ==
        IF n = 0 THEN missing ELSE DecodeByte(after[n - 1], chunk[n])
  IN after
Decode_Fresh(missing, chunk) == Decoded(0, chunk)[Len(chunk)]
Decode(missing, chunk) == Decoded(missing, chunk)[Len(chunk)]

Count(s, class) == Cardinality({ i \in DOMAIN s : s[i] \in class })
Prefix(s, n) == SubSeq(s, 1, IF n < Len(s) THEN n ELSE Len(s))
Chunk == Prefix(SubSeq(upload.bytes, position + 1, Len(upload.bytes)), ChunkSize)

\* A chunk is read; a decoder that raises keeps the bytes it held before.
Gathered(chunk) ==
  LET missing == Decode(scan.missing, chunk)
  IN [ total      |-> scan.total + Len(chunk),
       first      |-> scan.first \o Prefix(chunk, FirstLimit - Len(scan.first)),
       control    |-> scan.control + Count(chunk, Control),
       nul        |-> scan.nul \/ "nul" \in ToSet(chunk),
       missing    |-> IF missing = Wrong THEN scan.missing ELSE missing,
       utf8_error |-> scan.utf8_error \/ missing = Wrong ]

TooLarge(size) == size > MaxSize

ReadChunk ==
  /\ at = "scan" /\ Chunk # << >>
  /\ position' = position + Len(Chunk)
  /\ IF TooLarge(scan.total + Len(Chunk))
     THEN Decide("DOCUMENT_FILE_TOO_LARGE") /\ UNCHANGED scan
     ELSE scan' = Gathered(Chunk) /\ Goto("scan")
  /\ UNCHANGED <<upload, archive>>

\* The end of the file: a sequence that was cut off is an error as well.
EndOfFile_IgnoresCut ==
  /\ at = "scan" /\ Chunk = << >>
  /\ IF scan.total = 0
     THEN Decide("DOCUMENT_EMPTY_FILE") /\ UNCHANGED <<scan, position>>
     ELSE position' = 0 /\ Goto("type") /\ UNCHANGED scan
  /\ UNCHANGED <<upload, archive>>

EndOfFile ==
  /\ at = "scan" /\ Chunk = << >>
  /\ IF scan.total = 0
     THEN Decide("DOCUMENT_EMPTY_FILE") /\ UNCHANGED <<scan, position>>
     ELSE /\ scan' = [scan EXCEPT !.utf8_error = @ \/ scan.missing # 0]
          /\ position' = 0 /\ Goto("type")
  /\ UNCHANGED <<upload, archive>>
-----------------------------------------------------------------------------
StartsWith(signature) == Prefix(scan.first, Len(signature)) = signature
Accept(condition) == Decide(IF condition THEN "ok" ELSE "DOCUMENT_INVALID_MIME_TYPE")

CheckPdf ==
  /\ at = "type" /\ upload.extension = ".pdf"
  /\ Accept(StartsWith(PdfSignature))
  /\ position' = 0
  /\ UNCHANGED <<upload, scan, archive>>

CheckText ==
  /\ at = "type" /\ upload.extension \in TextExtensions
  /\ Accept(/\ ~scan.nul /\ \A s \in BinarySignatures : ~StartsWith(s)
            /\ scan.control * MaxControl[2] <= scan.total * MaxControl[1]
            /\ ~scan.utf8_error)
  /\ position' = 0
  /\ UNCHANGED <<upload, scan, archive>>

\* zipfile reads the directory: damaged archives are refused, and what it
\* raises for an archive of an unsupported version is not caught.
OpenArchive ==
  /\ at = "type" /\ upload.extension \in DOMAIN RequiredEntries
  /\ CASE upload.zip = "damaged" -> Decide("DOCUMENT_INVALID_MIME_TYPE") /\ position' = 0
       [] upload.zip = "unsupported" -> Decide("unhandled") /\ position' = 0
       [] OTHER -> IF Len(upload.entries) > MaxEntries
                   THEN Decide("DOCUMENT_INVALID_MIME_TYPE") /\ position' = 0
                   ELSE Goto("entries") /\ position' = Len(upload.bytes)
  /\ UNCHANGED <<upload, scan, archive>>

\* A name is its parts; which separator was between them is forgotten, as
\* `replace' does before anything else looks at the name.
Parts(name) == name.parts
Unsafe(name) == name.absolute \/ ".." \in ToSet(Parts(name))

ReadEntry ==
  /\ at = "entries" /\ archive.seen < Len(upload.entries)
  /\ LET entry == upload.entries[archive.seen + 1]
         size == archive.uncompressed + entry.size
     IN IF Unsafe(entry.name) \/ entry.encrypted \/ size > MaxUncompressed
        THEN Decide("DOCUMENT_INVALID_MIME_TYPE") /\ position' = 0 /\ UNCHANGED archive
        ELSE /\ archive' = [ seen |-> archive.seen + 1, uncompressed |-> size,
                             names |-> archive.names \cup {Parts(entry.name)} ]
             /\ Goto("entries") /\ UNCHANGED position
  /\ UNCHANGED <<upload, scan>>

CheckEntries_NoRewind ==
  /\ at = "entries" /\ archive.seen = Len(upload.entries)
  /\ Accept(RequiredEntries[upload.extension] \subseteq archive.names)
  /\ UNCHANGED <<upload, scan, archive, position>>

CheckEntries ==
  /\ at = "entries" /\ archive.seen = Len(upload.entries)
  /\ Accept(RequiredEntries[upload.extension] \subseteq archive.names)
  /\ position' = 0
  /\ UNCHANGED <<upload, scan, archive>>

Next ==
  CheckNames \/ ReadChunk \/ EndOfFile \/ CheckPdf \/ CheckText \/ OpenArchive \/ ReadEntry \/ CheckEntries
Spec == Init /\ [][Next]_vars
-----------------------------------------------------------------------------
\* What the checks mean, said of a whole file.
Followers(byte) ==
  CASE byte = "lead2" -> 1 [] byte = "lead3" -> 2 [] byte = "lead4" -> 3 [] OTHER -> 0
WellFormed(s) ==
  \A i \in DOMAIN s :
     /\ s[i] # "bad"
     /\ \A k \in 1 .. Followers(s[i]) : i + k \in DOMAIN s /\ s[i + k] = "tail"
     /\ s[i] = "tail" => \E k \in 1 .. 3 : i - k \in DOMAIN s /\ Followers(s[i - k]) >= k
Starts(s, signature) == IsPrefix(signature, s)
SoundText(s) ==
  /\ WellFormed(s) /\ Count(s, {"nul"}) = 0 /\ ~\E b \in BinarySignatures : Starts(s, b)
  /\ Count(s, Control) * MaxControl[2] <= Len(s) * MaxControl[1]
\* The size of the first n entries.
Uncompressed(entries) ==
  LET size[n \in 0 .. Len(entries)] == IF n = 0 THEN 0 ELSE size[n - 1] + entries[n].size
  IN size
SoundArchive(entries, required) ==
  /\ Len(entries) <= MaxEntries
  /\ \A i \in DOMAIN entries : ~entries[i].encrypted /\ ~Unsafe(entries[i].name)
  /\ Uncompressed(entries)[Len(entries)] <= MaxUncompressed
  /\ \A name \in required : \E i \in DOMAIN entries : entries[i].name.parts = name
SoundType(u) ==
  CASE u.extension = ".pdf" -> Starts(u.bytes, PdfSignature)
    [] u.extension \in TextExtensions -> SoundText(u.bytes)
    [] OTHER -> u.zip # "damaged" /\ SoundArchive(u.entries, RequiredEntries[u.extension])

\* The first of extension, content type, size and emptiness that is wrong, then
\* the type.
Deserved(u) ==
  CASE u.extension \notin AllowedExtensions \cap DOMAIN MimeTypes -> "DOCUMENT_INVALID_EXTENSION"
    [] OTHER ->
  CASE u.mime \notin MimeTypes[u.extension] -> "DOCUMENT_INVALID_MIME_TYPE"
    [] OTHER ->
  CASE Len(u.bytes) > MaxSize -> "DOCUMENT_FILE_TOO_LARGE"
    [] Len(u.bytes) = 0 -> "DOCUMENT_EMPTY_FILE"
    [] OTHER ->
  CASE u.extension \in DOMAIN RequiredEntries /\ u.zip = "unsupported" -> "unhandled"
    [] OTHER -> IF SoundType(u) THEN "ok" ELSE "DOCUMENT_INVALID_MIME_TYPE"

\* The answer to an upload is the one its whole file deserves, wherever the
\* chunks were cut and the entries are listed (validators.py:154).
VerdictMatchesFile == at = "done" => verdict = Deserved(upload)

\* After every chunk the counters are those of the bytes read so far, and the
\* decoder has failed exactly when no continuation of these bytes is UTF-8: a
\* character that is cut by a chunk is neither lost nor refused
\* (validators.py:82-108).
ScanCountsPrefix ==
  LET read == SubSeq(upload.bytes, 1, scan.total)
      completed == { read \o [i \in 1 .. n |-> "tail"] : n \in 0 .. 3 }
  IN /\ at = "scan" => scan.total = position
     /\ at \in {"scan", "type"} =>
          /\ scan.control = Count(read, Control)
          /\ scan.nul <=> Count(read, {"nul"}) > 0
          /\ scan.first = SubSeq(read, 1, IF Len(read) < FirstLimit THEN Len(read) ELSE FirstLimit)
          /\ ~scan.utf8_error <=> \E s \in (IF at = "scan" THEN completed ELSE {read}) : WellFormed(s)

\* An accepted file was read to its end and is handed to the storage from its
\* first byte, with the size that was counted (validators.py:167).
RewoundForStorage ==
  verdict = "ok" => position = 0 /\ scan.total = Len(upload.bytes)
=============================================================================
