\* Files of at most five bytes read in chunks of two, one byte over the limit;
\* archives of at most four entries, one over the limit.
CONSTANTS
  Uploads <- MCUploads
  AllowedExtensions <- MCExtensions
  MimeTypes <- MCMimeTypes
  RequiredEntries <- MCRequired
  PdfSignature <- MCPdf
  BinarySignatures <- MCBinary
  ChunkSize = 2
  MaxSize = 4
  FirstLimit = 3
  MaxEntries = 3
  MaxUncompressed = 4
  MaxControl <- MCMaxControl
SPECIFICATION Spec
CHECK_DEADLOCK FALSE
INVARIANTS
  VerdictMatchesFile
  ScanCountsPrefix
  RewoundForStorage
