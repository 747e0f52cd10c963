------------------------- MODULE MCUploadValidation ------------------------
(* Every short text and PDF, every small archive, and some wrong names.     *)
EXTENDS UploadValidation

MCMimeTypes ==
  [e \in {".pdf", ".docx", ".txt", ".md"} |->
     CASE e = ".pdf" -> {"pdf"} [] e = ".docx" -> {"docx"} [] e = ".txt" -> {"text"} [] e = ".md" -> {"markdown", "text"}]
MCRequired == [e \in {".docx"} |-> {<<"types">>, <<"word", "document">>}]

Sent(extension, mime, bytes, zip, entries) ==
  [extension |-> extension, mime |-> mime, bytes |-> bytes, zip |-> zip, entries |-> entries]
File(extension, mime, bytes) == Sent(extension, mime, bytes, "none", << >>)
Texts == { File(".txt", "text", b) : b \in BoundedSeq(Bytes, 5) }
Pdfs == { File(".pdf", "pdf", b) : b \in BoundedSeq({"plain", "mark"}, 5) }
Names == { [separator |-> s, absolute |-> FALSE, parts |-> p] :
             s \in {"/", "\\"}, p \in {<<"types">>, <<"word", "document">>, <<"..", "types">>} }
           \cup { [separator |-> s, absolute |-> TRUE, parts |-> <<"types">>] : s \in {"/", "\\"} }
Entries == [name : Names, encrypted : {FALSE}, size : {1, 2}]
             \cup [name : { n \in Names : n.parts = <<"types">> }, encrypted : {TRUE}, size : {1}]
Archives == { << >> } \cup { <<e>> : e \in Entries } \cup { <<e, f>> : e, f \in Entries }
              \cup { <<e, f, e>> : e, f \in Entries } \cup { <<e, e, f, f>> : e, f \in Entries }
Documents == { Sent(".docx", "docx", <<"mark", "plain">>, "readable", a) : a \in Archives }
               \cup { Sent(".docx", "docx", <<"mark">>, z, << >>) : z \in {"damaged", "unsupported"} }
\* Files that are not archives of their type, whatever zipfile would make of them.
Others == { Sent(e, m, <<"mark", "mark">>, z, << >>) :
              e \in {".txt", ".pdf"}, m \in {"text", "pdf"}, z \in {"damaged", "unsupported"} }
Misnamed == { File(e, m, <<"plain">>) : e \in {".txt", ".md", ".exe", ".pptx"}, m \in {"markdown", "pdf"} }

MCUploads == Texts \cup Pdfs \cup Documents \cup Others \cup Misnamed
MCBinary == {<<"mark", "plain">>}
MCPdf == <<"mark", "mark">>
MCMaxControl == <<1, 4>>
MCExtensions == {".pdf", ".docx", ".pptx", ".txt", ".md"}
=============================================================================
