------------------------------ MODULE Sources ------------------------------
(***************************************************************************)
(* Detecting what a source is and choosing the handler for it.  Content    *)
(* types and extensions are named by the kind of file they stand for:      *)
(* "pdf" is application/pdf and .pdf, "" no type or no extension; "octet"  *)
(* is application/octet-stream and "binary" binary/octet-stream.           *)
(***************************************************************************)
EXTENDS Integers, Sequences, FiniteSetsExt

CONSTANT
  Guessable   \* the extensions the installed tables of mimetypes know

OfficeKinds == {"docx", "pptx", "xlsx"}

\* detect_content_type: what was declared, the first bytes, the name.
Detect(declared, extension, kind) ==
  IF declared \notin {"", "octet", "binary"} THEN declared
  ELSE IF kind = "pdf" THEN "pdf"
  ELSE IF kind \in OfficeKinds \cup {"zip"}
  THEN IF extension \in OfficeKinds THEN extension ELSE "zip"
  ELSE IF extension \in Guessable THEN extension
  ELSE IF declared # "" THEN declared
  ELSE "text"

Native(kind) == [name |-> kind, types |-> {kind}, extensions |-> {kind}, docling |-> FALSE]

\* default_handlers: the text handler takes what has no extension.
DefaultHandlers ==
  <<[name |-> "text", types |-> {"text", ""}, extensions |-> {"text", ""}, docling |-> FALSE],
    Native("markdown"), Native("html"), Native("csv"), Native("pdf"), Native("docx"),
    Native("pptx"), Native("xlsx"), Native("zip"),
    [name |-> "markitdown", types |-> {"octet"}, extensions |-> {}, docling |-> FALSE],
    LET kinds == OfficeKinds \cup {"pdf", "html", "image"} IN
    [name |-> "docling", types |-> kinds, extensions |-> kinds, docling |-> TRUE]>>

ResourceAllowed(handler, policy) ==
  handler.docling => policy.docling_tier /\ policy.allow_docling

Matches(handler, type, extension) == type \in handler.types \/ extension \in handler.extensions

\* _validate_policy: an empty list allows everything, and so does a missing extension.
Allowed(policy, type, extension) ==
  /\ policy.allowed_types # {} => type \in policy.allowed_types
  /\ policy.allowed_extensions # {} /\ extension # "" => extension \in policy.allowed_extensions

Handling(policy, type, extension) ==
  {i \in DOMAIN DefaultHandlers : /\ ResourceAllowed(DefaultHandlers[i], policy)
                                  /\ Matches(DefaultHandlers[i], type, extension)}

\* Mutant: the last handler that matches.
RouteLast(policy, type, extension) ==
  LET candidates == Handling(policy, type, extension) IN
  IF Allowed(policy, type, extension) /\ candidates # {}
  THEN [error |-> "", handler |-> DefaultHandlers[Max(candidates)].name]
  ELSE [error |-> "Unsupported", handler |-> ""]

\* FileRouter.route: the first handler that matches.
Route(policy, type, extension) ==
  LET candidates == Handling(policy, type, extension)
      docling == DefaultHandlers[Len(DefaultHandlers)]
  IN  IF ~Allowed(policy, type, extension) THEN [error |-> "Unsupported", handler |-> ""]
      ELSE IF candidates # {}
      THEN [error |-> "", handler |-> DefaultHandlers[Min(candidates)].name]
      ELSE IF Matches(docling, type, extension) /\ policy.allow_docling
      THEN [error |-> "NeedsDocling", handler |-> ""]
      ELSE [error |-> "Unsupported", handler |-> ""]
=============================================================================
