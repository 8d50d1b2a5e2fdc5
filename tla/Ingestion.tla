----------------------------- MODULE Ingestion -----------------------------
(***************************************************************************)
(* IngestionService.process: one source from its URI to the chunks that    *)
(* are embedded.  It is loaded, routed to a handler by policy, parsed,     *)
(* cleaned and cut in chunks; any of the first three may refuse it.        *)
(***************************************************************************)
EXTENDS Handlers, Cleaning, Chunking, Sources

CONSTANTS
  Request,       \* descriptors of sources, with what is found where they point, and policies
  MaxBytes,      \* budget.max_source_bytes
  Header,        \* content types a web server may answer with
  Conversion     \* what MarkItDown may do

Web == {"http", "https"}

\* _source_path: a URI with another scheme than that of files names none.
ASSUME ProcessAssumption ==
  /\ \A request \in Request :
       /\ request.source.content \in Contents
       /\ request.source.file => request.source.scheme \in {"", "file"}
  /\ Conversion \subseteq [outcome : {"unavailable", "failed", "text"}, text : Text]

VARIABLES
  source,
  policy,
  stage,      \* the next step of process, "done", or the error it raised
  blob,       \* what was loaded, with its content type and extension, and the scheme of the
              \* URI it was loaded from
  handler,
  sections,   \* parsed
  cleaned,
  chunks

processVars == <<source, policy, stage, blob, handler, sections, cleaned, chunks>>

Error == {"SourceLoadError", "SourceTooLarge", "Unsupported", "NeedsDocling", "ParseError"}

NoContent == [kind |-> "text", parts |-> <<>>, size |-> 0, expanded |-> 0]

ProcessInit ==
  /\ \E request \in Request : source = request.source /\ policy = request.policy
  /\ stage = "load"
  /\ blob = [content |-> NoContent, type |-> "", extension |-> "", scheme |-> ""]
  /\ handler = ""
  /\ sections = <<>>
  /\ cleaned = <<>>
  /\ chunks = <<>>

Refuse(error) ==
  /\ stage' = error
  /\ UNCHANGED <<source, policy, blob, handler, sections, cleaned, chunks>>

\* _make_blob: the size is compared once everything is in memory.
MakeBlob(content, declared, extension, scheme) ==
  \/ /\ content.size > MaxBytes
     /\ Refuse("SourceTooLarge")
  \/ /\ content.size <= MaxBytes
     /\ blob' = [content |-> content, extension |-> extension, scheme |-> scheme,
                 type |-> Detect(declared, extension, content.kind)]
     /\ stage' = "route"
     /\ UNCHANGED <<source, policy, handler, sections, cleaned, chunks>>

\* load_source: content that came with the request is not subject to the scheme.
LoadRaw ==
  /\ stage = "load"
  /\ source.raw
  /\ MakeBlob(source.content, source.declared, source.extension, source.scheme)

Loads ==
  /\ stage = "load"
  /\ ~source.raw
  /\ source.scheme \in policy.allowed_schemes

RefuseScheme ==
  /\ stage = "load"
  /\ ~source.raw
  /\ source.scheme \notin policy.allowed_schemes
  /\ Refuse("SourceLoadError")

\* _load_http_source: the response names the type, and the last URL of its redirects the
\* extension, unless the request gave a file name; redirects lead to either scheme of the web,
\* which no policy is asked about.  Or the server does not answer.
LoadHttp(header, extension, landed) ==
  /\ Loads
  /\ source.scheme \in Web
  /\ \/ Refuse("SourceLoadError")
     \/ MakeBlob(source.content, IF header = "" THEN source.declared ELSE header,
                 IF source.named THEN source.extension ELSE extension, landed)

LoadFile ==
  /\ Loads
  /\ source.file
  /\ \/ /\ ~policy.allow_local_files
        /\ Refuse("SourceLoadError")
     \/ /\ policy.allow_local_files
        /\ MakeBlob(source.content, source.declared, source.extension, source.scheme)

\* No file there, or a scheme that is neither of files nor of the web: the URI itself is the
\* text.
LoadUri ==
  /\ Loads
  /\ source.scheme \notin Web
  /\ ~source.file
  /\ MakeBlob([kind |-> "text", parts |-> <<[tag |-> "line", text |-> <<Line(Uri)>>]>>,
               size |-> Shape[Uri].size, expanded |-> 0],
              source.declared, source.extension, source.scheme)

RouteSource ==
  LET route == Route(policy, blob.type, blob.extension) IN
  /\ stage = "route"
  /\ stage' = IF route.error = "" THEN "parse" ELSE route.error
  /\ handler' = route.handler
  /\ UNCHANGED <<source, policy, blob, sections, cleaned, chunks>>

ParseSource(converted) ==
  LET parsed == Parse(handler, blob.content, converted) IN
  /\ stage = "parse"
  /\ stage' = IF parsed.error = "" THEN "clean" ELSE parsed.error
  /\ sections' = parsed.sections
  /\ UNCHANGED <<source, policy, blob, handler, cleaned, chunks>>

CleanSections ==
  /\ stage = "clean"
  /\ stage' = "chunk"
  /\ cleaned' = Clean(sections, policy.cleaning)
  /\ UNCHANGED <<source, policy, blob, handler, sections, chunks>>

ChunkSections ==
  /\ stage = "chunk"
  /\ stage' = "done"
  /\ chunks' = Chunk(cleaned)
  /\ UNCHANGED <<source, policy, blob, handler, sections, cleaned>>

ProcessNext ==
  \/ LoadRaw \/ RefuseScheme \/ LoadFile \/ LoadUri
  \/ \E header \in Header, extension \in {source.extension, ""}, landed \in Web :
       LoadHttp(header, extension, landed)
  \/ RouteSource
  \/ \E converted \in Conversion : ParseSource(converted)
  \/ CleanSections
  \/ ChunkSections

ProcessSpec == ProcessInit /\ [][ProcessNext]_processVars

-----------------------------------------------------------------------------
\* A source that was processed has a chunk at least, numbered without gaps; nothing of it is
\* indexed before every step succeeded (service.py:50-74).
ProcessTypeOK ==
  /\ stage \in {"load", "route", "parse", "clean", "chunk", "done"} \cup Error
  /\ (stage = "done") = (chunks # <<>>)
  /\ \A i \in DOMAIN chunks : chunks[i].chunk_index = i - 1
  /\ Len(cleaned) <= Len(sections)
  /\ \A i, j \in DOMAIN sections : sections[i].section_id = sections[j].section_id => i = j

\* What the source and its server say of the content agrees with what it is.
Honest ==
  /\ blob.type = blob.content.kind
  /\ blob.extension = blob.content.kind

\* What goes to a handler is of an allowed type and extension, was asked for under an allowed
\* scheme unless it came with the request, and is no local file where none may be read; a
\* redirect may have left the allowed schemes, though never those of the web
\* (fetchers.py:38-64).  A source whose name and type say what it is goes to the handler of
\* its kind and to no other (router.py:38-74).  Only MarkItDown opens the URI again.
RouteFits ==
  stage \in {"parse", "clean", "chunk", "done"} =>
    /\ Allowed(policy, blob.type, blob.extension)
    /\ source.raw \/ source.scheme \in policy.allowed_schemes
    /\ blob.scheme # source.scheme => {source.scheme, blob.scheme} \subseteq Web /\ ~source.raw
    /\ blob.content = source.content /\ source.file /\ ~source.raw => policy.allow_local_files
    /\ Honest => handler = blob.content.kind

-----------------------------------------------------------------------------
(* What a reader sees in the source.                                       *)

Count(parts, tag, from, to) == Cardinality({i \in from .. to : parts[i].tag = tag})

\* Inside of more tags opened than closed since some point.
Hidden(parts, i) ==
  \/ \E j \in 1 .. i : Count(parts, "skip", j, i) > Count(parts, "endskip", j, i)
  \/ \E j \in 1 .. i : parts[j].tag = "title" /\ Count(parts, "endtitle", j, i) = 0

\* The parts that are read, within the budget, tables last.
Read(content) ==
  LET parts == content.parts
      first(n, positions) == {i \in positions : Cardinality({j \in positions : j <= i}) <= n}
      rows == Tagged(parts, "row")
  IN  CASE content.kind = "html" -> {i \in Tagged(parts, "data") : ~Hidden(parts, i)}
        [] content.kind = "csv" -> first(MaxRows, rows)
        [] content.kind = "xlsx" ->
             first(MaxRows, {i \in rows : Count(parts, "sheet", 1, i) <= MaxSheets})
        [] content.kind = "pdf" -> first(MaxPages, DOMAIN parts)
        [] content.kind = "pptx" -> first(MaxSlides, DOMAIN parts)
        [] content.kind = "zip" -> Tagged(parts, "file")
        [] content.kind = "docx" -> Tagged(parts, "paragraph")
        [] OTHER -> DOMAIN parts

\* Each fragment that is read, with the part it is in.
Occurrences(content) ==
  LET order == InOrder(Read(content))
            \o (IF content.kind = "docx" THEN InOrder(Tagged(content.parts, "row"))
                ELSE <<>>)
  IN  FlattenSeq([k \in DOMAIN order |->
        LET fragments == Fragments(content.parts[order[k]].text) IN
        [n \in DOMAIN fragments |-> [fragment |-> fragments[n], part |-> order[k]]]])

\* The texts of the pages of a file that has pages.
PageTexts(content) ==
  LET parts == content.parts
      page(i) == 1 + Count(parts, "break", 1, i)
      written == {i \in Tagged(parts, "paragraph") : parts[i].text # <<>>}
  IN  CASE content.kind = "pdf" -> {<<i, parts[i].text>> : i \in Read(content)}
        [] content.kind = "docx" /\ Tagged(parts, "break") # {} ->
             {<<n, Below(TextsOf(parts, {i \in written : page(i) = n}))>> :
                n \in {page(i) : i \in written}}
        [] OTHER -> {}

\* A heading, which becomes metadata; a line at the edge of several pages; a fragment of a
\* section with other signs than letters and digits, which may be noise.  Under a bound on
\* noise that a text can reach by being short, any text may be noise.
MayBeLost(content, occurrence) ==
  LET f == occurrence.fragment IN
  \/ content.parts[occurrence.part].tag = "heading"
  \/ Cardinality({page \in PageTexts(content) : Line(f) \in AtEdge(page[2])}) >= MinPages
  \/ \E i \in DOMAIN sections :
       LET all == ToSet(Fragments(sections[i].text))
       IN  f \in all /\ \E g \in all : Shape[g].alnum < Shape[g].visible
  \/ MaxNoise <= 30 * 19

\* From the file to the sections that are chunked, text is neither lost nor invented nor
\* moved, whatever mixture of pages, blank lines and repeated headers: all that a reader sees
\* within the budget is there in its order, but for headings, lines repeated at the edges of
\* enough pages, and noise.  What is hidden in HTML is not there.
TextKept ==
  stage = "done" /\ handler = blob.content.kind =>
    LET seen == Occurrences(blob.content)
        mayBeLost == {i \in DOMAIN seen : MayBeLost(blob.content, seen[i])}
        kept == FlattenSeq([i \in DOMAIN cleaned |-> Fragments(cleaned[i].text)])
    IN  \/ seen = <<>> /\ kept \in {<<>>, <<Uri>>}
        \/ \E lost \in SUBSET mayBeLost :
             kept = [k \in DOMAIN Pick(seen, DOMAIN seen \ lost) |->
                       Pick(seen, DOMAIN seen \ lost)[k].fragment]

-----------------------------------------------------------------------------
\* The characters that matter, in order: section, paragraph, offset.
Characters ==
  UNION {LET paragraphs == Paragraphs(cleaned[i].text) IN
         UNION {{<<i, p, c>> : c \in (0 .. Length(paragraphs[p]) - 1) \ Separators(paragraphs[p])} :
                  p \in DOMAIN paragraphs} : i \in DOMAIN cleaned}

Precedes(a, b) ==
  \/ a[1] < b[1]
  \/ a[1] = b[1] /\ a[2] < b[2]
  \/ a[1] = b[1] /\ a[2] = b[2] /\ a[3] < b[3]

\* Every character of the cleaned sections is in one chunk, in the order of the document;
\* no chunk is longer than max_chars, none could have taken in the next one's first unit;
\* and the pages it cites are those its text is from (section.py:29-169).
ChunksCover ==
  stage = "done" =>
    LET units == FlattenSeq([g \in DOMAIN chunks |-> chunks[g].units])
        holds(unit, c) == /\ unit.section = c[1] /\ unit.paragraph = c[2]
                          /\ c[3] \in unit.from .. unit.to - 1
    IN  /\ \A c \in Characters : Cardinality({k \in DOMAIN units : holds(units[k], c)}) = 1
        /\ \A k \in 1 .. Len(units) - 1 :
             Precedes(<<units[k].section, units[k].paragraph, units[k].from>>,
                      <<units[k + 1].section, units[k + 1].paragraph, units[k + 1].from>>)
        /\ \A g \in DOMAIN chunks :
             /\ Joined(chunks[g].units) <= MaxChars
             /\ g < Len(chunks) => Joined(Append(chunks[g].units, chunks[g + 1].units[1])) > MaxChars
             /\ LET pages == {cleaned[chunks[g].units[k].section].page :
                                k \in DOMAIN chunks[g].units} \ {0}
                IN  /\ chunks[g].metadata.pages = <<>> <=> pages = {}
                    /\ pages # {} => /\ {chunks[g].metadata.pages[1], chunks[g].metadata.pages[2]} \subseteq pages
                                     /\ \A n \in pages : n \in chunks[g].metadata.pages[1] .. chunks[g].metadata.pages[2]
=============================================================================
