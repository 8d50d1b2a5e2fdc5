------------------------------ MODULE Handlers ------------------------------
(***************************************************************************)
(* The document handlers: what each makes of a source's content.  Content  *)
(* is of a kind and has parts in the order of the file, each with a tag    *)
(* and a text: the lines and headings of Markdown, the tags and data of    *)
(* HTML, the rows of a table, pages, paragraphs and page breaks, slides,   *)
(* sheets and their rows, the entries of an archive.  The libraries that   *)
(* take a file apart are trusted to return these parts.                    *)
(*                                                                         *)
(* A handler returns an error, or none and the sections.                   *)
(***************************************************************************)
EXTENDS Texts

CONSTANTS
  MaxPages,      \* budget: pages of a PDF,
  MaxSlides,     \* slides of a presentation,
  MaxSheets,     \* sheets of a workbook,
  MaxRows,       \* rows of a table
  Window,        \* rows to a section
  MaxEntries,    \* entries of an archive
  MaxExpansion,  \* 5 x max_source_bytes: what an archive may expand to
  Uri,           \* the fragment that is the source's URI
  Entry,         \* the names of the entries of an office file, which is an archive
  Garbage        \* what decoding a binary file as UTF-8 with replacements gives

ASSUME HandlersAssumption ==
  /\ {MaxPages, MaxSlides, MaxSheets, MaxRows, Window, MaxEntries, MaxExpansion} \subseteq Nat
  /\ {MaxSheets, MaxRows, Window} \subseteq Nat \ {0}
  /\ {Uri, Entry, Garbage} \subseteq Fragment

TextKinds == {"text", "markdown", "html", "csv"}
Archives == {"docx", "pptx", "xlsx", "zip"}
BinaryKinds == {"pdf"} \cup Archives

\* What the parts of a file are; a name that may not be listed is unsafe.
Tags ==
  {"line", "heading", "data", "skip", "endskip", "title", "endtitle", "row", "sheet", "page",
   "paragraph", "break", "slide", "file", "unsafe"}

\* What may be found where a source points.  A part of a Markdown file is a line of it.
Contents ==
  {content \in [kind : TextKinds \cup BinaryKinds, parts : Seq([tag : Tags, text : SourceText]),
                size : Nat, expanded : Nat] :
     content.kind = "markdown" =>
       \A i \in DOMAIN content.parts :
         /\ content.parts[i].tag \in {"line", "heading"} /\ Len(content.parts[i].text) = 1
         /\ content.parts[i].tag = "heading" => content.parts[i].text # <<Blank>>}

Fails(error) == [error |-> error, sections |-> <<>>]
Parses(sections) == [error |-> "", sections |-> sections]

\* Sections numbered from 0; the id of a section is a tuple, so that ids of any kind compare.
Numbered(texts) == [k \in DOMAIN texts |-> Section(<<k - 1>>, texts[k], "", 0, {})]

Tagged(parts, tag) == {i \in DOMAIN parts : parts[i].tag = tag}
TextsOf(parts, positions) == [k \in 1 .. Cardinality(positions) |-> Pick(parts, positions)[k].text]

\* SourceBlob.text: the lines of a text file, in whatever format.
Decoded(content) ==
  IF content.kind \in BinaryKinds THEN <<Line(Garbage)>>
  ELSE FlattenSeq(TextsOf(content.parts, DOMAIN content.parts))

\* The content as the parts a handler of text files sees in it: other formats are lines.
PartsAs(content, kind, tag) ==
  IF content.kind = kind THEN content.parts
  ELSE [i \in DOMAIN Decoded(content) |-> [tag |-> tag, text |-> <<Decoded(content)[i]>>]]

OrUri(text) == IF text = <<>> THEN <<Line(Uri)>> ELSE text

ParseText(content) == Parses(Numbered(<<OrUri(Normalize(Decoded(content)))>>))

\* _markdown_sections: a heading begins a section and stays out of its text; a heading
\* without a line under it makes no section, unless there is nothing else.
ParseMarkdown(content) ==
  LET all == PartsAs(content, "markdown", "line")
      parts == Pick(all, Kept([i \in DOMAIN all |-> all[i].text[1]]))
      runs == Runs(Len(parts), {i \in 1 .. Len(parts) - 1 : parts[i + 1].tag # "heading"})
      lines(run) == {i \in run : parts[i].tag = "line"}
      heading(run) == {i \in run : parts[i].tag = "heading"}
      full == Pick(runs, {k \in DOMAIN runs : lines(runs[k]) # {}})
      section(k) ==
        Section(<<k - 1>>, Normalize(FlattenSeq(TextsOf(parts, lines(full[k])))),
                IF heading(full[k]) = {} THEN ""
                ELSE Pick(parts, heading(full[k]))[1].text[1][1], 0, {})
  IN  IF full = <<>> THEN Parses(Numbered(<<Normalize(Decoded(content))>>))
      ELSE Parses([k \in DOMAIN full |-> section(k)])

\* _skip_depth after each tag: how many script, style and noscript tags are open.
HtmlDepth(parts) ==
  LET depth[i \in 0 .. Len(parts)] ==
        IF i = 0 THEN 0
        ELSE CASE parts[i].tag = "skip" -> depth[i - 1] + 1
               [] parts[i].tag = "endskip" /\ depth[i - 1] > 0 -> depth[i - 1] - 1
               [] OTHER -> depth[i - 1]
  IN  depth

\* str.strip: without the blank lines at the ends.
Strip(text) ==
  Pick(text, {i \in DOMAIN text : /\ \E j \in 1 .. i : text[j] # Blank
                                 /\ \E j \in i .. Len(text) : text[j] # Blank})

\* Texts one after the other: the last line of each and the first of the next are one line.
Beside(texts) ==
  LET lines == FlattenSeq(texts)
      runs == Runs(Len(lines), {Len(FlattenSeq(SubSeq(texts, 1, k))) : k \in DOMAIN texts})
  IN  [k \in DOMAIN runs |-> Fragments(Pick(lines, runs[k]))]

\* _HTMLTextExtractor: the data outside of skipped tags and of the title.  A file that is not
\* HTML is data.
ParseHtml(content) ==
  LET parts == IF content.kind = "html" THEN content.parts
               ELSE <<[tag |-> "data", text |-> Decoded(content)]>>
      depth == HtmlDepth(parts)
      inTitle(i) == \E j \in 1 .. i : /\ parts[j].tag = "title"
                                      /\ \A k \in j .. i : parts[k].tag # "endtitle"
      data == {i \in Tagged(parts, "data") : depth[i] = 0 /\ ~inTitle(i)}
      texts == TextsOf(parts, data)
      shown == [k \in DOMAIN texts |-> Strip(texts[k])]
  IN  Parses(Numbered(<<OrUri(Normalize(Beside(shown)))>>))

\* _spreadsheet_output and chunk_rows: a section for each window of rows that is not blank.
ParseRows(rows) ==
  LET windows == Runs(Len(rows), {i \in 1 .. Len(rows) : i % Window # 0})
      texts == [w \in DOMAIN windows |-> FlattenSeq(Pick(rows, windows[w]))]
      full == Pick(texts, {w \in DOMAIN texts : Normalize(texts[w]) # <<>>})
  IN  IF rows = <<>> THEN Fails("ParseError")
      ELSE Parses([k \in DOMAIN full |->
                    Section(<<k - 1>>, full[k], "", 0, {<<"table_window", k - 1>>})])

ParseCsv(content) ==
  LET parts == PartsAs(content, "csv", "row")
  IN  ParseRows(Take(MaxRows, TextsOf(parts, Tagged(parts, "row"))))

\* The rows of all sheets count against one limit.
ParseXlsx(content) ==
  LET parts == content.parts
      sheet(i) == Cardinality({j \in 1 .. i : parts[j].tag = "sheet"})
      rows == {i \in Tagged(parts, "row") : sheet(i) <= MaxSheets}
  IN  ParseRows(Take(MaxRows, TextsOf(parts, rows)))

\* A page keeps its number when the pages before it have no text.
ParsePdf(content) ==
  LET pages == Take(MaxPages, content.parts)
      full == {i \in DOMAIN pages : Normalize(pages[i].text) # <<>>}
      section(i) == Section(<<i - 1>>, Normalize(pages[i].text), "", i, {})
  IN  IF full = {} THEN Fails("NeedsDocling")
      ELSE Parses(Pick([i \in DOMAIN pages |-> section(i)], full))

\* A section for each page that has paragraphs, one for the whole if nothing marks pages,
\* and one more for the tables, wherever they stood.
ParseDocx(content) ==
  LET parts == content.parts
      breaks == Tagged(parts, "break")
      rows == Tagged(parts, "row")
      page(i) == 1 + Cardinality({j \in breaks : j < i})
      written == {i \in Tagged(parts, "paragraph") : parts[i].text # <<>>}
      numbers == InOrder({page(i) : i \in written})
      section(k) ==
        Section(IF breaks = {} THEN <<"paragraphs">> ELSE <<"page", numbers[k]>>,
                Below(TextsOf(parts, {i \in written : page(i) = numbers[k]})), "",
                IF breaks = {} THEN 0 ELSE numbers[k], {})
      tables == Section(<<"tables">>, FlattenSeq(TextsOf(parts, rows)), "", 0, {})
      sections == [k \in DOMAIN numbers |-> section(k)] \o (IF rows = {} THEN <<>> ELSE <<tables>>)
  IN  IF \A k \in DOMAIN sections : Normalize(sections[k].text) = <<>>
      THEN Fails("ParseError") ELSE Parses(sections)

ParsePptx(content) ==
  LET slides == Take(MaxSlides, content.parts)
      full == {i \in DOMAIN slides : Normalize(slides[i].text) # <<>>}
      section(i) ==
        Section(<<i - 1>>, Normalize(slides[i].text), "", 0, {<<"slide_number", i>>})
  IN  IF full = {} THEN Fails("ParseError")
      ELSE Parses(Pick([i \in DOMAIN slides |-> section(i)], full))

\* The names of the files of an archive, one to a line.
ParseZip(content) ==
  LET parts == IF content.kind = "zip" THEN content.parts
               ELSE <<[tag |-> "file", text |-> <<Line(Entry)>>]>>
      names == Tagged(parts, "file")
      listing == Section(<<"archive">>, FlattenSeq(TextsOf(parts, names)), "", 0,
                         {<<"archive_listing", TRUE>>})
  IN  IF Len(parts) > MaxEntries \/ content.expanded > MaxExpansion THEN Fails("SourceTooLarge")
      ELSE IF names = {} THEN Fails("ParseError")
      ELSE Parses(<<listing>>)

\* What MarkItDown makes of the file at the source's URI, whatever was loaded; plain text
\* where it is not installed.
ParseMarkItDown(content, converted) ==
  CASE converted.outcome = "unavailable" -> ParseText(content)
    [] converted.outcome = "failed" -> Fails("ParseError")
    [] converted.outcome = "text" -> Parses(Numbered(<<OrUri(Normalize(converted.text))>>))

\* What a handler of binary files can open; its library raises for the others.
CanOpen(handler, kind) ==
  \/ kind = handler
  \/ handler = "zip" /\ kind \in Archives

Parse(handler, content, converted) ==
  IF handler \in BinaryKinds /\ ~CanOpen(handler, content.kind) THEN Fails("ParseError")
  ELSE CASE handler = "text" -> ParseText(content)
         [] handler = "markdown" -> ParseMarkdown(content)
         [] handler = "html" -> ParseHtml(content)
         [] handler = "csv" -> ParseCsv(content)
         [] handler = "pdf" -> ParsePdf(content)
         [] handler = "docx" -> ParseDocx(content)
         [] handler = "pptx" -> ParsePptx(content)
         [] handler = "xlsx" -> ParseXlsx(content)
         [] handler = "zip" -> ParseZip(content)
         [] handler = "markitdown" -> ParseMarkItDown(content, converted)
         [] handler = "docling" -> Fails("NeedsDocling")
=============================================================================
