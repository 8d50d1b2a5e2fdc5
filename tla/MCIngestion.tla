---------------------------- MODULE MCIngestion ----------------------------
(***************************************************************************)
(* Files of every kind with up to four parts, which a policy lets through  *)
(* with and without each cleaning step; and one small file of each kind    *)
(* under names, types, places and policies that agree with it or do not.   *)
(***************************************************************************)
EXTENDS Ingestion, TLC

Of(size, symbols, words, closes) ==
  [size |-> size, visible |-> size - words + 1, symbols |-> symbols,
   alnum |-> size - words + 1 - symbols, words |-> words, closes |-> closes]

Shapes ==
  "head" :> Of(4, 0, 1, FALSE) @@ "foot." :> Of(5, 1, 1, TRUE) @@ "some words" :> Of(10, 0, 2, FALSE)
    @@ "an end." :> Of(7, 1, 2, TRUE) @@ "long" :> Of(27, 0, 1, FALSE) @@ "***" :> Of(3, 3, 1, FALSE)
    @@ "uri" :> Of(5, 0, 1, FALSE) @@ "entry" :> Of(9, 2, 1, FALSE) @@ "garbage" :> Of(8, 6, 1, FALSE) @@ "other" :> Of(5, 0, 1, FALSE)

Part(tag, text) == [tag |-> tag, text |-> text]
Content(kind, parts) == [kind |-> kind, parts |-> parts, size |-> 9, expanded |-> 9]
Lists(n, set) == UNION {[1 .. k -> set] : k \in 0 .. n}

\* What a file of each kind may consist of.
Lines(tag, lines) == {Part(tag, <<line>>) : line \in lines}
TextLines == {Blank, Line("some words"), Line("an end."), Line("long"), Line("***")}
Pages ==
  {<<>>, <<Line("head"), Blank, Line("some words")>>, <<Line("head"), Line("an end."), Line("foot.")>>,
   <<Line("head")>>, <<Line("***"), Line("foot.")>>, <<Line("some words"), Line("head")>>,
   <<Line("long"), Blank, Line("an end."), Line("foot.")>>}

Files ==
  {Content("text", parts) : parts \in Lists(3, Lines("line", TextLines))} \cup
  {Content("markdown", parts) :
     parts \in Lists(4, Lines("line", {Blank, Line("some words")}) \cup Lines("heading", {Line("head")}))} \cup
  {Content("html", parts) :
     parts \in Lists(4, Lines("data", {Line("some words")}) \cup
                        {Part(tag, <<>>) : tag \in {"skip", "endskip"}}) \cup
                Lists(3, Lines("data", {Line("***")}) \cup
                        {Part(tag, <<>>) : tag \in {"title", "endtitle"}}) \cup
                Lists(3, {Part("data", text) :
                            text \in {<<Blank>>, <<Line("head"), Line("an end.")>>,
                                      <<Line("other"), Blank, Line("***"), Blank>>}})} \cup
  {Content("csv", parts) : parts \in Lists(4, Lines("row", {Blank, Line("head"), Line("other")}))} \cup
  {Content("xlsx", <<Part("sheet", <<>>)>> \o parts) :
     parts \in Lists(4, Lines("row", {Blank, Line("other")}) \cup {Part("sheet", <<>>)})} \cup
  {Content("pdf", [i \in DOMAIN texts |-> Part("page", texts[i])]) :
     texts \in [1 .. 3 -> Pages] \cup Lists(4, {<<>>, <<Line("head"), Line("long")>>})} \cup
  {Content("docx", parts) :
     parts \in Lists(4, Lines("paragraph", {Line("some words")}) \cup
                        Lines("row", {Line("other")}) \cup
                        {Part("paragraph", <<>>), Part("break", <<>>)})} \cup
  {Content("pptx", [i \in DOMAIN texts |-> Part("slide", texts[i])]) : texts \in Lists(3, {<<>>, <<Line("head")>>, <<Line("***"), Line("foot.")>>})} \cup
  {[Content("zip", parts) EXCEPT !.expanded = n] :
     parts \in Lists(3, Lines("file", {Line("other")}) \cup Lines("unsafe", {Line("head")})),
     n \in {9, 99}}

DefaultPolicy ==
  [allowed_types |-> {}, allowed_extensions |-> {}, allowed_schemes |-> {"", "file", "http", "https"},
   allow_local_files |-> TRUE, allow_docling |-> FALSE, docling_tier |-> FALSE,
   cleaning |-> Switch]

From(content) ==
  [raw |-> TRUE, scheme |-> "", file |-> FALSE, named |-> TRUE, declared |-> content.kind,
   extension |-> content.kind, content |-> content]

Processed ==
  {[source |-> From(content), policy |-> [DefaultPolicy EXCEPT !.cleaning = switches]] :
     content \in Files,
     switches \in {Switch, {}, Switch \ {"repair"}, Switch \ {"empty", "noise"}}}

\* A small file of each kind, and one that is too large.
Samples ==
  {Content(kind, <<Part(tag, <<Line("other")>>)>>) :
     <<kind, tag>> \in {<<"text", "line">>, <<"markdown", "line">>, <<"html", "data">>, <<"csv", "row">>,
                        <<"pdf", "page">>, <<"docx", "paragraph">>, <<"pptx", "slide">>,
                        <<"xlsx", "row">>, <<"zip", "file">>}} \cup
  {[Content("text", <<>>) EXCEPT !.size = 11]}

Place(raw, scheme, file, named) ==
  [raw |-> raw, scheme |-> scheme, file |-> file, named |-> named]

Places ==
  {Place(FALSE, "http", FALSE, TRUE), Place(FALSE, "http", FALSE, FALSE),
   Place(FALSE, "https", FALSE, TRUE), Place(FALSE, "", TRUE, TRUE),
   Place(FALSE, "file", TRUE, TRUE), Place(FALSE, "file", FALSE, TRUE),
   Place(FALSE, "ftp", FALSE, TRUE), Place(TRUE, "ftp", FALSE, TRUE)}

Policies ==
  {DefaultPolicy,
   [DefaultPolicy EXCEPT !.allow_docling = TRUE],
   [DefaultPolicy EXCEPT !.allow_docling = TRUE, !.docling_tier = TRUE],
   [DefaultPolicy EXCEPT !.allowed_types = {"pdf", "text", "html"}, !.allowed_extensions = {"pdf", "html"}],
   [DefaultPolicy EXCEPT !.allow_local_files = FALSE, !.allowed_schemes = {"", "ftp", "https"}]}

Routed ==
  {[source |-> [raw |-> place.raw, scheme |-> place.scheme, file |-> place.file, named |-> place.named,
                declared |-> declared, extension |-> extension, content |-> content],
    policy |-> chosen] :
     place \in Places, content \in Samples, chosen \in Policies,
     declared \in {"", "octet", "binary", "text", "pdf"},
     extension \in {"", "pdf", "docx", "zip", "image", "odd"}}

Requests == Processed \cup Routed
Conversions ==
  {[outcome |-> "unavailable", text |-> <<>>], [outcome |-> "failed", text |-> <<>>],
   [outcome |-> "text", text |-> <<Line("other")>>]}
=============================================================================
