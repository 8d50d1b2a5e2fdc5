------------------------------ MODULE Cleaning ------------------------------
(***************************************************************************)
(* DocumentCleaner: what is left of the sections of a document.  Lines     *)
(* that several pages carry at their edges are taken out, and sections     *)
(* that are empty or noise are dropped.                                    *)
(*                                                                         *)
(* A noise score is a fraction of the visible characters; it is kept as    *)
(* its numerator over 2000 times their number.                             *)
(***************************************************************************)
EXTENDS Texts

CONSTANTS
  MinPages,    \* repeated_line_min_pages
  EdgeLines,   \* repeated_line_edge_lines
  MinChars,    \* min_text_chars
  MaxNoise,    \* max_symbol_ratio, in units of 1 / 2000
  BodyWords,   \* a line of so many words is no header,
  BodyChars    \* nor one of more characters

ASSUME CleaningAssumption ==
  /\ {MinPages, EdgeLines, BodyWords} \subseteq Nat \ {0}
  /\ {MinChars, MaxNoise, BodyChars} \subseteq Nat

\* The switches of a CleaningPolicy.
Switch == {"enabled", "repair", "repeated", "empty", "noise"}

\* _repair_pdf_line_wraps: a line that does not end a sentence goes on in the next.
Repair(text) ==
  LET wraps == {i \in 1 .. Len(text) - 1 : /\ Blank \notin {text[i], text[i + 1]}
                                           /\ ~Shape[Last(text[i])].closes}
      runs == Runs(Len(text), wraps)
  IN  [k \in DOMAIN runs |-> Fragments(Pick(text, runs[k]))]

\* _edge_lines: blank lines do not count.
AtEdge(text) ==
  LET lines == {i \in DOMAIN text : text[i] # Blank}
      edge == {i \in lines : \/ Cardinality({j \in lines : j <= i}) <= EdgeLines
                             \/ Cardinality({j \in lines : j >= i}) <= EdgeLines}
  IN  {text[i] : i \in edge}

LooksLikeBody(line) ==
  \/ Total(line, LAMBDA shape : shape.words) >= BodyWords
  \/ Length(line) > BodyChars

\* Mutant: a line is counted as often as it stands at an edge of any section.
RepeatedCountingTwice(sections) ==
  LET pages == {i \in DOMAIN sections : sections[i].page # 0}
      first(line) == {i \in pages : line \in AtEdge(sections[i].text)}
      short(line) == {i \in first(line) : Len(sections[i].text) <= EdgeLines}
  IN  {line \in UNION {AtEdge(sections[i].text) : i \in pages} :
         /\ Cardinality(first(line)) + Cardinality(short(line)) >= MinPages
         /\ ~LooksLikeBody(line)}

\* _find_repeated_edge_lines: a line counts once for each page it is at an edge of.
Repeated(sections) ==
  LET pages == {i \in DOMAIN sections : sections[i].page # 0} IN
  {line \in UNION {AtEdge(sections[i].text) : i \in pages} :
     /\ Cardinality({i \in pages : line \in AtEdge(sections[i].text)}) >= MinPages
     /\ ~LooksLikeBody(line)}

AtLeast0(n) == IF n > 0 THEN n ELSE 0

\* _noise_score: punctuation, brevity and too few letters each add to it.
Noise(text) ==
  LET fragments == Fragments(text)
      visible == Total(fragments, LAMBDA shape : shape.visible)
      symbols == Total(fragments, LAMBDA shape : shape.symbols)
      alnum == Total(fragments, LAMBDA shape : shape.alnum)
  IN  1200 * symbols + 30 * visible * AtLeast0(20 - TextLength(text))
        + AtLeast0(360 * visible - 800 * alnum)

NoisierThan(text, bound) ==
  Noise(text) >= bound * Total(Fragments(text), LAMBDA shape : shape.visible)

\* _drop_reason.
DropReason(text, switches) ==
  IF text = <<>> /\ "empty" \in switches THEN "empty"
  ELSE IF "noise" \notin switches THEN ""
  ELSE IF TextLength(text) < MinChars /\ NoisierThan(text, MaxNoise) THEN "short_noise"
  ELSE IF NoisierThan(text, 1900) THEN "high_noise"
  ELSE ""

\* A section's text when it is clean, and how many lines were removed from it.
Cleaned(section, repeated, switches) ==
  LET joined == Normalize(IF "repair" \in switches THEN Repair(section.text) ELSE section.text)
      others == {i \in DOMAIN joined : "repeated" \in switches => joined[i] \notin repeated}
      removed == Len(joined) - Cardinality(others)
      metadata == IF removed = 0 THEN {} ELSE {<<"removed_repeated_lines", removed>>}
  IN  Section(section.section_id, Normalize(Pick(joined, others)), section.heading,
              section.page, section.metadata \cup metadata)

\* DocumentCleaner.clean.
Clean(sections, switches) ==
  LET repeated == Repeated(sections)
      cleaned == [i \in DOMAIN sections |-> Cleaned(sections[i], repeated, switches)]
  IN  IF "enabled" \in switches
      THEN Pick(cleaned, {i \in DOMAIN cleaned : DropReason(cleaned[i].text, switches) = ""})
      ELSE sections
=============================================================================
