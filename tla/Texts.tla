------------------------------- MODULE Texts -------------------------------
(***************************************************************************)
(* Texts as ingestion sees them.  A text is a sequence of lines and a line *)
(* a sequence of fragments: a line of the source is one fragment, a blank  *)
(* line none, and lines that are joined keep their fragments.  Of a        *)
(* fragment only its Shape matters; a blank or a line break between two    *)
(* fragments is one character.  Lines of white space alone, hyphenation    *)
(* and control characters, which only change fragments, are left out.      *)
(***************************************************************************)
EXTENDS Integers, Sequences, FiniteSets, SequencesExt, FiniteSetsExt

CONSTANTS
  Fragment,
  Shape     \* characters, characters but blanks, of which punctuation and letters or
            \* digits; words; and whether the fragment ends a sentence

\* No character is both punctuation and a letter or a digit.
ASSUME TextsAssumption ==
  /\ Shape \in [Fragment -> [size : Nat \ {0}, visible : Nat \ {0}, symbols : Nat, alnum : Nat,
                             words : Nat, closes : BOOLEAN]]
  /\ \A f \in Fragment : Shape[f].symbols + Shape[f].alnum <= Shape[f].visible

Text == Seq(Seq(Fragment))

Blank == <<>>
Line(f) == <<f>>

\* A text as it stands in a file.
SourceText == Seq({Blank} \cup {Line(f) : f \in Fragment})

\* A DocumentSection; page 0 is none.
Section(id, text, heading, page, metadata) ==
  [section_id |-> id, text |-> text, heading |-> heading, page |-> page, metadata |-> metadata]

Fragments(text) == FlattenSeq(text)

\* Numbers in increasing order.
InOrder(numbers) ==
  [k \in 1 .. Cardinality(numbers) |->
     CHOOSE n \in numbers : Cardinality({m \in numbers : m < n}) = k - 1]

\* The elements of a sequence at some positions, in order.
Pick(seq, positions) ==
  LET order == InOrder(positions) IN [k \in DOMAIN order |-> seq[order[k]]]

\* The first of a sequence; all of a shorter one.
Take(n, seq) == SubSeq(seq, 1, IF Len(seq) < n THEN Len(seq) ELSE n)

\* The longest intervals of 1 .. n within which each position is linked to the next.
Runs(n, linked) ==
  LET ends == InOrder({i \in 1 .. n : i = n \/ i \notin linked})
  IN  [k \in DOMAIN ends |-> (IF k = 1 THEN 1 ELSE ends[k - 1] + 1) .. ends[k]]

\* normalize_text: a blank line stays if it is the first after a line and not the last.
Kept(text) ==
  {i \in DOMAIN text :
     \/ text[i] # Blank
     \/ /\ i > 1 /\ text[i - 1] # Blank
        /\ \E j \in i .. Len(text) : text[j] # Blank}

Normalize(text) == Pick(text, Kept(text))

\* split_paragraphs: each paragraph as its fragments.
Paragraphs(text) ==
  LET alike == {i \in 1 .. Len(text) - 1 : text[i] = Blank <=> text[i + 1] = Blank}
      runs == Runs(Len(text), alike)
      written == {k \in DOMAIN runs : \A i \in runs[k] : text[i] # Blank}
      paragraphs == Pick(runs, written)
  IN  [k \in DOMAIN paragraphs |-> Fragments(Pick(text, paragraphs[k]))]

\* Texts one below the other, with a blank line in between.
Below(texts) ==
  FlattenSeq([k \in DOMAIN texts |-> IF k = 1 THEN texts[k] ELSE <<Blank>> \o texts[k]])

Total(fragments, Count(_)) ==
  LET sum[n \in 0 .. Len(fragments)] ==
        IF n = 0 THEN 0 ELSE sum[n - 1] + Count(Shape[fragments[n]])
  IN  sum[Len(fragments)]

\* The length of fragments with a character between two of them, and of a text.
Length(fragments) ==
  IF fragments = <<>> THEN 0
  ELSE Total(fragments, LAMBDA shape : shape.size) + Len(fragments) - 1

TextLength(text) ==
  LET sum[n \in 0 .. Len(text)] == IF n = 0 THEN 0 ELSE sum[n - 1] + Length(text[n])
  IN  IF text = <<>> THEN 0 ELSE sum[Len(text)] + Len(text) - 1
=============================================================================
