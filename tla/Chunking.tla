------------------------------ MODULE Chunking ------------------------------
(***************************************************************************)
(* SectionAwareChunker: the paragraphs of the cleaned sections, those that *)
(* are too long cut in slices, packed in as few chunks as their order      *)
(* allows.  A unit is an interval from .. to - 1 of the characters of a    *)
(* paragraph of a section.                                                 *)
(***************************************************************************)
EXTENDS Texts

CONSTANTS MaxChars   \* max_chars

ASSUME ChunkingAssumption == MaxChars \in Nat \ {0}

\* Where the blanks and line breaks of a paragraph are.
Separators(paragraph) ==
  {Length(SubSeq(paragraph, 1, k)) : k \in 1 .. Len(paragraph) - 1}

\* _split_large_text: slices of MaxChars characters, stripped; the empty ones are left out.
Slices(paragraph) ==
  LET length == Length(paragraph)
      blanks == Separators(paragraph)
      slice(k) == LET from == (k - 1) * MaxChars
                      to == IF k * MaxChars < length THEN k * MaxChars ELSE length
                  IN  [from |-> IF from \in blanks THEN from + 1 ELSE from,
                       to |-> IF to - 1 \in blanks THEN to - 1 ELSE to]
      slices == [k \in 1 .. (length + MaxChars - 1) \div MaxChars |-> slice(k)]
  IN  Pick(slices, {k \in DOMAIN slices : slices[k].from < slices[k].to})

\* _section_units.
Units(sections) ==
  FlattenSeq([i \in DOMAIN sections |->
    LET paragraphs == Paragraphs(sections[i].text) IN
    FlattenSeq([p \in DOMAIN paragraphs |->
      LET slices == Slices(paragraphs[p]) IN
      [k \in DOMAIN slices |->
        [section |-> i, paragraph |-> p, from |-> slices[k].from, to |-> slices[k].to]]])])

\* The characters of units joined by a blank line.
Joined(units) ==
  LET sum[n \in 0 .. Len(units)] ==
        IF n = 0 THEN 0 ELSE sum[n - 1] + units[n].to - units[n].from + 2
  IN  sum[Len(units)] - 2

\* Mutant: the separator between two units is not counted.
AddUnitTight(groups, unit) ==
  LET last == Len(groups) IN
  IF last > 0 /\ Joined(groups[last]) + unit.to - unit.from <= MaxChars
  THEN [groups EXCEPT ![last] = Append(@, unit)]
  ELSE Append(groups, <<unit>>)

\* A unit joins the last group if it fits, and begins another if not.
AddUnit(groups, unit) ==
  LET last == Len(groups) IN
  IF last > 0 /\ Joined(Append(groups[last], unit)) <= MaxChars
  THEN [groups EXCEPT ![last] = Append(@, unit)]
  ELSE Append(groups, <<unit>>)

\* _pack_units.
Pack(units) ==
  LET packed[n \in 0 .. Len(units)] ==
        IF n = 0 THEN <<>> ELSE AddUnit(packed[n - 1], units[n])
  IN  packed[Len(units)]

OrderedUnique(seq) ==
  Pick(seq, {i \in DOMAIN seq : \A j \in 1 .. i - 1 : seq[j] # seq[i]})

\* _chunk_metadata: of the sections the units come from.
ChunkMetadata(sections, units) ==
  LET of(k) == sections[units[k].section]
      pages == {of(k).page : k \in DOMAIN units} \ {0}
      headings == [k \in DOMAIN units |-> of(k).heading]
  IN  [sections |-> OrderedUnique([k \in DOMAIN units |-> of(k).section_id]),
       headings |-> SelectSeq(OrderedUnique(headings), LAMBDA heading : heading # ""),
       pages |-> IF pages = {} THEN <<>> ELSE <<Min(pages), Max(pages)>>,
       common |-> {pair \in of(1).metadata : \A k \in DOMAIN units : pair \in of(k).metadata}]

\* Mutant: a document without text gets no chunk.
ChunkOrNone(sections) ==
  LET groups == Pack(Units(sections)) IN
  [g \in DOMAIN groups |->
    [chunk_index |-> g - 1, units |-> groups[g], metadata |-> ChunkMetadata(sections, groups[g])]]

\* SectionAwareChunker.chunk: a document without text still gets a chunk, its URI.
Chunk(sections) ==
  LET groups == Pack(Units(sections))
      fallback == [sections |-> <<>>, headings |-> <<>>, pages |-> <<>>, common |-> {}]
  IN  IF groups = <<>>
      THEN <<[chunk_index |-> 0, units |-> <<>>, metadata |-> fallback]>>
      ELSE [g \in DOMAIN groups |->
             [chunk_index |-> g - 1, units |-> groups[g],
              metadata |-> ChunkMetadata(sections, groups[g])]]
=============================================================================
