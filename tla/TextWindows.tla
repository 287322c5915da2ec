---------------------------- MODULE TextWindows -----------------------------
(***************************************************************************)
(* How a cleaned narrative is cut up: into chapters and extraction windows *)
(* for the graph (graph/segmentation.py), and into the overlapping chunks  *)
(* everything is indexed by (chunking/chunker.py); and how a quote that    *)
(* the extractor gave for a window is located in it and mapped to chunks   *)
(* (graph/provenance).                                                     *)
(*                                                                         *)
(* A text is its tokens: text.words[i] is the word of token i, a sequence  *)
(* of characters, followed by white space that belongs to the token, and   *)
(* text.at[n] is the offset of the character after n tokens.  Paragraphs   *)
(* end after the tokens text.breaks, chapters begin after text.headings[p] *)
(* by the p-th pattern, so a window is a pair of token counts, while       *)
(* chunks cut the text at any character.  Encoding a substring is assumed  *)
(* to give the tokens that lie in it.                                      *)
(***************************************************************************)
EXTENDS SequencesExt, Naturals

CONSTANTS
  Texts,          \* the texts a run may start from
  Quotes,         \* the quotes the extractor may give: sequences of words
  _SMART_CHAR_MAP,  \* a character -> the characters it is compared as
  None,           \* no window index, or nothing located
  MIN_CHAPTERS,
  MAX_EXTRACTION_TOKENS,
  FALLBACK_WINDOW_TOKENS,
  WINDOW_OVERLAP_TOKENS,
  SNAP_RADIUS,    \* PARAGRAPH_SNAP_TOLERANCE_TOKENS * _CHARS_PER_TOKEN_ESTIMATE
  BREAK_LENGTH,   \* the characters of a blank line
  chunk_size,
  overlap,
  FuzzyOverlap,   \* fuzzy_overlap_threshold, in percent
  FuzzyMargin     \* fuzzy_uniqueness_margin, in percent

(* ChunkingConfig's validator. *)
ASSUME ChunkingAssumption ==
  chunk_size \in Nat \ {0} /\ overlap \in Nat /\ overlap < chunk_size

ASSUME SegmentationAssumption ==
  /\ {WINDOW_OVERLAP_TOKENS, FALLBACK_WINDOW_TOKENS, MAX_EXTRACTION_TOKENS} \subseteq Nat
  /\ WINDOW_OVERLAP_TOKENS < FALLBACK_WINDOW_TOKENS
  /\ FALLBACK_WINDOW_TOKENS < MAX_EXTRACTION_TOKENS
  /\ SNAP_RADIUS \in Nat /\ BREAK_LENGTH \in Nat \ {0}

(* A margin of 0, which ProvenanceConfig admits, would ask a fuzzy match   *)
(* for no margin at all.  None is no place in a window.                    *)
ASSUME ProvenanceAssumption ==
  FuzzyOverlap \in Nat /\ FuzzyMargin \in Nat \ {0} /\ None \notin Nat

(* The white space after the i-th word of a text. *)
Blank(t, i) == IF i \in t.breaks THEN BREAK_LENGTH ELSE 1

(* A sequence of words, each a sequence of characters and none empty. *)
Wording(words) ==
  /\ words \in Seq(ToSet(words)) \ {<<>>}
  /\ \A i \in DOMAIN words : words[i] \in Seq(ToSet(words[i])) \ {<<>>}

(* What a text is.  It is not empty, and neither are a word and a chapter. *)
ASSUME TextAssumption ==
  \A t \in Texts :
    /\ Wording(t.words)
    /\ t.at \in [0..Len(t.words) -> Nat] /\ t.at[0] = 0
    /\ \A i \in 1..Len(t.words) :
         t.at[i] = t.at[i - 1] + Len(t.words[i]) + Blank(t, i)
    /\ t.breaks \subseteq 1..Len(t.words)
    /\ t.headings \in Seq(Seq(0..(Len(t.words) - 1)))
    /\ \A p \in DOMAIN t.headings : \A i, j \in DOMAIN t.headings[p] :
         i < j => t.headings[p][i] < t.headings[p][j]

(* resolve_quote gives up on a quote without a word. *)
ASSUME QuoteAssumption == \A q \in Quotes : Wording(q)

ASSUME CanonAssumption ==
  \A c \in DOMAIN _SMART_CHAR_MAP :
    _SMART_CHAR_MAP[c] \in Seq(ToSet(_SMART_CHAR_MAP[c])) \ {<<>>}

(* Prose: the overlap of two windows is longer than a snap reaches.  A     *)
(* text whose tokens are mostly single characters is outside this model.   *)
ASSUME ProseAssumption ==
  \A t \in Texts : \A n \in 0..(Len(t.words) - WINDOW_OVERLAP_TOKENS) :
    t.at[n + WINDOW_OVERLAP_TOKENS] - t.at[n] >= SNAP_RADIUS

VARIABLES
  text,      \* the cleaned text
  chapters,  \* the chapter spans, as pairs of token counts
  chapter,   \* the chapter being split
  cursor,    \* _compute_window_boundaries' cursor_tokens, from the chapter's start
  windows,   \* the ExtractionWindows so far
  chunks,    \* the chunks so far: <<char_start, char_end>>
  located,   \* the last quote resolved, and where; None at first
  phase      \* "detect", "window", "chunk", then "index"

segmentation == <<chapters, chapter, cursor, windows>>

-----------------------------------------------------------------------------
(* segmentation.py *)

TotalTokens == Len(text.words)
TextLength == text.at[TotalTokens]

(* The headings of the first pattern that finds enough of them. *)
ChapterHeadings ==
  LET enough == {p \in DOMAIN text.headings : Len(text.headings[p]) >= MIN_CHAPTERS}
  IN  IF enough = {} THEN <<>> ELSE text.headings[Min(enough)]

(* Consecutive spans between headings; what precedes the first one is      *)
(* chapter 0, and the whole text is one span without any.                  *)
_build_chapter_spans(heading_starts) ==
  LET starts == IF heading_starts = <<>> \/ heading_starts[1] > 0
                THEN <<0>> \o heading_starts ELSE heading_starts
  IN  [i \in DOMAIN starts |->
         <<starts[i], IF i < Len(starts) THEN starts[i + 1] ELSE TotalTokens>>]

Fallback == ChapterHeadings = <<>>

max_tokens == IF Fallback THEN FALLBACK_WINDOW_TOKENS ELSE MAX_EXTRACTION_TOKENS

Distance(m, n) == IF m > n THEN m - n ELSE n - m

(* The paragraph break nearest in characters to token count n among those  *)
(* found within the radius and the span; the earlier of two; n if none.    *)
_snap_to_paragraph_break(span, n) ==
  LET offset == text.at[n]
      from == Max({text.at[span[1]], offset - SNAP_RADIUS})
      to == Min({text.at[span[2]], offset + SNAP_RADIUS})
      near == {b \in text.breaks : text.at[b] - BREAK_LENGTH >= from /\ text.at[b] <= to}
      far(b) == Distance(text.at[b], offset)
      nearest == {b \in near : \A c \in near : far(b) <= far(c)}
  IN  IF near = {} THEN n ELSE Min(nearest)

(* Mutant: the snap wins over the budget. *)
SnappedEnd(span, start, end) == _snap_to_paragraph_break(span, end)

(* The snapped end if the window stays within the budget. *)
WindowEnd(span, start, end) ==
  LET snapped == _snap_to_paragraph_break(span, end)
  IN  IF snapped - start <= max_tokens THEN snapped ELSE end

-----------------------------------------------------------------------------
(* chunker.py, span_overlap.py *)

(* Mutant: chunks follow each other without overlap. *)
NextChunkApart ==
  LET start == Len(chunks) * chunk_size
  IN  <<start, Min({start + chunk_size, TextLength})>>

NextChunk ==
  LET start == Len(chunks) * (chunk_size - overlap)
  IN  <<start, Min({start + chunk_size, TextLength})>>

chunks_overlapping_span(char_start, char_end) ==
  {k \in DOMAIN chunks : chunks[k][1] < char_end /\ char_start < chunks[k][2]}

-----------------------------------------------------------------------------
(* provenance/canon.py: white space becomes one space, so a canonical text *)
(* is a sequence of canonical words.                                       *)

Mapped(c) == IF c \in DOMAIN _SMART_CHAR_MAP THEN _SMART_CHAR_MAP[c] ELSE <<c>>

(* The characters of a word as they are compared, each with the offset in  *)
(* the word of the one that produced it.                                   *)
canonicalize_with_offsets(word) ==
  LET produced(i) == [k \in DOMAIN Mapped(word[i]) |-> <<Mapped(word[i])[k], i - 1>>]
      upto[n \in 0..Len(word)] == IF n = 0 THEN <<>> ELSE upto[n - 1] \o produced(n)
  IN  upto[Len(word)]

CanonWord(word) ==
  LET canon == canonicalize_with_offsets(word)
  IN  [k \in DOMAIN canon |-> canon[k][1]]
CanonWords(words) == [i \in DOMAIN words |-> CanonWord(words[i])]

-----------------------------------------------------------------------------
(* provenance/matching.py and _resolve_fact.  A place <<i, k>> is the k-th *)
(* character of the i-th of some canonical words.                          *)

WindowWords(w) == SubSeq(text.words, w.start + 1, w.end)

Places(words) == UNION {{i} \X DOMAIN words[i] : i \in DOMAIN words}
Precedes(x, y) == x[1] < y[1] \/ (x[1] = y[1] /\ x[2] < y[2])

(* The words read as the quote from x on: any substring of them may, so it *)
(* may begin and end inside a word, but every space in it is one of theirs.*)
ReadsAt(quote, words, x) ==
  /\ x[1] + Len(quote) - 1 <= Len(words)
  /\ \A j \in DOMAIN quote :
       LET word == words[x[1] + j - 1]
           from == IF j = 1 THEN x[2] ELSE 1
           to   == IF j = Len(quote) THEN from + Len(quote[j]) - 1 ELSE Len(word)
       IN  to <= Len(word) /\ SubSeq(word, from, to) = quote[j]

(* The last character of the quote when it is read from x on. *)
LastPlace(quote, x) ==
  <<x[1] + Len(quote) - 1,
    (IF Len(quote) = 1 THEN x[2] - 1 ELSE 0) + Len(quote[Len(quote)])>>

(* The runs of as many words as the quote has, by the first of them, and   *)
(* how many words of a run agree.                                          *)
Starts(quote, words) == 1..(Len(words) - Len(quote) + 1)
Agreement(quote, words, i) == Cardinality({j \in DOMAIN quote : words[i + j - 1] = quote[j]})

(* Tier 2: the run that agrees best, if well enough and if the next best   *)
(* is not within the margin.                                               *)
_fuzzy_match(quote, words) ==
  LET best == Max({Agreement(quote, words, i) : i \in Starts(quote, words)})
      tops == {i \in Starts(quote, words) : Agreement(quote, words, i) = best}
      next == Max({Agreement(quote, words, i) : i \in Starts(quote, words) \ {Min(tops)}}
                  \union {0})
      alone == Cardinality(Starts(quote, words)) = 1
  IN  IF /\ Starts(quote, words) # {}
         /\ best * 100 >= FuzzyOverlap * Len(quote)
         /\ alone \/ (best - next) * 100 >= FuzzyMargin * Len(quote)
      THEN Min(tops) ELSE None

(* Tier 1 is an exact match, the first one; tier 2 only without any.  The  *)
(* match is from its first to its last character.                          *)
Match(quote, words) ==
  LET exact == {x \in Places(words) : ReadsAt(quote, words, x)}
      idx   == CHOOSE x \in exact : \A y \in exact : ~ Precedes(y, x)
      start == _fuzzy_match(quote, words)
      final == start + Len(quote) - 1
  IN  IF exact # {}
      THEN [tier |-> "EXACT",
            ambiguous |-> \E x \in exact : Precedes(LastPlace(quote, idx), x),
            first |-> idx, last |-> LastPlace(quote, idx)]
      ELSE IF start # None
      THEN [tier |-> "FUZZY", ambiguous |-> FALSE,
            first |-> <<start, 1>>, last |-> <<final, Len(words[final])>>]
      ELSE [tier |-> "FAILED", ambiguous |-> FALSE, first |-> None, last |-> None]

resolve_quote(quote, w) == Match(CanonWords(quote), CanonWords(WindowWords(w)))

(* Where the i-th word of the text ends. *)
WordEnd(i) == text.at[i] - Blank(text, i)

(* The offset in the window of the character at a place in it. *)
window_offsets(w, x) ==
  LET i == w.start + x[1]
  IN  text.at[i - 1] - text.at[w.start] + canonicalize_with_offsets(text.words[i])[x[2]][2]

(* Mutant: offsets in the window are taken for offsets in the text. *)
LocalSpan(w, match) ==
  <<window_offsets(w, match.first), window_offsets(w, match.last) + 1>>

(* From the first character of a match to the last one, in the text's      *)
(* coordinates.                                                            *)
GlobalSpan(w, match) ==
  LET window_char_start == text.at[w.start]
      char_start == window_offsets(w, match.first)
      char_end == window_offsets(w, match.last) + 1
  IN  <<window_char_start + char_start, window_char_start + char_end>>

(* One Provenance per chunk the span overlaps, clipped to it. *)
Clipped(span) ==
  {[chunk_id |-> k,
    char_start |-> Max({span[1], chunks[k][1]}),
    char_end |-> Min({span[2], chunks[k][2]})] :
     k \in chunks_overlapping_span(span[1], span[2])}

-----------------------------------------------------------------------------
TextInit ==
  /\ text \in Texts
  /\ chapters = <<>> /\ chapter = 1 /\ cursor = 0
  /\ windows = <<>> /\ chunks = <<>> /\ located = None
  /\ phase = "detect"

(* Without chapters the whole text is split into fixed windows. *)
DetectChapters ==
  /\ phase = "detect"
  /\ chapters' = _build_chapter_spans(ChapterHeadings)
  /\ phase' = "window"
  /\ UNCHANGED <<text, chapter, cursor, windows, chunks, located>>

(* Mutant: a window begins where the last one was meant to end. *)
StartWithoutOverlap == cursor

WindowStart == IF cursor > WINDOW_OVERLAP_TOKENS THEN cursor - WINDOW_OVERLAP_TOKENS ELSE 0

(* One window of the current chapter, or of the text when there is none.   *)
(* Fallback windows are chapters of their own, and so is a chapter within  *)
(* the budget; the windows of a longer one are numbered from 0.            *)
TakeWindow ==
  LET span  == chapters[chapter]
      total == span[2] - span[1]
      start == span[1] + WindowStart
      meant == Min({span[2], start + max_tokens})
      earlier == Cardinality({i \in DOMAIN windows : windows[i].chapter_index = chapter - 1})
      last  == meant = span[2]
  IN  /\ phase = "window"
      /\ windows' = Append(windows,
           [chapter_index |-> IF Fallback THEN Len(windows) ELSE chapter - 1,
            window_index  |-> IF Fallback \/ total <= max_tokens THEN None ELSE earlier,
            start |-> start,
            end   |-> IF last THEN span[2] ELSE WindowEnd(span, start, meant)])
      /\ cursor' = IF last THEN 0 ELSE meant - span[1]
      /\ chapter' = IF last THEN chapter + 1 ELSE chapter
      /\ phase' = IF last /\ chapter = Len(chapters) THEN "chunk" ELSE phase
      /\ UNCHANGED <<text, chapters, chunks, located>>

(* One step of chunk_document's loop. *)
TakeChunk ==
  /\ phase = "chunk"
  /\ chunks' = Append(chunks, NextChunk)
  /\ phase' = IF NextChunk[2] = TextLength THEN "index" ELSE phase
  /\ UNCHANGED <<text, segmentation, located>>

(* A quote the extractor gave for a window. *)
LocateQuote(quote, w) ==
  LET match == resolve_quote(quote, w)
  IN  located' = [quote |-> quote, window |-> w, match |-> match,
                  provenance |-> IF match.tier = "FAILED" THEN {}
                                 ELSE Clipped(GlobalSpan(w, match))]

-----------------------------------------------------------------------------
(* Every extraction call fits the model: no window exceeds its budget, and *)
(* the windows of a text are as numbered, in order, none empty             *)
(* (MAX_EXTRACTION_TOKENS "is a hard constraint and always wins over the   *)
(* snap").                                                                 *)
WindowsWithinBudget ==
  \A i \in DOMAIN windows :
    LET w == windows[i]
    IN  /\ w.end - w.start \in 1..max_tokens
        /\ i > 1 => /\ windows[i - 1].start < w.start
                    /\ w.chapter_index - windows[i - 1].chapter_index \in {0, 1}
        /\ \A j \in DOMAIN windows \ {i} :
             <<windows[j].chapter_index, windows[j].window_index>>
               # <<w.chapter_index, w.window_index>>

(* Nothing short is seen only in halves: a passage of one chapter that is  *)
(* no longer than the overlap less the reach of a snap lies whole in some  *)
(* window, so the windows leave no gap either.                             *)
PassagesStayWhole ==
  (phase = "chunk" /\ chunks = <<>>) =>
    \A c \in DOMAIN chapters :
      \A a \in chapters[c][1]..(chapters[c][2] - 1) :
        \A b \in (a + 1)..chapters[c][2] :
          (b = a + 1 \/ \A n \in 0..(TotalTokens - WINDOW_OVERLAP_TOKENS) :
             text.at[b] - text.at[a] + SNAP_RADIUS
               <= text.at[n + WINDOW_OVERLAP_TOKENS] - text.at[n])
          => \E i \in DOMAIN windows : windows[i].start <= a /\ b <= windows[i].end

(* Evidence lies where the quote is.  Its provenance covers the characters *)
(* of the narrative from the first to the last of the match, and no other: *)
(* an exact match reads as the quote, and nothing before it in the window  *)
(* does; any other is a run of whole words that agrees with more words of  *)
(* the quote than every other run, in a window where nothing reads so.     *)
EvidenceIsWhereQuoted ==
  (located # None /\ located.match.tier # "FAILED") =>
    LET w == located.window
        quote == CanonWords(located.quote)
        told == CanonWords(text.words)
        seen == CanonWords(WindowWords(w))
        first == <<w.start + located.match.first[1], located.match.first[2]>>
        last == <<w.start + located.match.last[1], located.match.last[2]>>
        offset(x) == text.at[x[1] - 1] + canonicalize_with_offsets(text.words[x[1]])[x[2]][2]
        reading == {x \in Places(told) : /\ w.start < x[1] /\ LastPlace(quote, x)[1] <= w.end
                                         /\ ReadsAt(quote, told, x)}
    IN  /\ UNION {p.char_start..(p.char_end - 1) : p \in located.provenance}
             = offset(first)..offset(last)
        /\ located.match.tier = "EXACT" =>
             /\ first \in reading /\ last = LastPlace(quote, first)
             /\ \A x \in reading : ~ Precedes(x, first)
        /\ located.match.tier = "FUZZY" =>
             /\ reading = {}
             /\ first[2] = 1 /\ last[2] = Len(told[last[1]])
             /\ last[1] - first[1] + 1 = Len(quote)
             /\ \A i \in Starts(quote, seen) \ {located.match.first[1]} :
                  Agreement(quote, seen, i) < Agreement(quote, seen, located.match.first[1])
=============================================================================
