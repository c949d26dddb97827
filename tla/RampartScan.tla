----------------------------- MODULE RampartScan -----------------------------
(***************************************************************************)
(* The Rampart backend (sensitiveinfo/rampart): a text is scanned in       *)
(* overlapping windows of characters, a window that does not fit the model *)
(* in overlapping windows of tokens; the spans of all windows are united,  *)
(* then merged with those of the recognizers.                              *)
(*                                                                         *)
(* A text is a sequence of characters.  A character has the labels of its  *)
(* tokens, none when it is white space and several when it decomposes (a   *)
(* Hangul syllable into its Jamo); first says that it begins a word.  The  *)
(* model is the label of each token, and gives a token the same one in     *)
(* every window.  A label below the threshold counts as outside.           *)
(***************************************************************************)
EXTENDS Integers, Sequences, SequencesExt, FiniteSetsExt

CONSTANTS ModelMaxInputChars, ChunkOverlap, WindowTokenBudget, ChunkOverlapTokens
ASSUME WindowAssumption ==
  /\ ModelMaxInputChars \in Nat /\ ChunkOverlap \in 1 .. ModelMaxInputChars - 1
  /\ WindowTokenBudget \in Nat /\ ChunkOverlapTokens \in 1 .. WindowTokenBudget - 1

Outside == [type |-> "none", begin |-> FALSE]
Span(start, end, type) == [start |-> start, end |-> end, type |-> type]
MinOf(a, b) == IF a < b THEN a ELSE b
MaxOf(a, b) == IF a > b THEN a ELSE b

-----------------------------------------------------------------------------
(* Windows, as pairs of bounds <<start, end>>, the end excluded.           *)

(* The loop of charWindows and of planWindows: from 0, to the first window *)
(* that reaches n.  next[start] is where the window after start's begins.  *)
Windows(n, size, next) ==
  LET start[k \in 1 .. n] ==
        IF k = 1 THEN 0 ELSE IF start[k - 1] + size >= n THEN n ELSE next[start[k - 1]]
  IN [k \in 1 .. Cardinality({k \in 1 .. n : start[k] < n}) |-> <<start[k], MinOf(start[k] + size, n)>>]

(* charWindows, of n characters *)
CharWindows(n) ==
  Windows(n, ModelMaxInputChars, [start \in 0 .. n - 1 |-> start + ModelMaxInputChars - ChunkOverlap])

(* planWindows.  words[i + 1] is the word of token i. *)
PlanWindows(words, wanted, wantedOverlap) ==
  LET budget == MaxOf(wanted, 1)
      overlap == MaxOf(MinOf(wantedOverlap, budget - 1), 0)
      \* Back to the start of the word, but not as far as the window's own start.
      Back(start, next) == Max({k \in start + 1 .. next : k = start + 1 \/ words[k + 1] # words[k]})
  IN Windows(Len(words), budget, [start \in 0 .. Len(words) - 1 |-> Back(start, start + budget - overlap)])

-----------------------------------------------------------------------------
(* Tokens of the characters from+1..to of a text, with offsets from there. *)

Tokens(text, from, to) ==
  LET word(p) == Max({q \in from + 1 .. p : q = from + 1 \/ text[q].first})
      ofChar(p) == [j \in DOMAIN text[p].labels |->
                     [word |-> word(p), label |-> text[p].labels[j], start |-> p - 1 - from, end |-> p - from]]
  IN FlattenSeq([k \in 1 .. to - from |-> ofChar(from + k)])

IsWhitespace(text, from, start, end) == \A p \in from + start + 1 .. from + end : text[p].labels = <<>>

(* aggregateTokens: consecutive tokens of a type, apart by white space at  *)
(* most, are one span; a begin label and any other token end it.  While    *)
(* open, the last span is the current one.                                 *)
Aggregated(text, from, was, tok) ==
  LET current == Last(was.spans)
      Merges ==
        /\ was.open /\ current.type = tok.label.type /\ ~tok.label.begin
        /\ tok.start < current.end \/ IsWhitespace(text, from, current.end, tok.start)
  IN IF tok.label.type = "none" THEN [was EXCEPT !.open = FALSE]
     ELSE IF Merges THEN [was EXCEPT !.spans[Len(was.spans)].end = MaxOf(@, tok.end)]
     ELSE [spans |-> Append(was.spans, Span(tok.start, tok.end, tok.label.type)), open |-> TRUE]

AggregateTokens(text, from, tokens) ==
  LET after[i \in 0 .. Len(tokens)] ==
        IF i = 0 THEN [spans |-> <<>>, open |-> FALSE] ELSE Aggregated(text, from, after[i - 1], tokens[i])
  IN after[Len(tokens)].spans

(* modelRunner.scan and classifyWindow, of one window of characters *)
Scan(text, from, to) ==
  LET tokens == Tokens(text, from, to)
      windows == PlanWindows([i \in DOMAIN tokens |-> tokens[i].word], WindowTokenBudget, ChunkOverlapTokens)
      InWindow(w) == AggregateTokens(text, from, SubSeq(tokens, w[1] + 1, w[2]))
      Rebased(s) == Span(s.start + from, s.end + from, s.type)
      spans == FlattenSeq([i \in DOMAIN windows |-> InWindow(windows[i])])
  IN [spans |-> [i \in DOMAIN spans |-> Rebased(spans[i])], windows |-> Len(windows)]

-----------------------------------------------------------------------------

(* earlier[i] are the positions that come before i: the n-th of them all. *)
Nth(earlier, n) == CHOOSE i \in DOMAIN earlier : Cardinality(earlier[i]) = n - 1

(* sort.SliceStable *)
StableBy(seq, Less(_, _)) ==
  LET earlier == [i \in DOMAIN seq |->
                   {j \in DOMAIN seq : Less(seq[j], seq[i]) \/ (~Less(seq[i], seq[j]) /\ j < i)}]
  IN [n \in DOMAIN seq |-> seq[Nth(earlier, n)]]

(* mergeWindowedSpans: a span that starts inside the latest span of its    *)
(* type is united with it.                                                 *)
KeptApart(spans) == spans                        \* mutant: fragments are left as they are
United(merged, s) ==
  LET same == {i \in DOMAIN merged : merged[i].type = s.type}
      last == Max(same)
  IN IF same # {} /\ s.start < merged[last].end
     THEN [merged EXCEPT ![last].end = MaxOf(@, s.end)]
     ELSE Append(merged, s)
MergeWindowedSpans(spans) ==
  LET Less(a, b) == a.start < b.start \/ (a.start = b.start /\ a.end < b.end)
      ordered == StableBy(spans, Less)
      after[i \in 0 .. Len(spans)] == IF i = 0 THEN <<>> ELSE United(after[i - 1], ordered[i])
  IN after[Len(spans)]

(* modelRunner.run, of the first n characters *)
Run(text, n) ==
  IF n <= ModelMaxInputChars
  THEN LET one == Scan(text, 0, n)
       IN IF one.windows > 1 THEN MergeWindowedSpans(one.spans) ELSE one.spans
  ELSE LET windows == CharWindows(n)
       IN MergeWindowedSpans(FlattenSeq([i \in DOMAIN windows |-> Scan(text, windows[i][1], windows[i][2]).spans]))

(* mergeSpans: in order of rank, a span is kept unless it overlaps one of  *)
(* its two neighbours among those kept, in order of start.                 *)
Accepted(kept, s) ==
  LET i == Cardinality({k \in DOMAIN kept : kept[k].start <= s.start})  \* sort.SearchInts
      left == i > 0 /\ kept[i].end > s.start
      right == i < Len(kept) /\ kept[i + 1].start < s.end
  IN IF left \/ right THEN kept ELSE InsertAt(kept, i + 1, s)
MergeSpans(recognized, modelled) ==
  LET Ranked(spans, priority) == [i \in DOMAIN spans |-> [span |-> spans[i], priority |-> priority]]
      Length(s) == s.end - s.start
      Before(a, b) ==
        \/ a.priority < b.priority
        \/ a.priority = b.priority /\ Length(a.span) > Length(b.span)
        \/ a.priority = b.priority /\ Length(a.span) = Length(b.span) /\ a.span.start < b.span.start
      all == StableBy(Ranked(recognized, 0) \o Ranked(modelled, 1), Before)
      after[i \in 0 .. Len(all)] == IF i = 0 THEN <<>> ELSE Accepted(after[i - 1], all[i].span)
  IN after[Len(all)]

(* backend.Detect.  entities is the list of the rule and whether it denies *)
(* what it lists or what it does not.                                      *)
Partition(spans, entities) ==
  LET Denied(s) == (s.type \in entities.listed) = entities.deny
  IN [allowed |-> SelectSeq(spans, LAMBDA s : ~Denied(s)), denied |-> SelectSeq(spans, Denied)]

Detect(text, maxInputChars, recognized, entities) ==
  Partition(MergeSpans(recognized, Run(text, MinOf(Len(text), maxInputChars))), entities)

-----------------------------------------------------------------------------
(* The reference: the whole text in one piece, and of all spans found, in  *)
(* order of rank, each that overlaps no earlier one of them.               *)

(* Two tokens in a row, by their labels, are of one entity.                *)
OfOneEntity(a, b) == b.type = a.type /\ a.type # "none" /\ ~b.begin

(* The tokens of a character that are of one type are of one entity, and   *)
(* an entity has less white space in it than windows overlap.              *)
Scannable(text) ==
  /\ \A p \in DOMAIN text :
       LET labels == text[p].labels
       IN /\ labels \in Seq(ToSet(labels))
          /\ \A i, j \in DOMAIN labels :
               i < j /\ labels[i].type = labels[j].type /\ labels[i].type # "none" =>
                 \A k \in i + 1 .. j : OfOneEntity(labels[k - 1], labels[k])
  /\ \A p, q \in DOMAIN text :
       /\ p < q /\ text[p].labels # <<>> /\ text[q].labels # <<>>
       /\ \A k \in p + 1 .. q - 1 : text[k].labels = <<>>
       /\ OfOneEntity(Last(text[p].labels), Head(text[q].labels))
       => q - p <= ChunkOverlap

Overlap(a, b) == a.start < b.end /\ b.start < a.end

WholeText(text, n) == AggregateTokens(text, 0, Tokens(text, 0, n))

Strongest(recognized, modelled) ==
  LET all == recognized \o modelled
      Length(i) == all[i].end - all[i].start
      Beats(i, j) ==
        IF (i <= Len(recognized)) # (j <= Len(recognized)) THEN i < j
        ELSE IF Length(i) # Length(j) THEN Length(i) > Length(j)
        ELSE IF all[i].start # all[j].start THEN all[i].start < all[j].start
        ELSE i < j
      stronger == [i \in DOMAIN all |-> {j \in DOMAIN all : Beats(j, i)}]
      Kept[r \in 0 .. Len(all)] ==
        IF r = 0 THEN {}
        ELSE LET s == all[Nth(stronger, r)]
             IN IF \E k \in Kept[r - 1] : Overlap(k, s) THEN Kept[r - 1] ELSE Kept[r - 1] \cup {s}
  IN Kept[Len(all)]

(* Spans that do not overlap, in their order in the text *)
InTextOrder(spans) ==
  [n \in 1 .. Cardinality(spans) |->
    CHOOSE s \in spans : Cardinality({t \in spans : t.start < s.start}) = n - 1]
=============================================================================
