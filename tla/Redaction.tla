------------------------------ MODULE Redaction ------------------------------
(***************************************************************************)
(* Redactor.Redact and the Unredact it returns (redact/redact.go).         *)
(*                                                                         *)
(* A text is a sequence of symbols.  The component returns, for each value *)
(* it found, its bounds <<start, end>> in the text, the end excluded, and  *)
(* the marker that takes its place, itself a text; Replace of the options  *)
(* may have chosen it.                                                     *)
(***************************************************************************)
EXTENDS Integers, Sequences, FiniteSetsExt

Original(text, r) == SubSeq(text, r.start + 1, r.end)

(* The forward pass, redaction by redaction; a slice out of order or range *)
(* is the panic that Redact turns into an error.                           *)
Failed == [ok |-> FALSE, text |-> <<>>, pos |-> 0]
Write(text, b, r) ==
  IF ~b.ok \/ r.start < b.pos \/ r.start > Len(text) THEN Failed
  ELSE [ok |-> TRUE, text |-> b.text \o SubSeq(text, b.pos + 1, r.start) \o r.redacted, pos |-> r.end]
Rebuilt(text, redactions) ==
  LET b[n \in 0 .. Len(redactions)] ==
        IF n = 0 THEN [ok |-> TRUE, text |-> <<>>, pos |-> 0] ELSE Write(text, b[n - 1], redactions[n])
  IN b
Rebuild(text, redactions) ==
  LET b == Rebuilt(text, redactions)[Len(redactions)]
  IN IF ~b.ok \/ b.pos > Len(text) THEN Failed
     ELSE [b EXCEPT !.text = @ \o SubSeq(text, b.pos + 1, Len(text))]

(* The reverse mapping, in the order of the redactions: a marker that is   *)
(* empty, or was used before, is left out.                                 *)
PairOf(text, r) == [old |-> r.redacted, new |-> Original(text, r)]
AllPairs(text, redactions) ==                    \* mutant: nothing is left out
  [i \in DOMAIN redactions |-> PairOf(text, redactions[i])]
Pairs(text, redactions) ==
  LET Reversible(i) ==
        /\ redactions[i].redacted # <<>>
        /\ \A j \in 1 .. i - 1 : redactions[j].redacted # redactions[i].redacted
  IN [i \in {k \in DOMAIN redactions : Reversible(k)} |-> PairOf(text, redactions[i])]

(* strings.Replacer: at each place the first pair that matches there, and  *)
(* on behind the match.  An empty old matches everywhere and skips nothing *)
(* but another empty match at the place: after says that one was there.    *)
MatchesAt(old, input, at) ==
  at + Len(old) <= Len(input) /\ SubSeq(input, at + 1, at + Len(old)) = old

Advance(pairs, input, w) ==
  LET fit == {k \in DOMAIN pairs : MatchesAt(pairs[k].old, input, w.at) /\ ~(w.after /\ pairs[k].old = <<>>)}
      pair == pairs[Min(fit)]
  IN IF w.at > Len(input) THEN w
     ELSE IF fit # {}
     THEN [at |-> w.at + Len(pair.old), after |-> pair.old = <<>>, text |-> w.text \o pair.new]
     ELSE [at |-> w.at + 1, after |-> FALSE,
           text |-> IF w.at = Len(input) THEN w.text ELSE Append(w.text, input[w.at + 1])]
Replacing(pairs, input) ==
  LET w[n \in 0 .. 2 * (Len(input) + 1)] ==      \* no place is passed in more than two steps
        IF n = 0 THEN [at |-> 0, after |-> FALSE, text |-> <<>>] ELSE Advance(pairs, input, w[n - 1])
  IN w
Replace(pairs, input) == Replacing(pairs, input)[2 * (Len(input) + 1)].text

Unredact(text, redactions, input) == Replace(Pairs(text, redactions), input)

-----------------------------------------------------------------------------
(* When the round trip is promised: no marker is found at another place    *)
(* than where one like it was put.                                         *)

PutAt(text, redactions, i) ==
  LET b == Rebuilt(text, redactions)[i - 1] IN Len(b.text) + redactions[i].start - b.pos

NoStrays(text, redactions) ==
  LET redacted == Rebuild(text, redactions).text
  IN \A i \in DOMAIN redactions : \A at \in 0 .. Len(redacted) :
       redactions[i].redacted # <<>> /\ MatchesAt(redactions[i].redacted, redacted, at) =>
         \E j \in DOMAIN redactions :
           redactions[j].redacted = redactions[i].redacted /\ PutAt(text, redactions, j) = at

(* What is restored then: the text with what was behind each marker, that  *)
(* of its first use, and nothing where the marker was empty.               *)
Behind(text, redactions, i) ==
  LET r == redactions[i]
      firstUse == Min({j \in DOMAIN redactions : redactions[j].redacted = r.redacted})
  IN IF r.redacted = <<>> THEN <<>> ELSE Original(text, redactions[firstUse])
Restored(text, redactions) ==
  Rebuild(text, [i \in DOMAIN redactions |-> [redactions[i] EXCEPT !.redacted = Behind(text, redactions, i)]]).text
=============================================================================
