------------------------------- MODULE WasmAbi -------------------------------
(***************************************************************************)
(* What the generated bindings (internal/local/jsreq and .../redact) read  *)
(* from and write to the memory of the guest, as the code spells it out,   *)
(* beside what the Component Model's canonical ABI makes of the types of   *)
(* the call.                                                               *)
(*                                                                         *)
(* A cell is a place in a block of memory and the width of what is there.  *)
(* Of a value only its shape counts: which case of a variant it is, and    *)
(* how many elements of which case its lists have.  The bytes of a string  *)
(* are a block that its pointer and length name.                           *)
(***************************************************************************)
EXTENDS Integers, Sequences, SequencesExt, FiniteSetsExt

Moved(cells, by) == {<<c[1] + by, c[2]>> : c \in cells}
In(block, cells) == {<<block, c[1], c[2]>> : c \in cells}

-----------------------------------------------------------------------------
(* The canonical ABI: size, alignment and cells of a value of a type.      *)

AlignUp(n, align) == ((n + align - 1) \div align) * align

Unit == [size |-> 0, align |-> 1, cells |-> {}]
Byte == [size |-> 1, align |-> 1, cells |-> {<<0, 8>>}]          \* bool, enum
U32 == [size |-> 4, align |-> 4, cells |-> {<<0, 32>>}]

(* A field behind what there is of a record, and the record of all fields. *)
With(at, f) ==
  LET offset == AlignUp(at.size, f.align)
  IN [size |-> offset + f.size, align |-> Max({at.align, f.align}), cells |-> at.cells \cup Moved(f.cells, offset)]
RecordOf(fields) ==
  LET upTo[n \in 0 .. Len(fields)] == IF n = 0 THEN Unit ELSE With(upTo[n - 1], fields[n])
  IN [upTo[Len(fields)] EXCEPT !.size = AlignUp(@, upTo[Len(fields)].align)]

(* A variant: a discriminant, and the payload of its case where those of   *)
(* all its cases can be.                                                   *)
CaseOf(payloads, payload) ==
  LET align == Max({p.align : p \in payloads})
      at == AlignUp(1, align)
  IN [size |-> AlignUp(at + Max({p.size : p \in payloads}), align), align |-> align,
      cells |-> {<<0, 8>>} \cup Moved(payload.cells, at)]

Str == RecordOf(<<U32, U32>>)                    \* a pointer and a length
List == Str
ResultOf(ok, value) == CaseOf({value, Str}, IF ok THEN value ELSE Str)
OptionOf(value, some) == CaseOf({Unit, value}, IF some THEN value ELSE Unit)

Elements(block, elems, LayoutOf(_)) ==
  UNION {In(block, Moved(LayoutOf(elems[i]).cells, (i - 1) * LayoutOf(elems[i]).size)) : i \in DOMAIN elems}
Strings(block, elems) == Elements(block, elems, LAMBDA e : Str)

(* The types, as the bindings declare them. *)
Entity(case) == CaseOf({Unit, Str}, IF case = "custom" THEN Str ELSE Unit)
Slot(case) == OptionOf(Entity(case), case # "none")
BotResult == RecordOf(<<List, List, Byte, Byte>>)
FilterResult == RecordOf(<<Byte, List, List>>)
EmailValidationResult == RecordOf(<<Byte, List>>)
SensitiveInfoResult == RecordOf(<<List, List>>)
Detected(case) == RecordOf(<<U32, U32, Entity(case)>>)
Redacted(case) == RecordOf(<<Str, Str, U32, U32, Entity(case)>>)

-----------------------------------------------------------------------------
(* The bindings: arguments.  Each list gets a block and is written element *)
(* by element, at the strides and offsets in the code.                     *)

At(block, offset, width) == {<<block, offset, width>>}
Pair(block, pointer, length) == At(block, pointer, 32) \cup At(block, length, 32)

StringsAt(block, elems) == UNION {Pair(block, (i - 1) * 8, (i - 1) * 8 + 4) : i \in DOMAIN elems}

EntitiesAt(block, elems) ==
  UNION {LET base == (i - 1) * 12
         IN At(block, base, 8) \cup (IF elems[i] = "custom" THEN Pair(block, base + 4, base + 8) ELSE {})
           : i \in DOMAIN elems}

(* What the application's detect returned, a slot for each token. *)
SlotsUnaligned(block, elems) ==                  \* mutant: a slot is as long as an entity and a byte
  UNION {LET base == (i - 1) * 13
         IN At(block, base, 8)
            \cup (IF elems[i] # "none" THEN At(block, base + 4, 8) ELSE {})
            \cup (IF elems[i] = "custom" THEN Pair(block, base + 8, base + 12) ELSE {})
           : i \in DOMAIN elems}
SlotsAt(block, elems) ==
  UNION {LET base == (i - 1) * 16
         IN At(block, base, 8)
            \cup (IF elems[i] # "none" THEN At(block, base + 4, 8) ELSE {})
            \cup (IF elems[i] = "custom" THEN Pair(block, base + 8, base + 12) ELSE {})
           : i \in DOMAIN elems}
(* imports.go pads or truncates to the number of tokens. *)
Slots(returned, tokens) ==
  [i \in 1..tokens |-> IF i <= Len(returned) THEN returned[i] ELSE "none"]

ReplacementAt(s) == At("return", 0, 8) \cup (IF s.ok THEN Pair("return", 4, 8) ELSE {})

-----------------------------------------------------------------------------
(* The bindings: results, of which s.ok says whether there is one, and s.a *)
(* and s.b are the elements of its lists.                                  *)

ErrorReads == Pair("area", 4, 8)

DetectBotReads(s) ==
  At("area", 0, 8) \cup
  IF s.ok THEN Pair("area", 4, 8) \cup StringsAt("allowed", s.a) \cup Pair("area", 12, 16)
               \cup StringsAt("denied", s.b) \cup At("area", 20, 8) \cup At("area", 21, 8)
          ELSE ErrorReads

MatchFiltersReads(s) ==
  At("area", 0, 8) \cup
  IF s.ok THEN At("area", 4, 8) \cup Pair("area", 8, 12) \cup StringsAt("matched", s.a)
               \cup Pair("area", 16, 20) \cup StringsAt("undetermined", s.b)
          ELSE ErrorReads

GenerateFingerprintReads(s) == At("area", 0, 8) \cup (IF s.ok THEN Pair("area", 4, 8) ELSE ErrorReads)
ValidateCharacteristicsReads(s) == At("area", 0, 8) \cup (IF s.ok THEN {} ELSE ErrorReads)

IsValidEmailReads(s) ==
  At("area", 0, 8) \cup
  IF s.ok THEN At("area", 4, 8) \cup Pair("area", 8, 12) \cup StringsAt("blocked", s.a) ELSE ErrorReads

DetectedAt(block, elems) ==
  UNION {LET base == (i - 1) * 20
         IN At(block, base, 32) \cup At(block, base + 4, 32) \cup At(block, base + 8, 8)
            \cup (IF elems[i] = "custom" THEN Pair(block, base + 12, base + 16) ELSE {})
           : i \in DOMAIN elems}
DetectSensitiveInfoReads(s) ==
  Pair("area", 0, 4) \cup DetectedAt("allowed", s.a) \cup Pair("area", 8, 12) \cup DetectedAt("denied", s.b)

RedactReads(s) ==
  Pair("area", 0, 4)
  \cup UNION {LET base == (i - 1) * 36
              IN Pair("redacted", base, base + 4) \cup Pair("redacted", base + 8, base + 12)
                 \cup At("redacted", base + 16, 32) \cup At("redacted", base + 20, 32)
                 \cup At("redacted", base + 24, 8)
                 \cup (IF s.a[i] = "custom" THEN Pair("redacted", base + 28, base + 32) ELSE {})
                : i \in DOMAIN s.a}

-----------------------------------------------------------------------------
(* A transfer is one crossing of the boundary: what this side of it does   *)
(* with memory, and what the other side expects.                           *)

Transfers ==
  {"strings", "entities", "slots", "replacement", "detect-bot", "match-filters", "generate-fingerprint",
   "validate-characteristics", "is-valid-email", "detect-sensitive-info", "redact"}

Host(t, s) ==
  CASE t = "strings" -> StringsAt("list", s.a)
    [] t = "entities" -> EntitiesAt("list", s.a)
    [] t = "slots" -> SlotsAt("list", Slots(s.a, Len(s.b)))
    [] t = "replacement" -> ReplacementAt(s)
    [] t = "detect-bot" -> DetectBotReads(s)
    [] t = "match-filters" -> MatchFiltersReads(s)
    [] t = "generate-fingerprint" -> GenerateFingerprintReads(s)
    [] t = "validate-characteristics" -> ValidateCharacteristicsReads(s)
    [] t = "is-valid-email" -> IsValidEmailReads(s)
    [] t = "detect-sensitive-info" -> DetectSensitiveInfoReads(s)
    [] t = "redact" -> RedactReads(s)

Guest(t, s) ==
  LET Area(layout) == In("area", layout.cells)
      OnlyIf(cells) == IF s.ok THEN cells ELSE {}
  IN CASE t = "strings" -> Strings("list", s.a)
       [] t = "entities" -> Elements("list", s.a, Entity)
       [] t = "slots" ->   \* one for every token of the window, as many as s.b
            Elements("list", [i \in DOMAIN s.b |-> IF i \in DOMAIN s.a THEN s.a[i] ELSE "none"], Slot)
       [] t = "replacement" -> In("return", OptionOf(Str, s.ok).cells)
       [] t = "detect-bot" ->
            Area(ResultOf(s.ok, BotResult)) \cup OnlyIf(Strings("allowed", s.a) \cup Strings("denied", s.b))
       [] t = "match-filters" ->
            Area(ResultOf(s.ok, FilterResult))
            \cup OnlyIf(Strings("matched", s.a) \cup Strings("undetermined", s.b))
       [] t = "generate-fingerprint" -> Area(ResultOf(s.ok, Str))
       [] t = "validate-characteristics" -> Area(ResultOf(s.ok, Unit))
       [] t = "is-valid-email" ->
            Area(ResultOf(s.ok, EmailValidationResult)) \cup OnlyIf(Strings("blocked", s.a))
       [] t = "detect-sensitive-info" ->
            Area(SensitiveInfoResult) \cup Elements("allowed", s.a, Detected) \cup Elements("denied", s.b, Detected)
       [] t = "redact" -> Area(List) \cup Elements("redacted", s.a, Redacted)

Shapes ==
  LET Lists(cases) == UNION {[1..n -> cases] : n \in 0..2}
  IN [ok : BOOLEAN, a : Lists({"none", "plain", "custom"}), b : Lists({"plain", "custom"})]
=============================================================================
