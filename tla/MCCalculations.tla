---------------------------- MODULE MCCalculations ----------------------------
(* Inputs for each calculation, small and with the awkward cases in them.  *)
EXTENDS Calculations

CONSTANTS p1, p2, v1, junk

UpTo(n, S) == UNION {[1..k -> S] : k \in 0..n}

-----------------------------------------------------------------------------
(* Requests: up to three hops, a peer whose address is not known, one or   *)
(* two things written by the client; then each platform with its headers.  *)

Direct == [route : {r \in UpTo(3, Addresses \cup {junk}) :
                      r # <<>> /\ \A i \in 1 .. Len(r) - 1 : r[i] # junk},
           wrote : UpTo(2, {p1, v1, junk}), fallback : {<<>>, <<junk, p2>>}, signed : {<<>>},
           proxies : SUBSET Addresses, configured : {"none"}, env : {{}}, manual : {"unset"}]

Signed(platform) ==
  LET own == ToSet(PlatformHeaders(platform)) \ {"x-forwarded-for"}
  IN [own -> {<<>>, <<p1>>, <<junk>>, <<v1, p2>>}]

Hosted == UNION {
  [route : {r \in UpTo(2, {p2, v1, junk}) : r # <<>> /\ (Len(r) = 2 => r[1] # junk)},
   wrote : {<<>>, <<p1>>}, fallback : {<<p1>>}, signed : Signed(platform), proxies : {{}, {v1}, {p2, v1}},
   configured : {"none", platform}, env : {{platform}, {platform, "railway"}}, manual : {"unset", p1, junk}]
  : platform \in ToSet(Platforms)}

MCRequests == Direct \cup {q \in Hosted :
                PlatformOf(q.configured, q.env) \in
                  {p \in ToSet(Platforms) : ToSet(PlatformHeaders(p)) \cap Headers = DOMAIN q.signed}}

-----------------------------------------------------------------------------
(* Responses: two results of two rules, one of them a limit, in any case   *)
(* and state, with resets past, near and too far away.                     *)

Payloads(config, case) ==
  {[config |-> config, case |-> c, conclusion |-> "ALLOW", reset |-> 0] : c \in {"error", "notRun", "unknown"}}
  \cup [config : {config}, case : {case}, conclusion : {"ALLOW", "DENY", ""},
        reset : IF case \in RateLimits THEN {0, 3, 7, 9, 200000} ELSE {0}]

MCResponses ==
  [decided : {TRUE}, conclusion : {"ALLOW", "DENY"}, reason : {"RATE_LIMIT", "PROMPT_INJECTION", "UNKNOWN"},
   results : {<<a, b>> : a \in Payloads("limit", "tokenBucket"),
                         b \in Payloads("limit", "tokenBucket") \cup Payloads("text", "promptInjection")
                               \cup Payloads("window", "slidingWindow")},
   policyResults : {<<>>, <<[case |-> "error", conclusion |-> "ALLOW"]>>,
                    <<[case |-> "checked", conclusion |-> "DENY"], [case |-> "notRun", conclusion |-> "ALLOW"]>>},
   status : {"none", "applied", "incomplete"}]
  \cup [decided : {FALSE}, conclusion : {"ALLOW"}, reason : {"UNKNOWN"}, results : {<<>>},
        policyResults : {<<>>}, status : {"none"}]

-----------------------------------------------------------------------------
(* Policies of up to three rules that find nothing, something or something *)
(* that the service does not know, or fail.                                *)

MCPolicies ==
  LET Rule(i) == [id : {i}, mode : {"LIVE", "DRY_RUN"}, input : {"local string", "server"},
                  found : {{}, {"email"}, {"secret"}, {"email", "secret"}, {"fails"}}]
  IN {<<>>} \cup {<<a, b>> : a \in Rule(1), b \in Rule(2)}
     \cup {<<a, b, c>> : a \in Rule(1), b \in Rule(2), c \in {r \in Rule(3) : r.input = "local string"}}

-----------------------------------------------------------------------------
(* Texts: five characters, none but white space between words, characters  *)
(* of two and of three tokens, entities that go on and that begin anew.    *)

X == [type |-> "x", begin |-> FALSE]
BeginX == [type |-> "x", begin |-> TRUE]
Y == [type |-> "y", begin |-> FALSE]

Chars ==
  LET Char(first, labels) == [first |-> first, labels |-> labels]
  IN {Char(TRUE, <<>>), Char(TRUE, <<X>>), Char(FALSE, <<X>>), Char(TRUE, <<BeginX>>), Char(FALSE, <<Outside>>),
      Char(TRUE, <<Y, X, X>>), Char(FALSE, <<X, Outside, Y>>)}

MCScans ==
  LET WellFormed(t) == \A i \in 1 .. Len(t) - 1 :
                         t[i].labels = <<>> => t[i + 1].labels # <<>> /\ t[i + 1].first
      Scanned(texts, limit, recognized) ==
        [text : {t \in texts : WellFormed(t)}, limit : {limit}, recognized : recognized,
         entities : {[deny |-> limit = 4, listed |-> {"x"}]}]
      Five == [1..5 -> Chars]
  IN Scanned(Five, 5, {<<>>})
     \cup Scanned({t \in Five : t[3].first}, 5, {<<Span(1, 2, "z"), Span(0, 4, "x")>>})
     \cup Scanned({t \in Five : t[1].labels = <<BeginX>>}, 4, {<<Span(1, 2, "x")>>})
     \cup Scanned(UpTo(4, Chars), 5, {<<>>})

-----------------------------------------------------------------------------
(* Redactions of up to three of the values in a text, with markers that    *)
(* are empty, used twice, begin alike or are in the text already.          *)

Markers == {<<>>, <<"r">>, <<"r", "s">>, <<"q">>}
MCRedactedTexts ==
  LET One == [start : {0, 1, 2, 3}, end : {1, 2, 4, 5}, redacted : Markers]
      Spans == {<<0, 1>>, <<1, 2>>, <<3, 4>>, <<2, 4>>, <<3, 5>>}
      Found == {r \in One : <<r.start, r.end>> \in Spans}
  IN [text : {<<"a", "b", "c", "d">>, <<"a", "r", "b", "c">>}, found : UpTo(3, Found)]

-----------------------------------------------------------------------------
(* Up to two maps of keys that fit, that do not, and that do not encode.   *)

MCMaps == {m \in UpTo(2, UNION {[K -> {0, 2, 4, 7}] : K \in SUBSET (1..3)}) : m # <<>>}
=============================================================================
