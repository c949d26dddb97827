----------------------------- MODULE Calculations -----------------------------
(***************************************************************************)
(* The parts of the SDK that calculate.  Each takes one input at a time,   *)
(* the subject, and what it makes of it is compared with what it is for.   *)
(***************************************************************************)
EXTENDS WasmAbi, ClientIP, LocalPolicy, RampartScan, Redaction, MetadataBudget, TLC

CONSTANTS
  Requests,        \* the requests that reach the application
  Responses,       \* of the service to Guard
  Times,           \* at which a response is read
  Policies,        \* the rules of the policy of a call, with what they find in its inputs
  Scans,           \* texts, with what the recognizers find and how they are scanned
  RedactedTexts,   \* texts, with what the component redacts in them
  MetadataMaps     \* the maps of metadata of one Guard request

Parts == Addresses \cup Junk
ASSUME RequestAssumption ==
  \A q \in Requests :
    /\ q.route \in Seq(Parts) \ {<<>>} /\ q.wrote \in Seq(Parts) /\ q.fallback \in Seq(Parts)
    /\ q.proxies \subseteq Addresses /\ q.configured \in ToSet(Platforms) \cup {"none"}

IsSeq(s) == s \in Seq(ToSet(s))
ASSUME ResponseAssumption ==
  /\ Times \subseteq Int
  /\ \A r \in Responses : IsSeq(r.results) /\ \A w \in ToSet(r.results) : w.reset \in Int
ASSUME PolicyAssumption ==                   \* the service gives the rules of a policy ids of their own
  \A rules \in Policies : IsSeq(rules) /\ \A i, j \in DOMAIN rules : rules[i].id = rules[j].id => i = j
ASSUME RedactionAssumption ==                \* a span does not end before it starts
  \A r \in RedactedTexts :
    /\ IsSeq(r.text) /\ IsSeq(r.found)
    /\ \A i \in DOMAIN r.found :
         LET f == r.found[i]
         IN f \in [start : Nat, end : Nat, redacted : {f.redacted}] /\ f.start <= f.end /\ IsSeq(f.redacted)
ASSUME ScanAssumption ==                     \* recognizers find spans that are not empty
  \A s \in Scans :
    /\ IsSeq(s.text) /\ Scannable(s.text) /\ s.limit \in Nat
    /\ IsSeq(s.recognized)
    /\ \A i \in DOMAIN s.recognized :
         LET r == s.recognized[i]
         IN r \in [start : Nat, end : Nat, type : {r.type}] /\ r.start < r.end
ASSUME MetadataAssumption ==
  \A maps \in MetadataMaps :
    /\ IsSeq(maps)
    /\ \A i \in DOMAIN maps :
         /\ IsFiniteSet(DOMAIN maps[i]) /\ DOMAIN maps[i] \subseteq Nat
         /\ \A k \in DOMAIN maps[i] : maps[i][k] \in Nat

VARIABLE subject

Nothing == [about |-> "nothing"]

Init == subject = Nothing

Idle == subject = Nothing

Transfer == Idle /\ \E t \in Transfers, s \in Shapes : subject' = [about |-> "transfer", t |-> t, s |-> s]
Resolve  == Idle /\ \E r \in Requests : subject' = [about |-> "request", r |-> r]
Read     == Idle /\ \E r \in Responses, now \in Times : subject' = [about |-> "response", r |-> r, now |-> now]
Evaluate == Idle /\ \E p \in Policies : subject' = [about |-> "policy", p |-> p]
ScanText == Idle /\ \E s \in Scans : subject' = [about |-> "scan", s |-> s]
Redact   == Idle /\ \E r \in RedactedTexts : subject' = [about |-> "redaction", r |-> r]
Encode   == Idle /\ \E m \in MetadataMaps : subject' = [about |-> "metadata", m |-> m]
Done     == ~Idle /\ subject' = Nothing

Next == Transfer \/ Resolve \/ Read \/ Evaluate \/ Redact \/ Encode \/ ScanText \/ Done

Spec == Init /\ [][Next]_subject

-----------------------------------------------------------------------------

(* The bindings address the guest's memory at offsets written out by hand  *)
(* in generated code.  Whatever the shape of the value, they read and      *)
(* write the cells, and only those, that the canonical ABI gives it: in    *)
(* every element of a list, in both cases of a result, and where a custom  *)
(* entity has a payload that its neighbours have not.                      *)
AbiAgrees ==
  subject.about = "transfer" => Host(subject.t, subject.s) = Guest(subject.t, subject.s)

(* The address that is taken to be verified is the one the closest host    *)
(* not trusted had, as its peer saw it, and nothing that the client wrote  *)
(* in a header changes it.  A guess from headers that anyone may write is  *)
(* never called verified, and is made only where nothing better is known.  *)
Untrusted(hops, proxies) == {i \in DOMAIN hops : hops[i] \in Addresses \ proxies}
HopDecides(q) ==
  LET platform == PlatformOf(q.configured, q.env)
      Details(wrote, fallback) == ClientIPDetails(RequestOver(q.route, wrote, fallback, q.signed), q.proxies, platform)
      d == Details(q.wrote, q.fallback)
      untrusted == Untrusted(q.route, q.proxies)
      behind == Untrusted(Front(q.route), q.proxies)       \* hops that another hop has seen
      remote == RemoteIP(Last(q.route))
      call == IPOfCall(<<d>>, d.ip, q.manual)
  IN /\ d.verified /\ platform = "none" /\ untrusted # {} => d.ip = q.route[Max(untrusted)]
     /\ d.verified /\ behind # {} => d = Details(<<>>, <<>>)
     /\ d.provenance = "platform" => d.header \in ToSet(PlatformHeaders(platform))
     /\ d # NoDetails /\ ~d.verified =>
          /\ platform = "none" /\ IsPublicIP(d.ip)
          /\ ~IsPublicIP(remote) /\ remote \notin q.proxies
     /\ d = NoDetails => remote = NoAddress
     /\ q.manual \in Addresses => call.ip = q.manual /\ call.details.verified
     /\ q.manual = "unset" => call.ip = d.ip /\ call.details = d
ClosestHopDecides == subject.about = "request" => HopDecides(subject.r)

(* No result of a response goes unseen: a denial, an error and a result of *)
(* a rule reach that rule and no other, and an allowed decision that does  *)
(* not count as failed open had nothing fail in it.  A model that is told  *)
(* to retry after some seconds finds every denying limit reset then, and   *)
(* not for nothing later than that, within the cap; whether to retry at    *)
(* all follows the results, as the comment in newGuardDenialResultAt says: *)
(* a denying limit with a reset is worth it whatever the decision's reason *)
(* is, and a rate limit is without one.  A local denial names the one      *)
(* enforced rule that denied, the detections before it and the rules it    *)
(* kept from running; whatever was detected on the way, dry runs included, *)
(* makes Guard withhold the inputs.                                        *)
OutcomesAreSeen(resp, d) ==
  /\ \A i \in DOMAIN resp.results :
       LET w == resp.results[i]
           Rule == [config |-> w.config, case |-> w.case]
       IN resp.decided =>
            /\ w.case = "error" => ErrorResult(Rule, d) # <<>>
            /\ w.case \in RateLimits \cup Checks => Result(Rule, d) # <<>>
            /\ w.case \in RateLimits \cup Checks /\ w.conclusion = "DENY" => DeniedResult(Rule, d) # <<>>
            /\ \A found \in {Result(Rule, d), DeniedResult(Rule, d), ErrorResult(Rule, d)} :
                 found # <<>> => found[1].config = w.config
  /\ d.conclusion = "ALLOW" /\ ~HasFailedOpen(d) =>
       /\ resp.decided /\ resp.status \notin {"incomplete", "unavailable"}
       /\ \A part \in {resp.results, resp.policyResults} : \A i \in DOMAIN part : part[i].case # "error"

AdviceIsSufficient(resp, d, now) ==
  LET advice == NewGuardDenialResult(d, now)
      wait == advice.retryAfterSeconds
      limits == {w \in ToSet(resp.results) : w.case \in RateLimits /\ w.conclusion = "DENY" /\ w.reset > 0}
      Over(w, t) == w.reset <= t
  IN resp.decided =>
       /\ (wait = NoHint) <=> (limits = {})
       /\ advice.retryable <=> (limits # {} \/ d.reason = "RATE_LIMIT")
       /\ wait # NoHint =>
            /\ wait \in 0 .. MaxRetryAfterSeconds
            /\ wait < MaxRetryAfterSeconds => \A w \in limits : Over(w, now + wait)
            /\ wait > 0 => \E w \in limits : ~Over(w, now + wait - 1)

DenialIsExplained(rules) ==
  LET out == LocalResults(rules)
      scope == {i \in DOMAIN rules : InScope(rules[i])}
      detecting == {i \in scope : Known(rules[i]) # {}}
      enforced == {i \in detecting : rules[i].mode = "LIVE"}
      last == IF enforced = {} THEN Len(rules) ELSE Min(enforced)    \* the last rule to run
      d == LocalPolicyDenial(rules, out.results)
      told == {i \in scope : d.policyResults[i].conclusion = "DENY"}
  IN /\ out.denied <=> enforced # {}
     /\ out.sanitizeInputs <=> \E i \in detecting : i <= last
     /\ DOMAIN out.results = scope
     /\ \A i \in scope :
          /\ out.results[i].id = rules[i].id
          /\ out.results[i].case = "notRun" <=> i > last
          /\ out.results[i].evidence \subseteq rules[i].found \cap GuardPolicyEntityTypes
     /\ out.denied =>
          /\ told = {i \in detecting : i <= last}
          /\ {i \in told : d.policyResults[i].mode = "LIVE"} = {last}
          /\ Cardinality(ErrorResults(d)) = Cardinality({i \in scope : i <= last /\ rules[i].found = {"fails"}})
          /\ ~HasFailedOpen(d)

CallerIsTold ==
  /\ subject.about = "response" =>
       LET d == GuardDecisionFromProto(subject.r)
       IN OutcomesAreSeen(subject.r, d) /\ AdviceIsSufficient(subject.r, d, subject.now)
  /\ subject.about = "policy" => DenialIsExplained(subject.p)

(* Cutting a text into windows, of characters and again of tokens, does    *)
(* not show in what is detected: the windows of every text give the spans  *)
(* that the model finds in one piece, and of those and the recognizers'    *)
(* the strongest are kept, those of recognizers before the model's, with   *)
(* none of them lost to a span that was dropped itself.                    *)
ScannedAsOnePiece ==
  subject.about = "scan" =>
    LET s == subject.s
        whole == WholeText(s.text, MinOf(Len(s.text), s.limit))
        expected == InTextOrder(Strongest(s.recognized, whole))
    IN Detect(s.text, s.limit, s.recognized, s.entities) = Partition(expected, s.entities)

(* Unredact gives back every value whose marker can be told from the rest  *)
(* of the text, whether or not other markers are empty or used twice; and  *)
(* spans out of order or of the text are an error, never a wrong text.     *)
ComesBack(text, found) ==
  LET redacted == Rebuild(text, found)
      Ordered == \A i \in 1 .. Len(found) - 1 : found[i].end <= found[i + 1].start
      Within == \A i \in DOMAIN found : found[i].end <= Len(text)
  IN /\ redacted.ok <=> Ordered /\ Within
     /\ redacted.ok /\ NoStrays(text, found) => Unredact(text, found, redacted.text) = Restored(text, found)
RoundTrip == subject.about = "redaction" => ComesBack(subject.r.text, subject.r.found)

(* The metadata of a Guard call stays within the budget, keys go in the    *)
(* order of their maps and then their own, none after the first that did   *)
(* not fit, and the warnings count every key that is not sent once.        *)
Totals(sizes) ==
  LET after[n \in 0 .. Len(sizes)] == IF n = 0 THEN 0 ELSE after[n - 1] + sizes[n] IN after

Accounted(maps) ==
  LET sent == Sent(maps)
      encode == {p \in Places(maps) : Size(maps, p) > 0}
      order == InOrder(encode)
      spent == Totals([n \in DOMAIN order |-> Size(maps, order[n])])
      counted == Totals([n \in DOMAIN sent.warnings |-> sent.warnings[n].count])
      dropped == Places(maps) \ Places(sent.maps)
  IN /\ \A n \in DOMAIN order : order[n] \in Places(sent.maps) <=> spent[n] <= MaxMetadataBytes
     /\ ToSet(order) = encode /\ \A m, n \in DOMAIN order : m < n => Before(order[m], order[n])
     /\ Places(sent.maps) \subseteq encode /\ \A p \in Places(sent.maps) : Size(sent.maps, p) = Size(maps, p)
     /\ counted[Len(sent.warnings)] = Cardinality(dropped)
     /\ \A n \in DOMAIN sent.warnings :
          LET listed == sent.warnings[n].listed
          IN Cardinality(listed) <= MaxReportedKeys /\ listed \subseteq dropped
MetadataIsAccounted == subject.about = "metadata" => Accounted(subject.m)
=============================================================================
