--------------------------- MODULE CalculationProofs ---------------------------
(***************************************************************************)
(* What the calculations of the SDK come to, for every input the constants *)
(* may hold and not only for those of the runs: the cells the bindings use *)
(* in the guest's memory, the address of a request, what a caller of Guard *)
(* is told, the metadata of a request, what Unredact gives back, and what  *)
(* is found in a text (module ScanProofs).                                 *)
(*                                                                         *)
(* A loop of the code is a function from the number of rounds to the state *)
(* after as many; what it computes is proved by induction over that number *)
(* (ByInduction, LoopExists).                                              *)
(***************************************************************************)
EXTENDS Calculations, ScanProofs

-----------------------------------------------------------------------------
(* The address of a request.                                               *)

LEMMA Positions ==
  ASSUME NEW S, NEW parts \in Seq(S), NEW found \in SUBSET (DOMAIN parts), found # {}
  PROVE  /\ DOMAIN parts = 1..Len(parts) /\ Len(parts) \in Nat
         /\ Min(found) \in found /\ (\A i \in found : Min(found) <= i)
         /\ Max(found) \in found /\ (\A i \in found : i <= Max(found))
<1>1. DOMAIN parts = 1..Len(parts) /\ Len(parts) \in Nat
  BY LenProperties
<1>2. found \in SUBSET Nat /\ \A i \in found : i <= Len(parts)
  BY <1>1
<1> QED BY <1>1, <1>2, MinIsLeast, MaxIsGreatest

(* Behind what a client wrote come the hops, and one of those decides. *)
LEMMA RightmostUntrusted ==
  ASSUME NEW S, NEW parts \in Seq(S), NEW proxies
  PROVE  IF Untrusted(parts, proxies) = {} THEN RightmostUntrustedXFF(parts, proxies) = NoAddress
         ELSE /\ RightmostUntrustedXFF(parts, proxies) = parts[Max(Untrusted(parts, proxies))]
              /\ RightmostUntrustedXFF(parts, proxies) \in Addresses \ proxies
<1> DEFINE found == Untrusted(parts, proxies)
<1>1. RightmostUntrustedXFF(parts, proxies) = IF found = {} THEN NoAddress ELSE parts[Max(found)]
  BY DEF RightmostUntrustedXFF, LastWhere, Untrusted
<1>2. found \in SUBSET (DOMAIN parts) /\ \A i \in found : parts[i] \in Addresses \ proxies
  BY DEF Untrusted
<1> HIDE DEF found
<1>3. found # {} => Max(found) \in found
  BY <1>2, Positions
<1> QED BY <1>1, <1>2, <1>3 DEF found

LEMMA HopsDecide ==
  ASSUME NEW S, NEW wrote \in Seq(S), NEW hops \in Seq(S), NEW proxies, Untrusted(hops, proxies) # {}
  PROVE  RightmostUntrustedXFF(wrote \o hops, proxies) = hops[Max(Untrusted(hops, proxies))]
<1> DEFINE all == wrote \o hops
           F == Untrusted(all, proxies)
           G == Untrusted(hops, proxies)
           w == Len(wrote)
<1>1. /\ all \in Seq(S) /\ Len(all) = w + Len(hops) /\ w \in Nat /\ Len(hops) \in Nat
      /\ DOMAIN all = 1..(w + Len(hops)) /\ DOMAIN hops = 1..Len(hops)
      /\ \A i \in 1..(w + Len(hops)) : all[i] = IF i <= w THEN wrote[i] ELSE hops[i - w]
  BY ConcatProperties, LenProperties
<1>2. G \in SUBSET (DOMAIN hops) /\ F \in SUBSET (DOMAIN all)
  BY DEF Untrusted
<1>3. Max(G) \in G /\ \A i \in G : i <= Max(G)
  <2> HIDE DEF G
  <2> QED BY <1>2, Positions DEF G
<1>4. PICK m \in 1..Len(hops) : m = Max(G)
  BY <1>1, <1>2, <1>3
<1> HIDE DEF all, w
<1>5. \A i \in F : i <= w + m
  <2> SUFFICES ASSUME NEW i \in F, i > w + m PROVE FALSE
    BY <1>1, <1>2
  <2>1. i - w \in 1..Len(hops) /\ all[i] = hops[i - w] /\ i - w > m
    BY <1>1, <1>2
  <2>2. i - w \in G
    BY <1>1, <2>1 DEF Untrusted
  <2> HIDE DEF G
  <2> QED BY <1>1, <1>3, <1>4, <2>1, <2>2
<1>6. w + m \in F /\ all[w + m] = hops[m]
  <2>1. w + m \in 1..(w + Len(hops)) /\ ~(w + m <= w) /\ (w + m) - w = m
    BY <1>1, <1>4
  <2>2. all[w + m] = hops[m]
    BY <1>1, <2>1
  <2> QED BY <1>1, <1>3, <1>4, <2>1, <2>2 DEF Untrusted
<1>7. Max(F) = w + m
  <2> HIDE DEF F, G
  <2>1. Max(F) \in F /\ \A i \in F : i <= Max(F)
    BY <1>1, <1>2, <1>6, Positions
  <2>2. Max(F) \in Nat
    BY <1>1, <1>2, <2>1
  <2>3. w + m \in Nat /\ w + m \in F
    BY <1>1, <1>4, <1>6
  <2>4. Max(F) <= w + m /\ w + m <= Max(F)
    BY <1>5, <2>1, <2>3
  <2> QED BY <2>2, <2>3, <2>4
<1>8. RightmostUntrustedXFF(all, proxies) = all[Max(F)]
  BY <1>1, <1>6, RightmostUntrusted
<1> QED BY <1>4, <1>6, <1>7, <1>8 DEF all

(* A public address in a header is found, and what is found is public. *)
LEMMA RightmostPublic ==
  ASSUME NEW S, NEW parts \in Seq(S)
  PROVE  /\ RightmostPublicIP(parts) = NoAddress <=> \A i \in DOMAIN parts : ~IsPublicIP(parts[i])
         /\ RightmostPublicIP(parts) # NoAddress => IsPublicIP(RightmostPublicIP(parts))
<1> DEFINE found == {i \in DOMAIN parts : IsPublicIP(parts[i])}
<1>1. RightmostPublicIP(parts) = IF found = {} THEN NoAddress ELSE parts[Max(found)]
  BY DEF RightmostPublicIP, LastWhere
<1>2. found \in SUBSET (DOMAIN parts) /\ \A i \in found : IsPublicIP(parts[i])
  OBVIOUS
<1>3. found # {} => Max(found) \in found
  <2> HIDE DEF found
  <2> QED BY <1>2, Positions
<1>4. ~IsPublicIP(NoAddress)
  BY AddressAssumption DEF IsPublicIP, Addresses
<1> QED BY <1>1, <1>3, <1>4

LEMMA FirstPublic ==
  ASSUME NEW S, NEW parts \in Seq(S)
  PROVE  FirstPublicIP(parts) # NoAddress => IsPublicIP(FirstPublicIP(parts))
<1> DEFINE found == {i \in DOMAIN parts : IsPublicIP(parts[i])}
<1>1. FirstPublicIP(parts) = IF found = {} THEN NoAddress ELSE parts[Min(found)]
  BY DEF FirstPublicIP
<1>2. found \in SUBSET (DOMAIN parts) /\ \A i \in found : IsPublicIP(parts[i])
  OBVIOUS
<1>3. found # {} => Min(found) \in found
  <2> HIDE DEF found
  <2> QED BY <1>2, Positions
<1> QED BY <1>1, <1>3

LEMMA RouteEnds ==
  ASSUME NEW q \in Requests
  PROVE  LET n == Len(q.route) IN
         /\ q.route \in Seq(Parts) /\ n \in Nat \ {0} /\ Front(q.route) \in Seq(Parts)
         /\ Last(q.route) = q.route[n] /\ DOMAIN q.route = 1..n /\ DOMAIN Front(q.route) = 1..(n - 1)
         /\ \A i \in 1..(n - 1) : Front(q.route)[i] = q.route[i]
<1> DEFINE n == Len(q.route)
<1>1. q.route \in Seq(Parts) /\ q.route # <<>>
  BY RequestAssumption
<1>2. n \in Nat \ {0} /\ DOMAIN q.route = 1..n
  BY <1>1, LenProperties, EmptySeq
<1>3. Last(q.route) = q.route[n] /\ Front(q.route) = SubSeq(q.route, 1, n - 1)
  BY DEF Last, Front
<1> HIDE DEF n
<1>4. /\ Front(q.route) \in Seq(Parts) /\ Len(Front(q.route)) = n - 1
      /\ \A i \in 1..(n - 1) : Front(q.route)[i] = q.route[i]
  <2>1. 1 \in Int /\ n - 1 \in Int /\ (IF 1 <= n - 1 THEN n - 1 - 1 + 1 ELSE 0) = n - 1 /\ n - 1 - 1 + 1 = n - 1
        /\ \A i \in 1..(n - 1) : 1 + i - 1 = i
    BY <1>2
  <2>2. \A i \in 1..(n - 1) : q.route[i] \in Parts
    BY <1>1, <1>2, ElementOfSeq DEF n
  <2> QED BY <1>1, <1>3, <2>1, <2>2, SubSeqProperties
<1> QED BY <1>1, <1>2, <1>3, <1>4, LenProperties DEF n

(* What is not verified is a guess, and there is none without a public     *)
(* address in a header.                                                    *)
LEMMA Guesses ==
  ASSUME NEW r, NEW S, r.forwardedFor \in Seq(S), r.fallback \in Seq(S)
  PROVE  LET g == UnverifiedHeaderIP(r) IN
         /\ g # NoDetails => ~g.verified /\ g.provenance = "unverified-header" /\ IsPublicIP(g.ip)
         /\ r.fallback = <<>> /\ (\A i \in DOMAIN r.forwardedFor : ~IsPublicIP(r.forwardedFor[i])) => g = NoDetails
         /\ g = NoDetails => \A i \in DOMAIN r.forwardedFor : ~IsPublicIP(r.forwardedFor[i])
<1> DEFINE forwarded == RightmostPublicIP(r.forwardedFor)
           other == FirstPublicIP(r.fallback)
           Guess(ip, header) ==
             [ip |-> ip, provenance |-> "unverified-header", verified |-> FALSE, header |-> header]
           g == UnverifiedHeaderIP(r)
<1>1. /\ forwarded = NoAddress <=> \A i \in DOMAIN r.forwardedFor : ~IsPublicIP(r.forwardedFor[i])
      /\ forwarded # NoAddress => IsPublicIP(forwarded)
      /\ other # NoAddress => IsPublicIP(other)
  BY RightmostPublic, FirstPublic
<1>2. r.fallback = <<>> => other = NoAddress
  <2>1. FirstPublicIP(<<>>) = NoAddress
    BY DEF FirstPublicIP
  <2> QED BY <2>1
<1>3. g = IF forwarded # NoAddress THEN Guess(forwarded, "x-forwarded-for")
          ELSE IF other # NoAddress THEN Guess(other, "fallback") ELSE NoDetails
  BY DEF UnverifiedHeaderIP
<1> HIDE DEF forwarded, other, g
<1>4. \A ip, header : LET e == Guess(ip, header) IN
        ~e.verified /\ e.provenance = "unverified-header" /\ e.ip = ip /\ e # NoDetails
  BY DEF NoDetails
<1> HIDE DEF Guess
<1> QED BY <1>1, <1>2, <1>3, <1>4 DEF g

(* The platforms, and the headers of each.                                 *)
KnownPlatforms == {"firebase", "fly-io", "vercel", "render", "cloudflare", "railway"}
LEMMA PlatformsAreKnown ==
  /\ Platforms \in Seq(KnownPlatforms) /\ DOMAIN Platforms = 1..6
  /\ \A i \in 1..6 : Platforms[i] \in KnownPlatforms
<1>1. Platforms \in Seq(KnownPlatforms) /\ Len(Platforms) = 6
  BY DEF Platforms, KnownPlatforms
<1> QED BY <1>1, LenProperties, ElementOfSeq

LEMMA HeadersAreSeqs ==
  ASSUME NEW platform \in KnownPlatforms
  PROVE  PlatformHeaders(platform) \in Seq(Headers \cup {"x-forwarded-for"})
<1>1. CASE platform = "firebase"
  BY <1>1 DEF PlatformHeaders, Headers
<1>2. CASE platform = "fly-io"
  BY <1>2 DEF PlatformHeaders, Headers
<1>3. CASE platform = "vercel"
  BY <1>3 DEF PlatformHeaders, Headers
<1>4. CASE platform = "render"
  BY <1>4 DEF PlatformHeaders, Headers
<1>5. CASE platform = "cloudflare"
  BY <1>5 DEF PlatformHeaders, Headers
<1>6. CASE platform = "railway"
  BY <1>6 DEF PlatformHeaders, Headers
<1> QED BY <1>1, <1>2, <1>3, <1>4, <1>5, <1>6 DEF KnownPlatforms

LEMMA PlatformKnown ==
  ASSUME NEW q \in Requests
  PROVE  PlatformOf(q.configured, q.env) \in KnownPlatforms \cup {"none"}
<1> DEFINE found == {i \in DOMAIN Platforms : Platforms[i] \in q.env}
<1>1. Platforms \in Seq(KnownPlatforms) /\ DOMAIN Platforms = 1..6 /\ \A i \in 1..6 : Platforms[i] \in KnownPlatforms
  BY PlatformsAreKnown
<1>2. DetectPlatform(q.env) = IF found = {} THEN "none" ELSE Platforms[Min(found)]
  BY DEF DetectPlatform
<1>3. found \in SUBSET (DOMAIN Platforms)
  OBVIOUS
<1> HIDE DEF found
<1>4. found # {} => Min(found) \in found
  BY <1>1, <1>3, Positions
<1>5. q.configured \in KnownPlatforms \cup {"none"}
  BY <1>1, RequestAssumption DEF ToSet
<1>6. DetectPlatform(q.env) \in KnownPlatforms \cup {"none"}
  <2>1. found # {} => Platforms[Min(found)] \in KnownPlatforms
    BY <1>1, <1>3, <1>4
  <2> QED BY <1>2, <2>1
<1> QED BY <1>5, <1>6 DEF PlatformOf

LEMMA Signed ==
  ASSUME NEW q \in Requests, NEW r,
         LET platform == PlatformOf(q.configured, q.env) IN
         platform # "none" /\ PlatformIPDetails(r, platform, q.proxies) # NoDetails
  PROVE  LET platform == PlatformOf(q.configured, q.env)
             d == PlatformIPDetails(r, platform, q.proxies)
         IN d.verified /\ d.provenance = "platform" /\ d.header \in ToSet(PlatformHeaders(platform))
<1> DEFINE platform == PlatformOf(q.configured, q.env)
           headers == PlatformHeaders(platform)
           found == {i \in DOMAIN headers : HeaderIP(r, headers[i], q.proxies) # NoAddress}
           d == PlatformIPDetails(r, platform, q.proxies)
           h == headers[Min(found)]
<1>0. platform # "none"
  OBVIOUS
<1>1. headers \in Seq(Headers \cup {"x-forwarded-for"})
  BY <1>0, PlatformKnown, HeadersAreSeqs
<1>2. found \in SUBSET (DOMAIN headers)
  OBVIOUS
<1>3. d = IF found = {} THEN NoDetails ELSE Verified(HeaderIP(r, h, q.proxies), "platform", h)
  BY DEF PlatformIPDetails
<1>4. found # {}
  BY <1>3
<1> HIDE DEF headers, found
<1>5. Min(found) \in DOMAIN headers
  BY <1>1, <1>2, <1>4, Positions
<1>6. h \in ToSet(headers)
  BY <1>5 DEF ToSet
<1> HIDE DEF h, d
<1>7. d.verified /\ d.provenance = "platform" /\ d.header = h
  BY <1>3, <1>4 DEF Verified
<1> QED BY <1>6, <1>7 DEF d, headers

(* What another hop has seen does not depend on what the client wrote.     *)
LEMMA SameHeaders ==
  ASSUME NEW q \in Requests, NEW wrote \in Seq(Parts), NEW fallback,
         Untrusted(Front(q.route), q.proxies) # {}
  PROVE  LET r == RequestOver(q.route, wrote, fallback, q.signed)
             bare == RequestOver(q.route, <<>>, <<>>, q.signed)
         IN /\ RightmostUntrustedXFF(r.forwardedFor, q.proxies) = RightmostUntrustedXFF(bare.forwardedFor, q.proxies)
            /\ RightmostUntrustedXFF(r.forwardedFor, q.proxies)
                 = q.route[Max(Untrusted(Front(q.route), q.proxies))]
            /\ \A platform : PlatformIPDetails(r, platform, q.proxies) = PlatformIPDetails(bare, platform, q.proxies)
<1> DEFINE r == RequestOver(q.route, wrote, fallback, q.signed)
           bare == RequestOver(q.route, <<>>, <<>>, q.signed)
           hops == Front(q.route)
           m == Max(Untrusted(hops, q.proxies))
<1>1. hops \in Seq(Parts) /\ <<>> \in Seq(Parts)
  BY RouteEnds
<1>2. r.forwardedFor = wrote \o hops /\ bare.forwardedFor = <<>> \o hops /\ r.signed = bare.signed
  BY DEF RequestOver
<1> HIDE DEF r, bare
<1>3. /\ RightmostUntrustedXFF(r.forwardedFor, q.proxies) = hops[m]
      /\ RightmostUntrustedXFF(bare.forwardedFor, q.proxies) = hops[m]
  <2>1. ASSUME NEW w \in Seq(Parts) PROVE RightmostUntrustedXFF(w \o hops, q.proxies) = hops[m]
    <3>1. Untrusted(hops, q.proxies) # {}
      OBVIOUS
    <3> HIDE DEF hops
    <3> QED BY <1>1, <3>1, HopsDecide
  <2> HIDE DEF hops, m
  <2> QED BY <1>1, <1>2, <2>1
<1>4. hops[m] = q.route[m]
  <2>1. m \in DOMAIN hops
    <3>1. Untrusted(hops, q.proxies) \in SUBSET (DOMAIN hops)
      BY DEF Untrusted
    <3> HIDE DEF hops
    <3> QED BY <1>1, <3>1, Positions DEF hops
  <2> HIDE DEF m
  <2> QED BY <2>1, RouteEnds
<1>5. \A h : HeaderIP(r, h, q.proxies) = HeaderIP(bare, h, q.proxies)
  BY <1>2, <1>3 DEF HeaderIP
<1>6. ASSUME NEW platform
      PROVE  PlatformIPDetails(r, platform, q.proxies) = PlatformIPDetails(bare, platform, q.proxies)
  <2> DEFINE headers == PlatformHeaders(platform)
             Found(x) == {i \in DOMAIN headers : HeaderIP(x, headers[i], q.proxies) # NoAddress}
  <2>1. Found(r) = Found(bare)
    BY <1>5
  <2>2. \A x : PlatformIPDetails(x, platform, q.proxies) =
               IF Found(x) = {} THEN NoDetails
               ELSE Verified(HeaderIP(x, headers[Min(Found(x))], q.proxies), "platform", headers[Min(Found(x))])
    BY DEF PlatformIPDetails
  <2> HIDE DEF Found, headers
  <2> QED BY <1>5, <2>1, <2>2
<1> QED BY <1>3, <1>4, <1>6 DEF r, bare

LEMMA HopsAreThere ==
  ASSUME NEW S, NEW wrote \in Seq(S), NEW hops \in Seq(S),
         \A j \in DOMAIN (wrote \o hops) : ~IsPublicIP((wrote \o hops)[j])
  PROVE  \A i \in DOMAIN hops : ~IsPublicIP(hops[i])
<1> DEFINE all == wrote \o hops
<1>1. PICK w \in Nat : w = Len(wrote)
  BY LenProperties
<1>2. PICK n \in Nat : n = Len(hops)
  BY LenProperties
<1>3. /\ DOMAIN all = 1..(w + n) /\ DOMAIN hops = 1..n
      /\ \A j \in 1..(w + n) : all[j] = IF j <= w THEN wrote[j] ELSE hops[j - w]
  BY <1>1, <1>2, ConcatProperties, LenProperties
<1> HIDE DEF all
<1>4. ASSUME NEW i \in 1..n PROVE ~IsPublicIP(hops[i])
  <2>1. w + i \in 1..(w + n) /\ ~(w + i <= w) /\ (w + i) - w = i
    OBVIOUS
  <2>2. all[w + i] = hops[i]
    BY <1>3, <2>1
  <2> QED BY <1>3, <2>1, <2>2 DEF all
<1> QED BY <1>3, <1>4

(* client.go, platform.go: what decides the address of a request.          *)
LEMMA HopsDecideAddress == ASSUME NEW q \in Requests PROVE HopDecides(q)
<1> DEFINE platform == PlatformOf(q.configured, q.env)
           proxies == q.proxies
           r == RequestOver(q.route, q.wrote, q.fallback, q.signed)
           bare == RequestOver(q.route, <<>>, <<>>, q.signed)
           d == ClientIPDetails(r, proxies, platform)
           plain == ClientIPDetails(bare, proxies, platform)
           untrusted == Untrusted(q.route, proxies)
           hops == Front(q.route)
           behind == Untrusted(hops, proxies)
           remote == RemoteIP(Last(q.route))
           call == IPOfCall(<<d>>, d.ip, q.manual)
           direct == IF remote = NoAddress THEN NoDetails ELSE Verified(remote, "direct", "none")
           signed == PlatformIPDetails(r, platform, proxies)
           forwarded == RightmostUntrustedXFF(r.forwardedFor, proxies)
           guess == UnverifiedHeaderIP(r)
           bareGuess == UnverifiedHeaderIP(bare)
           n == Len(q.route)
<1>1. /\ NoAddress \notin Addresses /\ "unset" \notin Addresses /\ proxies \subseteq Addresses
      /\ \A a : IsPublicIP(a) => a \in Addresses
  BY AddressAssumption, RequestAssumption DEF IsPublicIP, Addresses
<1>2. /\ q.route \in Seq(Parts) /\ n \in Nat \ {0} /\ hops \in Seq(Parts)
      /\ Last(q.route) = q.route[n] /\ DOMAIN q.route = 1..n /\ DOMAIN hops = 1..(n - 1)
      /\ \A i \in 1..(n - 1) : hops[i] = q.route[i]
  BY RouteEnds
<1>3. q.wrote \in Seq(Parts) /\ q.fallback \in Seq(Parts) /\ <<>> \in Seq(Parts)
  BY RequestAssumption
<1>4. /\ r.remoteAddr = q.route[n] /\ r.forwardedFor = q.wrote \o hops /\ r.fallback = q.fallback
      /\ bare.remoteAddr = q.route[n] /\ bare.forwardedFor = <<>> \o hops /\ bare.fallback = <<>>
  BY <1>2 DEF RequestOver
<1>5. r.forwardedFor \in Seq(Parts) /\ bare.forwardedFor \in Seq(Parts)
  BY <1>2, <1>3, <1>4, ConcatProperties
<1>6. d = IF platform # "none" THEN IF signed # NoDetails THEN signed ELSE direct
          ELSE IF remote \in proxies
          THEN IF forwarded # NoAddress THEN Verified(forwarded, "trusted-proxy", "x-forwarded-for") ELSE direct
          ELSE IF ~IsPublicIP(remote) /\ guess # NoDetails THEN guess ELSE direct
  BY <1>2, <1>4 DEF ClientIPDetails
<1>7. plain =
        IF platform # "none"
        THEN IF PlatformIPDetails(bare, platform, proxies) # NoDetails
             THEN PlatformIPDetails(bare, platform, proxies) ELSE direct
        ELSE IF remote \in proxies
        THEN IF RightmostUntrustedXFF(bare.forwardedFor, proxies) # NoAddress
             THEN Verified(RightmostUntrustedXFF(bare.forwardedFor, proxies), "trusted-proxy", "x-forwarded-for")
             ELSE direct
        ELSE IF ~IsPublicIP(remote) /\ bareGuess # NoDetails THEN bareGuess ELSE direct
  BY <1>2, <1>4 DEF ClientIPDetails
<1>8. /\ \A ip, how, h : LET v == Verified(ip, how, h) IN
           v.verified /\ v.ip = ip /\ v.provenance = how /\ v.header = h /\ v # NoDetails
      /\ ~NoDetails.verified /\ NoDetails.provenance = "none"
  BY DEF Verified, NoDetails
<1>9. /\ guess # NoDetails => ~guess.verified /\ guess.provenance = "unverified-header" /\ IsPublicIP(guess.ip)
      /\ guess = NoDetails => \A i \in DOMAIN r.forwardedFor : ~IsPublicIP(r.forwardedFor[i])
      /\ (\A i \in DOMAIN bare.forwardedFor : ~IsPublicIP(bare.forwardedFor[i])) => bareGuess = NoDetails
  BY <1>3, <1>4, <1>5, Guesses
<1>10. platform # "none" /\ signed # NoDetails =>
          signed.verified /\ signed.provenance = "platform" /\ signed.header \in ToSet(PlatformHeaders(platform))
  BY Signed
<1>11. behind # {} =>
          /\ PlatformIPDetails(bare, platform, proxies) = signed
          /\ RightmostUntrustedXFF(bare.forwardedFor, proxies) = forwarded
          /\ forwarded = q.route[Max(behind)]
  BY <1>3, SameHeaders
<1>12. remote = (IF q.route[n] \in Addresses THEN q.route[n] ELSE NoAddress)
  BY <1>2 DEF RemoteIP
<1>13. guess = NoDetails => bareGuess = NoDetails
  <2> SUFFICES ASSUME guess = NoDetails, NEW i \in DOMAIN bare.forwardedFor PROVE ~IsPublicIP(bare.forwardedFor[i])
    BY <1>9
  <2>1. \A j \in DOMAIN (q.wrote \o hops) : ~IsPublicIP((q.wrote \o hops)[j])
    BY <1>4, <1>9
  <2>2. bare.forwardedFor = hops
    BY <1>2, <1>4, ConcatEmptySeq
  <2>3. \A j \in DOMAIN hops : ~IsPublicIP(hops[j])
    <3> HIDE DEF hops
    <3> QED BY <1>2, <1>3, <2>1, HopsAreThere
  <2> QED BY <2>2, <2>3
<1> HIDE DEF platform, r, bare, d, plain, hops, remote, direct, signed, forwarded, guess, bareGuess, n
<1>14. d.verified /\ platform = "none" /\ untrusted # {} => d.ip = q.route[Max(untrusted)]
  <2> SUFFICES ASSUME d.verified, platform = "none", untrusted # {} PROVE d.ip = q.route[Max(untrusted)]
    OBVIOUS
  <2>1. untrusted \in SUBSET (DOMAIN q.route)
    BY DEF Untrusted
  <2>2. Max(untrusted) \in untrusted /\ (\A i \in untrusted : i <= Max(untrusted)) /\ untrusted \in SUBSET (1..n)
    <3> HIDE DEF untrusted
    <3> QED BY <1>2, <2>1, Positions
  <2>3. CASE remote \in proxies
    <3>1. q.route[n] \in proxies
      BY <1>1, <1>12, <2>3
    <3>2. untrusted = behind
      <4>1. \A i \in 1..n : i = n \/ i \in 1..(n - 1)
        BY <1>2
      <4>2. \A i \in 1..(n - 1) : i \in 1..n
        BY <1>2
      <4> QED BY <1>2, <3>1, <4>1, <4>2 DEF Untrusted
    <3>3. forwarded = q.route[Max(untrusted)] /\ forwarded \in Addresses
      <4>1. forwarded = q.route[Max(untrusted)]
        BY <1>11, <3>2
      <4>2. q.route[Max(untrusted)] \in Addresses
        BY <2>2 DEF Untrusted
      <4> QED BY <4>1, <4>2
    <3> HIDE DEF untrusted, behind, proxies
    <3> QED BY <1>1, <1>6, <1>8, <2>3, <3>3
  <2>4. CASE remote \notin proxies
    <3>1. d = direct
      BY <1>6, <1>8, <1>9, <2>4
    <3>2. remote # NoAddress /\ d.ip = remote
      BY <1>8, <3>1 DEF direct
    <3>3. n \in untrusted /\ d.ip = q.route[n]
      BY <1>2, <1>12, <2>4, <3>2 DEF Untrusted
    <3>4. Max(untrusted) = n
      <4> HIDE DEF untrusted
      <4>1. Max(untrusted) \in 1..n /\ n <= Max(untrusted)
        BY <2>2, <3>3
      <4> QED BY <1>2, <4>1
    <3> QED BY <3>3, <3>4
  <2> QED BY <2>3, <2>4
<1>15. d.verified /\ behind # {} => d = plain
  <2> SUFFICES ASSUME d.verified, behind # {} PROVE d = plain
    OBVIOUS
  <2>1. CASE platform # "none" \/ remote \in proxies
    BY <1>6, <1>7, <1>11, <2>1
  <2>2. CASE platform = "none" /\ remote \notin proxies
    BY <1>6, <1>7, <1>9, <1>13, <2>2
  <2> QED BY <2>1, <2>2
<1>16. d.provenance = "platform" => d.header \in ToSet(PlatformHeaders(platform))
  BY <1>6, <1>8, <1>9, <1>10 DEF direct
<1>17. d # NoDetails /\ ~d.verified =>
          platform = "none" /\ IsPublicIP(d.ip) /\ ~IsPublicIP(remote) /\ remote \notin proxies
  BY <1>6, <1>8, <1>9, <1>10 DEF direct
<1>18. d = NoDetails => remote = NoAddress
  BY <1>6, <1>8, <1>9, <1>10 DEF direct
<1>19. /\ q.manual \in Addresses => call.ip = q.manual /\ call.details.verified
       /\ q.manual = "unset" => call.ip = d.ip /\ call.details = d
  BY <1>1, <1>8 DEF IPOfCall
<1> QED BY <1>14, <1>15, <1>16, <1>17, <1>18, <1>19
        DEF HopDecides, platform, r, bare, d, plain, hops, remote

-----------------------------------------------------------------------------
(* What a caller of Guard is told.                                         *)

(* guardDecisionFromProto, result by result. *)
LEMMA ResultsAreKept ==
  ASSUME NEW resp, resp.decided
  PROVE  LET d == GuardDecisionFromProto(resp) IN
         /\ d.reason = resp.reason /\ d.conclusion = resp.conclusion /\ d.status = resp.status
         /\ DOMAIN d.results = DOMAIN resp.results
         /\ \A i \in DOMAIN resp.results :
              LET w == resp.results[i] IN
              /\ d.results[i].config = w.config /\ d.results[i].case = w.case /\ d.results[i].reset = w.reset
              /\ d.results[i].conclusion = IF w.case \in RateLimits \cup Checks THEN w.conclusion ELSE "ALLOW"
         /\ DOMAIN d.policyResults = DOMAIN resp.policyResults
         /\ \A i \in DOMAIN resp.policyResults : d.policyResults[i].case = resp.policyResults[i].case
BY DEF GuardDecisionFromProto, ToGuardRuleResult, PolicyResultFromProto

LEMMA FirstIsFound ==
  ASSUME NEW S, NEW parts \in Seq(S), NEW d, DOMAIN d.results = DOMAIN parts,
         NEW places \in SUBSET (DOMAIN parts)
  PROVE  /\ FirstOf(d, places) = <<>> <=> places = {}
         /\ FirstOf(d, places) # <<>> => \E i \in places : FirstOf(d, places)[1] = d.results[i]
<1>1. CASE places = {}
  BY <1>1 DEF FirstOf
<1>2. CASE places # {}
  <2>1. Min(places) \in places
    BY <1>2, Positions
  <2>2. FirstOf(d, places) = <<d.results[Min(places)]>>
    BY <1>2 DEF FirstOf
  <2> QED BY <1>2, <2>1, <2>2
<1> QED BY <1>1, <1>2

LEMMA Seen ==
  ASSUME NEW resp \in Responses
  PROVE  OutcomesAreSeen(resp, GuardDecisionFromProto(resp))
<1> DEFINE d == GuardDecisionFromProto(resp)
<1>1. ASSUME resp.decided, NEW i \in DOMAIN resp.results
      PROVE  LET w == resp.results[i]
                 Rule == [config |-> w.config, case |-> w.case]
             IN /\ w.case = "error" => ErrorResult(Rule, d) # <<>>
                /\ w.case \in RateLimits \cup Checks => Result(Rule, d) # <<>>
                /\ w.case \in RateLimits \cup Checks /\ w.conclusion = "DENY" => DeniedResult(Rule, d) # <<>>
                /\ \A found \in {Result(Rule, d), DeniedResult(Rule, d), ErrorResult(Rule, d)} :
                     found # <<>> => found[1].config = w.config
  <2> DEFINE w == resp.results[i]
             Rule == [config |-> w.config, case |-> w.case]
             own == Own(Rule, d)
             results == {n \in own : d.results[n].case = Rule.case}
             denied == {n \in own : d.results[n].conclusion = "DENY" /\ d.results[n].case = Rule.case}
             errors == {n \in own : d.results[n].case = "error"}
  <2>1. resp.results \in Seq(ToSet(resp.results))
    BY ResponseAssumption DEF IsSeq
  <2>2. /\ DOMAIN d.results = DOMAIN resp.results
        /\ d.results[i].config = w.config /\ d.results[i].case = w.case
        /\ w.case \in RateLimits \cup Checks => d.results[i].conclusion = w.conclusion
    BY <1>1, ResultsAreKept
  <2>3. /\ Result(Rule, d) = FirstOf(d, results)
        /\ DeniedResult(Rule, d) = FirstOf(d, denied)
        /\ ErrorResult(Rule, d) = FirstOf(d, errors)
    BY DEF Result, DeniedResult, ErrorResult
  <2>4. i \in own /\ own \in SUBSET (DOMAIN resp.results) /\ \A n \in own : d.results[n].config = w.config
    BY <2>2 DEF Own
  <2> HIDE DEF d, own
  <2>5. ASSUME NEW places \in SUBSET own
        PROVE  /\ FirstOf(d, places) = <<>> <=> places = {}
               /\ FirstOf(d, places) # <<>> => FirstOf(d, places)[1].config = w.config
    BY <2>1, <2>2, <2>4, FirstIsFound
  <2>6. results \in SUBSET own /\ denied \in SUBSET own /\ errors \in SUBSET own
    OBVIOUS
  <2>7. i \in results /\ (w.case = "error" => i \in errors)
        /\ (w.case \in RateLimits \cup Checks /\ w.conclusion = "DENY" => i \in denied)
    BY <2>2, <2>4
  <2> HIDE DEF results, denied, errors, w, Rule
  <2> QED BY <2>3, <2>5, <2>6, <2>7 DEF w, Rule, d
<1>2. d.conclusion = "ALLOW" /\ ~HasFailedOpen(d) =>
       /\ resp.decided /\ resp.status \notin {"incomplete", "unavailable"}
       /\ \A part \in {resp.results, resp.policyResults} : \A i \in DOMAIN part : part[i].case # "error"
  <2> SUFFICES ASSUME d.conclusion = "ALLOW", ~HasFailedOpen(d)
               PROVE  /\ resp.decided /\ resp.status \notin {"incomplete", "unavailable"}
                      /\ \A i \in DOMAIN resp.results : resp.results[i].case # "error"
                      /\ \A i \in DOMAIN resp.policyResults : resp.policyResults[i].case # "error"
    OBVIOUS
  <2>1. ErrorResults(d) = {}
    BY DEF HasFailedOpen
  <2>2. /\ d.status \notin {"incomplete", "unavailable"}
        /\ \A i \in DOMAIN d.results : d.results[i].case # "error"
        /\ \A i \in DOMAIN d.policyResults : d.policyResults[i].case # "error"
    BY <2>1 DEF ErrorResults
  <2>3. resp.decided
    <3> SUFFICES ASSUME ~resp.decided PROVE FALSE
      OBVIOUS
    <3>1. d.results = <<ErroredGuardRuleResult>>
      BY DEF GuardDecisionFromProto, GuardErrorDecision
    <3>2. 1 \in DOMAIN d.results /\ d.results[1].case = "error"
      BY <3>1 DEF ErroredGuardRuleResult
    <3> QED BY <2>2, <3>2
  <2> QED BY <2>2, <2>3, ResultsAreKept
<1> QED BY <1>1, <1>2 DEF OutcomesAreSeen

LEMMA FiniteIsBounded ==
  ASSUME NEW n \in Nat, NEW f \in [1..n -> Int]
  PROVE  \E b \in Nat : \A i \in 1..n : f[i] <= b
<1> DEFINE P == {k \in Nat : k <= n => \E b \in Nat : \A i \in 1..k : f[i] <= b}
<1>1. 0 \in P
  OBVIOUS
<1>2. ASSUME NEW k \in P PROVE k + 1 \in P
  <2> SUFFICES ASSUME k + 1 <= n PROVE \E b \in Nat : \A i \in 1..(k + 1) : f[i] <= b
    OBVIOUS
  <2>1. PICK b \in Nat : \A i \in 1..k : f[i] <= b
    OBVIOUS
  <2>2. PICK x \in Int : x = f[k + 1]
    OBVIOUS
  <2>3. CASE x <= b
    <3>1. \A i \in 1..(k + 1) : f[i] <= b
      BY <2>1, <2>2, <2>3
    <3> QED BY <3>1
  <2>4. CASE x > b
    <3>1. \A i \in 1..(k + 1) : f[i] <= x
      <4> TAKE i \in 1..(k + 1)
      <4>1. CASE i = k + 1
        BY <2>2, <4>1
      <4>2. CASE i \in 1..k
        <5>1. f[i] <= b /\ f[i] \in Int
          BY <2>1, <4>2
        <5> QED BY <2>4, <5>1
      <4> QED BY <4>1, <4>2
    <3>2. x \in Nat
      BY <2>4
    <3> QED BY <3>1, <3>2
  <2> QED BY <2>3, <2>4
<1>3. P = Nat
  <2> HIDE DEF P
  <2> QED BY <1>1, <1>2, ByInduction DEF P
<1>4. n \in P
  BY <1>3
<1> QED BY <1>4

LEMMA MinMaxOfTwo ==
  ASSUME NEW a \in Int, NEW b \in Int
  PROVE  /\ Min({a, b}) = IF a <= b THEN a ELSE b
         /\ Max({a, b}) = IF a <= b THEN b ELSE a
BY DEF Min, Max

LEMMA Clamped ==
  ASSUME NEW a \in Int, NEW c \in Nat
  PROVE  Min({Max({a, 0}), c}) = IF a <= 0 THEN 0 ELSE IF a <= c THEN a ELSE c
<1>1. PICK m \in Int : m = Max({a, 0}) /\ m = IF a <= 0 THEN 0 ELSE a
  BY MinMaxOfTwo, SMTT(20)
<1>2. Min({m, c}) = IF m <= c THEN m ELSE c
  BY MinMaxOfTwo
<1> QED BY <1>1, <1>2

LEMMA Sufficient ==
  ASSUME NEW resp \in Responses, NEW now \in Times
  PROVE  AdviceIsSufficient(resp, GuardDecisionFromProto(resp), now)
<1> SUFFICES ASSUME resp.decided PROVE AdviceIsSufficient(resp, GuardDecisionFromProto(resp), now)
  BY DEF AdviceIsSufficient
<1> DEFINE d == GuardDecisionFromProto(resp)
           advice == NewGuardDenialResult(d, now)
           limits == {w \in ToSet(resp.results) : w.case \in RateLimits /\ w.conclusion = "DENY" /\ w.reset > 0}
           resets == {w.reset : w \in limits}
           latest == Max(resets)
           cap == MaxRetryAfterSeconds
           wait == GuardRetryAfterSeconds(d, now)
<1>1. resp.results \in Seq(ToSet(resp.results)) /\ now \in Int /\ \A w \in ToSet(resp.results) : w.reset \in Int
  BY ResponseAssumption DEF IsSeq
<1>2. PICK n \in Nat : DOMAIN resp.results = 1..n
  BY <1>1, LenProperties
<1>3. \A w : w \in ToSet(resp.results) <=> \E i \in 1..n : w = resp.results[i]
  BY <1>2 DEF ToSet
<1>4. Resets(d) = resets
  <2>1. ASSUME NEW q \in ToSet(d.results), q.case \in RateLimits, q.conclusion = "DENY", q.reset > 0
        PROVE  q.reset \in resets
    <3>1. PICK i \in DOMAIN d.results : q = d.results[i]
      BY DEF ToSet
    <3>2. i \in 1..n /\ resp.results[i] \in limits /\ q.reset = resp.results[i].reset
      BY <1>2, <1>3, <2>1, <3>1, ResultsAreKept
    <3> HIDE DEF limits
    <3> QED BY <3>2
  <2>2. ASSUME NEW w \in limits PROVE w.reset \in Resets(d)
    <3>1. PICK i \in 1..n : w = resp.results[i]
      BY <1>3
    <3>2. LET q == d.results[i] IN
          i \in DOMAIN d.results /\ q.case \in RateLimits /\ q.conclusion = "DENY" /\ q.reset > 0 /\ q.reset = w.reset
      BY <1>2, <3>1, ResultsAreKept
    <3>3. d.results[i] \in ToSet(d.results)
      BY <3>2 DEF ToSet
    <3> HIDE DEF d
    <3> QED BY <3>2, <3>3 DEF Resets
  <2>3. \A x \in Resets(d) : \E q \in ToSet(d.results) :
          x = q.reset /\ q.case \in RateLimits /\ q.conclusion = "DENY" /\ q.reset > 0
    BY DEF Resets
  <2> HIDE DEF d, limits
  <2> QED BY <2>1, <2>2, <2>3
<1>5. resets \in SUBSET Nat /\ \E b \in Nat : \A x \in resets : x <= b
  <2> DEFINE f == [i \in 1..n |-> resp.results[i].reset]
  <2>1. f \in [1..n -> Int]
    BY <1>1, <1>3
  <2>2. PICK b \in Nat : \A i \in 1..n : f[i] <= b
    <3> HIDE DEF f
    <3> QED BY <2>1, FiniteIsBounded
  <2>3. ASSUME NEW w \in limits PROVE w.reset \in Nat /\ w.reset <= b
    BY <1>1, <1>3, <2>2
  <2> HIDE DEF limits
  <2> QED BY <2>3
<1>6. resets = {} <=> limits = {}
  <2> HIDE DEF limits
  <2> QED OBVIOUS
<1>7. limits # {} => latest \in Nat /\ (\A w \in limits : w.reset \in Nat /\ w.reset <= latest) /\ \E w \in limits : w.reset = latest
  <2> HIDE DEF limits
  <2> SUFFICES ASSUME limits # {} PROVE latest \in Nat /\ (\A w \in limits : w.reset \in Nat /\ w.reset <= latest) /\ \E w \in limits : w.reset = latest
    OBVIOUS
  <2>1. latest \in resets /\ \A x \in resets : x <= latest
    <3> HIDE DEF resets
    <3> QED BY <1>5, <1>6, MaxIsGreatest
  <2> HIDE DEF latest
  <2> QED BY <1>5, <2>1
<1>8. cap \in Nat \ {0}
  BY CapIsPositive
<1>9. limits = {} => wait = -1
  <2> HIDE DEF d, limits
  <2> QED BY <1>4, <1>6 DEF GuardRetryAfterSeconds, NoHint
<1>10. limits # {} => wait = IF latest - now <= 0 THEN 0 ELSE IF latest - now <= cap THEN latest - now ELSE cap
  <2> SUFFICES ASSUME limits # {}
               PROVE  wait = IF latest - now <= 0 THEN 0 ELSE IF latest - now <= cap THEN latest - now ELSE cap
    OBVIOUS
  <2>1. wait = Min({Max({latest - now, 0}), cap})
    <3> HIDE DEF d, limits, resets
    <3> QED BY <1>4, <1>6 DEF GuardRetryAfterSeconds, LatestReset
  <2>2. latest - now \in Int /\ 0 \in Int /\ cap \in Int
    <3> HIDE DEF latest, limits
    <3> QED BY <1>1, <1>7, <1>8
  <2> HIDE DEF latest, wait, cap
  <2> QED BY <1>8, <2>1, <2>2, Clamped
<1>11. advice.retryAfterSeconds = wait /\ (advice.retryable <=> (d.reason = "RATE_LIMIT" \/ wait # -1))
  BY DEF NewGuardDenialResult, NoHint
<1> HIDE DEF d, advice, limits, resets, latest, cap, wait
<1>12. (wait = -1) <=> (limits = {})
  BY <1>1, <1>7, <1>8, <1>9, <1>10
<1>13. ASSUME wait # -1
       PROVE  /\ wait \in 0 .. cap
              /\ wait < cap => \A w \in limits : w.reset <= now + wait
              /\ wait > 0 => \E w \in limits : ~(w.reset <= now + wait - 1)
  <2>1. latest \in Nat /\ (\A w \in limits : w.reset \in Nat /\ w.reset <= latest)
    BY <1>7, <1>12, <1>13
  <2>2. PICK w \in limits : w.reset = latest
    BY <1>7, <1>12, <1>13
  <2>3. wait = IF latest - now <= 0 THEN 0 ELSE IF latest - now <= cap THEN latest - now ELSE cap
    BY <1>10, <1>12, <1>13
  <2>4. wait \in 0..cap /\ (wait < cap => latest <= now + wait) /\ (wait > 0 => ~(latest <= now + wait - 1))
    BY <1>1, <1>8, <2>1, <2>3
  <2>5. \A v \in limits : wait < cap => v.reset <= now + wait
    BY <1>1, <1>8, <2>1, <2>4
  <2> QED BY <2>2, <2>4, <2>5
<1> QED BY <1>11, <1>12, <1>13 DEF AdviceIsSufficient, d, advice, limits, cap, wait, NoHint

-----------------------------------------------------------------------------
(* The local rules of a policy.                                            *)

Flags == [sanitizeInputs : BOOLEAN, denied : BOOLEAN]

LEMMA OutcomeOfRule ==
  ASSUME NEW rule
  PROVE  /\ \A denied \in BOOLEAN :
              LET o == Outcome(denied, rule) IN
              /\ o.id = rule.id
              /\ (o.case = "notRun" <=> denied) /\ (o.case = "error" <=> ~denied /\ rule.found = {"fails"})
              /\ o.case \in {"notRun", "error", "checked"}
              /\ (o.conclusion = "DENY" <=> ~denied /\ Known(rule) # {})
              /\ (o.conclusion = "DENY" => o.case = "checked")
              /\ o.evidence \subseteq rule.found \cap GuardPolicyEntityTypes
<1>1. rule.found = {"fails"} => Known(rule) = {}
  BY FailureIsNoType DEF Known
<1>2. Known(rule) = rule.found \cap GuardPolicyEntityTypes
  BY DEF Known
<1>3. ASSUME NEW denied \in BOOLEAN, denied PROVE Outcome(denied, rule) = LocalPolicyNotRun(rule)
  BY <1>3 DEF Outcome
<1>4. ASSUME NEW denied \in BOOLEAN, ~denied PROVE Outcome(denied, rule) = LocalResult(rule)
  BY <1>4 DEF Outcome
<1>5. LET o == LocalPolicyNotRun(rule) IN o.id = rule.id /\ o.case = "notRun" /\ o.conclusion = "ALLOW" /\ o.evidence = {}
  BY DEF LocalPolicyNotRun
<1>6. LET o == LocalResult(rule) IN
      /\ o.id = rule.id /\ o.case = (IF rule.found = {"fails"} THEN "error" ELSE "checked")
      /\ o.conclusion = (IF rule.found # {"fails"} /\ Known(rule) # {} THEN "DENY" ELSE "ALLOW")
      /\ o.evidence = (IF rule.found = {"fails"} THEN {} ELSE Known(rule))
  BY DEF LocalResult
<1>7. CASE rule.found = {"fails"}
  BY <1>1, <1>2, <1>3, <1>4, <1>5, <1>6, <1>7
<1>8. CASE rule.found # {"fails"}
  BY <1>1, <1>2, <1>3, <1>4, <1>5, <1>6, <1>8
<1> QED BY <1>7, <1>8

LEMMA AfterRuleIsFlags ==
  ASSUME NEW before \in Flags, NEW rule
  PROVE  /\ AfterRule(before, rule) \in Flags
         /\ ~InScope(rule) => AfterRule(before, rule) = before
         /\ InScope(rule) =>
              /\ AfterRule(before, rule).sanitizeInputs <=>
                   before.sanitizeInputs \/ (~before.denied /\ Known(rule) # {})
              /\ AfterRule(before, rule).denied <=>
                   before.denied \/ (~before.denied /\ Known(rule) # {} /\ rule.mode = "LIVE")
<1> DEFINE denies == Outcome(before.denied, rule).conclusion = "DENY"
<1>1. before.denied \in BOOLEAN /\ before.sanitizeInputs \in BOOLEAN
  BY DEF Flags
<1>2. denies <=> ~before.denied /\ Known(rule) # {}
  BY <1>1, OutcomeOfRule
<1>3. AfterRule(before, rule) = IF ~InScope(rule) THEN before
        ELSE [sanitizeInputs |-> before.sanitizeInputs \/ denies,
              denied |-> before.denied \/ (denies /\ rule.mode = "LIVE")]
  BY DEF AfterRule
<1>4. denies \in BOOLEAN
  OBVIOUS
<1> HIDE DEF denies
<1> DEFINE s == before.sanitizeInputs \/ denies
           t == before.denied \/ (denies /\ rule.mode = "LIVE")
<1>5. s \in BOOLEAN /\ t \in BOOLEAN
  OBVIOUS
<1>6. /\ s <=> before.sanitizeInputs \/ (~before.denied /\ Known(rule) # {})
      /\ t <=> before.denied \/ (~before.denied /\ Known(rule) # {} /\ rule.mode = "LIVE")
  BY <1>2
<1> HIDE DEF s, t
<1>7. ~InScope(rule) => AfterRule(before, rule) = before
  BY <1>3
<1>8. InScope(rule) => AfterRule(before, rule) = [sanitizeInputs |-> s, denied |-> t]
  BY <1>3 DEF s, t
<1>9. LET r == [sanitizeInputs |-> s, denied |-> t] IN r \in Flags /\ r.sanitizeInputs = s /\ r.denied = t
  BY <1>5 DEF Flags
<1> QED BY <1>6, <1>7, <1>8, <1>9

LEMMA LocalStatesRun ==
  ASSUME NEW S, NEW rules \in Seq(S)
  PROVE  LET after == LocalStates(rules) IN
         /\ \A n \in 0..Len(rules) : after[n] \in Flags
         /\ after[0] = [sanitizeInputs |-> FALSE, denied |-> FALSE]
         /\ \A n \in 1..Len(rules) : after[n] = AfterRule(after[n - 1], rules[n])
<1> DEFINE start == [sanitizeInputs |-> FALSE, denied |-> FALSE]
           N == Len(rules)
           step == [p \in (1..N) \X Flags |-> AfterRule(p[2], rules[p[1]])]
           Is(f) == f = [n \in 0..N |-> IF n = 0 THEN start ELSE AfterRule(f[n - 1], rules[n])]
<1>1. N \in Nat
  BY LenProperties
<1>2. start \in Flags /\ step \in [(1..N) \X Flags -> Flags]
  BY AfterRuleIsFlags DEF Flags
<1>3. \A n \in 1..N, s \in Flags : step[<<n, s>>] = AfterRule(s, rules[n])
  OBVIOUS
<1> HIDE DEF start, N, step
<1>4. PICK f \in [0..N -> Flags] : Runs(f, start, step, N)
  BY <1>1, <1>2, LoopExists
<1>5. f[0] = start /\ \A n \in 1..N : n - 1 \in 0..N /\ f[n] = AfterRule(f[n - 1], rules[n])
  BY <1>1, <1>3, <1>4 DEF Runs
<1>6. Is(f)
  <2>1. \A n \in 0..N : f[n] = IF n = 0 THEN start ELSE AfterRule(f[n - 1], rules[n])
    BY <1>1, <1>5
  <2> QED BY <1>4, <2>1
<1>7. LocalStates(rules) = CHOOSE g : Is(g)
  BY DEF LocalStates, start, N
<1>8. Is(LocalStates(rules))
  <2> HIDE DEF Is
  <2> QED BY <1>6, <1>7
<1>9. ASSUME NEW g, Is(g) PROVE g[0] = start /\ \A n \in 1..N : g[n] = AfterRule(g[n - 1], rules[n])
  BY <1>1, <1>9
<1> DEFINE g == LocalStates(rules)
<1>10. g[0] = start /\ \A n \in 1..N : g[n] = AfterRule(g[n - 1], rules[n])
  <2> HIDE DEF Is
  <2> QED BY <1>8, <1>9
<1> HIDE DEF g
<1>11. \A n \in 0..N : g[n] \in Flags
  <2> DEFINE P == {n \in Nat : n <= N => g[n] \in Flags}
  <2>1. 0 \in P
    BY <1>2, <1>10
  <2>2. ASSUME NEW n \in P PROVE n + 1 \in P
    <3> SUFFICES ASSUME n + 1 <= N PROVE g[n + 1] \in Flags
      OBVIOUS
    <3>1. g[n] \in Flags /\ n + 1 \in 1..N /\ (n + 1) - 1 = n
      BY <1>1
    <3>2. g[n + 1] = AfterRule(g[n], rules[n + 1])
      BY <1>10, <3>1
    <3> QED BY <3>1, <3>2, AfterRuleIsFlags
  <2>3. P = Nat
    <3> HIDE DEF P
    <3> QED BY <2>1, <2>2, ByInduction DEF P
  <2> QED BY <1>1, <2>3
<1> QED BY <1>10, <1>11 DEF g, N, start

Detecting(rules) == {i \in DOMAIN rules : InScope(rules[i]) /\ Known(rules[i]) # {}}
Enforced(rules) == {i \in Detecting(rules) : rules[i].mode = "LIVE"}
LastToRun(rules) == IF Enforced(rules) = {} THEN Len(rules) ELSE Min(Enforced(rules))

(* Up to where the loop has come, it has denied when a rule that is        *)
(* enforced detects something, and saw what was detected before that.      *)
LEMMA LoopSays ==
  ASSUME NEW S, NEW rules \in Seq(S), NEW n \in 0..Len(rules)
  PROVE  LET at == LocalStates(rules)[n] IN
         /\ at.denied <=> \E i \in Enforced(rules) : i <= n
         /\ at.sanitizeInputs <=> \E i \in Detecting(rules) : i <= n /\ i <= LastToRun(rules)
<1> DEFINE after == LocalStates(rules)
           N == Len(rules)
           D == Detecting(rules)
           E == Enforced(rules)
           last == LastToRun(rules)
<1>1. N \in Nat /\ DOMAIN rules = 1..N
  BY LenProperties
<1>2. /\ \A k \in 0..N : after[k] \in Flags
      /\ after[0] = [sanitizeInputs |-> FALSE, denied |-> FALSE]
      /\ \A k \in 1..N : after[k] = AfterRule(after[k - 1], rules[k])
  BY LocalStatesRun
<1>3. D \in SUBSET (1..N) /\ E \in SUBSET D
  BY <1>1 DEF Detecting, Enforced
<1>4. /\ \A k \in 1..N : k \in D <=> InScope(rules[k]) /\ Known(rules[k]) # {}
      /\ \A k \in 1..N : k \in E <=> k \in D /\ rules[k].mode = "LIVE"
  BY <1>1 DEF Detecting, Enforced
<1> HIDE DEF D, E
<1>5. E # {} => last \in E /\ \A i \in E : last <= i
  <2>1. last = IF E = {} THEN N ELSE Min(E)
    BY DEF LastToRun, E
  <2>2. E \in SUBSET Nat
    BY <1>1, <1>3
  <2> HIDE DEF last
  <2> QED BY <2>1, <2>2, MinIsLeast
<1>6. E = {} => last = N
  BY DEF LastToRun, E
<1> HIDE DEF after, N, last
<1> DEFINE P == {k \in Nat : k <= N =>
                   /\ after[k].denied <=> \E i \in E : i <= k
                   /\ after[k].sanitizeInputs <=> \E i \in D : i <= k /\ i <= last}
<1>7. 0 \in P
  <2>1. \A i \in D : ~(i <= 0)
    BY <1>1, <1>3
  <2> QED BY <1>2, <1>3, <2>1
<1>8. ASSUME NEW k \in P PROVE k + 1 \in P
  <2> SUFFICES ASSUME k + 1 <= N
               PROVE  /\ after[k + 1].denied <=> \E i \in E : i <= k + 1
                      /\ after[k + 1].sanitizeInputs <=> \E i \in D : i <= k + 1 /\ i <= last
    OBVIOUS
  <2> DEFINE b == after[k]
             a == after[k + 1]
             rule == rules[k + 1]
  <2>1. k \in 0..N /\ k + 1 \in 1..N /\ (k + 1) - 1 = k
    BY <1>1
  <2>2. b \in Flags /\ a = AfterRule(b, rule) /\ b.denied \in BOOLEAN /\ b.sanitizeInputs \in BOOLEAN
    BY <1>2, <2>1 DEF Flags
  <2>3. /\ b.denied <=> \E i \in E : i <= k
        /\ b.sanitizeInputs <=> \E i \in D : i <= k /\ i <= last
    BY <2>1
  <2>4. \A i \in D : i <= k + 1 <=> i <= k \/ i = k + 1
    BY <1>1, <1>3, <2>1
  <2>5. ~b.denied => (k + 1 \in D => k + 1 <= last)
    <3> SUFFICES ASSUME ~b.denied PROVE k + 1 <= last
      OBVIOUS
    <3>1. CASE E = {}
      BY <1>6, <3>1
    <3>2. CASE E # {}
      <4>1. last \in E /\ ~(last <= k) /\ last \in 1..N
        BY <1>3, <1>5, <2>3, <3>2
      <4> QED BY <1>1, <2>1, <4>1
    <3> QED BY <3>1, <3>2
  <2>6. b.denied => ~(k + 1 <= last)
    <3> SUFFICES ASSUME b.denied PROVE ~(k + 1 <= last)
      OBVIOUS
    <3>1. PICK i \in E : i <= k
      BY <2>3
    <3>2. last <= i /\ last \in 1..N /\ i \in 1..N
      BY <1>3, <1>5
    <3> QED BY <1>1, <2>1, <3>1, <3>2
  <2> HIDE DEF a, b, rule, P
  <2>7. CASE ~InScope(rule)
    <3>1. a = b /\ k + 1 \notin D
      BY <1>4, <2>1, <2>2, <2>7, AfterRuleIsFlags DEF rule
    <3> QED BY <1>3, <2>3, <2>4, <3>1 DEF a
  <2>8. CASE InScope(rule)
    <3>1. /\ a.sanitizeInputs <=> b.sanitizeInputs \/ (~b.denied /\ Known(rule) # {})
          /\ a.denied <=> b.denied \/ (~b.denied /\ Known(rule) # {} /\ rule.mode = "LIVE")
      BY <2>2, <2>8, AfterRuleIsFlags
    <3>2. /\ k + 1 \in D <=> Known(rule) # {}
          /\ k + 1 \in E <=> Known(rule) # {} /\ rule.mode = "LIVE"
      BY <1>4, <2>1, <2>8 DEF rule
    <3>3. a.denied <=> \E i \in E : i <= k + 1
      BY <1>3, <2>2, <2>3, <2>4, <3>1, <3>2
    <3>4. a.sanitizeInputs <=> \E i \in D : i <= k + 1 /\ i <= last
      <4>1. CASE b.denied
        BY <2>2, <2>3, <2>4, <2>6, <3>1, <4>1
      <4>2. CASE ~b.denied
        BY <2>2, <2>3, <2>4, <2>5, <3>1, <3>2, <4>2
      <4> QED BY <2>2, <4>1, <4>2
    <3> QED BY <3>3, <3>4 DEF a
  <2> QED BY <2>7, <2>8
<1>9. P = Nat
  <2> HIDE DEF P
  <2> QED BY <1>7, <1>8, ByInduction DEF P
<1>10. n \in P /\ n <= N
  BY <1>1, <1>9 DEF N
<1> QED BY <1>10 DEF after, D, E, last

(* An outcome, by its rule and whether an earlier rule has denied.         *)
LEMMA ResultsSay ==
  ASSUME NEW rules \in Policies
  PROVE  LET out == LocalResults(rules)
             scope == {i \in DOMAIN rules : InScope(rules[i])}
         IN /\ DOMAIN out.results = scope
            /\ out.denied <=> Enforced(rules) # {}
            /\ out.sanitizeInputs <=> \E i \in Detecting(rules) : i <= LastToRun(rules)
            /\ \A i \in scope :
                 LET o == out.results[i] IN
                 /\ o.id = rules[i].id
                 /\ o.case = "notRun" <=> i > LastToRun(rules)
                 /\ o.case = "error" <=> i <= LastToRun(rules) /\ rules[i].found = {"fails"}
                 /\ o.case \in {"notRun", "error", "checked"}
                 /\ o.conclusion = "DENY" <=> i \in Detecting(rules) /\ i <= LastToRun(rules)
                 /\ o.conclusion = "DENY" => o.case = "checked"
                 /\ o.evidence \subseteq rules[i].found \cap GuardPolicyEntityTypes
<1> DEFINE after == LocalStates(rules)
           N == Len(rules)
           scope == {i \in DOMAIN rules : InScope(rules[i])}
           D == Detecting(rules)
           E == Enforced(rules)
           last == LastToRun(rules)
           out == LocalResults(rules)
<1>1. rules \in Seq(ToSet(rules))
  BY PolicyAssumption DEF IsSeq
<1>2. N \in Nat /\ DOMAIN rules = 1..N
  BY <1>1, LenProperties
<1>3. /\ out.results = [n \in scope |-> Outcome(after[n - 1].denied, rules[n])]
      /\ out.sanitizeInputs = after[N].sanitizeInputs
      /\ out.denied = after[N].denied
  BY DEF LocalResults
<1>4. D \in SUBSET (1..N) /\ E \in SUBSET D /\ D \in SUBSET scope
  BY <1>2 DEF Detecting, Enforced
<1>5. \A i \in scope : i \in D <=> Known(rules[i]) # {}
  BY DEF Detecting
<1>6. IF E = {} THEN last = N ELSE last \in E /\ \A i \in E : last <= i
  <2>1. last = IF E = {} THEN N ELSE Min(E)
    BY DEF LastToRun
  <2>2. E \in SUBSET Nat
    BY <1>2, <1>4
  <2> HIDE DEF last, E
  <2> QED BY <2>1, <2>2, MinIsLeast
<1>7. scope \in SUBSET (1..N)
  BY <1>2
<1>8. \A n \in 0..N :
        /\ after[n].denied <=> \E i \in E : i <= n
        /\ after[n].sanitizeInputs <=> \E i \in D : i <= n /\ i <= last
  BY <1>1, LoopSays
<1>9. \A n \in 0..N : after[n] \in Flags
  BY <1>1, LocalStatesRun
<1> HIDE DEF after, N, D, E, last, out, scope
<1>10. \A i \in D : i <= N /\ i \in 1..N
  BY <1>2, <1>4
<1>11. N \in 0..N
  BY <1>2
<1>12. out.denied <=> E # {}
  BY <1>3, <1>4, <1>8, <1>10, <1>11
<1>13. out.sanitizeInputs <=> \E i \in D : i <= last
  BY <1>3, <1>8, <1>10, <1>11
<1>14. ASSUME NEW i \in scope
       PROVE  LET o == out.results[i] IN
              /\ o.id = rules[i].id
              /\ o.case = "notRun" <=> i > last
              /\ o.case = "error" <=> i <= last /\ rules[i].found = {"fails"}
              /\ o.case \in {"notRun", "error", "checked"}
              /\ o.conclusion = "DENY" <=> i \in D /\ i <= last
              /\ o.conclusion = "DENY" => o.case = "checked"
              /\ o.evidence \subseteq rules[i].found \cap GuardPolicyEntityTypes
  <2> DEFINE denied == after[i - 1].denied
  <2>1. i \in 1..N /\ i - 1 \in 0..N
    BY <1>2, <1>7
  <2>2. out.results[i] = Outcome(denied, rules[i])
    BY <1>3
  <2>3. denied \in BOOLEAN
    BY <1>9, <2>1 DEF Flags
  <2>4. denied <=> i > last
    <3>1. denied <=> \E j \in E : j <= i - 1
      BY <1>8, <2>1
    <3>2. CASE E = {}
      BY <1>2, <1>6, <2>1, <3>1, <3>2
    <3>3. CASE E # {}
      <4>1. last \in E /\ last \in 1..N /\ \A j \in E : last <= j /\ j \in 1..N
        BY <1>4, <1>6, <3>3
      <4>2. (\E j \in E : j <= i - 1) <=> i > last
        BY <1>2, <2>1, <4>1
      <4> QED BY <3>1, <4>2
    <3> QED BY <3>2, <3>3
  <2>5. last \in 1..N \/ last = N
    BY <1>4, <1>6
  <2>6. i > last <=> ~(i <= last)
    BY <1>2, <2>1, <2>5
  <2> HIDE DEF denied
  <2> QED BY <1>5, <2>2, <2>3, <2>4, <2>6, OutcomeOfRule
<1>15. DOMAIN out.results = scope
  BY <1>3
<1> QED BY <1>12, <1>13, <1>14, <1>15 DEF D, E, last, out, scope

LEMMA DenialSays ==
  ASSUME NEW rules \in Policies
  PROVE  LET out == LocalResults(rules)
             d == LocalPolicyDenial(rules, out.results)
         IN /\ d.conclusion = "DENY" /\ d.results = <<>> /\ d.status = "applied"
            /\ DOMAIN d.policyResults = DOMAIN out.results
            /\ \A i \in DOMAIN out.results :
                 /\ d.policyResults[i].mode = rules[i].mode
                 /\ d.policyResults[i].case = out.results[i].case
                 /\ d.policyResults[i].conclusion = "DENY" <=> out.results[i].conclusion = "DENY"
<1> DEFINE results == LocalResults(rules).results
           d == LocalPolicyDenial(rules, results)
           ModeOf(id) == rules[Max({i \in DOMAIN rules : rules[i].id = id})].mode
           Entry(i) == [id |-> results[i].id, mode |-> ModeOf(results[i].id),
                        case |-> PolicyResultFromProto(results[i]).case,
                        conclusion |-> PolicyResultFromProto(results[i]).conclusion]
<1>1. /\ d.conclusion = "DENY" /\ d.results = <<>> /\ d.status = "applied"
      /\ d.policyResults = [i \in DOMAIN results |-> Entry(i)]
  BY DEF LocalPolicyDenial
<1>2. rules \in Seq(ToSet(rules)) /\ \A i, j \in DOMAIN rules : rules[i].id = rules[j].id => i = j
  BY PolicyAssumption DEF IsSeq
<1>3. ASSUME NEW i \in DOMAIN rules PROVE ModeOf(rules[i].id) = rules[i].mode
  <2> DEFINE same == {j \in DOMAIN rules : rules[j].id = rules[i].id}
  <2>1. same = {i}
    BY <1>2
  <2>2. same \in SUBSET (DOMAIN rules) /\ same # {}
    BY <2>1
  <2> HIDE DEF same
  <2>3. Max(same) \in same
    BY <1>2, <2>2, Positions
  <2>4. Max(same) = i
    BY <2>1, <2>3
  <2> QED BY <2>4 DEF same
<1>4. \A i \in DOMAIN results :
        /\ i \in DOMAIN rules /\ results[i].id = rules[i].id
        /\ results[i].conclusion = "DENY" => results[i].case = "checked"
  BY ResultsSay
<1>5. ASSUME NEW i \in DOMAIN results
      PROVE  /\ d.policyResults[i].mode = rules[i].mode
             /\ d.policyResults[i].case = results[i].case
             /\ d.policyResults[i].conclusion = "DENY" <=> results[i].conclusion = "DENY"
  <2>1. d.policyResults[i] = Entry(i)
    BY <1>1
  <2>2. ModeOf(results[i].id) = rules[i].mode
    BY <1>3, <1>4
  <2> HIDE DEF d, results, ModeOf
  <2>3. LET told == PolicyResultFromProto(results[i]) IN
        told.case = results[i].case /\ (told.conclusion = "DENY" <=> results[i].conclusion = "DENY")
    BY <1>4 DEF PolicyResultFromProto
  <2> QED BY <2>1, <2>2, <2>3
<1>6. DOMAIN d.policyResults = DOMAIN results
  BY <1>1
<1> QED BY <1>1, <1>5, <1>6

LEMMA Explained ==
  ASSUME NEW rules \in Policies
  PROVE  DenialIsExplained(rules)
<1> DEFINE out == LocalResults(rules)
           scope == {i \in DOMAIN rules : InScope(rules[i])}
           D == {i \in scope : Known(rules[i]) # {}}
           E == {i \in D : rules[i].mode = "LIVE"}
           last == IF E = {} THEN Len(rules) ELSE Min(E)
           d == LocalPolicyDenial(rules, out.results)
           told == {i \in scope : d.policyResults[i].conclusion = "DENY"}
           errors == {i \in scope : i <= last /\ rules[i].found = {"fails"}}
<1>1. D = Detecting(rules)
  BY DEF Detecting
<1>2. E = Enforced(rules)
  BY <1>1 DEF Enforced
<1>3. last = LastToRun(rules)
  BY <1>2 DEF LastToRun
<1>4. /\ DOMAIN out.results = scope
      /\ out.denied <=> E # {}
      /\ out.sanitizeInputs <=> \E i \in D : i <= last
      /\ \A i \in scope :
           LET o == out.results[i] IN
           /\ o.id = rules[i].id
           /\ o.case = "notRun" <=> i > last
           /\ o.case = "error" <=> i <= last /\ rules[i].found = {"fails"}
           /\ o.conclusion = "DENY" <=> i \in D /\ i <= last
           /\ o.evidence \subseteq rules[i].found \cap GuardPolicyEntityTypes
  <2> HIDE DEF D, E, last
  <2> QED BY <1>1, <1>2, <1>3, ResultsSay
<1>5. /\ d.conclusion = "DENY" /\ d.results = <<>> /\ d.status = "applied"
      /\ DOMAIN d.policyResults = scope
      /\ \A i \in scope :
           /\ d.policyResults[i].mode = rules[i].mode
           /\ d.policyResults[i].case = out.results[i].case
           /\ d.policyResults[i].conclusion = "DENY" <=> out.results[i].conclusion = "DENY"
  BY <1>4, DenialSays
<1>6. rules \in Seq(ToSet(rules)) /\ DOMAIN rules = 1..Len(rules) /\ Len(rules) \in Nat
  BY PolicyAssumption, LenProperties DEF IsSeq
<1>7. scope \in SUBSET (1..Len(rules)) /\ D \in SUBSET scope /\ E \in SUBSET D
  BY <1>6
<1>8. told = {i \in D : i <= last}
  BY <1>4, <1>5
<1>9. E # {} => last \in E /\ \A i \in E : last <= i
  <2>1. E \in SUBSET Nat
    BY <1>6, <1>7
  <2> HIDE DEF E
  <2> QED BY <2>1, MinIsLeast
<1>10. E # {} => {i \in told : d.policyResults[i].mode = "LIVE"} = {last}
  <2> SUFFICES ASSUME E # {} PROVE {i \in told : d.policyResults[i].mode = "LIVE"} = {last}
    OBVIOUS
  <2>1. \A i \in told : d.policyResults[i].mode = "LIVE" <=> i \in E
    BY <1>5, <1>8
  <2>2. last \in E /\ (\A i \in E : last <= i) /\ E \in SUBSET (1..Len(rules)) /\ E \in SUBSET D
    BY <1>7, <1>9
  <2> HIDE DEF last, told, D, E, d
  <2>3. last \in told
    BY <1>6, <1>8, <2>2
  <2>4. \A i \in told : i \in E => i = last
    BY <1>6, <1>8, <2>2
  <2> QED BY <2>1, <2>2, <2>3, <2>4
<1>11. ErrorResults(d) = {<<"policy result", i>> : i \in errors}
  <2>1. {n \in DOMAIN d.results : d.results[n].case = "error"} = {}
    BY <1>5
  <2>2. {n \in DOMAIN d.policyResults : d.policyResults[n].case = "error"} = errors
    <3>1. ASSUME NEW n \in scope PROVE d.policyResults[n].case = "error" <=> n \in errors
      <4>1. d.policyResults[n].case = out.results[n].case
        BY <1>5
      <4>2. out.results[n].case = "error" <=> n <= last /\ rules[n].found = {"fails"}
        BY <1>4
      <4> HIDE DEF d, last, scope
      <4> QED BY <4>1, <4>2
    <3>2. DOMAIN d.policyResults = scope
      BY <1>5
    <3>3. \A n \in errors : n \in scope
      OBVIOUS
    <3> HIDE DEF d, errors, scope
    <3> QED BY <3>1, <3>2, <3>3
  <2> HIDE DEF errors, d
  <2> QED BY <1>5, <2>1, <2>2 DEF ErrorResults
<1>12. Cardinality(ErrorResults(d)) = Cardinality(errors)
  <2> DEFINE f == [i \in errors |-> <<"policy result", i>>]
  <2>1. IsFiniteSet(errors)
    <3> HIDE DEF scope, last
    <3>1. errors \in SUBSET (1..Len(rules))
      BY <1>7
    <3> HIDE DEF errors
    <3> QED BY <1>6, <3>1, PositionsAreFinite
  <2>2. f \in Bijection(errors, ErrorResults(d))
    <3> HIDE DEF errors
    <3>1. f \in [errors -> ErrorResults(d)] /\ \A i, j \in errors : f[i] = f[j] => i = j
      BY <1>11
    <3>2. \A x \in ErrorResults(d) : \E i \in errors : f[i] = x
      BY <1>11
    <3> HIDE DEF f
    <3> QED BY <3>1, <3>2 DEF Bijection, Injection, Surjection, IsInjective
  <2> HIDE DEF f, errors, d
  <2> QED BY <2>1, <2>2, FS_Bijection DEF ExistsBijection
<1>13. ~HasFailedOpen(d)
  BY <1>5 DEF HasFailedOpen
<1> HIDE DEF out, D, E, last, d, told, errors
<1> QED BY <1>4, <1>8, <1>10, <1>12, <1>13 DEF DenialIsExplained, out, D, E, last, d, told, errors

-----------------------------------------------------------------------------
(* The order of places.                                                    *)

LEMMA BeforeIsAnOrder ==
  ASSUME NEW places \in SUBSET (Nat \X Nat)
  PROVE  /\ \A p \in places : ~Before(p, p)
         /\ \A p, q, r \in places : Before(p, q) /\ Before(q, r) => Before(p, r)
         /\ \A p, q \in places : p # q => Before(p, q) \/ Before(q, p)
<1>1. \A p \in places : p[1] \in Nat /\ p[2] \in Nat /\ p = <<p[1], p[2]>>
  OBVIOUS
<1>2. \A p \in places : ~Before(p, p)
  BY <1>1 DEF Before
<1>3. ASSUME NEW p \in places, NEW q \in places, NEW r \in places, Before(p, q), Before(q, r)
      PROVE  Before(p, r)
  BY <1>1, <1>3 DEF Before
<1>4. ASSUME NEW p \in places, NEW q \in places, p # q PROVE Before(p, q) \/ Before(q, p)
  BY <1>1, <1>4 DEF Before
<1> QED BY <1>2, <1>3, <1>4

LEMMA Ranks ==
  ASSUME NEW places \in SUBSET (Nat \X Nat), IsFiniteSet(places)
  PROVE  /\ \A p \in places : Rank(p, places) \in 0..(Cardinality(places) - 1)
         /\ \A p, q \in places : Before(q, p) <=> Rank(q, places) < Rank(p, places)
         /\ \A p, q \in places : Rank(p, places) = Rank(q, places) => p = q
<1> DEFINE First(p) == {q \in places : Before(q, p)}
           c == Cardinality(places)
<1>1. c \in Nat
  BY FS_CardinalityType
<1>2. ASSUME NEW p \in places
      PROVE  /\ Rank(p, places) = Cardinality(First(p)) /\ IsFiniteSet(First(p))
             /\ Rank(p, places) \in 0..(c - 1)
  <2>1. First(p) \in SUBSET (places \ {p})
    BY BeforeIsAnOrder
  <2>2. IsFiniteSet(places \ {p}) /\ Cardinality(places \ {p}) = c - 1
    BY FS_RemoveElement
  <2>3. IsFiniteSet(First(p)) /\ Cardinality(First(p)) <= c - 1 /\ Cardinality(First(p)) \in Nat
    <3> HIDE DEF First, c
    <3> QED BY <2>1, <2>2, FS_Subset, FS_CardinalityType
  <2>4. Rank(p, places) = Cardinality(First(p))
    BY DEF Rank
  <2> QED BY <1>1, <2>3, <2>4
<1>3. ASSUME NEW p \in places, NEW q \in places, Before(q, p)
      PROVE  Rank(q, places) < Rank(p, places)
  <2>1. q \in First(p) /\ First(q) \in SUBSET (First(p) \ {q})
    BY <1>3, BeforeIsAnOrder
  <2>2. IsFiniteSet(First(p)) /\ Cardinality(First(p)) \in Nat
    BY <1>2, FS_CardinalityType
  <2>3. Cardinality(First(q)) <= Cardinality(First(p)) - 1 /\ Cardinality(First(q)) \in Nat
    <3> HIDE DEF First
    <3>1. IsFiniteSet(First(p) \ {q}) /\ Cardinality(First(p) \ {q}) = Cardinality(First(p)) - 1
      BY <2>1, <2>2, FS_RemoveElement
    <3>2. IsFiniteSet(First(q)) /\ Cardinality(First(q)) <= Cardinality(First(p) \ {q})
      BY <2>1, <3>1, FS_Subset
    <3> QED BY <3>1, <3>2, FS_CardinalityType
  <2> HIDE DEF First
  <2> QED BY <1>2, <2>2, <2>3
<1>0. \A p \in places : Rank(p, places) \in Int
  <2> HIDE DEF First, c
  <2> QED BY <1>1, <1>2
<1>4. ASSUME NEW p \in places, NEW q \in places, Rank(p, places) = Rank(q, places) PROVE p = q
  BY <1>0, <1>3, <1>4, BeforeIsAnOrder
<1>5. ASSUME NEW p \in places, NEW q \in places, Rank(q, places) < Rank(p, places) PROVE Before(q, p)
  BY <1>0, <1>3, <1>5, BeforeIsAnOrder
<1> QED BY <1>2, <1>3, <1>4, <1>5

LEMMA PlacesInOrder ==
  ASSUME NEW places \in SUBSET (Nat \X Nat), IsFiniteSet(places)
  PROVE  LET order == InOrder(places) IN
         /\ Cardinality(places) \in Nat /\ order \in [1..Cardinality(places) -> places]
         /\ \A m, n \in 1..Cardinality(places) : m < n => Before(order[m], order[n])
         /\ \A m, n \in 1..Cardinality(places) : order[m] = order[n] => m = n
         /\ \A p \in places : \E n \in 1..Cardinality(places) : order[n] = p
<1> DEFINE c == Cardinality(places)
           order == InOrder(places)
           f == [p \in places |-> Rank(p, places)]
<1>1. c \in Nat
  BY FS_CardinalityType
<1>2. f \in Injection(places, 0..(c - 1))
  <2>1. f \in [places -> 0..(c - 1)] /\ \A p, q \in places : f[p] = f[q] => p = q
    BY Ranks
  <2> HIDE DEF f, c
  <2> QED BY <2>1 DEF Injection, IsInjective
<1>3. f \in Surjection(places, 0..(c - 1))
  <2> HIDE DEF f, c
  <2>1. IsFiniteSet(0..(c - 1)) /\ Cardinality(0..(c - 1)) = c
    <3>1. c - 1 \in Int /\ (0 > c - 1 <=> c = 0) /\ (c - 1) - 0 + 1 = c
      BY <1>1
    <3> QED BY <3>1, FS_Interval
  <2>2. Cardinality(places) = c
    BY DEF c
  <2> QED BY <1>2, <2>1, <2>2, FS_Injection
<1>4. \A n \in 1..c : \E p \in places : Rank(p, places) = n - 1
  <2>1. \A r \in 0..(c - 1) : \E p \in places : f[p] = r
    <3> HIDE DEF f, c
    <3> QED BY <1>3 DEF Surjection
  <2>2. \A n \in 1..c : n - 1 \in 0..(c - 1)
    BY <1>1
  <2> HIDE DEF c
  <2> QED BY <2>1, <2>2
<1>5. order = [n \in 1..c |-> CHOOSE p \in places : Rank(p, places) = n - 1]
  BY DEF InOrder
<1>6. \A n \in 1..c : order[n] \in places /\ Rank(order[n], places) = n - 1
  <2> HIDE DEF order, c
  <2> QED BY <1>4, <1>5
<1>7. order \in [1..c -> places]
  BY <1>5, <1>6
<1> HIDE DEF order, c, f
<1>8. ASSUME NEW m \in 1..c, NEW n \in 1..c, m < n PROVE Before(order[m], order[n])
  <2>1. Rank(order[m], places) < Rank(order[n], places)
    BY <1>1, <1>6, <1>8
  <2> QED BY <1>6, <2>1, Ranks
<1>9. ASSUME NEW m \in 1..c, NEW n \in 1..c, order[m] = order[n] PROVE m = n
  BY <1>1, <1>6, <1>9
<1>10. ASSUME NEW p \in places PROVE \E n \in 1..c : order[n] = p
  <2>1. Rank(p, places) \in 0..(c - 1)
    BY Ranks DEF c
  <2>2. Rank(p, places) + 1 \in 1..c /\ Rank(order[Rank(p, places) + 1], places) = Rank(p, places)
    BY <1>1, <1>6, <2>1
  <2> QED BY <1>6, <2>2, Ranks
<1> QED BY <1>1, <1>7, <1>8, <1>9, <1>10 DEF order, c

LEMMA FewAreListed ==
  ASSUME NEW places \in SUBSET (Nat \X Nat), IsFiniteSet(places)
  PROVE  LET w == Warning(places) IN
         /\ w.count = Cardinality(places) /\ w.count \in Nat
         /\ w.listed \subseteq places /\ Cardinality(w.listed) <= MaxReportedKeys
<1> DEFINE listed == {p \in places : Rank(p, places) < MaxReportedKeys}
           f == [p \in listed |-> Rank(p, places)]
           M == MaxReportedKeys
<1>1. M \in Nat \ {0} /\ Cardinality(places) \in Nat
  BY BudgetIsPositive, FS_CardinalityType
<1>2. \A p \in places : Rank(p, places) \in 0..(Cardinality(places) - 1)
  BY Ranks
<1>3. \A p \in listed : Rank(p, places) \in 0..(M - 1)
  BY <1>1, <1>2
<1>4. f \in Injection(listed, 0..(M - 1))
  <2>1. f \in [listed -> 0..(M - 1)] /\ \A p, q \in listed : f[p] = f[q] => p = q
    BY <1>3, Ranks
  <2> HIDE DEF f, listed, M
  <2> QED BY <2>1 DEF Injection, IsInjective
<1>5. Cardinality(listed) <= M
  <2> HIDE DEF f, listed, M
  <2>1. IsFiniteSet(0..(M - 1)) /\ Cardinality(0..(M - 1)) = M
    <3>1. M - 1 \in Int /\ ~(0 > M - 1) /\ (M - 1) - 0 + 1 = M
      BY <1>1
    <3> QED BY <3>1, FS_Interval
  <2> QED BY <1>4, <2>1, FS_Injection
<1> QED BY <1>1, <1>5 DEF Warning

(* Running totals. *)
LEMMA TotalsAdd ==
  ASSUME NEW N \in Nat, NEW sizes \in [1..N -> Nat], Len(sizes) = N
  PROVE  LET t == Totals(sizes) IN
         /\ t[0] = 0 /\ \A n \in 1..N : t[n] = t[n - 1] + sizes[n]
         /\ \A n \in 0..N : t[n] \in Nat
<1> DEFINE step == [p \in (1..N) \X Nat |-> p[2] + sizes[p[1]]]
           Is(f) == f = [n \in 0..N |-> IF n = 0 THEN 0 ELSE f[n - 1] + sizes[n]]
<1>1. step \in [(1..N) \X Nat -> Nat] /\ \A n \in 1..N, k \in Nat : step[<<n, k>>] = k + sizes[n]
  OBVIOUS
<1>2. PICK f \in [0..N -> Nat] : Runs(f, 0, step, N)
  <2> HIDE DEF step
  <2>1. step \in [(1..N) \X Nat -> Nat] /\ 0 \in Nat
    BY <1>1
  <2> QED BY <2>1, LoopExists
<1> HIDE DEF step
<1>3. f[0] = 0 /\ \A n \in 1..N : n - 1 \in 0..N /\ f[n] = f[n - 1] + sizes[n]
  <2>1. \A n \in 1..N : n - 1 \in 0..N /\ f[n - 1] \in Nat
    OBVIOUS
  <2> QED BY <1>1, <1>2, <2>1 DEF Runs
<1>4. Is(f)
  <2>1. \A n \in 0..N : f[n] = IF n = 0 THEN 0 ELSE f[n - 1] + sizes[n]
    BY <1>3
  <2> QED BY <1>2, <2>1
<1>5. Totals(sizes) = CHOOSE g : Is(g)
  BY DEF Totals
<1>6. Is(Totals(sizes))
  <2> HIDE DEF Is
  <2> QED BY <1>4, <1>5
<1>7. ASSUME NEW g, Is(g) PROVE g[0] = 0 /\ \A n \in 1..N : g[n] = g[n - 1] + sizes[n]
  BY <1>7
<1> DEFINE t == Totals(sizes)
<1>8. t[0] = 0 /\ \A n \in 1..N : t[n] = t[n - 1] + sizes[n]
  <2> HIDE DEF Is
  <2> QED BY <1>6, <1>7
<1> HIDE DEF t, Is
<1> DEFINE P == {n \in Nat : n <= N => t[n] \in Nat}
<1>9. 0 \in P
  BY <1>8
<1>10. ASSUME NEW n \in P PROVE n + 1 \in P
  <2> SUFFICES ASSUME n + 1 <= N PROVE t[n + 1] \in Nat
    OBVIOUS
  <2>1. n + 1 \in 1..N /\ (n + 1) - 1 = n /\ t[n] \in Nat
    OBVIOUS
  <2> QED BY <1>8, <2>1
<1>11. P = Nat
  <2> HIDE DEF P
  <2> QED BY <1>9, <1>10, ByInduction DEF P
<1>12. \A n \in 0..N : t[n] \in Nat
  BY <1>11, SMTT(20)
<1> QED BY <1>8, <1>12 DEF t

-----------------------------------------------------------------------------
(* The budget.                                                             *)

(* Maps whose places are pairs of numbers, and finitely many. *)
AreMaps(maps) ==
  /\ maps \in Seq(ToSet(maps))
  /\ \A i \in DOMAIN maps :
       /\ IsFiniteSet(DOMAIN maps[i]) /\ DOMAIN maps[i] \subseteq Nat
       /\ \A k \in DOMAIN maps[i] : maps[i][k] \in Nat

LEMMA PlacesArePairs ==
  ASSUME NEW maps, AreMaps(maps)
  PROVE  /\ Places(maps) \in SUBSET (Nat \X Nat) /\ IsFiniteSet(Places(maps))
         /\ \A p \in Places(maps) : Size(maps, p) \in Nat
         /\ \A i, k : <<i, k>> \in Places(maps) <=> i \in DOMAIN maps /\ k \in DOMAIN maps[i]
<1> DEFINE N == Len(maps)
           Of(i) == {<<i, k>> : k \in DOMAIN maps[i]}
           All == {Of(i) : i \in DOMAIN maps}
<1>1. N \in Nat /\ DOMAIN maps = 1..N
  BY LenProperties DEF AreMaps
<1>2. \A i, k : <<i, k>> \in Places(maps) <=> i \in DOMAIN maps /\ k \in DOMAIN maps[i]
  BY DEF Places
<1>3. \A p \in Places(maps) : \E i \in DOMAIN maps : \E k \in DOMAIN maps[i] : p = <<i, k>>
  BY DEF Places
<1>4. Places(maps) \in SUBSET (Nat \X Nat) /\ \A p \in Places(maps) : Size(maps, p) \in Nat
  <2> SUFFICES ASSUME NEW p \in Places(maps) PROVE p \in Nat \X Nat /\ Size(maps, p) \in Nat
    OBVIOUS
  <2>1. PICK i \in DOMAIN maps : \E k \in DOMAIN maps[i] : p = <<i, k>>
    BY <1>3
  <2>2. PICK k \in DOMAIN maps[i] : p = <<i, k>>
    BY <2>1
  <2>3. i \in Nat /\ k \in Nat /\ maps[i][k] \in Nat
    BY <1>1 DEF AreMaps
  <2> QED BY <2>2, <2>3 DEF Size
<1>5. IsFiniteSet(Places(maps))
  <2>1. ASSUME NEW i \in DOMAIN maps PROVE IsFiniteSet(Of(i))
    <3> DEFINE f == [k \in DOMAIN maps[i] |-> <<i, k>>]
    <3>1. f \in Surjection(DOMAIN maps[i], Of(i))
      BY DEF Surjection
    <3>2. IsFiniteSet(DOMAIN maps[i])
      BY DEF AreMaps
    <3> HIDE DEF f, Of
    <3> QED BY <3>1, <3>2, FS_Surjection
  <2>2. IsFiniteSet(All)
    <3> DEFINE f == [i \in 1..N |-> Of(i)]
    <3> HIDE DEF Of
    <3>1. f \in Surjection(1..N, All)
      BY <1>1 DEF Surjection
    <3>2. IsFiniteSet(1..N)
      BY <1>1, FS_Interval
    <3> HIDE DEF f, All, N
    <3> QED BY <3>1, <3>2, FS_Surjection
  <2>3. Places(maps) = UNION All
    BY DEF Places
  <2>4. \A T \in All : IsFiniteSet(T)
    <3> HIDE DEF Of
    <3> QED BY <2>1
  <2> HIDE DEF All
  <2> QED BY <2>2, <2>3, <2>4, FS_UNION
<1> QED BY <1>2, <1>4, <1>5

(* Spend, of what the keys before came to. *)
Budget(places) == [total : Nat, over : SUBSET places]

LEMMA BudgetsRun ==
  ASSUME NEW maps, AreMaps(maps)
  PROVE  LET b == Budgets(maps)
             c == Cardinality(Places(maps))
             order == InOrder(Places(maps))
         IN /\ \A n \in 0..c : b[n] \in Budget(Places(maps))
            /\ b[0] = [total |-> 0, over |-> {}]
            /\ \A n \in 1..c : b[n] = Spend(b[n - 1], order[n], Size(maps, order[n]))
<1> DEFINE places == Places(maps)
           N == Cardinality(places)
           order == InOrder(places)
           S == Budget(places)
           start == [total |-> 0, over |-> {}]
           step == [p \in (1..N) \X S |-> Spend(p[2], order[p[1]], Size(maps, order[p[1]]))]
           Is(f) == f = [n \in 0..N |-> IF n = 0 THEN start ELSE Spend(f[n - 1], order[n], Size(maps, order[n]))]
<1>1. /\ places \in SUBSET (Nat \X Nat) /\ IsFiniteSet(places)
      /\ \A p \in places : Size(maps, p) \in Nat
  BY PlacesArePairs
<1>2. N \in Nat /\ order \in [1..N -> places]
  <2> HIDE DEF places
  <2> QED BY <1>1, PlacesInOrder
<1> HIDE DEF places, N, order
<1>3. ASSUME NEW b \in S, NEW p \in places PROVE Spend(b, p, Size(maps, p)) \in S
  <2>1. b.total \in Nat /\ b.over \in SUBSET places /\ Size(maps, p) \in Nat /\ b.over \cup {p} \in SUBSET places
    BY <1>1 DEF Budget
  <2>2. [b EXCEPT !.over = @ \cup {p}] = [total |-> b.total, over |-> b.over \cup {p}]
    BY DEF Budget
  <2>3. [b EXCEPT !.total = @ + Size(maps, p)] = [total |-> b.total + Size(maps, p), over |-> b.over]
    BY DEF Budget
  <2>4. MaxMetadataBytes + 1 \in Nat
    BY BudgetIsPositive
  <2>5. \A t \in Nat, o \in SUBSET places : [total |-> t, over |-> o] \in S
    BY DEF Budget
  <2> QED BY <2>1, <2>2, <2>3, <2>4, <2>5 DEF Spend
<1>4. start \in S
  BY DEF Budget
<1> HIDE DEF S
<1>5. step \in [(1..N) \X S -> S]
  BY <1>2, <1>3
<1>6. \A n \in 1..N, b \in S : step[<<n, b>>] = Spend(b, order[n], Size(maps, order[n]))
  OBVIOUS
<1> HIDE DEF start, step
<1>7. PICK f \in [0..N -> S] : Runs(f, start, step, N)
  BY <1>2, <1>4, <1>5, LoopExists
<1>8. f[0] = start /\ \A n \in 1..N : n - 1 \in 0..N /\ f[n] = Spend(f[n - 1], order[n], Size(maps, order[n]))
  <2>1. \A n \in 1..N : n - 1 \in 0..N /\ f[n - 1] \in S
    BY <1>2
  <2> QED BY <1>6, <1>7, <2>1 DEF Runs
<1>9. Is(f)
  <2>1. \A n \in 0..N : f[n] = IF n = 0 THEN start ELSE Spend(f[n - 1], order[n], Size(maps, order[n]))
    BY <1>2, <1>8
  <2> QED BY <1>7, <2>1
<1>10. Budgets(maps) = CHOOSE g : Is(g)
  BY DEF Budgets, places, N, order, start
<1>11. Is(Budgets(maps))
  <2> HIDE DEF Is
  <2> QED BY <1>9, <1>10
<1>12. ASSUME NEW g, Is(g) PROVE g[0] = start /\ \A n \in 1..N : g[n] = Spend(g[n - 1], order[n], Size(maps, order[n]))
  BY <1>2, <1>12
<1> DEFINE b == Budgets(maps)
<1>13. b[0] = start /\ \A n \in 1..N : b[n] = Spend(b[n - 1], order[n], Size(maps, order[n]))
  <2> HIDE DEF Is
  <2> QED BY <1>11, <1>12
<1> HIDE DEF b, Is
<1> DEFINE P == {n \in Nat : n <= N => b[n] \in S}
<1>14. 0 \in P
  BY <1>4, <1>13
<1>15. ASSUME NEW n \in P PROVE n + 1 \in P
  <2> SUFFICES ASSUME n + 1 <= N PROVE b[n + 1] \in S
    OBVIOUS
  <2>1. n + 1 \in 1..N /\ (n + 1) - 1 = n /\ b[n] \in S
    BY <1>2
  <2>2. b[n + 1] = Spend(b[n], order[n + 1], Size(maps, order[n + 1])) /\ order[n + 1] \in places
    BY <1>2, <1>13, <2>1
  <2> QED BY <1>3, <2>1, <2>2
<1>16. P = Nat
  <2> HIDE DEF P
  <2> QED BY <1>14, <1>15, ByInduction DEF P
<1>17. \A n \in 0..N : b[n] \in S
  BY <1>2, <1>16
<1> QED BY <1>13, <1>17 DEF b, places, N, order, start, S

(* Every key up to the first that does not fit is kept, and none from      *)
(* there: the total is what the keys came to, or past the budget.          *)
LEMMA BudgetCloses ==
  ASSUME NEW maps, AreMaps(maps), \A p \in Places(maps) : Size(maps, p) > 0,
         NEW spent, LET order == InOrder(Places(maps)) IN
           /\ spent[0] = 0
           /\ \A n \in 1..Cardinality(Places(maps)) : spent[n] = spent[n - 1] + Size(maps, order[n])
           /\ \A n \in 0..Cardinality(Places(maps)) : spent[n] \in Nat
  PROVE  LET c == Cardinality(Places(maps))
             over == Budgets(maps)[c].over
         IN /\ over \subseteq Places(maps)
            /\ \A n \in 1..c : InOrder(Places(maps))[n] \in over <=> spent[n] > MaxMetadataBytes
<1> DEFINE places == Places(maps)
           N == Cardinality(places)
           order == InOrder(places)
           b == Budgets(maps)
           Cap == MaxMetadataBytes
<1>1. /\ N \in Nat /\ order \in [1..N -> places]
      /\ \A m, n \in 1..N : order[m] = order[n] => m = n
  BY PlacesArePairs, PlacesInOrder
<1>2. /\ \A n \in 0..N : b[n] \in Budget(places)
      /\ b[0] = [total |-> 0, over |-> {}]
      /\ \A n \in 1..N : b[n] = Spend(b[n - 1], order[n], Size(maps, order[n]))
  BY BudgetsRun
<1>3. \A p \in places : Size(maps, p) \in Nat /\ Size(maps, p) > 0
  BY PlacesArePairs
<1>4. /\ spent[0] = 0
      /\ \A n \in 1..N : spent[n] = spent[n - 1] + Size(maps, order[n])
      /\ \A n \in 0..N : spent[n] \in Nat
  OBVIOUS
<1>5. Cap \in Nat \ {0}
  BY BudgetIsPositive
<1> HIDE DEF places, N, order, b, Cap
<1> DEFINE Good(n) == /\ b[n].total = IF spent[n] <= Cap THEN spent[n] ELSE Cap + 1
                      /\ \A j \in 1..N : order[j] \in b[n].over <=> j <= n /\ spent[j] > Cap
           P == {n \in Nat : n <= N => Good(n)}
<1>6. 0 \in P
  BY <1>1, <1>2, <1>4, <1>5
<1>7. ASSUME NEW n \in P PROVE n + 1 \in P
  <2> SUFFICES ASSUME n + 1 <= N PROVE Good(n + 1)
    OBVIOUS
  <2> DEFINE place == order[n + 1]
             size == Size(maps, place)
             at == b[n]
             next == b[n + 1]
  <2>1. n \in 0..N /\ n + 1 \in 1..N /\ (n + 1) - 1 = n /\ n + 1 \in 0..N
    BY <1>1
  <2>2. place \in places /\ size \in Nat /\ size > 0 /\ spent[n] \in Nat /\ spent[n + 1] = spent[n] + size
    BY <1>1, <1>3, <1>4, <2>1
  <2>3. next = Spend(at, place, size) /\ at \in Budget(places)
    BY <1>2, <2>1
  <2>4. /\ at.total = IF spent[n] <= Cap THEN spent[n] ELSE Cap + 1
        /\ \A j \in 1..N : order[j] \in at.over <=> j <= n /\ spent[j] > Cap
    BY <2>1
  <2>5. \A j \in 1..N : (order[j] = place <=> j = n + 1) /\ (j <= n + 1 <=> j <= n \/ j = n + 1)
    BY <1>1, <2>1
  <2> HIDE DEF Good, P, at, next, place, size
  <2>6. CASE spent[n + 1] > Cap
    <3>1. next.total = Cap + 1 /\ next.over = at.over \cup {place}
      <4>1. CASE spent[n] <= Cap
        <5>1. at.total = spent[n] /\ ~(at.total > Cap) /\ at.total + size > Cap
          BY <1>5, <2>2, <2>4, <2>6, <4>1
        <5>2. next = [total |-> Cap + 1, over |-> at.over \cup {place}]
          BY <2>3, <5>1 DEF Spend, Cap
        <5> QED BY <5>2
      <4>2. CASE spent[n] > Cap
        <5>1. at.total = Cap + 1 /\ at.total > Cap
          BY <1>5, <2>2, <2>4, <4>2
        <5>2. next = [at EXCEPT !.over = @ \cup {place}]
          BY <2>3, <5>1 DEF Spend, Cap
        <5> QED BY <2>3, <5>1, <5>2 DEF Budget
      <4> QED BY <1>5, <2>2, <4>1, <4>2
    <3>2. \A j \in 1..N : order[j] \in next.over <=> j <= n + 1 /\ spent[j] > Cap
      BY <2>4, <2>5, <2>6, <3>1
    <3> QED BY <1>5, <2>2, <2>6, <3>1, <3>2 DEF Good, next
  <2>7. CASE spent[n + 1] <= Cap
    <3>1. at.total = spent[n] /\ ~(at.total > Cap) /\ ~(at.total + size > Cap)
      BY <1>5, <2>2, <2>4, <2>7
    <3>2. next = [at EXCEPT !.total = @ + size]
      BY <2>3, <3>1 DEF Spend, Cap
    <3>3. next.total = spent[n + 1] /\ next.over = at.over
      BY <2>2, <2>3, <3>1, <3>2 DEF Budget
    <3>4. ~(spent[n + 1] > Cap)
      BY <1>5, <2>2, <2>7
    <3>5. \A j \in 1..N : order[j] \in next.over <=> j <= n + 1 /\ spent[j] > Cap
      BY <2>4, <2>5, <3>3, <3>4
    <3> QED BY <2>7, <3>3, <3>5 DEF Good, next
  <2> QED BY <1>5, <2>2, <2>6, <2>7
<1>8. P = Nat
  <2> HIDE DEF P
  <2> QED BY <1>6, <1>7, ByInduction DEF P
<1>9. Good(N)
  BY <1>1, <1>8
<1>10. b[N].over \subseteq places
  BY <1>1, <1>2 DEF Budget
<1>11. \A n \in 1..N : order[n] \in b[N].over <=> spent[n] > Cap
  BY <1>1, <1>9
<1> QED BY <1>10, <1>11 DEF places, N, order, b, Cap

LEMMA AFunctionIsASeq ==
  ASSUME NEW n \in Nat, NEW S, NEW f \in [1..n -> S]
  PROVE  f \in Seq(S) /\ Len(f) = n
<1>1. f \in Seq(S)
  BY SeqDef
<1>2. Len(f) \in Nat /\ DOMAIN f = 1..Len(f) /\ DOMAIN f = 1..n
  BY <1>1, LenProperties
<1> QED BY <1>1, <1>2

LEMMA DisjointCount ==
  ASSUME NEW S, IsFiniteSet(S), NEW T, IsFiniteSet(T), S \cap T = {}
  PROVE  Cardinality(S \cup T) = Cardinality(S) + Cardinality(T)
<1>1. Cardinality(S) \in Nat /\ Cardinality(T) \in Nat /\ Cardinality(S \cap T) = 0
  BY FS_CardinalityType, FS_EmptySet
<1>2. Cardinality(S \cup T) = Cardinality(S) + Cardinality(T) - Cardinality(S \cap T)
  BY FS_Union
<1> QED BY <1>1, <1>2

Encoded(maps) == [i \in DOMAIN maps |-> EncodeMetadata(maps[i], i).encoded]
Failures(maps) == [i \in DOMAIN maps |-> EncodeMetadata(maps[i], i).warning]
Counted(warnings) == Totals([n \in DOMAIN warnings |-> warnings[n].count])[Len(warnings)]
Unencoded(maps) == {p \in Places(maps) : Size(maps, p) = 0}

LEMMA EncodedMaps ==
  ASSUME NEW maps, AreMaps(maps)
  PROVE  LET e == Encoded(maps) IN
         /\ AreMaps(e) /\ DOMAIN e = DOMAIN maps
         /\ Places(e) = {p \in Places(maps) : Size(maps, p) > 0}
         /\ \A p \in Places(e) : Size(e, p) = Size(maps, p) /\ Size(e, p) > 0
         /\ Places(maps) = Places(e) \cup Unencoded(maps) /\ Places(e) \cap Unencoded(maps) = {}
<1> DEFINE e == Encoded(maps)
           N == Len(maps)
<1>1. N \in Nat /\ DOMAIN maps = 1..N
  BY LenProperties DEF AreMaps
<1>2. DOMAIN e = DOMAIN maps
  BY DEF Encoded
<1>3. \A i \in DOMAIN maps : e[i] = [k \in {key \in DOMAIN maps[i] : maps[i][key] > 0} |-> maps[i][k]]
  BY DEF Encoded, EncodeMetadata
<1> HIDE DEF e
<1>4. \A i \in DOMAIN maps : /\ DOMAIN e[i] = {key \in DOMAIN maps[i] : maps[i][key] > 0}
                             /\ \A k \in DOMAIN e[i] : e[i][k] = maps[i][k]
  BY <1>3
<1>5. AreMaps(e)
  <2>1. e \in Seq(ToSet(e))
    <3>1. e \in [1..N -> ToSet(e)]
      <4>1. e = [i \in 1..N |-> e[i]]
        BY <1>1, <1>2 DEF e, Encoded
      <4>2. \A i \in 1..N : e[i] \in ToSet(e)
        BY <1>1, <1>2 DEF ToSet
      <4> QED BY <4>1, <4>2
    <3> QED BY <1>1, <3>1, AFunctionIsASeq
  <2>2. ASSUME NEW i \in DOMAIN e
        PROVE  /\ IsFiniteSet(DOMAIN e[i]) /\ DOMAIN e[i] \subseteq Nat
               /\ \A k \in DOMAIN e[i] : e[i][k] \in Nat
    <3>1. IsFiniteSet(DOMAIN maps[i]) /\ DOMAIN maps[i] \subseteq Nat /\ \A k \in DOMAIN maps[i] : maps[i][k] \in Nat
      BY <1>2 DEF AreMaps
    <3>2. DOMAIN e[i] \in SUBSET (DOMAIN maps[i])
      BY <1>2, <1>4
    <3>3. IsFiniteSet(DOMAIN e[i])
      BY <3>1, <3>2, FS_Subset
    <3> QED BY <1>2, <1>4, <3>1, <3>2, <3>3
  <2> QED BY <2>1, <2>2 DEF AreMaps
<1>6. /\ Places(maps) \in SUBSET (Nat \X Nat) /\ \A p \in Places(maps) : Size(maps, p) \in Nat
      /\ \A i, k : <<i, k>> \in Places(maps) <=> i \in DOMAIN maps /\ k \in DOMAIN maps[i]
  BY PlacesArePairs
<1>7. /\ Places(e) \in SUBSET (Nat \X Nat)
      /\ \A i, k : <<i, k>> \in Places(e) <=> i \in DOMAIN e /\ k \in DOMAIN e[i]
  BY <1>5, PlacesArePairs
<1>8. ASSUME NEW p \in Nat \X Nat
      PROVE  p \in Places(e) <=> p \in Places(maps) /\ Size(maps, p) > 0
  <2>1. PICK i \in Nat, k \in Nat : p = <<i, k>>
    OBVIOUS
  <2>2. Size(maps, p) = maps[i][k]
    BY <2>1 DEF Size
  <2> QED BY <1>2, <1>4, <1>6, <1>7, <2>1, <2>2
<1>9. ASSUME NEW p \in Places(e) PROVE Size(e, p) = Size(maps, p)
  <2>1. PICK i \in Nat, k \in Nat : p = <<i, k>>
    BY <1>7
  <2>2. Size(maps, p) = maps[i][k] /\ Size(e, p) = e[i][k]
    BY <2>1 DEF Size
  <2>3. i \in DOMAIN maps /\ k \in DOMAIN e[i]
    BY <1>2, <1>7, <2>1
  <2> QED BY <1>4, <2>2, <2>3
<1>10. Places(e) = {p \in Places(maps) : Size(maps, p) > 0}
  BY <1>6, <1>7, <1>8
<1>11. Places(maps) = Places(e) \cup Unencoded(maps) /\ Places(e) \cap Unencoded(maps) = {}
  BY <1>6, <1>10 DEF Unencoded
<1> QED BY <1>2, <1>5, <1>9, <1>10, <1>11 DEF e

LEMMA WithinBudget ==
  ASSUME NEW maps, AreMaps(maps)
  PROVE  LET within == EnforceMetadataBudget(maps)
             over == Budgets(maps)[Cardinality(Places(maps))].over
         IN /\ within.warning = Warning(over)
            /\ Places(within.maps) = Places(maps) \ over
            /\ \A p \in Places(within.maps) : Size(within.maps, p) = Size(maps, p)
<1> DEFINE over == Budgets(maps)[Cardinality(Places(maps))].over
           kept == EnforceMetadataBudget(maps).maps
<1>1. /\ EnforceMetadataBudget(maps).warning = Warning(over)
      /\ kept = [i \in DOMAIN maps |-> [k \in {key \in DOMAIN maps[i] : <<i, key>> \notin over} |-> maps[i][k]]]
  BY DEF EnforceMetadataBudget
<1> HIDE DEF over, kept
<1>2. DOMAIN kept = DOMAIN maps
  BY <1>1
<1>3. \A i \in DOMAIN maps : /\ DOMAIN kept[i] = {key \in DOMAIN maps[i] : <<i, key>> \notin over}
                             /\ \A k \in DOMAIN kept[i] : kept[i][k] = maps[i][k]
  BY <1>1
<1>4. \A p : p \in Places(kept) <=> \E i \in DOMAIN kept : \E k \in DOMAIN kept[i] : p = <<i, k>>
  BY DEF Places
<1>5. \A p : p \in Places(maps) <=> \E i \in DOMAIN maps : \E k \in DOMAIN maps[i] : p = <<i, k>>
  BY DEF Places
<1>6. ASSUME NEW p PROVE p \in Places(kept) <=> p \in Places(maps) /\ p \notin over
  BY <1>2, <1>3, <1>4, <1>5
<1>7. ASSUME NEW p \in Places(kept) PROVE Size(kept, p) = Size(maps, p)
  <2>1. PICK i \in DOMAIN kept : \E k \in DOMAIN kept[i] : p = <<i, k>>
    BY <1>4
  <2>2. PICK k \in DOMAIN kept[i] : p = <<i, k>>
    BY <2>1
  <2>3. Size(kept, p) = kept[i][k] /\ Size(maps, p) = maps[i][k]
    BY <2>2 DEF Size
  <2> QED BY <1>2, <1>3, <2>3
<1> QED BY <1>1, <1>6, <1>7 DEF over, kept

(* The warnings of what could not be encoded, map by map. *)
LEMMA Warned ==
  ASSUME NEW maps, AreMaps(maps), NEW over \in SUBSET Places(Encoded(maps)), NEW warnings,
         warnings = Append(Failures(maps), Warning(over))
  PROVE  /\ DOMAIN warnings = 1..(Len(maps) + 1) /\ Len(warnings) = Len(maps) + 1
         /\ \A n \in DOMAIN warnings :
              /\ warnings[n].count \in Nat /\ Cardinality(warnings[n].listed) <= MaxReportedKeys
              /\ warnings[n].listed \subseteq Unencoded(maps) \cup over
         /\ Counted(warnings) = Cardinality(Unencoded(maps)) + Cardinality(over)
<1> DEFINE N == Len(maps)
           places == Places(maps)
           Dropped(i) == {<<i, k>> : k \in {key \in DOMAIN maps[i] : maps[i][key] = 0}}
           first == Failures(maps)
           counts == [n \in DOMAIN warnings |-> warnings[n].count]
           UpTo(n) == {p \in Unencoded(maps) : p[1] <= n}
           t == Totals(counts)
<1>1. N \in Nat /\ DOMAIN maps = 1..N
  BY LenProperties DEF AreMaps
<1>2. /\ places \in SUBSET (Nat \X Nat) /\ IsFiniteSet(places)
      /\ \A i, k : <<i, k>> \in places <=> i \in DOMAIN maps /\ k \in DOMAIN maps[i]
  BY PlacesArePairs
<1>3. first \in [1..N -> ToSet(first)] /\ \A i \in 1..N : first[i] = Warning(Dropped(i))
  BY <1>1 DEF Failures, EncodeMetadata, ToSet
<1>4. /\ DOMAIN warnings = 1..(N + 1) /\ Len(warnings) = N + 1
      /\ \A i \in 1..N : warnings[i] = Warning(Dropped(i))
      /\ warnings[N + 1] = Warning(over)
  <2> DEFINE T == ToSet(first) \cup {Warning(over)}
  <2> HIDE DEF first
  <2>1. first \in [1..N -> T]
    BY <1>3
  <2>2. first \in Seq(T) /\ Len(first) = N /\ Warning(over) \in T
    <3> HIDE DEF T, N
    <3>1. first \in Seq(T) /\ Len(first) = N
      BY <1>1, <2>1, AFunctionIsASeq
    <3> QED BY <3>1 DEF T
  <2> HIDE DEF T, N
  <2>3. warnings = Append(first, Warning(over))
    BY DEF first
  <2>4. warnings \in Seq(T) /\ Len(warnings) = N + 1 /\ warnings[N + 1] = Warning(over)
        /\ \A i \in 1..N : warnings[i] = first[i]
    BY <1>1, <2>2, <2>3, AppendProperties
  <2>5. DOMAIN warnings = 1..(N + 1)
    BY <2>4, LenProperties
  <2> QED BY <1>3, <2>4, <2>5
<1>5. \A p \in places : p = <<p[1], p[2]>> /\ p[1] \in Nat
  BY <1>2
<1>6. ASSUME NEW i \in 1..N PROVE Dropped(i) = {p \in Unencoded(maps) : p[1] = i}
  <2>1. ASSUME NEW p \in Dropped(i) PROVE p \in Unencoded(maps) /\ p[1] = i
    <3>1. PICK k \in DOMAIN maps[i] : p = <<i, k>> /\ maps[i][k] = 0
      OBVIOUS
    <3>2. p \in places /\ Size(maps, p) = 0
      BY <1>1, <1>2, <3>1 DEF Size
    <3> QED BY <3>1, <3>2 DEF Unencoded
  <2>2. ASSUME NEW p \in Unencoded(maps), p[1] = i PROVE p \in Dropped(i)
    <3>1. p \in places /\ maps[i][p[2]] = 0 /\ p = <<i, p[2]>>
      BY <1>5, <2>2 DEF Unencoded, Size
    <3>2. p[2] \in DOMAIN maps[i]
      BY <1>2, <3>1
    <3> QED BY <3>1, <3>2
  <2> HIDE DEF Dropped
  <2> QED BY <2>1, <2>2
<1>7. Unencoded(maps) \in SUBSET places /\ over \in SUBSET places
  <2>1. Places(Encoded(maps)) \in SUBSET places
    BY EncodedMaps
  <2> QED BY <2>1 DEF Unencoded
<1> HIDE DEF N, places, Dropped, first, counts
<1>8. \A S \in SUBSET places : S \in SUBSET (Nat \X Nat) /\ IsFiniteSet(S)
  BY <1>2, FS_Subset
<1>9. \A S \in SUBSET places :
        /\ Warning(S).count = Cardinality(S) /\ Warning(S).count \in Nat
        /\ Warning(S).listed \subseteq S /\ Cardinality(Warning(S).listed) <= MaxReportedKeys
  BY <1>8, FewAreListed
<1>10. \A i \in 1..N : Dropped(i) \in SUBSET places /\ Dropped(i) \in SUBSET Unencoded(maps)
  BY <1>6, <1>7
<1>11. ASSUME NEW n \in 1..(N + 1)
       PROVE  /\ warnings[n].count \in Nat /\ Cardinality(warnings[n].listed) <= MaxReportedKeys
              /\ warnings[n].listed \subseteq Unencoded(maps) \cup over
              /\ warnings[n].count = Cardinality(IF n = N + 1 THEN over ELSE Dropped(n))
  <2>1. CASE n = N + 1
    BY <1>4, <1>7, <1>9, <2>1
  <2>2. CASE n \in 1..N
    <3>1. n # N + 1
      BY <1>1, <2>2
    <3>2. warnings[n] = Warning(Dropped(n)) /\ Dropped(n) \in SUBSET places /\ Dropped(n) \in SUBSET Unencoded(maps)
      BY <1>4, <1>10, <2>2
    <3> QED BY <1>9, <3>1, <3>2
  <2>3. n = N + 1 \/ n \in 1..N
    BY <1>1
  <2> QED BY <2>1, <2>2, <2>3
<1>12. /\ t[0] = 0 /\ \A n \in 1..(N + 1) : t[n] = t[n - 1] + warnings[n].count
  <2>1. counts \in [1..(N + 1) -> Nat] /\ \A n \in 1..(N + 1) : counts[n] = warnings[n].count
    BY <1>4, <1>11 DEF counts
  <2>2. N + 1 \in Nat
    BY <1>1
  <2>3. Len(counts) = N + 1
    BY <2>1, <2>2, AFunctionIsASeq
  <2> QED BY <2>1, <2>2, <2>3, TotalsAdd
<1> HIDE DEF t, UpTo
<1> DEFINE P == {n \in Nat : n <= N => t[n] = Cardinality(UpTo(n))}
<1>13. 0 \in P
  <2>1. UpTo(0) = {}
    <3>1. \A p \in Unencoded(maps) : p[1] \in 1..N
      BY <1>1, <1>2, <1>5, <1>7
    <3> QED BY <3>1 DEF UpTo
  <2> QED BY <1>12, <2>1, FS_EmptySet
<1>14. ASSUME NEW n \in P PROVE n + 1 \in P
  <2> SUFFICES ASSUME n + 1 <= N PROVE t[n + 1] = Cardinality(UpTo(n + 1))
    OBVIOUS
  <2>1. n + 1 \in 1..N /\ n + 1 \in 1..(N + 1) /\ (n + 1) - 1 = n /\ n + 1 # N + 1 /\ n \in Nat
    BY <1>1
  <2>2. t[n + 1] = Cardinality(UpTo(n)) + Cardinality(Dropped(n + 1))
    <3>1. t[n] = Cardinality(UpTo(n))
      BY <1>1, <2>1
    <3> QED BY <1>11, <1>12, <2>1, <3>1
  <2>3. UpTo(n + 1) = UpTo(n) \cup Dropped(n + 1) /\ UpTo(n) \cap Dropped(n + 1) = {}
    <3>1. \A p \in Unencoded(maps) : p[1] \in Nat
      BY <1>5, <1>7
    <3>2. Dropped(n + 1) = {p \in Unencoded(maps) : p[1] = n + 1}
      BY <1>6, <2>1
    <3> QED BY <2>1, <3>1, <3>2 DEF UpTo
  <2>4. UpTo(n) \in SUBSET places /\ Dropped(n + 1) \in SUBSET places
    BY <1>7, <1>10, <2>1 DEF UpTo
  <2> HIDE DEF P
  <2>5. IsFiniteSet(UpTo(n)) /\ IsFiniteSet(Dropped(n + 1))
    BY <1>8, <2>4
  <2>6. Cardinality(UpTo(n + 1)) = Cardinality(UpTo(n)) + Cardinality(Dropped(n + 1))
    BY <2>3, <2>5, DisjointCount
  <2> QED BY <2>2, <2>6
<1>15. P = Nat
  <2> HIDE DEF P
  <2> QED BY <1>13, <1>14, ByInduction DEF P
<1>16. t[N] = Cardinality(Unencoded(maps))
  <2>1. UpTo(N) = Unencoded(maps)
    <3>1. \A p \in Unencoded(maps) : p[1] \in 1..N
      BY <1>1, <1>2, <1>5, <1>7
    <3> QED BY <1>1, <3>1 DEF UpTo
  <2>2. t[N] = Cardinality(UpTo(N))
    BY <1>1, <1>15
  <2> QED BY <2>1, <2>2
<1>17. t[N + 1] = Cardinality(Unencoded(maps)) + Cardinality(over)
  <2>1. N + 1 \in 1..(N + 1) /\ (N + 1) - 1 = N
    BY <1>1
  <2> QED BY <1>11, <1>12, <1>16, <2>1
<1> QED BY <1>4, <1>11, <1>17 DEF N, t, counts, Counted

LEMMA EveryKeyIsAccounted ==
  ASSUME NEW maps \in MetadataMaps
  PROVE  Accounted(maps)
<1> DEFINE e == Encoded(maps)
           sent == Sent(maps)
           encode == {p \in Places(maps) : Size(maps, p) > 0}
           order == InOrder(encode)
           c == Cardinality(encode)
           sizes == [n \in DOMAIN order |-> Size(maps, order[n])]
           spent == Totals(sizes)
           counted == Totals([n \in DOMAIN sent.warnings |-> sent.warnings[n].count])
           dropped == Places(maps) \ Places(sent.maps)
           over == Budgets(e)[Cardinality(Places(e))].over
<1>1. AreMaps(maps)
  BY MetadataAssumption DEF AreMaps, IsSeq
<1>2. /\ AreMaps(e) /\ Places(e) = encode
      /\ \A p \in encode : Size(e, p) = Size(maps, p) /\ Size(e, p) > 0
      /\ Places(maps) = encode \cup Unencoded(maps) /\ encode \cap Unencoded(maps) = {}
  <2> HIDE DEF e, encode
  <2> QED BY <1>1, EncodedMaps DEF e, encode
<1>3. /\ sent.maps = EnforceMetadataBudget(e).maps
      /\ sent.warnings = Append([i \in DOMAIN maps |-> EncodeMetadata(maps[i], i).warning],
                                EnforceMetadataBudget(e).warning)
  <2>1. [i \in DOMAIN maps |-> [j \in DOMAIN maps |-> EncodeMetadata(maps[j], j)][i].encoded] = e
    BY DEF Encoded
  <2>2. [i \in DOMAIN maps |-> [j \in DOMAIN maps |-> EncodeMetadata(maps[j], j)][i].warning]
        = [i \in DOMAIN maps |-> EncodeMetadata(maps[i], i).warning]
    OBVIOUS
  <2> HIDE DEF e
  <2> QED BY <2>1, <2>2 DEF Sent
<1>4. /\ EnforceMetadataBudget(e).warning = Warning(over)
      /\ Places(sent.maps) = encode \ over
      /\ \A p \in Places(sent.maps) : Size(sent.maps, p) = Size(e, p)
  <2> HIDE DEF e, encode, sent
  <2> QED BY <1>2, <1>3, WithinBudget
<1> HIDE DEF e, sent, encode, over
<1>5. encode \in SUBSET (Nat \X Nat) /\ IsFiniteSet(encode)
      /\ \A p \in encode : Size(maps, p) \in Nat
  BY <1>2, PlacesArePairs
<1>6. /\ c \in Nat /\ order \in [1..c -> encode]
      /\ \A m, n \in 1..c : m < n => Before(order[m], order[n])
      /\ \A p \in encode : \E n \in 1..c : order[n] = p
  BY <1>5, PlacesInOrder
<1> HIDE DEF c, order
<1>7. sizes \in [1..c -> Nat] /\ \A n \in 1..c : sizes[n] = Size(e, order[n])
  BY <1>2, <1>5, <1>6
<1>8. /\ spent[0] = 0 /\ \A n \in 1..c : spent[n] = spent[n - 1] + Size(e, order[n])
      /\ \A n \in 0..c : spent[n] \in Nat
  <2> HIDE DEF sizes
  <2>1. Len(sizes) = c
    BY <1>6, <1>7, AFunctionIsASeq
  <2>2. /\ spent[0] = 0 /\ \A n \in 1..c : spent[n] = spent[n - 1] + sizes[n]
        /\ \A n \in 0..c : spent[n] \in Nat
    BY <1>6, <1>7, <2>1, TotalsAdd
  <2> HIDE DEF spent
  <2> QED BY <1>7, <2>2
<1> HIDE DEF sizes, spent
<1>9. over \subseteq encode /\ \A n \in 1..c : order[n] \in over <=> spent[n] > MaxMetadataBytes
  BY <1>2, <1>8, BudgetCloses DEF over, c, order
<1>10. \A n \in DOMAIN order : order[n] \in Places(sent.maps) <=> spent[n] <= MaxMetadataBytes
  <2>1. MaxMetadataBytes \in Nat /\ \A n \in 1..c : n \in 0..c
    BY <1>6, BudgetIsPositive
  <2>2. \A n \in 1..c : spent[n] > MaxMetadataBytes <=> ~(spent[n] <= MaxMetadataBytes)
    BY <1>8, <2>1
  <2> QED BY <1>4, <1>6, <1>9, <2>2
<1>11. ToSet(order) = encode /\ \A m, n \in DOMAIN order : m < n => Before(order[m], order[n])
  BY <1>6 DEF ToSet
<1>12. dropped = Unencoded(maps) \cup over /\ Unencoded(maps) \cap over = {}
  BY <1>2, <1>4, <1>9
<1>13. /\ \A n \in DOMAIN sent.warnings :
            /\ Cardinality(sent.warnings[n].listed) <= MaxReportedKeys
            /\ sent.warnings[n].listed \subseteq Unencoded(maps) \cup over
       /\ counted[Len(sent.warnings)] = Cardinality(Unencoded(maps)) + Cardinality(over)
  <2>1. over \in SUBSET Places(Encoded(maps))
    BY <1>2, <1>9 DEF e
  <2> DEFINE w == sent.warnings
  <2>2. w = Append(Failures(maps), Warning(over))
    BY <1>3, <1>4 DEF Failures
  <2> HIDE DEF w
  <2>3. /\ \A n \in DOMAIN w :
             /\ Cardinality(w[n].listed) <= MaxReportedKeys
             /\ w[n].listed \subseteq Unencoded(maps) \cup over
        /\ Counted(w) = Cardinality(Unencoded(maps)) + Cardinality(over)
    BY <1>1, <2>1, <2>2, Warned
  <2> QED BY <2>3 DEF w, Counted
<1> HIDE DEF dropped, counted
<1>14. counted[Len(sent.warnings)] = Cardinality(dropped)
  <2>1. Unencoded(maps) \in SUBSET Places(maps) /\ over \in SUBSET Places(maps) /\ IsFiniteSet(Places(maps))
    BY <1>1, <1>2, <1>9, PlacesArePairs
  <2>2. IsFiniteSet(Unencoded(maps)) /\ IsFiniteSet(over)
    BY <2>1, FS_Subset
  <2>3. Cardinality(dropped) = Cardinality(Unencoded(maps)) + Cardinality(over)
    BY <1>12, <2>2, DisjointCount
  <2> QED BY <1>13, <2>3
<1>15. \A p \in Places(sent.maps) : Size(sent.maps, p) = Size(maps, p)
  BY <1>2, <1>4
<1>16. Places(sent.maps) \subseteq encode
  BY <1>4
<1> QED BY <1>10, <1>11, <1>12, <1>13, <1>14, <1>15, <1>16
        DEF Accounted, sent, encode, order, sizes, spent, counted, dropped

-----------------------------------------------------------------------------
(* The canonical ABI of the types of the calls.                            *)

UpToField(fields, f, k) == f = [n \in 0..k |-> IF n = 0 THEN Unit ELSE With(f[n - 1], fields[n])]

Rounded(all) == [all EXCEPT !.size = AlignUp(all.size, all.align)]

(* The layout of a record is that of its fields one behind the other. *)
LEMMA FieldByField ==
  ASSUME NEW fields, Len(fields) \in Nat
  PROVE  \E f : /\ f[0] = Unit /\ \A n \in 1..Len(fields) : f[n] = With(f[n - 1], fields[n])
                /\ RecordOf(fields) = Rounded(f[Len(fields)])
<1> DEFINE N == Len(fields)
           P == {k \in Nat : \E f : UpToField(fields, f, k)}
<1>1. 0 \in P
  <2> DEFINE f == [n \in 0..0 |-> Unit]
  <2>1. f = [n \in 0..0 |-> IF n = 0 THEN Unit ELSE With(f[n - 1], fields[n])]
    OBVIOUS
  <2> HIDE DEF f
  <2>2. UpToField(fields, f, 0)
    BY <2>1 DEF UpToField
  <2> QED BY <2>2
<1>2. ASSUME NEW k \in P PROVE k + 1 \in P
  <2>1. PICK f : UpToField(fields, f, k)
    OBVIOUS
  <2> DEFINE last == With(f[k], fields[k + 1])
             g == [n \in 0..(k + 1) |-> IF n = k + 1 THEN last ELSE f[n]]
  <2>2. \A n \in 0..k : f[n] = IF n = 0 THEN Unit ELSE With(f[n - 1], fields[n])
    BY <2>1 DEF UpToField
  <2> HIDE DEF last
  <2>3. g[k + 1] = last /\ \A n \in 0..k : g[n] = f[n]
    OBVIOUS
  <2>4. \A n \in 0..(k + 1) : g[n] = IF n = 0 THEN Unit ELSE With(g[n - 1], fields[n])
    <3> TAKE n \in 0..(k + 1)
    <3> HIDE DEF g
    <3>1. CASE n = k + 1
      <4>1. n - 1 = k /\ k \in 0..k /\ n # 0
        BY <3>1
      <4> QED BY <2>3, <3>1, <4>1 DEF last
    <3>2. CASE n \in 0..k
      <4>1. n = 0 \/ n - 1 \in 0..k
        BY <3>2
      <4> QED BY <2>2, <2>3, <3>2, <4>1
    <3> QED BY <3>1, <3>2
  <2>5. g = [n \in 0..(k + 1) |-> IF n = 0 THEN Unit ELSE With(g[n - 1], fields[n])]
    <3>1. g = [n \in 0..(k + 1) |-> g[n]]
      OBVIOUS
    <3> HIDE DEF g
    <3> QED BY <2>4, <3>1
  <2> HIDE DEF g
  <2>6. UpToField(fields, g, k + 1)
    BY <2>5 DEF UpToField
  <2> QED BY <2>6
<1>3. P = Nat
  <2> HIDE DEF P
  <2> QED BY <1>1, <1>2, ByInduction DEF P
<1>4. \E f : UpToField(fields, f, N)
  BY <1>3
<1> DEFINE upTo == CHOOSE f : UpToField(fields, f, N)
<1>5. UpToField(fields, upTo, N)
  BY <1>4
<1>6. RecordOf(fields) = Rounded(upTo[N])
  BY DEF RecordOf, Rounded, UpToField
<1> HIDE DEF upTo
<1>7. upTo[0] = Unit /\ \A n \in 1..N : upTo[n] = With(upTo[n - 1], fields[n])
  BY <1>5 DEF UpToField
<1> QED BY <1>6, <1>7

Layout(size, align, cells) == [size |-> size, align |-> align, cells |-> cells]

LEMMA Records ==
  /\ \A a, b : RecordOf(<<a, b>>) = Rounded(With(With(Unit, a), b))
  /\ \A a, b, c : RecordOf(<<a, b, c>>) = Rounded(With(With(With(Unit, a), b), c))
  /\ \A a, b, c, d : RecordOf(<<a, b, c, d>>) = Rounded(With(With(With(With(Unit, a), b), c), d))
  /\ \A a, b, c, d, e : RecordOf(<<a, b, c, d, e>>) = Rounded(With(With(With(With(With(Unit, a), b), c), d), e))
<1>1. ASSUME NEW a, NEW b
      PROVE  RecordOf(<<a, b>>) = Rounded(With(With(Unit, a), b))
  <2>1. PICK fields : fields = <<a, b>>
    OBVIOUS
  <2>2. Len(fields) = 2 /\ fields[1] = a /\ fields[2] = b
    BY <2>1
  <2>a. Len(fields) \in Nat
    BY <2>2
  <2>3. PICK f : /\ f[0] = Unit /\ \A n \in 1..Len(fields) : f[n] = With(f[n - 1], fields[n])
                 /\ RecordOf(fields) = Rounded(f[Len(fields)])
    BY <2>a, FieldByField
  <2>b. RecordOf(fields) = Rounded(f[2])
    BY <2>2, <2>3
  <2>4. f[1] = With(f[0], a) /\ f[2] = With(f[1], b)
    BY <2>2, <2>3
  <2> QED BY <2>1, <2>3, <2>b, <2>4
<1>2. ASSUME NEW a, NEW b, NEW c
      PROVE  RecordOf(<<a, b, c>>) = Rounded(With(With(With(Unit, a), b), c))
  <2>1. PICK fields : fields = <<a, b, c>>
    OBVIOUS
  <2>2. Len(fields) = 3 /\ fields[1] = a /\ fields[2] = b /\ fields[3] = c
    BY <2>1
  <2>a. Len(fields) \in Nat
    BY <2>2
  <2>3. PICK f : /\ f[0] = Unit /\ \A n \in 1..Len(fields) : f[n] = With(f[n - 1], fields[n])
                 /\ RecordOf(fields) = Rounded(f[Len(fields)])
    BY <2>a, FieldByField
  <2>b. RecordOf(fields) = Rounded(f[3])
    BY <2>2, <2>3
  <2>4. f[1] = With(f[0], a) /\ f[2] = With(f[1], b) /\ f[3] = With(f[2], c)
    BY <2>2, <2>3
  <2> QED BY <2>1, <2>3, <2>b, <2>4
<1>3. ASSUME NEW a, NEW b, NEW c, NEW d
      PROVE  RecordOf(<<a, b, c, d>>) = Rounded(With(With(With(With(Unit, a), b), c), d))
  <2>1. PICK fields : fields = <<a, b, c, d>>
    OBVIOUS
  <2>2. Len(fields) = 4 /\ fields[1] = a /\ fields[2] = b /\ fields[3] = c /\ fields[4] = d
    BY <2>1
  <2>a. Len(fields) \in Nat
    BY <2>2
  <2>3. PICK f : /\ f[0] = Unit /\ \A n \in 1..Len(fields) : f[n] = With(f[n - 1], fields[n])
                 /\ RecordOf(fields) = Rounded(f[Len(fields)])
    BY <2>a, FieldByField
  <2>b. RecordOf(fields) = Rounded(f[4])
    BY <2>2, <2>3
  <2>4. f[1] = With(f[0], a) /\ f[2] = With(f[1], b) /\ f[3] = With(f[2], c) /\ f[4] = With(f[3], d)
    BY <2>2, <2>3
  <2> QED BY <2>1, <2>3, <2>b, <2>4
<1>4. ASSUME NEW a, NEW b, NEW c, NEW d, NEW e
      PROVE  RecordOf(<<a, b, c, d, e>>) = Rounded(With(With(With(With(With(Unit, a), b), c), d), e))
  <2>1. PICK fields : fields = <<a, b, c, d, e>>
    OBVIOUS
  <2>2. Len(fields) = 5 /\ fields[1] = a /\ fields[2] = b /\ fields[3] = c /\ fields[4] = d /\ fields[5] = e
    BY <2>1
  <2>a. Len(fields) \in Nat
    BY <2>2
  <2>3. PICK f : /\ f[0] = Unit /\ \A n \in 1..Len(fields) : f[n] = With(f[n - 1], fields[n])
                 /\ RecordOf(fields) = Rounded(f[Len(fields)])
    BY <2>a, FieldByField
  <2>b. RecordOf(fields) = Rounded(f[5])
    BY <2>2, <2>3
  <2>4. f[1] = With(f[0], a) /\ f[2] = With(f[1], b) /\ f[3] = With(f[2], c) /\ f[4] = With(f[3], d) /\ f[5] = With(f[4], e)
    BY <2>2, <2>3
  <2> QED BY <2>1, <2>3, <2>b, <2>4
<1> QED BY <1>1, <1>2, <1>3, <1>4

LEMMA Aligned ==
  /\ \A n \in Nat : AlignUp(n, 1) = n
  /\ \A n \in {0, 4, 8, 12, 16, 20, 24, 36} : AlignUp(n, 4) = n
  /\ AlignUp(1, 4) = 4 /\ AlignUp(18, 4) = 20
BY DEF AlignUp

LEMMA MaxOfTwo ==
  ASSUME NEW a \in Int, NEW b \in Int
  PROVE  Max({a, b}) = IF a <= b THEN b ELSE a
BY DEF Max

(* The cells of a value are those of its parts, each moved to its offset. *)
LEMMA MovedCells ==
  ASSUME NEW by \in Int
  PROVE  /\ Moved({}, by) = {}
         /\ \A a \in Int : \A w : Moved({<<a, w>>}, by) = {<<a + by, w>>}
         /\ \A A, B : Moved(A \cup B, by) = Moved(A, by) \cup Moved(B, by)
BY DEF Moved

LEMMA CellsIn ==
  ASSUME NEW block, NEW A, NEW B
  PROVE  In(block, A \cup B) = In(block, A) \cup In(block, B)
BY DEF In

LEMMA Spread ==
  ASSUME NEW block, NEW at \in Int, NEW A, NEW B
  PROVE  In(block, Moved(A \cup B, at)) = In(block, Moved(A, at)) \cup In(block, Moved(B, at))
BY DEF In, Moved

LEMMA SpreadThree ==
  ASSUME NEW block, NEW at \in Int, NEW A, NEW B, NEW C
  PROVE  In(block, Moved(A \cup B \cup C, at))
           = In(block, Moved(A, at)) \cup In(block, Moved(B, at)) \cup In(block, Moved(C, at))
<1> DEFINE D == A \cup B
<1>1. In(block, Moved(D, at)) = In(block, Moved(A, at)) \cup In(block, Moved(B, at))
  BY Spread
<1> HIDE DEF D
<1>2. In(block, Moved(D \cup C, at)) = In(block, Moved(D, at)) \cup In(block, Moved(C, at))
  BY Spread
<1> QED BY <1>1, <1>2 DEF D

Cell(offset, width) == {<<offset, width>>}
Two(offset) == Cell(offset, 32) \cup Cell(offset + 4, 32)

LEMMA CellMoves ==
  ASSUME NEW offset \in Int, NEW by \in Int, NEW width
  PROVE  Moved(Cell(offset, width), by) = Cell(offset + by, width)
BY MovedCells, ZenonT(40) DEF Cell

LEMMA TwoMove ==
  ASSUME NEW offset \in Int, NEW by \in Int
  PROVE  Moved(Two(offset), by) = Two(offset + by)
<1>1. Moved(Two(offset), by) = Moved(Cell(offset, 32), by) \cup Moved(Cell(offset + 4, 32), by)
  BY MovedCells DEF Two
<1>2. offset + 4 \in Int /\ offset + 4 + by = offset + by + 4
  OBVIOUS
<1>3. /\ Moved(Cell(offset, 32), by) = Cell(offset + by, 32)
      /\ Moved(Cell(offset + 4, 32), by) = Cell(offset + 4 + by, 32)
  BY <1>2, CellMoves
<1> QED BY <1>1, <1>2, <1>3 DEF Two

LEMMA CellIn ==
  ASSUME NEW block, NEW offset, NEW width
  PROVE  In(block, Cell(offset, width)) = At(block, offset, width)
BY DEF In, Cell, At

LEMMA TwoIn ==
  ASSUME NEW block, NEW offset
  PROVE  In(block, Two(offset)) = Pair(block, offset, offset + 4)
<1>1. In(block, Two(offset)) = In(block, Cell(offset, 32)) \cup In(block, Cell(offset + 4, 32))
  BY CellsIn DEF Two
<1>2. In(block, Two(offset)) = At(block, offset, 32) \cup At(block, offset + 4, 32)
  BY <1>1, CellIn
<1> QED BY <1>2 DEF Pair

Offsets == {0, 4, 8, 12, 16, 20, 24}

LEMMA Laid ==
  ASSUME NEW size, NEW align, NEW cells
  PROVE  /\ Layout(size, align, cells).size = size
         /\ Layout(size, align, cells).align = align
         /\ Layout(size, align, cells).cells = cells
BY DEF Layout

LEMMA Fields ==
  ASSUME NEW size \in Offsets, NEW align \in {1, 4}, NEW cells, NEW s, NEW c
  PROVE  With(Layout(size, align, cells), Layout(s, 4, c)) = Layout(size + s, 4, cells \cup Moved(c, size))
<1>1. AlignUp(size, 4) = size /\ Max({align, 4}) = 4
  BY Aligned, MaxOfTwo DEF Offsets
<1> DEFINE at == Layout(size, align, cells)
           f == Layout(s, 4, c)
<1>2. at.size = size /\ at.align = align /\ at.cells = cells /\ f.size = s /\ f.align = 4 /\ f.cells = c
  BY Laid
<1> HIDE DEF at, f
<1>3. With(at, f) = Layout(size + s, 4, cells \cup Moved(c, size))
  BY <1>1, <1>2 DEF With, Layout
<1> QED BY <1>3 DEF at, f

LEMMA ByteFields ==
  ASSUME NEW size \in Nat, NEW align \in {1, 4}, NEW cells
  PROVE  With(Layout(size, align, cells), Byte) = Layout(size + 1, align, cells \cup Cell(size, 8))
<1>1. AlignUp(size, 1) = size /\ Max({align, 1}) = align
  BY Aligned, MaxOfTwo
<1>2. Moved(Cell(0, 8), size) = Cell(size, 8)
  <2>1. Moved(Cell(0, 8), size) = Cell(0 + size, 8) /\ 0 + size = size
    BY CellMoves
  <2> QED BY <2>1
<1> DEFINE at == Layout(size, align, cells)
<1>3. at.size = size /\ at.align = align /\ at.cells = cells
  BY Laid
<1>4. Byte.size = 1 /\ Byte.align = 1 /\ Byte.cells = Cell(0, 8)
  BY DEF Byte, Cell
<1> HIDE DEF at
<1>5. With(at, Byte) = Layout(size + 1, align, cells \cup Cell(size, 8))
  BY <1>1, <1>2, <1>3, <1>4 DEF With, Layout
<1> QED BY <1>5 DEF at

LEMMA Closed ==
  ASSUME NEW size \in Nat, NEW cells, NEW to, AlignUp(size, 4) = to
  PROVE  Rounded(Layout(size, 4, cells)) = Layout(to, 4, cells)
BY DEF Rounded, Layout

LEMMA Scalars ==
  /\ Unit = Layout(0, 1, {})
  /\ U32 = Layout(4, 4, Cell(0, 32))
<1>1. Unit = Layout(0, 1, {})
  BY DEF Unit, Layout
<1>2. U32 = Layout(4, 4, Cell(0, 32))
  BY DEF U32, Layout, Cell
<1> QED BY <1>1, <1>2

(* The fields that the records of the bindings have, one behind another. *)
LEMMA NumberField ==
  ASSUME NEW size \in Offsets, NEW align \in {1, 4}, NEW cells, NEW next, next = size + 4
  PROVE  With(Layout(size, align, cells), U32) = Layout(next, 4, cells \cup Cell(size, 32))
<1>1. Moved(Cell(0, 32), size) = Cell(size, 32)
  <2>1. size \in Int
    BY DEF Offsets
  <2>2. Moved(Cell(0, 32), size) = Cell(0 + size, 32)
    BY <2>1, CellMoves
  <2>3. 0 + size = size
    BY <2>1
  <2> QED BY <2>2, <2>3
<1>2. With(Layout(size, align, cells), Layout(4, 4, Cell(0, 32))) = Layout(next, 4, cells \cup Moved(Cell(0, 32), size))
  BY Fields
<1> QED BY <1>1, <1>2, Scalars

LEMMA StrLayout == Str = Layout(8, 4, Two(0))
<1>1. Str = Rounded(With(With(Unit, U32), U32))
  BY Records DEF Str
<1>2. 0 \in Offsets /\ 4 \in Offsets /\ 4 = 0 + 4 /\ 8 = 4 + 4 /\ 1 \in {1, 4} /\ 4 \in {1, 4}
  BY DEF Offsets
<1>3. With(Layout(0, 1, {}), U32) = Layout(4, 4, {} \cup Cell(0, 32))
  BY <1>2, NumberField
<1>4. With(Layout(4, 4, Cell(0, 32)), U32) = Layout(8, 4, Cell(0, 32) \cup Cell(4, 32))
  BY <1>2, NumberField
<1>5. Two(0) = Cell(0, 32) \cup Cell(4, 32) /\ {} \cup Cell(0, 32) = Cell(0, 32)
  BY <1>2 DEF Two
<1>6. Rounded(Layout(8, 4, Two(0))) = Layout(8, 4, Two(0))
  BY Aligned, Closed
<1> QED BY <1>1, <1>3, <1>4, <1>5, <1>6, Scalars

LEMMA StringField ==
  ASSUME NEW size \in Offsets, NEW align \in {1, 4}, NEW cells, NEW next, next = size + 8
  PROVE  With(Layout(size, align, cells), Str) = Layout(next, 4, cells \cup Two(size))
<1>1. Moved(Two(0), size) = Two(size)
  <2>1. size \in Int
    BY DEF Offsets
  <2>2. Moved(Two(0), size) = Two(0 + size)
    BY <2>1, TwoMove
  <2>3. 0 + size = size
    BY <2>1
  <2> QED BY <2>2, <2>3
<1>2. With(Layout(size, align, cells), Layout(8, 4, Two(0))) = Layout(next, 4, cells \cup Moved(Two(0), size))
  BY Fields
<1> QED BY <1>1, <1>2, StrLayout

LEMMA FirstFields ==
  /\ With(Unit, U32) = Layout(4, 4, Cell(0, 32))
  /\ With(Unit, Str) = Layout(8, 4, Two(0))
  /\ With(Unit, Byte) = Layout(1, 1, Cell(0, 8))
<1>1. 0 \in Offsets /\ 0 \in Nat /\ 1 \in {1, 4} /\ 4 = 0 + 4 /\ 8 = 0 + 8 /\ 1 = 0 + 1
  BY DEF Offsets
<1>2. With(Layout(0, 1, {}), U32) = Layout(4, 4, {} \cup Cell(0, 32))
  BY <1>1, NumberField
<1>3. With(Layout(0, 1, {}), Str) = Layout(8, 4, {} \cup Two(0))
  BY <1>1, StringField
<1>4. With(Layout(0, 1, {}), Byte) = Layout(0 + 1, 1, {} \cup Cell(0, 8))
  BY <1>1, ByteFields
<1>5. \A S : {} \cup S = S
  OBVIOUS
<1> QED BY <1>1, <1>2, <1>3, <1>4, <1>5, Scalars

LEMMA StringAfterByte ==
  ASSUME NEW cells
  PROVE  With(Layout(1, 1, cells), Str) = Layout(12, 4, cells \cup Two(4))
<1>1. AlignUp(1, 4) = 4 /\ Max({1, 4}) = 4
  BY Aligned, MaxOfTwo
<1>2. Moved(Two(0), 4) = Two(0 + 4) /\ 0 + 4 = 4
  BY TwoMove
<1> DEFINE at == Layout(1, 1, cells)
           f == Layout(8, 4, Two(0))
<1>3. at.size = 1 /\ at.align = 1 /\ at.cells = cells /\ f.size = 8 /\ f.align = 4 /\ f.cells = Two(0)
  BY Laid
<1> HIDE DEF at, f
<1>4. With(at, f) = Layout(12, 4, cells \cup Two(4))
  BY <1>1, <1>2, <1>3 DEF With, Layout
<1> QED BY <1>4, StrLayout DEF at, f

(* Where the payload of a case is does not depend on the case. *)
LEMMA VariantLayout ==
  ASSUME NEW su \in Nat, NEW au \in {1, 4}, NEW cu, NEW sv \in Nat, NEW cv, su <= sv,
         NEW to, AlignUp(4 + sv, 4) = to, NEW payload
  PROVE  CaseOf({Layout(su, au, cu), Layout(sv, 4, cv)}, payload)
           = Layout(to, 4, Cell(0, 8) \cup Moved(payload.cells, 4))
<1> DEFINE small == Layout(su, au, cu)
           large == Layout(sv, 4, cv)
<1>1. small.size = su /\ small.align = au /\ large.size = sv /\ large.align = 4
  BY Laid
<1> HIDE DEF small, large
<1>2. {p.align : p \in {small, large}} = {au, 4} /\ {p.size : p \in {small, large}} = {su, sv}
  BY <1>1
<1>3. Max({au, 4}) = 4 /\ Max({su, sv}) = sv /\ AlignUp(1, 4) = 4
  BY MaxOfTwo, Aligned
<1>4. CaseOf({small, large}, payload) = Layout(to, 4, Cell(0, 8) \cup Moved(payload.cells, 4))
  BY <1>2, <1>3 DEF CaseOf, Layout, Cell
<1> QED BY <1>4 DEF small, large

EntityCells(case) == Cell(0, 8) \cup (IF case = "custom" THEN Two(4) ELSE {})
SlotCells(case) ==
  Cell(0, 8) \cup (IF case # "none" THEN Cell(4, 8) ELSE {}) \cup (IF case = "custom" THEN Two(8) ELSE {})

LEMMA NothingMoves == Moved({}, 4) = {}
BY MovedCells

LEMMA EntityLayout ==
  ASSUME NEW case
  PROVE  Entity(case) = Layout(12, 4, EntityCells(case))
<1> DEFINE payload == IF case = "custom" THEN Str ELSE Unit
<1>1. AlignUp(4 + 8, 4) = 12 /\ 0 \in Nat /\ 8 \in Nat /\ 0 <= 8 /\ 1 \in {1, 4}
  BY DEF AlignUp
<1>2. CaseOf({Unit, Str}, payload) = Layout(12, 4, Cell(0, 8) \cup Moved(payload.cells, 4))
  <2> HIDE DEF payload
  <2>1. CaseOf({Layout(0, 1, {}), Layout(8, 4, Two(0))}, payload) = Layout(12, 4, Cell(0, 8) \cup Moved(payload.cells, 4))
    BY <1>1, VariantLayout
  <2> QED BY <2>1, Scalars, StrLayout
<1>3. payload.cells = IF case = "custom" THEN Two(0) ELSE {}
  BY Scalars, StrLayout, Laid
<1>4. Moved(Two(0), 4) = Two(0 + 4) /\ 0 + 4 = 4
  BY TwoMove
<1>5. Moved(payload.cells, 4) = IF case = "custom" THEN Two(4) ELSE {}
  BY <1>3, <1>4, NothingMoves
<1> QED BY <1>2, <1>5 DEF Entity, EntityCells

LEMMA SlotLayout ==
  ASSUME NEW case
  PROVE  Slot(case) = Layout(16, 4, SlotCells(case))
<1> DEFINE payload == IF case # "none" THEN Entity(case) ELSE Unit
<1>1. AlignUp(4 + 12, 4) = 16 /\ 0 \in Nat /\ 12 \in Nat /\ 0 <= 12 /\ 1 \in {1, 4}
  BY DEF AlignUp
<1>2. CaseOf({Unit, Entity(case)}, payload) = Layout(16, 4, Cell(0, 8) \cup Moved(payload.cells, 4))
  <2> HIDE DEF payload
  <2>1. CaseOf({Layout(0, 1, {}), Layout(12, 4, EntityCells(case))}, payload) = Layout(16, 4, Cell(0, 8) \cup Moved(payload.cells, 4))
    BY <1>1, VariantLayout
  <2> QED BY <2>1, Scalars, EntityLayout
<1>3. payload.cells = IF case # "none" THEN EntityCells(case) ELSE {}
  BY Scalars, EntityLayout, Laid
<1>4. Moved(Two(4), 4) = Two(4 + 4) /\ Moved(Cell(0, 8), 4) = Cell(0 + 4, 8) /\ 4 + 4 = 8 /\ 0 + 4 = 4
  BY TwoMove, CellMoves
<1>5. Moved(EntityCells(case), 4) = Cell(4, 8) \cup (IF case = "custom" THEN Two(8) ELSE {})
  <2>1. CASE case = "custom"
    BY <1>4, <2>1, MovedCells DEF EntityCells
  <2>2. CASE case # "custom"
    <3>1. EntityCells(case) = Cell(0, 8)
      BY <2>2 DEF EntityCells
    <3> QED BY <1>4, <2>2, <3>1
  <2> QED BY <2>1, <2>2
<1>6. Cell(0, 8) \cup Moved(payload.cells, 4) = SlotCells(case)
  <2>1. CASE case = "none"
    BY <1>3, <2>1, NothingMoves DEF SlotCells
  <2>2. CASE case # "none"
    BY <1>3, <1>5, <2>2 DEF SlotCells
  <2> QED BY <2>1, <2>2
<1> QED BY <1>2, <1>6 DEF Slot, OptionOf

(* Lists, whatever their length: each element is where the binding is.     *)
LEMMA StringsAreThere ==
  ASSUME NEW block, NEW elems, IsSeq(elems)
  PROVE  Strings(block, elems) = StringsAt(block, elems)
<1>1. ASSUME NEW i \in DOMAIN elems
      PROVE  In(block, Moved(Str.cells, (i - 1) * Str.size)) = Pair(block, (i - 1) * 8, (i - 1) * 8 + 4)
  <2>1. i \in Int
    BY DEF IsSeq
  <2>2. PICK at \in Int : at = (i - 1) * 8
    BY <2>1
  <2>3. Moved(Two(0), at) = Two(0 + at) /\ 0 + at = at
    BY TwoMove
  <2>4. In(block, Two(at)) = Pair(block, at, at + 4)
    BY TwoIn
  <2>5. Str.cells = Two(0) /\ Str.size = 8
    BY StrLayout, Laid
  <2> QED BY <2>2, <2>3, <2>4, <2>5
<1>2. Strings(block, elems) = UNION {In(block, Moved(Str.cells, (i - 1) * Str.size)) : i \in DOMAIN elems}
  BY DEF Strings, Elements
<1> QED BY <1>1, <1>2 DEF StringsAt

LEMMA EntityIn ==
  ASSUME NEW block, NEW at \in Int, NEW case
  PROVE  In(block, Moved(EntityCells(case), at))
           = At(block, at, 8) \cup (IF case = "custom" THEN Pair(block, at + 4, at + 8) ELSE {})
<1>1. Moved(Cell(0, 8), at) = Cell(0 + at, 8) /\ 0 + at = at
  BY CellMoves
<1>2. Moved(Two(4), at) = Two(4 + at) /\ 4 + at = at + 4 /\ at + 4 + 4 = at + 8
  BY TwoMove
<1>3. In(block, Cell(at, 8)) = At(block, at, 8) /\ In(block, Two(at + 4)) = Pair(block, at + 4, at + 4 + 4)
  BY CellIn, TwoIn
<1>4. CASE case = "custom"
  <2>1. EntityCells(case) = Cell(0, 8) \cup Two(4)
    BY <1>4 DEF EntityCells
  <2>2. Moved(EntityCells(case), at) = Cell(at, 8) \cup Two(at + 4)
    BY <1>1, <1>2, <2>1, MovedCells
  <2>3. In(block, Cell(at, 8) \cup Two(at + 4)) = In(block, Cell(at, 8)) \cup In(block, Two(at + 4))
    BY CellsIn
  <2> QED BY <1>2, <1>3, <1>4, <2>2, <2>3
<1>5. CASE case # "custom"
  <2>1. EntityCells(case) = Cell(0, 8)
    BY <1>5 DEF EntityCells
  <2> QED BY <1>1, <1>3, <1>5, <2>1
<1> QED BY <1>4, <1>5

LEMMA EntitiesAreThere ==
  ASSUME NEW block, NEW elems, IsSeq(elems)
  PROVE  Elements(block, elems, Entity) = EntitiesAt(block, elems)
<1> DEFINE Used(i) == LET base == (i - 1) * 12
                      IN At(block, base, 8) \cup (IF elems[i] = "custom" THEN Pair(block, base + 4, base + 8) ELSE {})
<1>1. ASSUME NEW i \in DOMAIN elems
      PROVE  In(block, Moved(Entity(elems[i]).cells, (i - 1) * Entity(elems[i]).size)) = Used(i)
  <2>1. i \in Int
    BY DEF IsSeq
  <2>2. PICK at \in Int : at = (i - 1) * 12
    BY <2>1
  <2>3. Entity(elems[i]).cells = EntityCells(elems[i]) /\ Entity(elems[i]).size = 12
    BY EntityLayout, Laid
  <2>4. In(block, Moved(EntityCells(elems[i]), at))
          = At(block, at, 8) \cup (IF elems[i] = "custom" THEN Pair(block, at + 4, at + 8) ELSE {})
    BY EntityIn
  <2> QED BY <2>2, <2>3, <2>4
<1>2. Elements(block, elems, Entity)
        = UNION {In(block, Moved(Entity(elems[i]).cells, (i - 1) * Entity(elems[i]).size)) : i \in DOMAIN elems}
  BY DEF Elements
<1>3. EntitiesAt(block, elems) = UNION {Used(i) : i \in DOMAIN elems}
  BY DEF EntitiesAt
<1> HIDE DEF Used
<1> QED BY <1>1, <1>2, <1>3

LEMMA SlotsAreThere ==
  ASSUME NEW block, NEW elems, DOMAIN elems \subseteq Int
  PROVE  Elements(block, elems, Slot) = SlotsAt(block, elems)
<1> DEFINE Used(i) == LET base == (i - 1) * 16
                      IN At(block, base, 8) \cup (IF elems[i] # "none" THEN At(block, base + 4, 8) ELSE {})
                           \cup (IF elems[i] = "custom" THEN Pair(block, base + 8, base + 12) ELSE {})
<1>1. ASSUME NEW i \in DOMAIN elems
      PROVE  In(block, Moved(Slot(elems[i]).cells, (i - 1) * Slot(elems[i]).size)) = Used(i)
  <2>1. i \in Int
    OBVIOUS
  <2>2. PICK at \in Int : at = (i - 1) * 16
    BY <2>1
  <2>3. Slot(elems[i]).cells = SlotCells(elems[i]) /\ Slot(elems[i]).size = 16
    BY SlotLayout, Laid
  <2>4. PICK case : case = elems[i]
    OBVIOUS
  <2>5. In(block, Moved(SlotCells(case), at))
          = At(block, at, 8) \cup (IF case # "none" THEN At(block, at + 4, 8) ELSE {})
              \cup (IF case = "custom" THEN Pair(block, at + 8, at + 12) ELSE {})
    <3>1. /\ Moved(Cell(0, 8), at) = Cell(0 + at, 8) /\ 0 + at = at
          /\ Moved(Cell(4, 8), at) = Cell(4 + at, 8) /\ 4 + at = at + 4
      BY CellMoves
    <3>2. Moved(Two(8), at) = Two(8 + at) /\ 8 + at = at + 8 /\ at + 8 + 4 = at + 12
      BY TwoMove
    <3>3. /\ In(block, Cell(at, 8)) = At(block, at, 8) /\ In(block, Cell(at + 4, 8)) = At(block, at + 4, 8)
          /\ In(block, Two(at + 8)) = Pair(block, at + 8, at + 8 + 4)
      BY CellIn, TwoIn
    <3> DEFINE plain == IF case # "none" THEN Cell(4, 8) ELSE {}
               custom == IF case = "custom" THEN Two(8) ELSE {}
    <3>4. Moved(plain, at) = IF case # "none" THEN Cell(at + 4, 8) ELSE {}
      BY <3>1, MovedCells
    <3>5. Moved(custom, at) = IF case = "custom" THEN Two(at + 8) ELSE {}
      BY <3>2, MovedCells
    <3>6. SlotCells(case) = Cell(0, 8) \cup plain \cup custom
      BY DEF SlotCells
    <3>7. In(block, {}) = {}
      BY DEF In
    <3>8. In(block, Moved(plain, at)) = IF case # "none" THEN At(block, at + 4, 8) ELSE {}
      BY <3>3, <3>4, <3>7
    <3>9. In(block, Moved(custom, at)) = IF case = "custom" THEN Pair(block, at + 8, at + 12) ELSE {}
      BY <3>2, <3>3, <3>5, <3>7
    <3> HIDE DEF plain, custom
    <3>10. In(block, Moved(SlotCells(case), at))
             = In(block, Moved(Cell(0, 8), at)) \cup In(block, Moved(plain, at)) \cup In(block, Moved(custom, at))
      BY <3>6, SpreadThree
    <3> QED BY <3>1, <3>3, <3>8, <3>9, <3>10
  <2> QED BY <2>2, <2>3, <2>4, <2>5
<1>2. Elements(block, elems, Slot)
        = UNION {In(block, Moved(Slot(elems[i]).cells, (i - 1) * Slot(elems[i]).size)) : i \in DOMAIN elems}
  BY DEF Elements
<1>3. SlotsAt(block, elems) = UNION {Used(i) : i \in DOMAIN elems}
  BY DEF SlotsAt
<1> HIDE DEF Used
<1> QED BY <1>1, <1>2, <1>3

LEMMA EntityField ==
  ASSUME NEW size \in Offsets, NEW cells, NEW case, NEW next, next = size + 12
  PROVE  With(Layout(size, 4, cells), Entity(case)) = Layout(next, 4, cells \cup Moved(EntityCells(case), size))
<1> DEFINE c == EntityCells(case)
<1>1. Entity(case) = Layout(12, 4, c)
  BY EntityLayout
<1> HIDE DEF c
<1>2. With(Layout(size, 4, cells), Layout(12, 4, c)) = Layout(next, 4, cells \cup Moved(c, size))
  BY Fields
<1> QED BY <1>1, <1>2 DEF c

LEMMA DetectedLayout ==
  ASSUME NEW case
  PROVE  Detected(case) = Layout(20, 4, Two(0) \cup Moved(EntityCells(case), 8))
<1>1. Detected(case) = Rounded(With(With(With(Unit, U32), U32), Entity(case)))
  BY Records DEF Detected
<1>2. 4 \in Offsets /\ 8 \in Offsets /\ 4 \in {1, 4} /\ 8 = 4 + 4 /\ 20 = 8 + 12 /\ 0 + 4 = 4
  BY DEF Offsets
<1>3. With(Layout(4, 4, Cell(0, 32)), U32) = Layout(8, 4, Cell(0, 32) \cup Cell(4, 32))
  BY <1>2, NumberField
<1>4. Cell(0, 32) \cup Cell(4, 32) = Two(0)
  BY <1>2 DEF Two
<1> DEFINE cells == Two(0) \cup Moved(EntityCells(case), 8)
<1>5. With(Layout(8, 4, Two(0)), Entity(case)) = Layout(20, 4, cells)
  BY <1>2, EntityField
<1> HIDE DEF cells
<1>6. Rounded(Layout(20, 4, cells)) = Layout(20, 4, cells)
  BY Aligned, Closed
<1>7. With(With(Unit, U32), U32) = Layout(8, 4, Two(0))
  BY <1>3, <1>4, FirstFields
<1> QED BY <1>1, <1>5, <1>6, <1>7 DEF cells

LEMMA RedactedLayout ==
  ASSUME NEW case
  PROVE  Redacted(case) = Layout(36, 4, Two(0) \cup Two(8) \cup Two(16) \cup Moved(EntityCells(case), 24))
<1>1. Redacted(case) = Rounded(With(With(With(With(With(Unit, Str), Str), U32), U32), Entity(case)))
  BY Records DEF Redacted
<1>2. /\ 8 \in Offsets /\ 16 \in Offsets /\ 20 \in Offsets /\ 24 \in Offsets /\ 4 \in {1, 4}
      /\ 16 = 8 + 8 /\ 20 = 16 + 4 /\ 24 = 20 + 4 /\ 36 = 24 + 12
  BY DEF Offsets
<1> DEFINE two == Two(0) \cup Two(8)
           three == two \cup Cell(16, 32)
           four == three \cup Cell(20, 32)
           cells == four \cup Moved(EntityCells(case), 24)
<1>3. With(Layout(8, 4, Two(0)), Str) = Layout(16, 4, two)
  BY <1>2, StringField
<1>4. four = two \cup Two(16)
  BY <1>2 DEF Two
<1> HIDE DEF two
<1>5. With(Layout(16, 4, two), U32) = Layout(20, 4, three)
  BY <1>2, NumberField
<1> HIDE DEF three
<1>6. With(Layout(20, 4, three), U32) = Layout(24, 4, four)
  BY <1>2, NumberField
<1> HIDE DEF four
<1>7. With(Layout(24, 4, four), Entity(case)) = Layout(36, 4, cells)
  BY <1>2, EntityField
<1> HIDE DEF cells
<1>8. Rounded(Layout(36, 4, cells)) = Layout(36, 4, cells)
  BY Aligned, Closed
<1>9. Redacted(case) = Layout(36, 4, cells)
  BY <1>1, <1>3, <1>5, <1>6, <1>7, <1>8, FirstFields
<1>10. cells = two \cup Two(16) \cup Moved(EntityCells(case), 24)
  BY <1>4 DEF cells
<1> QED BY <1>9, <1>10 DEF two

LEMMA PayloadIn ==
  ASSUME NEW block, NEW at \in Int, NEW offset \in Int, NEW case
  PROVE  In(block, Moved(Moved(EntityCells(case), offset), at))
           = At(block, at + offset, 8)
             \cup (IF case = "custom" THEN Pair(block, at + offset + 4, at + offset + 8) ELSE {})
<1> DEFINE cells == EntityCells(case)
<1>1. \A c \in cells : c[1] \in Int
  BY DEF EntityCells, Cell, Two
<1> HIDE DEF cells
<1>2. Moved(Moved(cells, offset), at) = Moved(cells, at + offset)
  <2>1. ASSUME NEW c \in cells
        PROVE  <<c[1] + offset, c[2]>>[1] + at = c[1] + (at + offset) /\ <<c[1] + offset, c[2]>>[2] = c[2]
    BY <1>1
  <2>2. ASSUME NEW x \in Moved(Moved(cells, offset), at)
        PROVE  x \in Moved(cells, at + offset)
    <3>1. PICK d \in Moved(cells, offset) : x = <<d[1] + at, d[2]>>
      BY DEF Moved
    <3>2. PICK c \in cells : d = <<c[1] + offset, c[2]>>
      BY DEF Moved
    <3>3. x = <<c[1] + (at + offset), c[2]>>
      BY <2>1, <3>1, <3>2
    <3> QED BY <3>3 DEF Moved
  <2>3. ASSUME NEW x \in Moved(cells, at + offset)
        PROVE  x \in Moved(Moved(cells, offset), at)
    <3>1. PICK c \in cells : x = <<c[1] + (at + offset), c[2]>>
      BY DEF Moved
    <3>2. PICK d : d = <<c[1] + offset, c[2]>>
      OBVIOUS
    <3>3. d \in Moved(cells, offset) /\ x = <<d[1] + at, d[2]>>
      BY <2>1, <3>1, <3>2 DEF Moved
    <3> QED BY <3>3 DEF Moved
  <2> QED BY <2>2, <2>3
<1>3. PICK there \in Int : there = at + offset
  OBVIOUS
<1>4. In(block, Moved(EntityCells(case), there))
        = At(block, there, 8) \cup (IF case = "custom" THEN Pair(block, there + 4, there + 8) ELSE {})
  BY EntityIn
<1> QED BY <1>2, <1>3, <1>4 DEF cells

LEMMA DetectedAreThere ==
  ASSUME NEW block, NEW elems, IsSeq(elems)
  PROVE  Elements(block, elems, Detected) = DetectedAt(block, elems)
<1> DEFINE Used(i) == LET base == (i - 1) * 20
                      IN At(block, base, 32) \cup At(block, base + 4, 32) \cup At(block, base + 8, 8)
                         \cup (IF elems[i] = "custom" THEN Pair(block, base + 12, base + 16) ELSE {})
<1>1. ASSUME NEW i \in DOMAIN elems
      PROVE  In(block, Moved(Detected(elems[i]).cells, (i - 1) * Detected(elems[i]).size)) = Used(i)
  <2>1. i \in Int
    BY DEF IsSeq
  <2>2. PICK at \in Int : at = (i - 1) * 20
    BY <2>1
  <2>3. PICK case : case = elems[i]
    OBVIOUS
  <2> DEFINE payload == Moved(EntityCells(case), 8)
  <2>4. Detected(case).cells = Two(0) \cup payload /\ Detected(case).size = 20
    <3>1. PICK cells : cells = Two(0) \cup payload
      OBVIOUS
    <3>2. Detected(case) = Layout(20, 4, cells)
      BY <3>1, DetectedLayout
    <3> QED BY <3>1, <3>2, Laid
  <2>5. Moved(Two(0), at) = Two(0 + at) /\ 0 + at = at
    BY TwoMove
  <2>6. In(block, Two(at)) = Pair(block, at, at + 4)
    BY TwoIn
  <2>7. at + 8 + 4 = at + 12 /\ at + 8 + 8 = at + 16
    OBVIOUS
  <2>8. In(block, Moved(payload, at))
          = At(block, at + 8, 8) \cup (IF case = "custom" THEN Pair(block, at + 12, at + 16) ELSE {})
    BY <2>7, PayloadIn
  <2> HIDE DEF payload
  <2>9. In(block, Moved(Two(0) \cup payload, at)) = In(block, Moved(Two(0), at)) \cup In(block, Moved(payload, at))
    BY Spread
  <2>10. In(block, Moved(Detected(case).cells, at))
           = At(block, at, 32) \cup At(block, at + 4, 32) \cup At(block, at + 8, 8)
             \cup (IF case = "custom" THEN Pair(block, at + 12, at + 16) ELSE {})
    BY <2>4, <2>5, <2>6, <2>8, <2>9 DEF Pair
  <2> QED BY <2>2, <2>3, <2>4, <2>10
<1>2. Elements(block, elems, Detected)
        = UNION {In(block, Moved(Detected(elems[i]).cells, (i - 1) * Detected(elems[i]).size)) : i \in DOMAIN elems}
  BY DEF Elements
<1>3. DetectedAt(block, elems) = UNION {Used(i) : i \in DOMAIN elems}
  BY DEF DetectedAt
<1> HIDE DEF Used
<1> QED BY <1>1, <1>2, <1>3

LEMMA RedactedAreThere ==
  ASSUME NEW elems, IsSeq(elems)
  PROVE  Elements("redacted", elems, Redacted)
           = UNION {LET base == (i - 1) * 36
                    IN Pair("redacted", base, base + 4) \cup Pair("redacted", base + 8, base + 12)
                       \cup At("redacted", base + 16, 32) \cup At("redacted", base + 20, 32)
                       \cup At("redacted", base + 24, 8)
                       \cup (IF elems[i] = "custom" THEN Pair("redacted", base + 28, base + 32) ELSE {})
                      : i \in DOMAIN elems}
<1> DEFINE Used(i) == LET base == (i - 1) * 36
                      IN Pair("redacted", base, base + 4) \cup Pair("redacted", base + 8, base + 12)
                         \cup At("redacted", base + 16, 32) \cup At("redacted", base + 20, 32)
                         \cup At("redacted", base + 24, 8)
                         \cup (IF elems[i] = "custom" THEN Pair("redacted", base + 28, base + 32) ELSE {})
<1>1. ASSUME NEW i \in DOMAIN elems
      PROVE  In("redacted", Moved(Redacted(elems[i]).cells, (i - 1) * Redacted(elems[i]).size)) = Used(i)
  <2>1. i \in Int
    BY DEF IsSeq
  <2>2. PICK at \in Int : at = (i - 1) * 36
    BY <2>1
  <2>3. PICK case : case = elems[i]
    OBVIOUS
  <2>4. PICK block : block = "redacted"
    OBVIOUS
  <2> DEFINE payload == Moved(EntityCells(case), 24)
             fields == Two(0) \cup Two(8) \cup Two(16)
  <2>5. Redacted(case).cells = fields \cup payload /\ Redacted(case).size = 36
    <3>1. PICK cells : cells = fields \cup payload
      OBVIOUS
    <3>2. Redacted(case) = Layout(36, 4, cells)
      BY <3>1, RedactedLayout
    <3> QED BY <3>1, <3>2, Laid
  <2>6. Moved(Two(0), at) = Two(at) /\ Moved(Two(8), at) = Two(at + 8) /\ Moved(Two(16), at) = Two(at + 16)
    <3>1. \A o \in Int : Moved(Two(o), at) = Two(o + at)
      BY TwoMove
    <3>2. 0 + at = at /\ 8 + at = at + 8 /\ 16 + at = at + 16
      OBVIOUS
    <3>3. 0 \in Int /\ 8 \in Int /\ 16 \in Int
      OBVIOUS
    <3> QED BY <3>1, <3>2, <3>3
  <2>7. /\ In(block, Two(at)) = Pair(block, at, at + 4)
        /\ In(block, Two(at + 8)) = Pair(block, at + 8, at + 8 + 4)
        /\ In(block, Two(at + 16)) = Pair(block, at + 16, at + 16 + 4)
    BY TwoIn
  <2>8. at + 8 + 4 = at + 12 /\ at + 16 + 4 = at + 20 /\ at + 24 + 4 = at + 28 /\ at + 24 + 8 = at + 32
    OBVIOUS
  <2>9. In(block, Moved(payload, at))
          = At(block, at + 24, 8) \cup (IF case = "custom" THEN Pair(block, at + 28, at + 32) ELSE {})
    BY <2>8, PayloadIn
  <2>10. In(block, Moved(fields, at))
           = In(block, Moved(Two(0), at)) \cup In(block, Moved(Two(8), at)) \cup In(block, Moved(Two(16), at))
    BY SpreadThree
  <2> HIDE DEF payload, fields
  <2>11. In(block, Moved(fields \cup payload, at)) = In(block, Moved(fields, at)) \cup In(block, Moved(payload, at))
    BY Spread
  <2>12. In(block, Moved(fields, at)) = Pair(block, at, at + 4) \cup Pair(block, at + 8, at + 12)
                                          \cup At(block, at + 16, 32) \cup At(block, at + 20, 32)
    BY <2>6, <2>7, <2>8, <2>10 DEF Pair
  <2>13. In(block, Moved(Redacted(case).cells, at))
           = Pair(block, at, at + 4) \cup Pair(block, at + 8, at + 12)
             \cup At(block, at + 16, 32) \cup At(block, at + 20, 32) \cup At(block, at + 24, 8)
             \cup (IF case = "custom" THEN Pair(block, at + 28, at + 32) ELSE {})
    BY <2>5, <2>9, <2>11, <2>12
  <2> QED BY <2>2, <2>3, <2>4, <2>5, <2>13
<1>2. Elements("redacted", elems, Redacted)
        = UNION {In("redacted", Moved(Redacted(elems[i]).cells, (i - 1) * Redacted(elems[i]).size)) : i \in DOMAIN elems}
  BY DEF Elements
<1> HIDE DEF Used
<1>3. Elements("redacted", elems, Redacted) = UNION {Used(i) : i \in DOMAIN elems}
  BY <1>1, <1>2
<1> QED BY <1>3 DEF Used

LEMMA BotResultLayout == BotResult = Layout(20, 4, Two(0) \cup Two(8) \cup Cell(16, 8) \cup Cell(17, 8))
<1>1. BotResult = Rounded(With(With(With(With(Unit, Str), Str), Byte), Byte))
  BY Records DEF BotResult, List
<1>2. 8 \in Offsets /\ 16 \in Nat /\ 17 \in Nat /\ 18 \in Nat /\ 4 \in {1, 4} /\ 16 = 8 + 8 /\ 17 = 16 + 1 /\ 18 = 17 + 1
  BY DEF Offsets
<1> DEFINE two == Two(0) \cup Two(8)
           three == two \cup Cell(16, 8)
           four == three \cup Cell(17, 8)
<1>3. With(Layout(8, 4, Two(0)), Str) = Layout(16, 4, two)
  BY <1>2, StringField
<1> HIDE DEF two
<1>4. With(Layout(16, 4, two), Byte) = Layout(17, 4, three)
  BY <1>2, ByteFields
<1> HIDE DEF three
<1>5. With(Layout(17, 4, three), Byte) = Layout(18, 4, four)
  BY <1>2, ByteFields
<1> HIDE DEF four
<1>6. Rounded(Layout(18, 4, four)) = Layout(20, 4, four)
  BY <1>2, Aligned, Closed
<1>7. BotResult = Layout(20, 4, four)
  BY <1>1, <1>3, <1>4, <1>5, <1>6, FirstFields
<1> QED BY <1>7 DEF two, three, four

LEMMA EmailResultLayout == EmailValidationResult = Layout(12, 4, Cell(0, 8) \cup Two(4))
<1>1. EmailValidationResult = Rounded(With(With(Unit, Byte), Str))
  BY Records DEF EmailValidationResult, List
<1> DEFINE cells == Cell(0, 8) \cup Two(4)
<1>2. With(Layout(1, 1, Cell(0, 8)), Str) = Layout(12, 4, cells)
  BY StringAfterByte
<1> HIDE DEF cells
<1>3. Rounded(Layout(12, 4, cells)) = Layout(12, 4, cells)
  BY Aligned, Closed
<1> QED BY <1>1, <1>2, <1>3, FirstFields DEF cells

LEMMA FilterResultLayout == FilterResult = Layout(20, 4, Cell(0, 8) \cup Two(4) \cup Two(12))
<1>1. FilterResult = Rounded(With(With(With(Unit, Byte), Str), Str))
  BY Records DEF FilterResult, List
<1>2. 12 \in Offsets /\ 4 \in {1, 4} /\ 20 = 12 + 8
  BY DEF Offsets
<1> DEFINE two == Cell(0, 8) \cup Two(4)
           cells == two \cup Two(12)
<1>3. With(Layout(1, 1, Cell(0, 8)), Str) = Layout(12, 4, two)
  BY StringAfterByte
<1> HIDE DEF two
<1>4. With(Layout(12, 4, two), Str) = Layout(20, 4, cells)
  BY <1>2, StringField
<1> HIDE DEF cells
<1>5. Rounded(Layout(20, 4, cells)) = Layout(20, 4, cells)
  BY Aligned, Closed
<1> QED BY <1>1, <1>3, <1>4, <1>5, FirstFields DEF two, cells

LEMMA SensitiveResultLayout == SensitiveInfoResult = Layout(16, 4, Two(0) \cup Two(8))
<1>1. SensitiveInfoResult = Rounded(With(With(Unit, Str), Str))
  BY Records DEF SensitiveInfoResult, List
<1>2. 8 \in Offsets /\ 4 \in {1, 4} /\ 16 = 8 + 8
  BY DEF Offsets
<1> DEFINE cells == Two(0) \cup Two(8)
<1>3. With(Layout(8, 4, Two(0)), Str) = Layout(16, 4, cells)
  BY <1>2, StringField
<1> HIDE DEF cells
<1>4. Rounded(Layout(16, 4, cells)) = Layout(16, 4, cells)
  BY Aligned, Closed
<1> QED BY <1>1, <1>3, <1>4, FirstFields DEF cells

(* A result is read where the larger of its cases lets it be. *)
LEMMA ResultArea ==
  ASSUME NEW ok \in BOOLEAN, NEW size \in Nat, NEW align \in {1, 4}, NEW cells, align = 4 \/ size <= 8
  PROVE  In("area", ResultOf(ok, Layout(size, align, cells)).cells)
           = At("area", 0, 8) \cup (IF ok THEN In("area", Moved(cells, 4)) ELSE ErrorReads)
<1> DEFINE value == Layout(size, align, cells)
           payload == IF ok THEN value ELSE Str
<1>1. payload.cells = IF ok THEN cells ELSE Two(0)
  BY StrLayout, Laid
<1>2. \E to : CaseOf({value, Str}, payload) = Layout(to, 4, Cell(0, 8) \cup Moved(payload.cells, 4))
  <2> HIDE DEF payload
  <2>1. CASE size <= 8
    <3>1. CaseOf({value, Layout(8, 4, Two(0))}, payload)
            = Layout(AlignUp(4 + 8, 4), 4, Cell(0, 8) \cup Moved(payload.cells, 4))
      BY <2>1, VariantLayout
    <3> HIDE DEF value
    <3> QED BY <3>1, StrLayout
  <2>2. CASE ~(size <= 8)
    <3>1. 8 <= size /\ align = 4 /\ 8 \in Nat /\ 4 \in {1, 4}
      BY <2>2
    <3>2. CaseOf({Layout(8, 4, Two(0)), Layout(size, 4, cells)}, payload)
            = Layout(AlignUp(4 + size, 4), 4, Cell(0, 8) \cup Moved(payload.cells, 4))
      BY <3>1, VariantLayout
    <3>3. value = Layout(size, 4, cells)
      BY <3>1
    <3> HIDE DEF value
    <3>4. {value, Str} = {Str, value}
      OBVIOUS
    <3> QED BY <3>2, <3>3, <3>4, StrLayout
  <2> QED BY <2>1, <2>2
<1>3. ResultOf(ok, value) = CaseOf({value, Str}, payload)
  BY DEF ResultOf
<1> HIDE DEF value, payload
<1>4. ResultOf(ok, value).cells = Cell(0, 8) \cup Moved(payload.cells, 4)
  BY <1>2, <1>3, Laid
<1>5. In("area", ResultOf(ok, value).cells) = At("area", 0, 8) \cup In("area", Moved(payload.cells, 4))
  BY <1>4, CellsIn, CellIn
<1>6. In("area", Moved(Two(0), 4)) = ErrorReads
  <2>1. Moved(Two(0), 4) = Two(0 + 4) /\ 0 + 4 = 4 /\ 4 + 4 = 8
    BY TwoMove
  <2>2. In("area", Two(4)) = Pair("area", 4, 4 + 4)
    BY TwoIn
  <2> QED BY <2>1, <2>2 DEF ErrorReads
<1>7. In("area", Moved(payload.cells, 4)) = IF ok THEN In("area", Moved(cells, 4)) ELSE ErrorReads
  BY <1>1, <1>6
<1> QED BY <1>5, <1>7 DEF value

(* What is read of each result where there is one. *)
LEMMA FieldsOfResults ==
  /\ In("area", Moved(Two(0) \cup Two(8) \cup Cell(16, 8) \cup Cell(17, 8), 4))
       = Pair("area", 4, 8) \cup Pair("area", 12, 16) \cup At("area", 20, 8) \cup At("area", 21, 8)
  /\ In("area", Moved(Cell(0, 8) \cup Two(4) \cup Two(12), 4))
       = At("area", 4, 8) \cup Pair("area", 8, 12) \cup Pair("area", 16, 20)
  /\ In("area", Moved(Cell(0, 8) \cup Two(4), 4)) = At("area", 4, 8) \cup Pair("area", 8, 12)
  /\ In("area", Moved(Two(0), 4)) = Pair("area", 4, 8)
  /\ In("area", Two(0) \cup Two(8)) = Pair("area", 0, 4) \cup Pair("area", 8, 12)
<1>1. \A o \in Int : Moved(Two(o), 4) = Two(o + 4) /\ \A w : Moved(Cell(o, w), 4) = Cell(o + 4, w)
  BY TwoMove, CellMoves
<1>2. /\ Moved(Two(0), 4) = Two(4) /\ Moved(Two(4), 4) = Two(8) /\ Moved(Two(8), 4) = Two(12)
      /\ Moved(Two(12), 4) = Two(16) /\ Moved(Cell(0, 8), 4) = Cell(4, 8)
      /\ Moved(Cell(16, 8), 4) = Cell(20, 8) /\ Moved(Cell(17, 8), 4) = Cell(21, 8)
  <2>1. /\ 0 + 4 = 4 /\ 4 + 4 = 8 /\ 8 + 4 = 12 /\ 12 + 4 = 16 /\ 16 + 4 = 20 /\ 17 + 4 = 21
        /\ {0, 4, 8, 12, 16, 17} \subseteq Int
    OBVIOUS
  <2>2. /\ Moved(Two(0), 4) = Two(0 + 4) /\ Moved(Two(4), 4) = Two(4 + 4) /\ Moved(Two(8), 4) = Two(8 + 4)
    BY <1>1, <2>1
  <2>3. Moved(Two(12), 4) = Two(12 + 4) /\ Moved(Cell(0, 8), 4) = Cell(0 + 4, 8)
    BY <1>1, <2>1
  <2>4. Moved(Cell(16, 8), 4) = Cell(16 + 4, 8) /\ Moved(Cell(17, 8), 4) = Cell(17 + 4, 8)
    BY <1>1, <2>1
  <2> QED BY <2>1, <2>2, <2>3, <2>4
<1>3. /\ In("area", Two(0)) = Pair("area", 0, 4) /\ In("area", Two(4)) = Pair("area", 4, 8)
      /\ In("area", Two(8)) = Pair("area", 8, 12) /\ In("area", Two(12)) = Pair("area", 12, 16)
      /\ In("area", Two(16)) = Pair("area", 16, 20)
  <2>1. \A o : In("area", Two(o)) = Pair("area", o, o + 4)
    BY TwoIn
  <2>2. 0 + 4 = 4 /\ 4 + 4 = 8 /\ 8 + 4 = 12 /\ 12 + 4 = 16 /\ 16 + 4 = 20
    OBVIOUS
  <2> QED BY <2>1, <2>2
<1>4. \A o : In("area", Cell(o, 8)) = At("area", o, 8)
  BY CellIn
<1>5. In("area", Moved(Two(0) \cup Two(8) \cup Cell(16, 8) \cup Cell(17, 8), 4))
        = Pair("area", 4, 8) \cup Pair("area", 12, 16) \cup At("area", 20, 8) \cup At("area", 21, 8)
  <2> DEFINE three == Two(0) \cup Two(8) \cup Cell(16, 8)
  <2>1. In("area", Moved(three, 4)) = In("area", Two(4)) \cup In("area", Two(12)) \cup In("area", Cell(20, 8))
    BY <1>2, SpreadThree
  <2> HIDE DEF three
  <2>2. In("area", Moved(three \cup Cell(17, 8), 4)) = In("area", Moved(three, 4)) \cup In("area", Cell(21, 8))
    BY <1>2, Spread
  <2> QED BY <1>3, <1>4, <2>1, <2>2 DEF three
<1>6. In("area", Moved(Cell(0, 8) \cup Two(4) \cup Two(12), 4))
        = In("area", Cell(4, 8)) \cup In("area", Two(8)) \cup In("area", Two(16))
  BY <1>2, SpreadThree
<1>7. In("area", Moved(Cell(0, 8) \cup Two(4), 4)) = In("area", Cell(4, 8)) \cup In("area", Two(8))
  BY <1>2, Spread
<1>8. In("area", Two(0) \cup Two(8)) = In("area", Two(0)) \cup In("area", Two(8))
  BY CellsIn
<1>9. In("area", Moved(Cell(0, 8) \cup Two(4) \cup Two(12), 4))
        = At("area", 4, 8) \cup Pair("area", 8, 12) \cup Pair("area", 16, 20)
  BY <1>3, <1>4, <1>6
<1>10. In("area", Moved(Cell(0, 8) \cup Two(4), 4)) = At("area", 4, 8) \cup Pair("area", 8, 12)
  BY <1>3, <1>4, <1>7
<1>11. In("area", Moved(Two(0), 4)) = Pair("area", 4, 8)
  BY <1>2, <1>3
<1>12. In("area", Two(0) \cup Two(8)) = Pair("area", 0, 4) \cup Pair("area", 8, 12)
  BY <1>3, <1>8
<1> QED BY <1>5, <1>9, <1>10, <1>11, <1>12

LEMMA ReplacementIsThere ==
  ASSUME NEW ok \in BOOLEAN
  PROVE  In("return", OptionOf(Str, ok).cells)
           = At("return", 0, 8) \cup (IF ok THEN Pair("return", 4, 8) ELSE {})
<1> DEFINE payload == IF ok THEN Str ELSE Unit
<1>1. payload.cells = IF ok THEN Two(0) ELSE {}
  BY Scalars, StrLayout, Laid
<1>2. CaseOf({Unit, Str}, payload) = Layout(AlignUp(4 + 8, 4), 4, Cell(0, 8) \cup Moved(payload.cells, 4))
  <2> HIDE DEF payload
  <2>1. 0 \in Nat /\ 8 \in Nat /\ 1 \in {1, 4} /\ 0 <= 8
    OBVIOUS
  <2>2. CaseOf({Layout(0, 1, {}), Layout(8, 4, Two(0))}, payload)
          = Layout(AlignUp(4 + 8, 4), 4, Cell(0, 8) \cup Moved(payload.cells, 4))
    BY <2>1, VariantLayout
  <2> QED BY <2>2, Scalars, StrLayout
<1>3. OptionOf(Str, ok) = CaseOf({Unit, Str}, payload)
  BY DEF OptionOf
<1> HIDE DEF payload
<1>4. OptionOf(Str, ok).cells = Cell(0, 8) \cup Moved(payload.cells, 4)
  BY <1>2, <1>3, Laid
<1>5. In("return", OptionOf(Str, ok).cells) = At("return", 0, 8) \cup In("return", Moved(payload.cells, 4))
  BY <1>4, CellsIn, CellIn
<1>6. In("return", Moved(Two(0), 4)) = Pair("return", 4, 8)
  <2>1. Moved(Two(0), 4) = Two(0 + 4) /\ 0 + 4 = 4 /\ 4 + 4 = 8
    BY TwoMove
  <2>2. In("return", Two(4)) = Pair("return", 4, 4 + 4)
    BY TwoIn
  <2> QED BY <2>1, <2>2
<1>7. In("return", {}) = {}
  BY DEF In
<1> QED BY <1>1, <1>5, <1>6, <1>7, NothingMoves

LEMMA SlotsAsTokens ==
  ASSUME NEW a, NEW b, IsSeq(a), IsSeq(b)
  PROVE  /\ Slots(a, Len(b)) = [i \in DOMAIN b |-> IF i \in DOMAIN a THEN a[i] ELSE "none"]
         /\ DOMAIN Slots(a, Len(b)) \subseteq Int
<1>1. DOMAIN a = 1..Len(a) /\ DOMAIN b = 1..Len(b) /\ Len(a) \in Nat /\ Len(b) \in Nat
  BY DEF IsSeq
<1>2. \A i \in DOMAIN b : i <= Len(a) <=> i \in DOMAIN a
  BY <1>1
<1> QED BY <1>1, <1>2 DEF Slots

(* Every crossing of the boundary, for lists of any length. *)
LEMMA SidesAgree ==
  ASSUME NEW t \in Transfers, NEW s, s.ok \in BOOLEAN, IsSeq(s.a), IsSeq(s.b)
  PROVE  Host(t, s) = Guest(t, s)
<1>1. CASE t = "strings"
  <2>1. Host(t, s) = StringsAt("list", s.a) /\ Guest(t, s) = Strings("list", s.a)
    BY <1>1 DEF Host, Guest
  <2> QED BY <2>1, StringsAreThere
<1>2. CASE t = "entities"
  <2>1. Host(t, s) = EntitiesAt("list", s.a) /\ Guest(t, s) = Elements("list", s.a, Entity)
    BY <1>2 DEF Host, Guest
  <2> QED BY <2>1, EntitiesAreThere
<1>3. CASE t = "slots"
  <2> DEFINE slots == [i \in DOMAIN s.b |-> IF i \in DOMAIN s.a THEN s.a[i] ELSE "none"]
  <2>1. Host(t, s) = SlotsAt("list", Slots(s.a, Len(s.b))) /\ Guest(t, s) = Elements("list", slots, Slot)
    BY <1>3 DEF Host, Guest
  <2>2. Slots(s.a, Len(s.b)) = slots /\ DOMAIN slots \subseteq Int
    BY SlotsAsTokens
  <2> HIDE DEF slots
  <2> QED BY <2>1, <2>2, SlotsAreThere
<1>4. CASE t = "replacement"
  <2>1. Host(t, s) = ReplacementAt(s) /\ Guest(t, s) = In("return", OptionOf(Str, s.ok).cells)
    BY <1>4 DEF Host, Guest
  <2> QED BY <2>1, ReplacementIsThere DEF ReplacementAt
<1>5. CASE t = "detect-bot"
  <2>1. /\ Host(t, s) = DetectBotReads(s)
        /\ Guest(t, s) = In("area", ResultOf(s.ok, BotResult).cells)
                            \cup (IF s.ok THEN Strings("allowed", s.a) \cup Strings("denied", s.b) ELSE {})
    BY <1>5 DEF Host, Guest
  <2> DEFINE cells == Two(0) \cup Two(8) \cup Cell(16, 8) \cup Cell(17, 8)
  <2>2. In("area", Moved(cells, 4))
          = Pair("area", 4, 8) \cup Pair("area", 12, 16) \cup At("area", 20, 8) \cup At("area", 21, 8)
    BY FieldsOfResults
  <2>3. BotResult = Layout(20, 4, cells)
    BY BotResultLayout
  <2> HIDE DEF cells
  <2>4. In("area", ResultOf(s.ok, BotResult).cells)
          = At("area", 0, 8) \cup (IF s.ok THEN In("area", Moved(cells, 4)) ELSE ErrorReads)
    BY <2>3, ResultArea
  <2>5. Strings("allowed", s.a) = StringsAt("allowed", s.a) /\ Strings("denied", s.b) = StringsAt("denied", s.b)
    BY StringsAreThere
  <2> QED BY <2>1, <2>2, <2>4, <2>5 DEF DetectBotReads
<1>6. CASE t = "match-filters"
  <2>1. /\ Host(t, s) = MatchFiltersReads(s)
        /\ Guest(t, s) = In("area", ResultOf(s.ok, FilterResult).cells)
                            \cup (IF s.ok THEN Strings("matched", s.a) \cup Strings("undetermined", s.b) ELSE {})
    BY <1>6 DEF Host, Guest
  <2> DEFINE cells == Cell(0, 8) \cup Two(4) \cup Two(12)
  <2>2. In("area", Moved(cells, 4)) = At("area", 4, 8) \cup Pair("area", 8, 12) \cup Pair("area", 16, 20)
    BY FieldsOfResults
  <2>3. FilterResult = Layout(20, 4, cells)
    BY FilterResultLayout
  <2> HIDE DEF cells
  <2>4. In("area", ResultOf(s.ok, FilterResult).cells)
          = At("area", 0, 8) \cup (IF s.ok THEN In("area", Moved(cells, 4)) ELSE ErrorReads)
    BY <2>3, ResultArea
  <2>5. /\ Strings("matched", s.a) = StringsAt("matched", s.a)
        /\ Strings("undetermined", s.b) = StringsAt("undetermined", s.b)
    BY StringsAreThere
  <2> QED BY <2>1, <2>2, <2>4, <2>5 DEF MatchFiltersReads
<1>7. CASE t = "generate-fingerprint"
  <2>1. Host(t, s) = GenerateFingerprintReads(s) /\ Guest(t, s) = In("area", ResultOf(s.ok, Str).cells)
    BY <1>7 DEF Host, Guest
  <2>2. In("area", ResultOf(s.ok, Layout(8, 4, Two(0))).cells)
          = At("area", 0, 8) \cup (IF s.ok THEN In("area", Moved(Two(0), 4)) ELSE ErrorReads)
    BY ResultArea
  <2> QED BY <2>1, <2>2, StrLayout, FieldsOfResults DEF GenerateFingerprintReads
<1>8. CASE t = "validate-characteristics"
  <2>1. Host(t, s) = ValidateCharacteristicsReads(s) /\ Guest(t, s) = In("area", ResultOf(s.ok, Unit).cells)
    BY <1>8 DEF Host, Guest
  <2>2. In("area", ResultOf(s.ok, Layout(0, 1, {})).cells)
          = At("area", 0, 8) \cup (IF s.ok THEN In("area", Moved({}, 4)) ELSE ErrorReads)
    BY ResultArea
  <2>3. In("area", {}) = {}
    BY DEF In
  <2> QED BY <2>1, <2>2, <2>3, Scalars, NothingMoves DEF ValidateCharacteristicsReads
<1>9. CASE t = "is-valid-email"
  <2>1. /\ Host(t, s) = IsValidEmailReads(s)
        /\ Guest(t, s) = In("area", ResultOf(s.ok, EmailValidationResult).cells)
                            \cup (IF s.ok THEN Strings("blocked", s.a) ELSE {})
    BY <1>9 DEF Host, Guest
  <2> DEFINE cells == Cell(0, 8) \cup Two(4)
  <2>2. In("area", Moved(cells, 4)) = At("area", 4, 8) \cup Pair("area", 8, 12)
    BY FieldsOfResults
  <2>3. EmailValidationResult = Layout(12, 4, cells)
    BY EmailResultLayout
  <2> HIDE DEF cells
  <2>4. In("area", ResultOf(s.ok, EmailValidationResult).cells)
          = At("area", 0, 8) \cup (IF s.ok THEN In("area", Moved(cells, 4)) ELSE ErrorReads)
    BY <2>3, ResultArea
  <2>5. Strings("blocked", s.a) = StringsAt("blocked", s.a)
    BY StringsAreThere
  <2> QED BY <2>1, <2>2, <2>4, <2>5 DEF IsValidEmailReads
<1>10. CASE t = "detect-sensitive-info"
  <2>1. /\ Host(t, s) = DetectSensitiveInfoReads(s)
        /\ Guest(t, s) = In("area", SensitiveInfoResult.cells)
                            \cup Elements("allowed", s.a, Detected) \cup Elements("denied", s.b, Detected)
    BY <1>10 DEF Host, Guest
  <2>2. In("area", SensitiveInfoResult.cells) = Pair("area", 0, 4) \cup Pair("area", 8, 12)
    <3> DEFINE cells == Two(0) \cup Two(8)
    <3>1. In("area", cells) = Pair("area", 0, 4) \cup Pair("area", 8, 12)
      BY FieldsOfResults
    <3>2. SensitiveInfoResult = Layout(16, 4, cells)
      BY SensitiveResultLayout
    <3> HIDE DEF cells
    <3> QED BY <3>1, <3>2, Laid
  <2>3. /\ Elements("allowed", s.a, Detected) = DetectedAt("allowed", s.a)
        /\ Elements("denied", s.b, Detected) = DetectedAt("denied", s.b)
    BY DetectedAreThere
  <2> QED BY <2>1, <2>2, <2>3 DEF DetectSensitiveInfoReads
<1>11. CASE t = "redact"
  <2>1. Host(t, s) = RedactReads(s) /\ Guest(t, s) = In("area", Str.cells) \cup Elements("redacted", s.a, Redacted)
    BY <1>11 DEF Host, Guest, List
  <2>2. In("area", Str.cells) = Pair("area", 0, 4)
    <3>1. In("area", Two(0)) = Pair("area", 0, 0 + 4) /\ 0 + 4 = 4
      BY TwoIn
    <3> QED BY <3>1, StrLayout, Laid
  <2>3. RedactReads(s) = Pair("area", 0, 4) \cup Elements("redacted", s.a, Redacted)
    BY RedactedAreThere DEF RedactReads
  <2> QED BY <2>1, <2>2, <2>3
<1> QED BY <1>1, <1>2, <1>3, <1>4, <1>5, <1>6, <1>7, <1>8, <1>9, <1>10, <1>11 DEF Transfers

-----------------------------------------------------------------------------
(* The round trip of a redaction.                                          *)

(* out is cut into gaps with a marker behind each but the last: gap k goes *)
(* from from[k] to put[k] and marker k on to the next gap.  whole[k] is    *)
(* what is to come before gap k with what was behind each marker instead.  *)
Cut(S, out, N, gap, marker, behind, from, put, whole) ==
  /\ N \in Nat /\ out \in Seq(S)
  /\ gap \in [1..(N + 1) -> Seq(S)] /\ marker \in [1..N -> Seq(S)] /\ behind \in [1..N -> Seq(S)]
  /\ from \in [1..(N + 1) -> Nat] /\ put \in [1..(N + 1) -> Nat] /\ whole \in [1..(N + 1) -> Seq(S)]
  /\ from[1] = 0 /\ whole[1] = <<>> /\ put[N + 1] = Len(out)
  /\ \A k \in 1..(N + 1) :
       put[k] = from[k] + Len(gap[k]) /\ \A i \in 1..Len(gap[k]) : out[from[k] + i] = gap[k][i]
  /\ \A k \in 1..N :
       /\ from[k + 1] = put[k] + Len(marker[k]) /\ MatchesAt(marker[k], out, put[k])
       /\ whole[k + 1] = (whole[k] \o gap[k]) \o behind[k]

Strayless(out, N, marker, put) ==
  \A i \in 1..N : \A at \in 0..Len(out) :
    marker[i] # <<>> /\ MatchesAt(marker[i], out, at) => \E j \in 1..N : marker[j] = marker[i] /\ put[j] = at

(* Every marker that is not empty has a pair, which gives what is behind.  *)
Reverses(pairs, N, marker, behind) ==
  /\ DOMAIN pairs \subseteq 1..N
  /\ \A k \in DOMAIN pairs :
       /\ pairs[k].old = marker[k] /\ marker[k] # <<>>
       /\ \A j \in 1..N : marker[j] = marker[k] => behind[j] = pairs[k].new
  /\ \A j \in 1..N :
       IF marker[j] = <<>> THEN behind[j] = <<>> ELSE \E k \in DOMAIN pairs : marker[k] = marker[j]

(* The replacer is in gap k and has written what comes before. *)
InGap(w, k, N, gap, from, put, whole) ==
  /\ k \in 1..(N + 1) /\ w.at \in Nat /\ from[k] <= w.at /\ w.at <= put[k]
  /\ w.after = FALSE /\ w.text = whole[k] \o SubSeq(gap[k], 1, w.at - from[k])

AllOf(N, gap, whole) == whole[N + 1] \o gap[N + 1]

(* A step of the replacer, from w to y, goes on in a gap or is the last.   *)
GoesOn(w, y, out, N, gap, from, put, whole) ==
  \/ y.at > w.at /\ \E k \in 1..(N + 1) : InGap(y, k, N, gap, from, put, whole)
  \/ y.at = Len(out) + 1 /\ y.text = whole[N + 1] \o gap[N + 1]

LEMMA GapsInOrder ==
  ASSUME NEW S, NEW out, NEW N, NEW gap, NEW marker, NEW behind, NEW from, NEW put, NEW whole,
         Cut(S, out, N, gap, marker, behind, from, put, whole)
  PROVE  /\ \A k \in 1..(N + 1) : from[k] <= put[k]
         /\ \A j, k \in 1..(N + 1) : j < k => put[j] + Len(marker[j]) <= from[k]
         /\ \A k \in 1..N : Len(marker[k]) \in Nat /\ (Len(marker[k]) = 0 <=> marker[k] = <<>>)
<1>1. /\ N \in Nat /\ from \in [1..(N + 1) -> Nat] /\ put \in [1..(N + 1) -> Nat]
      /\ gap \in [1..(N + 1) -> Seq(S)] /\ marker \in [1..N -> Seq(S)]
      /\ \A k \in 1..(N + 1) : put[k] = from[k] + Len(gap[k])
      /\ \A k \in 1..N : from[k + 1] = put[k] + Len(marker[k])
  BY DEF Cut
<1>2. \A k \in 1..(N + 1) : Len(gap[k]) \in Nat
  BY <1>1, LenProperties
<1>3. \A k \in 1..N : Len(marker[k]) \in Nat /\ (Len(marker[k]) = 0 <=> marker[k] = <<>>)
  BY <1>1, LenProperties, EmptySeq
<1>4. \A k \in 1..(N + 1) : from[k] <= put[k]
  BY <1>1, <1>2
<1>5. ASSUME NEW j \in 1..N PROVE \A k \in 1..(N + 1) : j < k => put[j] + Len(marker[j]) <= from[k]
  <2> DEFINE P == {n \in Nat : j + 1 + n <= N + 1 => put[j] + Len(marker[j]) <= from[j + 1 + n]}
  <2>1. 0 \in P
    <3>1. j + 1 + 0 = j + 1
      OBVIOUS
    <3> QED BY <1>1, <1>3, <3>1, SMTT(20)
  <2>2. ASSUME NEW n \in P PROVE n + 1 \in P
    <3> SUFFICES ASSUME j + 1 + (n + 1) <= N + 1 PROVE put[j] + Len(marker[j]) <= from[j + 1 + (n + 1)]
      OBVIOUS
    <3>1. PICK m \in 1..N : m = j + 1 + n
      BY <1>1
    <3>2. m + 1 = j + 1 + (n + 1) /\ put[j] + Len(marker[j]) <= from[m]
      BY <1>1, <3>1
    <3>3. from[m + 1] = put[m] + Len(marker[m]) /\ from[m] <= put[m] /\ Len(marker[m]) \in Nat
      BY <1>1, <1>3, <1>4, <3>1
    <3>4. put[j] \in Nat /\ Len(marker[j]) \in Nat /\ from[m] \in Nat /\ put[m] \in Nat
      BY <1>1, <1>3, <3>1
    <3>5. put[j] + Len(marker[j]) <= from[m + 1]
      BY <3>2, <3>3, <3>4
    <3> QED BY <3>2, <3>5
  <2>3. P = Nat
    <3> HIDE DEF P
    <3> QED BY <2>1, <2>2, ByInduction DEF P
  <2>4. ASSUME NEW k \in 1..(N + 1), j < k PROVE put[j] + Len(marker[j]) <= from[k]
    <3>1. PICK n \in Nat : n = k - (j + 1)
      BY <1>1, <2>4
    <3>2. j + 1 + n = k /\ k <= N + 1
      BY <1>1, <3>1
    <3>3. n \in P
      <4> HIDE DEF P
      <4> QED BY <2>3
    <3> QED BY <3>2, <3>3
  <2> QED BY <2>4
<1>6. \A j, k \in 1..(N + 1) : j < k => j \in 1..N
  BY <1>1
<1> QED BY <1>3, <1>4, <1>5, <1>6

(* Where one step of the replacer takes it. *)
LEMMA AdvanceInGaps ==
  ASSUME NEW S, NEW out, NEW N, NEW gap, NEW marker, NEW behind, NEW from, NEW put, NEW whole, NEW pairs, NEW w,
         Cut(S, out, N, gap, marker, behind, from, put, whole),
         Strayless(out, N, marker, put), Reverses(pairs, N, marker, behind),
         NEW e \in 1..(N + 1), InGap(w, e, N, gap, from, put, whole)
  PROVE  GoesOn(w, Advance(pairs, out, w), out, N, gap, from, put, whole)
<1> SUFFICES LET y == Advance(pairs, out, w)
             IN \/ y.at > w.at /\ \E k \in 1..(N + 1) : InGap(y, k, N, gap, from, put, whole)
                \/ y.at = Len(out) + 1 /\ y.text = whole[N + 1] \o gap[N + 1]
  BY DEF GoesOn
<1> DEFINE Inside(v, k) == InGap(v, k, N, gap, from, put, whole)
<1>1. /\ N \in Nat /\ out \in Seq(S)
      /\ gap \in [1..(N + 1) -> Seq(S)] /\ marker \in [1..N -> Seq(S)] /\ behind \in [1..N -> Seq(S)]
      /\ from \in [1..(N + 1) -> Nat] /\ put \in [1..(N + 1) -> Nat] /\ whole \in [1..(N + 1) -> Seq(S)]
      /\ put[N + 1] = Len(out) /\ Len(out) \in Nat
  BY LenProperties DEF Cut
<1>2. /\ \A k \in 1..(N + 1) : from[k] <= put[k]
      /\ \A j, k \in 1..(N + 1) : j < k => put[j] + Len(marker[j]) <= from[k]
      /\ \A k \in 1..N : Len(marker[k]) \in Nat /\ (Len(marker[k]) = 0 <=> marker[k] = <<>>)
  BY GapsInOrder
<1>3. PICK k \in 1..(N + 1) : Inside(w, k) /\ \A j \in 1..(N + 1) : Inside(w, j) => j <= k
  <2> DEFINE T == {j \in 1..(N + 1) : Inside(w, j)}
  <2>1. T \in SUBSET Nat /\ T # {} /\ \A j \in T : j <= N + 1
    <3>1. T \in SUBSET (1..(N + 1)) /\ T # {}
      OBVIOUS
    <3> HIDE DEF T
    <3>2. N \in Nat
      BY <1>1
    <3> QED BY <3>1, <3>2
  <2>2. \E j \in T : \A i \in T : i <= j
    <3> HIDE DEF T
    <3>1. N + 1 \in Nat
      BY <1>1
    <3> QED BY <2>1, <3>1, GreatestExists
  <2> HIDE DEF Inside
  <2> QED BY <2>2
<1>4. /\ w.at \in Nat /\ from[k] <= w.at /\ w.at <= put[k]
      /\ w.after = FALSE /\ w.text = whole[k] \o SubSeq(gap[k], 1, w.at - from[k])
  BY <1>3 DEF InGap
<1>5. /\ put[k] = from[k] + Len(gap[k]) /\ \A i \in 1..Len(gap[k]) : out[from[k] + i] = gap[k][i]
      /\ Len(gap[k]) \in Nat /\ gap[k] \in Seq(S) /\ whole[k] \in Seq(S) /\ from[k] \in Nat /\ put[k] \in Nat
  BY <1>1, LenProperties DEF Cut
<1>6. put[k] <= Len(out)
  <2>1. CASE k = N + 1
    BY <1>1, <2>1
  <2>2. CASE k # N + 1
    <3>1. k \in 1..N /\ N + 1 \in 1..(N + 1) /\ k < N + 1
      BY <1>1, <2>2
    <3>2. put[k] + Len(marker[k]) <= from[N + 1] /\ from[N + 1] <= put[N + 1] /\ Len(marker[k]) \in Nat
      BY <1>2, <3>1
    <3>3. from[N + 1] \in Nat /\ put[k] \in Nat /\ put[N + 1] \in Nat /\ put[N + 1] = Len(out)
      BY <1>1, <3>1
    <3> QED BY <3>2, <3>3
  <2> QED BY <2>1, <2>2
<1>16. PICK at \in Nat, f \in Nat, p \in Nat, l \in Nat, o \in Nat :
         /\ at = w.at /\ f = from[k] /\ p = put[k] /\ l = Len(gap[k]) /\ o = Len(out)
         /\ f <= at /\ at <= p /\ p = f + l /\ p <= o
  <2>1. w.at \in Nat /\ from[k] \in Nat /\ put[k] \in Nat /\ Len(gap[k]) \in Nat /\ Len(out) \in Nat
    BY <1>1, <1>4, <1>5
  <2>2. from[k] <= w.at /\ w.at <= put[k] /\ put[k] = from[k] + Len(gap[k]) /\ put[k] <= Len(out)
    BY <1>4, <1>5, <1>6
  <2> QED BY <2>1, <2>2
<1>17. f <= at /\ at <= p /\ p = f + l /\ p <= o
  BY <1>16
<1>7. ASSUME w.at = put[k] PROVE w.text = whole[k] \o gap[k]
  <2>1. w.at - from[k] = Len(gap[k])
    BY <1>7, <1>16
  <2>2. SubSeq(gap[k], 1, Len(gap[k])) = gap[k]
    BY <1>5, SubSeqFull
  <2> QED BY <1>4, <2>1, <2>2
(* Inside the end of a gap comes a marker that can be seen. *)
<1>8. ASSUME w.at = put[k], k \in 1..N PROVE marker[k] # <<>>
  <2> SUFFICES ASSUME marker[k] = <<>> PROVE FALSE
    OBVIOUS
  <2>1. k + 1 \in 1..(N + 1) /\ from[k + 1] = w.at /\ from[k + 1] <= put[k + 1]
    <3>1. k + 1 \in 1..(N + 1)
      BY <1>1, <1>8
    <3>2. from[k + 1] = put[k] + Len(marker[k]) /\ Len(marker[k]) = 0
      BY <1>2, <1>8 DEF Cut
    <3> QED BY <1>2, <1>5, <1>8, <3>1, <3>2
  <2>2. whole[k + 1] = w.text
    <3>1. whole[k + 1] = (whole[k] \o gap[k]) \o behind[k] /\ behind[k] = <<>>
      BY <1>8 DEF Cut, Reverses
    <3>2. whole[k] \o gap[k] \in Seq(S)
      BY <1>5, ConcatProperties
    <3> QED BY <1>7, <1>8, <3>1, <3>2, ConcatEmptySeq
  <2>3. SubSeq(gap[k + 1], 1, w.at - from[k + 1]) = <<>>
    <3>1. w.at - from[k + 1] = 0
      BY <1>4, <2>1
    <3> QED BY <3>1, SubSeqEmpty
  <2>4. whole[k + 1] \o <<>> = whole[k + 1]
    BY <1>1, <2>1, ConcatEmptySeq
  <2>5. Inside(w, k + 1)
    <3>1. w.at \in Nat /\ from[k + 1] <= w.at /\ w.at <= put[k + 1] /\ w.after = FALSE
      BY <1>4, <1>16, <2>1
    <3>2. w.text = whole[k + 1] \o SubSeq(gap[k + 1], 1, w.at - from[k + 1])
      BY <2>2, <2>3, <2>4
    <3> QED BY <2>1, <3>1, <3>2 DEF InGap
  <2>6. k + 1 <= k
    <3> HIDE DEF Inside
    <3> QED BY <1>3, <2>1, <2>5
  <2> QED BY <1>8, <2>6
<1> DEFINE fit == {i \in DOMAIN pairs : MatchesAt(pairs[i].old, out, w.at) /\ ~(w.after /\ pairs[i].old = <<>>)}
           pair == pairs[Min(fit)]
           y == Advance(pairs, out, w)
<1>9. y = IF fit # {}
          THEN [at |-> w.at + Len(pair.old), after |-> pair.old = <<>>, text |-> w.text \o pair.new]
          ELSE [at |-> w.at + 1, after |-> FALSE,
                text |-> IF w.at = Len(out) THEN w.text ELSE Append(w.text, out[w.at + 1])]
  <2>1. ~(w.at > Len(out))
    BY <1>16
  <2> QED BY <2>1 DEF Advance
<1>10. \A i \in fit : i \in DOMAIN pairs /\ i \in 1..N /\ pairs[i].old = marker[i] /\ marker[i] # <<>> /\ MatchesAt(marker[i], out, w.at)
  BY DEF Reverses
<1>11. ASSUME k \in 1..N, w.at = put[k] PROVE fit # {}
  <2>1. PICK i \in DOMAIN pairs : marker[i] = marker[k]
    BY <1>8, <1>11 DEF Reverses
  <2>2. pairs[i].old = marker[k] /\ MatchesAt(marker[k], out, w.at)
    BY <1>11, <2>1 DEF Reverses, Cut
  <2>3. i \in fit
    BY <1>4, <2>1, <2>2
  <2> QED BY <2>3
<1> HIDE DEF fit, y, Inside
<1>12. CASE fit # {}
  <2>1. Min(fit) \in fit
    <3>1. fit \in SUBSET Nat
      BY <1>1, <1>10, SMTT(20)
    <3> QED BY <1>12, <3>1, MinIsLeast
  <2>2. PICK i \in 1..N : i = Min(fit) /\ i \in DOMAIN pairs /\ pairs[i].old = marker[i] /\ marker[i] # <<>> /\ MatchesAt(marker[i], out, w.at)
    BY <1>10, <2>1
  <2>3. w.at \in 0..Len(out)
    BY <1>16
  <2>4. PICK j \in 1..N : marker[j] = marker[i] /\ put[j] = w.at
    BY <2>2, <2>3 DEF Strayless
  <2>5. Len(marker[j]) > 0 /\ Len(marker[j]) \in Nat /\ j \in 1..(N + 1) /\ put[j] \in Nat
    <3>1. j \in 1..(N + 1)
      BY <1>1
    <3>2. Len(marker[j]) \in Nat /\ Len(marker[j]) # 0
      BY <1>2, <2>2, <2>4
    <3> QED BY <1>1, <3>1, <3>2
  <2>6. ~(j < k)
    <3> SUFFICES ASSUME j < k PROVE FALSE
      OBVIOUS
    <3>1. put[j] + Len(marker[j]) <= from[k]
      BY <1>2, <2>5
    <3> QED BY <1>16, <2>4, <2>5, <3>1, SMTT(20)
  <2>7. ~(k < j)
    <3> SUFFICES ASSUME k < j PROVE FALSE
      OBVIOUS
    <3>1. k \in 1..N
      BY <1>1, <2>5
    <3>2. put[k] + Len(marker[k]) <= from[j] /\ from[j] <= put[j] /\ Len(marker[k]) \in Nat /\ from[j] \in Nat
      BY <1>1, <1>2, <2>5, <3>1
    <3>3. PICK m \in Nat, g \in Nat : m = Len(marker[k]) /\ g = from[j] /\ p + m <= g /\ g <= at
      BY <1>16, <2>4, <3>2
    <3>4. at = p /\ m = 0
      <4>1. p + m <= g /\ g <= at
        BY <3>3
      <4> QED BY <1>17, <4>1
    <3>5. w.at = put[k] /\ Len(marker[k]) = 0
      BY <1>16, <3>3, <3>4
    <3> QED BY <1>2, <1>8, <3>1, <3>5
  <2>8. j = k /\ k \in 1..N /\ w.at = put[k]
    BY <2>4, <2>5, <2>6, <2>7
  <2>9. pair.old = marker[k] /\ pair.new = behind[k]
    BY <2>2, <2>4, <2>8 DEF Reverses
  <2>10. y = [at |-> w.at + Len(marker[k]), after |-> marker[k] = <<>>, text |-> w.text \o behind[k]]
    <3> HIDE DEF pair
    <3> QED BY <1>9, <1>12, <2>9
  <2>11. k + 1 \in 1..(N + 1) /\ from[k + 1] = put[k] + Len(marker[k]) /\ from[k + 1] <= put[k + 1] /\ from[k + 1] \in Nat
    <3>1. k + 1 \in 1..(N + 1)
      BY <1>1, <2>8
    <3> QED BY <1>1, <1>2, <2>8, <3>1 DEF Cut
  <2>12. y.at = from[k + 1] /\ y.after = FALSE /\ y.text = whole[k + 1]
    <3>1. whole[k + 1] = (whole[k] \o gap[k]) \o behind[k]
      BY <2>8 DEF Cut
    <3>2. marker[k] # <<>>
      BY <1>8, <2>8
    <3> QED BY <1>7, <2>8, <2>10, <2>11, <3>1, <3>2
  <2>13. SubSeq(gap[k + 1], 1, y.at - from[k + 1]) = <<>> /\ whole[k + 1] \o <<>> = whole[k + 1]
    <3>1. y.at - from[k + 1] = 0
      BY <2>11, <2>12
    <3>2. SubSeq(gap[k + 1], 1, 0) = <<>>
      BY SubSeqEmpty
    <3>3. whole[k + 1] \in Seq(S)
      BY <1>1, <2>11
    <3> QED BY <3>1, <3>2, <3>3, ConcatEmptySeq
  <2>14. Inside(y, k + 1)
    <3>1. y.at \in Nat /\ from[k + 1] <= y.at /\ y.at <= put[k + 1] /\ y.after = FALSE
      BY <2>11, <2>12
    <3>2. y.text = whole[k + 1] \o SubSeq(gap[k + 1], 1, y.at - from[k + 1])
      BY <2>12, <2>13
    <3> QED BY <2>11, <3>1, <3>2 DEF InGap, Inside
  <2>15. y.at > w.at
    BY <1>16, <2>5, <2>8, <2>11, <2>12, SMTT(20)
  <2> QED BY <2>11, <2>14, <2>15 DEF Inside, y
<1>13. CASE fit = {} /\ at < p
  <2>1. w.at # Len(out)
    <3>1. at # o
      BY <1>13, <1>16
    <3> QED BY <1>16, <3>1
  <2>2. y = [at |-> w.at + 1, after |-> FALSE, text |-> Append(w.text, out[w.at + 1])]
    BY <1>9, <1>13, <2>1
  <2>3. PICK i \in 1..Len(gap[k]) : i = at + 1 - f
    <3>1. at + 1 - f \in 1..l
      <4>1. at < p
        BY <1>13
      <4> QED BY <1>17, <4>1
    <3> QED BY <1>16, <3>1
  <2>4. out[w.at + 1] = gap[k][i] /\ i - 1 = w.at - from[k]
    <3>1. f + i = at + 1 /\ i - 1 = at - f
      BY <2>3
    <3>2. from[k] + i = w.at + 1 /\ i - 1 = w.at - from[k]
      BY <1>16, <3>1
    <3> QED BY <1>5, <3>2
  <2>5. SubSeq(gap[k], 1, i) = SubSeq(gap[k], 1, i - 1) \o <<gap[k][i]>>
    BY <1>5, SubSeqRecursiveSecond
  <2>6. Append(w.text, gap[k][i]) = whole[k] \o SubSeq(gap[k], 1, i)
    <3> DEFINE part == SubSeq(gap[k], 1, i - 1)
    <3>1. gap[k][i] \in S /\ <<gap[k][i]>> \in Seq(S)
      BY <1>5, ElementOfSeq
    <3>2. part \in Seq(S)
      BY <1>5, SubSeqProperties, ElementOfSeq
    <3>3. w.text = whole[k] \o part
      BY <1>4, <2>4
    <3> HIDE DEF part
    <3>6. w.text \in Seq(S)
      BY <1>5, <3>2, <3>3, ConcatProperties
    <3>4. Append(w.text, gap[k][i]) = (whole[k] \o part) \o <<gap[k][i]>>
      BY <3>1, <3>3, <3>6, AppendIsConcat
    <3>5. (whole[k] \o part) \o <<gap[k][i]>> = whole[k] \o (part \o <<gap[k][i]>>)
      <4> DEFINE a == whole[k]
                 c == <<gap[k][i]>>
      <4>1. a \in Seq(S) /\ part \in Seq(S) /\ c \in Seq(S)
        BY <1>5, <3>1, <3>2
      <4> HIDE DEF a, c
      <4>2. (a \o part) \o c = a \o (part \o c)
        BY <4>1, ConcatAssociative, SMTT(20)
      <4> QED BY <4>2 DEF a, c
    <3> QED BY <2>5, <3>4, <3>5 DEF part
  <2>7. y.at = w.at + 1 /\ y.after = FALSE /\ y.text = whole[k] \o SubSeq(gap[k], 1, y.at - from[k])
    <3>1. at + 1 - f = i
      BY <1>16, <2>3
    <3>2. w.at + 1 = at + 1 /\ from[k] = f
      BY <1>16
    <3>3. y.at = w.at + 1 /\ y.after = FALSE /\ y.text = Append(w.text, gap[k][i])
      BY <2>2, <2>4
    <3> HIDE DEF y
    <3>4. y.at - from[k] = i
      BY <3>1, <3>2, <3>3
    <3> QED BY <2>6, <3>3, <3>4
  <2>8. y.at \in Nat /\ from[k] <= y.at /\ y.at <= put[k] /\ y.at > w.at
    <3>1. at + 1 \in Nat /\ f <= at + 1 /\ at + 1 <= p /\ at + 1 > at
      BY <1>13, <1>16
    <3>2. y.at = at + 1
      BY <1>16, <2>7
    <3> QED BY <1>16, <3>1, <3>2
  <2>9. Inside(y, k)
    BY <2>7, <2>8 DEF InGap, Inside
  <2> QED BY <2>8, <2>9 DEF Inside, y
<1>14. CASE fit = {} /\ w.at = put[k]
  <2>1. k = N + 1
    BY <1>1, <1>11, <1>14
  <2>2. w.at = Len(out) /\ w.text = whole[N + 1] \o gap[N + 1]
    BY <1>1, <1>7, <1>14, <2>1
  <2>3. y.at = Len(out) + 1 /\ y.text = whole[N + 1] \o gap[N + 1]
    BY <1>9, <1>14, <2>2
  <2> QED BY <2>3 DEF y
<1>15. at < p \/ w.at = put[k]
  BY <1>16
<1> QED BY <1>12, <1>13, <1>14, <1>15

LEMMA AdvanceIsTyped ==
  ASSUME NEW S, NEW out, NEW N, NEW gap, NEW marker, NEW behind, NEW from, NEW put, NEW whole, NEW pairs,
         Cut(S, out, N, gap, marker, behind, from, put, whole), Reverses(pairs, N, marker, behind),
         NEW w \in [at : Nat, after : BOOLEAN, text : Seq(S)]
  PROVE  Advance(pairs, out, w) \in [at : Nat, after : BOOLEAN, text : Seq(S)]
<1> DEFINE fit == {i \in DOMAIN pairs : MatchesAt(pairs[i].old, out, w.at) /\ ~(w.after /\ pairs[i].old = <<>>)}
           pair == pairs[Min(fit)]
<1>1. /\ N \in Nat /\ out \in Seq(S) /\ Len(out) \in Nat
      /\ marker \in [1..N -> Seq(S)] /\ behind \in [1..N -> Seq(S)]
  BY LenProperties DEF Cut
<1>2. w.at \in Nat /\ w.text \in Seq(S)
  OBVIOUS
<1>3. CASE w.at > Len(out)
  BY <1>3 DEF Advance
<1>4. CASE w.at <= Len(out) /\ fit # {}
  <2>1. Min(fit) \in fit
    <3>1. fit \in SUBSET Nat
      BY <1>1 DEF Reverses
    <3> HIDE DEF fit
    <3> QED BY <1>4, <3>1, MinIsLeast
  <2>2. Min(fit) \in DOMAIN pairs /\ Min(fit) \in 1..N
    BY <2>1 DEF Reverses
  <2> HIDE DEF fit
  <2>3. pair.old \in Seq(S) /\ pair.new \in Seq(S)
    BY <1>1, <2>2 DEF Reverses
  <2>4. Len(pair.old) \in Nat /\ w.text \o pair.new \in Seq(S)
    <3> HIDE DEF pair
    <3> QED BY <1>2, <2>3, LenProperties, ConcatProperties
  <2>5. ~(w.at > Len(out))
    BY <1>1, <1>2, <1>4
  <2>6. Advance(pairs, out, w) = [at |-> w.at + Len(pair.old), after |-> pair.old = <<>>, text |-> w.text \o pair.new]
    BY <1>4, <2>5 DEF Advance, fit, pair
  <2> HIDE DEF pair
  <2>7. w.at + Len(pair.old) \in Nat /\ (pair.old = <<>>) \in BOOLEAN
    BY <1>2, <2>4
  <2> QED BY <2>4, <2>6, <2>7
<1>5. CASE w.at <= Len(out) /\ fit = {}
  <2>1. ~(w.at > Len(out))
    BY <1>1, <1>2, <1>5
  <2>2. Advance(pairs, out, w) =
          [at |-> w.at + 1, after |-> FALSE, text |-> IF w.at = Len(out) THEN w.text ELSE Append(w.text, out[w.at + 1])]
    BY <1>5, <2>1 DEF Advance
  <2>3. w.at # Len(out) => Append(w.text, out[w.at + 1]) \in Seq(S)
    <3> SUFFICES ASSUME w.at # Len(out) PROVE Append(w.text, out[w.at + 1]) \in Seq(S)
      OBVIOUS
    <3>1. w.at + 1 \in 1..Len(out)
      BY <1>1, <1>2, <1>5
    <3>2. out[w.at + 1] \in S
      BY <1>1, <3>1, ElementOfSeq
    <3> QED BY <1>2, <3>2, AppendProperties
  <2>4. w.at + 1 \in Nat
    BY <1>2
  <2> QED BY <1>2, <2>2, <2>3, <2>4
<1>6. w.at > Len(out) \/ w.at <= Len(out)
  BY <1>1, <1>2
<1> QED BY <1>3, <1>4, <1>5, <1>6

(* The replacer puts back what was behind every marker. *)
LEMMA Replaced ==
  ASSUME NEW S, NEW out, NEW N, NEW gap, NEW marker, NEW behind, NEW from, NEW put, NEW whole, NEW pairs,
         Cut(S, out, N, gap, marker, behind, from, put, whole),
         Strayless(out, N, marker, put), Reverses(pairs, N, marker, behind)
  PROVE  Replace(pairs, out) = AllOf(N, gap, whole)
<1> DEFINE T == [at : Nat, after : BOOLEAN, text : Seq(S)]
           start == [at |-> 0, after |-> FALSE, text |-> <<>>]
           M == 2 * (Len(out) + 1)
           step == [c \in (1..M) \X T |-> Advance(pairs, out, c[2])]
           Is(w) == w = [n \in 0..M |-> IF n = 0 THEN start ELSE Advance(pairs, out, w[n - 1])]
           Inside(v, k) == InGap(v, k, N, gap, from, put, whole)
           Finished(v) == v.at = Len(out) + 1 /\ v.text = whole[N + 1] \o gap[N + 1]
<1>1. Len(out) \in Nat /\ M \in Nat
  BY LenProperties DEF Cut
<1>2. start \in T
  BY EmptySeq
<1>3. step \in [(1..M) \X T -> T] /\ \A n \in 1..M, v \in T : step[<<n, v>>] = Advance(pairs, out, v)
  <2>1. \A v \in T : Advance(pairs, out, v) \in T
    BY AdvanceIsTyped
  <2> HIDE DEF T, M
  <2> QED BY <2>1
<1> HIDE DEF T, M, start, step
<1>4. PICK w \in [0..M -> T] : Runs(w, start, step, M)
  BY <1>1, <1>2, <1>3, LoopExists
<1>5. w[0] = start /\ \A n \in 1..M : n - 1 \in 0..M /\ w[n] = Advance(pairs, out, w[n - 1])
  <2>1. \A n \in 1..M : n - 1 \in 0..M /\ w[n - 1] \in T
    BY <1>1
  <2> QED BY <1>3, <1>4, <2>1 DEF Runs
<1>6. Is(w)
  <2>1. \A n \in 0..M : w[n] = IF n = 0 THEN start ELSE Advance(pairs, out, w[n - 1])
    BY <1>1, <1>5
  <2> QED BY <1>4, <2>1
<1>7. Replacing(pairs, out) = CHOOSE v : Is(v)
  BY DEF Replacing, start, M
<1>8. Is(Replacing(pairs, out))
  <2> HIDE DEF Is
  <2> QED BY <1>6, <1>7
<1>9. ASSUME NEW v, Is(v) PROVE v[0] = start /\ \A n \in 1..M : v[n] = Advance(pairs, out, v[n - 1])
  BY <1>1, <1>9
<1> DEFINE g == Replacing(pairs, out)
<1>10. g[0] = start /\ \A n \in 1..M : g[n] = Advance(pairs, out, g[n - 1])
  <2> HIDE DEF Is
  <2> QED BY <1>8, <1>9
<1> HIDE DEF g, Is, Inside
<1>18. ASSUME NEW v, NEW e \in 1..(N + 1), InGap(v, e, N, gap, from, put, whole)
       PROVE  GoesOn(v, Advance(pairs, out, v), out, N, gap, from, put, whole)
  BY <1>18, AdvanceInGaps
<1> DEFINE P == {n \in Nat : n <= M => Finished(g[n]) \/ (g[n].at >= n /\ \E k \in 1..(N + 1) : Inside(g[n], k))}
<1>11. 0 \in P
  <2>1. N \in Nat /\ 1 \in 1..(N + 1) /\ from[1] = 0 /\ whole[1] = <<>> /\ put[1] \in Nat
    BY DEF Cut
  <2>2. SubSeq(gap[1], 1, 0 - 0) = <<>> /\ <<>> \o <<>> = <<>>
    <3>1. SubSeq(gap[1], 1, 0) = <<>>
      BY SubSeqEmpty
    <3>2. <<>> \o <<>> = <<>>
      BY EmptySeq, ConcatEmptySeq
    <3> QED BY <3>1, <3>2
  <2>3. start.at = 0 /\ start.after = FALSE /\ start.text = <<>>
    BY DEF start
  <2>4. Inside(start, 1)
    BY <2>1, <2>2, <2>3 DEF InGap, Inside
  <2>5. g[0].at >= 0 /\ \E k \in 1..(N + 1) : Inside(g[0], k)
    BY <1>10, <2>1, <2>3, <2>4
  <2> QED BY <2>5
<1>12. ASSUME NEW n \in P PROVE n + 1 \in P
  <2> HIDE DEF Finished
  <2> SUFFICES ASSUME n + 1 <= M
               PROVE Finished(g[n + 1]) \/ (g[n + 1].at >= n + 1 /\ \E k \in 1..(N + 1) : Inside(g[n + 1], k))
    OBVIOUS
  <2>1. g[n + 1] = Advance(pairs, out, g[n])
    <3>1. n + 1 \in 1..M /\ n + 1 - 1 = n
      BY <1>1
    <3> QED BY <1>10, <3>1
  <2>2. n <= M /\ n \in Nat
    BY <1>1
  <2>3. CASE Finished(g[n])
    <3>1. g[n].at > Len(out)
      BY <1>1, <2>3 DEF Finished
    <3>2. Advance(pairs, out, g[n]) = g[n]
      BY <3>1 DEF Advance
    <3> QED BY <2>1, <2>3, <3>2
  <2>4. CASE g[n].at >= n /\ \E k \in 1..(N + 1) : Inside(g[n], k)
    <3> DEFINE y == Advance(pairs, out, g[n])
    <3>1. \/ y.at > g[n].at /\ \E k \in 1..(N + 1) : Inside(y, k)
          \/ Finished(y)
      <4> DEFINE v == g[n]
      <4>1. PICK e \in 1..(N + 1) : InGap(v, e, N, gap, from, put, whole)
        BY <2>4 DEF Inside
      <4> HIDE DEF v
      <4>2. GoesOn(v, Advance(pairs, out, v), out, N, gap, from, put, whole)
        BY <4>1, <1>18
      <4> QED BY <4>2 DEF Inside, Finished, v, GoesOn
    <3>2. ASSUME y.at > g[n].at, NEW k \in 1..(N + 1), Inside(y, k) PROVE y.at >= n + 1
      <4>1. y.at \in Nat
        BY <3>2 DEF Inside, InGap
      <4>2. g[n].at \in Nat
        BY <2>4 DEF Inside, InGap
      <4> HIDE DEF y
      <4> QED BY <2>2, <2>4, <3>2, <4>1, <4>2
    <3> HIDE DEF y
    <3> QED BY <2>1, <3>1, <3>2 DEF y
  <2> HIDE DEF Finished
  <2> QED BY <2>2, <2>3, <2>4
<1>13. P = Nat
  <2> HIDE DEF P
  <2> QED BY <1>11, <1>12, ByInduction DEF P
<1>14. Finished(g[M]) \/ (g[M].at >= M /\ \E k \in 1..(N + 1) : Inside(g[M], k))
  <2>1. M \in P /\ M <= M
    BY <1>1, <1>13
  <2> HIDE DEF Finished
  <2> QED BY <2>1
<1>15. ASSUME NEW k \in 1..(N + 1), Inside(g[M], k), g[M].at >= M PROVE FALSE
  <2>1. PICK a \in Nat : a = g[M].at /\ a <= put[k]
    BY <1>15 DEF Inside, InGap
  <2>2. put[k] <= Len(out)
    <3>1. N \in Nat /\ put[N + 1] = Len(out) /\ put \in [1..(N + 1) -> Nat] /\ from \in [1..(N + 1) -> Nat]
      BY DEF Cut
    <3>2. CASE k = N + 1
      BY <1>1, <3>1, <3>2
    <3>3. CASE k # N + 1
      <4>1. k \in 1..N /\ N + 1 \in 1..(N + 1) /\ k < N + 1
        BY <3>1, <3>3
      <4>2. put[k] + Len(marker[k]) <= from[N + 1] /\ from[N + 1] <= put[N + 1] /\ Len(marker[k]) \in Nat
        BY <4>1, GapsInOrder
      <4>3. from[N + 1] \in Nat /\ put[k] \in Nat
        BY <3>1, <4>1
      <4> QED BY <1>1, <3>1, <4>2, <4>3
    <3> QED BY <3>2, <3>3
  <2>3. put[k] \in Nat
    BY DEF Cut
  <2>4. a <= Len(out)
    BY <1>1, <2>1, <2>2, <2>3
  <2>5. a >= M
    BY <1>15, <2>1
  <2> QED BY <1>1, <2>4, <2>5 DEF M
<1>16. Finished(g[M])
  <2> HIDE DEF Finished
  <2> QED BY <1>14, <1>15
<1>17. Replace(pairs, out) = g[M].text
  BY DEF Replace, g, M
<1> QED BY <1>16, <1>17 DEF AllOf

(* What the component returns: N spans of a text, which may be out of      *)
(* order, and the markers that take their place.                           *)
Spans(S, text, N, found) ==
  /\ text \in Seq(S) /\ N \in Nat /\ Len(found) = N /\ DOMAIN found = 1..N
  /\ \A i \in 1..N :
       /\ found[i].start \in Nat /\ found[i].end \in Nat /\ found[i].start <= found[i].end
       /\ found[i].redacted \in Seq(S)

EndOf(found, n) == IF n = 0 THEN 0 ELSE found[n].end
StartOf(text, N, found, n) == IF n = N + 1 THEN Len(text) ELSE found[n].start
GapBefore(text, N, found, n) == SubSeq(text, EndOf(found, n - 1) + 1, StartOf(text, N, found, n))

Written(S) == [ok : BOOLEAN, text : Seq(S), pos : Nat]

LEMMA PartsAreTexts ==
  ASSUME NEW S, NEW text \in Seq(S), NEW i \in Nat, NEW j \in Nat, j <= Len(text)
  PROVE  /\ SubSeq(text, i + 1, j) \in Seq(S)
         /\ i <= j => Len(SubSeq(text, i + 1, j)) = j - i
<1>1. Len(text) \in Nat /\ i + 1 \in Int
  BY LenProperties
<1>2. \A n \in (i + 1)..j : text[n] \in S
  <2> SUFFICES ASSUME NEW n \in (i + 1)..j PROVE text[n] \in S
    OBVIOUS
  <2>1. n \in 1..Len(text)
    BY <1>1
  <2> QED BY <2>1, ElementOfSeq
<1>3. PICK m \in Int : m = i + 1
  OBVIOUS
<1>4. SubSeq(text, m, j) \in Seq(S) /\ Len(SubSeq(text, m, j)) = IF m <= j THEN j - m + 1 ELSE 0
  BY <1>2, <1>3, SubSeqProperties
<1>5. i <= j => IF m <= j THEN j - m + 1 = j - i ELSE 0 = j - i
  BY <1>3
<1> QED BY <1>3, <1>4, <1>5

LEMMA WriteIsTyped ==
  ASSUME NEW S, NEW text \in Seq(S), NEW b \in Written(S), NEW r,
         r.start \in Nat, r.end \in Nat, r.redacted \in Seq(S)
  PROVE  Write(text, b, r) \in Written(S)
<1>1. Failed \in Written(S)
  BY EmptySeq DEF Failed, Written
<1>2. b.text \in Seq(S) /\ b.pos \in Nat /\ Len(text) \in Nat
  BY LenProperties DEF Written
<1>3. CASE ~b.ok \/ r.start < b.pos \/ r.start > Len(text)
  BY <1>1, <1>3 DEF Write
<1>4. CASE ~(~b.ok \/ r.start < b.pos \/ r.start > Len(text))
  <2>1. r.start <= Len(text)
    BY <1>2, <1>4
  <2> DEFINE gap == SubSeq(text, b.pos + 1, r.start)
  <2>2. gap \in Seq(S)
    BY <1>2, <2>1, PartsAreTexts
  <2>3. Write(text, b, r) = [ok |-> TRUE, text |-> (b.text \o gap) \o r.redacted, pos |-> r.end]
    BY <1>4 DEF Write
  <2> HIDE DEF gap
  <2>4. b.text \o gap \in Seq(S)
    BY <1>2, <2>2, ConcatProperties
  <2>5. (b.text \o gap) \o r.redacted \in Seq(S)
    BY <2>4, ConcatProperties
  <2> QED BY <2>3, <2>5 DEF Written
<1> QED BY <1>3, <1>4

LEMMA RebuiltStates ==
  ASSUME NEW S, NEW text, NEW N, NEW found, Spans(S, text, N, found)
  PROVE  LET b == Rebuilt(text, found)
         IN /\ b[0] = [ok |-> TRUE, text |-> <<>>, pos |-> 0]
            /\ \A n \in 1..N : b[n] = Write(text, b[n - 1], found[n])
            /\ \A n \in 0..N : b[n] \in Written(S)
<1> DEFINE start == [ok |-> TRUE, text |-> <<>>, pos |-> 0]
           T == Written(S)
           step == [c \in (1..N) \X T |-> Write(text, c[2], found[c[1]])]
           Is(f) == f = [n \in 0..N |-> IF n = 0 THEN start ELSE Write(text, f[n - 1], found[n])]
<1>1. N \in Nat /\ Len(found) = N /\ text \in Seq(S)
  BY DEF Spans
<1>2. start \in T
  BY EmptySeq DEF Written
<1>3. step \in [(1..N) \X T -> T] /\ \A n \in 1..N, v \in T : step[<<n, v>>] = Write(text, v, found[n])
  <2>1. \A n \in 1..N, v \in T : Write(text, v, found[n]) \in T
    BY <1>1, WriteIsTyped DEF Spans
  <2> HIDE DEF T
  <2> QED BY <2>1
<1> HIDE DEF T, start, step
<1>4. PICK f \in [0..N -> T] : Runs(f, start, step, N)
  BY <1>1, <1>2, <1>3, LoopExists
<1>5. f[0] = start /\ \A n \in 1..N : n - 1 \in 0..N /\ f[n] = Write(text, f[n - 1], found[n])
  <2>1. \A n \in 1..N : n - 1 \in 0..N /\ f[n - 1] \in T
    BY <1>1
  <2> QED BY <1>3, <1>4, <2>1 DEF Runs
<1>6. Is(f)
  <2>1. \A n \in 0..N : f[n] = IF n = 0 THEN start ELSE Write(text, f[n - 1], found[n])
    BY <1>1, <1>5
  <2> QED BY <1>4, <2>1
<1>7. Rebuilt(text, found) = CHOOSE g : Is(g)
  BY <1>1 DEF Rebuilt, start
<1>8. Is(Rebuilt(text, found))
  <2> HIDE DEF Is
  <2> QED BY <1>6, <1>7
<1>9. ASSUME NEW g, Is(g) PROVE g[0] = start /\ \A n \in 1..N : g[n] = Write(text, g[n - 1], found[n])
  BY <1>1, <1>9
<1> DEFINE b == Rebuilt(text, found)
<1>10. b[0] = start /\ \A n \in 1..N : b[n] = Write(text, b[n - 1], found[n])
  <2> HIDE DEF Is
  <2> QED BY <1>8, <1>9
<1> HIDE DEF b, Is
<1> DEFINE P == {n \in Nat : n <= N => b[n] \in T}
<1>11. 0 \in P
  BY <1>2, <1>10
<1>12. ASSUME NEW n \in P PROVE n + 1 \in P
  <2> SUFFICES ASSUME n + 1 <= N PROVE b[n + 1] \in T
    OBVIOUS
  <2>1. n + 1 \in 1..N /\ n + 1 - 1 = n /\ b[n] \in T
    BY <1>1
  <2>2. b[n + 1] = Write(text, b[n], found[n + 1])
    BY <1>10, <2>1
  <2>3. /\ found[n + 1].start \in Nat /\ found[n + 1].end \in Nat /\ found[n + 1].redacted \in Seq(S)
    BY <2>1 DEF Spans
  <2> QED BY <1>1, <2>1, <2>2, <2>3, WriteIsTyped DEF T
<1>13. P = Nat
  <2> HIDE DEF P
  <2> QED BY <1>11, <1>12, ByInduction DEF P
<1>14. \A n \in 0..N : b[n] \in T
  <2> SUFFICES ASSUME NEW n \in 0..N PROVE b[n] \in T
    OBVIOUS
  <2>1. n \in P /\ n <= N
    BY <1>1, <1>13
  <2> QED BY <2>1
<1> QED BY <1>10, <1>14 DEF b, T, start

(* The pass goes on for as long as the spans are in order and in the text. *)
Follows(text, found, i) == EndOf(found, i - 1) <= found[i].start /\ found[i].start <= Len(text)

LEMMA OkWhileInOrder ==
  ASSUME NEW S, NEW text, NEW N, NEW found, Spans(S, text, N, found), NEW n \in 0..N
  PROVE  LET b == Rebuilt(text, found)
         IN /\ b[n].ok <=> \A i \in 1..n : Follows(text, found, i)
            /\ b[n].ok => b[n].pos = EndOf(found, n)
<1> DEFINE b == Rebuilt(text, found)
           P == {k \in Nat : k <= N => /\ b[k].ok <=> \A i \in 1..k : Follows(text, found, i)
                                       /\ b[k].ok => b[k].pos = EndOf(found, k)}
<1>1. N \in Nat /\ Len(text) \in Nat /\ \A i \in 1..N : found[i].start \in Nat /\ found[i].end \in Nat
  BY LenProperties DEF Spans
<1>2. /\ b[0] = [ok |-> TRUE, text |-> <<>>, pos |-> 0]
      /\ \A k \in 1..N : b[k] = Write(text, b[k - 1], found[k])
      /\ \A k \in 0..N : b[k] \in Written(S)
  BY RebuiltStates
<1> HIDE DEF b
<1>3. 0 \in P
  <2>1. b[0].ok /\ b[0].pos = 0 /\ EndOf(found, 0) = 0
    BY <1>2 DEF EndOf
  <2> QED BY <2>1
<1>4. ASSUME NEW k \in P PROVE k + 1 \in P
  <2> DEFINE r == found[k + 1]
  <2> SUFFICES ASSUME k + 1 <= N
               PROVE  /\ b[k + 1].ok <=> \A i \in 1..(k + 1) : Follows(text, found, i)
                      /\ b[k + 1].ok => b[k + 1].pos = EndOf(found, k + 1)
    OBVIOUS
  <2>1. k + 1 \in 1..N /\ k \in 0..N /\ k + 1 - 1 = k /\ k + 1 # 0 /\ k <= N
    BY <1>1
  <2>2. b[k + 1] = Write(text, b[k], r)
    BY <1>2, <2>1
  <2>3. /\ b[k].ok <=> \A i \in 1..k : Follows(text, found, i)
        /\ b[k].ok => b[k].pos = EndOf(found, k)
    BY <2>1
  <2>4. b[k].ok \in BOOLEAN /\ b[k].pos \in Nat
    BY <1>2, <2>1 DEF Written
  <2>5. r.start \in Nat
    BY <1>1, <2>1
  <2>6. 1..(k + 1) = (1..k) \cup {k + 1}
    BY <2>1
  <2>7. Follows(text, found, k + 1) <=> EndOf(found, k) <= r.start /\ r.start <= Len(text)
    BY <2>1 DEF Follows
  <2>8. EndOf(found, k + 1) = r.end
    BY <2>1 DEF EndOf
  <2> HIDE DEF r
  <2>9. CASE b[k].ok /\ Follows(text, found, k + 1)
    <3>1. ~(~b[k].ok \/ r.start < b[k].pos \/ r.start > Len(text))
      BY <1>1, <2>3, <2>4, <2>5, <2>7, <2>9
    <3>2. b[k + 1].ok = TRUE /\ b[k + 1].pos = r.end
      BY <2>2, <3>1 DEF Write
    <3> QED BY <2>3, <2>6, <2>8, <2>9, <3>2
  <2>10. CASE ~(b[k].ok /\ Follows(text, found, k + 1))
    <3>1. ~b[k].ok \/ r.start < b[k].pos \/ r.start > Len(text)
      BY <1>1, <2>3, <2>4, <2>5, <2>7, <2>10
    <3>2. b[k + 1].ok = FALSE
      BY <2>2, <3>1 DEF Write, Failed
    <3> QED BY <2>3, <2>6, <2>10, <3>2
  <2> QED BY <2>9, <2>10
<1>5. P = Nat
  <2> HIDE DEF P
  <2> QED BY <1>3, <1>4, ByInduction DEF P
<1>6. n \in P /\ n <= N
  BY <1>1, <1>5
<1> QED BY <1>6 DEF b

LEMMA ErrorUnlessInOrder ==
  ASSUME NEW S, NEW text, NEW N, NEW found, Spans(S, text, N, found)
  PROVE  LET Ordered == \A i \in 1..(N - 1) : found[i].end <= found[i + 1].start
             Within == \A i \in 1..N : found[i].end <= Len(text)
             b == Rebuilt(text, found)[N]
         IN /\ Rebuild(text, found).ok <=> Ordered /\ Within
            /\ Rebuild(text, found).ok => b.ok /\ b.pos <= Len(text)
<1> DEFINE Ordered == \A i \in 1..(N - 1) : found[i].end <= found[i + 1].start
           Within == \A i \in 1..N : found[i].end <= Len(text)
           b == Rebuilt(text, found)[N]
<1>1. /\ N \in Nat /\ Len(found) = N /\ Len(text) \in Nat
      /\ \A i \in 1..N : found[i].start \in Nat /\ found[i].end \in Nat /\ found[i].start <= found[i].end
  BY LenProperties DEF Spans
<1>2. N \in 0..N
  BY <1>1
<1>3. /\ b.ok <=> \A i \in 1..N : Follows(text, found, i)
      /\ b.ok => b.pos = EndOf(found, N)
  BY <1>2, OkWhileInOrder
<1>4. b.ok \in BOOLEAN /\ b.pos \in Nat
  BY <1>2, RebuiltStates DEF Written
<1>5. Rebuild(text, found).ok <=> b.ok /\ b.pos <= Len(text)
  <2>1. CASE ~b.ok \/ b.pos > Len(text)
    <3>1. Rebuild(text, found) = Failed
      BY <1>1, <2>1 DEF Rebuild
    <3>2. ~Failed.ok
      BY DEF Failed
    <3>3. ~(b.ok /\ b.pos <= Len(text))
      BY <1>1, <1>4, <2>1
    <3> QED BY <3>1, <3>2, <3>3
  <2>2. CASE ~(~b.ok \/ b.pos > Len(text))
    <3>1. Rebuild(text, found) = [b EXCEPT !.text = @ \o SubSeq(text, b.pos + 1, Len(text))]
      BY <1>1, <2>2 DEF Rebuild
    <3>2. b \in Written(S)
      BY <1>2, RebuiltStates
    <3>3. Rebuild(text, found).ok = b.ok
      <4> HIDE DEF b
      <4> QED BY <3>1, <3>2 DEF Written
    <3>4. b.ok /\ b.pos <= Len(text)
      BY <1>1, <1>4, <2>2
    <3> QED BY <3>3, <3>4
  <2> QED BY <2>1, <2>2
<1> HIDE DEF b
<1>6. ASSUME Ordered, Within PROVE b.ok /\ b.pos <= Len(text)
  <2>1. ASSUME NEW i \in 1..N PROVE Follows(text, found, i)
    <3>1. found[i].start <= found[i].end /\ found[i].end <= Len(text) /\ found[i].start \in Nat /\ found[i].end \in Nat
      BY <1>1, <1>6
    <3>2. found[i].start <= Len(text)
      BY <1>1, <3>1
    <3>3. EndOf(found, i - 1) <= found[i].start
      <4>1. CASE i = 1
        <5>1. i - 1 = 0
          BY <4>1
        <5> QED BY <3>1, <5>1 DEF EndOf
      <4>2. CASE i # 1
        <5>1. i - 1 \in 1..(N - 1) /\ i - 1 + 1 = i /\ i - 1 # 0
          BY <1>1, <4>2
        <5>2. found[i - 1].end <= found[i].start
          BY <1>6, <5>1
        <5> QED BY <5>1, <5>2 DEF EndOf
      <4> QED BY <4>1, <4>2
    <3> QED BY <3>2, <3>3 DEF Follows
  <2>2. b.ok /\ b.pos = EndOf(found, N)
    BY <1>3, <2>1
  <2>3. EndOf(found, N) <= Len(text)
    <3>1. CASE N = 0
      BY <1>1, <3>1 DEF EndOf
    <3>2. CASE N # 0
      <4>1. N \in 1..N
        BY <1>1, <3>2
      <4> QED BY <1>6, <3>2, <4>1 DEF EndOf
    <3> QED BY <3>1, <3>2
  <2> QED BY <2>2, <2>3
<1>7. ASSUME b.ok, b.pos <= Len(text) PROVE Ordered /\ Within
  <2>1. \A i \in 1..N : EndOf(found, i - 1) <= found[i].start /\ found[i].start <= Len(text)
    BY <1>3, <1>7 DEF Follows
  <2>2. ASSUME NEW i \in 1..(N - 1) PROVE found[i].end <= found[i + 1].start /\ found[i + 1].start <= Len(text)
    <3>1. i + 1 \in 1..N /\ i + 1 - 1 = i /\ i # 0
      BY <1>1
    <3> QED BY <2>1, <3>1 DEF EndOf
  <2>3. ASSUME NEW i \in 1..N PROVE found[i].end <= Len(text)
    <3>1. CASE i = N
      <4>1. b.pos = found[i].end
        BY <1>3, <1>7, <3>1 DEF EndOf
      <4> QED BY <1>7, <4>1
    <3>2. CASE i # N
      <4>1. i \in 1..(N - 1) /\ i + 1 \in 1..N
        BY <1>1, <3>2
      <4>2. found[i].end \in Nat /\ found[i + 1].start \in Nat
        BY <1>1, <4>1
      <4> QED BY <1>1, <2>2, <4>1, <4>2
    <3> QED BY <3>1, <3>2
  <2> QED BY <2>2, <2>3
<1> QED BY <1>5, <1>6, <1>7 DEF b

(* What the pass writes when it does not fail. *)
InPieces(S, text, N, found, b, out) ==
  /\ \A k \in 0..N : b[k].text \in Seq(S) /\ b[k].pos = EndOf(found, k)
  /\ \A k \in 1..(N + 1) : GapBefore(text, N, found, k) \in Seq(S)
  /\ \A k \in 1..N :
       /\ b[k].text = (b[k - 1].text \o GapBefore(text, N, found, k)) \o found[k].redacted
       /\ Len(GapBefore(text, N, found, k)) = found[k].start - EndOf(found, k - 1)
  /\ b[0].text = <<>> /\ out = b[N].text \o GapBefore(text, N, found, N + 1)

LEMMA WrittenPieces ==
  ASSUME NEW S, NEW text, NEW N, NEW found, Spans(S, text, N, found), Rebuild(text, found).ok
  PROVE  InPieces(S, text, N, found, Rebuilt(text, found), Rebuild(text, found).text)
<1> DEFINE b == Rebuilt(text, found)
           gap(n) == GapBefore(text, N, found, n)
<1>1. /\ N \in Nat /\ Len(found) = N /\ Len(text) \in Nat /\ text \in Seq(S)
      /\ \A i \in 1..N : found[i].start \in Nat /\ found[i].end \in Nat
  BY LenProperties DEF Spans
<1>2. /\ b[0] = [ok |-> TRUE, text |-> <<>>, pos |-> 0]
      /\ \A k \in 1..N : b[k] = Write(text, b[k - 1], found[k])
      /\ \A k \in 0..N : b[k] \in Written(S)
  BY RebuiltStates
<1>3. b[N].ok /\ b[N].pos <= Len(text)
  BY ErrorUnlessInOrder
<1>4. ASSUME NEW k \in 0..N
      PROVE  /\ b[k].ok <=> \A i \in 1..k : Follows(text, found, i)
             /\ b[k].ok => b[k].pos = EndOf(found, k)
  BY <1>4, OkWhileInOrder
<1> HIDE DEF b
<1>5. N \in 0..N /\ \A i \in 1..N : Follows(text, found, i)
  <2>1. N \in 0..N
    BY <1>1
  <2> QED BY <1>3, <1>4, <2>1
<1>6. \A k \in 0..N : b[k].ok /\ b[k].pos = EndOf(found, k) /\ b[k].text \in Seq(S) /\ b[k].pos \in Nat
  <2> SUFFICES ASSUME NEW k \in 0..N
               PROVE b[k].ok /\ b[k].pos = EndOf(found, k) /\ b[k].text \in Seq(S) /\ b[k].pos \in Nat
    OBVIOUS
  <2>1. \A i \in 1..k : i \in 1..N
    BY <1>1
  <2>2. b[k].ok
    BY <1>4, <1>5, <2>1
  <2> QED BY <1>2, <1>4, <2>2 DEF Written
<1>7. ASSUME NEW k \in 1..N
      PROVE  /\ gap(k) \in Seq(S) /\ Len(gap(k)) = found[k].start - EndOf(found, k - 1)
             /\ b[k].text = (b[k - 1].text \o gap(k)) \o found[k].redacted
  <2>1. k - 1 \in 0..N /\ k # N + 1
    BY <1>1
  <2>2. PICK i \in Nat, j \in Nat : i = EndOf(found, k - 1) /\ j = found[k].start /\ i = b[k - 1].pos
    BY <1>1, <1>6, <2>1
  <2>3. i <= j /\ j <= Len(text)
    BY <1>5, <2>2 DEF Follows
  <2>4. gap(k) = SubSeq(text, i + 1, j)
    BY <2>1, <2>2 DEF GapBefore, StartOf
  <2>5. SubSeq(text, i + 1, j) \in Seq(S) /\ Len(SubSeq(text, i + 1, j)) = j - i
    BY <1>1, <2>3, PartsAreTexts
  <2>6. ~(~b[k - 1].ok \/ found[k].start < b[k - 1].pos \/ found[k].start > Len(text))
    <3>1. ~(j < i) /\ ~(j > Len(text))
      BY <1>1, <2>3
    <3> QED BY <1>6, <2>1, <2>2, <3>1
  <2>7. b[k].text = (b[k - 1].text \o SubSeq(text, i + 1, j)) \o found[k].redacted
    <3> DEFINE v == b[k - 1]
               r == found[k]
    <3>1. b[k] = Write(text, v, r) /\ v.pos + 1 = i + 1 /\ r.start = j
      BY <1>2, <2>2
    <3>2. ~(~v.ok \/ r.start < v.pos \/ r.start > Len(text))
      BY <2>6
    <3> HIDE DEF v, r
    <3>3. b[k].text = (v.text \o SubSeq(text, v.pos + 1, r.start)) \o r.redacted
      <4> DEFINE whole == (v.text \o SubSeq(text, v.pos + 1, r.start)) \o r.redacted
      <4>1. Write(text, v, r) = [ok |-> TRUE, text |-> whole, pos |-> r.end]
        BY <3>2 DEF Write
      <4> HIDE DEF whole
      <4>2. b[k] = Write(text, v, r)
        BY <3>1
      <4>3. Write(text, v, r).text = whole
        BY <4>1
      <4> QED BY <4>2, <4>3 DEF whole
    <3> QED BY <3>1, <3>3 DEF v, r
  <2> QED BY <2>2, <2>4, <2>5, <2>7
<1>8. gap(N + 1) \in Seq(S) /\ gap(N + 1) = SubSeq(text, b[N].pos + 1, Len(text))
  <2>1. PICK i \in Nat : i = EndOf(found, N) /\ i = b[N].pos
    BY <1>5, <1>6
  <2>2. gap(N + 1) = SubSeq(text, i + 1, Len(text))
    <3>1. PICK n \in Nat : n = N + 1
      BY <1>1
    <3>2. n - 1 = N
      BY <1>1, <3>1
    <3>3. GapBefore(text, N, found, n) = SubSeq(text, EndOf(found, N) + 1, Len(text))
      BY <3>1, <3>2 DEF GapBefore, StartOf
    <3> QED BY <2>1, <3>1, <3>3
  <2>3. SubSeq(text, i + 1, Len(text)) \in Seq(S)
    BY <1>1, PartsAreTexts
  <2> QED BY <2>1, <2>2, <2>3
<1>9. Rebuild(text, found).text = b[N].text \o gap(N + 1)
  <2>1. ~(~b[N].ok \/ b[N].pos > Len(text))
    <3>1. b[N].pos \in Nat
      BY <1>5, <1>6
    <3> QED BY <1>1, <1>3, <3>1
  <2>2. Rebuild(text, found) = [b[N] EXCEPT !.text = @ \o SubSeq(text, b[N].pos + 1, Len(text))]
    BY <1>1, <2>1 DEF Rebuild, b
  <2>3. b[N] \in Written(S)
    BY <1>2, <1>5
  <2> HIDE DEF gap
  <2> QED BY <1>8, <2>2, <2>3 DEF Written
<1>10. \A k \in 1..(N + 1) : gap(k) \in Seq(S)
  <2> SUFFICES ASSUME NEW k \in 1..(N + 1) PROVE gap(k) \in Seq(S)
    OBVIOUS
  <2>1. k = N + 1 \/ k \in 1..N
    BY <1>1
  <2> HIDE DEF gap
  <2> QED BY <1>7, <1>8, <2>1
<1> HIDE DEF gap
<1>11. b[0].text = <<>>
  BY <1>2
<1> QED BY <1>6, <1>7, <1>9, <1>10, <1>11 DEF b, gap, InPieces

(* A text that begins with another has its symbols at the same places. *)
Growing(S, N, t) == t \in [0..N -> Seq(S)] /\ \A k \in 1..N : \E e \in Seq(S) : t[k] = t[k - 1] \o e

AllBegin(N, t) == \A k \in 0..N : Len(t[k]) <= Len(t[N]) /\ \A i \in 1..Len(t[k]) : t[N][i] = t[k][i]

LEMMA Beginnings ==
  ASSUME NEW S, NEW N \in Nat, NEW t, Growing(S, N, t)
  PROVE  AllBegin(N, t)
<1> DEFINE Begins(s, u) == Len(s) <= Len(u) /\ \A i \in 1..Len(s) : u[i] = s[i]
           P == {n \in Nat : n <= N => \A k \in 0..n : Begins(t[k], t[n])}
<1>0. t \in [0..N -> Seq(S)] /\ \A k \in 1..N : \E e \in Seq(S) : t[k] = t[k - 1] \o e
  BY DEF Growing
<1>1. \A k \in 0..N : Len(t[k]) \in Nat
  BY <1>0, LenProperties
<1>2. \A k \in 0..N : Begins(t[k], t[k])
  BY <1>1
<1>3. 0 \in P
  <2> HIDE DEF Begins
  <2>1. \A k \in 0..0 : k = 0 /\ k \in 0..N
    OBVIOUS
  <2> QED BY <1>2, <2>1
<1>4. ASSUME NEW n \in P PROVE n + 1 \in P
  <2> HIDE DEF Begins
  <2> SUFFICES ASSUME n + 1 <= N, NEW k \in 0..(n + 1) PROVE Begins(t[k], t[n + 1])
    OBVIOUS
  <2>1. n + 1 \in 1..N /\ n + 1 \in 0..N /\ n + 1 - 1 = n /\ n \in 0..N /\ n <= N
    OBVIOUS
  <2>2. PICK e \in Seq(S) : t[n + 1] = t[n] \o e
    <3>1. PICK m \in 1..N : m = n + 1
      BY <2>1
    <3>2. \E e \in Seq(S) : t[m] = t[m - 1] \o e
      BY <1>0
    <3>3. m - 1 = n
      BY <3>1
    <3> QED BY <3>1, <3>2, <3>3
  <2>3. Len(t[n + 1]) = Len(t[n]) + Len(e) /\ \A i \in 1..(Len(t[n]) + Len(e)) : t[n + 1][i] = IF i <= Len(t[n]) THEN t[n][i] ELSE e[i - Len(t[n])]
    BY <1>0, <2>1, <2>2, ConcatProperties
  <2>4. Len(e) \in Nat
    BY LenProperties
  <2>5. CASE k = n + 1
    BY <1>2, <2>1, <2>5
  <2>6. CASE k # n + 1
    <3>1. k \in 0..n /\ k \in 0..N
      BY <2>1, <2>6
    <3>2. Begins(t[k], t[n])
      BY <2>1, <3>1
    <3>3. Len(t[k]) \in Nat /\ Len(t[n]) \in Nat
      BY <1>1, <2>1, <3>1
    <3>4. Len(t[k]) <= Len(t[n + 1])
      <4>1. Len(t[k]) <= Len(t[n])
        BY <3>2 DEF Begins
      <4>2. PICK a \in Nat, c \in Nat, d \in Nat : a = Len(t[k]) /\ c = Len(t[n]) /\ d = Len(e)
        BY <2>4, <3>3
      <4>3. Len(t[n + 1]) = c + d /\ a <= c
        BY <2>3, <4>1, <4>2
      <4>4. a <= c + d
        BY <4>3
      <4> QED BY <4>2, <4>3, <4>4
    <3>5. ASSUME NEW i \in 1..Len(t[k]) PROVE t[n + 1][i] = t[k][i]
      <4>1. i \in 1..Len(t[k]) /\ Len(t[k]) <= Len(t[n]) /\ t[n][i] = t[k][i]
        BY <3>2 DEF Begins
      <4>2. i \in 1..(Len(t[n]) + Len(e)) /\ i <= Len(t[n])
        BY <2>4, <3>3, <4>1
      <4> QED BY <2>3, <4>1, <4>2
    <3> QED BY <3>4, <3>5 DEF Begins
  <2> QED BY <2>5, <2>6
<1>5. P = Nat
  <2> HIDE DEF P
  <2> QED BY <1>3, <1>4, ByInduction DEF P
<1>6. N \in P /\ N <= N
  <2> HIDE DEF P
  <2> QED BY <1>5
<1> HIDE DEF Begins
<1>7. \A k \in 0..N : Begins(t[k], t[N])
  BY <1>6
<1> QED BY <1>7 DEF Begins, AllBegin

LEMMA MatchesWhereWritten ==
  ASSUME NEW S, NEW m \in Seq(S), NEW out \in Seq(S), NEW at \in Nat, at + Len(m) <= Len(out),
         \A i \in 1..Len(m) : out[at + i] = m[i]
  PROVE  MatchesAt(m, out, at)
<1>1. Len(m) \in Nat /\ Len(out) \in Nat
  BY LenProperties
<1>2. PICK j \in Nat : j = at + Len(m)
  BY <1>1
<1>3. j <= Len(out) /\ at <= j
  BY <1>1, <1>2
<1> DEFINE s == SubSeq(out, at + 1, j)
<1>4. s \in Seq(S) /\ Len(s) = j - at
  BY <1>3, PartsAreTexts
<1>5. ASSUME NEW i \in 1..Len(m) PROVE s[i] = m[i]
  <2>1. PICK a \in Int : a = at + 1
    OBVIOUS
  <2>2. \A n \in a..j : out[n] \in S
    <3> SUFFICES ASSUME NEW n \in a..j PROVE out[n] \in S
      OBVIOUS
    <3>1. n \in 1..Len(out)
      BY <1>1, <1>3, <2>1
    <3> QED BY <3>1, ElementOfSeq
  <2>3. \A n \in 1..(j - a + 1) : SubSeq(out, a, j)[n] = out[a + n - 1]
    BY <2>2, SubSeqProperties
  <2>4. i \in 1..(j - a + 1) /\ a + i - 1 = at + i
    BY <1>1, <1>2, <2>1
  <2> QED BY <2>1, <2>3, <2>4
<1>6. Len(s) = Len(m)
  BY <1>1, <1>2, <1>4
<1> HIDE DEF s
<1>7. s = m
  BY <1>4, <1>5, <1>6, SeqEqual
<1>8. SubSeq(out, at + 1, at + Len(m)) = m
  BY <1>2, <1>7 DEF s
<1> QED BY <1>8 DEF MatchesAt

GapsOf(text, N, found) == [k \in 1..(N + 1) |-> GapBefore(text, N, found, k)]
MarkersOf(N, found) == [k \in 1..N |-> found[k].redacted]
StartsOf(text, N, found) == [k \in 1..(N + 1) |-> Len(Rebuilt(text, found)[k - 1].text)]
PutsOf(text, N, found) == [k \in 1..(N + 1) |-> StartsOf(text, N, found)[k] + Len(GapsOf(text, N, found)[k])]
WholesOf(text, N, found) == [k \in 1..(N + 1) |-> Rebuilt(text, found)[k - 1].text]

(* A text that is redacted is cut at its markers; what has other markers   *)
(* at the same spans is written along.                                     *)
LEMMA CutAtMarkers ==
  ASSUME NEW S, NEW text, NEW N, NEW found, NEW other, Spans(S, text, N, found), Spans(S, text, N, other),
         \A i \in 1..N : other[i].start = found[i].start /\ other[i].end = found[i].end,
         Rebuild(text, found).ok
  PROVE  /\ Cut(S, Rebuild(text, found).text, N, GapsOf(text, N, found), MarkersOf(N, found), MarkersOf(N, other),
                StartsOf(text, N, found), PutsOf(text, N, found), WholesOf(text, N, other))
         /\ Rebuild(text, other).text = WholesOf(text, N, other)[N + 1] \o GapsOf(text, N, found)[N + 1]
<1> DEFINE b == Rebuilt(text, found)
           c == Rebuilt(text, other)
           out == Rebuild(text, found).text
           gap == GapsOf(text, N, found)
           marker == MarkersOf(N, found)
           behind == MarkersOf(N, other)
           from == StartsOf(text, N, found)
           put == PutsOf(text, N, found)
           whole == WholesOf(text, N, other)
<1>1. /\ N \in Nat /\ text \in Seq(S)
      /\ \A i \in 1..N : found[i].redacted \in Seq(S) /\ other[i].redacted \in Seq(S)
  BY DEF Spans
<1>2. /\ \A k \in 0..N : b[k].text \in Seq(S)
      /\ \A k \in 1..(N + 1) : GapBefore(text, N, found, k) \in Seq(S)
      /\ \A k \in 1..N : b[k].text = (b[k - 1].text \o GapBefore(text, N, found, k)) \o found[k].redacted
      /\ b[0].text = <<>> /\ out = b[N].text \o GapBefore(text, N, found, N + 1)
  <2>1. InPieces(S, text, N, found, b, out)
    BY WrittenPieces
  <2> HIDE DEF b, out
  <2> QED BY <2>1 DEF InPieces
<1>3. \A k \in 1..(N + 1) : GapBefore(text, N, other, k) = GapBefore(text, N, found, k)
  <2> SUFFICES ASSUME NEW k \in 1..(N + 1) PROVE GapBefore(text, N, other, k) = GapBefore(text, N, found, k)
    OBVIOUS
  <2>1. EndOf(other, k - 1) = EndOf(found, k - 1)
    <3>1. k - 1 = 0 \/ k - 1 \in 1..N
      BY <1>1
    <3> QED BY <3>1 DEF EndOf
  <2>2. StartOf(text, N, other, k) = StartOf(text, N, found, k)
    <3>1. k = N + 1 \/ k \in 1..N
      BY <1>1
    <3> QED BY <3>1 DEF StartOf
  <2> QED BY <2>1, <2>2 DEF GapBefore
<1>4. Rebuild(text, other).ok
  <2>1. \A i \in 1..(N - 1) : i \in 1..N /\ i + 1 \in 1..N
    BY <1>1
  <2>2. (\A i \in 1..(N - 1) : found[i].end <= found[i + 1].start) /\ (\A i \in 1..N : found[i].end <= Len(text))
    BY ErrorUnlessInOrder
  <2>3. (\A i \in 1..(N - 1) : other[i].end <= other[i + 1].start) /\ (\A i \in 1..N : other[i].end <= Len(text))
    BY <2>1, <2>2
  <2> QED BY <2>3, ErrorUnlessInOrder
<1>5. /\ \A k \in 0..N : c[k].text \in Seq(S)
      /\ \A k \in 1..N : c[k].text = (c[k - 1].text \o GapBefore(text, N, other, k)) \o other[k].redacted
      /\ c[0].text = <<>> /\ Rebuild(text, other).text = c[N].text \o GapBefore(text, N, other, N + 1)
  <2>1. InPieces(S, text, N, other, c, Rebuild(text, other).text)
    BY <1>4, WrittenPieces
  <2> HIDE DEF c
  <2> QED BY <2>1 DEF InPieces
<1> HIDE DEF b, c, out
<1>6. /\ \A k \in 1..(N + 1) : gap[k] = GapBefore(text, N, found, k) /\ from[k] = Len(b[k - 1].text)
                               /\ put[k] = from[k] + Len(gap[k]) /\ whole[k] = c[k - 1].text
      /\ \A k \in 1..N : marker[k] = found[k].redacted /\ behind[k] = other[k].redacted
  BY DEF GapsOf, StartsOf, PutsOf, WholesOf, MarkersOf, b, c
<1>7. /\ gap \in [1..(N + 1) -> Seq(S)] /\ marker \in [1..N -> Seq(S)] /\ behind \in [1..N -> Seq(S)]
      /\ from \in [1..(N + 1) -> Nat] /\ put \in [1..(N + 1) -> Nat] /\ whole \in [1..(N + 1) -> Seq(S)]
  <2>1. \A k \in 1..(N + 1) : k - 1 \in 0..N
    BY <1>1
  <2>2. gap \in [1..(N + 1) -> Seq(S)] /\ marker \in [1..N -> Seq(S)] /\ behind \in [1..N -> Seq(S)]
    BY <1>1, <1>2 DEF GapsOf, MarkersOf
  <2>3. whole \in [1..(N + 1) -> Seq(S)]
    BY <1>5, <2>1 DEF WholesOf, c
  <2>4. \A k \in 1..(N + 1) : from[k] \in Nat
    BY <1>2, <1>6, <2>1, LenProperties
  <2>5. from \in [1..(N + 1) -> Nat]
    BY <2>4 DEF StartsOf
  <2>6. \A k \in 1..(N + 1) : put[k] \in Nat
    <3>1. \A k \in 1..(N + 1) : Len(gap[k]) \in Nat
      BY <2>2, LenProperties
    <3> HIDE DEF gap, from, put
    <3> QED BY <1>6, <2>4, <3>1, SMTT(20)
  <2>7. put \in [1..(N + 1) -> Nat]
    BY <2>6 DEF PutsOf
  <2> QED BY <2>2, <2>3, <2>5, <2>7
<1> HIDE DEF gap, marker, behind, from, put, whole
<1>8. out \in Seq(S) /\ Len(out) = Len(b[N].text) + Len(gap[N + 1])
      /\ \A i \in 1..(Len(b[N].text) + Len(gap[N + 1])) : out[i] = IF i <= Len(b[N].text) THEN b[N].text[i] ELSE gap[N + 1][i - Len(b[N].text)]
  <2>1. N \in 0..N /\ N + 1 \in 1..(N + 1)
    BY <1>1
  <2>2. b[N].text \in Seq(S) /\ gap[N + 1] \in Seq(S) /\ out = b[N].text \o gap[N + 1]
    BY <1>2, <1>6, <2>1
  <2> DEFINE last == gap[N + 1]
             first == b[N].text
  <2> HIDE DEF last, first
  <2>3. first \in Seq(S) /\ last \in Seq(S) /\ out = first \o last
    BY <2>2 DEF first, last
  <2>4. out \in Seq(S) /\ Len(out) = Len(first) + Len(last)
        /\ \A i \in 1..(Len(first) + Len(last)) : out[i] = IF i <= Len(first) THEN first[i] ELSE last[i - Len(first)]
    BY <2>3, ConcatProperties
  <2> QED BY <2>4 DEF first, last
(* What has been written stays where it is. *)
<1>9. \A k \in 0..N : Len(b[k].text) <= Len(out) /\ \A i \in 1..Len(b[k].text) : out[i] = b[k].text[i]
  <2> DEFINE t == [k \in 0..N |-> b[k].text]
  <2>1. t \in [0..N -> Seq(S)] /\ \A k \in 0..N : t[k] = b[k].text
    BY <1>2
  <2>2. ASSUME NEW k \in 1..N PROVE \E e \in Seq(S) : t[k] = t[k - 1] \o e
    <3>1. k - 1 \in 0..N /\ k \in 0..N /\ k \in 1..(N + 1)
      BY <1>1
    <3>2. b[k - 1].text \in Seq(S) /\ gap[k] \in Seq(S) /\ marker[k] \in Seq(S)
      BY <1>2, <1>7, <3>1
    <3>3. b[k].text = (b[k - 1].text \o gap[k]) \o marker[k]
      BY <1>2, <1>6, <3>1
    <3>4. (b[k - 1].text \o gap[k]) \o marker[k] = b[k - 1].text \o (gap[k] \o marker[k])
      <4> DEFINE x == b[k - 1].text
                 y == gap[k]
                 z == marker[k]
      <4>1. x \in Seq(S) /\ y \in Seq(S) /\ z \in Seq(S)
        BY <3>2
      <4> HIDE DEF x, y, z
      <4>2. (x \o y) \o z = x \o (y \o z)
        BY <4>1, ConcatAssociative
      <4> QED BY <4>2 DEF x, y, z
    <3>5. gap[k] \o marker[k] \in Seq(S)
      BY <3>2, ConcatProperties
    <3> HIDE DEF t
    <3> QED BY <2>1, <3>1, <3>3, <3>4, <3>5
  <2> HIDE DEF t
  <2>3. \A k \in 0..N : Len(t[k]) <= Len(t[N]) /\ \A i \in 1..Len(t[k]) : t[N][i] = t[k][i]
    <3>1. Growing(S, N, t)
      BY <2>1, <2>2 DEF Growing
    <3>2. AllBegin(N, t)
      BY <1>1, <3>1, Beginnings
    <3> QED BY <3>2 DEF AllBegin
  <2>4. N \in 0..N
    BY <1>1
  <2> SUFFICES ASSUME NEW k \in 0..N
               PROVE Len(b[k].text) <= Len(out) /\ \A i \in 1..Len(b[k].text) : out[i] = b[k].text[i]
    OBVIOUS
  <2>5. PICK l \in Nat, m \in Nat, g \in Nat : l = Len(b[k].text) /\ m = Len(b[N].text) /\ g = Len(gap[N + 1])
    <3>1. N + 1 \in 1..(N + 1)
      BY <1>1
    <3> QED BY <1>2, <1>7, <2>4, <3>1, LenProperties
  <2>6. l <= m /\ \A i \in 1..l : b[N].text[i] = b[k].text[i]
    BY <2>1, <2>3, <2>4, <2>5, SMTT(20)
  <2>7. Len(out) = m + g /\ \A i \in 1..(m + g) : out[i] = IF i <= m THEN b[N].text[i] ELSE gap[N + 1][i - m]
    BY <1>8, <2>5
  <2>8. l <= m + g
    BY <2>6
  <2>9. ASSUME NEW i \in 1..l PROVE out[i] = b[k].text[i]
    <3>1. i \in 1..(m + g) /\ i <= m
      BY <2>6
    <3> QED BY <2>6, <2>7, <3>1
  <2> QED BY <2>5, <2>7, <2>8, <2>9
<1>10. ASSUME NEW k \in 1..N
       PROVE  /\ from[k + 1] = put[k] + Len(marker[k]) /\ MatchesAt(marker[k], out, put[k])
              /\ \A i \in 1..Len(gap[k]) : out[from[k] + i] = gap[k][i]
              /\ whole[k + 1] = (whole[k] \o gap[k]) \o behind[k]
  <2>1. k - 1 \in 0..N /\ k \in 0..N /\ k \in 1..(N + 1) /\ k + 1 \in 1..(N + 1) /\ k + 1 - 1 = k
    BY <1>1
  <2> DEFINE s == b[k - 1].text
             g == gap[k]
             m == marker[k]
  <2>2. s \in Seq(S) /\ g \in Seq(S) /\ m \in Seq(S) /\ b[k].text = (s \o g) \o m
    BY <1>2, <1>6, <1>7, <2>1
  <2>3. PICK x \in Nat, y \in Nat, z \in Nat : x = Len(s) /\ y = Len(g) /\ z = Len(m)
    BY <2>2, LenProperties
  <2>4. from[k] = x /\ put[k] = x + y /\ from[k + 1] = Len(b[k].text)
    <3>1. PICK n \in 1..(N + 1) : n = k + 1 /\ n - 1 = k
      BY <2>1
    <3>2. from[n] = Len(b[k].text)
      BY <1>6, <3>1
    <3>3. from[k] = Len(s) /\ put[k] = from[k] + Len(g)
      BY <1>6, <2>1
    <3> HIDE DEF s, g, m
    <3> QED BY <2>3, <3>1, <3>2, <3>3
  <2> HIDE DEF s, g, m
  <2>5. s \o g \in Seq(S) /\ Len(s \o g) = x + y /\ \A i \in 1..(x + y) : (s \o g)[i] = IF i <= x THEN s[i] ELSE g[i - x]
    BY <2>2, <2>3, ConcatProperties
  <2>6. Len(b[k].text) = x + y + z
        /\ \A i \in 1..(x + y + z) : b[k].text[i] = IF i <= x + y THEN (s \o g)[i] ELSE m[i - (x + y)]
    BY <2>2, <2>3, <2>5, ConcatProperties
  <2>7. x + y + z <= Len(out) /\ \A i \in 1..(x + y + z) : out[i] = b[k].text[i]
    BY <1>9, <2>1, <2>6
  <2>8. from[k + 1] = put[k] + Len(marker[k])
    BY <2>3, <2>4, <2>6 DEF m
  <2>9. ASSUME NEW i \in 1..y PROVE out[x + i] = g[i]
    <3>1. PICK n \in Int : n = x + i
      OBVIOUS
    <3>2. n \in 1..(x + y) /\ n \in 1..(x + y + z) /\ n <= x + y /\ ~(n <= x) /\ n - x = i
      BY <3>1
    <3>3. out[n] = b[k].text[n]
      BY <2>7, <3>2
    <3>4. b[k].text[n] = (s \o g)[n]
      BY <2>6, <3>2
    <3>5. (s \o g)[n] = g[i]
      BY <2>5, <3>2
    <3> QED BY <3>1, <3>3, <3>4, <3>5
  <2>10. ASSUME NEW i \in 1..z PROVE out[x + y + i] = m[i]
    <3>1. x + y + i \in 1..(x + y + z) /\ ~(x + y + i <= x + y) /\ x + y + i - (x + y) = i
      OBVIOUS
    <3> QED BY <2>6, <2>7, <3>1
  <2>11. MatchesAt(m, out, x + y)
    <3>1. PICK a \in Nat : a = x + y
      OBVIOUS
    <3>2. a + Len(m) <= Len(out) /\ \A i \in 1..Len(m) : out[a + i] = m[i]
      BY <2>3, <2>7, <2>10, <3>1
    <3> QED BY <1>8, <2>2, <3>1, <3>2, MatchesWhereWritten
  <2>12. whole[k + 1] = (whole[k] \o gap[k]) \o behind[k]
    <3>1. whole[k + 1] = c[k].text /\ whole[k] = c[k - 1].text /\ behind[k] = other[k].redacted
      <4>1. PICK n \in 1..(N + 1) : n = k + 1 /\ n - 1 = k
        BY <2>1
      <4>2. whole[n] = c[k].text
        BY <1>6, <4>1
      <4>3. whole[k] = c[k - 1].text
        BY <1>6, <2>1
      <4>4. behind[k] = other[k].redacted
        BY <1>6
      <4> QED BY <4>1, <4>2, <4>3, <4>4, Zenon
    <3>2. gap[k] = GapBefore(text, N, other, k)
      BY <1>3, <1>6, <2>1
    <3> QED BY <1>5, <3>1, <3>2
  <2> QED BY <2>3, <2>4, <2>8, <2>9, <2>11, <2>12 DEF g, m
<1>11. \A i \in 1..Len(gap[N + 1]) : out[from[N + 1] + i] = gap[N + 1][i]
  <2>1. N + 1 \in 1..(N + 1) /\ N + 1 - 1 = N /\ N \in 0..N
    BY <1>1
  <2>2. PICK m \in Nat, g \in Nat : m = Len(b[N].text) /\ g = Len(gap[N + 1])
    BY <1>2, <1>7, <2>1, LenProperties
  <2>3. from[N + 1] = m
    BY <1>6, <2>1, <2>2
  <2>4. \A i \in 1..(m + g) : out[i] = IF i <= m THEN b[N].text[i] ELSE gap[N + 1][i - m]
    BY <1>8, <2>2
  <2>5. ASSUME NEW i \in 1..g PROVE out[m + i] = gap[N + 1][i]
    <3>1. m + i \in 1..(m + g) /\ ~(m + i <= m) /\ m + i - m = i
      OBVIOUS
    <3> QED BY <2>4, <3>1
  <2> QED BY <2>2, <2>3, <2>5
<1>12. from[1] = 0 /\ whole[1] = <<>> /\ put[N + 1] = Len(out)
  <2>1. 1 \in 1..(N + 1) /\ N + 1 \in 1..(N + 1) /\ N + 1 - 1 = N /\ 1 - 1 = 0
    BY <1>1
  <2>2. from[1] = Len(<<>>) /\ whole[1] = <<>>
    BY <1>2, <1>5, <1>6, <2>1
  <2>3. put[N + 1] = Len(b[N].text) + Len(gap[N + 1])
    <3>1. PICK n \in 1..(N + 1) : n = N + 1 /\ n - 1 = N
      BY <1>1
    <3>2. put[n] = from[n] + Len(gap[n]) /\ from[n] = Len(b[N].text)
      BY <1>6, <3>1
    <3> QED BY <3>1, <3>2
  <2> QED BY <1>8, <2>2, <2>3, EmptySeq
<1>13. Rebuild(text, other).text = whole[N + 1] \o gap[N + 1]
  <2>1. N + 1 \in 1..(N + 1) /\ N + 1 - 1 = N
    BY <1>1
  <2>2. whole[N + 1] = c[N].text /\ gap[N + 1] = GapBefore(text, N, other, N + 1)
    <3>1. PICK n \in 1..(N + 1) : n = N + 1 /\ n - 1 = N
      BY <1>1
    <3>2. whole[n] = c[N].text /\ gap[n] = GapBefore(text, N, other, n)
      BY <1>3, <1>6, <3>1
    <3> QED BY <3>1, <3>2
  <2> QED BY <1>5, <2>2
<1>14. \A k \in 1..(N + 1) :
         put[k] = from[k] + Len(gap[k]) /\ \A i \in 1..Len(gap[k]) : out[from[k] + i] = gap[k][i]
  <2>1. \A k \in 1..(N + 1) : k = N + 1 \/ k \in 1..N
    BY <1>1
  <2> QED BY <1>6, <1>10, <1>11, <2>1
<1>15. Cut(S, out, N, gap, marker, behind, from, put, whole)
  BY <1>1, <1>7, <1>8, <1>10, <1>12, <1>14 DEF Cut
<1> QED BY <1>13, <1>15 DEF out, gap, marker, behind, from, put, whole

AsFound(text, found) ==
  /\ IsSeq(text) /\ IsSeq(found)
  /\ \A i \in DOMAIN found :
       LET f == found[i]
       IN f \in [start : Nat, end : Nat, redacted : {f.redacted}] /\ f.start <= f.end /\ IsSeq(f.redacted)

LEMMA FoundAreSpans ==
  ASSUME NEW text, NEW found, AsFound(text, found)
  PROVE  \E S : Spans(S, text, Len(found), found)
<1> DEFINE S == ToSet(text) \cup UNION {ToSet(found[i].redacted) : i \in DOMAIN found}
<1>1. text \in Seq(ToSet(text)) /\ found \in Seq(ToSet(found))
  BY DEF AsFound, IsSeq
<1>2. Len(found) \in Nat /\ DOMAIN found = 1..Len(found)
  BY <1>1, LenProperties
<1>3. text \in Seq(S)
  <2>1. ToSet(text) \subseteq S
    OBVIOUS
  <2> HIDE DEF S
  <2> QED BY <1>1, <2>1, SeqMonotonic
<1>4. ASSUME NEW i \in DOMAIN found PROVE found[i].redacted \in Seq(S)
  <2>1. ToSet(found[i].redacted) \subseteq S
    OBVIOUS
  <2>2. found[i].redacted \in Seq(ToSet(found[i].redacted))
    BY DEF AsFound, IsSeq
  <2> HIDE DEF S
  <2> QED BY <2>1, <2>2, SeqMonotonic
<1>5. \A i \in DOMAIN found : found[i].start \in Nat /\ found[i].end \in Nat /\ found[i].start <= found[i].end
  BY DEF AsFound
<1> HIDE DEF S
<1>6. Spans(S, text, Len(found), found)
  BY <1>2, <1>3, <1>4, <1>5 DEF Spans
<1> QED BY <1>6

(* The first use of a marker is the one whose value is put back.           *)
FirstUse(found, i) == Min({j \in DOMAIN found : found[j].redacted = found[i].redacted})

LEMMA FirstUses ==
  ASSUME NEW N \in Nat, NEW found, DOMAIN found = 1..N, NEW i \in 1..N
  PROVE  /\ FirstUse(found, i) \in 1..N /\ found[FirstUse(found, i)].redacted = found[i].redacted
         /\ \A j \in 1..(FirstUse(found, i) - 1) : found[j].redacted # found[i].redacted
         /\ \A k \in 1..N : (found[k].redacted = found[i].redacted
                             /\ \A j \in 1..(k - 1) : found[j].redacted # found[k].redacted) => k = FirstUse(found, i)
<1> DEFINE T == {j \in DOMAIN found : found[j].redacted = found[i].redacted}
           f == FirstUse(found, i)
<1>1. T \in SUBSET Nat /\ T # {}
  OBVIOUS
<1>2. f \in T /\ \A j \in T : f <= j
  <2>1. f = Min(T)
    BY DEF FirstUse
  <2> HIDE DEF f, T
  <2> QED BY <1>1, <2>1, MinIsLeast
<1>3. f \in 1..N /\ found[f].redacted = found[i].redacted
  BY <1>2
<1>4. ASSUME NEW j \in 1..N, found[j].redacted = found[i].redacted PROVE f <= j
  <2>1. j \in T
    BY <1>4
  <2> QED BY <1>2, <2>1
<1> HIDE DEF f, T
<1>5. ASSUME NEW j \in 1..(f - 1) PROVE found[j].redacted # found[i].redacted
  <2> SUFFICES ASSUME found[j].redacted = found[i].redacted PROVE FALSE
    OBVIOUS
  <2>1. j \in 1..N /\ ~(f <= j)
    BY <1>3
  <2> QED BY <1>4, <2>1
<1>6. ASSUME NEW k \in 1..N, found[k].redacted = found[i].redacted,
             \A j \in 1..(k - 1) : found[j].redacted # found[k].redacted
      PROVE  k = f
  <2>1. f <= k
    BY <1>4, <1>6
  <2>2. ~(f \in 1..(k - 1))
    BY <1>3, <1>6
  <2> QED BY <1>3, <2>1, <2>2
<1> QED BY <1>3, <1>5, <1>6 DEF f

LEMMA TextComesBack ==
  ASSUME NEW text, NEW found, AsFound(text, found)
  PROVE  ComesBack(text, found)
<1> DEFINE N == Len(found)
           out == Rebuild(text, found).text
           other == [i \in DOMAIN found |-> [found[i] EXCEPT !.redacted = Behind(text, found, i)]]
           pairs == Pairs(text, found)
<1>1. PICK S : Spans(S, text, N, found)
  BY FoundAreSpans
<1>2. /\ N \in Nat /\ DOMAIN found = 1..N /\ text \in Seq(S)
      /\ \A i \in 1..N : /\ found[i].start \in Nat /\ found[i].end \in Nat /\ found[i].start <= found[i].end
                         /\ found[i].redacted \in Seq(S)
  BY <1>1 DEF Spans
<1>3. /\ Rebuild(text, found).ok <=> /\ \A i \in 1..(N - 1) : found[i].end <= found[i + 1].start
                                     /\ \A i \in 1..N : found[i].end <= Len(text)
      /\ Rebuild(text, found).ok => Rebuilt(text, found)[N].ok /\ Rebuilt(text, found)[N].pos <= Len(text)
  BY <1>1, ErrorUnlessInOrder
<1>4. ASSUME Rebuild(text, found).ok, NoStrays(text, found)
      PROVE  Unredact(text, found, out) = Restored(text, found)
  <2> DEFINE gap == GapsOf(text, N, found)
             marker == MarkersOf(N, found)
             behind == MarkersOf(N, other)
             from == StartsOf(text, N, found)
             put == PutsOf(text, N, found)
             whole == WholesOf(text, N, other)
  <2>1. \A i \in 1..N : Original(text, found[i]) \in Seq(S)
    <3> SUFFICES ASSUME NEW i \in 1..N PROVE Original(text, found[i]) \in Seq(S)
      OBVIOUS
    <3>1. found[i].end <= Len(text) /\ found[i].start \in Nat /\ found[i].end \in Nat
      BY <1>2, <1>3, <1>4
    <3> QED BY <1>2, <3>1, PartsAreTexts DEF Original
  <2>2. \A i \in 1..N : Behind(text, found, i) = IF found[i].redacted = <<>> THEN <<>>
                                                 ELSE Original(text, found[FirstUse(found, i)])
    BY DEF Behind, FirstUse
  <2>3. \A i \in 1..N : Behind(text, found, i) \in Seq(S)
    <3>1. \A i \in 1..N : FirstUse(found, i) \in 1..N
      BY <1>2, FirstUses
    <3> QED BY <2>1, <2>2, <3>1, EmptySeq
  <2>4. ASSUME NEW i \in 1..N
        PROVE  /\ other[i].start = found[i].start /\ other[i].end = found[i].end
               /\ other[i].redacted = Behind(text, found, i)
    <3>1. found[i] \in [start : Nat, end : Nat, redacted : {found[i].redacted}]
      BY <1>2 DEF AsFound
    <3> DEFINE x == Behind(text, found, i)
               f == found[i]
    <3>2. other[i] = [f EXCEPT !.redacted = x]
      BY <1>2
    <3> HIDE DEF x, f, other
    <3>3. PICK R : f \in [start : Nat, end : Nat, redacted : R]
      BY <3>1 DEF f
    <3> QED BY <3>2, <3>3 DEF f, x
  <2>5. Spans(S, text, N, other)
    <3>1. DOMAIN other = 1..N
      BY <1>2
    <3>2. other \in Seq({other[i] : i \in 1..N})
      <4>1. other \in [1..N -> {other[i] : i \in 1..N}]
        BY <1>2
      <4> HIDE DEF other, N
      <4> QED BY <1>2, <4>1, SeqDef
    <3> HIDE DEF other, N
    <3>3. Len(other) = N
      <4>1. DOMAIN other = 1..Len(other) /\ Len(other) \in Nat
        BY <3>2, LenProperties
      <4> QED BY <1>2, <3>1, <4>1
    <3> QED BY <1>2, <2>3, <2>4, <3>1, <3>3 DEF Spans
  <2> HIDE DEF N, other, pairs
  <2>6. /\ Cut(S, out, N, gap, marker, behind, from, put, whole)
        /\ Rebuild(text, other).text = whole[N + 1] \o gap[N + 1]
    <3>1. \A i \in 1..N : other[i].start = found[i].start /\ other[i].end = found[i].end
      BY <2>4
    <3>2. Spans(S, text, N, found) /\ Rebuild(text, found).ok
      BY <1>1, <1>4
    <3> QED BY <2>5, <3>1, <3>2, CutAtMarkers, ZenonT(40)
  <2>7. \A k \in 1..N : marker[k] = found[k].redacted /\ behind[k] = Behind(text, found, k)
    BY <2>4 DEF MarkersOf
  <2>8. \A k \in 1..N : PutAt(text, found, k) = put[k]
    <3> SUFFICES ASSUME NEW k \in 1..N PROVE PutAt(text, found, k) = put[k]
      OBVIOUS
    <3>1. InPieces(S, text, N, found, Rebuilt(text, found), out)
      BY <1>1, <1>4, WrittenPieces
    <3>2. k - 1 \in 0..N /\ k \in 1..(N + 1)
      BY <1>2
    <3> DEFINE v == Rebuilt(text, found)[k - 1]
    <3>3. /\ v.text \in Seq(S) /\ v.pos = EndOf(found, k - 1)
          /\ Len(GapBefore(text, N, found, k)) = found[k].start - EndOf(found, k - 1)
      BY <3>1, <3>2 DEF InPieces
    <3>4. put[k] = Len(v.text) + Len(GapBefore(text, N, found, k))
      BY <3>2 DEF PutsOf, StartsOf, GapsOf
    <3>5. PutAt(text, found, k) = Len(v.text) + found[k].start - v.pos
      BY DEF PutAt
    <3>6. EndOf(found, k - 1) \in Nat
      <4>1. k - 1 = 0 \/ k - 1 \in 1..N
        BY <1>2
      <4> QED BY <1>2, <4>1 DEF EndOf
    <3> HIDE DEF v
    <3>7. Len(v.text) \in Nat /\ found[k].start \in Nat
      BY <1>2, <3>3, LenProperties
    <3>8. PICK a \in Nat, s \in Nat, e \in Nat : a = Len(v.text) /\ s = found[k].start /\ e = EndOf(found, k - 1)
      BY <3>6, <3>7
    <3>9. put[k] = a + (s - e) /\ PutAt(text, found, k) = a + s - e
      BY <3>3, <3>4, <3>5, <3>8
    <3> QED BY <3>8, <3>9
  <2> HIDE DEF gap, marker, behind, from, put, whole
  <2>9. Strayless(out, N, marker, put)
    <3> SUFFICES ASSUME NEW i \in 1..N, NEW at \in 0..Len(out), marker[i] # <<>>, MatchesAt(marker[i], out, at)
                 PROVE  \E j \in 1..N : marker[j] = marker[i] /\ put[j] = at
      BY DEF Strayless
    <3>1. \E j \in DOMAIN found : found[j].redacted = found[i].redacted /\ PutAt(text, found, j) = at
      BY <1>2, <1>4, <2>7 DEF NoStrays
    <3> QED BY <1>2, <2>7, <2>8, <3>1
  <2>10. Reverses(pairs, N, marker, behind)
    <3>1. /\ DOMAIN pairs = {k \in 1..N : /\ found[k].redacted # <<>>
                                          /\ \A j \in 1..(k - 1) : found[j].redacted # found[k].redacted}
          /\ \A k \in DOMAIN pairs : pairs[k].old = found[k].redacted /\ pairs[k].new = Original(text, found[k])
      BY <1>2 DEF pairs, Pairs, PairOf
    <3>2. ASSUME NEW k \in DOMAIN pairs, NEW j \in 1..N, marker[j] = marker[k] PROVE behind[j] = pairs[k].new
      <4>1. k \in 1..N /\ found[j].redacted = found[k].redacted /\ found[k].redacted # <<>>
        BY <2>7, <3>1, <3>2
      <4>2. k = FirstUse(found, j)
        <5>1. \A i \in 1..(k - 1) : found[i].redacted # found[k].redacted
          BY <3>1
        <5>2. found[k].redacted = found[j].redacted
          BY <4>1
        <5> QED BY <1>2, <4>1, <5>1, <5>2, FirstUses
      <4>3. behind[j] = Original(text, found[k])
        BY <2>2, <2>7, <4>1, <4>2
      <4> QED BY <3>1, <4>3
    <3>3. ASSUME NEW j \in 1..N, marker[j] # <<>> PROVE \E k \in DOMAIN pairs : marker[k] = marker[j]
      <4> DEFINE f == FirstUse(found, j)
      <4>1. /\ f \in 1..N /\ found[f].redacted = found[j].redacted
            /\ \A i \in 1..(f - 1) : found[i].redacted # found[j].redacted
        <5>1. N \in Nat /\ DOMAIN found = 1..N
          BY <1>2
        <5> HIDE DEF N
        <5>2. /\ FirstUse(found, j) \in 1..N /\ found[FirstUse(found, j)].redacted = found[j].redacted
              /\ \A i \in 1..(FirstUse(found, j) - 1) : found[i].redacted # found[j].redacted
          BY <5>1, FirstUses, ZenonT(40)
        <5> QED BY <5>2
      <4> HIDE DEF f
      <4>2. f \in DOMAIN pairs
        BY <2>7, <3>1, <3>3, <4>1
      <4> QED BY <2>7, <4>1, <4>2
    <3>4. \A j \in 1..N : marker[j] = <<>> => behind[j] = <<>>
      BY <2>2, <2>7
    <3>5. \A k \in DOMAIN pairs : k \in 1..N /\ pairs[k].old = marker[k] /\ marker[k] # <<>>
      BY <2>7, <3>1
    <3> QED BY <3>2, <3>3, <3>4, <3>5 DEF Reverses
  <2>11. Replace(pairs, out) = whole[N + 1] \o gap[N + 1]
    <3>1. Replace(pairs, out) = AllOf(N, gap, whole)
      BY <2>6, <2>9, <2>10, Replaced
    <3> QED BY <3>1 DEF AllOf
  <2>12. Unredact(text, found, out) = Replace(pairs, out) /\ Restored(text, found) = Rebuild(text, other).text
    BY DEF Unredact, Restored, pairs, other
  <2> QED BY <2>6, <2>11, <2>12
<1>5. DOMAIN found = 1..N
  BY <1>2
<1> QED BY <1>3, <1>4, <1>5 DEF ComesBack

-----------------------------------------------------------------------------
(* The specification: what is calculated is one of the inputs.             *)

SubjectOK ==
  \/ subject = Nothing
  \/ \E t \in Transfers, s \in Shapes : subject = [about |-> "transfer", t |-> t, s |-> s]
  \/ \E r \in Requests : subject = [about |-> "request", r |-> r]
  \/ \E r \in Responses, now \in Times : subject = [about |-> "response", r |-> r, now |-> now]
  \/ \E p \in Policies : subject = [about |-> "policy", p |-> p]
  \/ \E s \in Scans : subject = [about |-> "scan", s |-> s]
  \/ \E r \in RedactedTexts : subject = [about |-> "redaction", r |-> r]
  \/ \E m \in MetadataMaps : subject = [about |-> "metadata", m |-> m]

LEMMA SubjectIsInput == Spec => []SubjectOK
<1>1. Init => SubjectOK
  BY DEF Init, SubjectOK
<1>2. SubjectOK /\ [Next]_subject => SubjectOK'
  <2> SUFFICES ASSUME SubjectOK, [Next]_subject PROVE SubjectOK'
    OBVIOUS
  <2>1. CASE Transfer
    BY <2>1 DEF Transfer, SubjectOK
  <2>2. CASE Resolve
    BY <2>2 DEF Resolve, SubjectOK
  <2>3. CASE Read
    BY <2>3 DEF Read, SubjectOK
  <2>4. CASE Evaluate
    BY <2>4 DEF Evaluate, SubjectOK
  <2>5. CASE Redact
    BY <2>5 DEF Redact, SubjectOK
  <2>6. CASE Encode
    BY <2>6 DEF Encode, SubjectOK
  <2>7. CASE ScanText
    BY <2>7 DEF ScanText, SubjectOK
  <2>8. CASE Done
    BY <2>8 DEF Done, SubjectOK
  <2>9. CASE UNCHANGED subject
    BY <2>9 DEF SubjectOK
  <2> QED BY <2>1, <2>2, <2>3, <2>4, <2>5, <2>6, <2>7, <2>8, <2>9 DEF Next
<1> QED BY <1>1, <1>2, PTL DEF Spec

LEMMA ShapesAreSeqs ==
  ASSUME NEW s \in Shapes
  PROVE  s.ok \in BOOLEAN /\ IsSeq(s.a) /\ IsSeq(s.b)
<1>1. ASSUME NEW S, NEW f, NEW n \in 0..2, f \in [1..n -> S]
      PROVE  IsSeq(f)
  <2>1. f \in [1..n -> ToSet(f)]
    BY <1>1 DEF ToSet
  <2> QED BY <2>1 DEF IsSeq
<1> QED BY <1>1 DEF Shapes

(* The generated bindings of jsreq and redact read and write the cells of  *)
(* the guest's memory that the canonical ABI gives each value, and only    *)
(* those.  (SidesAgree is the same for lists of any length.)               *)
THEOREM BindingsFollowTheAbi == Spec => []AbiAgrees
<1>1. SubjectOK => AbiAgrees
  <2> SUFFICES ASSUME SubjectOK, subject.about = "transfer"
               PROVE  Host(subject.t, subject.s) = Guest(subject.t, subject.s)
    BY DEF AbiAgrees
  <2>1. subject.t \in Transfers /\ subject.s \in Shapes
    BY DEF SubjectOK, Nothing
  <2> QED BY <2>1, ShapesAreSeqs, SidesAgree
<1> QED BY <1>1, SubjectIsInput, PTL

(* The address of a request (client.go) is the one that the closest hop    *)
(* which is not trusted had, whatever else a client wrote in its headers.  *)
THEOREM AddressIsOfTheClosestHop == Spec => []ClosestHopDecides
<1>1. SubjectOK => ClosestHopDecides
  <2> SUFFICES ASSUME SubjectOK, subject.about = "request"
               PROVE  HopDecides(subject.r)
    BY DEF ClosestHopDecides
  <2>1. subject.r \in Requests
    BY DEF SubjectOK, Nothing
  <2> QED BY <2>1, HopsDecideAddress
<1> QED BY <1>1, SubjectIsInput, PTL

(* A caller of Guard (guard.go, remote_policy.go) learns of every outcome, *)
(* is told to wait long enough and no longer than needed, and of a local   *)
(* denial which rule denied and which did not run.                         *)
THEOREM CallersAreTold == Spec => []CallerIsTold
<1>1. SubjectOK => CallerIsTold
  <2> SUFFICES ASSUME SubjectOK
               PROVE  CallerIsTold
    OBVIOUS
  <2>1. ASSUME subject.about = "response"
        PROVE  LET d == GuardDecisionFromProto(subject.r)
               IN OutcomesAreSeen(subject.r, d) /\ AdviceIsSufficient(subject.r, d, subject.now)
    <3>1. subject.r \in Responses /\ subject.now \in Times
      BY <2>1 DEF SubjectOK, Nothing
    <3> QED BY <3>1, Seen, Sufficient
  <2>2. ASSUME subject.about = "policy"
        PROVE  DenialIsExplained(subject.p)
    <3>1. subject.p \in Policies
      BY <2>2 DEF SubjectOK, Nothing
    <3> QED BY <3>1, Explained
  <2> QED BY <2>1, <2>2 DEF CallerIsTold
<1> QED BY <1>1, SubjectIsInput, PTL

(* The metadata of a request (metadata.go) stays within the budget, no key *)
(* goes behind the first that did not fit, and the warnings count the keys *)
(* that are not sent.                                                      *)
THEOREM EveryMapIsAccounted == Spec => []MetadataIsAccounted
<1>1. SubjectOK => MetadataIsAccounted
  <2> SUFFICES ASSUME SubjectOK, subject.about = "metadata"
               PROVE  Accounted(subject.m)
    BY DEF MetadataIsAccounted
  <2>1. subject.m \in MetadataMaps
    BY DEF SubjectOK, Nothing
  <2> QED BY <2>1, EveryKeyIsAccounted
<1> QED BY <1>1, SubjectIsInput, PTL

(* Unredact gives back every value that Redact (redact/redact.go) took out *)
(* and whose marker can be told from the rest of the text, whether or not  *)
(* other markers are empty or used twice; spans out of order or of the     *)
(* text are an error.                                                      *)
THEOREM RedactionIsUndone == Spec => []RoundTrip
<1>1. SubjectOK => RoundTrip
  <2> SUFFICES ASSUME SubjectOK, subject.about = "redaction"
               PROVE  ComesBack(subject.r.text, subject.r.found)
    BY DEF RoundTrip
  <2>1. subject.r \in RedactedTexts
    BY DEF SubjectOK, Nothing
  <2>2. AsFound(subject.r.text, subject.r.found)
    BY <2>1, RedactionAssumption DEF AsFound
  <2> QED BY <2>2, TextComesBack
<1> QED BY <1>1, SubjectIsInput, PTL

(* However a text is cut into windows (sensitiveinfo/rampart), Detect      *)
(* reports the spans that the model finds in the text in one piece, and of *)
(* those and the recognizers' the strongest that do not overlap.           *)
THEOREM ScansAreOfOnePiece == Spec => []ScannedAsOnePiece
<1>1. SubjectOK => ScannedAsOnePiece
  <2> SUFFICES ASSUME SubjectOK, subject.about = "scan"
               PROVE  ScannedAsOnePiece
    BY DEF ScannedAsOnePiece
  <2>1. PICK s \in Scans : subject.s = s
    BY DEF SubjectOK, Nothing
  <2>2. /\ s.text \in Seq(ToSet(s.text)) /\ Scannable(s.text) /\ s.limit \in Nat
        /\ AreFound(s.recognized)
    BY ScanAssumption DEF IsSeq, AreFound
  <2>3. LET whole == WholeText(s.text, MinOf(Len(s.text), s.limit))
        IN Detect(s.text, s.limit, s.recognized, s.entities)
             = Partition(InTextOrder(Strongest(s.recognized, whole)), s.entities)
    BY <2>2, OnePieceIsDetected
  <2> QED BY <2>1, <2>3 DEF ScannedAsOnePiece
<1> QED BY <1>1, SubjectIsInput, PTL
=============================================================================
