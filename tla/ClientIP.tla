------------------------------- MODULE ClientIP -------------------------------
(***************************************************************************)
(* Which address a request is taken to come from: client.go and            *)
(* platform.go.                                                            *)
(*                                                                         *)
(* A request reaches the application over a route of hops, the client      *)
(* first.  Each hop but the first has appended the address of its peer to  *)
(* X-Forwarded-For, after whatever the client wrote there; the last hop is *)
(* the peer of the application.  A header is the sequence of its comma-    *)
(* separated parts.                                                        *)
(***************************************************************************)
EXTENDS Integers, Sequences, SequencesExt, FiniteSetsExt

CONSTANTS
  Public, Private,   \* addresses that are globally routable, and others
  Junk               \* what a header or RemoteAddr may hold that is no address

Addresses == Public \cup Private
NoAddress == "no address"
ASSUME AddressAssumption == {NoAddress, "unset"} \cap Addresses = {}

Platforms == <<"firebase", "fly-io", "vercel", "render", "cloudflare", "railway">>

NoDetails == [ip |-> NoAddress, provenance |-> "none", verified |-> FALSE, header |-> "none"]
Verified(ip, provenance, header) ==
  [ip |-> ip, provenance |-> provenance, verified |-> TRUE, header |-> header]

-----------------------------------------------------------------------------

RemoteIP(addr) == IF addr \in Addresses THEN addr ELSE NoAddress
IsPublicIP(addr) == addr \in Public

LastWhere(parts, Test(_)) ==
  LET found == {i \in DOMAIN parts : Test(parts[i])}
  IN IF found = {} THEN NoAddress ELSE parts[Max(found)]

(* mutant: the walk starts at the end the client writes *)
LeftmostUntrustedXFF(parts, proxies) ==
  LET found == {i \in DOMAIN parts : parts[i] \in Addresses \ proxies}
  IN IF found = {} THEN NoAddress ELSE parts[Min(found)]
RightmostUntrustedXFF(parts, proxies) == LastWhere(parts, LAMBDA p : p \in Addresses \ proxies)

RightmostPublicIP(parts) == LastWhere(parts, IsPublicIP)

(* The first public address of the first of the other headers that has one *)
(* (r.fallback is what the header that is there holds).                    *)
FirstPublicIP(parts) ==
  LET found == {i \in DOMAIN parts : IsPublicIP(parts[i])}
  IN IF found = {} THEN NoAddress ELSE parts[Min(found)]

UnverifiedHeaderIP(r) ==
  LET forwarded == RightmostPublicIP(r.forwardedFor)
      other == FirstPublicIP(r.fallback)
      Guess(ip, header) ==
        [ip |-> ip, provenance |-> "unverified-header", verified |-> FALSE, header |-> header]
  IN IF forwarded # NoAddress THEN Guess(forwarded, "x-forwarded-for")
     ELSE IF other # NoAddress THEN Guess(other, "fallback")
     ELSE NoDetails

(* The headers a platform signs, in the order they are tried.  r.signed    *)
(* has the value of each; a list is walked like X-Forwarded-For.           *)
PlatformHeaders(platform) ==
  CASE platform = "firebase" -> <<"x-fah-client-ip", "x-forwarded-for">>
    [] platform = "fly-io" -> <<"fly-client-ip">>
    [] platform = "vercel" -> <<"x-real-ip", "x-vercel-forwarded-for", "x-forwarded-for">>
    [] platform = "render" -> <<"true-client-ip">>
    [] platform = "cloudflare" -> <<"cf-connecting-ipv6", "cf-connecting-ip">>
    [] platform = "railway" -> <<"x-real-ip">>
Lists == {"x-vercel-forwarded-for", "x-forwarded-for"}

HeaderIP(r, h, proxies) ==
  CASE h = "x-forwarded-for" -> RightmostUntrustedXFF(r.forwardedFor, proxies)
    [] h = "x-vercel-forwarded-for" -> RightmostUntrustedXFF(r.signed[h], proxies)
    [] OTHER -> IF Len(r.signed[h]) = 1 THEN RemoteIP(r.signed[h][1]) ELSE NoAddress

PlatformIPDetails(r, platform, proxies) ==
  LET headers == PlatformHeaders(platform)
      found == {i \in DOMAIN headers : HeaderIP(r, headers[i], proxies) # NoAddress}
  IN IF found = {} THEN NoDetails
     ELSE LET h == headers[Min(found)] IN Verified(HeaderIP(r, h, proxies), "platform", h)

(* env is the set of platforms whose variables are set, configured is      *)
(* Config.Platform.                                                        *)
DetectPlatform(env) ==
  LET found == {i \in DOMAIN Platforms : Platforms[i] \in env}
  IN IF found = {} THEN "none" ELSE Platforms[Min(found)]
PlatformOf(configured, env) == IF configured # "none" THEN configured ELSE DetectPlatform(env)

ClientIPDetails(r, proxies, platform) ==
  LET remote == RemoteIP(r.remoteAddr)
      direct == IF remote = NoAddress THEN NoDetails ELSE Verified(remote, "direct", "none")
      signed == PlatformIPDetails(r, platform, proxies)
      forwarded == RightmostUntrustedXFF(r.forwardedFor, proxies)
      guess == UnverifiedHeaderIP(r)
  IN CASE platform # "none" -> IF signed # NoDetails THEN signed ELSE direct
       [] platform = "none" /\ remote \in proxies ->
            IF forwarded # NoAddress THEN Verified(forwarded, "trusted-proxy", "x-forwarded-for") ELSE direct
       [] platform = "none" /\ remote \notin proxies ->
            IF ~IsPublicIP(remote) /\ guess # NoDetails THEN guess ELSE direct

(* ProtectDetails: the address of the call and what is reported of it.     *)
(* resolved is what Protect found, <<>> for details of the application's   *)
(* own making; ip is ProtectDetails.IP; manual is the WithIPSrc option.    *)
IPOfCall(resolved, ip, manual) ==
  LET before == IF resolved # <<>> THEN resolved[1]
                ELSE IF ip = NoAddress THEN NoDetails ELSE Verified(ip, "request", "none")
  IN CASE manual = "unset" -> [error |-> "none", ip |-> ip, details |-> before]
       [] manual \in Addresses -> [error |-> "none", ip |-> manual, details |-> Verified(manual, "manual", "none")]
       [] OTHER -> [error |-> "ErrInvalidIP", ip |-> NoAddress, details |-> NoDetails]

-----------------------------------------------------------------------------
(* A request, from the route it took and what the client wrote. *)

Headers == {"x-fah-client-ip", "fly-client-ip", "x-real-ip", "x-vercel-forwarded-for", "true-client-ip",
            "cf-connecting-ipv6", "cf-connecting-ip"}

RequestOver(route, wrote, fallback, signed) ==
  [remoteAddr |-> Last(route), forwardedFor |-> wrote \o Front(route), fallback |-> fallback,
   signed |-> [h \in Headers |-> IF h \in DOMAIN signed THEN signed[h] ELSE <<>>]]
=============================================================================
