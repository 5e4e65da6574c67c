----------------------------- MODULE OidcTrust ------------------------------
(***************************************************************************)
(* Trust in the identity provider: ExpiringOidcVerifier and                *)
(* OidcRefreshController (src/server_config.rs) over OidcSessionVerifier   *)
(* (src/oidc.rs) and OidcDiscoveryClient (src/oidc_discovery.rs), driven   *)
(* by the refresh task and the tick of bin/secure_dedicated_server.rs.     *)
(* Verifications run on the admission tasks, between any two steps of a    *)
(* refresh.  There is one clock, and it never goes back: of the wall clock *)
(* (SystemTime), by which tokens expire and are purged, this is assumed;   *)
(* the deadline of the keys is monotonic time in the code.                 *)
(***************************************************************************)
EXTENDS Integers, FiniteSets

CONSTANTS
  Tokens,            \* access tokens; each has a jti of its own
  Attempts,          \* verifications at a time
  Interval,          \* refresh_interval
  GraceIntervals,    \* OIDC_REFRESH_GRACE_INTERVALS
  RequestTime,       \* OIDC_REQUEST_TIMEOUT
  StaticValidity,    \* validity of the key set in the configuration
  Skew,              \* OIDC_CLOCK_SKEW_SECONDS
  MinRemaining,      \* OIDC_MINIMUM_REMAINING_SECONDS
  Lifetime,          \* MAX_OIDC_TOKEN_LIFETIME_SECONDS
  MaxDelay,          \* a verification that has read the clock ends within it
  MaxReplay,         \* MAX_OIDC_REPLAY_ENTRIES
  MaxTime,           \* bound of the clock
  MaxGeneration      \* bound of the issuer's key sets

ASSUME OidcAssumption ==
  /\ {Interval, GraceIntervals, RequestTime, StaticValidity, Skew, MinRemaining,
      Lifetime, MaxReplay, MaxTime, MaxGeneration} \subseteq Nat \ {0}
  /\ MaxDelay \in Nat
  /\ MaxDelay < MinRemaining

VARIABLES
  now,
  published,         \* generation of the key set the issuer publishes
  withdrawn,         \* when it withdrew a generation (auxiliary)
  keys,              \* generation installed in the verifier
  trustDeadline,
  refresh,           \* the refresh in progress and when the next is due
  service,           \* the process
  issued,            \* a token's exp claim and the key that signed it
  replay,            \* until when the cache retains a jti; 0 if it does not
  verify,            \* each verification in progress
  accepted           \* how often a token was accepted (auxiliary)

issuer == <<published, withdrawn, issued>>
trust == <<keys, trustDeadline, refresh, service>>
OidcVars == <<now, issuer, trust, replay, verify, accepted>>

Generations == 1..MaxGeneration
Times == 0..MaxTime

TrustGrace == GraceIntervals * Interval

NotIssued == [expires |-> 0, signer |-> 0]
NoAttempt == [at |-> "idle", token |-> "none", checked |-> 0, key |-> 0, read |-> 0]
NoRefresh == [at |-> "none", due |-> 0, doc |-> 0, asked |-> 0, until |-> 0]

(* With discovery the process fetches the keys before it serves; without   *)
(* it the static keys serve until their deadline.                          *)
OidcInit ==
  /\ now = 1
  /\ published = 1
  /\ withdrawn = [g \in Generations |-> 0]
  /\ keys = 1
  /\ trustDeadline = 1 + StaticValidity
  /\ \/ /\ refresh = [at |-> "fetch", due |-> 1 + Interval, doc |-> 0,
                      asked |-> 1, until |-> 0]
        /\ service = "starting"
     \/ /\ refresh = NoRefresh
        /\ service = "serving"
  /\ issued = [t \in Tokens |-> NotIssued]
  /\ replay = [t \in Tokens |-> 0]
  /\ verify = [a \in Attempts |-> NoAttempt]
  /\ accepted = [t \in Tokens |-> 0]

-----------------------------------------------------------------------------
(* The clock: a request is answered or given up in time, and a             *)
(* verification that has read the clock does not wait for anything.        *)
Elapse ==
  /\ now < MaxTime
  /\ refresh.at \in {"fetch", "answered"} => now < refresh.asked + RequestTime
  /\ \A a \in Attempts : verify[a].at = "consume" => now < verify[a].read + MaxDelay
  /\ now' = now + 1
  /\ UNCHANGED <<issuer, trust, replay, verify, accepted>>

(* The issuer                                                              *)
Rotate ==
  /\ published < MaxGeneration
  /\ published' = published + 1
  /\ withdrawn' = [withdrawn EXCEPT ![published] = now]
  /\ UNCHANGED <<now, issued, trust, replay, verify, accepted>>

Issue(t) ==
  /\ issued[t] = NotIssued
  /\ \E expires \in now..now + Lifetime :
       issued' = [issued EXCEPT ![t] = [expires |-> expires, signer |-> published]]
  /\ UNCHANGED <<now, published, withdrawn, trust, replay, verify, accepted>>

-----------------------------------------------------------------------------
(* refresh_once, on the interval of spawn_oidc_refresh                     *)

RefreshOnly == UNCHANGED <<now, issuer, replay, verify, accepted>>

AtRest == [NoRefresh EXCEPT !.at = "rest", !.due = refresh.due]

(* A missed tick is skipped: the next is due on the interval's grid.       *)
NextDue == refresh.due + Interval * ((now - refresh.due) \div Interval + 1)

StartRefresh ==
  /\ service = "serving" /\ refresh.at = "rest" /\ now >= refresh.due
  /\ refresh' = [refresh EXCEPT !.at = "fetch", !.due = NextDue, !.asked = now]
  /\ UNCHANGED <<keys, trustDeadline, service>> /\ RefreshOnly

(* The issuer answers with what it publishes.                              *)
Answer ==
  /\ refresh.at = "fetch"
  /\ refresh' = [refresh EXCEPT !.at = "answered", !.doc = published]
  /\ UNCHANGED <<keys, trustDeadline, service>> /\ RefreshOnly

(* A failure of the fetch, or of the document when it is parsed.  The      *)
(* process does not start without its first refresh.                       *)
RefreshFails ==
  /\ refresh.at \in {"fetch", "answered", "parse"}
  /\ IF service = "starting"
     THEN /\ service' = "stopped"
          /\ refresh' = NoRefresh
     ELSE /\ refresh' = AtRest
          /\ UNCHANGED service
  /\ UNCHANGED <<keys, trustDeadline>> /\ RefreshOnly

(* replace_jwks computes the deadline when the answer is there, before it  *)
(* parses the document, installs the keys and then the deadline.           *)
ReceiveAndExtend ==
  /\ refresh.at = "answered"
  /\ refresh' = [refresh EXCEPT !.at = "parse", !.asked = 0, !.until = now + TrustGrace]
  /\ trustDeadline' = now + TrustGrace
  /\ UNCHANGED <<keys, service>> /\ RefreshOnly

Receive ==
  /\ refresh.at = "answered"
  /\ refresh' = [refresh EXCEPT !.at = "parse", !.asked = 0, !.until = now + TrustGrace]
  /\ UNCHANGED <<keys, trustDeadline, service>> /\ RefreshOnly

InstallKeys ==
  /\ refresh.at = "parse"
  /\ keys' = refresh.doc
  /\ refresh' = [refresh EXCEPT !.at = "extend"]
  /\ UNCHANGED <<trustDeadline, service>> /\ RefreshOnly

ExtendDeadline ==
  /\ refresh.at = "extend"
  /\ trustDeadline' = refresh.until
  /\ refresh' = AtRest
  /\ service' = IF service = "starting" THEN "serving" ELSE service
  /\ UNCHANGED keys /\ RefreshOnly

(* The tick finds that the trust has ended: the tasks are stopped.         *)
Stop ==
  /\ service = "serving" /\ now >= trustDeadline
  /\ service' = "stopped"
  /\ refresh' = NoRefresh
  /\ verify' = [a \in Attempts |-> NoAttempt]
  /\ UNCHANGED <<now, issuer, keys, trustDeadline, replay, accepted>>

-----------------------------------------------------------------------------
(* ExpiringOidcVerifier::verify, verify_oidc                               *)

Becomes(a, progress) == verify' = [verify EXCEPT ![a] = progress]

VerifyOnly == UNCHANGED <<now, issuer, trust>>

(* A connection presents its token; one that comes after the deadline is   *)
(* rejected and changes nothing.                                           *)
CheckDeadline(a, t) ==
  /\ verify[a].at = "idle"
  /\ service = "serving" /\ issued[t] # NotIssued
  /\ now < trustDeadline
  /\ Becomes(a, [NoAttempt EXCEPT !.at = "lookup", !.token = t, !.checked = now])
  /\ UNCHANGED <<replay, accepted>> /\ VerifyOnly

(* The key is fetched by its id; the signature is checked with it.         *)
LookUpKey(a) ==
  /\ verify[a].at = "lookup"
  /\ Becomes(a, IF issued[verify[a].token].signer = keys
                THEN [verify[a] EXCEPT !.at = "examine", !.key = keys]
                ELSE NoAttempt)
  /\ UNCHANGED <<replay, accepted>> /\ VerifyOnly

(* decode and validate_claims read the clock.                              *)
IsCurrent(t) ==
  /\ now + MinRemaining <= issued[t].expires + Skew
  /\ issued[t].expires <= now + Skew + Lifetime

Examine(a) ==
  /\ verify[a].at = "examine"
  /\ Becomes(a, IF IsCurrent(verify[a].token)
                THEN [verify[a] EXCEPT !.at = "consume", !.read = now]
                ELSE NoAttempt)
  /\ UNCHANGED <<replay, accepted>> /\ VerifyOnly

(* consume_jti, with the clock read before                                 *)
RetainedUntilExpiry(t) == issued[t].expires

RetainedUntil(t) == issued[t].expires + Skew

Retained(a) == [t \in Tokens |-> IF replay[t] > verify[a].read THEN replay[t] ELSE 0]

Entries(cache) == {t \in Tokens : cache[t] # 0}

Consume(a) ==
  LET t == verify[a].token
      cache == Retained(a)
      fresh == t \notin Entries(cache) /\ Cardinality(Entries(cache)) < MaxReplay
  IN  /\ verify[a].at = "consume"
      /\ Becomes(a, NoAttempt)
      /\ replay' = IF fresh THEN [cache EXCEPT ![t] = RetainedUntil(t)] ELSE cache
      /\ accepted' = IF fresh THEN [accepted EXCEPT ![t] = @ + 1] ELSE accepted
      /\ VerifyOnly

-----------------------------------------------------------------------------
OidcNext ==
  \/ Elapse \/ Rotate
  \/ StartRefresh \/ Answer \/ RefreshFails \/ Receive \/ InstallKeys
  \/ ExtendDeadline \/ Stop
  \/ \E t \in Tokens : Issue(t)
  \/ \E a \in Attempts :
       \/ \E t \in Tokens : CheckDeadline(a, t)
       \/ LookUpKey(a) \/ Examine(a) \/ Consume(a)

OidcSpec == OidcInit /\ [][OidcNext]_OidcVars

-----------------------------------------------------------------------------
OidcTypeOK ==
  /\ now \in 1..MaxTime
  /\ published \in Generations
  /\ withdrawn \in [Generations -> Times]
  /\ keys \in Generations
  /\ trustDeadline \in Nat
  /\ refresh \in [at: {"none", "rest", "fetch", "answered", "parse", "extend"},
                  due: Nat, doc: {0} \cup Generations, asked: Times, until: Nat]
  /\ service \in {"starting", "serving", "stopped"}
  /\ issued \in [Tokens -> [expires: Nat, signer: {0} \cup Generations]]
  /\ replay \in [Tokens -> Nat]
  /\ verify \in [Attempts -> [at: {"idle", "lookup", "examine", "consume"},
                              token: {"none"} \cup Tokens, checked: Times,
                              key: {0} \cup Generations, read: Times]]
  /\ accepted \in [Tokens -> Nat]

(* A token admits one session: no interleaving of its verifications, and   *)
(* no eviction from the replay cache, lets it be used again (oidc.rs:      *)
(* consume_jti).                                                           *)
TokenUsedOnce == \A t \in Tokens : accepted[t] <= 1

(* With discovery, a key that the issuer withdrew is trusted by no         *)
(* verification that begins after the grace of three intervals, whatever   *)
(* refreshes fail and wherever a refresh is between its keys and its       *)
(* deadline (server_config.rs: replace_jwks, refresh_once).                *)
TrustEnds(g) == withdrawn[g] + RequestTime + TrustGrace

WithdrawnKeysEnd ==
  \A a \in Attempts :
    /\ verify[a].at \in {"examine", "consume"}
    /\ refresh.at # "none"
    /\ withdrawn[verify[a].key] # 0
    => verify[a].checked < TrustEnds(verify[a].key)
=============================================================================
