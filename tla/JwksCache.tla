----------------------------- MODULE JwksCache -----------------------------
(***************************************************************************)
(* The signing-key cache of the JWT authenticator (src/auth/jwt.rs, keys   *)
(* and the loop over the trusted issuers in verify).  Each issuer has one  *)
(* cache behind one asynchronous mutex, and the mutex is held across the   *)
(* fetch.  A call of verify tries the issuers in configuration order; the  *)
(* awaits, where other calls, the issuer and the clock move on, are the    *)
(* wait for the mutex and the fetch.                                       *)
(*                                                                         *)
(* A key set is the set of the key ids in it.  A token is the key id its   *)
(* header names and the issuer that signed it: an issuer's key verifies    *)
(* that issuer's tokens only (signature and iss claim).                    *)
(***************************************************************************)
EXTENDS Integers

CONSTANTS
    Callers,      \* concurrent authentications
    IssuerCount,  \* trusted issuers, in configuration order
    KeyIds,
    TTL,          \* jwks_cache_ttl_seconds
    Cooldown,     \* REFRESH_COOLDOWN
    Timeout,      \* the request timeout of the HTTP client
    Never,        \* an Option<Instant> that is None
    MaxTime       \* bound on the clock

Issuers == 1..IssuerCount
Tokens == [kid: KeyIds, iss: Issuers]
Instants == 0..MaxTime

ASSUME JwksAssumption ==
    /\ IssuerCount \in Nat \ {0}
    /\ TTL \in Nat /\ Cooldown \in Nat /\ Timeout \in Nat /\ MaxTime \in Nat
    /\ Timeout < Cooldown
    /\ Never \notin Int

VARIABLES
    now,
    pc, token, at,                     \* the calls: at is the issuer being tried
    began, body,                       \* a fetch: when it began, what was served to it
    cached, fetched_at, attempted_at,  \* Cache, per issuer
    published,                         \* what each issuer serves
    (***********************************************************************)
    (* History, read only by properties                                    *)
    (***********************************************************************)
    since,        \* when each key was last added to, or removed from, published
    lastStart,    \* when the last fetch from each issuer began
    lastEnd       \* whether that fetch delivered a set with its key, or without

callVars == <<pc, token, at, began, body>>
cacheVars == <<cached, fetched_at, attempted_at>>
issuerVars == <<published, since>>
fetchVars == <<lastStart, lastEnd>>
vars == <<now, callVars, cacheVars, issuerVars, fetchVars>>

Ended == {"accepted", "rejected", "dropped"}
PCs == Ended \cup {"idle", "keys", "fetch", "reply"}
Fetching(c) == pc[c] \in {"fetch", "reply"}

TypeOK ==
    /\ now \in Instants
    /\ pc \in [Callers -> PCs]
    /\ token \in [Callers -> Tokens]
    /\ at \in [Callers -> Issuers]
    /\ began \in [Callers -> Instants]
    /\ body \in [Callers -> SUBSET KeyIds]
    /\ cached \in [Issuers -> SUBSET KeyIds]
    /\ fetched_at \in [Issuers -> Instants \cup {Never}]
    /\ attempted_at \in [Issuers -> Instants \cup {Never}]
    /\ published \in [Issuers -> SUBSET KeyIds]
    /\ since \in [Issuers -> [KeyIds -> Instants \cup {Never}]]
    /\ lastStart \in [Issuers -> Instants \cup {Never}]
    /\ lastEnd \in [Issuers -> {"none", "hit", "miss"}]

Init ==
    /\ now = 0
    /\ pc = [c \in Callers |-> "idle"]
    /\ token \in [Callers -> Tokens]
    /\ at = [c \in Callers |-> 1]
    /\ began = [c \in Callers |-> 0]
    /\ body = [c \in Callers |-> {}]
    /\ cached = [i \in Issuers |-> {}]
    /\ fetched_at = [i \in Issuers |-> Never]
    /\ attempted_at = [i \in Issuers |-> Never]
    /\ published \in [Issuers -> SUBSET KeyIds]
    /\ since = [i \in Issuers |-> [k \in KeyIds |-> IF k \in published[i] THEN 0 ELSE Never]]
    /\ lastStart = [i \in Issuers |-> Never]
    /\ lastEnd = [i \in Issuers |-> "none"]

(***************************************************************************)
(* One call of verify.                                                     *)
(***************************************************************************)
\* The locals of keys go out of scope.
Return(c) ==
    /\ began' = [began EXCEPT ![c] = 0]
    /\ body' = [body EXCEPT ![c] = {}]

Within(instant, span) == instant # Never /\ now - instant < span

Start(c) ==
    /\ pc[c] \in Ended \cup {"idle"}
    /\ pc' = [pc EXCEPT ![c] = "keys"]
    /\ \E t \in Tokens : token' = [token EXCEPT ![c] = t]
    /\ at' = [at EXCEPT ![c] = 1]
    /\ UNCHANGED <<now, began, body, cacheVars, issuerVars, fetchVars>>

\* Slip: the same issuer again.
ContinueSame(c) == pc' = [pc EXCEPT ![c] = "keys"] /\ UNCHANGED at
\* Slip: one issuer too many.
ContinuePast(c) ==
    IF at[c] <= IssuerCount
    THEN at' = [at EXCEPT ![c] = @ + 1] /\ pc' = [pc EXCEPT ![c] = "keys"]
    ELSE pc' = [pc EXCEPT ![c] = "rejected"] /\ UNCHANGED at
\* `continue`: the next issuer, or a refusal after the last one.
Continue(c) ==
    IF at[c] < IssuerCount
    THEN at' = [at EXCEPT ![c] = @ + 1] /\ pc' = [pc EXCEPT ![c] = "keys"]
    ELSE pc' = [pc EXCEPT ![c] = "rejected"] /\ UNCHANGED at

\* The token against a key set of the issuer being tried.
Verify(c, set) ==
    IF token[c].kid \in set /\ token[c].iss = at[c]
    THEN pc' = [pc EXCEPT ![c] = "accepted"] /\ UNCHANGED at
    ELSE Continue(c)

\* cache.lock(): one call per issuer holds it, through its whole fetch.
Free(i) == \A d \in Callers : Fetching(d) => at[d] # i

\* Slip: an expired key set is good enough for a key it knows.
UsableKnown(c) == token[c].kid \in cached[at[c]]
\* fresh && known
Usable(c) == Within(fetched_at[at[c]], TTL) /\ token[c].kid \in cached[at[c]]

\* Slip: only a fresh set is protected from refreshing.
ThrottledFresh(c) ==
    Within(attempted_at[at[c]], Cooldown) /\ Within(fetched_at[at[c]], TTL)
\* guarded && (fresh || failed_attempt)
Throttled(c) ==
    /\ Within(attempted_at[at[c]], Cooldown)
    /\ Within(fetched_at[at[c]], TTL) \/ attempted_at[at[c]] # fetched_at[at[c]]

KeysHit(c) ==
    /\ pc[c] = "keys" /\ Free(at[c])
    /\ Usable(c)
    /\ Verify(c, cached[at[c]])
    /\ UNCHANGED <<now, token, began, body, cacheVars, issuerVars, fetchVars>>

KeysThrottled(c) ==
    /\ pc[c] = "keys" /\ Free(at[c])
    /\ ~Usable(c) /\ Throttled(c)
    /\ Continue(c)
    /\ UNCHANGED <<now, token, began, body, cacheVars, issuerVars, fetchVars>>

KeysFetch(c) ==
    /\ pc[c] = "keys" /\ Free(at[c])
    /\ ~Usable(c) /\ ~Throttled(c)
    /\ pc' = [pc EXCEPT ![c] = "fetch"]
    /\ began' = [began EXCEPT ![c] = now]
    /\ attempted_at' = [attempted_at EXCEPT ![at[c]] = now]
    /\ lastStart' = [lastStart EXCEPT ![at[c]] = now]
    /\ lastEnd' = [lastEnd EXCEPT ![at[c]] = "none"]
    /\ UNCHANGED <<now, token, at, body, cached, fetched_at, issuerVars>>

\* The issuer answers; the body is still on its way.
Serve(c) ==
    /\ pc[c] = "fetch"
    /\ pc' = [pc EXCEPT ![c] = "reply"]
    /\ body' = [body EXCEPT ![c] = published[at[c]]]
    /\ UNCHANGED <<now, token, at, began, cacheVars, issuerVars, fetchVars>>

\* Slip: the cache is stamped with the time of the answer.
FetchedStampedLate(c) ==
    /\ cached' = [cached EXCEPT ![at[c]] = body[c]]
    /\ fetched_at' = [fetched_at EXCEPT ![at[c]] = now]
    /\ UNCHANGED attempted_at
Fetched(c) ==
    /\ cached' = [cached EXCEPT ![at[c]] = body[c]]
    /\ fetched_at' = [fetched_at EXCEPT ![at[c]] = began[c]]
    /\ UNCHANGED attempted_at

Receive(c) ==
    /\ pc[c] = "reply"
    /\ Fetched(c)
    /\ lastEnd' = [lastEnd EXCEPT ![at[c]] = IF token[c].kid \in body[c] THEN "hit" ELSE "miss"]
    /\ Verify(c, body[c]) /\ Return(c)
    /\ UNCHANGED <<now, token, issuerVars, lastStart>>

\* Slip: a failed refresh empties the cache.
CacheAfterFailureEmpty(c) ==
    /\ cached' = [cached EXCEPT ![at[c]] = {}]
    /\ UNCHANGED <<fetched_at, attempted_at>>
\* Each `?` after the attempt was noted returns with the old keys in place.
CacheAfterFailure(c) == UNCHANGED cacheVars

\* Transport error, error status, timeout, oversized or unparsable body.
FetchFails(c) ==
    /\ Fetching(c)
    /\ CacheAfterFailure(c)
    /\ Continue(c) /\ Return(c)
    /\ UNCHANGED <<now, token, issuerVars, fetchVars>>

\* The future is dropped: the mutex is released, the attempt stays noted.
Drop(c) ==
    /\ pc[c] = "keys" \/ Fetching(c)
    /\ pc' = [pc EXCEPT ![c] = "dropped"] /\ Return(c)
    /\ UNCHANGED <<now, token, at, cacheVars, issuerVars, fetchVars>>

(***************************************************************************)
(* The issuers and the clock.                                              *)
(***************************************************************************)
Rotate(i) ==
    /\ \E set \in SUBSET KeyIds \ {published[i]} :
          published' = [published EXCEPT ![i] = set]
    /\ since' = [since EXCEPT ![i] = [k \in KeyIds |->
                    IF (k \in published[i]) = (k \in published'[i]) THEN @[k] ELSE now]]
    /\ UNCHANGED <<now, callVars, cacheVars, fetchVars>>

\* A fetch ends within the client's timeout.
Tick ==
    /\ now < MaxTime
    /\ \A c \in Callers : Fetching(c) => now < began[c] + Timeout
    /\ now' = now + 1
    /\ UNCHANGED <<callVars, cacheVars, issuerVars, fetchVars>>

Step(c) ==
    KeysHit(c) \/ KeysThrottled(c) \/ KeysFetch(c) \/ Receive(c) \/ FetchFails(c)

Next ==
    \/ \E c \in Callers : Start(c) \/ Step(c) \/ Serve(c) \/ Drop(c)
    \/ \E i \in Issuers : Rotate(i)
    \/ Tick

Spec == Init /\ [][Next]_vars

\* tokio polls ready futures, its mutex is first in, first out, and the HTTP
\* client ends every request; the issuer need never answer.
Fairness == \A c \in Callers : WF_vars(Step(c)) /\ SF_vars(Step(c) /\ ~Fetching(c))
FairSpec == Spec /\ Fairness

(***************************************************************************)
(* Properties.                                                             *)
(***************************************************************************)
Begins(c) == pc[c] # "fetch" /\ pc'[c] = "fetch"
Accepts(c) == pc[c] # "accepted" /\ pc'[c] = "accepted"
Refuses(c) ==   \* the issuer that signed the token does not vouch for it
    /\ pc[c] = "keys" \/ Fetching(c)
    /\ at[c] = token[c].iss
    /\ pc'[c] = "rejected" \/ at'[c] # at[c]

\* Fetches from one issuer are a cooldown apart, unless the earlier one
\* delivered and its keys have expired: neither failures, nor dropped calls,
\* nor tokens with unknown keys turn into a flood of requests (keys).
FetchesSpaced ==
    [][\A c \in Callers : Begins(c) =>
         \/ ~Within(lastStart[at[c]], Cooldown)
         \/ lastEnd[at[c]] # "none" /\ ~Within(lastStart[at[c]], TTL)]_vars

\* A key the issuer no longer publishes verifies nothing once a TTL has passed
\* since its removal, however many fetches fail, race or are dropped; one fetch
\* already under way may still deliver it.
RevokedKeyExpires ==
    [][\A c \in Callers : Accepts(c) =>
         LET gone == since[token[c].iss][token[c].kid]
         IN  \/ token[c].kid \in published[token[c].iss]
             \/ Within(gone, TTL) \/ Within(gone, Timeout + 1)]_vars

\* The issuer of a token whose key it has published for a whole cooldown does
\* vouch for it, unless its last fetch failed inside the cooldown; and even
\* then it does if the last good fetch is still fresh and saw the key.
KeyAvailable ==
    [][\A c \in Callers : Refuses(c) =>
         LET i == token[c].iss
             k == token[c].kid
         IN  k \in published[i] /\ ~Within(since[i][k], Cooldown) =>
               /\ Within(lastStart[i], Cooldown) /\ lastEnd[i] = "none"
               /\ Within(fetched_at[i], TTL) => since[i][k] >= fetched_at[i]]_vars

\* docs/AUTHENTICATION.md: "An unknown key can trigger refresh, with a 30-second
\* guard against repeated misses/failures."  After a fetch that did not bring
\* its key, no call for a key the cache lacks fetches again inside the guard.
MissesSpaced ==
    [][\A c \in Callers :
         Begins(c) /\ lastEnd[at[c]] = "miss" /\ token[c].kid \notin cached[at[c]]
           => ~Within(lastStart[at[c]], Cooldown)]_vars

\* Every authentication is answered, although it may wait for the fetches of
\* others and the issuers may never answer.
EveryCallAnswered == \A c \in Callers : pc[c] = "keys" ~> pc[c] \in Ended

=============================================================================
