-------------------------- MODULE JwksCacheProofs --------------------------
(***************************************************************************)
(* Proofs about the signing-key cache, for any number of callers, issuers  *)
(* and keys and any bound on the clock.                                    *)
(***************************************************************************)
EXTENDS JwksCache, TLAPS

(***************************************************************************)
(* The inductive invariant.                                                *)
(***************************************************************************)

\* A call inside its fetch is alone at its issuer, holds the instant the cache
\* notes as the last attempt, is inside the timeout and found no usable key.
FlightInv ==
    \A c \in Callers : Fetching(c) =>
        /\ began[c] = attempted_at[at[c]]
        /\ lastEnd[at[c]] = "none"
        /\ now <= began[c] + Timeout
        /\ ~Usable(c)
        /\ \A d \in Callers : Fetching(d) /\ at[d] = at[c] => d = c

\* Where the last fetch delivered, attempted_at = fetched_at.
ClockInv ==
    \A i \in Issuers :
        /\ lastStart[i] = attempted_at[i]
        /\ attempted_at[i] # Never => attempted_at[i] <= now
        /\ fetched_at[i] # Never => attempted_at[i] # Never /\ fetched_at[i] <= attempted_at[i]
        /\ lastEnd[i] # "none" => fetched_at[i] # Never /\ fetched_at[i] = attempted_at[i]

\* A set fetched from an instant on holds the keys published throughout, and
\* only keys that were still published at that instant.
Covers(set, i, instant) ==
    \A k \in KeyIds :
        /\ k \in set => k \in published[i] \/ (since[i][k] # Never /\ since[i][k] >= instant)
        /\ k \in published[i] /\ since[i][k] < instant => k \in set

KeyInv ==
    /\ \A i \in Issuers : \A k \in KeyIds :
          /\ k \in published[i] => since[i][k] # Never
          /\ since[i][k] # Never => since[i][k] <= now
    /\ \A i \in Issuers : fetched_at[i] = Never => cached[i] = {}
    /\ \A i \in Issuers : fetched_at[i] # Never => Covers(cached[i], i, fetched_at[i])
    /\ \A c \in Callers : pc[c] = "reply" => Covers(body[c], at[c], began[c])

CacheInv == TypeOK /\ FlightInv /\ ClockInv /\ KeyInv

LEMMA InitInv == Init => CacheInv
<1> SUFFICES ASSUME Init PROVE CacheInv
  OBVIOUS
<1> USE JwksAssumption DEF Init, Issuers, Instants, Tokens
<1>1. TypeOK
  BY DEF TypeOK, PCs
<1>2. FlightInv
  BY DEF FlightInv, Fetching
<1>3. ClockInv
  BY DEF ClockInv
<1>4. KeyInv
  BY DEF KeyInv
<1> QED BY <1>1, <1>2, <1>3, <1>4 DEF CacheInv

(***************************************************************************)
(* A call moves on: it is answered, or turns to the next issuer.           *)
(***************************************************************************)
MovesOn(c) ==
    /\ \E to \in {"keys", "accepted", "rejected", "dropped"} : pc' = [pc EXCEPT ![c] = to]
    /\ at' = at \/ (at[c] < IssuerCount /\ at' = [at EXCEPT ![c] = @ + 1])

LEMMA ContinueMoves == ASSUME NEW c \in Callers, Continue(c) PROVE MovesOn(c)
BY DEF Continue, MovesOn

LEMMA VerifyMoves == ASSUME NEW c \in Callers, NEW set, Verify(c, set) PROVE MovesOn(c)
BY ContinueMoves DEF Verify, MovesOn

LEMMA MovesTypes ==
    ASSUME TypeOK, NEW c \in Callers, MovesOn(c)
    PROVE  /\ pc' \in [Callers -> PCs] /\ at' \in [Callers -> Issuers]
           /\ ~Fetching(c)'
           /\ \A d \in Callers : d # c => pc'[d] = pc[d] /\ at'[d] = at[d]
<1>1. /\ pc' \in [Callers -> PCs] /\ ~Fetching(c)'
      /\ \A d \in Callers : d # c => pc'[d] = pc[d]
  BY DEF MovesOn, TypeOK, PCs, Ended, Fetching
<1>2. at' \in [Callers -> Issuers] /\ \A d \in Callers : d # c => at'[d] = at[d]
  <2>1. CASE at' = at
    BY <2>1 DEF TypeOK
  <2>2. CASE at[c] < IssuerCount /\ at' = [at EXCEPT ![c] = @ + 1]
    <3>1. at[c] + 1 \in Issuers
      BY <2>2, JwksAssumption DEF TypeOK, Issuers
    <3> QED BY <2>2, <3>1 DEF TypeOK
  <2> QED BY <2>1, <2>2 DEF MovesOn
<1> QED BY <1>1, <1>2

\* Moving on without touching the cache disturbs nothing.
LEMMA MovesKeep ==
    ASSUME CacheInv, NEW c \in Callers, MovesOn(c),
           token' \in [Callers -> Tokens],
           \A d \in Callers : d # c => token'[d] = token[d],
           \/ UNCHANGED <<began, body>>
           \/ began' = [began EXCEPT ![c] = 0] /\ body' = [body EXCEPT ![c] = {}],
           UNCHANGED <<now, cacheVars, issuerVars, fetchVars>>
    PROVE  CacheInv'
<1> USE DEF cacheVars, issuerVars, fetchVars
<1>1. TypeOK'
  <2>1. 0 \in Instants /\ {} \in SUBSET KeyIds
    BY JwksAssumption DEF Instants
  <2>2. began' \in [Callers -> Instants] /\ body' \in [Callers -> SUBSET KeyIds]
    BY <2>1 DEF CacheInv, TypeOK
  <2> QED BY <2>2, MovesTypes DEF CacheInv, TypeOK
<1>2. \A d \in Callers : d # c =>
         /\ began'[d] = began[d] /\ body'[d] = body[d]
         /\ pc'[d] = pc[d] /\ at'[d] = at[d] /\ token'[d] = token[d]
  BY MovesTypes DEF CacheInv, TypeOK
<1>3. FlightInv'
  <2>1. ~Fetching(c)'
    BY MovesTypes DEF CacheInv
  <2>2. \A d \in Callers : d # c =>
           Fetching(d)' = Fetching(d) /\ Usable(d)' = Usable(d)
    BY <1>2 DEF Fetching, Usable, Within
  <2> QED BY <1>2, <2>1, <2>2 DEF CacheInv, FlightInv
<1>4. ClockInv'
  BY DEF CacheInv, ClockInv
<1>5. KeyInv'
  BY <1>2, MovesTypes DEF CacheInv, KeyInv, Covers, Fetching
<1> QED BY <1>1, <1>3, <1>4, <1>5 DEF CacheInv

LEMMA StepInv == CacheInv /\ [Next]_vars => CacheInv'
<1> SUFFICES ASSUME CacheInv, [Next]_vars PROVE CacheInv'
  OBVIOUS
<1> USE JwksAssumption DEF callVars, cacheVars, issuerVars, fetchVars
<1>1. ASSUME NEW c \in Callers, Start(c) PROVE CacheInv'
  <2>1. /\ pc' = [pc EXCEPT ![c] = "keys"] /\ at' = [at EXCEPT ![c] = 1]
        /\ token' \in [Callers -> Tokens] /\ \A d \in Callers : d # c => token'[d] = token[d]
        /\ UNCHANGED <<now, began, body, cacheVars, issuerVars, fetchVars>>
    BY <1>1 DEF Start, CacheInv, TypeOK
  <2>2. TypeOK'
    BY <2>1 DEF CacheInv, TypeOK, PCs, Issuers
  <2>3. FlightInv'
    BY <2>1 DEF CacheInv, TypeOK, FlightInv, Fetching, Usable, Within
  <2>4. ClockInv'
    BY <2>1 DEF CacheInv, ClockInv
  <2>5. KeyInv'
    BY <2>1 DEF CacheInv, TypeOK, KeyInv, Covers
  <2> QED BY <2>2, <2>3, <2>4, <2>5 DEF CacheInv
<1>2. ASSUME NEW c \in Callers, KeysHit(c) PROVE CacheInv'
  BY <1>2, VerifyMoves, MovesKeep DEF KeysHit, CacheInv, TypeOK
<1>3. ASSUME NEW c \in Callers, KeysThrottled(c) PROVE CacheInv'
  BY <1>3, ContinueMoves, MovesKeep DEF KeysThrottled, CacheInv, TypeOK
<1>4. ASSUME NEW c \in Callers, KeysFetch(c) PROVE CacheInv'
  <2>1. TypeOK'
    BY <1>4 DEF KeysFetch, CacheInv, TypeOK, PCs
  <2>2. FlightInv'
    <3> SUFFICES ASSUME NEW d \in Callers, Fetching(d)'
                 PROVE  /\ began'[d] = attempted_at'[at'[d]]
                        /\ lastEnd'[at'[d]] = "none"
                        /\ now' <= began'[d] + Timeout
                        /\ ~Usable(d)'
                        /\ \A e \in Callers : Fetching(e)' /\ at'[e] = at'[d] => e = d
      BY DEF FlightInv
    <3>1. now \in Int /\ at[c] \in Issuers /\ at[d] \in Issuers
      BY DEF CacheInv, TypeOK, Instants
    <3>2. CASE d = c
      BY <1>4, <3>1, <3>2 DEF KeysFetch, CacheInv, TypeOK, Fetching, Free, Usable, Within
    <3>3. CASE d # c
      <4>1. Fetching(d) /\ at[d] # at[c]
        BY <1>4, <3>3 DEF KeysFetch, CacheInv, TypeOK, Fetching, Free
      <4> QED BY <1>4, <3>1, <3>3, <4>1 DEF KeysFetch, CacheInv, TypeOK, FlightInv, Fetching, Free,
                 Usable, Within
    <3> QED BY <3>2, <3>3
  <2>3. ClockInv'
    BY <1>4 DEF KeysFetch, CacheInv, TypeOK, ClockInv, Instants
  <2>4. KeyInv'
    BY <1>4 DEF KeysFetch, CacheInv, TypeOK, KeyInv, Covers
  <2> QED BY <2>1, <2>2, <2>3, <2>4 DEF CacheInv
<1>5. ASSUME NEW c \in Callers, Serve(c) PROVE CacheInv'
  <2>1. TypeOK'
    BY <1>5 DEF Serve, CacheInv, TypeOK, PCs
  <2>2. FlightInv'
    BY <1>5 DEF Serve, CacheInv, TypeOK, FlightInv, Fetching, Usable, Within
  <2>3. ClockInv'
    BY <1>5 DEF Serve, CacheInv, ClockInv
  <2>4. KeyInv'
    BY <1>5 DEF Serve, CacheInv, TypeOK, KeyInv, Covers
  <2> QED BY <2>1, <2>2, <2>3, <2>4 DEF CacheInv
<1>6. ASSUME NEW c \in Callers, Receive(c) PROVE CacheInv'
  <2>1. MovesOn(c)
    BY <1>6, VerifyMoves DEF Receive
  <2>2. /\ Fetching(c) /\ pc[c] = "reply"
        /\ began[c] = attempted_at[at[c]] /\ at[c] \in Issuers
        /\ \A d \in Callers : Fetching(d) /\ at[d] = at[c] => d = c
    BY <1>6 DEF Receive, CacheInv, FlightInv, Fetching, TypeOK
  <2>3. TypeOK'
    BY <1>6, <2>1, MovesTypes DEF Receive, Return, Fetched, CacheInv, TypeOK, Instants
  <2>4. \A d \in Callers : d # c =>
           /\ began'[d] = began[d] /\ body'[d] = body[d]
           /\ pc'[d] = pc[d] /\ at'[d] = at[d] /\ token'[d] = token[d]
    BY <1>6, <2>1, MovesTypes DEF Receive, Return, CacheInv, TypeOK
  <2>5. \A i \in Issuers : i # at[c] =>
           /\ cached'[i] = cached[i] /\ fetched_at'[i] = fetched_at[i] /\ lastEnd'[i] = lastEnd[i]
    BY <1>6, <2>2 DEF Receive, Fetched, CacheInv, TypeOK
  <2>6. FlightInv'
    <3> SUFFICES ASSUME NEW d \in Callers, Fetching(d)'
                 PROVE  /\ began'[d] = attempted_at'[at'[d]]
                        /\ lastEnd'[at'[d]] = "none"
                        /\ now' <= began'[d] + Timeout
                        /\ ~Usable(d)'
                        /\ \A e \in Callers : Fetching(e)' /\ at'[e] = at'[d] => e = d
      BY DEF FlightInv
    <3>1. d # c /\ ~Fetching(c)'
      BY <2>1, MovesTypes DEF CacheInv
    <3>2. Fetching(d) /\ at[d] # at[c] /\ at[d] \in Issuers
      BY <2>2, <2>4, <3>1 DEF Fetching, CacheInv, TypeOK
    <3> QED BY <1>6, <2>4, <2>5, <3>1, <3>2 DEF Receive, Fetched, CacheInv, FlightInv, Fetching,
               Usable, Within
  <2>7. ClockInv'
    <3>1. /\ fetched_at'[at[c]] = attempted_at[at[c]] /\ lastEnd'[at[c]] # "none"
          /\ fetched_at'[at[c]] # Never /\ fetched_at'[at[c]] \in Int
      BY <1>6, <2>2 DEF Receive, Fetched, CacheInv, TypeOK, Instants
    <3> QED BY <1>6, <2>2, <2>5, <3>1 DEF Receive, Fetched, CacheInv, ClockInv
  <2>8. KeyInv'
    <3>1. Covers(body[c], at[c], began[c])
      BY <2>2 DEF CacheInv, KeyInv
    <3>2. cached'[at[c]] = body[c] /\ fetched_at'[at[c]] = began[c] /\ began[c] # Never
      BY <1>6, <2>2 DEF Receive, Fetched, CacheInv, TypeOK, Instants
    <3>3. pc'[c] # "reply"
      BY <2>1, MovesTypes DEF CacheInv, Fetching
    <3> QED BY <1>6, <2>2, <2>4, <2>5, <3>1, <3>2, <3>3 DEF Receive, CacheInv, KeyInv, Covers
  <2> QED BY <2>3, <2>6, <2>7, <2>8 DEF CacheInv
<1>7. ASSUME NEW c \in Callers, FetchFails(c) PROVE CacheInv'
  BY <1>7, ContinueMoves, MovesKeep DEF FetchFails, CacheAfterFailure, Return, CacheInv, TypeOK
<1>8. ASSUME NEW c \in Callers, Drop(c) PROVE CacheInv'
  <2>1. MovesOn(c)
    BY <1>8 DEF Drop, MovesOn
  <2> QED BY <1>8, <2>1, MovesKeep DEF Drop, Return, CacheInv, TypeOK
<1>9. ASSUME NEW i \in Issuers, Rotate(i) PROVE CacheInv'
  <2>1. /\ \A j \in Issuers : j # i => published'[j] = published[j] /\ since'[j] = since[j]
        /\ \A k \in KeyIds : since'[i][k] = IF (k \in published[i]) = (k \in published'[i])
                                            THEN since[i][k] ELSE now
        /\ UNCHANGED <<now, callVars, cacheVars, fetchVars>>
        /\ now \in Int /\ now # Never
    BY <1>9 DEF Rotate, CacheInv, TypeOK, Instants
  <2>2. TypeOK'
    BY <1>9 DEF Rotate, CacheInv, TypeOK
  <2>3. FlightInv'
    BY <2>1 DEF CacheInv, FlightInv, Fetching, Usable, Within
  <2>4. ClockInv'
    BY <2>1 DEF CacheInv, ClockInv
  <2>5. ASSUME NEW set, NEW j \in Issuers, NEW t \in Int, t <= now, Covers(set, j, t)
        PROVE  Covers(set, j, t)'
    BY <2>1, <2>5 DEF Covers
  <2>6. \A j \in Issuers : fetched_at[j] # Never => fetched_at[j] \in Int /\ fetched_at[j] <= now
    BY DEF CacheInv, TypeOK, ClockInv, Instants
  <2>7. \A c \in Callers : pc[c] = "reply" =>
           began[c] \in Int /\ began[c] <= now /\ at[c] \in Issuers
    BY DEF CacheInv, TypeOK, ClockInv, FlightInv, Fetching, Instants
  <2>8. KeyInv'
    BY <2>1, <2>5, <2>6, <2>7 DEF CacheInv, KeyInv, Covers
  <2> QED BY <2>2, <2>3, <2>4, <2>8 DEF CacheInv
<1>10. CASE Tick
  <2>1. now' = now + 1 /\ now' \in Instants /\ now \in Int
    BY <1>10 DEF Tick, CacheInv, TypeOK, Instants
  <2>2. TypeOK'
    BY <1>10, <2>1 DEF Tick, CacheInv, TypeOK
  <2>3. FlightInv'
    <3>1. \A c \in Callers : Usable(c)' => Usable(c)
      BY <1>10, <2>1 DEF Tick, CacheInv, TypeOK, Usable, Within, Instants
    <3>2. \A c \in Callers : Fetching(c) => now' <= began[c] + Timeout
      BY <1>10, <2>1 DEF Tick, CacheInv, TypeOK, Instants
    <3> QED BY <1>10, <3>1, <3>2 DEF Tick, CacheInv, FlightInv, Fetching
  <2>4. ClockInv'
    BY <1>10, <2>1 DEF Tick, CacheInv, TypeOK, ClockInv, Instants
  <2>5. KeyInv'
    BY <1>10, <2>1 DEF Tick, CacheInv, TypeOK, KeyInv, Covers, Instants
  <2> QED BY <2>2, <2>3, <2>4, <2>5 DEF CacheInv
<1>11. CASE UNCHANGED vars
  BY <1>11 DEF vars, CacheInv, TypeOK, FlightInv, ClockInv, KeyInv, Covers, Fetching, Usable, Within
<1> QED
  BY <1>1, <1>2, <1>3, <1>4, <1>5, <1>6, <1>7, <1>8, <1>9, <1>10, <1>11 DEF Next, Step

LEMMA CacheInvariant == Spec => []CacheInv
BY InitInv, StepInv, PTL DEF Spec

(***************************************************************************)
(* The theorems.                                                           *)
(***************************************************************************)

\* Every variable keeps its type (the whole module).
THEOREM CacheTypes == Spec => []TypeOK
<1>1. CacheInv => TypeOK
  BY DEF CacheInv
<1> QED BY <1>1, CacheInvariant, PTL

\* A removed key verifies nothing once the TTL, or a fetch that was under way,
\* has run out (keys: fetched_at is the instant before the fetch, and the keys
\* returned are those of one cached or fetched set).
THEOREM RevocationTakesEffect == Spec => RevokedKeyExpires
<1>1. ASSUME CacheInv, [Next]_vars, NEW c \in Callers, Accepts(c),
             token[c].kid \notin published[token[c].iss]
      PROVE  \/ Within(since[token[c].iss][token[c].kid], TTL)
             \/ Within(since[token[c].iss][token[c].kid], Timeout + 1)
  <2> DEFINE i == token[c].iss
             k == token[c].kid
  <2>1. i \in Issuers /\ k \in KeyIds /\ since[i][k] \in Instants \cup {Never}
    BY <1>1 DEF CacheInv, TypeOK, Tokens
  <2>2. CASE KeysHit(c)
    <3>1. i = at[c] /\ k \in cached[i] /\ Within(fetched_at[i], TTL)
      BY <1>1, <2>2 DEF KeysHit, Verify, Continue, Accepts, Usable, CacheInv, TypeOK
    <3>2. fetched_at[i] # Never /\ since[i][k] # Never /\ since[i][k] >= fetched_at[i]
      BY <1>1, <2>1, <3>1 DEF CacheInv, KeyInv, Covers
    <3> QED BY <1>1, <2>1, <3>1, <3>2, JwksAssumption DEF CacheInv, TypeOK, Instants, Within
  <2>3. CASE Receive(c)
    <3>1. i = at[c] /\ k \in body[c] /\ pc[c] = "reply"
      BY <1>1, <2>3 DEF Receive, Verify, Continue, Accepts, CacheInv, TypeOK
    <3>2. since[i][k] # Never /\ since[i][k] >= began[c]
      BY <1>1, <2>1, <3>1 DEF CacheInv, KeyInv, Covers
    <3>3. now <= began[c] + Timeout
      BY <1>1, <3>1 DEF CacheInv, FlightInv, Fetching
    <3> QED BY <1>1, <2>1, <3>2, <3>3, JwksAssumption DEF CacheInv, TypeOK, Instants, Within
  <2>4. KeysHit(c) \/ Receive(c)
    BY <1>1 DEF Next, Step, vars, callVars, Accepts, Start, KeysHit, KeysThrottled, KeysFetch, Serve,
       Receive, FetchFails, Drop, Rotate, Tick, Continue, Verify, CacheInv, TypeOK
  <2> QED BY <2>2, <2>3, <2>4
<1>2. CacheInv /\ [Next]_vars =>
        [\A c \in Callers : Accepts(c) =>
           LET gone == since[token[c].iss][token[c].kid]
           IN  \/ token[c].kid \in published[token[c].iss]
               \/ Within(gone, TTL) \/ Within(gone, Timeout + 1)]_vars
  BY <1>1
<1> QED BY <1>2, CacheInvariant, PTL DEF Spec, RevokedKeyExpires

\* While the last fetch has not delivered, attempted_at # fetched_at.  With a
\* TTL of 0 two fetches could carry the same instant and hide a failure.
AttemptInv ==
    \A i \in Issuers :
        lastEnd[i] = "none" /\ attempted_at[i] # Never => fetched_at[i] # attempted_at[i]

LEMMA AttemptInvariant == ASSUME TTL > 0 PROVE Spec => []AttemptInv
<1>1. Init => AttemptInv
  BY DEF Init, AttemptInv
<1>2. CacheInv /\ AttemptInv /\ [Next]_vars => AttemptInv'
  <2> SUFFICES ASSUME CacheInv, AttemptInv, [Next]_vars PROVE AttemptInv'
    OBVIOUS
  <2> USE DEF cacheVars, issuerVars, fetchVars
  <2>1. ASSUME NEW c \in Callers, KeysFetch(c) PROVE AttemptInv'
    <3>1. /\ at[c] \in Issuers /\ now \in Int
          /\ fetched_at[at[c]] # Never => /\ fetched_at[at[c]] \in Int
                                          /\ attempted_at[at[c]] \in Int
                                          /\ fetched_at[at[c]] <= attempted_at[at[c]]
                                          /\ attempted_at[at[c]] <= now
      BY DEF CacheInv, TypeOK, ClockInv, Instants
    <3>2. fetched_at[at[c]] # now
      BY <2>1, <3>1, JwksAssumption DEF KeysFetch, Throttled, Within
    <3> QED BY <2>1, <3>1, <3>2 DEF KeysFetch, AttemptInv, CacheInv, TypeOK
  <2>2. ASSUME NEW c \in Callers, Receive(c) PROVE AttemptInv'
    BY <2>2 DEF Receive, Fetched, AttemptInv, CacheInv, TypeOK
  <2>3. CASE UNCHANGED <<attempted_at, fetched_at, lastEnd>>
    BY <2>3 DEF AttemptInv
  <2> QED BY <2>1, <2>2, <2>3 DEF Next, Step, vars, Start, KeysHit, KeysThrottled, Serve, FetchFails,
             CacheAfterFailure, Drop, Rotate, Tick
<1> QED BY <1>1, <1>2, CacheInvariant, PTL DEF Spec

\* Failures, dropped calls and unknown keys never make a flood of requests: two
\* fetches from one issuer are a cooldown apart, or an expired delivery apart
\* (keys: the guard over attempted_at and fetched_at).
THEOREM NoRefreshFlood == ASSUME TTL > 0 PROVE Spec => FetchesSpaced
<1>1. ASSUME CacheInv, AttemptInv, [Next]_vars, NEW c \in Callers, Begins(c),
             Within(lastStart[at[c]], Cooldown)
      PROVE  lastEnd[at[c]] # "none" /\ ~Within(lastStart[at[c]], TTL)
  <2>1. KeysFetch(c)
    BY <1>1 DEF Next, Step, vars, callVars, Begins, Start, KeysHit, KeysThrottled, KeysFetch, Serve,
       Receive, FetchFails, Drop, Rotate, Tick, Continue, Verify, CacheInv, TypeOK, Ended
  <2>2. at[c] \in Issuers /\ lastStart[at[c]] = attempted_at[at[c]] /\ attempted_at[at[c]] # Never
    BY <1>1 DEF CacheInv, TypeOK, ClockInv, Within
  <2>3. ~Within(fetched_at[at[c]], TTL) /\ attempted_at[at[c]] = fetched_at[at[c]]
    BY <1>1, <2>1, <2>2 DEF KeysFetch, Throttled
  <2> QED BY <1>1, <2>2, <2>3 DEF AttemptInv
<1>2. CacheInv /\ AttemptInv /\ [Next]_vars =>
        [\A c \in Callers : Begins(c) =>
           \/ ~Within(lastStart[at[c]], Cooldown)
           \/ lastEnd[at[c]] # "none" /\ ~Within(lastStart[at[c]], TTL)]_vars
  BY <1>1
<1> QED BY <1>2, CacheInvariant, AttemptInvariant, PTL DEF Spec, FetchesSpaced

\* A token whose key has been published for a cooldown is refused by its issuer
\* only after a failed fetch, and a fresh set that saw the key prevents even
\* that (keys: the fresh and known branch comes before the guard).
THEOREM KnownKeyStaysUsable == Spec => KeyAvailable
<1>1. ASSUME CacheInv, [Next]_vars, NEW c \in Callers, Refuses(c),
             token[c].kid \in published[at[c]], ~Within(since[at[c]][token[c].kid], Cooldown)
      PROVE  /\ Within(lastStart[at[c]], Cooldown) /\ lastEnd[at[c]] = "none"
             /\ Within(fetched_at[at[c]], TTL) => since[at[c]][token[c].kid] >= fetched_at[at[c]]
  <2> DEFINE i == at[c]
             k == token[c].kid
  <2>1. /\ i \in Issuers /\ k \in KeyIds /\ since[i][k] \in Int /\ now \in Int
        /\ now - since[i][k] >= Cooldown
    BY <1>1, JwksAssumption DEF CacheInv, TypeOK, KeyInv, Tokens, Instants, Within
  <2>2. ~Usable(c) => (Within(fetched_at[i], TTL) => since[i][k] >= fetched_at[i])
    <3> SUFFICES ASSUME ~Usable(c), Within(fetched_at[i], TTL), ~(since[i][k] >= fetched_at[i])
                 PROVE  FALSE
      OBVIOUS
    <3>1. fetched_at[i] \in Int /\ fetched_at[i] # Never
      BY <1>1, <2>1 DEF CacheInv, TypeOK, Within, Instants
    <3>2. k \in cached[i]
      BY <1>1, <2>1, <3>1 DEF CacheInv, KeyInv, Covers
    <3> QED BY <3>2 DEF Usable
  <2>3. ~KeysHit(c)
    BY <1>1 DEF KeysHit, Verify, Usable, Refuses, CacheInv, TypeOK
  <2>4. CASE KeysThrottled(c)
    <3>1. ~Usable(c) /\ Within(attempted_at[i], Cooldown)
          /\ (Within(fetched_at[i], TTL) \/ attempted_at[i] # fetched_at[i])
      BY <2>4 DEF KeysThrottled, Throttled
    <3>2. attempted_at[i] \in Int /\ lastStart[i] = attempted_at[i] /\ now - attempted_at[i] < Cooldown
      BY <1>1, <2>1, <3>1 DEF CacheInv, TypeOK, ClockInv, Within, Instants
    <3>3. lastEnd[i] = "none"
      <4> SUFFICES ASSUME lastEnd[i] # "none" PROVE FALSE
        OBVIOUS
      <4>1. fetched_at[i] = attempted_at[i]
        BY <1>1, <2>1 DEF CacheInv, ClockInv
      <4>2. since[i][k] < fetched_at[i]
        BY <2>1, <3>2, <4>1, JwksAssumption
      <4> QED BY <2>1, <2>2, <3>1, <3>2, <4>1, <4>2
    <3> QED BY <2>2, <3>1, <3>2, <3>3
  <2>5. ASSUME Fetching(c)
        PROVE  /\ lastStart[i] = began[c] /\ lastEnd[i] = "none" /\ ~Usable(c)
               /\ began[c] \in Int /\ began[c] # Never /\ now - began[c] < Cooldown
    BY <1>1, <2>1, <2>5, JwksAssumption DEF CacheInv, TypeOK, ClockInv, FlightInv, Instants
  <2>6. CASE Receive(c)
    <3>1. pc[c] = "reply" /\ k \notin body[c]
      BY <1>1, <2>6 DEF Receive, Verify, Refuses, CacheInv, TypeOK
    <3>2. since[i][k] < began[c]
      BY <2>1, <2>5, <3>1, JwksAssumption DEF Fetching
    <3> QED BY <1>1, <2>1, <3>1, <3>2 DEF CacheInv, KeyInv, Covers
  <2>7. CASE FetchFails(c)
    BY <2>2, <2>5, <2>7 DEF FetchFails, Within
  <2>8. KeysThrottled(c) \/ Receive(c) \/ FetchFails(c)
    BY <1>1, <2>3 DEF Next, Step, vars, callVars, Refuses, Fetching, Start, KeysHit, KeysThrottled,
       KeysFetch, Serve, Receive, FetchFails, Drop, Rotate, Tick, Continue, Verify, CacheInv, TypeOK,
       Ended
  <2> QED BY <2>4, <2>6, <2>7, <2>8
<1>2. CacheInv /\ [Next]_vars =>
        [\A c \in Callers : Refuses(c) =>
           LET i == token[c].iss
               k == token[c].kid
           IN  k \in published[i] /\ ~Within(since[i][k], Cooldown) =>
                 /\ Within(lastStart[i], Cooldown) /\ lastEnd[i] = "none"
                 /\ Within(fetched_at[i], TTL) => since[i][k] >= fetched_at[i]]_vars
  BY <1>1 DEF Refuses
<1> QED BY <1>2, CacheInvariant, PTL DEF Spec, KeyAvailable

=============================================================================
