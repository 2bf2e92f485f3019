-------------------------- MODULE TokenVerification --------------------------
(***************************************************************************)
(* verify, compatible, valid_claims and claim_scopes of src/auth/jwt.rs,   *)
(* for one bearer token.  The trusted issuers are tried in turn; each may  *)
(* make the verification wait for a fetch of its keys (module JwksCache    *)
(* models the cache behind it), so time passes between two issuers.        *)
(***************************************************************************)
EXTENDS Naturals, Sequences

CONSTANTS
    Issuers,    \* the trusted issuers, a sequence
    Algorithms, \* the configured signature algorithms
    Keys,       \* keys an issuer may publish: [kid, fits, usable]
    NoKid,      \* a token or key without key id
    Scopes,     \* the scopes the server knows
    Unreachable,\* what a failed fetch gives
    Never,      \* a claim that is absent
    Tokens,     \* the tokens that are presented
    MaxClock    \* bound of the clock, which starts at 0

TokenAssumption == Issuers \in Seq({Issuers[i] : i \in DOMAIN Issuers}) /\ MaxClock \in Nat

VARIABLES
    token,    \* what the client presents
    asked,    \* how many issuers have been tried
    answers,  \* history: what each gave, and when
    clock,
    verdict

vars == <<token, asked, answers, clock, verdict>>

Pending == [kind |-> "pending"]
Missing == [kind |-> "missing"]
Invalid == [kind |-> "invalid"]
Granted(iss, scopes) == [kind |-> "granted", issuer |-> iss, scopes |-> scopes]

TypeOK ==
    /\ token \in Tokens
    /\ asked \in 0..Len(Issuers) /\ Len(answers) = asked
    /\ \A i \in 1..asked : answers[i].keys \in {Unreachable} \cup SUBSET Keys /\ answers[i].at \in 0..clock
    /\ clock \in 0..MaxClock
    /\ \/ verdict \in {Pending, Missing, Invalid}
       \/ verdict.kind = "granted" /\ verdict.scopes \subseteq Scopes

\* fits: the algorithms that the key's type, curve, declared algorithm, use and
\* operations all allow.
Compatible(key) ==
    /\ token.kid = NoKid \/ key.kid = token.kid
    /\ token.alg \in key.fits

Candidates(keys) == {key \in keys : Compatible(key)}

ValidClaims(issuer, now) ==
    /\ token.iss = issuer /\ token.audience
    /\ token.exp # Never /\ token.exp > now
    /\ token.nbf # Never => token.nbf <= now
    /\ token.iatIsNumber

\* Slip: every word of the claim is granted.
ClaimScopesUnfiltered == IF token.textual THEN token.scope ELSE {}

\* A claim that is neither a string nor a list of strings grants nothing; words that are
\* no scope are dropped.
ClaimScopes == IF token.textual THEN token.scope \cap Scopes ELSE {}

\* Slip: the claims are judged by the time the request came in.
AcceptsOnArrival(issuer, keys, now) ==
    /\ keys # Unreachable
    /\ \E key \in keys : Candidates(keys) = {key} /\ key.usable /\ token.signer = key
    /\ ValidClaims(issuer, 0) /\ token.subject
Accepts(issuer, keys, now) ==
    /\ keys # Unreachable
    /\ \E key \in keys : Candidates(keys) = {key} /\ key.usable /\ token.signer = key
    /\ ValidClaims(issuer, now) /\ token.subject

Init ==
    /\ token \in Tokens /\ asked = 0 /\ answers = <<>>
    /\ clock = 0 /\ verdict = Pending

\* header: "none" when there is no bearer token, "broken" when it is empty, longer than
\* MAX_TOKEN_BYTES, cannot be decoded or has critical parameters that are not understood.
HeaderRefused == token.header # "fine" \/ token.alg \notin Algorithms

Refuse ==
    /\ verdict = Pending /\ asked = 0 /\ HeaderRefused
    /\ verdict' = IF token.header = "none" THEN Missing ELSE Invalid
    /\ UNCHANGED <<token, asked, answers, clock>>

\* Slip: an issuer that cannot be reached ends the verification.
TryOrGiveUp(keys) ==
    /\ verdict = Pending /\ ~HeaderRefused /\ asked < Len(Issuers)
    /\ asked' = asked + 1 /\ answers' = Append(answers, [keys |-> keys, at |-> clock])
    /\ verdict' = CASE keys = Unreachable -> Invalid
                    [] Accepts(Issuers[asked'], keys, clock) -> Granted(Issuers[asked'], ClaimScopes)
                    [] OTHER -> verdict
    /\ UNCHANGED <<token, clock>>
\* One turn of the loop; whatever is wrong with an issuer or its keys, the next is tried.
Try(keys) ==
    /\ verdict = Pending /\ ~HeaderRefused /\ asked < Len(Issuers)
    /\ asked' = asked + 1 /\ answers' = Append(answers, [keys |-> keys, at |-> clock])
    /\ verdict' = IF Accepts(Issuers[asked'], keys, clock) THEN Granted(Issuers[asked'], ClaimScopes) ELSE verdict
    /\ UNCHANGED <<token, clock>>

GiveUp ==
    /\ verdict = Pending /\ asked = Len(Issuers)
    /\ verdict' = Invalid
    /\ UNCHANGED <<token, asked, answers, clock>>

Tick ==
    /\ verdict = Pending /\ clock < MaxClock /\ clock' = clock + 1
    /\ UNCHANGED <<token, asked, answers, verdict>>

Next ==
    \/ Refuse
    \/ \E keys \in {Unreachable} \cup SUBSET Keys : Try(keys)
    \/ GiveUp
    \/ Tick

Spec == Init /\ [][Next]_vars

(***************************************************************************)
(* Properties                                                              *)
(***************************************************************************)

\* A granted token is inside its validity window when it is granted, however long the keys
\* of this and of earlier issuers took, and its signer is the one key that the issuer it
\* names published for it: no other key of that issuer answers to the same header.
GrantedIsVouchedFor ==
    verdict.kind = "granted" =>
        /\ token.exp > clock /\ (token.nbf = Never \/ token.nbf <= clock)
        /\ verdict.issuer = token.iss
        /\ \E i \in 1..asked :
              /\ Issuers[i] = token.iss /\ token.signer \in answers[i].keys
              /\ \A key \in answers[i].keys \ {token.signer} : ~Compatible(key)

\* A token is refused only if no trusted issuer vouched for it when it was asked: an issuer
\* that is down, or publishes nothing usable, does not lock out the tokens of the others.
RefusedForCause ==
    verdict = Invalid /\ ~HeaderRefused =>
        /\ asked = Len(Issuers)
        /\ \A i \in 1..asked : ~Accepts(Issuers[i], answers[i].keys, answers[i].at)
=============================================================================
