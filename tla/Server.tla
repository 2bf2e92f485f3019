-------------------------------- MODULE Server --------------------------------
(***************************************************************************)
(* The parts of the server that share no state with one another, run       *)
(* together: any subset of them may be active in a behaviour, the others   *)
(* stay at rest.  The constants of a part are the fields of one record.    *)
(***************************************************************************)
EXTENDS AuditRotation, Sequences

CONSTANTS
    RegistrySetup,   \* of FrameworkRegistry
    CaptureSetup,    \* of SourceCaptures
    DailySetup,      \* of DailyNotes
    SkillSetup,      \* of SkillReload
    BearerSetup,     \* of TokenVerification
    HttpSetup,       \* of RequestPath
    PatternSetup,    \* of PathPatterns
    Together,        \* the sets of parts that are run together
    Idle, Absent, Preset, NoSource, Nobody, Unset

(***************************************************************************)
(* The parts                                                               *)
(***************************************************************************)
VARIABLES reg_pc, reg_req, reg_outcome, reg_seen, reg_file, reg_temps, reg_blocked, reg_late, reg_landed,
          reg_disturbed
registryVars == <<reg_pc, reg_req, reg_outcome, reg_seen, reg_file, reg_temps, reg_blocked, reg_late,
                  reg_landed, reg_disturbed>>

Reg == INSTANCE FrameworkRegistry WITH
    Calls <- RegistrySetup.calls, Droppable <- RegistrySetup.droppable, Overlays <- RegistrySetup.overlays,
    RegistryPath <- RegistrySetup.path, Names <- RegistrySetup.names, Requests <- RegistrySetup.requests,
    Environment <- RegistrySetup.environment,
    pc <- reg_pc, req <- reg_req, outcome <- reg_outcome, seen <- reg_seen, file <- reg_file, temps <- reg_temps,
    blocked <- reg_blocked, late <- reg_late, landed <- reg_landed, disturbed <- reg_disturbed

VARIABLES cap_pc, cap_req, cap_notes, cap_hidden, cap_index, cap_found, cap_read, cap_todo, cap_snap, cap_late,
          cap_published, cap_known, cap_unsure
captureVars == <<cap_pc, cap_req, cap_notes, cap_hidden, cap_index, cap_found, cap_read, cap_todo, cap_snap,
                 cap_late, cap_published, cap_known, cap_unsure>>

Cap == INSTANCE SourceCaptures WITH
    Calls <- CaptureSetup.calls, Droppable <- CaptureSetup.droppable, Paths <- CaptureSetup.paths,
    Sources <- CaptureSetup.sources,
    Requests <- CaptureSetup.requests, Hideable <- CaptureSetup.hideable, IoErrors <- CaptureSetup.ioErrors,
    pc <- cap_pc, req <- cap_req, notes <- cap_notes, hidden <- cap_hidden, index <- cap_index, found <- cap_found,
    read <- cap_read, todo <- cap_todo, snap <- cap_snap, late <- cap_late, published <- cap_published,
    known <- cap_known, unsure <- cap_unsure

VARIABLES day_pc, day_op, day_base, day_seen, day_text, day_note, day_template, day_late, day_past, day_landed,
          day_disturbed
dailyVars == <<day_pc, day_op, day_base, day_seen, day_text, day_note, day_template, day_late, day_past,
               day_landed, day_disturbed>>

Day == INSTANCE DailyNotes WITH
    Calls <- DailySetup.calls, Droppable <- DailySetup.droppable, Ops <- DailySetup.ops, Rests <- DailySetup.rests,
    Drafts <- DailySetup.drafts, Faults <- DailySetup.faults,
    pc <- day_pc, op <- day_op, base <- day_base, seen <- day_seen, text <- day_text, note <- day_note,
    template <- day_template, late <- day_late, past <- day_past, landed <- day_landed, disturbed <- day_disturbed

VARIABLES skl_pc, skl_vault, skl_edits, skl_target, skl_todo, skl_load, skl_paths, skl_policy, skl_snapshot, skl_got,
          skl_asked
skillVars == <<skl_pc, skl_vault, skl_edits, skl_target, skl_todo, skl_load, skl_paths, skl_policy,
               skl_snapshot, skl_got, skl_asked>>

Skl == INSTANCE SkillReload WITH
    Reloads <- SkillSetup.reloads, Clients <- SkillSetup.clients, Droppable <- SkillSetup.droppable,
    Map <- SkillSetup.map,
    Paths <- SkillSetup.paths, Resolved <- SkillSetup.resolved, Configured <- SkillSetup.configured,
    Vaults <- SkillSetup.vaults,
    MaxEdits <- SkillSetup.maxEdits, IoErrors <- SkillSetup.ioErrors,
    pc <- skl_pc, vault <- skl_vault, edits <- skl_edits, target <- skl_target, todo <- skl_todo, load <- skl_load,
    paths <- skl_paths, policy <- skl_policy, snapshot <- skl_snapshot, got <- skl_got, asked <- skl_asked

VARIABLES tok_token, tok_asked, tok_answers, tok_clock, tok_verdict
tokenVars == <<tok_token, tok_asked, tok_answers, tok_clock, tok_verdict>>

Tok == INSTANCE TokenVerification WITH
    Issuers <- BearerSetup.issuers, Algorithms <- BearerSetup.algorithms, Keys <- BearerSetup.keys,
    NoKid <- BearerSetup.noKid,
    Scopes <- BearerSetup.scopes, Unreachable <- Absent, Never <- Unset, Tokens <- BearerSetup.tokens,
    MaxClock <- BearerSetup.maxClock,
    token <- tok_token, asked <- tok_asked, answers <- tok_answers, clock <- tok_clock, verdict <- tok_verdict

VARIABLES rq_config, rq_token, rq_phase, rq_request, rq_id, rq_auth, rq_answer, rq_effects, rq_listed
requestVars == <<rq_config, rq_token, rq_phase, rq_request, rq_id, rq_auth, rq_answer, rq_effects, rq_listed>>

Rq == INSTANCE RequestPath WITH
    Requests <- HttpSetup.requests, Claims <- HttpSetup.claims, Default <- HttpSetup.default,
    ExplicitPort <- HttpSetup.explicitPort,
    Prompts <- HttpSetup.prompts, None <- "absent",
    config <- rq_config, token <- rq_token, phase <- rq_phase, request <- rq_request, id <- rq_id, auth <- rq_auth,
    answer <- rq_answer, effects <- rq_effects, listed <- rq_listed

VARIABLES pat_pattern, pat_path, pat_phase, pat_matched, pat_from
patternVars == <<pat_pattern, pat_path, pat_phase, pat_matched, pat_from>>

Pat == INSTANCE PathPatterns WITH
    Symbols <- PatternSetup.symbols, Lower <- PatternSetup.lower, Patterns <- PatternSetup.patterns,
    Pieces <- PatternSetup.pieces, Paths <- PatternSetup.paths,
    pattern <- pat_pattern, path <- pat_path, phase <- pat_phase, matched <- pat_matched, from <- pat_from

(***************************************************************************)
(* Together                                                                *)
(***************************************************************************)
VARIABLE active
Parts == {"audit", "registry", "captures", "daily", "skills", "tokens", "requests", "patterns"}

ASSUME ServerAssumption ==
    /\ Reg!RegistryAssumption /\ Cap!CaptureAssumption /\ Day!DailyAssumption /\ Skl!SkillAssumption
    /\ Tok!TokenAssumption /\ Rq!RequestAssumption /\ Pat!PatternAssumption

allVars == <<active, vars, registryVars, captureVars, dailyVars, skillVars, tokenVars, requestVars,
             patternVars>>

\* Where a part that is not active stands.
RegistryAtRest ==
    /\ reg_pc = Idle /\ reg_req = Idle /\ reg_outcome = Idle /\ reg_seen = Idle /\ reg_file = Idle /\ reg_temps = Idle
    /\ reg_blocked = Idle /\ reg_late = Idle /\ reg_landed = Idle /\ reg_disturbed = Idle
CapturesAtRest ==
    /\ cap_pc = Idle /\ cap_req = Idle /\ cap_notes = Idle /\ cap_hidden = Idle /\ cap_index = Idle
    /\ cap_found = Idle /\ cap_read = Idle /\ cap_todo = Idle /\ cap_snap = Idle /\ cap_late = Idle
    /\ cap_published = Idle /\ cap_known = Idle /\ cap_unsure = Idle
DailyAtRest ==
    /\ day_pc = Idle /\ day_op = Idle /\ day_base = Idle /\ day_seen = Idle /\ day_text = Idle /\ day_note = Idle
    /\ day_template = Idle /\ day_late = Idle /\ day_past = Idle /\ day_landed = Idle /\ day_disturbed = Idle
SkillsAtRest ==
    /\ skl_pc = Idle /\ skl_vault = Idle /\ skl_edits = Idle /\ skl_target = Idle /\ skl_todo = Idle
    /\ skl_load = Idle /\ skl_paths = Idle /\ skl_policy = Idle /\ skl_snapshot = Idle /\ skl_got = Idle
    /\ skl_asked = Idle
TokensAtRest ==
    /\ tok_token = Idle /\ tok_asked = Idle /\ tok_answers = Idle /\ tok_clock = Idle /\ tok_verdict = Idle
RequestsAtRest ==
    /\ rq_config = Idle /\ rq_token = Idle /\ rq_phase = Idle /\ rq_request = Idle /\ rq_id = Idle /\ rq_auth = Idle
    /\ rq_answer = Idle /\ rq_effects = Idle /\ rq_listed = Idle
PatternsAtRest ==
    /\ pat_pattern = Idle /\ pat_path = Idle /\ pat_phase = Idle /\ pat_matched = Idle /\ pat_from = Idle

ServerInit ==
    /\ active \in Together
    /\ Init
    /\ IF "registry" \in active THEN Reg!Init ELSE RegistryAtRest
    /\ IF "captures" \in active THEN Cap!Init ELSE CapturesAtRest
    /\ IF "daily" \in active THEN Day!Init ELSE DailyAtRest
    /\ IF "skills" \in active THEN Skl!Init ELSE SkillsAtRest
    /\ IF "tokens" \in active THEN Tok!Init ELSE TokensAtRest
    /\ IF "requests" \in active THEN Rq!Init ELSE RequestsAtRest
    /\ IF "patterns" \in active THEN Pat!Init ELSE PatternsAtRest

OthersWait(part) ==
    /\ UNCHANGED active
    /\ part # "audit" => UNCHANGED vars
    /\ part # "registry" => UNCHANGED registryVars
    /\ part # "captures" => UNCHANGED captureVars
    /\ part # "daily" => UNCHANGED dailyVars
    /\ part # "skills" => UNCHANGED skillVars
    /\ part # "tokens" => UNCHANGED tokenVars
    /\ part # "requests" => UNCHANGED requestVars
    /\ part # "patterns" => UNCHANGED patternVars

ServerNext ==
    \/ "audit" \in active /\ Next /\ OthersWait("audit")
    \/ "registry" \in active /\ Reg!Next /\ OthersWait("registry")
    \/ "captures" \in active /\ Cap!Next /\ OthersWait("captures")
    \/ "daily" \in active /\ Day!Next /\ OthersWait("daily")
    \/ "skills" \in active /\ Skl!Next /\ OthersWait("skills")
    \/ "tokens" \in active /\ Tok!Next /\ OthersWait("tokens")
    \/ "requests" \in active /\ Rq!Next /\ OthersWait("requests")
    \/ "patterns" \in active /\ Pat!Next /\ OthersWait("patterns")

ServerSpec == ServerInit /\ [][ServerNext]_allVars

(***************************************************************************)
(* The parts' properties, under their own names                            *)
(***************************************************************************)

\* The type invariants of the parts that are active.
PartsTyped ==
    /\ TypeOK
    /\ "registry" \in active => Reg!TypeOK
    /\ "captures" \in active => Cap!TypeOK
    /\ "daily" \in active => Day!TypeOK
    /\ "skills" \in active => Skl!TypeOK
    /\ "tokens" \in active => Tok!TypeOK
    /\ "requests" \in active => Rq!TypeOK
    /\ "patterns" \in active => Pat!TypeOK
\* A framework call reports what became of the file it published; the failed removal of a
\* temporary file after the publication is an error of its own.
PublicationReported == "registry" \in active => Reg!PublicationReported
\* The registry tools change the registry as AtomicRegistry does.
RegistryIsAtomic ==
    /\ "registry" \in active => Reg!Atomic!Init
    /\ []["registry" \in active => Reg!ActsAtomically]_allVars
\* Captures leave at most one note per source id.
OneNotePerSource == "captures" \in active => Cap!OneNotePerSource
\* A capture replaces no note of another id that a finished call had indexed.
FinishedWritesRespected == []["captures" \in active => Cap!RespectsFinishedWrites]_allVars
\* A daily tool fails only for a fault, the template or a change made without the lock.
FailuresExplained == "daily" \in active => Day!FailuresExplained
\* A daily append or repair costs no entry and no text, unless the version its client named
\* was brought back without the lock after the call had read another.
OnlyAdds == []["daily" \in active => Day!Adds]_allVars
\* The skill paths a client can learn of are private.
PublishedIsPrivate == "skills" \in active => Skl!PublishedIsPrivate
\* A finished reload is not undone by an older one.
ReloadNotUndone == "skills" \in active => Skl!ReloadNotUndone
\* A read that spans a reload returns no path the reload has published as private.
ReadsRespectReload == []["skills" \in active => Skl!RespectsReload]_allVars
\* A token is granted its scopes only on the word of the issuer it names, while it is valid.
GrantedIsVouchedFor == "tokens" \in active => Tok!GrantedIsVouchedFor
\* A token is refused only for a cause found in the token or in what an issuer answered.
RefusedForCause == "tokens" \in active => Tok!RefusedForCause
\* A request has no effect beyond the scopes of its caller.
ScopesBoundEffects == "requests" \in active => Rq!ScopesBoundEffects
\* A tool that is listed can be called with the arguments its schema requires.
ListedToolsWork == "requests" \in active => Rq!ListedToolsWork
\* An answer bears the id of its request, a number as JSON.parse reads it.
AnswersBearTheirId == "requests" \in active => Rq!AnswersBearTheirId
\* What the pattern scan takes is denied, and what it leaves is not if no upper case is involved.
MatchersAgree == "patterns" \in active => Pat!MatchersAgree
=============================================================================
