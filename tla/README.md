# Formal models of second-brain-rs

second-brain-rs is a server through which AI clients read and change a vault of
Markdown notes. This directory holds TLA+ models of the parts of it in which
interleavings, failures and stale state decide whether it is correct, the TLC
configurations that check them on small instances, and proofs, checked by
TLAPS, that the main properties hold for every instance. Paths such as
`src/vault/writer.rs` are relative to the repository.

    tlc -workers 2 -config VaultWriter_faults.cfg MCVaultWriter
    tlapm VaultWriterProofs.tla

`PROJECT.json` lists every run, the lines each definition stands for, and for
each property a slip of the code that breaks it. The slips are the definitions
whose comment begins with "Slip"; nothing but `PROJECT.json` refers to them.

## Inventory

| Part | State | Operations | What is hard | What makes it correct |
|---|---|---|---|---|
| Vault writer (`vault/writer.rs`) | table of weak lock references; the files, temporary files and trash | create, replace, merge frontmatter, replace section, delete, hard delete | every await is a point of interference; identities change while calls wait; dropped calls; process end | a change is one compare-and-set of one file; nothing vanishes unnamed; locks are exclusive; calls end |
| Write audit (`vault/audit.rs`) | SQLite tables of attempts and of provenance | start, succeed with provenance, fail, list incomplete, rotate at start-up | a row and a file cannot change together | the rows never claim what did not happen; no change is unaccounted for |
| Paths, policy (`vault/path.rs`, `vault/policy.rs`) | deny rules, replaced as a whole | normalise, canonicalise, match | the policy changes between check and use | what is blocked is not changed |
| Reader (`vault/reader.rs`) | none | read note, list folder | the vault and the policy change under a walk | see index |
| Index (`vault/index.rs`, `runtime.rs`) | SQLite tables in memory; refresh mutex; framework mutex | rebuild after each mutation; queries | overlapping refreshes, refreshes that fail silently | snapshots publish in the order they were collected; the index is exact at rest |
| Key cache (`auth/jwt.rs`) | per issuer: key set, when fetched, when last tried | verify, refresh | waiters behind a fetch, failures, rotation, dropped calls | bounded request rate; revoked keys expire; published keys verify |
| Skills (`skills.rs`, `runtime.rs`) | loaded skills, policy | list, reload | two values published together | one snapshot, one policy |
| Framework (`framework/*.rs`) | registry file, overlay schemas, daily notes, captures | init, register, unregister, compose, create record, capture, daily note | read-modify-write of files, look-up in an index that may be stale | no registration lost; one note per source id and per day |
| OCR queue (`ocr.rs`) | map of jobs | submit, status, renumber | none: jobs are inserted as queued and never change | its tools exist only where it is configured |
| Token verification (`auth/jwt.rs`, `verify`) | none | check header, keys, claims, scopes | the clock moves while the keys of several issuers are fetched | a token is granted on the word of the issuer it names, while it is valid |
| HTTP, MCP, scopes, tool registry (`http.rs`, `mcp.rs`, `auth/scopes.rs`, `tools/registry.rs`) | none between requests | preflight, authenticate, filter, dispatch, restore the id | four tables kept by hand; ids that are rewritten and restored | effects stay within the scopes; listed tools work; answers bear their id |
| Configuration, schemas, dates, Markdown | none | parse, validate, merge | none that is stateful | see "Not modelled" |

A tool call arrives over HTTP, is authenticated (key cache), filtered by scope
and dispatched by `Runtime`. Mutating calls go to the writer, directly or
through the framework, which holds `framework_mutation_lock` around the change
and the refresh that follows. The writer consults the path policy, which a
skill reload replaces from another task. After a mutation the runtime walks the
vault with the reader and rebuilds the index under the refresh mutex.

The hazards this leads to are listed with their lines in `PROJECT.json`.

## Modules

| Module | What it is |
|---|---|
| `VaultWriter` | the writer, its lock table, the audit rows of a write, and the outside world |
| `AtomicVault` | what the writer promises: one compare-and-set step per accepted call |
| `VaultWriterProofs` | theorems about `VaultWriter`, its refinement of `AtomicVault` included |
| `JwksCache` | the signing-key cache and the loop over the issuers |
| `JwksCacheProofs` | theorems about `JwksCache` |
| `IndexRefresh` | mutating tool calls and the refreshes that follow them |
| `IndexRefreshProofs` | theorems about `IndexRefresh` |
| `AuditRotation` | the start-up rotation of the audit database, over its lifetimes |
| `FrameworkRegistry` | the tools on `_meta/schemas.json` and its publication |
| `AtomicRegistry` | what the registry tools promise: one step per call, made to the registrations of that moment |
| `FrameworkRegistryProofs` | theorems about `FrameworkRegistry`, its refinement of `AtomicRegistry` included |
| `SourceCaptures` | captures by source id over an index that may be stale |
| `DailyNotes` | the three tools on the note of a day |
| `DailyNotesProofs` | theorems about `DailyNotes` |
| `SkillReload` | reloads, the policy, the published skills, and their readers |
| `SkillReloadProofs` | theorems about `SkillReload` |
| `TokenVerification` | one bearer token against the trusted issuers |
| `RequestPath` | an HTTP request from the router to its answer |
| `PathPatterns` | the two matchers of patterns: the scan for ignored paths and the regular expression for denied ones |
| `PathPatternsProofs` | theorems about `PathPatterns` |
| `Server` | the eight parts that share no state with the writer, the keys or each other, run together |
| `ServerProofs` | theorems about `Server`, and with it about rotation, tokens, requests and captures |
| `MCServer` | small instances of the parts of `Server` |
| `MC...` | constants and symmetry sets of the small instances |

### VaultWriter

A call is its program counter `pc` and the request it carries. Each value of
`pc` is one await of `VaultWriter::mutate` and what it calls:

| pc | action | code (`src/vault/writer.rs`) |
|---|---|---|
| `identify`, `lookup`, `waiting`, `recheck` | `Identify`, `Lookup`, `Acquire`, `Recheck` | the lock loop, 220-245 |
| `log_start` | `LogStart` | `record_write_started`, 260-269 |
| `guard`, `prepare_guard`, `publish_guard`, `trash_guard`, `note_guard`, `unlink_guard` | `Guard` | `guard`, 292-332, called at 339, 464, 498, 424-428, 429 and 410 |
| `exists` | `CheckExists` | 347-352 |
| `stat` | `Stat` | 358-375 (missing note, cooldown: the age of a file is not modelled, so inside the window a call may be refused at any time) |
| `read` | `Read` | 376-402 (base hash, marker pair) |
| `prepare`, `publish`, `cleanup` | `Prepare`, `Publish`, `Cleanup` | `atomic_write`, 454-519 |
| `trash_link`, `trash_unlink`, `unlink` | `TrashLink`, `Remove` | `move_to_trash` 420-452, 409-414 |
| `log_end` | `LogEnd` | completion or failure row, 270-291 |

The two guards of the trash name in a row (424, 428) are one step. A SHA-256 is the
content it is taken of. A content is a pair of frontmatter and body, which is
what the three partial updates tell apart. A path is a spelling; `FileOf` maps
spellings to directory entries, `spell` holds the spelling an entry is stored
under, and `Canonical` is what canonicalising returns. Errors that need no
particular state (I/O, symbolic links, invalid values) are `ApplyError`.

A trash name is a path like any other: `TrashPath` gives the first one a deleted
note gets, and calls may be sent to it (docs/TOOLS.md:229; the hard delete in
`tests/integration.rs:1252-1257`). `move_to_trash` guards it but takes no lock
for it. When it is taken the call makes up a fresh one, which the model names
after the call, as the code does with a unique id. Between link and unlink both
names denote one file; since the writer replaces files and never writes into
them, two entries of equal content show the same to every call.

Effects are separate operators from the steps that await them (`PublishEffect`,
`LogEndEffect`, ...). Dropping a call's future (`Cancel`) releases its lock, but
an operation handed to the blocking pool goes on: it becomes `late` and happens
at any later time, or never (`LateStep`). `Crash` ends every call and forgets
the lock table. `ExternalEdit` is an editor or a sync tool, which takes no lock.

`landed`, `trashed`, `dirty`, `unlogged` and `cleared` are history that only
properties read. `cleared` follows the policy for a call that has yet to pass the
last guard in front of its change, and stays as it is from there on.

### AtomicVault and the refinement

`AtomicVault` has one step per accepted call: `Create` where nothing is,
`Update` and `Delete` where the file holds the base the call named, and
`Refuse`. A delete that is still undecided may first copy the note to a name that
is free (`Keep`), and a soft delete is accepted only after that. Two kinds of calls are promised less, since the code does not promise
more: a call that an editor or a late change has `overtaken` may replace
something else than its base, and a call whose caller dropped it while a change
was on the way is `abandoned`, after which it changes the file once at any later
time or never, unanswered. Even then it writes only what its request says.

`VaultWriter` implements it with the identity mapping on `req`, `outcome`,
`text` and `landed`; `kept` is mapped to the calls that have linked their note
into the trash (`trashed`), `overtaken` to `dirty` and `abandoned` to the calls whose late operation would
change a file. `outcome` is set in the step that changes the file, so that step
is the atomic one and all others stutter, except those that drop a call, lose
its late operation or mark others as overtaken.

### JwksCache

A call of `verify` tries the issuers in configuration order (`at`). It may
proceed at an issuer only while no other call is fetching from it, because
`keys` holds the mutex through the fetch (`Free`). Between awaits `keys` runs
alone, so `KeysHit`, `KeysThrottled` and `KeysFetch` are single steps. A fetch
has two: `Serve`, when the issuer answers, and `Receive`, when the body has
arrived; `Rotate` may come between. `FetchFails` is every `?` after the attempt
has been noted. A token is the key id in its header and the issuer that signed
it; a key of one issuer does not verify tokens of another.

Time is a bounded counter of discrete instants. `Tick` respects the timeout of
the HTTP client: a fetch that began at `t` has ended by `t + Timeout`. With
`TTL = 0` two calls in one discrete instant are further apart in the code's
nanosecond clock or count as equally fresh; the rate theorem therefore assumes
a positive TTL.

### IndexRefresh

The vault is abstracted to a version per note, counting its creations,
replacements and deletions; the writer's own steps are in `VaultWriter`. A
mutating call deletes a note in one step (`Mutate`), or writes one in two: its
temporary file appears (`Prepare`), and is gone when the new content is in place
or the write has failed (`Land`). A daily-note tool then reads the note back
(`ReadBack`). The call takes the refresh mutex (`Acquire`), lists the
vault, reads each listed note, scans for conflict files and publishes
(`ListStart` ... `Publish`). Directory entries are visited in any order. Each
visit is an await of its own, so notes vanish, change and become private under
the walk; a name that vanished fails the refresh, which the caller logs and
ignores. Both walks stat every name they find, so a temporary file of another
call can fail them too. One that belongs to `framework_register`,
`framework_unregister` or a failed write is followed by no refresh: nobody then
repairs the walk it made fail (`tripped`) before the next mutation. In the
model these calls are the ones without the framework lock that end without a
change. The policy may be replaced at any time (`PolicyReload`). `Drop` ends a
call at an await; if that is the await of the blocking rebuild, the rebuild
happens later (`LateRebuild`). The locks here are `framework_mutation_lock` and
the refresh mutex; the path locks belong to `VaultWriter`, the registry lock to
`FrameworkRegistry`.

For a note the index does not hold, the model remembers the version that was
current when the walk began, so that "older" has a meaning for absent notes too.

### AuditRotation

A database file is its three sets of rows, named by attempt. `journal_mode` is
DELETE, so a transaction changes the file while the journal holds what it was:
`Begin` writes both, `Commit` removes the journal, and a server that is killed
between leaves a file that the next reader rolls back (`Committed`). The pcs
from `exists` to `open` are the awaits of a start-up; each may fail, and `Stop`
ends the server at any of them. `acked` is what SQLite has reported as
committed; the properties relate it to what the live file and the archives hold.

### FrameworkRegistry

A call is its `pc`. The mutating tools hold `registry_lock` from `Acquire` on;
`list`, `reload` and `compose` take no lock. `Resolve`, `Read`, `Parse` are
`registrations()`, `Prepare`, `Publish`, `Cleanup` are `write_metadata`. A note
tool on the same path (`Validate`, `Overwrite`), the late rename of a dropped
call and a policy reload act without the lock. `seen` is the content a call has
read and later the content it will write; `disturbed` marks a call whose reading
has been overtaken without the lock. A failure to remove the temporary file is an
error of the call even if the rename has succeeded and taken that file away
(metadata.rs:110-113); the outcome `unclean` is this error after a publication,
for which the text of the error is the client's only sign that the change stands.

`AtomicRegistry` is what these tools promise: each call changes the file at most
once, before it is answered, and the new registrations are those of that moment
with the entry of its request put in or taken out. The calls whose reading has
been overtaken without the lock, and dropped calls whose rename is still to come
(`stale`), may write what they read earlier. `FrameworkRegistry` implements it
with `file`, `req`, `outcome` and `landed` as they are; the prepared file, the
lock and the awaits disappear.

### SourceCaptures

A note is its source id and the call that wrote it, which also stands for its
hash. A capture takes the framework lock, looks its id up in `index`, reads the
note the index names and replaces it, or creates one; then it refreshes. A note
tool's delete takes the note from its path, soft or hard: what a soft delete leaves
under a trash name is a path the index ignores. The
refresh is that of `IndexRefresh` with the `source_id` column as its data. Note
tools write the same paths without the framework lock. `known` is what a capture
could have learnt from the index when it looked.

### DailyNotes

The note of a day is the set of entries in its log section, the text around it
and the state of its markers. `append` and `repair` read the note, compute a
text from what they read, and hand it to the writer with the hash their client
sent: `seen` and `base` are different variables, because the writer compares
only the latter. Where the two differ (someone without the lock changed the note
and changed it back), the call passes the check and overwrites the entries its
reading lacked; `OnlyAdds` says that this is the only way to lose an entry, and
that even then no entry is lost that the call has read.

### SkillReload

`Start` ... `StoreSnapshot` are the awaits of `reload_skills` and
`load_skills`; `ReplacePolicy` and `StoreSnapshot` are two steps although no
await separates them, since other threads run meanwhile. A client either reads a
note (`Check`, `Content`, `Recheck`) or a prompt. `Resolved` says where a path
leads through symbolic links. Map and notes change at any time (`Edit`).

### TokenVerification and RequestPath

`TokenVerification` has one step per trusted issuer (`Try`), with any answer of
the issuer, and a clock that moves between them. `RequestPath` carries one
exchange through preflight, authentication, host check, handler and restoring of
the id; the tables of scopes, schemas, dispatch and argument checks are
transcribed tool by tool from four different files, so that they can disagree.
What a client was told of (`listed`) outlives the exchange. Before an id is read
every number of the body is rounded to binary64 (`Normalised`), so the ids
include one beyond 2^53, one beyond 64 bits and -0; what is left and is no 64-bit
integer travels to rmcp as a text (`Mapped`) and is put back into the answer.

### PathPatterns

A behaviour is one question to `matches_vault_path_pattern` after any number of
replacements of the rule. Each form of pattern is an action that answers
(`SubtreeRule`, `ConflictRule`, `SuffixRule`, `ExactRule`), guarded by the tests
the code has passed when it gets there; a pattern with stars is scanned piece by
piece (`FirstPiece`, `MiddlePiece`, `LastPiece`), `from` being where the code's
`remaining` begins. Patterns and paths are sequences of symbols; `S` stands for
`.sync-conflict-`, and `Lower` says which symbols differ in case alone.

`Blocked` is what `is_blocked` answers for the same pattern: `DenySource` turns
it into a sequence of atoms as `deny_pattern_source` does, and a path is blocked
if there are cuts in it between which each atom takes its share, case ignored.
That definition searches nothing, so the scan is compared with a specification
and not with a second algorithm. What `split('*')` returns is the constant
`Pieces`, which `SplitsAtStars` determines.

### Server: how the parts are run together

Rotation, registry, captures, daily notes, skills, tokens, requests and path
patterns are eight parts of one process whose models share no state. `Server` instantiates each,
the constants of a part being the fields of one record (`RegistrySetup`, ...), and composes them by
interleaving: `active` is the set of parts that move in a behaviour, the
variables of the others hold the value `Idle`, and a step is a step of one
active part (`OthersWait`). `Together` says which sets may be active. The
theorems of `ServerProofs` hold for every `Together`, the whole of `Parts`
included. The run checks the sets of one part, so that the states add up and do
not multiply; that loses nothing, since no
property relates two parts. A property of one part is trivially true in
behaviours in which the part is at rest.

Where components do interact, the interaction is inside a module: registry calls
with note tools and policy reloads, captures with note tools and the refresh,
daily tools with note tools, note reads with reloads.

## Runs

| Run | Instance | Checks |
|---|---|---|
| `writer_atomic` | 3 calls, 2 notes of which one quarantined, all six operations, create and hard delete on a trash name, no faults | `ImplementsAtomicVault`, `NothingVanishes` |
| `writer_faults` | 2 calls, 1 note, create/replace/delete, hard delete of its trash name, all faults, cooldown | `TypeOK`, `BaseIsCurrent`, `AuditTruthful`, `NoSilentWrite`, `MovesReplaceNothing`, `PolicySealed`, `ImplementsAtomicVault` |
| `writer_aliases` | 2 calls, 2 spellings of one file, fairness | `LockExclusive`, `EveryCallEnds` |
| `writer_alias_update` | 3 calls, 2 spellings of one file | violates `BaseIsCurrent` |
| `keys_one_issuer` | 2 callers, 2 keys, TTL 3, cooldown 2, timeout 1, 6 ticks | `TypeOK`, `FetchesSpaced`, `RevokedKeyExpires`, `KeyAvailable` |
| `keys_two_issuers` | 2 callers, 2 issuers, 1 key, 1 tick, fairness | `EveryCallAnswered` |
| `keys_short_ttl` | 1 caller, TTL 1 below cooldown 3 | violates `MissesSpaced` |
| `index_policy` | 2 calls (1 framework), 2 notes, reloads and I/O errors | `TypeOK`, `ReadYourWrite` |
| `index_quiet` | 3 calls (2 framework, 1 droppable), 1 note, fairness | `PublishedInOrder`, `QuietIndexExact`, `EveryCallReturns` |
| `index_dropped` | 2 calls, 1 of them droppable | violates `IndexNeverGoesBack` |
| `server_parts` | eight parts, one active in a behaviour, see below | `PartsTyped`, the type invariant of each part, and 18 properties of them |
| `registry_hidden_overlay` | 2 calls, 1 overlay, 2 names, policy reloads | violates `HiddenOverlayHandled` |

The instances in `server_parts` and the properties they check:

| Part | Instance | Properties |
|---|---|---|
| `audit` | 4 attempts, 1 retained row, 1 time stamp, 2 names with a suffix | `RowsKept`, `IncompleteVisible`, `ArchivesSealed` |
| `registry` | 2 droppable calls of all kinds, 2 names, 1 overlay, I/O failures, reloads | `PublicationReported`, `RegistryIsAtomic` |
| `captures` | 2 droppable calls, 5 requests over 2 paths and 2 source ids, I/O failures, a note that can be hidden | `OneNotePerSource`, `FinishedWritesRespected` |
| `daily` | 3 droppable calls of any kind, 3 drafts, faults | `OnlyAdds`, `FailuresExplained` |
| `skills` | 2 reloads, 1 client, a map and 3 notes of which one is a link, 1 edit, I/O failures | `PublishedIsPrivate`, `ReadsRespectReload`, `ReloadNotUndone` |
| `tokens` | 2 issuers, 3 keys, a clock of 3 instants, tokens that deviate from a good one | `GrantedIsVouchedFor`, `RefusedForCause` |
| `requests` | every tool with all and with all but one required argument, and requests that deviate from a good one; three authenticators, each scope | `ScopesBoundEffects`, `ListedToolsWork`, `AnswersBearTheirId` |
| `patterns` | patterns of up to 3 symbols of four, up to 5 of two, the special shapes, and spellings in another case; paths of up to 3 and 4 symbols | `MatchersAgree` |

Why these bounds are enough to meet the interesting cases:

* Writer: three calls are needed for a holder, a waiter and a call that makes a
  new lock object; two are enough for every pairwise race with a fault. Each
  request starts once, which bounds the run; the calls have distinct attempt
  ids, so a repeated request is another call. The only two notes the writer
  relates are a note and its name in the trash, and both runs have calls on
  either, with the trash name free or taken at first in `writer_atomic`, which
  also adds a note that is quarantined. Editors and reloads get at the note only
  (`Exposed`), for the size of `writer_faults`; the theorems have no such bound.
  Temporary names, and trash names made up when the first is taken, are unique
  per call, as the code's unique ids make them.
* Keys: six ticks let a key be fetched, expire, be refetched and be revoked with
  a failed refresh in between, for TTL 3 and cooldown 2. Two callers are needed
  to queue behind a fetch. `MaxTime` bounds the clock; a behaviour may stop at
  it, so deadlock is not checked.
* Index: two overlapping refreshes show every reordering; the third call of
  `index_quiet` deletes, or lets a temporary file appear and vanish, under the
  walk of one framework call while the other waits. Versions are bounded by the number of calls.
* Rotation: with one retained row, two rows make a rotation due; four attempts
  allow two rotations and an attempt that is incomplete at each. With one stamp
  the second rotation, and each start after a kill, finds its name taken.
* Registry: a lost update takes two calls; the note tool among the requests and
  the late rename of a dropped call are the writers without the lock.
* Captures: two calls with every fault at once show each race of two captures,
  or of a capture with a note tool or a creation, over one id; three calls with
  all faults exceed the time of a run. For any number of calls there are the
  theorems.
* Daily notes: two tools and an outside writer, who can also restore an old text
  (the same hash twice). Skills: two reloads overlap, the edit falls between
  them, the link makes two names for one note.
* Tokens: the first issuer may delay, fail or answer with the wrong key; the
  second decides. Requests: the server keeps nothing between exchanges, so a
  listing followed by a call is the longest relevant history.
* Patterns: the last piece of a pattern can overlap the pieces before it with
  patterns of three symbols, and three pieces between stars take a pattern of
  five. For patterns and paths of any length there is the theorem.

Deadlock checking is off because all systems here end when their calls have.
The runs without liveness use symmetry of calls, locks, keys or notes, which
occur only as interchangeable model values; the liveness runs use none.

### What the violations show

* **`writer_alias_update`.** On a case-insensitive file system the recheck of
  the identity after the lock is taken (writer.rs:236-245) protects only until
  the next await. A call for spelling `A` of a note that does not exist holds
  the lock of `A`; another call, under the lock of `a`, creates the note as `a`;
  a third call is now canonical under `a` and takes that lock. The first and the
  third both accept the same base hash. `docs/parity/B.md:118-121` and the test
  at `tests/storage.rs:498` say aliases share one lock. With exact file systems
  the property is a theorem (`NoLostUpdate`); on any other it still holds for
  every call on a note that only one spelling denotes
  (`OneSpellingLosesNothing`), so the lost update takes a second spelling.
* **`keys_short_ttl`.** `docs/AUTHENTICATION.md:103` promises a 30-second guard
  against repeated misses. The guard of `keys` (jwt.rs:180-187) applies while
  the cached set is fresh or after a failure; with `jwks_cache_ttl_seconds`
  below 30 a miss that fetched successfully is neither once the TTL is over.
* **`index_dropped`.** The comment at runtime.rs:219 says an older refresh
  cannot publish after a newer one. The mutex is held by the future, the
  rebuild by a blocking thread; a caller that drops the future releases one
  without stopping the other. It takes a caller that drops futures, such as a
  shutdown or an embedding of the library. Without drops the property is a
  theorem (`NewestSnapshotWins`), and with them only the late rebuild of a
  dropped call goes back (`OnlyLateRebuildsGoBack`).

* **`registry_hidden_overlay`.** `docs/TOOLS.md:357` says `framework_reload`
  marks each registration as loaded or error. `registrations` checks the path of
  every entry against the policy before `reload` looks at any of them
  (mod.rs:235), so one overlay that a skill reload has made private fails the
  call, and with it every `framework_unregister`, the one that would remove this
  entry included.

## Fairness

`FairSpec` assumes weak fairness of each call's own steps: tokio polls a task
that can proceed. Acquiring a lock is strongly fair: tokio's `Mutex` serves its
waiters first in, first out, so a call whose lock is free again and again gets
it. In `JwksCache` the same holds for the steps at the cache mutex; the issuer
is under no obligation to answer (`Serve` is not fair), and a fetch ends because
the HTTP client has a five-second timeout (`FetchFails`). Starting a call, drops,
crashes, external edits, reloads and rotations are never obliged to happen.

## Proofs

All theorems hold for arbitrary constants subject to the assumption each module
names: `ConstantsAssumption` (writer), `JwksAssumption`, `IndexAssumption`,
`RotationAssumption` and `ServerAssumption`. The last one is the conjunction of
what the parts of `Server` assume: `RegistryAssumption`, `CaptureAssumption`,
`DailyAssumption`, `SkillAssumption`, `TokenAssumption`, `RequestAssumption` and
`PatternAssumption`. The theorems of a part's own proof module have its assumption as a hypothesis.
The assumptions say what kind of value a constant is, and that markers for
"nothing" are no such values; `RequestAssumption` also says that clients send
something, and `PatternAssumption` that the pieces of a pattern are those between
its stars and that case plays no part in `*` and `/`. TLC evaluates all of them in the runs.

| Theorem | Property | Further assumption |
|---|---|---|
| `TypeCorrect` | `TypeOK` of the writer | none |
| `MutualExclusion` | `LockExclusive` | none |
| `NoLostUpdate` | `BaseIsCurrent` | `CaseSensitive` (one spelling per entry) |
| `OneSpellingLosesNothing` | `BaseIsCurrent` for calls on a note of one spelling | none |
| `OnlyNamedContentVanishes` | `NothingVanishes` | `CaseSensitive` |
| `AuditNeverLies` | `AuditTruthful` | none |
| `NothingUnaccounted` | `NoSilentWrite` | none |
| `MovesNeverReplace` | `MovesReplaceNothing` | none |
| `ReloadStopsWrites` | `PolicySealed` | none |
| `WriterIsAtomic` | `ImplementsAtomicVault` | `CaseSensitive` |
| `CacheTypes` | `TypeOK` of the cache | none |
| `RevocationTakesEffect` | `RevokedKeyExpires` | none |
| `NoRefreshFlood` | `FetchesSpaced` | `TTL > 0` |
| `KnownKeyStaysUsable` | `KeyAvailable` | none |
| `RotationTypes` | `TypeOK` of the rotation | none |
| `NoRowLost` | `RowsKept` | none |
| `DiagnosticsVisible` | `IncompleteVisible` | none |
| `ArchivesNeverChange` | `ArchivesSealed` | none |
| `RegistryTypes` | `TypeOK` of the registry | none |
| `ReportsAreTruthful` | `PublicationReported` | none |
| `RegistryIsLinearizable` | `ImplementsAtomicRegistry` (`ActsAtomically` from `Atomic!Init`) | none |
| `NoRegistrationLost` | `RegistryUpdatesAtomic` | none |
| `InitReplacesNothing` | `InitNeverReplaces` of the registry | none |
| `IndexTypes` | `TypeOK` of the refresh | none |
| `OnlyLateRebuildsGoBack` | `PublishedInOrder` | none |
| `NewestSnapshotWins` | `IndexNeverGoesBack` | `NoDrop` (no call is dropped) |
| `WritesStayIndexed` | `ReadYourWrite` | `NoDrop` |
| `IndexExactAtRest` | `QuietIndexExact` | `Undisturbed` (no I/O error, no reload) |
| `SkillTypes` | `TypeOK` of the reload | none |
| `SkillsArePrivate` | `PublishedIsPrivate` | none |
| `SpanningReadsAreRefused` | `ReadsRespectReload` | none |
| `ReloadsAreNotUndone` | `ReloadNotUndone` | none |
| `DailyTypes` | `TypeOK` of the daily tools | none |
| `DailyToolsOnlyAdd` | `OnlyAdds` | none |
| `DailyFailuresExplained` | `FailuresExplained` | none |
| `PatternTypes` | `TypeOK` of the pattern scan | none |
| `ScanAgreesWithRegex` | `MatchersAgree` | none |
| `ServerTypes` | `PartsTyped` | none |
| `ServerReportsTruthfully` | `PublicationReported` | none |
| `ServerRegistryIsAtomic` | `RegistryIsAtomic` | none |
| `ServerDailyFailuresExplained` | `FailuresExplained` | none |
| `ServerDailyOnlyAdds` | `OnlyAdds` | none |
| `ServerSkillsArePrivate` | `PublishedIsPrivate` | none |
| `ServerReloadsAreNotUndone` | `ReloadNotUndone` | none |
| `ServerReadsAreRefused` | `ReadsRespectReload` | none |
| `TokensAreVouchedFor` | `GrantedIsVouchedFor` | none |
| `TokensAreRefusedForCause` | `RefusedForCause` | none |
| `ServerScopesBoundEffects` | `ScopesBoundEffects` | none |
| `ServerListedToolsWork` | `ListedToolsWork` | none |
| `ServerMatchersAgree` | `MatchersAgree` | none |
| `ServerAnswersBearTheirId` | `AnswersBearTheirId` | none |
| `CapturesLeaveOneNote` | `OneNotePerSource` | none |
| `CapturesRespectFinishedWrites` | `FinishedWritesRespected` | none |

The arguments:

* **Locks.** `LockExclusive` is not inductive: nothing in it says that two
  callers with one identity have one lock object. The invariant adds that a
  call refers to a lock object exactly while it waits for it or holds it, that
  the object is the table's entry for the call's identity, and that two holders
  hold different objects. The entry survives because the table drops only
  objects nobody refers to, and an object nobody refers to is not reused for
  another identity.
* **Lost updates.** If only one spelling denotes a note, every call on it has
  the same identity (`OneSpelling`), and exclusive identities are an exclusive
  file. A call that has validated its base is then the only holder that can
  change the file; whatever else changes it marks the call `dirty` in the same
  step (`BaseInv`). On a case-sensitive file system every note is of this kind.
* **Audit.** The invariant relates the outcome of a call, whether it has landed
  and what may still be late: a call is undecided as long as it has not landed,
  a late publication belongs to a dead call with a start row and no terminal row,
  and terminal rows are written only from a settled outcome.
* **Trash.** Each effect replaces or removes at most the content of the entry its
  call was sent to, since the link into the trash needs a free name
  (`OwnEntryOnly`); the call that does so had not landed before, awaited
  (`AuditInv`) or dropped (`LateInv`). For a soft delete, `TrashInv` says that
  between link and unlink the trash holds the note, or a call sent to the trash
  name has landed.
* **Policy.** `ClearedInv`: what the policy permits now is cleared, and a call
  behind its last guard, or dropped there with its change on the way, stays so.
* **Refinement.** `RefineInv` joins the invariants above with: a call that has
  validated is alone on its file. Each action is then either one step of
  `AtomicVault`, the one that sets `outcome`, or leaves its variables alone. For
  a late operation, `LateInv` says that it belongs to a dead call that has not
  landed (`Undecided`), which the abstract specification knows as abandoned; its
  step is the one change of that call and overtakes whoever had validated. An
  editor is a step of its own there. Nothing is assumed about what happens
  outside.
* **Key cache.** The invariant ties the model's history to the code's own
  variables: the last attempt is the last fetch, a cached key was published when
  the set was fetched or removed since, one call fetches per issuer, and a fetch
  is younger than the timeout. Each property then compares three instants.
* **Rotation.** An archive name is reserved before the rename and never reused,
  so a row is in the live database or in one archive; rotation starts only from
  a database whose attempts have all ended.
* **Registry.** `registry_lock` has one holder. What the holder has read is
  still the file, or a writer without the lock has marked it disturbed; so the
  rename puts the holder's change on top of the current registrations, and that
  step is the one step of the call in `AtomicRegistry`. What an
  init in mode create publishes is linked into place, which fails where there is
  a file, whether its call still waits for it or was dropped.
* **Index.** For every refresh that is collecting, versions grow from the index
  over its snapshot to the vault; only one refresh holds the mutex, so what it
  publishes is at least as new as what it replaces. The snapshot a dropped call
  may still publish is no newer than the one being collected (`LateOlder`), so
  its late rebuild can take the index back, but nothing else can. At rest: as long as
  a note and its row differ, some call still owes a refresh, a refresh that
  is under way has yet to read the note (`DebtInv`), or one has failed on a
  temporary file that was followed by no change (`tripped`). A name that vanishes
  under a walk otherwise belongs to a call that waits for the mutex of that walk.
  When no call runs, nobody owes anything.
* **Skills.** Only one reload is past `skill_reload`. The rules it will install
  cover what it will publish (`Covered`) and precede it; what it has loaded is
  no older than what is published (`AsOldAs`).
* **Daily notes.** The text handed to the writer is the text that was read with
  one change (`Derived`), and the writer accepts it only over the version the
  client named. That version is the one read, or the call was disturbed between
  its reading and its write: the exception that `OnlyAdds` states. For failures: the holder of the lock is right about whether the
  note exists unless it was disturbed (`Calm`).
* **Patterns.** While the scan runs, `from` is the leftmost place where the
  atoms of the pieces found so far can end (`Leftmost`): some cuts lead there,
  and, case aside, none end earlier. `FirstFound` starts that, `NextFound` keeps
  it, because the first occurrence of the next piece after the leftmost end is
  the leftmost end of one more atom. So a piece that does not occur after `from`
  occurs after no alignment (`NextMissing`), and a last piece that fits after
  `from` completes one (`LastAgrees`). The other rules are compared with their
  expression one by one (`SubtreeAgrees`, `ConflictAgrees`, `SuffixAgrees`,
  `ExactAgrees`); `SuffixAgrees` includes the spellings of the pattern for
  conflict copies that only the expression recognises, for which the scan's
  answer is the narrower one. `MatchersAgree` is not inductive: nothing in it
  speaks of a scan that is under way. No induction over patterns is needed: the
  steps of the scan are the induction, and where a last slash has to exist
  (`LastSlash`) it is a least number (`LeastNumber`, from the library's `WFMin`).
* **Server.** A behaviour of `Server` in which a part is active is a behaviour
  of that part: its initial states map to initial states of the part and every
  step to a step or a stutter (`RegistrySpec`, `DailySpec`, ...). `active` never
  changes, so a theorem of the part holds in every behaviour in which the part
  runs. The theorems on rotation, tokens, requests and captures are proved in place, from
  the invariants below.
* **Tokens.** `TokenInv`: `asked` and `answers` record what each issuer has said
  and when, nobody has vouched while the verdict is pending or refused, and a
  grant is the word of the last issuer asked, at an instant at which the clock
  has stood still since. The clock may move between two issuers, and each answer
  stays judged by the instant it was given.
* **Requests.** `RequestInv`: the scopes in force are those the client's token
  and the mode give (`Rights`), what a client was listed is within what these
  scopes entitle it to, nothing has been changed or answered before a handler
  runs, and an answer that is still to be restored bears the mapped id.
  `TablesAgree`, `ToolsAreHandled` and `ScopesCoverEffects` compare the four
  tables tool by tool; they are where a tool with too weak a scope, or one that
  dispatch does not know, would show.
* **Captures.** `CaptureInv` has three layers. `CaptureControl`: one framework
  call at a time, one refresh at a time, and what a call has read and left to
  the thread pool fits its program counter. `FinishedKept`: where a finished
  call's note is, the index and every snapshot name its source or nothing, so a
  capture about to replace a finished note was led to one of its own source
  (`WellLed`). `SourceKept`, for each id that is not `unsure`: it has one note
  at most, which the index names at that path and no other unless some capture
  still owes the refresh (`Unindexed`), which a running refresh has found or has
  still to read unless a capture has written it since (`Unread`), and which a
  capture that has looked it up will replace (`Chosen`). `OneNotePerSource`
  alone is not inductive: nothing in it says that the index knows the note that
  the next capture must find.

Each inductive invariant or the property it strengthens was model-checked first.

Only model-checked: `EveryCallEnds`, `EveryCallAnswered` and `EveryCallReturns`,
because liveness under fairness and ENABLED are out of this prover's reach. Every
other property of a passing run is a theorem. `BaseIsCurrent`, `MissesSpaced`,
`IndexNeverGoesBack` and `HiddenOverlayHandled` are refuted in the instances of
the four runs that expect a violation.

## Not modelled, and why

* Configuration, start-up and logging (`config.rs`, `main.rs`,
  `observability.rs`): one value validated after another, without state.
* Overlay schemas, dates and Markdown (`schema.rs`, `dates.rs`, `markdown.rs`):
  pure functions from one text to another that unit tests reach; the other
  modules see their results as values.
* Lexical normalisation of paths and Unicode composition (`path.rs`,
  `policy.rs`): functions of one string. Identities, spellings, links and
  pattern matching are modelled.
* SQL queries over a committed index, apart from the look-up by source id.
* Optional arguments of tools, the shape of results, pagination and response
  headers in `RequestPath`.
* JWT decoding and signatures: a token states what decoding it gives and which
  key signed it.
* OCR: jobs are inserted and never processed, so there is no transition beyond
  the effect `RequestPath` records.
* Waiting times. That a caller may wait for someone else's fetch is visible in
  `JwksCache`; how long is not a property here.
* In the writer: the age of files, directories and their creation, file
  permissions, and conflicts that appear after start-up.

## Plan

1. An abstract specification of captures (a map from source ids to notes),
   implemented by `SourceCaptures`, as `AtomicRegistry` is by the registry.
2. Composition of overlay schemas (`schema.rs`) and normalisation of paths
   (`path.rs`) as algorithms over bounded inputs, with reference definitions.
3. The quarantine of conflicts that appear after start-up, with the writer.
