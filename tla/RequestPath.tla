----------------------------- MODULE RequestPath -----------------------------
(***************************************************************************)
(* One client's exchanges with the server: preflight, authenticate_mcp and *)
(* the /tools route of src/http.rs, the handlers of src/mcp.rs, the tool   *)
(* table and input schemas of src/tools/registry.rs, Runtime::dispatch of  *)
(* src/runtime.rs.  Requests are independent of each other on the server   *)
(* (the transport keeps no session); what a client learns from a listing   *)
(* outlives the exchange.  Optional arguments are left out.                *)
(***************************************************************************)

CONSTANTS
    Requests,     \* what the client sends (see RequestType)
    Claims,       \* the sets of scope words tokens carry
    Default,      \* auth.development_default_scopes
    ExplicitPort, \* whether public_base_url names a port
    Prompts,      \* names of the skills published as prompts
    None

\* Numbers a client may send, one beyond what binary64 holds and one beyond 64 bits among
\* them, what they are turned into, texts, one of them like a mapped number, and no id.
Numbers == {"7", "-0", "1.5", "2^53+1", "2^64-1"}
RequestIds == Numbers \cup {"0", "2^53", "2^64", "text", "number:1.5", "number:2^64", "null", None}
Forwarded == {"tools/list", "tools/call", "prompts/list", "prompts/get"}
Immediate == {"initialize", "resources/list", "resources/templates/list", "ping"}
Methods == Forwarded \cup Immediate \cup {"resources/read"}

(***************************************************************************)
(* The tool table                                                          *)
(***************************************************************************)
OcrTools == {"ocr_notebook", "ocr_status", "ocr_renumber_notebook"}

ToolsOf == [
    vault_read |-> {"read_note", "list_folder", "search", "get_backlinks", "get_outgoing_links", "daily_note_get",
                    "find_maps", "list_record_types", "get_vault_structure", "link_to_page"},
    skills_read |-> {},
    vault_write |-> {"create_note", "replace_note", "update_frontmatter", "replace_section_by_marker", "create_record"},
    vault_delete |-> {"delete_note"},
    vault_delete_hard |-> {"hard_delete_note"},
    vault_capture |-> {"inbox_capture", "capture_for_date"},
    daily_append |-> {"daily_note_append"},
    admin |-> {"list_vault_conflicts", "daily_note_repair_markers", "list_write_recovery_diagnostics", "skills_list",
               "skills_reload", "framework_init", "framework_reload", "framework_register", "framework_unregister",
               "framework_list", "framework_compose"} \cup OcrTools]
Scopes == DOMAIN ToolsOf
AllTools == UNION {ToolsOf[s] : s \in Scopes}

\* Slip: the OCR tools are in the table of every server.
RegistryWithOcr(ocr) == AllTools
Registry(ocr) == IF ocr THEN AllTools ELSE AllTools \ OcrTools

\* The required properties of each input schema.
ByPath == {"read_note", "get_backlinks", "get_outgoing_links", "list_folder"}
Schema(tool) ==
    CASE tool \in ByPath -> {"path"}
      [] tool = "create_note" -> {"path", "content"}
      [] tool = "replace_note" -> {"path", "content", "base_sha256"}
      [] tool \in {"delete_note", "hard_delete_note"} -> {"path", "base_sha256"}
      [] tool = "search" -> {"query"}
      [] tool = "update_frontmatter" -> {"path", "patch", "base_sha256"}
      [] tool = "replace_section_by_marker" -> {"path", "marker_name", "content", "base_sha256"}
      [] tool = "daily_note_append" -> {"content", "base_sha256"}
      [] tool = "daily_note_repair_markers" -> {"base_sha256"}
      [] tool \in {"capture_for_date", "inbox_capture"} -> {"content", "source_client"}
      [] tool = "create_record" -> {"type", "title"}
      [] tool = "link_to_page" -> {"notebook", "page_uuid"}
      [] tool = "framework_init" -> {"framework"}
      [] tool = "framework_register" -> {"name", "path"}
      [] tool = "framework_unregister" -> {"name"}
      [] tool = "ocr_notebook" -> {"identifier"}
      [] tool = "ocr_status" -> {"job_id"}
      [] tool = "ocr_renumber_notebook" -> {"notebook_id"}
      [] OTHER -> {}

(***************************************************************************)
(* Runtime::dispatch: who handles a tool, and what the handler demands     *)
(***************************************************************************)
WriteTools == {"create_note", "replace_note", "update_frontmatter", "replace_section_by_marker", "delete_note",
               "hard_delete_note"}
DailyTools == {"daily_note_get", "daily_note_append", "daily_note_repair_markers"}
NoteTools == {"create_record", "inbox_capture", "capture_for_date"} \cup DailyTools
FrameworkTools == {"framework_init", "framework_register", "framework_unregister", "framework_list", "framework_reload",
                   "framework_compose", "list_record_types", "find_maps"} \cup NoteTools
OwnTools == ByPath \cup {"search", "skills_list", "skills_reload", "list_write_recovery_diagnostics",
                         "list_vault_conflicts", "link_to_page", "get_vault_structure"}

Handled(tool, ocr) == tool \in WriteTools \cup FrameworkTools \cup OwnTools \cup (IF ocr THEN OcrTools ELSE {})

Demanded(tool) ==
    UNION {IF tool \in WriteTools \cup ByPath \cup {"framework_register"} THEN {"path"} ELSE {},
           IF tool \in (WriteTools \ {"create_note"}) \cup (DailyTools \ {"daily_note_get"}) THEN {"base_sha256"} ELSE {},
           IF tool \in {"create_note", "replace_note", "replace_section_by_marker", "daily_note_append", "inbox_capture",
                        "capture_for_date"} THEN {"content"} ELSE {},
           IF tool \in {"inbox_capture", "capture_for_date"} THEN {"source_client"} ELSE {},
           IF tool = "update_frontmatter" THEN {"patch"} ELSE {},
           IF tool = "replace_section_by_marker" THEN {"marker_name"} ELSE {},
           IF tool = "search" THEN {"query"} ELSE {},
           IF tool = "create_record" THEN {"type", "title"} ELSE {},
           IF tool = "link_to_page" THEN {"notebook", "page_uuid"} ELSE {},
           IF tool = "framework_init" THEN {"framework"} ELSE {},
           IF tool \in {"framework_register", "framework_unregister"} THEN {"name"} ELSE {},
           IF tool = "ocr_notebook" THEN {"identifier"} ELSE {},
           IF tool = "ocr_status" THEN {"job_id"} ELSE {},
           IF tool = "ocr_renumber_notebook" THEN {"notebook_id"} ELSE {}}

\* What the handler may change.
Effects(tool) ==
    UNION {IF tool \in WriteTools \cup NoteTools \cup {"framework_init"} THEN {"notes"} ELSE {},
           IF tool = "delete_note" THEN {"trash"} ELSE {},
           IF tool = "hard_delete_note" THEN {"gone"} ELSE {},
           IF tool \in {"framework_init", "framework_register", "framework_unregister"} THEN {"framework"} ELSE {},
           IF tool = "skills_reload" THEN {"policy"} ELSE {},
           IF tool \in {"ocr_notebook", "ocr_renumber_notebook"} THEN {"jobs"} ELSE {}}

(***************************************************************************)
(* State                                                                   *)
(***************************************************************************)
RequestType == [
    route: {"mcp", "tools", "healthz", "discovery"},
    verb: {"POST", "GET"},
    host: {"bare", "port", "other"},           \* the public name, without and with its port
    body: {"tooLarge", "garbled", "foreign", "rpc"}, \* foreign: JSON, but no JSON-RPC 2.0 message
    id: RequestIds,
    method: Methods,
    name: AllTools \cup Prompts \cup {"", "unlisted", None},
    argsIsObject: BOOLEAN,
    args: SUBSET UNION {Schema(tool) : tool \in AllTools}, \* arguments with usable values
    mcpMethod: Methods \cup {None},
    mcpName: AllTools \cup Prompts \cup {"", "unlisted", None}]

Modes == {"development", "jwt", "unavailable"}
Tokens == [form: {"none"}, claim: {{}}] \cup [form: {"development", "jwt"}, claim: Claims]

RequestAssumption ==
    /\ Requests # {} /\ Requests \subseteq RequestType /\ Default \subseteq Scopes /\ ExplicitPort \in BOOLEAN
    /\ None \notin AllTools \cup Prompts \cup Methods \cup {"", "unlisted"}

VARIABLES
    config,  \* what the server was started with
    token,   \* the client's Authorization header
    phase,
    request,
    id,      \* the id in the message that is forwarded
    auth,    \* the scopes of the AuthContext, {} when there is none
    answer,
    effects, \* history: what this exchange has changed or disclosed
    listed   \* history: the tools the client has been told of

vars == <<config, token, phase, request, id, auth, answer, effects, listed>>

NoAnswer == [status |-> 0, id |-> None, code |-> "none"]
Answer(status, ofId, code) == [status |-> status, id |-> ofId, code |-> code]

TypeOK ==
    /\ config \in [mode: Modes, ocr: BOOLEAN] /\ token \in Tokens
    /\ phase \in {"idle", "preflight", "auth", "serve", "restore", "answered"}
    /\ request \in Requests /\ id \in RequestIds /\ auth \subseteq Scopes
    /\ answer.id \in RequestIds /\ effects \subseteq {"notes", "trash", "gone", "framework", "policy", "jobs", "prompt"}
    /\ listed \subseteq AllTools

AnyRequest == CHOOSE r \in Requests : TRUE \* before the first, and between two

Init ==
    /\ config \in [mode: Modes, ocr: BOOLEAN] /\ token \in Tokens
    /\ phase = "idle" /\ request = AnyRequest /\ id = None /\ auth = {}
    /\ answer = NoAnswer /\ effects = {} /\ listed = {}

Finish(a) == phase' = "answered" /\ answer' = a

Send ==
    /\ phase = "idle"
    /\ request' \in Requests
    /\ \/ /\ request'.route # "mcp" /\ request'.verb # "GET"
          /\ Finish(Answer(405, None, "verb"))
       \/ /\ request'.route \in {"healthz", "discovery"} /\ request'.verb = "GET"
          /\ Finish(Answer(200, None, "result"))
       \/ /\ request'.route = "mcp" \/ (request'.route = "tools" /\ request'.verb = "GET")
          /\ answer' = NoAnswer
          /\ phase' = IF request'.route = "mcp" /\ request'.verb = "POST" THEN "preflight" ELSE "auth"
    /\ UNCHANGED <<config, token, id, auth, effects, listed>>

\* The client has its answer; nothing of the exchange is left on the server.
Receive ==
    /\ phase = "answered" /\ phase' = "idle"
    /\ request' = AnyRequest /\ id' = None /\ auth' = {} /\ answer' = NoAnswer /\ effects' = {}
    /\ UNCHANGED <<config, token, listed>>

(***************************************************************************)
(* preflight: the request as it was sent, before any authentication        *)
(***************************************************************************)
\* normalize_json_numbers: every number becomes the binary64 number nearest to it, which
\* for an id means that beyond 2^53 it is rounded and that -0 loses its sign.
Normalised(i) ==
    CASE i = "-0" -> "0"
      [] i = "2^53+1" -> "2^53"
      [] i = "2^64-1" -> "2^64"
      [] OTHER -> i

Id == Normalised(request.id)

Nameless == {None, ""}
Named == request.method \in {"tools/call", "prompts/get"}
HeadersMatch ==
    /\ request.mcpMethod \in {None, request.method}
    /\ request.mcpName \in {None, IF Named \/ request.method = "resources/read" THEN request.name ELSE None}

\* The checks of the body, in their order.
Objection ==
    CASE request.body = "tooLarge" -> Answer(413, None, "oversize")
      [] request.body \in {"garbled", "foreign"} \/ request.id = "null" -> Answer(400, None, "parse")
      [] ~HeadersMatch -> Answer(400, Id, "headers")
      [] request.id = None -> Answer(202, None, "none")
      [] Named /\ request.name \in Nameless -> Answer(200, Id, "params")
      [] request.method = "tools/call" /\ ~request.argsIsObject -> Answer(200, Id, "params")
      [] request.method \in Immediate -> Answer(200, Id, "result")
      [] request.method \notin Forwarded -> Answer(200, Id, "unknown")
      [] OTHER -> NoAnswer

\* rmcp reads only text and signed 64-bit integers as ids.
Mapped(i) == CASE i = "1.5" -> "number:1.5" [] i = "2^64" -> "number:2^64" [] OTHER -> i

Preflight ==
    /\ phase = "preflight"
    /\ \/ Objection # NoAnswer /\ Finish(Objection) /\ UNCHANGED id
       \/ Objection = NoAnswer /\ phase' = "auth" /\ id' = Mapped(Id) /\ UNCHANGED answer
    /\ UNCHANGED <<config, token, request, auth, effects, listed>>

(***************************************************************************)
(* authenticate_mcp and the authenticators                                 *)
(***************************************************************************)
\* parse_scopes drops words that are no scope.
Parsed == token.claim \cap Scopes

\* The development authenticator refuses nothing.
Development == IF token.form = "development" /\ Parsed # {} THEN Parsed ELSE Default

Admitted(scopes) == auth' = scopes /\ phase' = "serve" /\ UNCHANGED answer
Refused(code) == Finish(Answer(401, None, code)) /\ UNCHANGED auth

\* The verification of a signed token is the subject of module TokenVerification.
Authenticate ==
    /\ phase = "auth"
    /\ \/ config.mode = "development" /\ Admitted(Development)
       \/ config.mode = "jwt" /\ token.form = "jwt" /\ Admitted(Parsed)
       \/ config.mode = "jwt" /\ token.form = "none" /\ Refused("missing_token")
       \/ config.mode = "jwt" /\ token.form # "none" /\ Refused("invalid_token")
       \/ config.mode = "unavailable" /\ Refused("invalid_token")
    /\ UNCHANGED <<config, token, request, id, effects, listed>>

(***************************************************************************)
(* The handlers                                                            *)
(***************************************************************************)
Visible == {tool \in Registry(config.ocr) : \E s \in auth : tool \in ToolsOf[s]}

\* Slip: vault:delete is taken to include vault:delete:hard.
AllowedByFamily(tool) ==
    \E s \in auth : tool \in ToolsOf[s] \/ (s = "vault_delete" /\ tool \in ToolsOf["vault_delete_hard"])
Allowed(tool) == \E s \in auth : tool \in ToolsOf[s]

\* Handed back to authenticate_mcp, which puts a mapped id right.
Reply(code) == phase' = "restore" /\ answer' = Answer(200, id, code)

\* normalize_public_authority, and the host check of the transport.
HostAllowed == request.host = "port" \/ (request.host = "bare" /\ ~ExplicitPort)

Serving(method) ==
    /\ phase = "serve" /\ request.route = "mcp" /\ request.verb = "POST" /\ HostAllowed
    /\ request.method = method
    /\ UNCHANGED <<config, token, request, id, auth>>

Reject ==
    /\ phase = "serve" /\ request.route = "mcp"
    /\ \/ ~HostAllowed /\ Finish(Answer(403, None, "host"))
       \/ HostAllowed /\ request.verb # "POST" /\ Finish(Answer(405, None, "verb"))
    /\ UNCHANGED <<config, token, request, id, auth, effects, listed>>

\* GET /tools
HttpListTools ==
    /\ phase = "serve" /\ request.route = "tools"
    /\ listed' = Visible /\ Finish(Answer(200, None, "result"))
    /\ UNCHANGED <<config, token, request, id, auth, effects>>

ListTools ==
    /\ Serving("tools/list")
    /\ listed' = Visible /\ Reply("result")
    /\ UNCHANGED effects

ListPrompts ==
    /\ Serving("prompts/list")
    /\ Reply(IF "skills_read" \in auth THEN "result" ELSE "forbidden")
    /\ UNCHANGED <<effects, listed>>

GetPrompt ==
    /\ Serving("prompts/get")
    /\ \/ "skills_read" \notin auth /\ Reply("forbidden") /\ UNCHANGED effects
       \/ "skills_read" \in auth /\ request.name \notin Prompts /\ Reply("unknown") /\ UNCHANGED effects
       \/ "skills_read" \in auth /\ request.name \in Prompts /\ Reply("result") /\ effects' = {"prompt"}
    /\ UNCHANGED listed

\* call_tool and, where the call is allowed, dispatch.  A handler that fails may have
\* changed something all the same.
CallTool ==
    /\ Serving("tools/call")
    /\ LET tool == request.name
       IN \/ tool \notin Registry(config.ocr) /\ Reply("unknown") /\ UNCHANGED effects
          \/ tool \in Registry(config.ocr) /\ ~Allowed(tool) /\ Reply("forbidden") /\ UNCHANGED effects
          \/ /\ tool \in Registry(config.ocr) /\ Allowed(tool)
             /\ \/ ~Handled(tool, config.ocr) /\ Reply("unknown") /\ UNCHANGED effects
                \/ /\ Handled(tool, config.ocr) /\ ~(Demanded(tool) \subseteq request.args)
                   /\ Reply("arguments") /\ UNCHANGED effects
                \/ /\ Handled(tool, config.ocr) /\ Demanded(tool) \subseteq request.args
                   /\ \E code \in {"result", "error"} : Reply(code)
                   /\ effects' \in SUBSET Effects(tool)
    /\ UNCHANGED listed

\* Slip: a mapped id is put back as it was sent.
RestoreAsSent ==
    /\ phase = "restore"
    /\ Finish(IF id # Id THEN [answer EXCEPT !.id = request.id] ELSE answer)
    /\ UNCHANGED <<config, token, request, id, auth, effects, listed>>

\* restore_numeric_id, where the id was mapped.
Restore ==
    /\ phase = "restore"
    /\ Finish(IF id # Id THEN [answer EXCEPT !.id = Id] ELSE answer)
    /\ UNCHANGED <<config, token, request, id, auth, effects, listed>>

Next ==
    \/ Send \/ Receive \/ Preflight \/ Authenticate \/ Reject \/ HttpListTools
    \/ ListTools \/ ListPrompts \/ GetPrompt \/ CallTool \/ Restore

Spec == Init /\ [][Next]_vars

(***************************************************************************)
(* Properties                                                              *)
(***************************************************************************)

\* The scopes bound what a call can do, whatever tool it names and whichever handler serves
\* it (README.md, table of scopes): notes change only for a writing scope, but for
\* daily_note_get; they leave their place only for the deleting ones, and for good only for
\* vault:delete:hard; and a signed token is the only source of scopes in jwt mode.
ScopesBoundEffects ==
    /\ "notes" \in effects =>
          \/ auth \cap {"vault_write", "vault_delete", "vault_delete_hard", "vault_capture", "daily_append", "admin"} # {}
          \/ "vault_read" \in auth /\ request.name = "daily_note_get"
    /\ "trash" \in effects => "vault_delete" \in auth
    /\ "gone" \in effects => "vault_delete_hard" \in auth
    /\ effects \cap {"framework", "policy", "jobs"} # {} => "admin" \in auth
    /\ "prompt" \in effects => "skills_read" \in auth
    /\ effects # {} /\ config.mode # "development" => token.form = "jwt" /\ auth \subseteq token.claim

\* Three tables that are kept by hand agree, the tool table, the input schemas and what
\* dispatch serves and demands: a tool the client was told of, called with what its schema
\* requires, is never unknown, forbidden or short of an argument, and called with less it
\* does nothing.
ListedToolsWork ==
    request.method = "tools/call" /\ request.name \in listed /\ answer.status = 200 /\ request.argsIsObject =>
        IF Schema(request.name) \subseteq request.args
        THEN answer.code \notin {"unknown", "forbidden", "arguments"}
        ELSE effects = {}

\* An answer to a JSON-RPC request, an error of any kind included, bears the id that the
\* client reads in what it sent, a number as JSON.parse reads it (tests/integration.rs,
\* raw_json_numbers_match_javascript_integer_precision): the text under which a number
\* travels to rmcp never reaches the client, and neither does a number other than the
\* nearest of binary64, wherever on the way the answer is made.
AnswersBearTheirId ==
    phase = "answered" => /\ answer.id \in {None, Normalised(request.id)}
                          /\ request.route = "mcp" /\ answer.status = 200 => answer.id = Normalised(request.id)
=============================================================================
