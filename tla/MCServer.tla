------------------------------- MODULE MCServer -------------------------------
(***************************************************************************)
(* Small instances of the parts of the server.  In a behaviour one of them *)
(* is active, so that the states add up instead of multiplying.            *)
(***************************************************************************)
EXTENDS Server, TLC

CONSTANTS Pair, Trio, Visitor   \* tool calls: two, three and one

(***************************************************************************)
(* Framework registry: two calls                                           *)
(***************************************************************************)
MCRegistry ==
    [calls |-> Pair, droppable |-> Pair, overlays |-> {"o1"}, path |-> "registry", names |-> {"n1", "n2"},
     requests |-> [op: {"register", "unregister", "init_create", "init_overwrite", "compose", "note_write"},
                   entry: {[name |-> "n1", path |-> "o1"]}]
                  \cup [op: {"register", "list", "reload"}, entry: {[name |-> "n2", path |-> "o1"]}],
     environment |-> {"io", "reload"}]

(***************************************************************************)
(* Captures: two calls with every fault                                    *)
(***************************************************************************)
Capture(op, source, path) == [op |-> op, source |-> source, path |-> path]
MCCaptures ==
    [calls |-> Pair, droppable |-> Pair, paths |-> {"p1", "p2"}, sources |-> {"s1", "s2"},
     requests |-> {Capture("replace_by_source_id", "s1", p) : p \in {"p1", "p2"}}
                  \cup {Capture("write", "s2", "p1"), Capture("create", "s1", "p2"), Capture("delete", NoSource, "p1")},
     hideable |-> {"p1"}, ioErrors |-> TRUE]

(***************************************************************************)
(* Daily notes: three calls                                                *)
(***************************************************************************)
Draft(rest, marks) == [section |-> {}, rest |-> rest, marks |-> marks]
MCDaily ==
    [calls |-> Trio, droppable |-> Trio, ops |-> [Trio -> {"get", "append", "repair", "outside"}],
     rests |-> {"t1", "t2"}, drafts |-> {Draft("t1", "good"), Draft("t2", "missing"), Draft("t1", "reversed")},
     faults |-> TRUE]

(***************************************************************************)
(* Skills: two reloads and a client; the note s2 is a link to n            *)
(***************************************************************************)
SkillPaths == {"map", "s1", "s2", "n"}
Vault(links, readable, valid) == [links |-> links, readable |-> readable, valid |-> valid]
MCSkills ==
    [reloads |-> Pair, clients |-> {Visitor}, droppable |-> Pair \cup {Visitor}, map |-> "map", paths |-> SkillPaths,
     resolved |-> [p \in SkillPaths |-> IF p = "s2" THEN "n" ELSE p], configured |-> {},
     vaults |-> {Vault({"s1"}, SkillPaths, {"s1"}), Vault({"s2"}, SkillPaths \ {"map"}, {"s2"}),
                 Vault({"s2"}, SkillPaths, {})},
     maxEdits |-> 1, ioErrors |-> TRUE]

(***************************************************************************)
(* Bearer tokens: two issuers, and tokens that deviate from a good one     *)
(***************************************************************************)
Key(kid, alg, usable) == [kid |-> kid, fits |-> {alg}, usable |-> usable]
Key1 == Key("a", "RS256", TRUE)
IssuerKeys == {Key1, Key("b", "RS256", TRUE), Key("a", "RS256", FALSE)}
GoodToken ==
    [header |-> "fine", alg |-> "RS256", kid |-> "a", signer |-> Key1, iss |-> "i2", audience |-> TRUE, exp |-> 2,
     nbf |-> Unset, iatIsNumber |-> TRUE, subject |-> TRUE, textual |-> TRUE, scope |-> {"vault:read", "other"}]
BearerTokens ==
    {[GoodToken EXCEPT !.kid = kid, !.signer = s, !.iss = iss, !.exp = exp] :
        kid \in {"a", "none"}, s \in IssuerKeys, iss \in {"i1", "i2", "i3"}, exp \in {1, 2}}
    \cup {[GoodToken EXCEPT !.header = "none"], [GoodToken EXCEPT !.header = "broken"],
          [GoodToken EXCEPT !.alg = "HS256"], [GoodToken EXCEPT !.alg = "ES256"], [GoodToken EXCEPT !.nbf = 1],
          [GoodToken EXCEPT !.audience = FALSE], [GoodToken EXCEPT !.exp = Unset],
          [GoodToken EXCEPT !.iatIsNumber = FALSE], [GoodToken EXCEPT !.subject = FALSE],
          [GoodToken EXCEPT !.textual = FALSE]}

MCBearer ==
    [issuers |-> <<"i1", "i2">>, algorithms |-> {"RS256", "ES256"}, keys |-> IssuerKeys, noKid |-> "none",
     scopes |-> {"vault:read", "admin"}, tokens |-> BearerTokens, maxClock |-> 2]

(***************************************************************************)
(* Requests: every tool with and without each required argument, and       *)
(* requests that deviate from a good one                                   *)
(***************************************************************************)
\* The tables of the module depend on none of its constants.
Table == INSTANCE RequestPath WITH
    Requests <- {}, Claims <- {}, Default <- {}, ExplicitPort <- FALSE, Prompts <- {}, None <- "absent",
    config <- rq_config, token <- rq_token, phase <- rq_phase, request <- rq_request, id <- rq_id, auth <- rq_auth,
    answer <- rq_answer, effects <- rq_effects, listed <- rq_listed

GoodRequest ==
    [route |-> "mcp", verb |-> "POST", host |-> "port", body |-> "rpc", id |-> "1.5", method |-> "tools/call",
     name |-> "read_note", argsIsObject |-> TRUE, args |-> {}, mcpMethod |-> "absent", mcpName |-> "absent"]
ToolCall(tool, args) == [GoodRequest EXCEPT !.name = tool, !.args = args]
ClientRequests ==
    {ToolCall(tool, Table!Schema(tool)) : tool \in Table!AllTools \cup {"unlisted"}}
    \cup UNION {{ToolCall(tool, Table!Schema(tool) \ {a}) : a \in Table!Schema(tool)} : tool \in Table!AllTools}
    \cup {[GoodRequest EXCEPT !.method = m] : m \in Table!Methods}
    \cup {[GoodRequest EXCEPT !.method = "tools/list", !.id = i] :
             i \in {"text", "7", "-0", "2^53+1", "2^64-1", "number:1.5", "number:2^64", "null", "absent"}}
    \cup {[GoodRequest EXCEPT !.method = m, !.id = i] : m \in {"ping", "resources/read"}, i \in {"2^53+1", "2^64-1"}}
    \cup {[GoodRequest EXCEPT !.method = "prompts/get", !.name = n] : n \in {"skill", "unlisted", "absent", ""}}
    \cup {[GoodRequest EXCEPT !.body = b] : b \in {"tooLarge", "garbled", "foreign"}}
    \cup {[GoodRequest EXCEPT !.host = h] : h \in {"bare", "other"}}
    \cup {[GoodRequest EXCEPT !.mcpMethod = "ping"], [GoodRequest EXCEPT !.mcpName = "unlisted"],
          [GoodRequest EXCEPT !.mcpMethod = "tools/call", !.mcpName = "read_note"],
          [GoodRequest EXCEPT !.argsIsObject = FALSE], [GoodRequest EXCEPT !.verb = "GET"],
          [GoodRequest EXCEPT !.route = "tools"], [GoodRequest EXCEPT !.route = "discovery"]}
    \cup {[GoodRequest EXCEPT !.route = r, !.verb = "GET"] : r \in {"tools", "healthz", "discovery"}}

MCHttp ==
    [requests |-> ClientRequests, claims |-> {{s} : s \in Table!Scopes \cup {"other"}} \cup {{"vault_write", "admin"}},
     default |-> {"skills_read"}, explicitPort |-> FALSE, prompts |-> {"skill"}]

(***************************************************************************)
(* Path patterns: "A" and "a" differ in case, and so do "Z" and "S", the   *)
(* symbol for .sync-conflict-                                              *)
(***************************************************************************)
PatternSymbols == {"a", "A", "b", "/", "*", "S", "Z"}
Strings(symbols, n) == UNION {[1..k -> symbols] : k \in 1..n}
GlobPatterns ==
    Strings({"a", "b", "/", "*"}, 3) \cup Strings({"a", "*"}, 5)
    \cup {<<"A">>, <<"A", "*">>, <<"*", "A", "*">>}
    \cup {<<"*", "*", "/", "*">> \o s : s \in {<<"S", "*">>, <<"Z", "*">>} \cup Strings({"A", "/", "*"}, 2)}
    \cup {s \o <<"/", "*", "*">> : s \in Strings({"a", "A", "*"}, 2)}

GlobPaths ==
    Strings({"a", "b", "/"}, 3) \cup Strings({"a", "A"}, 4) \cup Strings({"a", "/", "S", "Z"}, 3)
    \cup {<<"a", "Z", "*">>, <<"A", "*">>}

\* str::split
RECURSIVE Split(_)
Split(p) ==
    IF \A i \in DOMAIN p : p[i] # "*" THEN <<p>>
    ELSE LET i == CHOOSE i \in DOMAIN p : p[i] = "*" /\ \A j \in 1..(i - 1) : p[j] # "*"
         IN <<SubSeq(p, 1, i - 1)>> \o Split(SubSeq(p, i + 1, Len(p)))

MCPatterns ==
    [symbols |-> PatternSymbols,
     lower |-> [s \in PatternSymbols |-> IF s = "A" THEN "a" ELSE IF s = "Z" THEN "S" ELSE s],
     patterns |-> GlobPatterns, pieces |-> [p \in GlobPatterns |-> Split(p)], paths |-> GlobPaths]

(***************************************************************************)
(* One at a time                                                           *)
(***************************************************************************)
MCTogether == {{part} : part \in Parts}

MCSymmetry == Permutations(Pair) \cup Permutations(Trio)
=============================================================================
