------------------------------ MODULE Exchange ------------------------------
(***************************************************************************)
(* What one request and its answer say, as they pass the gateway: the key    *)
(* they are admitted by (src/auth/api-key.ts, require-admin.ts, model-allow   *)
(* .ts, src/admin/csrf.ts), the body and headers that leave for upstream      *)
(* (ensureSystem and sanitizeSystemForUpstream of src/proxy/messages.ts, the  *)
(* aliases of src/proxy/tool-name-mapping.ts, src/template/extracted.ts), and *)
(* the answer as the caller reads it, aliases reversed, a chunk at a time.    *)
(*                                                                          *)
(* Requests are of an input set, with what upstream will answer; a system     *)
(* text is a sequence of words, which may be as small as characters, of a     *)
(* name on the wire there are two halves that a chunk may part.  When things  *)
(* happen is the subject of Pipeline.                                         *)
(***************************************************************************)
EXTENDS Naturals, Sequences, FiniteSets, SequencesExt

CONSTANTS
    None,
    Words,         \* what texts, tool names, keys of a body and flags are made of
    Families,      \* the requests that may come, with their answers: sets of them
    Keys,          \* the key store: key -> name, role, allowed patterns
    OAuthTokens,   \* credentials shaped like Anthropic's own
    Uuids,         \* account ids upstream may tell
    CCText,        \* CC_SYSTEM_PREFIX, as words
    Dictionary,    \* CLASSIFIER_TRIGGERS: a sequence of [pattern, replacement]
    ToolTriggers,  \* TOOL_NAME_TRIGGERS
    Aliases,       \* the aliases, in the order they are given out
    NewLine

MaxAnchors == 4    \* MAX_CACHE_CONTROL_BLOCKS

SystemBlock == [text : Seq(Words), anchor : {"no", "ephemeral", "other"}, ok : BOOLEAN]
ToolEntry == [name : Words, anchor : {"no", "ephemeral", "other"}]
Pages == {"ours", "sibling", "foreign", "typed", "script"}

\* q stands in the text after its first i words; it occurs there somewhere.
StandsAt(q, text, i) == i + Len(q) <= Len(text) /\ \A k \in 1..Len(q) : text[i + k] = q[k]
Occurs(q, text) == \E i \in 0..Len(text) : StandsAt(q, text, i)

\* The identity text and the replacements have no trigger in them, and where a
\* replacement begins no trigger goes on.  Aliases are words that nothing else
\* on the wire is, and enough.
ASSUME DictionaryAssumption ==
    /\ Dictionary \in Seq([pattern : Seq(Words), replacement : Seq(Words)]) /\ CCText \in Seq(Words)
    /\ \A d, e \in Range(Dictionary) :
        /\ d.pattern # <<>> /\ d.replacement # <<>>
        /\ ~Occurs(d.pattern, CCText) /\ ~Occurs(d.pattern, e.replacement)
        /\ \A i \in 1..(Len(d.pattern) - 1) :
              \E k \in DOMAIN e.replacement : i + k <= Len(d.pattern) /\ d.pattern[i + k] # e.replacement[k]
    /\ Aliases \in Seq(Words) /\ IsInjective(Aliases) /\ "system" \in Words
    /\ NewLine \in Words \ Range(Aliases) /\ Range(Aliases) \cap ToolTriggers = {}

\* No credential, site, origin or account is None.
ASSUME NoneAssumption ==
    /\ None \notin Pages \cup {"same-origin", "same-site", "cross-site", "none", "fresh"}
    /\ None \notin [scheme : {"https", "null"}, host : Pages \cup {"null"}]
    /\ \A k \in DOMAIN Keys : Keys[k] # None

Agents == [shape : {"none", "odd"}, version : Seq(Nat)] \cup [shape : {"cli"}, version : [1..3 -> Nat]]

WellTyped(r) ==
    /\ r.kind \in {"messages", "admin"} /\ r.page.from \in Pages /\ r.page.modern \in BOOLEAN
    /\ r.page.origin \in {"named", "opaque", "absent"}
    /\ r.system \in Seq(SystemBlock) /\ r.tools \in Seq(ToolEntry) /\ r.anchors \in Nat
    /\ r.keys \in Seq(Words) /\ r.template.bodyOrder \in Seq(Words)
    /\ r.template.agent \in Agents /\ r.agent \in Agents
    /\ r.reply \in Seq([tool : 0..Len(r.tools), word : Words])

\* What the ceiling on aliases and the oddness of their names are for: a caller
\* and the model write no alias that was given out.
AliasesUnwritten(r) ==
    /\ Len(r.tools) <= Len(Aliases)
    /\ \A i \in DOMAIN r.tools : r.tools[i].name \notin Range(Aliases) \cup {NewLine}
    /\ LET given == Cardinality({r.tools[k].name : k \in DOMAIN r.tools} \cap ToolTriggers)
       IN \A i \in DOMAIN r.reply : r.reply[i].word \notin {Aliases[j] : j \in 1..given}

ASSUME ExchangeAssumption ==
    \A F \in Families : \A r \in F : WellTyped(r) /\ AliasesUnwritten(r)

VARIABLES
    stage,    \* "new", "known", "changed", "sent", "relaying", "done", "refused"
    request,  \* the request
    user,     \* AuthenticatedUser
    out,      \* OutboundRequest
    aliases,  \* the request's ToolAliasMap: names, in the order of their aliases
    learned,  \* AccountLearner's current()
    wire,     \* the answer upstream has still to send
    buffer,   \* the line createReverseToolNameStream holds back
    seen,     \* what the caller has received
    gone      \* the caller hung up

exchangeVars == <<stage, request, user, out, aliases, learned, wire, buffer, seen, gone>>

Nothing == [system |-> <<>>, tools |-> <<>>, anchors |-> 0, keys |-> <<>>, account |-> None, headers |-> None]

ExchangeInit ==
    /\ stage = "new" /\ \E F \in Families : request \in F
    /\ user = None /\ out = Nothing /\ aliases = <<>>
    /\ learned \in Uuids \cup {None}
    /\ wire = <<>> /\ buffer = <<>> /\ seen = <<>> /\ gone = FALSE

-----------------------------------------------------------------------------
(* Who is calling.                                                          *)

\* extractKey: x-api-key first, then a bearer token or a basic password.
Presented(r) ==
    IF r.xApiKey # None THEN r.xApiKey
    ELSE IF r.scheme \in {"bearer", "basic"} THEN r.token ELSE None

Refuse == /\ stage' = "refused"
          /\ UNCHANGED <<request, user, out, aliases, learned, wire, buffer, seen, gone>>

\* createApiKeyMiddleware, 400 or 401: an OAuth token before an unknown key.
Unauthenticated ==
    /\ stage = "new"
    /\ Presented(request) = None \/ Presented(request) \in OAuthTokens \/ Presented(request) \notin DOMAIN Keys
    /\ Refuse

\* createApiKeyMiddleware, the match.
Authenticate ==
    /\ stage = "new"
    /\ Presented(request) \in DOMAIN Keys \ OAuthTokens
    /\ user' = Keys[Presented(request)]
    /\ stage' = "known"
    /\ UNCHANGED <<request, out, aliases, learned, wire, buffer, seen, gone>>

-----------------------------------------------------------------------------
(* An operator's change.  What the browser adds to a page's request is       *)
(* external: a modern one says where the page is from, and nearly every one  *)
(* an origin, which may be opaque; other programs add nothing.               *)

FetchSite(page) ==
    IF ~page.modern THEN None
    ELSE CASE page.from = "ours" -> "same-origin" [] page.from = "sibling" -> "same-site"
           [] page.from = "foreign" -> "cross-site" [] OTHER -> "none"

OpaqueOrigin == [scheme |-> "null", host |-> "null"]

OriginOf(page) ==
    IF page.from = "script" \/ page.origin = "absent" THEN None
    ELSE IF page.origin = "opaque" THEN OpaqueOrigin ELSE [scheme |-> "https", host |-> page.from]

RefererHost(page) == IF page.referer /\ page.from # "script" THEN page.from ELSE None

\* computeExpected: without X-Forwarded-Proto the scheme is the inner hop's.
ExpectedOrigin(page) == [scheme |-> IF page.forwarded THEN "https" ELSE "http", host |-> "ours"]

\* csrfGuard, in its layers.
CsrfPasses(page) ==
    IF FetchSite(page) # None THEN FetchSite(page) \in {"same-origin", "none"}
    ELSE \/ OriginOf(page) = None
         \/ OriginOf(page) = OpaqueOrigin /\ RefererHost(page) = "ours"
         \/ OriginOf(page) = ExpectedOrigin(page)

\* requireAdmin.
RequireAdmin(u) == u.role = "admin"

Administer ==
    /\ stage = "known" /\ request.kind = "admin"
    /\ RequireAdmin(user) /\ CsrfPasses(request.page)
    /\ stage' = "changed"
    /\ UNCHANGED <<request, user, out, aliases, learned, wire, buffer, seen, gone>>

AdministerRefused ==
    /\ stage = "known" /\ request.kind = "admin"
    /\ ~(RequireAdmin(user) /\ CsrfPasses(request.page))
    /\ Refuse

-----------------------------------------------------------------------------
(* The body that leaves.                                                    *)

\* countCacheControlInArray.
Anchored(entries) == Cardinality({i \in DOMAIN entries : entries[i].anchor # "no"})

\* countCacheControlBlocks: system, tools and the messages' content.
AnchorsOf(b) == Anchored(b.system) + Anchored(b.tools) + b.anchors

\* CC_BLOCK and CC_BLOCK_NO_CACHE.
CCBlock(anchor) == [text |-> CCText, anchor |-> anchor, ok |-> TRUE]

\* Mutant: the anchor that comes with the block is not counted.
PickPrependBlock_OffByOne(b) == CCBlock(IF AnchorsOf(b) > MaxAnchors THEN "no" ELSE "ephemeral")

\* pickPrependBlock: without an anchor where there is no room for one more.
PickPrependBlock(b) == CCBlock(IF AnchorsOf(b) + 1 > MaxAnchors THEN "no" ELSE "ephemeral")

\* isCanonicalCcMarker.
IsCanonical(block) == block.text = CCText /\ block.anchor = "ephemeral"

\* ensureSystem, 400: a block that is not a text block.
HasInvalidBlock(b) == \E i \in DOMAIN b.system : ~b.system[i].ok

\* ensureSystem: no system, a text or blocks are all blocks here.
EnsureSystem(b) ==
    IF \E i \in DOMAIN b.system : IsCanonical(b.system[i]) THEN b.system
    ELSE <<PickPrependBlock(b)>> \o b.system

\* split and join, a word further: done is what stands up to the last
\* replacement, run what came since.  A run that ends with the trigger is done.
Advance(d, s, word) ==
    LET run == Append(s.run, word)
        cut == Len(run) - Len(d.pattern)
    IN IF cut >= 0 /\ StandsAt(d.pattern, run, cut)
       THEN [done |-> s.done \o SubSeq(run, 1, cut) \o d.replacement, run |-> <<>>]
       ELSE [s EXCEPT !.run = run]

ReplaceTrigger(text, d) ==
    LET split == FoldLeft(LAMBDA s, word : Advance(d, s, word), [done |-> <<>>, run |-> <<>>], text)
    IN split.done \o split.run

\* applyClassifierTriggers: the dictionary, in order.
ApplyTriggers(text) == FoldLeft(LAMBDA t, d : ReplaceTrigger(t, d), text, Dictionary)

\* sanitizeSystemForUpstream.
Sanitize(system) == [i \in DOMAIN system |-> [system[i] EXCEPT !.text = ApplyTriggers(@)]]

\* How a Map or an object is filled: a key of K that is not yet there comes
\* last, any other changes nothing.
Put(there, k, K) == IF k \in K \ Range(there) THEN Append(there, k) ELSE there
Filled(s, K) == FoldLeft(LAMBDA there, k : Put(there, k, K), <<>>, s)

\* toAlias, over the tools: each name once, in the order it is first met.
Registered(tools) == Filled([i \in DOMAIN tools |-> tools[i].name], ToolTriggers)

AliasOf(names, n) == Aliases[CHOOSE i \in DOMAIN names : names[i] = n]

\* rewriteToolNamesForUpstream.
RewriteTools(tools, names) ==
    [i \in DOMAIN tools |->
        IF tools[i].name \in Range(names) THEN [tools[i] EXCEPT !.name = AliasOf(names, @)] ELSE tools[i]]

\* {...b, system}: system keeps its place, or comes last.
KeysOf(b) == IF Contains(b.keys, "system") THEN b.keys ELSE Append(b.keys, "system")

\* reorderBody: the snapshot's order, then the rest in the caller's.
Reorder(template, keys) == Filled(template.bodyOrder \o keys, ToSet(keys))

\* enrichAccountUuid: only a user_id that says no account is completed.
Enrich(account) == IF account = "blank" /\ learned # None THEN learned ELSE account

-----------------------------------------------------------------------------
(* The headers that leave.                                                  *)

\* compareVersions.
Newer(v, w) == \E i \in DOMAIN v : v[i] > w[i] /\ \A j \in 1..(i - 1) : v[j] = w[j]

\* resolveUserAgent: the client's, if it is Claude Code's, of the known shape
\* and newer; a snapshot without a readable one cannot be compared.
ResolveUserAgent(snapshot, client) ==
    IF client.shape # "cli" THEN snapshot
    ELSE IF snapshot.shape # "cli" \/ Newer(client.version, snapshot.version) THEN client
    ELSE snapshot

\* mergeAndFilterAnthropicBeta; OAUTH_INCOMPATIBLE_BETA_PREFIXES is empty.
MergeBetas(snapshot, client) == snapshot \cup client

NoAgent == [shape |-> "none", version |-> <<>>]

\* buildHeaders: by the snapshot's slots.  Credentials and content type are
\* there whatever the snapshot says, and a client's agent has no need of a slot.
BuildHeaders(template, r) ==
    LET slot(n) == Contains(template.headerOrder, n) IN
    [authorization |-> "pool", contentType |-> TRUE,
     betas   |-> IF slot("anthropic-beta") THEN MergeBetas(template.betas, r.betas) ELSE {},
     agent   |-> ResolveUserAgent(IF slot("user-agent") THEN template.agent ELSE NoAgent, r.agent),
     session |-> IF ~slot("x-claude-code-session-id") THEN None
                 ELSE IF r.session = None THEN "fresh" ELSE r.session]

\* ClaudeTemplate.apply, after the rewriting of the handler.
Apply(r, names) ==
    [system  |-> Sanitize(EnsureSystem(r)), tools |-> RewriteTools(r.tools, names),
     anchors |-> r.anchors, keys |-> Reorder(r.template, KeysOf(r)), account |-> Enrich(r.account),
     headers |-> BuildHeaders(r.template, r)]

\* isModelAllowed: exact, or by a prefix.
ModelAllowed(model, patterns) ==
    \/ patterns = {}
    \/ \E p \in patterns : IF p.star THEN IsPrefix(p.stem, model) ELSE p.stem = model

\* createMessagesHandler, 400 by ensureSystem or 403 by the allowlist.
SendRefused ==
    /\ stage = "known" /\ request.kind = "messages"
    /\ HasInvalidBlock(request) \/ ~ModelAllowed(request.model, user.allowed)
    /\ Refuse

\* createMessagesHandler, up to the call of upstream.
Send ==
    /\ stage = "known" /\ request.kind = "messages"
    /\ ~HasInvalidBlock(request) /\ ModelAllowed(request.model, user.allowed)
    /\ aliases' = Registered(request.tools)
    /\ out' = Apply(request, aliases')
    /\ stage' = "sent"
    /\ UNCHANGED <<request, user, learned, wire, buffer, seen, gone>>

-----------------------------------------------------------------------------
(* The answer.                                                              *)

Encode(name) == <<[of |-> name, half |-> 1], [of |-> name, half |-> 2]>>
LineEnd == <<[of |-> NewLine, half |-> 1]>>

\* An item of the answer is a tool, by the name upstream has for it, or a word.
Symbols(item, tools) ==
    IF item.tool # 0 THEN Encode(tools[item.tool].name)
    ELSE IF item.word = NewLine THEN LineEnd ELSE Encode(item.word)

Written(items, tools) == FlattenSeq([i \in DOMAIN items |-> Symbols(items[i], tools)])

\* The symbol that ends an alias given out puts the name in its place.
EndsAlias(names, text, s) ==
    /\ s.half = 2 /\ text # <<>> /\ Last(text) = [of |-> s.of, half |-> 1]
    /\ \E i \in DOMAIN names : Aliases[i] = s.of
Restore(names, text, s) ==
    IF EndsAlias(names, text, s)
    THEN Front(text) \o Encode(names[CHOOSE i \in DOMAIN names : Aliases[i] = s.of])
    ELSE Append(text, s)

\* reverseToolNamesInText: every registered alias that stands there whole.
ReverseNames(names, text) == FoldLeft(LAMBDA t, s : Restore(names, t, s), <<>>, text)

\* observe: the organization of an answer is the account from now on.
Learn == learned' \in {learned} \cup Uuids

\* A JSON answer is reversed in one piece.
ReplyWhole ==
    /\ stage = "sent" /\ ~request.stream
    /\ seen' = ReverseNames(aliases, Written(request.reply, out.tools))
    /\ stage' = "done" /\ Learn
    /\ UNCHANGED <<request, user, out, aliases, wire, buffer, gone>>

ReplyStream ==
    /\ stage = "sent" /\ request.stream
    /\ wire' = Written(request.reply, out.tools)
    /\ stage' = "relaying" /\ Learn
    /\ UNCHANGED <<request, user, out, aliases, buffer, seen, gone>>

\* The transform is only there when there is something to reverse.
HasMappings == aliases # <<>>

\* Mutant: what has come is passed on, line or not.
HeldBack_Nothing(text) == Len(text)

\* Where the last complete line ends.
HeldBack(text) ==
    LET ends == {i \in DOMAIN text : text[i].of = NewLine}
    IN IF ends = {} THEN 0 ELSE CHOOSE i \in ends : \A j \in ends : j <= i

\* safeEnqueue: nothing for a caller who is gone, but the answer is read on.
Enqueue(text) == seen' = IF gone THEN seen ELSE seen \o text

\* transform: a chunk, cut anywhere.
Chunk(n) ==
    /\ stage = "relaying" /\ n \in 1..Len(wire)
    /\ wire' = SubSeq(wire, n + 1, Len(wire))
    /\ LET text == buffer \o SubSeq(wire, 1, n)
           end  == IF HasMappings THEN HeldBack(text) ELSE Len(text)
       IN /\ Enqueue(ReverseNames(aliases, SubSeq(text, 1, end)))
          /\ buffer' = SubSeq(text, end + 1, Len(text))
    /\ UNCHANGED <<stage, request, user, out, aliases, learned, gone>>

\* flush: the last line may lack its end.
Flush ==
    /\ stage = "relaying" /\ wire = <<>>
    /\ Enqueue(ReverseNames(aliases, buffer))
    /\ buffer' = <<>> /\ stage' = "done"
    /\ UNCHANGED <<request, user, out, aliases, learned, wire, gone>>

HangUp ==
    /\ stage = "relaying" /\ ~gone
    /\ gone' = TRUE
    /\ UNCHANGED <<stage, request, user, out, aliases, learned, wire, buffer, seen>>

ExchangeNext ==
    \/ Unauthenticated \/ Authenticate \/ Administer \/ AdministerRefused
    \/ SendRefused \/ Send \/ ReplyWhole \/ ReplyStream
    \/ \E n \in 1..Len(wire) : Chunk(n)
    \/ Flush \/ HangUp

ExchangeSpec == ExchangeInit /\ [][ExchangeNext]_exchangeVars

-----------------------------------------------------------------------------

\* The answer with the names the caller gave its tools; an answer says a name
\* in one piece, not a part in one line of the stream and the rest in another.
Meant == Written(request.reply, request.tools)

\* What a caller reads is the answer under its own tools' names, to the last
\* byte, however the stream is cut: no alias shows through, none is reversed
\* that was not given out, nothing is held back at the end
\* (src/proxy/tool-name-mapping.ts:127-205).
CallersSeeTheirNames ==
    /\ IsPrefix(seen, Meant)
    /\ stage = "done" /\ ~gone => seen = Meant

\* Blocks that were put before the caller's.
Added == Len(out.system) - Len(request.system)

\* The identity is the first thing upstream reads, or the caller's own is
\* passed on, and the caller's blocks follow as they were, word for word where
\* there is no trigger (messages.ts:300-365, classifier-triggers.ts:119-122).
IdentityKept ==
    /\ \E i \in DOMAIN out.system : out.system[i].text = CCText
    /\ Added = 1 => out.system[1].text = CCText
    /\ \A i \in DOMAIN request.system :
        /\ out.system[i + Added].anchor = request.system[i].anchor
        /\ (\A d \in Range(Dictionary) : ~Occurs(d.pattern, request.system[i].text)) =>
                out.system[i + Added].text = request.system[i].text

\* Upstream's ceiling is not broken by the gateway (messages.ts:139-250).
AnchorsFit == AnchorsOf(out) <= MaxAnchors \/ AnchorsOf(out) = AnchorsOf(request)

\* A text says a trigger and right after it the rest of one that ends of the
\* replacement begin: replaced, it says that one.
Rejoins(text) ==
    \E d, e \in Range(Dictionary) : \E k \in 1..(Len(e.pattern) - 1) :
        /\ k <= Len(d.replacement) /\ StandsAt(SubSeq(e.pattern, 1, k), d.replacement, Len(d.replacement) - k)
        /\ Occurs(d.pattern \o SubSeq(e.pattern, k + 1, Len(e.pattern)), text)

\* No classifier trigger leaves as a tool, and none in a text but in one that
\* rejoins; and tools stay apart (classifier-triggers.ts:111-118, 183-194).
TriggersHidden ==
    /\ \A i \in DOMAIN out.system : \A d \in Range(Dictionary) :
        Occurs(d.pattern, out.system[i].text) =>
            i > Added /\ Rejoins(request.system[i - Added].text)
    /\ \A i, j \in DOMAIN out.tools :
        /\ out.tools[i].name \notin ToolTriggers
        /\ (out.tools[i].name = out.tools[j].name) <=> (request.tools[i].name = request.tools[j].name)

\* No key of the body is lost or doubled on the way into the snapshot's order.
KeysKept ==
    /\ ToSet(out.keys) = ToSet(request.keys) \cup {"system"}
    /\ IsInjective(out.keys)

\* The agent is never older than the snapshot's, and neither side's beta flags
\* nor the caller's session are lost (template/extracted.ts:117-296).
HeadersKept ==
    LET h == out.headers  t == request.template IN
    /\ Contains(t.headerOrder, "user-agent") /\ t.agent.shape = "cli" =>
            h.agent.shape = "cli" /\ ~Newer(t.agent.version, h.agent.version)
    /\ request.agent.shape = "cli" => h.agent.shape = "cli" /\ ~Newer(request.agent.version, h.agent.version)
    /\ Contains(t.headerOrder, "anthropic-beta") => t.betas \cup request.betas \subseteq h.betas
    /\ request.session # None /\ Contains(t.headerOrder, "x-claude-code-session-id") =>
            h.session = request.session

\* A browser that tells neither where a page is from nor an origin.
TellsNothing(page) == ~page.modern /\ page.origin = "absent"

\* A change is an admin's, made on our pages, by a program or in a browser that
\* tells nothing, and our own page is never turned away in a modern browser
\* (admin/csrf.ts:4-37, 80-88).
ChangesAreMeant ==
    request.kind = "admin" =>
        /\ stage = "changed" =>
            /\ user.role = "admin"
            /\ request.page.from \in {"ours", "typed", "script"} \/ TellsNothing(request.page)
        /\ stage = "refused" /\ user # None /\ user.role = "admin" =>
            ~(request.page.from = "ours" /\ request.page.modern)

\* What leaves the gateway upstream accepts if it accepts the caller's request,
\* and what changes it is meant.
OnlyAcceptableLeaves ==
    /\ ChangesAreMeant
    /\ stage \in {"sent", "relaying", "done"} =>
        IdentityKept /\ AnchorsFit /\ TriggersHidden /\ KeysKept /\ HeadersKept

=============================================================================
