---------------------------- MODULE MCDecisions -----------------------------
(* Three parts that share nothing, one at a time: the exchanges of families  *)
(* of requests, each of which varies what the others keep; the monitors over *)
(* two IPs, with a bucket of two requests that regains one in two ticks; and *)
(* the probes of two operators, up to the first result.                      *)
EXTENDS Exchange, Monitors, Probes

Stable == [bodyOrder |-> <<"model", "messages", "system", "tools", "metadata">>,
           headerOrder |-> <<"accept", "user-agent", "x-claude-code-session-id", "anthropic-beta", "x-api-key">>,
           betas |-> {"claude-code", "oauth"}, agent |-> [shape |-> "cli", version |-> <<2, 1, 288>>]]

\* A capture without slots for agent and session, and one edited by hand.
Partial == [Stable EXCEPT !.headerOrder = <<"accept", "anthropic-beta">>, !.bodyOrder = <<"tools", "model">>]
Edited == [Stable EXCEPT !.agent = [shape |-> "odd", version |-> <<>>], !.bodyOrder = <<"model", "x", "model">>]

Page(from, modern, origin, referer, forwarded) ==
    [from |-> from, modern |-> modern, origin |-> origin, referer |-> referer, forwarded |-> forwarded]

Block(text, anchor, ok) == [text |-> text, anchor |-> anchor, ok |-> ok]
Tool(name, anchor) == [name |-> name, anchor |-> anchor]
Use(i) == [tool |-> i, word |-> "none"]
Say(w) == [tool |-> 0, word |-> w]

Plain == [kind |-> "messages", xApiKey |-> "k-user", scheme |-> "none", token |-> None,
          page |-> Page("script", FALSE, "absent", FALSE, TRUE),
          model |-> <<"claude", "haiku", "4">>, system |-> <<>>, tools |-> <<>>, anchors |-> 0,
          keys |-> <<"messages", "model", "x", "tools">>, account |-> "none", template |-> Stable,
          betas |-> {"context-1m"}, agent |-> [shape |-> "none", version |-> <<>>], session |-> None,
          stream |-> FALSE, reply |-> <<Say("hello")>>]

MCKeys == [k \in {"k-env", "k-user", "k-haiku"} |->
    IF k = "k-env" THEN [name |-> "op", role |-> "admin", allowed |-> {}]
    ELSE IF k = "k-user" THEN [name |-> "ann", role |-> "user", allowed |-> {}]
    ELSE [name |-> "bob", role |-> "user", allowed |-> {[stem |-> <<"claude", "haiku">>, star |-> TRUE],
                                                       [stem |-> <<"claude", "opus", "5">>, star |-> FALSE]}]]

Credentials == {None, "k-env", "k-user", "k-haiku", "oat", "junk"}

\* Who calls, from which page, for which model.
Callers ==
    {[Plain EXCEPT !.kind = k, !.xApiKey = x, !.scheme = s, !.token = t, !.model = m] :
        k \in {"messages", "admin"}, x \in Credentials, s \in {"none", "bearer", "basic", "other"},
        t \in {None, "k-env", "oat"}, m \in {<<"claude", "haiku", "4">>, <<"claude", "opus", "5">>, <<"claude">>}}
    \cup {[Plain EXCEPT !.kind = "admin", !.xApiKey = x, !.page = Page(f, m, o, r, p)] :
        x \in {"k-env", "k-user"}, f \in {"ours", "sibling", "foreign", "typed"},
        m \in BOOLEAN, o \in {"named", "opaque", "absent"}, r \in BOOLEAN, p \in BOOLEAN}

MCCCText == <<"you", "are", "cc">>

\* Triggers as the code's overlap: the replacement of the first, ## Skills, is
\* how it begins itself, and its last letter is how the second begins.
SkillsHeader == <<"## Skill", "s", "(mandatory)">>
SkillView == <<"s", "kill_view", "(name)">>
MCDictionary == <<[pattern |-> SkillView, replacement |-> <<"s", "kill_view", "with">>],
                  [pattern |-> SkillsHeader, replacement |-> <<"## Skill", "s">>]>>
Texts == {MCCCText, <<"prose">>, SkillView \o <<"prose">> \o SkillsHeader}
Blocks == {Block(t, a, TRUE) : t \in Texts, a \in {"no", "ephemeral", "other"}} \cup {Block(<<>>, "no", FALSE)}
SomeBlocks == {b \in Blocks : b.text # <<"prose">> \/ b.anchor = "other"}
SomeTools == {Tool(n, a) : n \in {"search", "view", "edit"}, a \in {"no", "ephemeral"}}

Seqs(S, n) == UNION {[1..m -> S] : m \in 0..n}

\* What the body says, and how many cache breakpoints it has.
Bodies ==
    {[Plain EXCEPT !.system = s, !.tools = t, !.anchors = a] :
        s \in Seqs(SomeBlocks, 2), t \in Seqs({u \in SomeTools : u.name # "view"}, 2), a \in 0..4}

\* Texts of triggers and parts of them, the ones that rejoin among them.
Parts == {SkillsHeader, SkillView, <<"(mandatory)">>, Tail(SkillView), <<"s">>, <<"prose">>}
Prompts == {[Plain EXCEPT !.system = <<Block(FlattenSeq(p), "no", TRUE)>>] : p \in Seqs(Parts, 4)}

\* How the body is ordered, which account it names, and what the headers say.
Shapes ==
    {[Plain EXCEPT !.template = t, !.keys = k, !.account = a, !.betas = b, !.agent = g, !.session = s] :
        t \in {Stable, Partial, Edited}, k \in {<<"x", "system", "model">>, <<"model">>},
        a \in {"none", "opaque", "blank", "named"}, b \in {{}, {"oauth", "context-1m"}},
        g \in {[shape |-> "none", version |-> <<>>], [shape |-> "odd", version |-> <<>>],
               [shape |-> "cli", version |-> <<2, 1, 287>>], [shape |-> "cli", version |-> <<2, 2, 0>>],
               [shape |-> "cli", version |-> <<3, 0, 1>>]},
        s \in {None, "s1"}}

\* What upstream answers: two lines at most, the last one with or without end.
Items(n) == {Use(i) : i \in 1..n} \cup {Say("view"), Say("alias2")}
Lines(n) == Seqs(Items(n), 2)
AnswersTo(n) == {l \o <<Say(NewLine)>> \o m : l \in Lines(n), m \in Lines(n)}
                \cup {l \o <<Say(NewLine)>> : l \in Lines(n)}

Answers ==
    {[Plain EXCEPT !.tools = <<Tool("edit", "no"), Tool("search", "no"), Tool("view", "no")>>,
                   !.stream = s, !.reply = r] : s \in BOOLEAN, r \in AnswersTo(3)}
    \cup {[Plain EXCEPT !.tools = <<Tool("edit", "no")>>, !.stream = s, !.reply = r] :
            s \in BOOLEAN, r \in AnswersTo(1)}

MCFamilies == {{Plain}, Callers, Bodies, Prompts, Shapes, Answers}

MCAliases == <<"alias0", "alias1", "alias2">>

MCWords == {"you", "are", "cc", "prose", "## Skill", "s", "(mandatory)", "kill_view", "(name)", "with", "search", "view", "edit",
            "alias0", "alias1", "alias2", "hello", "newline", "none", "x",
            "model", "messages", "system", "tools", "metadata"}
MCKeyNames == <<"k1", "k2">>

World(g, l, h) == [gate |-> g, limited |-> l, honoured |-> h]
Quiet == World(TRUE, {}, Accounts)
MCWorlds == {Quiet, World(FALSE, {}, Accounts), World(FALSE, {"acc1"}, Accounts), World(TRUE, {}, {"acc1"})}

-----------------------------------------------------------------------------

\* The part that runs; the others keep their first state.
VARIABLE part

Init ==
    /\ \/ part = "exchange" /\ world = Quiet
       \/ part = "monitors" /\ world = Quiet /\ request = Plain /\ learned = None
       \/ part = "probes" /\ request = Plain /\ learned = None
    /\ ExchangeInit /\ MonitorsInit /\ ProbesInit

\* Nothing reads a result: the run ends with the first.
NoResult == \A k \in Kinds : latest[k] = Nil

Next ==
    \/ part = "exchange" /\ ExchangeNext /\ UNCHANGED <<part, monitorVars, probeVars>>
    \/ part = "monitors" /\ MonitorsNext /\ UNCHANGED <<part, exchangeVars, probeVars>>
    \/ part = "probes" /\ ProbesNext /\ NoResult /\ UNCHANGED <<part, exchangeVars, monitorVars>>

Spec == Init /\ [][Next]_<<part, exchangeVars, monitorVars, probeVars>>
=============================================================================
