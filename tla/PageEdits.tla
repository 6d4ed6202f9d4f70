------------------------------ MODULE PageEdits ------------------------------
(***************************************************************************)
(* The edits of the language model and their ledger: the agents of         *)
(* _step_page_content, one per page under a semaphore, then those of       *)
(* _step_boundaries on the joined document. An agent answers with tool     *)
(* calls; the calls of one answer run at once, each synchronous tool on a  *)
(* thread of its own, and all of them share current_markdown and changes.  *)
(* A text is a sequence of words, with "-" for a hyphen at the end of a    *)
(* line and "break" for the blank line between two pages.                  *)
(***************************************************************************)
EXTENDS Integers, Sequences, FiniteSets, SequencesExt

CONSTANTS
    Pages,            \* 1..total_pages
    Original,         \* [Pages -> text]: the pages of v0
    Posters,          \* the pages in create mode, which have rewrite_page
    Words,            \* what an edit may look for or put in its place
    Helpers,          \* describe_image, reconstruct_table, reconstruct_list
    Helped,           \* [Pages -> SUBSET Helpers]: those registered for a page
    Limit,            \* [Helpers -> Nat]: ten, ten and five calls
    Parallel,         \* PAGE_AGENT_SEMAPHORE_LIMIT
    MaxCalls,         \* bound on the tool calls of all agents
    MaxFailures       \* bound on the agents that fail

ASSUME EditAssumption ==
    /\ IsFiniteSet(Pages) /\ Pages = 1..Cardinality(Pages) /\ Pages # {}
    /\ Posters \subseteq Pages
    /\ Original \in [Pages -> Seq(Words \cup {"-", "break"})]
    /\ Helped \in [Pages -> SUBSET Helpers] /\ Limit \in [Helpers -> Nat]
    /\ {Parallel, MaxCalls, MaxFailures} \subseteq Nat /\ Parallel > 0

VARIABLES
    agent,      \* "queued", "running", "done", "failed" or "skipped"
    base,       \* the text each agent started from
    text,       \* its current_markdown
    changes,    \* its recorded edits
    call,       \* the tool calls of its answer, in two slots
    asks,       \* its calls of each helper, counted
    versions,   \* v1 and v2, once they are written
    step,       \* the StepResults of the two steps: their changes
    ledger,     \* the object stored for the job
    response,   \* what the ledger endpoint answered
    \* history
    together,   \* the agents that had two editing calls at once
    calls,      \* tool calls so far
    failures

edits == <<agent, base, text, changes, call, asks>>
outcome == <<versions, step, ledger, response>>
history == <<together, calls, failures>>
vars == <<edits, outcome, history>>

boundary == Cardinality(Pages) + 1
footnote == boundary + 1
Documents == {boundary, footnote}
Agents == Pages \cup Documents
Slots == {1, 2}
None == [none |-> TRUE]

(***************************************************************************)
(* Texts.                                                                  *)
(***************************************************************************)
Occurrences(t, word) == {i \in DOMAIN t : t[i] = word}
First(S) == CHOOSE i \in S : \A j \in S : i <= j

\* replace(old, new, 1); new may be empty
ReplaceOnce(t, old, new) ==
    LET at == Occurrences(t, old) IN
    IF at = {} THEN t
    ELSE SubSeq(t, 1, First(at) - 1) \o new \o SubSeq(t, First(at) + 1, Len(t))

\* the pages joined by blank lines
Join(pages) ==
    FoldLeft(LAMBDA t, p : IF p = 1 THEN pages[p] ELSE t \o <<"break">> \o pages[p],
             <<>>, [p \in Pages |-> p])

\* a word that was split over two pages
Split(t) == {i \in DOMAIN t : /\ i > 1 /\ i + 2 <= Len(t)
                              /\ t[i - 1] \in Words /\ t[i] = "-"
                              /\ t[i + 1] = "break" /\ t[i + 2] \in Words}
HyphenJoin(t) ==
    LET gone == Split(t) \cup {i + 1 : i \in Split(t)}
        kept == SetToSortSeq(DOMAIN t \ gone, <)
    IN  [i \in DOMAIN kept |-> t[kept[i]]]

Edit(old, new) == [kind |-> "str_replace", old |-> old, new |-> new]
Rewrite == [kind |-> "rewrite_page"]
Joined == [kind |-> "hyphens"]

\* what a reader of the ledger makes of it
Redo(t, e) == IF e.kind = "str_replace" THEN ReplaceOnce(t, e.old, e.new) ELSE t
Replay(t, entries) ==
    LET after[n \in 0..Len(entries)] ==
            IF n = 0 THEN t ELSE Redo(after[n - 1], entries[n])
    IN  after[Len(entries)]

(***************************************************************************)
(* One agent.                                                              *)
(***************************************************************************)
NoCall == [at |-> "none"]
Calls(w) == {s \in Slots : call[w][s] # NoCall}
Idle(w) == agent[w] = "running" /\ Calls(w) = {}

Starts(w, t) ==
    /\ agent' = [agent EXCEPT ![w] = "running"]
    /\ base' = [base EXCEPT ![w] = t]
    /\ text' = [text EXCEPT ![w] = t]
    /\ UNCHANGED <<call, asks>>

StartPage(p) ==
    /\ agent[p] = "queued"
    /\ Cardinality({q \in Pages : agent[q] = "running"}) < Parallel
    /\ Starts(p, Original[p])
    /\ UNCHANGED <<changes, outcome, history>>

Replacements == {<<>>} \cup {<<x>> : x \in Words}
EditCalls == {[at |-> "check", old |-> o, new |-> n] : o \in Words, n \in Replacements}
RewriteCalls(w) == IF w \in Posters THEN {[at |-> "rewrite", new |-> <<x>>] : x \in Words} ELSE {}
HelperCalls(w) == IF w \in Pages THEN {[at |-> "ask", helper |-> h] : h \in Helped[w]} ELSE {}
ToolCalls(w) == EditCalls \cup RewriteCalls(w) \cup HelperCalls(w)

\* the model answers with one or two calls
Answer(w) ==
    /\ Idle(w)
    /\ \E first \in ToolCalls(w), second \in ToolCalls(w) \cup {NoCall} :
        LET n == IF second = NoCall THEN 1 ELSE 2 IN
        /\ calls + n <= MaxCalls /\ calls' = calls + n
        /\ call' = [call EXCEPT ![w] = <<first, second>>]
        /\ together' = IF n = 2 /\ {first.at, second.at} \cap {"ask"} = {}
                       THEN together \cup {w} ELSE together
    /\ UNCHANGED <<agent, base, text, changes, asks, outcome, failures>>

CallGoes(w, s, c) == call' = [call EXCEPT ![w][s] = c]

Unique(t, old) == Cardinality(Occurrences(t, old)) = 1

\* count: an old_text that is absent or ambiguous is reported to the model
CheckEdit(w, s) ==
    LET c == call[w][s] IN
    /\ c.at = "check"
    /\ CallGoes(w, s, IF Unique(text[w], c.old)
                      THEN [at |-> "store", old |-> c.old, new |-> c.new, read |-> text[w]]
                      ELSE NoCall)
    /\ UNCHANGED <<agent, base, text, changes, asks, outcome, history>>

\* the text is read again, replaced and assigned, while other threads do the same
Reread(w, s) ==
    LET c == call[w][s] IN
    /\ c.at = "store" /\ c.read # text[w]
    /\ CallGoes(w, s, [c EXCEPT !.read = text[w]])
    /\ UNCHANGED <<agent, base, text, changes, asks, outcome, history>>

StoreEdit(w, s) ==
    LET c == call[w][s] IN
    /\ c.at = "store"
    /\ text' = [text EXCEPT ![w] = ReplaceOnce(c.read, c.old, c.new)]
    /\ CallGoes(w, s, [at |-> "append", entry |-> Edit(c.old, c.new)])
    /\ UNCHANGED <<agent, base, changes, asks, outcome, history>>

\* the ledger of a rewrite holds two hundred characters of either text
StoreRewrite(w, s) ==
    LET c == call[w][s] IN
    /\ c.at = "rewrite"
    /\ text' = [text EXCEPT ![w] = c.new]
    /\ CallGoes(w, s, [at |-> "append", entry |-> Rewrite])
    /\ UNCHANGED <<agent, base, changes, asks, outcome, history>>

AppendChange(w, s) ==
    LET c == call[w][s] IN
    /\ c.at = "append"
    /\ changes' = [changes EXCEPT ![w] = Append(@, c.entry)]
    /\ CallGoes(w, s, NoCall)
    /\ UNCHANGED <<agent, base, text, asks, outcome, history>>

\* A helper asks another model and returns its text to the agent. Past the
\* limit it refuses, and so it does, after counting, for a reference or a list
\* that is not on the page.
AskHelper(w, s) ==
    LET h == call[w][s].helper IN
    /\ call[w][s].at = "ask"
    /\ IF asks[w][h] >= Limit[h] THEN CallGoes(w, s, NoCall) /\ UNCHANGED asks
       ELSE /\ asks' = [asks EXCEPT ![w][h] = @ + 1]
            /\ \/ CallGoes(w, s, [at |-> "model", helper |-> h])
               \/ CallGoes(w, s, NoCall)
    /\ UNCHANGED <<agent, base, text, changes, outcome, together, calls, failures>>

\* the model answers or fails; either way the agent gets a text
HelperAnswers(w, s) ==
    /\ call[w][s].at = "model"
    /\ CallGoes(w, s, NoCall)
    /\ UNCHANGED <<agent, base, text, changes, asks, outcome, history>>

CallStep(w, s) ==
    \/ CheckEdit(w, s) \/ Reread(w, s) \/ StoreEdit(w, s) \/ StoreRewrite(w, s)
    \/ AppendChange(w, s) \/ AskHelper(w, s) \/ HelperAnswers(w, s)

AgentEnds(w) ==
    /\ Idle(w)
    /\ \/ agent' = [agent EXCEPT ![w] = "done"] /\ UNCHANGED failures
       \/ /\ failures < MaxFailures /\ failures' = failures + 1
          /\ agent' = [agent EXCEPT ![w] = "failed"]
    /\ UNCHANGED <<base, text, changes, call, asks, outcome, together, calls>>

(***************************************************************************)
(* The steps around the agents.                                            *)
(***************************************************************************)
PagesEnded == \A p \in Pages : agent[p] \in {"done", "failed"}

\* a page whose agent failed keeps its original text, and its edits are dropped
MutantKept(p) == changes[p]
Kept(p) == IF agent[p] = "done" THEN changes[p] ELSE <<>>
Corrected(p) == IF agent[p] = "done" THEN text[p] ELSE Original[p]

Concat(f) == FoldLeft(LAMBDA s, p : s \o f[p], <<>>, [p \in Pages |-> p])

CollectPages ==
    /\ PagesEnded /\ versions["v1"] = <<>>
    /\ versions' = [versions EXCEPT !["v1"] = <<Join([p \in Pages |-> Corrected(p)])>>]
    /\ step' = [step EXCEPT !["page_content"] = Concat([p \in Pages |-> Kept(p)])]
    /\ UNCHANGED <<edits, ledger, response, history>>

StartBoundary ==
    /\ versions["v1"] # <<>> /\ agent[boundary] = "queued"
    /\ LET source == versions["v1"][1]
           joined == HyphenJoin(source) IN
       /\ IF Cardinality(Pages) > 1 THEN Starts(boundary, joined)
          ELSE /\ agent' = [agent EXCEPT ![boundary] = "skipped"]
               /\ text' = [text EXCEPT ![boundary] = joined]
               /\ UNCHANGED <<base, call, asks>>
       /\ step' = [step EXCEPT !["boundaries"] = IF joined # source THEN <<Joined>> ELSE <<>>]
    /\ UNCHANGED <<changes, versions, ledger, response, history>>

Ended(w) == agent[w] \in {"done", "failed", "skipped"}

\* the footnote agent continues with the document as the boundary agent left it
MutantHandedOn == base[boundary]
HandedOn == text[boundary]

StartFootnotes ==
    /\ Ended(boundary) /\ agent[footnote] = "queued"
    /\ \/ Starts(footnote, HandedOn)
       \/ /\ agent' = [agent EXCEPT ![footnote] = "skipped"]
          /\ text' = [text EXCEPT ![footnote] = HandedOn]
          /\ UNCHANGED <<base, call, asks>>
    /\ UNCHANGED <<changes, outcome, history>>

\* an agent that failed leaves the edits it made, and their record
CollectDocument ==
    /\ Ended(footnote) /\ versions["v2"] = <<>>
    /\ versions' = [versions EXCEPT !["v2"] = <<text[footnote]>>]
    /\ step' = [step EXCEPT !["boundaries"] = @ \o changes[boundary] \o changes[footnote]]
    /\ UNCHANGED <<edits, ledger, response, history>>

AllChanges == step["page_content"] \o step["boundaries"]

StoreLedger ==
    /\ versions["v2"] # <<>> /\ ledger = None
    /\ ledger' = [steps |-> step, total_edits |-> Len(AllChanges)]
    /\ UNCHANGED <<edits, versions, step, response, history>>

\* the endpoint groups the "entries" of the stored object by page
EntriesOf(object) == IF "entries" \in DOMAIN object THEN object.entries ELSE <<>>

GetLedger ==
    /\ ledger # None /\ response = None
    /\ response' = [entries |-> EntriesOf(ledger), total_edits |-> ledger.total_edits]
    /\ UNCHANGED <<edits, versions, step, ledger, history>>

-----------------------------------------------------------------------------
Init ==
    /\ agent = [w \in Agents |-> "queued"]
    /\ base = [w \in Agents |-> <<>>] /\ text = [w \in Agents |-> <<>>]
    /\ changes = [w \in Agents |-> <<>>]
    /\ call = [w \in Agents |-> [s \in Slots |-> NoCall]]
    /\ asks = [w \in Agents |-> [h \in Helpers |-> 0]]
    /\ versions = [v \in {"v1", "v2"} |-> <<>>]
    /\ step = [n \in {"page_content", "boundaries"} |-> <<>>]
    /\ ledger = None /\ response = None
    /\ together = {} /\ calls = 0 /\ failures = 0

AgentNext(w) == Answer(w) \/ (\E s \in Slots : CallStep(w, s)) \/ AgentEnds(w)
StepNext == CollectPages \/ StartBoundary \/ StartFootnotes \/ CollectDocument
            \/ StoreLedger \/ GetLedger

Next == (\E p \in Pages : StartPage(p)) \/ (\E w \in Agents : AgentNext(w)) \/ StepNext

Spec == Init /\ [][Next]_vars

-----------------------------------------------------------------------------
(* Replaying the recorded edits of a page over its v0 gives its v1, for a  *)
(* page whose agent failed too: unless two edits ran at once, or the page  *)
(* was rewritten as a whole.                                               *)
Exact(w) == w \notin together /\ \A i \in DOMAIN changes[w] : changes[w][i] # Rewrite
PagesReplay == versions["v1"] # <<>> /\ (\A p \in Pages : Exact(p)) =>
    versions["v1"][1] = Join([p \in Pages |-> Replay(Original[p], Kept(p))])

(* The same for the document: its hyphens joined, and the recorded edits   *)
(* of both agents replayed over v1, give v2, also when an agent failed.    *)
DocumentReplays == versions["v2"] # <<>> /\ (\A w \in Documents : Exact(w)) =>
    versions["v2"][1] = Replay(HyphenJoin(versions["v1"][1]), step["boundaries"])
=============================================================================
