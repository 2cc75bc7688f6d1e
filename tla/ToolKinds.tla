------------------------------ MODULE ToolKinds ------------------------------
(* What the name and the arguments of a tool say of a request for permission   *)
(* (agent/toolkind_map.go, noncommand_tool.go), and which of the options that  *)
(* came with it is taken for an answer (agent/perm_kind.go). The text of a     *)
(* shell command is judged afterwards, by Commands, and only when the kind is  *)
(* "execute" by then. The functions are pure: the machine takes one request    *)
(* after the other.                                                            *)
EXTENDS Naturals, Sequences, SequencesExt, FiniteSetsExt

CONSTANTS
    Calls,          \* requests: the tool, what the agent says of it, its arguments
    Offers,         \* options that may come with a request
    MaxOffers       \* bound: options of a request

\* An argument is a field of a query, one that names a change, one nobody knows,
\* a query whose text asks for a change, or a nested object.
Fields == {"query", "verb", "unknown", "asksChange", "nested"}

ToolKindsAssumption ==
    /\ MaxOffers \in Nat
    /\ \A t \in Calls : t.fields \subseteq Fields /\ t.changes \in BOOLEAN
    /\ \A o \in Offers : o.means \in {"allow", "reject", "neither"}

VARIABLES
    call,           \* the request at hand
    kind,           \* its kind, once judged
    options,        \* what it offers
    answer          \* the options taken for "allow" and for "reject"

toolVars == <<call, kind, options, answer>>

NoCall == [agent |-> "none", tool |-> "none"]
NoOption == "none"
Light == {"read", "search", "fetch", "think"}

------------------------------------------------------------------------------
(* The tables, by name. Claude's are the meaning the others are held to; dsh   *)
(* writes small letters; qoder's names carry arguments, of which the first     *)
(* word is taken, and the first word of a shell command is in no table.        *)

ClaudeKinds(tool) ==
    CASE tool \in {"Bash", "PowerShell"}                        -> "execute"
      [] tool \in {"Edit", "Write", "MultiEdit", "NotebookEdit"} -> "edit"
      [] tool \in {"Move", "Rename"}                            -> "move"
      [] tool = "Delete"                                        -> "delete"
      [] tool = "Read"                                          -> "read"
      [] tool \in {"Grep", "Glob"}                              -> "search"
      [] tool \in {"WebFetch", "WebSearch"}                     -> "fetch"
      [] tool \in {"Task", "Agent"}                             -> "think"
      [] OTHER                                                  -> ""

DshKinds(tool) ==
    CASE tool = "pwsh"                        -> "execute"
      [] tool = "read"                        -> "read"
      [] tool \in {"grep", "glob"}            -> "search"
      [] tool \in {"web_fetch", "web_search"} -> "fetch"
      [] tool \in {"edit", "write"}           -> "edit"
      [] OTHER                                -> ""

QoderKinds(tool) ==
    CASE tool = "Read"                       -> "read"
      [] tool \in {"Grep", "Glob", "Search"} -> "search"
      [] tool = "Fetch"                      -> "fetch"
      [] tool \in {"Edit", "Write"}          -> "edit"
      [] OTHER                               -> ""

\* normalizeAgentType and toolKindFor: "" leaves the kind as it was reported.
KindFor(agent, tool) ==
    CASE agent = "dsh"                       -> DshKinds(tool)
      [] agent \in {"qoder", "qodercli"}     -> QoderKinds(tool)
      [] agent \in {"claude", "claude-code"} -> ClaudeKinds(tool)
      [] OTHER                               -> ""

\* nonCommandReadonlyTools: tools without a command. A name with a verb of
\* change is refused although it is listed.
Queries == {"lsp", "lsp_hover", "lsp_rename", "definition", "references", "symbols", "diagnostics",
            "job_output", "job_list", "todo_write", "get_goal", "list_skills", "skill"}
NamesChange == {"lsp_rename", "job_kill", "edit"}

\* As IsQuery, for some argument instead of all.
HasQuery(t) == t.tool \in Queries \ NamesChange /\ "query" \in t.fields

\* NonCommandToolKind: every argument must be known as a part of a query.
IsQuery(t) == t.tool \in Queries \ NamesChange /\ t.fields \subseteq {"query"}

\* applyToolKindFix.
Fixed(t) ==
    IF KindFor(t.agent, t.tool) # "" THEN KindFor(t.agent, t.tool)
    ELSE IF t.agent = "dsh" /\ IsQuery(t) THEN "read" ELSE t.reported

------------------------------------------------------------------------------
(* Options. Kinds have been normalised (NormalizePermissionKind).              *)

\* pickByNormalizedKind: the first of that kind.
First(list, Test(_)) ==
    LET hits == {i \in DOMAIN list : Test(list[i])}
    IN  IF hits = {} THEN NoOption ELSE list[Min(hits)].id

OfKind(list, k) == First(list, LAMBDA o : o.kind = k)

\* PickAllowOptionID and PickRejectOptionID: "once" before "always", and by the
\* name only if the agent gave no kinds at all.
NoKinds(list) == list # <<>> /\ \A i \in DOMAIN list : list[i].kind = ""
Pick(list, once, always, Named(_)) ==
    IF OfKind(list, once) # NoOption THEN OfKind(list, once)
    ELSE IF OfKind(list, always) # NoOption THEN OfKind(list, always)
    ELSE IF NoKinds(list) THEN First(list, Named) ELSE NoOption

SoundsLikeAllow(o) == "allow" \in o.named /\ o.named \cap {"reject", "deny"} = {}
SoundsLikeReject(o) == o.named \cap {"reject", "deny", "cancel"} # {}

PickAllow(list) == Pick(list, "allow_once", "allow_always", SoundsLikeAllow)
PickReject(list) == Pick(list, "reject_once", "reject_always", SoundsLikeReject)

------------------------------------------------------------------------------
TypeOK ==
    /\ call \in Calls \cup {NoCall} /\ options \in SeqOf(Offers, MaxOffers)
    /\ \A side \in {"allow", "reject"} : answer[side] \in {o.id : o \in Offers} \cup {NoOption}

Init ==
    /\ call = NoCall /\ kind = "none" /\ options = <<>>
    /\ answer = [allow |-> NoOption, reject |-> NoOption]

\* A request comes with its tool and is judged.
Judge(t) ==
    /\ call = NoCall
    /\ call' = t /\ kind' = Fixed(t)
    /\ options' = <<>> /\ answer' = [allow |-> NoOption, reject |-> NoOption]

\* Somebody, or a rule, answers it; without an option to take it is cancelled.
Answer(list) ==
    /\ call # NoCall
    /\ call' = NoCall /\ kind' = "none" /\ options' = list
    /\ answer' = [allow |-> PickAllow(list), reject |-> PickReject(list)]

Next == (\E t \in Calls : Judge(t)) \/ (\E list \in SeqOf(Offers, MaxOffers) : Answer(list))

Spec == Init /\ [][Next]_toolVars

\* A tool that changes something is not let pass as a query, whatever its agent
\* calls it and whatever else its arguments are (applyToolKindFix,
\* NonCommandToolKind).
ChangesAreNoQueries == (call # NoCall /\ call.changes /\ call.reported \notin Light) => kind \notin Light

\* "allow" never takes an option that means no, nor "reject" one that means yes,
\* and one that is good for once is taken before one that is good for ever
\* (PickAllowOptionID, PickRejectOptionID).
AnswerMeansWhatItSays ==
    \A i \in DOMAIN options :
        /\ options[i].id = answer.allow => options[i].means = "allow"
        /\ options[i].id = answer.reject => options[i].means = "reject"
        /\ (options[i].kind = "allow_once") =>
               \E j \in DOMAIN options : options[j].id = answer.allow /\ options[j].kind = "allow_once"

RequestsAreUnderstood == ChangesAreNoQueries /\ AnswerMeansWhatItSays
===============================================================================
