------------------------------- MODULE Commands -------------------------------
(* What a shell command of an agent may do without being asked about: the      *)
(* judgement of agent/readonly_kind.go with its tables for git, the package    *)
(* runners and go, the segments shown on the card (shell_segments.go) and the  *)
(* recipes by which a decision is remembered (shell_recipe.go).                *)
(*                                                                             *)
(* A command is a sequence of segments. A segment is its words without         *)
(* wrappers and assignments, which are skipped (baseCommandName has made the   *)
(* first word bare and small) and without what stripDataLiterals takes out,    *)
(* quoted texts and script blocks, together with what the texts of the command *)
(* show besides: where its output goes, what stands between quotes, and        *)
(* whether another command is substituted. The functions are pure; the module  *)
(* is a machine only in that it takes one command after the other.             *)
(*                                                                             *)
(* Some texts are not read at all: backticks between double quotes are erased  *)
(* as data, of a script block or the code of an interpreter only the unsafe    *)
(* words are searched, and a flag counts only when it is the whole word. What  *)
(* such a segment does is hidden from every table here.                        *)
EXTENDS Naturals, Sequences, SequencesExt, FiniteSetsExt

CONSTANTS
    Segments,       \* segments that commands are made of, each with its effect
    MaxSegments     \* bound: segments of a command

Kinds == {"read", "edit", "execute", "delete"}

\* What a segment does when it runs: nothing, something that git or a new build
\* takes back, a loss, or something outside the worktree.
Effects == {"none", "local", "lossy", "outside"}

CommandsAssumption ==
    /\ MaxSegments \in Nat \ {0}
    /\ \A s \in Segments : /\ s.words \in Seq(STRING) \ {<<>>} /\ s.effect \in Effects
                           /\ s.output \in {"shown", "merged", "discarded", "file"}
                           /\ s.quoted \in {"no", "plain", "unsafe", "separator"}
                           /\ s.substitutes \in {"no", "bare", "quoted"}
                           /\ s.hides \in BOOLEAN

VARIABLE command        \* the command that is asked about
VARIABLE trusted        \* recipes that the user made trusted with the last decision

commandVars == <<command, trusted>>

None == [ok |-> FALSE, kind |-> "execute"]
Some(k) == [ok |-> TRUE, kind |-> k]

Has(words, set) == ToSet(words) \cap set # {}
IsFlag(w) == w \in {"-v", "-l", "-n", "-d", "-D", "-f", "-i", "-o", "-u", "-e", "-g", "-C", "--hard",
                    "--get", "--global", "--oneline", "--update", "-exec", "-delete", "--no-pager",
                    "--watch", "-rf"}
Plain(words) == FlattenSeq([i \in DOMAIN words |-> IF IsFlag(words[i]) THEN <<>> ELSE <<words[i]>>])
Args(seg) == Tail(seg.words)

------------------------------------------------------------------------------
(* The tables. A name that is in none of them may do anything.                 *)

\* readonlyCommands: the writing flags of a reader. The cmdlets of PowerShell
\* and most others have none.
WriteFlags ==
    [c \in {"ls", "cat", "echo", "grep", "cd", "netstat", "get-content", "select-string",
         "foreach-object"} |-> {}]
    @@ [c \in {"sort", "cut"} |-> {"-o", "--output"}]
    @@ [c \in {"sed", "awk"} |-> {"-i", "--in-place"}]
    @@ ("find" :> {"-delete", "-exec", "-execdir", "-ok", "-okdir", "-fprint", "-fprint0", "-fls"})

\* The names that a table knows, by their kind.
Known(table, name) == \E k \in DOMAIN table : name \in table[k]
KindIn(table, name) == CHOOSE k \in DOMAIN table : name \in table[k]

\* gitRiskKinds.
GitBase ==
    [read    |-> {"status", "log", "diff", "show", "blame", "grep", "rev-parse", "ls-files",
                  "merge-base", "show-ref", "branch", "tag", "remote", "stash", "config",
                  "worktree", "fetch"},
     edit    |-> {"add", "commit", "merge", "mv", "switch", "apply", "cherry-pick", "revert", "am"},
     execute |-> {"push", "pull", "clone", "init", "submodule", "lfs", "gc", "prune"},
     delete  |-> {"clean", "reset", "filter-branch"}]

\* gitDangerousFlags.
GitDangerous(sub) ==
    CASE sub = "reset"    -> {"--hard", "--merge", "--keep"}
      [] sub = "clean"    -> {"-f", "-fd", "-fdx", "--force"}
      [] sub = "branch"   -> {"-D", "--delete", "-d", "-m", "-M", "--move"}
      [] sub = "tag"      -> {"-d", "--delete"}
      [] sub = "push"     -> {"--force", "-f", "--force-with-lease", "--delete", "-d", "--mirror", "--all"}
      [] sub = "stash"    -> {"drop", "clear"}
      [] sub = "config"   -> {"--global", "--system", "--unset", "--add", "--replace-all"}
      [] sub = "worktree" -> {"remove", "prune"}
      [] OTHER            -> {}

\* scriptKinds and npxSubKinds; runnerDangerous.
ScriptKinds == [read |-> {"test", "vitest", "jest", "tsc", "lint", "check"},
                edit |-> {"build", "compile"}]
NpxKinds == [read |-> {"vitest", "tsc", "eslint", "playwright"}, edit |-> {"vite"}]
RunnerDangerous == {"install", "i", "add", "remove", "rm", "update", "ci", "publish", "audit", "exec",
                    "-g", "--watch", "-D"}

\* unsafeTextTokens, as far as a first word can be one.
UnsafeVerbs == {"remove-item", "out-file", "set-content", "copy-item", "stop-process", "taskkill",
                "invoke-webrequest", "icacls", "shutdown"}
Deleting == {"remove-item", "clear-content"}

------------------------------------------------------------------------------
(* One segment.                                                                *)

\* splitGitSubcommand: options before the subcommand, with their values.
GitWords(args) ==
    IF args # <<>> /\ Head(args) = "-C" /\ Len(args) > 1 THEN SubSeq(args, 3, Len(args))
    ELSE IF args # <<>> /\ Head(args) = "--no-pager" THEN Tail(args) ELSE args

\* gitKindForParamSensitive.
ParamKind(sub, rest) ==
    LET plain == Plain(rest)
        verb  == IF plain = <<>> THEN "" ELSE Head(plain)
    IN  CASE sub = "stash" ->
                IF verb \in {"list", "show"} THEN Some("read")
                ELSE IF verb \in {"", "push", "save", "pop", "apply", "branch", "create"} THEN Some("edit")
                ELSE IF verb \in {"drop", "clear"} THEN Some("delete") ELSE None
          [] sub = "remote" ->
                IF verb \in {"", "show", "get-url"} THEN Some("read")
                ELSE IF verb \in {"add", "remove", "rm", "rename", "set-url"} THEN Some("execute") ELSE None
          [] sub = "config" ->
                IF Has(rest, {"--get", "--list", "-l", "--get-all"}) THEN Some("read")
                ELSE IF Len(plain) >= 2 THEN Some("edit")
                ELSE IF Len(plain) = 1 THEN Some("read") ELSE None
          [] sub = "worktree" ->
                IF verb \in {"", "list"} THEN Some("read")
                ELSE IF verb \in {"add", "move", "repair", "lock", "unlock"} THEN Some("edit") ELSE None
          [] OTHER -> IF verb = "" THEN Some("read") ELSE Some("edit")

\* gitKindFor. A subcommand that is in no table (checkout, restore, rebase) is
\* left to the user.
GitKind(args) ==
    LET words == GitWords(args)
        sub == Head(words)
        rest == Tail(words)
    IN  IF words = <<>> THEN None
        ELSE IF IsFlag(sub) \/ ~Known(GitBase, sub) THEN None
        ELSE IF Has(rest, GitDangerous(sub)) THEN Some("delete")
        ELSE IF sub \in {"branch", "tag", "remote", "stash", "config", "worktree"} THEN ParamKind(sub, rest)
        ELSE Some(KindIn(GitBase, sub))

\* npmLikeKindFor, for npm and pnpm.
NpmKind(args) ==
    LET plain == Plain(args)
    IN  IF args = <<>> \/ Has(args, RunnerDangerous) THEN None
        ELSE IF Len(args) >= 2 /\ args[1] \in {"run", "run-script"}
             THEN IF Known(ScriptKinds, args[2]) THEN Some(KindIn(ScriptKinds, args[2])) ELSE None
        ELSE IF plain \in {<<"test">>, <<"t">>} THEN Some("read") ELSE None

\* npxKindFor.
NpxKind(args) ==
    LET plain == Plain(args)
    IN  IF plain = <<>> \/ Has(args, RunnerDangerous) \/ ~Known(NpxKinds, Head(plain)) THEN None
        ELSE IF Head(plain) \in {"vitest", "jest", "playwright"} /\ Has(args, {"--update", "-u"}) THEN None
        ELSE Some(KindIn(NpxKinds, Head(plain)))

\* goKindFor and goModKindFor.
GoKind(args) ==
    IF args = <<>> THEN None
    ELSE CASE Head(args) \in {"test", "vet", "list", "env", "version", "doc"} ->
                  IF Head(args) = "test" /\ Has(args, {"-exec"}) THEN None ELSE Some("read")
           [] Head(args) \in {"build", "generate", "fmt"} -> Some("edit")
           [] Head(args) = "mod" -> IF Len(args) > 1 /\ args[2] \in {"graph", "why", "verify"}
                                    THEN Some("read") ELSE None
           [] OTHER -> None

\* isReadonlySegment.
IsReadonly(seg) ==
    Head(seg.words) \in DOMAIN WriteFlags /\ ~Has(Args(seg), WriteFlags[Head(seg.words)])

\* segmentKind: the first table that knows the name decides. An interpreter with
\* code in quotes is none of them.
SegmentKind(seg) ==
    LET name == Head(seg.words)
        of(k) == IF k.ok THEN k.kind ELSE "execute"
    IN  CASE name = "git"            -> of(GitKind(Args(seg)))
          [] name \in {"npm", "pnpm"} -> of(NpmKind(Args(seg)))
          [] name = "npx"            -> of(NpxKind(Args(seg)))
          [] name = "go"             -> of(GoKind(Args(seg)))
          [] OTHER                   -> IF IsReadonly(seg) THEN "read" ELSE "execute"

------------------------------------------------------------------------------
(* A whole command.                                                            *)

Severity == [k \in Kinds |-> CASE k = "read" -> 0 [] k = "edit" -> 1
                               [] k = "execute" -> 2 [] k = "delete" -> 3]
Worse(a, b) == IF Severity[b] > Severity[a] THEN b ELSE a
WorseWith(worst, seg) == Worse(worst, SegmentKind(seg))

\* hasUnsafeRedirection: backticks between double quotes are erased before the
\* search for a substitution.
UnsafeRedirection(c) == \E i \in DOMAIN c : c[i].output = "file" \/ c[i].substitutes = "bare"

\* permissionReqHasUnsafeText. The text is searched with what stands in quotes;
\* ">/dev/" is one of its tokens.
UnsafeText(c) ==
    \/ UnsafeRedirection(c)
    \/ \E i \in DOMAIN c : \/ Head(c[i].words) \in UnsafeVerbs \/ c[i].quoted = "unsafe"
                           \/ c[i].output = "discarded" \/ c[i].words = <<"rm", "-rf", "x">>

\* inlineScriptOnly: one interpreter with its code.
InlineOnly(c) == Len(c) = 1 /\ Head(c[1].words) \in {"node", "python"} /\ Has(Args(c[1]), {"-e", "-c"})

\* As ClassifyShellCommand, with the kind of the last segment.
LastKind(c) ==
    IF c = <<>> \/ UnsafeText(c) THEN None
    ELSE IF InlineOnly(c) THEN Some("read") ELSE Some(SegmentKind(Last(c)))

\* ClassifyShellCommand: the worst of the segments.
Classify(c) ==
    IF c = <<>> \/ UnsafeText(c) THEN None
    ELSE IF InlineOnly(c) THEN Some("read")
    ELSE Some(FoldLeft(WorseWith, "read", c))

\* DowngradeReadonlyPermission, for a call that was reported as "execute" with the
\* text of a command: only ever to a milder kind. DowngradeReadonlyToolKind comes
\* after it and finds nothing more, as Classify refuses no less than it does.
Downgrade(c) ==
    IF UnsafeText(c) \/ ~Classify(c).ok THEN "execute"
    ELSE IF Severity[Classify(c).kind] < Severity["execute"] THEN Classify(c).kind ELSE "execute"

\* segmentDisplayKind: what the card says of a segment. A separator in quotes
\* splits the card's segment, and the rest is no command that anybody knows.
DisplayKind(seg) ==
    IF UnsafeText(<<seg>>)
    THEN IF Head(seg.words) \in Deleting \/ seg.words = <<"rm", "-rf", "x">> THEN "delete" ELSE "execute"
    ELSE SegmentKind(seg)

\* ClassifyShellSegments.
Displayed(c) ==
    [i \in DOMAIN c |-> DisplayKind(c[i])]
    \o (IF \E i \in DOMAIN c : c[i].quoted = "separator" THEN <<"execute">> ELSE <<>>)

------------------------------------------------------------------------------
(* Recipes: the family and the verb of a segment.                              *)

\* recipeForSegment, gitRecipe, npmLikeRecipe, npxRecipe, goSubcommand.
Recipe(seg) ==
    LET name == Head(seg.words)
        args == Args(seg)
        plain == Plain(IF name = "git" THEN GitWords(args) ELSE args)
        upTo(s, n) == SubSeq(s, 1, IF Len(s) < n THEN Len(s) ELSE n)
    IN  CASE name = "go" -> <<"go">> \o upTo(plain, IF plain # <<>> /\ plain[1] = "mod" THEN 2 ELSE 1)
          [] name \in {"npm", "pnpm"} /\ Len(args) >= 2 /\ args[1] \in {"run", "run-script"} ->
                 <<name, "run", args[2]>>
          [] name \in {"git", "npm", "pnpm", "npx"} -> <<name>> \o upTo(plain, 1)
          [] OTHER -> <<name>>

Recipes(c) == {Recipe(c[i]) : i \in DOMAIN c}

\* recipeHardDenyExact, recipeHardDenyPrefix and the search for unsafe text.
HardDeny == {<<v>> : v \in UnsafeVerbs \cup {"rm", "npx"}}
            \cup ({"git"} \X {"push", "pull", "clone", "reset", "clean", "submodule", "rebase"})
            \cup ({"npm", "pnpm"} \X {"install", "i", "add", "publish"}) \cup ({"go"} \X {"get", "install", "run", "clean"})
            \cup ({"go"} \X {"mod"} \X {"tidy", "download", "vendor", "edit"})
Rememberable(r) == ~\E bad \in HardDeny : IsPrefix(bad, r)

\* normalizeOneTrustedRecipe: a recipe is taken from a command of one kind of
\* segment, and a recipe is a command itself.
Normalized(c) ==
    IF \E r \in Recipes(c) : Recipes(c) = {r} /\ Rememberable(r) THEN Recipes(c) ELSE {}
AsSegment(r) == [words |-> r, output |-> "shown", quoted |-> "no", substitutes |-> "no", hides |-> FALSE,
                effect |-> "none"]

------------------------------------------------------------------------------
TypeOK == command \in SeqOf(Segments, MaxSegments) /\ \A r \in trusted : r # <<>>

Init == command = <<>> /\ trusted = {}

\* An agent asks for permission for a command.
Ask(c) ==
    /\ command = <<>> /\ command' = c
    /\ trusted' = {}

\* The decision; the settings page may save the recipe of the command.
Decided(saved) ==
    /\ command # <<>> /\ command' = <<>>
    /\ trusted' = IF saved THEN Normalized(command) ELSE {}

Next == (\E c \in SeqOf(Segments, MaxSegments) \ {<<>>} : Ask(c)) \/ \E saved \in BOOLEAN : Decided(saved)

Spec == Init /\ [][Next]_commandVars

\* No command is taken for milder than any of its segments would be if it were
\* asked about alone: nothing is smuggled in by what stands beside it
\* (ClassifyShellCommand in readonly_kind.go takes the worst of all segments).
NoMilderThanItsParts ==
    \A i \in DOMAIN command :
        /\ Downgrade(command) # "execute" => Downgrade(<<command[i]>>) # "execute"
        /\ Downgrade(command) = "read" => Downgrade(<<command[i]>>) = "read"

\* No command is taken for milder than what any open part of it does: what is
\* judged "read" changes nothing, what is judged "edit" can be taken back,
\* whichever segment comes last, whatever table its segments are in and whatever
\* hides beside them (ClassifyShellCommand and DowngradeReadonlyPermission in
\* readonly_kind.go, git_kind.go).
JudgedByItsWorst ==
    \A i \in DOMAIN command : ~command[i].hides =>
        /\ Downgrade(command) = "read" => command[i].effect = "none"
        /\ Downgrade(command) = "edit" => command[i].effect \in {"none", "local"}

\* A command in which another is substituted is never let pass (the comment of
\* hasUnsafeRedirection at readonly_kind.go:167): it is, between double quotes.
SubstitutionIsRefused ==
    \A i \in DOMAIN command : command[i].substitutes # "no" => Downgrade(command) = "execute"

\* What can be proved to read only is let pass, and what cannot is not (the head of
\* readonly_kind.go): no part may hide what it does.
NothingIsHidden ==
    \A i \in DOMAIN command : Downgrade(command) = "read" => command[i].effect = "none"

\* The card of a command that needs the user shows at least one segment that
\* needs the user, and that of one that does not need him shows none, unless a
\* separator stands in quotes (shell_segments.go, readonly_kind.go).
CardTellsWhy ==
    (command # <<>> /\ ~InlineOnly(command)) =>
        /\ Downgrade(command) = "execute" => Has(Displayed(command), {"execute", "delete"})
        /\ (Downgrade(command) # "execute" /\ \A i \in DOMAIN command : command[i].quoted # "separator")
               => ~Has(Displayed(command), {"execute", "delete"})

\* A recipe that was saved is one that can be saved again (normalizeOneTrustedRecipe
\* in shell_recipe.go: the list is checked whenever the settings are written).
RecipesAreStable == \A r \in trusted : Normalized(<<AsSegment(r)>>) = {r}

\* What JudgedByItsWorst and RecipesAreStable say of a command that is one segment.
JudgedAlone(s) ==
    /\ (~UnsafeText(<<s>>) /\ ~s.hides) =>
           /\ (InlineOnly(<<s>>) \/ SegmentKind(s) = "read") => s.effect = "none"
           /\ SegmentKind(s) = "edit" => s.effect \in {"none", "local"}
    /\ Rememberable(Recipe(s)) => Recipe(AsSegment(Recipe(s))) = Recipe(s)

\* All of these, of any command that an agent may ask to run.
CommandsAreJudged ==
    NoMilderThanItsParts /\ JudgedByItsWorst /\ CardTellsWhy /\ RecipesAreStable

\* Output that is thrown away does not make a reader a writer (the comment of
\* hasUnsafeRedirection in readonly_kind.go).
DiscardedIsHarmless ==
    (command # <<>> /\ \A i \in DOMAIN command :
        /\ IsReadonly(command[i]) /\ command[i].output # "file"
        /\ command[i].quoted # "unsafe" /\ command[i].substitutes = "no")
    => Downgrade(command) = "read"
===============================================================================
