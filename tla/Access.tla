-------------------------------- MODULE Access --------------------------------
(* Who is let in (auth/middleware.go): where a request comes from              *)
(* (auth/auth.go), the assertions of Cloudflare Access with the keys they are  *)
(* checked against (auth/access.go), the token of the tunnel's link            *)
(* (auth/token.go) and the limiter of bad guesses (auth/ratelimit.go). Many    *)
(* requests are under way at a time, and the keys are fetched without a lock.  *)
EXTENDS Naturals, Sequences

CONSTANTS
    Visitors,       \* clients, each with an address of its own
    Guessers,       \* those who send tokens that never were one
    MaxKeys,        \* bound: signing keys of the team, one after the other
    MaxLinks,       \* bound: tokens given out, one after the other
    MaxFailures     \* bad guesses that close the door

AccessAssumption ==
    /\ Guessers \subseteq Visitors /\ MaxKeys \in Nat \ {0} /\ MaxLinks \in Nat
    /\ MaxFailures \in Nat \ {0}

VARIABLES
    accessOn,       \* an access verifier is configured
    published,      \* the key the team signs with now
    keys,           \* the keys in the cache
    fetched,        \* age of the cache: never, fresh or stale
    attempted,      \* the last fetch: near or far back
    given,          \* tokens given out so far
    live,           \* those still good
    failures,       \* bad guesses of the last minute
    blocked,        \* addresses on the black list
    request         \* the request of each visitor that is under way

accessVars == <<accessOn, published, keys, fetched, attempted, given, live, failures,
                blocked, request>>
cache == <<keys, fetched, attempted>>
links == <<published, given, live>>
limiter == <<failures, blocked>>

KeyIds == 1..MaxKeys
Links == 1..MaxLinks

------------------------------------------------------------------------------
(* Where a request comes from, and the headers it then arrives with. The edge  *)
(* writes its own header and appends to the list the client may have sent.     *)

Sent == <<"internal">>
Origins == {
    [origin |-> "process", peer |-> "loopback", cf |-> "none", xff |-> <<>>],
    [origin |-> "lan", peer |-> "internal", cf |-> "none", xff |-> Sent],
    [origin |-> "tunnel", peer |-> "loopback", cf |-> "external", xff |-> Sent],
    [origin |-> "tunnel", peer |-> "loopback", cf |-> "none", xff |-> Append(Sent, "external")]}

LastHop(xff) == IF xff = <<>> THEN "none" ELSE xff[Len(xff)]
FirstHop(xff) == IF xff = <<>> THEN "none" ELSE xff[1]

Hop(xff) == LastHop(xff)

\* The headers are believed only when the peer is the process of the tunnel.
ClientIP(o) ==
    IF o.peer # "loopback" THEN o.peer
    ELSE IF o.cf # "none" THEN o.cf
    ELSE IF Hop(o.xff) # "none" THEN Hop(o.xff)
    ELSE o.peer

IsInternalRequest(o) == ClientIP(o) \in {"loopback", "internal"}

------------------------------------------------------------------------------

\* 0 is no assertion, MaxKeys + 1 names a key the team never had.
Assertions == 0..MaxKeys + 1
\* 0 is no token, MaxLinks + 1 is none of the form of a token.
Guess == MaxLinks + 1
NoRequest == [at |-> "none", kid |-> 0, token |-> 0]
Stages == {"none", "access", "fetch", "token"}

TypeOK ==
    /\ accessOn \in BOOLEAN /\ published \in KeyIds /\ keys \subseteq KeyIds
    /\ fetched \in {"never", "fresh", "stale"} /\ attempted \in {"near", "far"}
    /\ given \in 0..MaxLinks /\ live \subseteq 1..given
    /\ failures \in [Visitors -> 0..MaxFailures]
    /\ blocked \subseteq Visitors
    /\ request \in [Visitors -> [at : Stages, kid : Assertions, token : 0..Guess]]
    /\ fetched = "never" <=> keys = {}

Init ==
    /\ accessOn \in BOOLEAN /\ published = 1 /\ keys = {} /\ fetched = "never"
    /\ attempted = "far" /\ given = 0 /\ live = {}
    /\ failures = [v \in Visitors |-> 0] /\ blocked = {}
    /\ request = [v \in Visitors |-> NoRequest]

At(v, stage) == request[v].at = stage
Goto(v, stage) == request' = [request EXCEPT ![v].at = stage]
Done(v) == request' = [request EXCEPT ![v] = NoRequest]

\* A request from inside passes. The limiter looks at its count only now, and turns
\* a full count into a place on the black list.
Allow(v) == v \notin blocked /\ failures[v] < MaxFailures
Block(v) ==
    IF v \notin blocked /\ failures[v] >= MaxFailures
    THEN blocked' = blocked \cup {v} /\ failures' = [failures EXCEPT ![v] = 0]
    ELSE UNCHANGED limiter

\* A request from outside. The token comes in a header, in the address or in a cookie:
\* any that was given out, or a guess.
Ask(v, o, kid, token) ==
    /\ At(v, "none") /\ ~IsInternalRequest(o)
    /\ kid \in {0} \cup (IF accessOn THEN {published, MaxKeys + 1} ELSE {})
    /\ token \in 0..given \cup (IF v \in Guessers THEN {Guess} ELSE {})
    /\ Block(v)
    /\ request' = IF Allow(v) THEN [request EXCEPT ![v] = [at |-> IF accessOn THEN "access" ELSE "token",
                                                          kid |-> kid, token |-> token]]
                  ELSE request
    /\ UNCHANGED <<accessOn, cache, links>>

\* The cache is good for an hour; an empty or an old one is worth a fetch.
CacheIsGood == fetched = "fresh"
CacheIsFilled == fetched # "never"

Rests == CacheIsGood

\* The assertion names a key of the cache, or one that may be worth a fetch.
Verify(v) ==
    /\ At(v, "access")
    /\ LET kid == request[v].kid
           worth == kid \notin keys \cup {0} /\ ~Rests /\ attempted = "far" IN
       \/ kid \in keys /\ Done(v) /\ UNCHANGED cache
       \/ kid \notin keys /\ ~worth /\ Goto(v, "token") /\ UNCHANGED cache
       \/ worth /\ attempted' = "near" /\ Goto(v, "fetch") /\ UNCHANGED <<keys, fetched>>
    /\ UNCHANGED <<accessOn, links, limiter>>

\* The team's server answers with the key of that moment, which replaces the cache.
FetchAnswers(v) ==
    /\ At(v, "fetch")
    /\ keys' = {published} /\ fetched' = "fresh" /\ UNCHANGED attempted
    /\ IF request[v].kid = published THEN Done(v) ELSE Goto(v, "token")
    /\ UNCHANGED <<accessOn, links, limiter>>

\* Another request may have filled the cache meanwhile.
FetchFails(v) ==
    /\ At(v, "fetch")
    /\ IF request[v].kid \in keys THEN Done(v) ELSE Goto(v, "token")
    /\ UNCHANGED <<accessOn, cache, links, limiter>>

\* Only what never was a token is held against the address.
Suspicious(token) == token = Guess
AnyBad(token) == token # 0

IsGuess(token) == Suspicious(token)

CheckToken(v) ==
    /\ At(v, "token") /\ Done(v)
    /\ failures' = IF request[v].token \notin live /\ IsGuess(request[v].token)
                   THEN [failures EXCEPT ![v] = @ + 1] ELSE failures
    /\ UNCHANGED <<accessOn, cache, links, blocked>>

VisitStep(v) ==
    Verify(v) \/ FetchFails(v) \/ CheckToken(v)

------------------------------------------------------------------------------
(* Time and the world.                                                         *)

MinutePasses(v) ==
    /\ failures[v] > 0 /\ failures' = [failures EXCEPT ![v] = 0]
    /\ UNCHANGED <<accessOn, cache, links, blocked, request>>

BlacklistEnds(v) ==
    /\ v \in blocked /\ blocked' = blocked \ {v}
    /\ UNCHANGED <<accessOn, cache, links, failures, request>>

CacheGrowsOld ==
    /\ fetched = "fresh" /\ fetched' = "stale"
    /\ UNCHANGED <<accessOn, keys, attempted, links, limiter, request>>

GapPasses ==
    /\ attempted = "near" /\ attempted' = "far"
    /\ UNCHANGED <<accessOn, keys, fetched, links, limiter, request>>

TeamRotates ==
    /\ published < MaxKeys /\ published' = published + 1
    /\ UNCHANGED <<accessOn, cache, given, live, limiter, request>>

\* The tunnel gives out a link, which ends the one before, or ends it without another.
NewLink ==
    /\ \/ given < MaxLinks /\ given' = given + 1 /\ live' = {given + 1}
       \/ live # {} /\ live' = {} /\ UNCHANGED given
    /\ UNCHANGED <<accessOn, published, cache, limiter, request>>

Next ==
    \/ \E v \in Visitors :
          \/ \E o \in Origins, kid \in Assertions, token \in 0..Guess : Ask(v, o, kid, token)
          \/ VisitStep(v) \/ FetchAnswers(v) \/ MinutePasses(v) \/ BlacklistEnds(v)
    \/ CacheGrowsOld \/ GapPasses \/ TeamRotates \/ NewLink

\* A visitor from outside asks with an assertion of today.
AskToday(v) == \E o \in Origins : o.origin = "tunnel" /\ Ask(v, o, published, 0)

\* Requests are served, time passes, and somebody who does not guess keeps asking
\* and is at times answered by the team's server.
Fairness ==
    /\ \A v \in Visitors : WF_accessVars(VisitStep(v)) /\ SF_accessVars(FetchAnswers(v))
    /\ WF_accessVars(CacheGrowsOld) /\ WF_accessVars(GapPasses)
    /\ \E v \in Visitors \ Guessers : SF_accessVars(AskToday(v))

Spec == Init /\ [][Next]_accessVars /\ Fairness

------------------------------------------------------------------------------
(* Inside is what comes from this machine or its network, whatever headers a   *)
(* client has sent (auth.go ClientIP), and the door is closed only to those    *)
(* who guess: old links and missing tokens are never counted (middleware.go    *)
(* ExternalAuthMiddleware, ratelimit.go).                                      *)
VisitorsAreJudged ==
    /\ \A o \in Origins : IsInternalRequest(o) <=> o.origin # "tunnel"
    /\ blocked \subseteq Guessers

(* The key the team signs with is known in the end, as long as somebody keeps  *)
(* asking and the team's server keeps answering: neither the cache nor the gap *)
(* between two fetches shuts it out for ever (access.go key, refreshJWKS).     *)
NewKeyIsLearnt ==
    \A k \in KeyIds : (accessOn /\ published = k) ~> (k \in keys \/ published # k)
===============================================================================
