----------------------------- MODULE FlagCache -----------------------------
(***************************************************************************)
(* Feature flags: how the JavaScript, Python and Go runtimes decide a flag *)
(* (core/src/flags.ts, python/watchup/flags.py, go/flags.go), and the      *)
(* cache they decide from while the server's flags change and refreshes    *)
(* are under way.                                                          *)
(*                                                                         *)
(* Abstractions.  The bucket of a user is given.  "contains" is a given    *)
(* relation between strings.  An attribute of a context is a string, a     *)
(* whole number, a whole number held as a float, or a boolean, and `is` is *)
(* what String() makes of it.  The cache holds the version of the flags.   *)
(***************************************************************************)
EXTENDS Integers, Sequences, FiniteSets, SequencesExt

CONSTANTS
  Bucket,                 \* flagBucket of a user id, for one flag
  PartOf,                 \* <<v, w>>: w contains v
  FlagDefs, FlagContexts, \* bound: the flags and contexts that are tried
  Interval, Timeout, MaxAge,      \* flagRefreshInterval, the abort signal, maxAgeMs
  MaxVersions, MaxAsks, MaxClock   \* bounds

ASSUME FlagConstants ==
  /\ {Interval, Timeout, MaxAge, MaxVersions, MaxAsks, MaxClock} \subseteq Nat
  /\ Interval > 0

\* An attribute that a context does not have, or that is null.
Missing == [type |-> "missing", is |-> ""]

Attributes == {Missing} \cup [type : {"string", "number", "float", "boolean"}, is : STRING]

\* String(value ?? '') and fmt.Sprint.
Text(v) == v.is

\* str(value): booleans and floats look otherwise.
Capital == [true |-> "True", false |-> "False"]
TextPython(v) ==
  CASE v.type = "boolean" -> Capital[v.is]
    [] v.type = "float"   -> v.is \o ".0"
    [] OTHER              -> v.is

ASSUME DefConstants ==
  /\ \A flag \in FlagDefs :
       /\ flag.variants \in Seq([key : STRING, weight : Nat])
       /\ \A i \in DOMAIN flag.rules : flag.rules[i].values \in Seq(STRING)
  /\ Bucket \in [DOMAIN Bucket -> Nat]
  /\ \A ctx \in FlagContexts :
       /\ \A a \in DOMAIN ctx : ctx[a] \in Attributes
       /\ {"userId", "user_id", "email"} \subseteq DOMAIN ctx
       /\ \A flag \in FlagDefs : \A i \in DOMAIN flag.rules : flag.rules[i].attribute \in DOMAIN ctx
       /\ \A a \in {"userId", "user_id", "email"} :
            {Text(ctx[a]), TextPython(ctx[a])} \subseteq {""} \cup DOMAIN Bucket

(***************************************************************************)
(* Deciding a flag                                                         *)
(***************************************************************************)
\* matchesTargeting, matches_targeting and matches: every rule holds.
MatchesJs(flag, ctx) ==
  \A i \in DOMAIN flag.rules :
    LET rule == flag.rules[i]
        val  == Text(ctx[rule.attribute])
    IN  CASE rule.operator = "in"       -> Contains(rule.values, val)
          [] rule.operator = "not_in"   -> ~ Contains(rule.values, val)
          [] rule.operator = "contains" -> \E j \in DOMAIN rule.values : <<rule.values[j], val>> \in PartOf
          [] rule.operator = "equals"   -> rule.values # <<>> /\ rule.values[1] = val
          [] OTHER                      -> TRUE

MatchesPython(flag, ctx) ==
  ~ \E i \in DOMAIN flag.rules :
      LET rule == flag.rules[i]
          val  == TextPython(ctx[rule.attribute])
      IN  \/ rule.operator = "in" /\ val \notin ToSet(rule.values)
          \/ rule.operator = "not_in" /\ val \in ToSet(rule.values)
          \/ rule.operator = "contains" /\ ToSet(rule.values) \cap {v \in ToSet(rule.values) : <<v, val>> \in PartOf} = {}
          \/ rule.operator = "equals" /\ (rule.values = <<>> \/ Head(rule.values) # val)

MatchesGo(flag, ctx) ==
  \A i \in DOMAIN flag.rules :
    LET rule == flag.rules[i]
        val  == Text(ctx[rule.attribute])
        contains == \E j \in DOMAIN rule.values : rule.values[j] = val
    IN  /\ rule.operator = "in" => contains
        /\ rule.operator = "not_in" => ~ contains
        /\ rule.operator = "contains" => \E v \in ToSet(rule.values) : <<v, val>> \in PartOf
        /\ rule.operator = "equals" => ~ (Len(rule.values) = 0 \/ rule.values[1] # val)

\* What Python's `or` takes: neither None nor "", 0 or False.
Truthy(v) == v.is # "" /\ (v.type = "string" \/ v.is \notin {"0", "false"})

\* Who is bucketed: the first attribute that is there (JavaScript; Node passes no
\* fallback), that does not print as nothing (Go), or that is truthy (Python).
IdJs(ctx) == IF ctx.userId # Missing THEN Text(ctx.userId) ELSE Text(ctx.email)
IdGo(ctx) == IF Text(ctx.userId) # "" THEN Text(ctx.userId) ELSE Text(ctx.email)
IdPython(ctx) ==
  CASE Truthy(ctx.userId) -> TextPython(ctx.userId)
    [] ~ Truthy(ctx.userId) /\ Truthy(ctx.user_id) -> TextPython(ctx.user_id)
    [] ~ (Truthy(ctx.userId) \/ Truthy(ctx.user_id)) /\ Truthy(ctx.email) -> TextPython(ctx.email)
    [] OTHER -> ""

\* isEnabled: on, targeted, and in the rollout.
InRollout(flag, id) ==
  \/ flag.rollout >= 100
  \/ flag.rollout > 0 /\ id # "" /\ Bucket[id] < flag.rollout

EnabledJs(flag, ctx) == flag.enabled /\ MatchesJs(flag, ctx) /\ InRollout(flag, IdJs(ctx))
EnabledPython(flag, ctx) == flag.enabled /\ MatchesPython(flag, ctx) /\ InRollout(flag, IdPython(ctx))
EnabledGo(flag, ctx) == flag.enabled /\ MatchesGo(flag, ctx) /\ InRollout(flag, IdGo(ctx))

\* Mutant of Share: the upper end belongs to the variant.
ShareClosed(bucket, cumulative) == bucket <= cumulative

Share(bucket, cumulative) == bucket < cumulative

\* The weights of the first variants added up.
Cumulative(flag) ==
  LET cumulative[i \in 0 .. Len(flag.variants)] ==
        IF i = 0 THEN 0 ELSE cumulative[i - 1] + flag.variants[i].weight
  IN  cumulative

\* getVariant: the first variant whose cumulative weight exceeds the bucket, else
\* the last one.
VariantJs(flag, ctx) ==
  LET bucket == IF IdJs(ctx) = "" THEN 0 ELSE Bucket[IdJs(ctx)]
      hit == {i \in DOMAIN flag.variants : Share(bucket, Cumulative(flag)[i])}
  IN  IF ~ EnabledJs(flag, ctx) THEN "control"
      ELSE IF flag.variants = <<>> THEN "on"
      ELSE IF hit = {} THEN flag.variants[Len(flag.variants)].key
      ELSE flag.variants[CHOOSE i \in hit : \A j \in hit : i <= j].key

\* get_variant and Variant: variant by variant, with the weights before it.
Loop(flag, bucket) ==
  LET from[i \in 1 .. Len(flag.variants)] ==
        [before \in Nat |->
           LET cumulative == before + flag.variants[i].weight IN
           IF bucket < cumulative \/ i = Len(flag.variants) THEN flag.variants[i].key
           ELSE from[i + 1][cumulative]]
  IN  from
VariantFrom(flag, id) ==
  IF flag.variants = <<>> THEN "on" ELSE Loop(flag, IF id = "" THEN 0 ELSE Bucket[id])[1][0]
VariantPython(flag, ctx) ==
  IF EnabledPython(flag, ctx) THEN VariantFrom(flag, IdPython(ctx)) ELSE "control"
VariantGo(flag, ctx) ==
  IF EnabledGo(flag, ctx) THEN VariantFrom(flag, IdGo(ctx)) ELSE "control"

(***************************************************************************)
(* The cache                                                               *)
(***************************************************************************)
VARIABLES
  runtime,    \* "node", "browser", "python" or "go"
  version,    \* the server's flags
  until,      \* history: when a version stopped being the server's
  clock,
  cache,      \* FlagStore: the version in it, fetchedAt, and history: when and
              \* by whom it was asked for
  asks,       \* refreshes under way: since when, the version answered, who asked
  nextPoll,   \* when the interval, the ticker or the timer fires next
  visible,    \* the browser's page is shown
  tried       \* a flag and a context it is decided for

flagVars == <<runtime, version, until, clock, cache, asks, nextPoll, visible, tried>>

Expired == cache.version = 0 \/ clock - cache.at > MaxAge
Served == IF Expired THEN 0 ELSE cache.version

\* Mutant of TimedOut: the request has no timeout.
NoTimeout(a) == FALSE

\* The browser's request has none.
TimedOut(a) == runtime # "browser" /\ clock - a.at >= Timeout

\* Mutant of KeptOnFailure: a failed refresh counts as one.
RenewedOnFailure == [cache EXCEPT !.at = clock]

\* "Keep serving the cached flags."
KeptOnFailure == cache

Asked(extra) == [at |-> clock, seen |-> 0, extra |-> extra]

\* A poll is under way.
Polling == \E a \in asks : ~ a.extra

\* No poll is due: the ticker or the timer is not set.
Never == MaxClock + Interval + 1

\* The next tick of Go's ticker, which keeps one tick for a poll that is busy.
NextTick == nextPoll + Interval * (1 + (clock - nextPoll) \div Interval)

\* The interval, the ticker or the timer fires.  Go and Python wait for the refresh:
\* Go starts its ticker after the first one, Python a timer after each.  A hidden
\* page skips the refresh.
Poll ==
  /\ clock >= nextPoll
  /\ runtime \in {"python", "go"} => ~ Polling
  /\ nextPoll' = CASE runtime = "python" \/ (runtime = "go" /\ nextPoll = 0) -> Never
                   [] runtime = "go" /\ nextPoll > 0                         -> NextTick
                   [] OTHER                                                  -> clock + Interval
  /\ asks' = IF visible THEN asks \cup {Asked(FALSE)} ELSE asks
  /\ UNCHANGED <<runtime, version, until, clock, cache, visible, tried>>

\* refreshFlags() by the application.
RefreshFlags ==
  /\ Cardinality(asks) < MaxAsks
  /\ asks' = asks \cup {Asked(TRUE)}
  /\ UNCHANGED <<runtime, version, until, clock, cache, nextPoll, visible, tried>>

\* onHidden: a page that is shown again refreshes flags that are old.
Visibility ==
  /\ runtime = "browser" /\ visible' = ~ visible
  /\ asks' = IF visible' /\ clock - cache.at > Interval THEN asks \cup {Asked(TRUE)} ELSE asks
  /\ Cardinality(asks') <= MaxAsks
  /\ UNCHANGED <<runtime, version, until, clock, cache, nextPoll, tried>>

\* A refresh has ended: a poll sets the timer, or starts the ticker.
Ended(a) ==
  /\ asks' = asks \ {a}
  /\ nextPoll' = IF nextPoll = Never /\ ~ a.extra THEN clock + Interval ELSE nextPoll
  /\ UNCHANGED <<runtime, version, until, clock, visible, tried>>

\* The server answers, the answer arrives, or the refresh fails.
ServerAnswers(a) ==
  /\ a \in asks /\ a.seen = 0
  /\ asks' = (asks \ {a}) \cup {[a EXCEPT !.seen = version]}
  /\ UNCHANGED <<runtime, version, until, clock, cache, nextPoll, visible, tried>>
Replace(a) ==
  /\ a \in asks /\ a.seen > 0
  /\ cache' = [version |-> a.seen, at |-> clock, asked |-> a.at, extra |-> a.extra]
  /\ Ended(a)
RefreshFails(a) == a \in asks /\ cache' = KeptOnFailure /\ Ended(a)

\* The flags are edited.
FlagsChange ==
  /\ version < MaxVersions
  /\ version' = version + 1 /\ until' = [until EXCEPT ![version] = clock]
  /\ UNCHANGED <<runtime, clock, cache, asks, nextPoll, visible, tried>>

\* Time passes: no refresh outlives its timeout, no poll is late.
Tick ==
  /\ clock < MaxClock
  /\ clock < nextPoll \/ (runtime = "go" /\ Polling)
  /\ \A a \in asks : ~ TimedOut(a)
  /\ clock' = clock + 1
  /\ UNCHANGED <<runtime, version, until, cache, asks, nextPoll, visible, tried>>

FlagInit ==
  /\ runtime \in {"node", "browser", "python", "go"}
  /\ version = 1 /\ until = [v \in 1 .. MaxVersions |-> 0] /\ clock = 0
  /\ cache = [version |-> 0, at |-> 0, asked |-> 0, extra |-> FALSE]
  /\ asks = {} /\ nextPoll = 0 /\ visible = TRUE
  /\ tried \in [flag : FlagDefs, ctx : FlagContexts]

FlagNext ==
  \/ Poll \/ RefreshFlags \/ Visibility \/ FlagsChange \/ Tick
  \/ \E a \in asks : ServerAnswers(a) \/ Replace(a) \/ RefreshFails(a)

FlagSpec == FlagInit /\ [][FlagNext]_flagVars

(***************************************************************************)
(* Properties                                                              *)
(***************************************************************************)

\* The runtimes decide flag and ctx alike.
Alike(flag, ctx) ==
  /\ EnabledJs(flag, ctx) = EnabledPython(flag, ctx) /\ EnabledJs(flag, ctx) = EnabledGo(flag, ctx)
  /\ VariantJs(flag, ctx) = VariantPython(flag, ctx) /\ VariantJs(flag, ctx) = VariantGo(flag, ctx)

\* Strings and whole numbers, an id that is not empty or 0, and an email that is a
\* string.
Plain(ctx) ==
  /\ \A a \in DOMAIN ctx : ctx[a].type \in {"missing", "string", "number"}
  /\ ctx.userId = Missing \/ Truthy(ctx.userId)
  /\ ctx.user_id = Missing /\ ctx.email.type # "number"

\* In a plain context every runtime decides a flag and picks its variant alike:
\* ids, rules, rollouts and weights, read by three different loops.
RuntimesAgree == Plain(tried.ctx) => Alike(tried.flag, tried.ctx)

\* "Local evaluation identical to the JavaScript SDKs" (flags.py:4).
RuntimesIdentical == Alike(tried.flag, tried.ctx)

\* Polling alone never puts older flags in place of newer ones, where a poll has
\* ended before the next one asks; Node's polls overlap by no more than a timeout.
\* The application's own refreshes may, and so may the browser's, which have no
\* timeout.
PollsInOrder ==
  [][LET gap == IF cache'.asked > cache.asked THEN cache'.asked - cache.asked
                                              ELSE cache.asked - cache'.asked
     IN  cache'.version < cache.version =>
           \/ runtime = "browser" \/ cache.extra \/ cache'.extra
           \/ runtime = "node" /\ gap \in Interval .. Timeout]_flagVars

\* However many refreshes fail or come late, no flags are served that the server
\* gave up longer ago than the cache may be old plus one timeout.
StaleBounded ==
  runtime # "browser" /\ Served \in 1 .. version - 1 => clock - until[Served] <= MaxAge + Timeout
=============================================================================
