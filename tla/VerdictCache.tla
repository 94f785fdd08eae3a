---------------------------- MODULE VerdictCache ----------------------------
(***************************************************************************)
(* Engine.CheckWithOptions: the limits on a body, the request schema, the  *)
(* cache of verdicts and the evaluation behind it, for requests that       *)
(* overlap and for engines that are replaced meanwhile.  Each engine has a *)
(* cache of its own.  A verdict is the engine and the request it came      *)
(* from; what the rules say of a request is not modelled.                  *)
(***************************************************************************)
EXTENDS Integers, FiniteSets, SequencesExt

CONSTANTS
  Checks,     \* requests under way
  Prints,     \* fingerprints: method, host, path, query and body
  Rest,       \* the headers a fingerprint leaves out
  VerdictTTL, \* verdictCacheTTL
  Capacity,   \* verdictCacheCapacity
  MaxVTime,   \* bound: clock ticks
  MaxEngines, \* bound: engines built
  MaxChecks   \* bound: requests

ASSUME VerdictsAssumption ==
  /\ VerdictTTL \in Nat /\ Capacity \in Nat \ {0}
  /\ MaxVTime \in Nat /\ MaxEngines \in Nat \ {0} /\ MaxChecks \in Nat

VARIABLES
  vtime,   \* the clock
  newest,  \* the number of the installed engine
  entries, \* per engine its cache, most recently used first: [print, verdict, exp]
  checks,  \* per request: where it is, its fingerprint, its engine
  asked,   \* history: requests so far
  answers  \* history: what was answered: [engine, verdict, print, rest, keyed]

verdictVars == <<vtime, newest, entries, checks, asked, answers>>

Quiet == [at |-> "idle", print |-> 0, rest |-> 0, engine |-> 0, keyed |-> FALSE, verdict |-> 0]

Verdict(c) == [engine |-> checks[c].engine, print |-> checks[c].print, rest |-> checks[c].rest]

\* -- The cache -------------------------------------------------------------

Holds(cache, p) == \E i \in DOMAIN cache : cache[i].print = p
Place(cache, p) == CHOOSE i \in DOMAIN cache : cache[i].print = p
Over(e) == vtime > e.exp

\* get: an expired entry is removed, a live one moves to the front.
Hit(cache, p) == Holds(cache, p) /\ ~ Over(cache[Place(cache, p)])

\* Mutant: a hit renews the entry.
GotAndRenewed(cache, p) ==
  IF ~ Holds(cache, p) THEN cache
  ELSE LET i == Place(cache, p)
       IN IF Over(cache[i]) THEN RemoveAt(cache, i)
          ELSE <<[cache[i] EXCEPT !.exp = vtime + VerdictTTL]>> \o RemoveAt(cache, i)

Got(cache, p) ==
  IF ~ Holds(cache, p) THEN cache
  ELSE LET i == Place(cache, p)
       IN IF Over(cache[i]) THEN RemoveAt(cache, i)
          ELSE <<cache[i]>> \o RemoveAt(cache, i)

\* put: an entry of this key is refreshed; a new one may push out the last.
Put(cache, p, v) ==
  LET new == [print |-> p, verdict |-> v, exp |-> vtime + VerdictTTL]
  IN IF Holds(cache, p) THEN <<new>> \o RemoveAt(cache, Place(cache, p))
     ELSE IF Len(cache) + 1 > Capacity THEN <<new>> \o Front(cache)
     ELSE <<new>> \o cache

\* -- A check ---------------------------------------------------------------

\* wafEngineFor picks the engine once.  A body over its limit and a body the
\* schema refuses are answered before the cache.  Only a request whose body is
\* held in full, with neither a cookie nor an Authorization header, has a key.
BeginCheck(c) ==
  /\ checks[c].at = "idle" /\ asked < MaxChecks /\ asked' = asked + 1
  /\ \E p \in Prints, h \in Rest, keyed \in BOOLEAN :
       checks' = [checks EXCEPT ![c] =
         [at |-> IF keyed THEN "lookup" ELSE "evaluate", print |-> p, rest |-> h,
          engine |-> newest, keyed |-> keyed, verdict |-> 0]]
  /\ UNCHANGED <<vtime, newest, entries, answers>>

Cached(c) == entries[checks[c].engine]

Answer(c, v) ==
  /\ answers' = answers \cup {[engine |-> checks[c].engine, verdict |-> v,
                              print |-> checks[c].print, rest |-> checks[c].rest,
                              keyed |-> checks[c].keyed, at |-> vtime]}
  /\ checks' = [checks EXCEPT ![c] = Quiet]

LookUp(c) ==
  /\ checks[c].at = "lookup"
  /\ entries' = [entries EXCEPT ![checks[c].engine] = Got(@, checks[c].print)]
  /\ IF Hit(Cached(c), checks[c].print)
     THEN Answer(c, Cached(c)[Place(Cached(c), checks[c].print)].verdict)
     ELSE /\ checks' = [checks EXCEPT ![c].at = "evaluate"]
          /\ UNCHANGED answers
  /\ UNCHANGED <<vtime, newest, asked>>

\* evaluate takes as long as the rules take.
Evaluate(c) ==
  /\ checks[c].at = "evaluate"
  /\ IF checks[c].keyed
     THEN /\ checks' = [checks EXCEPT ![c].at = "put"]
          /\ UNCHANGED answers
     ELSE Answer(c, Verdict(c))
  /\ UNCHANGED <<vtime, newest, entries, asked>>

EvaluateFails(c) ==
  /\ checks[c].at = "evaluate"
  /\ checks' = [checks EXCEPT ![c] = Quiet]
  /\ UNCHANGED <<vtime, newest, entries, asked, answers>>

PutAndAnswer(c) ==
  /\ checks[c].at = "put"
  /\ entries' = [entries EXCEPT ![checks[c].engine] = Put(@, checks[c].print, Verdict(c))]
  /\ Answer(c, Verdict(c))
  /\ UNCHANGED <<vtime, newest, asked>>

\* ReloadWAF: the requests under way keep the engine they took.
ReplaceEngine ==
  /\ newest < MaxEngines /\ newest' = newest + 1
  /\ UNCHANGED <<vtime, entries, checks, asked, answers>>

VTick ==
  /\ vtime < MaxVTime /\ vtime' = vtime + 1
  /\ UNCHANGED <<newest, entries, checks, asked, answers>>

InitVerdicts ==
  /\ vtime = 0 /\ newest = 1 /\ asked = 0 /\ answers = {}
  /\ entries = [e \in 1 .. MaxEngines |-> <<>>]
  /\ checks = [c \in Checks |-> Quiet]

NextVerdicts ==
  \/ \E c \in Checks : \/ BeginCheck(c) \/ LookUp(c) \/ Evaluate(c)
                       \/ EvaluateFails(c) \/ PutAndAnswer(c)
  \/ ReplaceEngine
  \/ VTick

SpecVerdicts == InitVerdicts /\ [][NextVerdicts]_verdictVars

\* -- Properties ------------------------------------------------------------

\* The cache of an engine holds one entry per fingerprint, within its
\* capacity, and only verdicts of that engine.
TypeOKVerdicts ==
  /\ newest \in 1 .. MaxEngines
  /\ \A e \in 1 .. MaxEngines :
       /\ Len(entries[e]) <= Capacity
       /\ \A i, j \in DOMAIN entries[e] :
            i # j => entries[e][i].print # entries[e][j].print
       /\ \A i \in DOMAIN entries[e] : entries[e][i].verdict.engine = e

Own(a) == a.verdict = [engine |-> a.engine, print |-> a.print, rest |-> a.rest]

\* verdictCacheTTL: however often a verdict is served, and whatever else was
\* put, dropped or evaluated at the same time, it is one that a request with
\* the same fingerprint was given by an evaluation, at most the TTL ago.
NoStaleVerdict ==
  \A a \in answers : \E b \in answers :
    /\ Own(b) /\ b.verdict = a.verdict
    /\ b.print = a.print
    /\ b.at <= a.at /\ a.at - b.at <= VerdictTTL

\* A request is judged by the engine that was installed when it came, also
\* when its verdict is a cached one and the engine was replaced meanwhile; and
\* one with a cookie or a credential is judged on its own.
JudgedByItsEngine ==
  \A a \in answers : /\ a.verdict.engine = a.engine
                     /\ ~ a.keyed => Own(a)

\* A verdict is fresh, was made for a request with this fingerprint, and by the
\* engine that was installed when the request came; and no cache outgrows its
\* capacity, holds two for one fingerprint or one of another engine.
VerdictsAreSound == TypeOKVerdicts /\ NoStaleVerdict /\ JudgedByItsEngine
=============================================================================
