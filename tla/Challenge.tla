----------------------------- MODULE Challenge -----------------------------
(***************************************************************************)
(* The browser challenge: the gate of the proxy that sends a browser to    *)
(* the challenge page, the page, the verify endpoint that redeems a nonce  *)
(* for the bypass cookie, and the settings page that replaces the          *)
(* Challenger while requests are under way.                                *)
(*                                                                         *)
(* A signature is the version of the secret it was made with; a nonce, its *)
(* expiry and its signature travel together, and a proof of work is right  *)
(* or wrong.  One browser follows the redirects; its solution may reach    *)
(* the server more than once.                                              *)
(***************************************************************************)
EXTENDS Integers, FiniteSets, Sequences

CONSTANTS
  Nonces,       \* the nonces the server may draw
  Posts,        \* calls of POST /_cz/verify that are under way
  Savers,       \* calls of SaveBotSettings that are under way
  BotForms,     \* the settings an admin may submit: records [on, ttl]
  Lifetime,     \* the 2-minute window to solve
  SweepAt,      \* usedNonceSweepAt
  MaxTime,      \* bound: clock ticks
  MaxBotChanges, \* bound: saves of the settings page and restarts
  MaxBotWork,    \* bound: those and the posts under way when a post comes
  MaxBotFaults   \* bound: failing writes of a setting

ASSUME ChallengeAssumption ==
  /\ Lifetime \in Nat /\ MaxTime \in Nat /\ MaxBotChanges \in Nat
  /\ BotForms \subseteq [on : BOOLEAN, ttl : Nat]

VARIABLES
  time,        \* the clock of the server and of the browser
  meta,        \* the rows bot_enabled and bot_ttl
  secret,      \* the row challenge_secret: a version, 0 when there is none
  boots,       \* starts of the process so far
  key,         \* the secret this process read
  challengers, \* every Challenger built, in order: [ttl, used]
  active,      \* Handler.challenger: an index into challengers, 0 for nil
  issued,      \* nonces that were signed: [exp, key]
  browser,     \* the browser: where it is, its nonce, its cookie
  posts, savers,
  redeemed,    \* history: which nonces were redeemed, by which Challenger
  saves,       \* history: saves begun
  faults,      \* history: failed writes
  apart        \* history: a failed or an overlapping save since the last
               \* one that ran alone, or the last start

gateVars == <<time, meta, secret, boots, key, challengers, active, issued,
              browser, posts, savers, redeemed, saves, faults, apart>>

NoCookie == [exp |-> 0, key |-> 0]
Idle == [at |-> "idle", nonce |-> 0, gen |-> 0]
Away == [at |-> "idle", form |-> [on |-> FALSE, ttl |-> 0], alone |-> FALSE]

\* -- The Challenger --------------------------------------------------------

New(ttl) == [ttl |-> ttl, used |-> {}]

\* buildChallenger(s) after those of the sequence; none when protection is off.
Build(s, built) == IF s.on THEN Append(built, New(s.ttl)) ELSE built

\* What Handler.challenger points to once s is installed.
Points(s, built) == IF s.on THEN Len(built) + 1 ELSE 0

Expired(exp) == time > exp

SignedHere(k) == k = key

ParseCookie(c) == /\ c # NoCookie
                  /\ ~ Expired(c.exp)
                  /\ SignedHere(c.key)

PassedChallenge == ParseCookie(browser.cookie)

\* Mutant: the sweep takes entries that can still be posted.
SweptEarly(used) ==
  IF Cardinality(used) >= SweepAt THEN {n \in used : time < issued[n].exp} ELSE used

\* The entries left when a nonce is about to be marked.
Swept(used) ==
  IF Cardinality(used) >= SweepAt
  THEN {n \in used : ~ Expired(issued[n].exp)}
  ELSE used

ChallengeURL(n) ==
  /\ issued[n].key = 0
  /\ issued' = [issued EXCEPT ![n] = [exp |-> time + Lifetime, key |-> key]]

\* -- The gate in Handle ----------------------------------------------------

\* What the gate looks at beside the cookie: a crawler whose address is
\* verified, the manifest path of challenge.Exempt, the mode of the service,
\* a bot score at or over the threshold, the adaptive policy's decision.
Asks == [crawler : BOOLEAN, exempt : BOOLEAN,
         mode : {"inherit", "always", "off"}, score : BOOLEAN, force : BOOLEAN]

Gated(q) == ~ q.crawler /\ ~ q.exempt /\ q.mode # "off"

Suspect(q) == q.mode = "always" \/ q.score \/ q.force

\* The request reads the Challenger once, before the gate.  One that is let
\* through changes nothing here.
Challenged ==
  /\ browser.at = "idle" /\ active # 0
  /\ \E q \in Asks : Gated(q) /\ Suspect(q) /\ ~ PassedChallenge
  /\ \E n \in Nonces :
       /\ ChallengeURL(n)
       /\ browser' = [browser EXCEPT !.at = "sent", !.nonce = n]
  /\ UNCHANGED <<time, meta, secret, boots, key, challengers, active, posts,
                 savers, redeemed, saves, faults, apart>>

Valid(n) == ~ Expired(issued[n].exp) /\ SignedHere(issued[n].key)

\* GET /_cz/challenge; without a page the browser asks for the site again.
ServePage ==
  /\ browser.at = "sent"
  /\ browser' = IF active # 0 /\ Valid(browser.nonce)
                THEN [browser EXCEPT !.at = "page"]
                ELSE [browser EXCEPT !.at = "idle", !.nonce = 0]
  /\ UNCHANGED <<time, meta, secret, boots, key, challengers, active, issued,
                 posts, savers, redeemed, saves, faults, apart>>

\* -- POST /_cz/verify ------------------------------------------------------

\* A solution, or a second copy of one, reaches the server.
Post(p) ==
  /\ posts[p].at = "idle"
  /\ Cardinality({o \in Posts : posts[o].at # "idle"}) + saves + boots <= MaxBotWork
  /\ \E n \in Nonces :
       /\ \/ browser.at = "page" /\ browser.nonce = n
          \/ \E r \in redeemed : r.nonce = n
          \/ \E o \in Posts : posts[o].at # "idle" /\ posts[o].nonce = n
       /\ posts' = [posts EXCEPT ![p] = [at |-> "sent", nonce |-> n, gen |-> active]]
  /\ UNCHANGED <<time, meta, secret, boots, key, challengers, active, issued,
                 browser, savers, redeemed, saves, faults, apart>>

\* The browser gives up its page for a new attempt.
GoneFrom(n) == IF browser.at = "page" /\ browser.nonce = n
               THEN [browser EXCEPT !.at = "idle", !.nonce = 0]
               ELSE browser

Refuse(p) ==
  /\ posts' = [posts EXCEPT ![p] = Idle]
  /\ browser' = GoneFrom(posts[p].nonce)
  /\ UNCHANGED <<time, meta, secret, boots, key, challengers, active, issued,
                 savers, redeemed, saves, faults, apart>>

\* Not on, expired, a foreign signature; or a wrong proof, or a browser that
\* reports an automation signal.  None of them marks the nonce.
CheckFails(p) ==
  /\ posts[p].at = "sent"
  /\ Refuse(p)

CheckPasses(p) ==
  /\ posts[p].at = "sent" /\ posts[p].gen # 0
  /\ Valid(posts[p].nonce)
  /\ posts' = [posts EXCEPT ![p].at = "checked"]
  /\ UNCHANGED <<time, meta, secret, boots, key, challengers, active, issued,
                 browser, savers, redeemed, saves, faults, apart>>

\* markNonceUsed sweeps whether or not the nonce is a duplicate.
Marked(p) == challengers' = [challengers EXCEPT ![posts[p].gen].used =
                               Swept(@) \cup {posts[p].nonce}]

IsDuplicate(p) == posts[p].nonce \in Swept(challengers[posts[p].gen].used)

AlreadyUsed(p) ==
  /\ posts[p].at = "checked"
  /\ IsDuplicate(p)
  /\ Marked(p)
  /\ posts' = [posts EXCEPT ![p] = Idle]
  /\ browser' = GoneFrom(posts[p].nonce)
  /\ UNCHANGED <<time, meta, secret, boots, key, active, issued, savers,
                 redeemed, saves, faults, apart>>

IssueCookie(p) ==
  browser' = [GoneFrom(posts[p].nonce) EXCEPT
                !.cookie = [exp |-> time + challengers[posts[p].gen].ttl, key |-> key]]

Redeem(p) ==
  /\ posts[p].at = "checked"
  /\ ~ IsDuplicate(p)
  /\ Marked(p)
  /\ IssueCookie(p)
  /\ posts' = [posts EXCEPT ![p] = Idle]
  /\ redeemed' = redeemed \cup
       {[nonce |-> posts[p].nonce, gen |-> posts[p].gen,
         late |-> Expired(issued[posts[p].nonce].exp), no |-> Cardinality(redeemed)]}
  /\ UNCHANGED <<time, meta, secret, boots, key, active, issued, savers,
                 saves, faults, apart>>

\* -- SaveBotSettings -------------------------------------------------------

Busy(a) == savers[a].at # "idle"

\* SetBotSettings writes one row after the other, without a transaction.
WriteEnabled(a) ==
  /\ ~ Busy(a) /\ saves + boots <= MaxBotChanges
  /\ \E f \in BotForms :
       /\ savers' = [b \in Savers |->
            IF b = a
            THEN [at |-> "ttl", form |-> f, alone |-> \A c \in Savers : ~ Busy(c)]
            ELSE [savers[b] EXCEPT !.alone = FALSE]]
       /\ meta' = [meta EXCEPT !.on = f.on]
  /\ saves' = saves + 1
  /\ apart' = (apart \/ \E c \in Savers : Busy(c))
  /\ UNCHANGED <<time, secret, boots, key, challengers, active, issued,
                 browser, posts, redeemed, faults>>

WriteTTL(a) ==
  /\ savers[a].at = "ttl"
  /\ meta' = [meta EXCEPT !.ttl = savers[a].form.ttl]
  /\ savers' = [savers EXCEPT ![a].at = "reload"]
  /\ UNCHANGED <<time, secret, boots, key, challengers, active, issued,
                 browser, posts, redeemed, saves, faults, apart>>

\* The error answers the request; what was written stays, nothing is reloaded.
WriteFails(a) ==
  /\ savers[a].at = "ttl" /\ faults < MaxBotFaults
  /\ savers' = [savers EXCEPT ![a] = Away]
  /\ faults' = faults + 1
  /\ apart' = TRUE
  /\ UNCHANGED <<time, meta, secret, boots, key, challengers, active, issued,
                 browser, posts, redeemed, saves>>

\* ReloadBotProtection swaps in a Challenger built from the form.
ReloadBot(a) ==
  /\ savers[a].at = "reload"
  /\ challengers' = Build(savers[a].form, challengers)
  /\ active' = Points(savers[a].form, challengers)
  /\ savers' = [savers EXCEPT ![a] = Away]
  /\ apart' = (apart /\ ~ savers[a].alone)
  /\ UNCHANGED <<time, meta, secret, boots, key, issued, browser, posts,
                 redeemed, saves, faults>>

\* -- Start and time --------------------------------------------------------

\* Mutant: every start draws a secret.
CreateChallengeSecret(stored, boot) == boot

\* The stored secret, or a new one that is stored.
GetOrCreateChallengeSecret(stored, boot) == IF stored # 0 THEN stored ELSE boot

\* The process ends and starts again; a request under way is lost.
Restart ==
  /\ saves + boots <= MaxBotChanges
  /\ boots' = boots + 1
  /\ secret' = GetOrCreateChallengeSecret(secret, boots + 1)
  /\ key' = secret'
  /\ challengers' = Build(meta, challengers)
  /\ active' = Points(meta, challengers)
  /\ posts' = [p \in Posts |-> Idle]
  /\ savers' = [a \in Savers |-> Away]
  /\ apart' = FALSE
  /\ UNCHANGED <<time, meta, issued, browser, redeemed, saves, faults>>

Tick ==
  /\ time < MaxTime
  /\ time' = time + 1
  /\ UNCHANGED <<meta, secret, boots, key, challengers, active, issued,
                 browser, posts, savers, redeemed, saves, faults, apart>>

\* The first start has no secret; protection may already be on.
InitChallenge ==
  /\ time = 0 /\ boots = 1 /\ saves = 0 /\ faults = 0 /\ apart = FALSE
  /\ meta \in BotForms
  /\ secret = GetOrCreateChallengeSecret(0, 1) /\ key = secret
  /\ challengers = Build(meta, <<>>) /\ active = Points(meta, <<>>)
  /\ issued = [n \in Nonces |-> NoCookie]
  /\ browser = [at |-> "idle", nonce |-> 0, cookie |-> NoCookie]
  /\ posts = [p \in Posts |-> Idle]
  /\ savers = [a \in Savers |-> Away]
  /\ redeemed = {}

NextChallenge ==
  \/ Challenged \/ ServePage
  \/ \E p \in Posts : \/ Post(p) \/ CheckFails(p) \/ CheckPasses(p)
                      \/ AlreadyUsed(p) \/ Redeem(p)
  \/ \E a \in Savers : \/ WriteEnabled(a) \/ WriteTTL(a)
                       \/ WriteFails(a) \/ ReloadBot(a)
  \/ Restart
  \/ Tick

SpecChallenge == InitChallenge /\ [][NextChallenge]_gateVars

\* -- Properties ------------------------------------------------------------

\* The types, and that no Challenger knows a nonce nobody was given.
TypeOKChallenge ==
  /\ time \in 0 .. MaxTime /\ boots \in 1 .. MaxBotChanges + 1
  /\ active \in 0 .. Len(challengers)
  /\ \A g \in 1 .. Len(challengers) :
       \A n \in challengers[g].used : issued[n].key # 0
  /\ browser.at \in {"idle", "sent", "page"}
  /\ browser.at \in {"sent", "page"} => issued[browser.nonce].key # 0
  /\ \A p \in Posts : posts[p].at # "idle" => issued[posts[p].nonce].key # 0

\* While a nonce can still be posted, a Challenger redeems it once, however
\* many copies of the solution race and whatever the sweep removes: two
\* redemptions by one Challenger need one that passed its expiry check in
\* time and was marked after the window.
OncePerWindow ==
  \A r, q \in redeemed :
    (r # q /\ r.nonce = q.nonce /\ r.gen = q.gen) =>
      r.late \/ q.late

\* A browser that was given a cookie is not challenged again before the cookie
\* ends, across saves of the settings and restarts: the secret outlives both.
SolvedStaysAdmitted ==
  [][Challenged => browser.cookie = NoCookie \/ time > browser.cookie.exp]_gateVars

\* What runs is what is stored, unless a write failed or two saves overlapped
\* and no later save ran alone.
RunsWhatIsStored ==
  (~ apart /\ \A a \in Savers : ~ Busy(a)) =>
    /\ (active # 0) = meta.on
    /\ active # 0 => challengers[active].ttl = meta.ttl

\* markNonceUsed's comment: a solution "must not mint more than one bypass
\* cookie within its 2-minute window".
OneCookiePerNonce ==
  \A r, q \in redeemed : r.nonce = q.nonce => r = q
=============================================================================
