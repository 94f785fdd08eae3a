----------------------------- MODULE ThreatScore -----------------------------
(***************************************************************************)
(* The judgment of a network behind the threat score: the log worker's     *)
(* Record, the goroutine that asks the TypeSafe service about an ASN, and  *)
(* the settings handler that turns the service on and off or changes its   *)
(* key while a judgment is under way.                                      *)
(*                                                                         *)
(* Key 0 is no key.  A judgment is the key it was asked with; what the     *)
(* service answers, and the sum of the other signals, are left out.        *)
(***************************************************************************)
EXTENDS Integers, FiniteSets

CONSTANTS
  Asns,          \* autonomous systems with a name
  Judges,        \* goroutines of judgeASN
  Keys,          \* API keys, positive numbers
  Forms,         \* calls of SaveTypeSafeSettings
  MaxKeySaves,   \* bound: saves of the settings
  MaxKeyFaults   \* bound: failing database calls

ASSUME ScoreAssumption == Keys \subseteq Nat \ {0} /\ MaxKeySaves \in Nat /\ MaxKeyFaults \in Nat

VARIABLES
  keyRow,     \* the rows typesafe_enabled and typesafe_api_key: [on, key]
  classifier, \* the key Scorer.classifier asks with, 0 for nil
  asnCache,   \* Scorer.asnCache: per ASN the key its judgment was asked with, or 0
  inFlight,   \* Scorer.asnInFlight
  looked,     \* the log worker in classifyASN: the ASN and the key it read
  judges,     \* per goroutine: the ASN and the key, or none
  forms,      \* per call of the handler: where it is, the form, what it read
  keySaves, keyFaults, \* history: how many
  crossed,    \* history: the last reload met a judgment under way or about to begin
  torn        \* history: a write of the setting failed, a form was refused or
              \* two saves overlapped, and none that ran alone has finished since

scoreVars == <<keyRow, classifier, asnCache, inFlight, looked, judges, forms,
               keySaves, keyFaults, crossed, torn>>

NoJudge == [asn |-> 0, key |-> 0]
NoForm == [at |-> "idle", on |-> FALSE, key |-> 0, blank |-> FALSE, alone |-> FALSE,
           sound |-> TRUE]

Asking == {j \in Judges : judges[j] # NoJudge}
Filling(f) == forms[f].at # "idle"

\* -- Record, on the log worker ----------------------------------------------

\* classifyASN answers at once; an ASN nobody has judged or is judging needs a
\* judgment.  One lock is held to read, another to mark the ASN.
ClassifyASN(a) ==
  /\ looked = NoJudge
  /\ classifier # 0 /\ asnCache[a] = 0 /\ a \notin inFlight
  /\ looked' = [asn |-> a, key |-> classifier]
  /\ UNCHANGED <<keyRow, classifier, asnCache, inFlight, judges, forms, keySaves,
                 keyFaults, crossed, torn>>

StartJudge ==
  /\ looked # NoJudge /\ looked' = NoJudge
  /\ inFlight' = inFlight \cup {looked.asn}
  /\ \E j \in Judges \ Asking : judges' = [judges EXCEPT ![j] = looked]
  /\ UNCHANGED <<keyRow, classifier, asnCache, forms, keySaves, keyFaults, crossed, torn>>

\* -- Judgments -------------------------------------------------------------

\* The mark of the ASN goes when the goroutine ends, whatever the outcome.
Ended(j) ==
  /\ judges' = [judges EXCEPT ![j] = NoJudge]
  /\ inFlight' = inFlight \ {judges[j].asn}
  /\ UNCHANGED <<keyRow, classifier, looked, forms, keySaves, keyFaults, crossed, torn>>

JudgeASN(j) ==
  /\ j \in Asking
  /\ asnCache' = [asnCache EXCEPT ![judges[j].asn] = judges[j].key]
  /\ Ended(j)

\* Mutant: a judgment that fails leaves the mark.
JudgeFailsMarked(j) ==
  /\ j \in Asking
  /\ judges' = [judges EXCEPT ![j] = NoJudge]
  /\ UNCHANGED <<keyRow, classifier, asnCache, inFlight, looked, forms, keySaves,
                 keyFaults, crossed, torn>>

\* An error or the timeout: nothing is cached.
JudgeFails(j) ==
  /\ j \in Asking
  /\ Ended(j)
  /\ UNCHANGED asnCache

\* -- SaveTypeSafeSettings --------------------------------------------------

\* The stored key is read for a form that leaves the field blank; the error of
\* that read is dropped.  Enabled without a key at all is refused: the setting
\* is not written, and the classifier is turned off.
OpenForm(f, failed) ==
  /\ ~ Filling(f) /\ keySaves < MaxKeySaves /\ keySaves' = keySaves + 1
  /\ failed => keyFaults < MaxKeyFaults
  /\ keyFaults' = IF failed THEN keyFaults + 1 ELSE keyFaults
  /\ \E on \in BOOLEAN, key \in Keys \cup {0} :
       LET kept == IF key # 0 THEN key ELSE IF failed THEN 0 ELSE keyRow.key
           refused == on /\ kept = 0
       IN forms' = [o \in Forms |->
            IF o = f
            THEN [at |-> IF refused THEN "reload" ELSE "enabled", on |-> on /\ ~ refused,
                  key |-> kept, blank |-> key = 0,
                  alone |-> ~ refused /\ \A p \in Forms : ~ Filling(p), sound |-> ~ failed]
            ELSE [forms[o] EXCEPT !.alone = FALSE]]
  /\ torn' = (torn \/ (\E p \in Forms : Filling(p)) \/ forms'[f].at = "reload")
  /\ UNCHANGED <<keyRow, classifier, asnCache, inFlight, looked, judges, crossed>>

WriteSwitch(f) ==
  /\ forms[f].at = "enabled"
  /\ keyRow' = [keyRow EXCEPT !.on = forms[f].on]
  /\ forms' = [forms EXCEPT ![f].at = "key"]
  /\ UNCHANGED <<classifier, asnCache, inFlight, looked, judges, keySaves, keyFaults,
                 crossed, torn>>

\* Mutant: a blank field is written as it is.
WriteBlankKey(f) ==
  /\ forms[f].at = "key"
  /\ keyRow' = [keyRow EXCEPT !.key = IF forms[f].blank THEN 0 ELSE forms[f].key]
  /\ forms' = [o \in Forms |->
       IF o = f THEN [forms[f] EXCEPT !.at = "reload"]
       ELSE [forms[o] EXCEPT !.sound = @ /\ keyRow'.key = keyRow.key]]
  /\ UNCHANGED <<classifier, asnCache, inFlight, looked, judges, keySaves, keyFaults,
                 crossed, torn>>

\* Another save's form no longer holds the stored key.
WriteKey(f) ==
  /\ forms[f].at = "key"
  /\ keyRow' = [keyRow EXCEPT !.key = forms[f].key]
  /\ forms' = [o \in Forms |->
       IF o = f THEN [forms[f] EXCEPT !.at = "reload"]
       ELSE [forms[o] EXCEPT !.sound = @ /\ keyRow'.key = keyRow.key]]
  /\ UNCHANGED <<classifier, asnCache, inFlight, looked, judges, keySaves, keyFaults,
                 crossed, torn>>

\* What was written stays, and the scorer is reloaded all the same.
WriteSettingFails(f) ==
  /\ forms[f].at \in {"enabled", "key"} /\ keyFaults < MaxKeyFaults
  /\ keyFaults' = keyFaults + 1
  /\ forms' = [forms EXCEPT ![f].at = "reload", ![f].alone = FALSE]
  /\ torn' = TRUE
  /\ UNCHANGED <<keyRow, classifier, asnCache, inFlight, looked, judges, keySaves,
                 crossed>>

\* The classifier of a setting, and the empty maps that come with it.
KeyOf(on, key) == IF on THEN key ELSE 0

\* Mutant: the judgments made with the old key stay.
ReloadClassifierOnly(f) ==
  /\ forms[f].at = "reload"
  /\ classifier' = KeyOf(forms[f].on, forms[f].key)
  /\ inFlight' = {}
  /\ forms' = [forms EXCEPT ![f] = NoForm]
  /\ crossed' = (Asking # {} \/ looked # NoJudge)
  /\ torn' = (torn /\ ~ forms[f].alone)
  /\ UNCHANGED <<keyRow, asnCache, looked, judges, keySaves, keyFaults>>

ReloadTypeSafeConfig(f) ==
  /\ forms[f].at = "reload"
  /\ classifier' = KeyOf(forms[f].on, forms[f].key)
  /\ asnCache' = [a \in Asns |-> 0]
  /\ inFlight' = {}
  /\ forms' = [forms EXCEPT ![f] = NoForm]
  /\ crossed' = (Asking # {} \/ looked # NoJudge)
  /\ torn' = (torn /\ ~ forms[f].alone)
  /\ UNCHANGED <<keyRow, looked, judges, keySaves, keyFaults>>

InitScore ==
  /\ \E on \in BOOLEAN, key \in Keys \cup {0} : keyRow = [on |-> on /\ key # 0, key |-> key]
  /\ classifier = KeyOf(keyRow.on, keyRow.key)
  /\ asnCache = [a \in Asns |-> 0] /\ inFlight = {} /\ looked = NoJudge
  /\ judges = [j \in Judges |-> NoJudge]
  /\ forms = [f \in Forms |-> NoForm]
  /\ keySaves = 0 /\ keyFaults = 0 /\ crossed = FALSE /\ torn = FALSE

NextScore ==
  \/ \E a \in Asns : ClassifyASN(a)
  \/ StartJudge
  \/ \E j \in Judges : JudgeASN(j) \/ JudgeFails(j)
  \/ \E f \in Forms : \/ \E failed \in BOOLEAN : OpenForm(f, failed)
                      \/ WriteSwitch(f) \/ WriteKey(f) \/ WriteSettingFails(f)
                      \/ ReloadTypeSafeConfig(f)

SpecScore == InitScore /\ [][NextScore]_scoreVars

\* The client of the service has a timeout: a judgment ends.
FairScore == \A j \in Judges : WF_scoreVars(JudgeASN(j) \/ JudgeFails(j))

\* -- Properties ------------------------------------------------------------

TypeOKScore ==
  /\ classifier \in Keys \cup {0} /\ keyRow.key \in Keys \cup {0}
  /\ inFlight \subseteq Asns
  /\ \A j \in Asking : judges[j].asn \in Asns /\ judges[j].key \in Keys
  /\ \A f \in Forms : forms[f].at \in {"idle", "enabled", "key", "reload"}

\* The package's comment: an ASN nobody has seen is judged once, off the log
\* worker.  Two judgments of one ASN at a time, or a cached one that was asked
\* with another key than the one in use, need that the last reload of the setting
\* met a judgment under way or about to begin.
JudgedUnderThisKey ==
  ~ crossed =>
    /\ \A j, k \in Asking : judges[j].asn = judges[k].asn => j = k
    /\ \A a \in Asns : asnCache[a] \in {0, classifier}

\* SaveTypeSafeSettings' comment: "A blank key field keeps the stored one",
\* through every interleaving in which its read of that key succeeded and no
\* other save replaced the key since.
BlankKeepsKey ==
  [][\A f \in Forms : (WriteKey(f) /\ forms[f].blank /\ forms[f].sound) =>
                        keyRow'.key = keyRow.key]_scoreVars

\* The classifier in use is the stored one, unless a write failed, a form was
\* refused or two saves overlapped, and none has run alone since.
ClassifierFollowsSetting ==
  (~ torn /\ \A f \in Forms : ~ Filling(f)) => classifier = KeyOf(keyRow.on, keyRow.key)

\* The mark of an ASN under judgment does not stay: a judgment that fails can
\* be tried again.
JudgmentEnds == \A a \in Asns : a \in inFlight ~> a \notin inFlight

\* ReloadTypeSafeConfig's comment: "clears the ASN cache, so a key change or a
\* disable takes effect on the next request rather than serving stale
\* judgments made under the old config".
CacheOfThisKey == \A a \in Asns : asnCache[a] \in {0, classifier}
=============================================================================
